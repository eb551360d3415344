# A TLA+ model of Friday

Friday (`src/`, version 0.2.1) is a single-owner control plane for agents: a *Hub* (`apps/fridayd`)
keeps the durable truth, *Runners* (`apps/runner`) on other machines pull jobs and execute them in
sandboxes, *channels* (`apps/channel-gateway`) carry the Owner's messages in and the Hub's replies
out, and a *Pi worker* (`apps/pi-worker`) talks to the model. This directory holds TLA+ modules
translated from that code, TLC configurations that check them on small instances, and proofs that
TLAPS checks for every instance.

## 1. Inventory

| Part | State it keeps | Operations | What is hard, and what makes it correct |
|---|---|---|---|
| Job registry `job-registry.ts` | one row per job (status, signed spec with a lease, last sequence number), the event log of each job; SQLite, one transaction per method | create, approve, waitForToolApproval, dispatchAfterToolApproval, redispatchAfterDeniedToolCall, pull, recoverAgent, acceptEvent, reconcile, cancel | reports of old leases, replays and gaps, cancellation racing an outcome, renewals racing a Runner: the log is fenced by leases, outcomes come from the log, terminal is final |
| Node tool policy `node-tool-policy.ts` | one row per proposed tool call (pending, approved with an authorization, denied) | evaluate, approve, repair at open | writes its row and the job in two commits, so a crash falls between; restarts reconcile; the Owner's clearance races the lease: nothing but reads runs without clearance, authority ends with the lease, held jobs can be released |
| Runner `runner.ts` | a checkpoint file per agent job, a worktree, its loop | pull, execute, propose calls, execute cleared calls, report, recover | crashes between executing and checkpointing, lost responses: no call outlives its lease, what the model is told is true but for a result that was never saved, work is not abandoned |
| Channel outbox and notifier `channel-outbox.ts` | job-to-recipient bindings, terminal and clearance notices with one-minute delivery leases | bind, enqueue, pull, acknowledge, repair at start, clearance by reply | at-least-once delivery, acknowledgement after the lease was lost, a crash between an event and its notice: what is listed is shown, and what the Owner has to know gets listed |
| Conversations `conversation-*.ts` | turns with a life cycle, one queue per conversation in memory, media | accept, think, call tools, propose, schedule, record, repair at open | retried messages, a crash between proposal and scheduling, tool rounds with awaits: one effect per message, no request is held up by another's failure |
| Hub server `server.ts` | the mutation barrier | about 80 routes | the order of calls into the registries and the awaits between them |
| Hub state `state.ts`, `sqlite-event-store.ts`, `event-store.ts` | the event log, the state it is replayed into, lock row and lock file | open, migrate, append, apply, rehydrate | a crash between commit and apply, takeover of a stale lock by several processes, a lock row whose process id another process has got: one holder, memory is what the log replays to, and only an event of an unknown type keeps it from being read |
| Self-improvement `self-improvement-coordinator.ts`, `m3-registry.ts` | bindings of jobs to improvements, patches; versions of procedures and skills, definitions of adapters and MCP servers | request, observe, promote, reject, reconcile; register, verify, enable, roll back | observation twice at once, a crash inside a promotion of four commits: nothing is released or enabled without its evidence, no binding stays pending |
| Fleet `runner-registry.ts`, `fleet-scheduler.ts`, `channel-fleet-management.ts`, `channel-platform-management.ts` | enrolment tokens, devices, pending revocations and stops in memory | issue, enrol, revoke, select a Runner, ask and confirm in a chat | a confirmation waits while jobs, messages and other requests arrive: a Runner with work is not revoked |
| Model access `model-access.ts` | tokens in memory | issue, authorize, forward, revoke, prune | retries, a job that is approved again while tokens of its old lease are out: one token per request, none for an ended job, no call let through under another lease |
| Pi worker `pi-worker-client.ts`, `supervisor.ts` | the active turn, a session, a replay cache | ping, start, prompt, settle, close, time out, rotate | late output of a killed worker, crashes between acknowledgement and reply: a turn gets its own answer, or fails alone |
| Channel gateway `index.ts`, `channel-runtime.ts`, `channel-adapters.ts` | offsets, cursors, sockets, the stored settings, one task per channel | poll, forward, reply, reconnect, configure, disable | restarts, messages the Hub refuses for ever, turns that fail without an answer, silent peers, reconfiguration under a deadline: nothing the Hub has to hear is skipped, both sides hold one credential |
| Sandbox `sandboxd`, professional jobs in `runner.ts`, `worktree-manager.ts`, `job-artifact-store.ts` | a worktree, a container and a relay, artifacts | prepare, execute, relay, collect, upload, report | the client dies, the container lives: success is the word of one finished run |
| A node's disk: `runner.ts`, `workspace-registry.ts`, `fridayctl`, `deploy/` | device key, workspace list, installed releases | enrol, register a workspace, bootstrap, upgrade, install the sandbox | processes side by side without a lock, kills halfway, rollbacks that fail: the key the Hub knows, a valid list, links to complete releases, one release between undisturbed scripts |

The other parts are authentication (sessions, WebAuthn, password), tables of single statements
(memory, voice), stateless clients (web search, voice providers), the web console and the
configuration; `PROJECT.json` lists each with its reason.

How they interact: the Runner calls the Hub over HTTP and the Hub never calls the Runner. Every
handler of the Hub runs on one Node.js thread, so the code between two `await`s is atomic against
other requests. It is not atomic against a crash: every registry commits on its own SQLite
connection, so a handler that touches two of them can be cut between them. The repair happens in
the next `open()`.

## 2. The modules

| Module | Models | Composes |
|---|---|---|
| `LeasedLog` | what the job registry promises a client: a log per job fenced by leases that only grow, closed once | |
| `JobRegistry` | `SqliteJobRegistry` | refines `LeasedLog` |
| `NodeToolPolicy` | `NodeToolPolicy`, Hub crashes and starts, the Runner as environment | extends `JobRegistry` |
| `AgentRunner` | `FridayRunner` executing agent jobs, its crashes and lost messages | extends `NodeToolPolicy` |
| `JobRegistryProofs` | inductive invariant, action properties and the refinement theorem | extends `JobRegistry` |
| `NodeToolPolicyProofs` | invariants of the policy, and that it uses the registry | extends `NodeToolPolicy`, `JobRegistryProofs` |
| `SteadyCallProofs` | that a pending call holds its job while the tools stay | extends `MCNodeToolPolicy`, `NodeToolPolicyProofs` |
| `AgentRunnerProofs` | invariants of the Runner, and that it implements `NodeToolPolicy` | extends `AgentRunner` |
| `Mailbox` | what an outbox promises: every notice shown at least once (`MailSpec`), none settled unseen (`MailSafety`) | |
| `ChannelOutbox` | the notices, their delivery loops, clearance by reply | refines `Mailbox` |
| `Conversation` | turns, tool rounds, scheduling of a proposal | |
| `ChannelGateway` | the polling loops of Telegram and iLink | |
| `ChannelRuntime` | setting a channel up, between Hub and Gateway | |
| `SocketAdapter` | the web sockets of QQ and CMCC | |
| `StoreLock` | the lock file of the JSONL store, one action per file system call | |
| `HubState` | the event log, its replay, the lock row | |
| `ChannelFleet` | Runners: enrolment, scheduling, revocation from a chat and from the web | |
| `SelfImprovement`, `SignedCatalog` | improvements and patches; versions and definitions of extensions | |
| `PiWorker`, `ModelAccess` | a turn of the model worker; the model tokens of Runners | |
| `SandboxJob` | a professional job through Runner, Hub, daemon and container | |
| `NodeEnrolment`, `WorkspaceList`, `NodeRelease` | what a node keeps on its disk | |
| `MCChannels`, `MCHub` | one component per behaviour, see section 3 | the modules above |
| `ConversationProofs` | one effect per message | extends `Conversation` |
| `ChannelProofs` | set-ups, polling loops, sockets, the refinement of `Mailbox`, and the types of the composition | extends `MCChannels`, `ConversationProofs` |
| `NodeProofs` | model tokens, professional jobs, and the disk of a node | extends the modules of those parts |
| `HubProofs` | the lock, the event log and its replay, the fleet, the worker, improvements and versions; the composition | extends `MCHub`, `NodeProofs` |
| other `MC*` | model values and symmetry for TLC | |

### JobRegistry

A method of the registry is one `BEGIN IMMEDIATE` transaction, so it is one action. A method that
throws, answers a duplicate or only reads is a stuttering step. The variables are the columns:

* `status`, `tool`, `runner`, `lastSequence`, `events` are those of `jobs_v2` and `job_events_v2`;
  `rows` is the order by `created_at` that `pull` uses. A job is its idempotency key.
* `lease` numbers the specs signed for the job. `#signSpec` draws a fresh UUID, so a new number
  is what the code gets; comparing lease ids is comparing numbers.
* `ttl` is the time left on the lease in ticks. The code compares an expiry with the clock in two
  ways, and the model keeps both: holding and renewing call a lease over *at* its expiry
  (`LeaseLapsed`), reporting and reconciling only *after* it (`LeaseHonoured`).
* `approved` is a history variable: the Owner approved this job.

The three professional tools (codex, pi, claude) take the same branches, so `Tools` has one of
them. Events of the types output, artifact and error are one body `NOTE`; a state event carries any
of the eleven states, whatever runner.ts would send. Sequence numbers are enumerated from 0;
negative ones are rejected by `validateRunnerEvent`.

### NodeToolPolicy

`evaluate` and `approve` write the call row first and the job second. The step of the model is the
whole handler, with one alternative: the process ends between the commits (`CrashBetween`). A start
(`Open`, then one `RestoreHold`, `CompleteClearance`, `DenyRow` or `SkipRow` per row, then
`Opened`) reads the rows in the order of `updated_at`, as `#reconcileInterruptedApprovals` does, may
end between any two of them, and takes its `now` once, so no tick passes while it runs. Rows one
start rewrites share their `updated_at` and are ordered by `call_id` in the code; the model keeps
the order they were processed in, one of the orders the code can produce.

`unavailable` is the constructor's list. It may differ from start to start, because `server.ts:571`
computes it from the automatic-approval switch. There is one tool name per risk an Agent meets:
`system.snapshot` (R0), `file.write` (R1), `service.restart` (R2); R3 takes the branch of R2.
An authorization is `authTtl`, its remaining ticks, never longer than the lease it was given under.

The Runner is the environment. `JobStep` lets it do what `runner.ts` does: pull, report RUNNING,
notes and one of two outcomes, recover after a restart, reconcile a job it could not prepare. It
proposes calls while its job is RUNNING, or DISPATCHED with a call of its lease already decided
(`AtWork`): when the answer that would have paused it is lost, the retry of the request reads the
decision and the loop goes on. Whether that environment is wide enough is not taken on trust:
`AgentRunner` implements `PolicySpec` (`ImplementsPolicy`).

### AgentRunner

The Runner is one sequential loop, so the model is a program counter (`run.at`) with the locals of
`#pullAndExecute`, `#runRemoteAgentLoop` and `#recoverAgentCheckpoints`. Its disk is `ckpt`
(`agent-checkpoint.json`, replaced atomically by a rename) and `runtime` (the job directory).
`invoked` and `unsaved` are history variables: calls whose tool was invoked, and those of them whose
result never reached the checkpoint.

| Place | Code | Next |
|---|---|---|
| `off`, `idle` | process down; waiting for the next heartbeat | `recover` |
| `recover` | `#recoverAgentCheckpoints`, one request per checkpoint, any order | `pull` when all were accepted; a throw ends the round |
| `pull`, `prepare`, `first_save`, `start` | l.185-207 | `reconcile` when the directory exists without a checkpoint |
| `grant` | model access, then the checkpoint's pending call (l.209-232) | `plan`, or `ask` for a pending call of this lease |
| `plan` | one model output of the 12-step loop | `ask`, `output`, again, or `error` |
| `ask`, `invoke`, `observed` | evaluate, verify and execute, save | `plan`; `idle` when the job is held |
| `output`, `succeed`; `error`, `fail` | reports of the outcome | `idle` |

A request is `Answered`, its answer is lost after the Hub acted, it is lost itself, or it is refused.
`#request` sends a lost one again, with the same body, before it throws; `run.retry` remembers which
of the two happened, because the Hub answers the repetition of a recorded event as a duplicate. The
Hub's side of a request is the action of the module that models it.

A save may fail (`SaveFails`). After an answer of the Hub that is indistinguishable from an answer
lost twice, and while planning from a failure there, so the action covers the other two places: the
first checkpoint, without which the next round reconciles the job, and the result of a tool. An
answer 5xx is repeated too (`runner.ts:499`): a lost request when the Hub did nothing, a lost answer
when it did. `Poll` takes all checkpoints where `recover` stops at 256 directories (l.376).

Choices: what the model says is nondeterministic, with fresh call ids; one note stands for the
output on stdout and stderr; a sandbox failure, malformed output repeated too often and a spent
budget are one step (`PlanFails`). The Hub does not crash here, since that is `NodeToolPolicy`'s
subject and a Runner sees it as a lost request. Professional jobs are in `SandboxJob`.

### ChannelOutbox and Mailbox

A handler that records a job's end or a call announces it without an `await` in between, so
`Announce` is both, or the process ends first (`HubEnds` inside the step) and `HubStarts` has to
announce what is missing. `notice` holds the rows of the two tables, `lease` counts delivery leases
as the code's UUIDs do, `late` is an expired `lease_until`. `Pull` ends expired leases and leases
the oldest deliverable notice, in one transaction. A courier is a delivery loop of the Gateway; two
of them overlap while a channel is configured again. Two things are left as the code has them: a
call asked while its job is not bound is announced only when it is asked again or at a start, and a
reply clears the newest pending call, not the one its message quotes (`channel-outbox.ts:204`).

### Conversation

A delivery is a request that carries a message; `line` is the promise chain of its conversation.
`at` is where the delivery waits: for the model, a tool, the scheduling, the policy approval, the
record. `AcceptKnown` is the idempotent path: another text is a conflict, a proposal without a job
is scheduled again, anything else is answered from the row. Unreadable images (l.187) and a tool
result that is too long are not caught: the turn stays THINKING until the next start, and a
repetition of the message is answered without a reply. `turnJob` is named by the turn, which is its
idempotency key, and counts how often a job was created for it.

### ChannelGateway, ChannelRuntime, SocketAdapter

`ChannelGateway`: both loops have a position in memory and one that lasts, `forgotten`: what
Telegram dropped because a poll's offset passed it, what iLink's cursor file passed. Telegram's
loop moves its offset before it forwards (`index.ts:227`), but the offset is only sent with the next
poll and a failure starts the loop without one. A text the Hub takes is not always answered: there
is no reply while no conversation is configured (`Unanswered`), nor to the repetition of one whose
turn failed where nothing catches it, which stays THINKING (`TurnFails`) until the next start of
the Hub; the loop then passes it in silence. And some texts are refused whenever they come
(`Refused`): a stranger's (401), another text under a known id (409, `server.ts:1600`), one that
`conversation-registry.ts:474` throws for (500; iLink's loop lets up to 64 KiB pass, the registry
32). The loop starts over at such a text for ever, sends the replies before it again each time, and
hears nothing behind it, although the repository's README.md:78 has a stranger's message rejected.
So `NothingSkipped` and `OwnerIsHeard` say what is left: no loop passes a text the Hub did not take,
nor one without its reply where there is a reply, and what no refused text precedes is heard.

`ChannelRuntime`: a request goes from the Hub, which holds its mutation barrier, to the Gateway and
back to the Hub's registry. The Hub's 45 s deadline is `SetupFails`, a fault at any moment;
`ending` are loops that were told to stop and are still in a request.

`SocketAdapter`: one queue per connection, in order, and the queue of a broken connection goes on
beside the next. The code notes a sequence number before it looks whether the session is ready
(`channel-adapters.ts:221`, `:232`); no property depends on that order. A peer that went silent is
found by the handshake deadline or the heartbeat.

### StoreLock and HubState

`StoreLock` has one action per link, read, unlink. A claim path is the sequence of the claimants it
names: behind a dead claimant the next contender tries the successor path. `HubState` keeps the log
(`disk`), the state in memory and the moment between (`applying`). A request is an id, a kind, its
sender and its time of sending, which is what replay tells apart. The routes' schemas use the
patterns that the parsers of `apply` use (`server.ts:72-76`), so requests are well formed in both;
`ApplyEvent` throws for what else `FridayState.apply` throws for. Other events are types: any may be
appended, and only the seven that `state.ts:166-174` names replay (`SupportedAudits`). A start takes
any live process with the id in the lock row for a running Hub (`PidLives`,
`sqlite-event-store.ts:74-81`): an unrelated process that got the id, or itself, as in a container
where the Hub is always process 1. It is then refused although no Hub runs, and stays so while that
process lives; `LogReplays` therefore speaks of what a start that gets the lock reads.

### ChannelFleet, SelfImprovement, SignedCatalog

`ChannelFleet`: `asked`/`confirming` are `pendingByOwner`, `withdrawn` is `pendingRunnerIds`, and
`revoking` are confirmed revocations, behind the barrier or writing their events. A second request
replaces an entry that is being confirmed, and when the first ends it removes the entry of the
second: that Runner stays in `pendingRunnerIds` until the Hub restarts (l.149-156).
`CreateAuto` is `selectFleetRunner`; an explicit target is not checked for enrolment
(`server.ts:1961-1975`).

`SelfImprovement`: `Request` can be cut after each commit; `siReading` counts observations that
await the artifacts; `siTail` holds the four commits after them, which no other request can
interleave with but a crash can cut. The generic patch routes of `server.ts` act on the same row.
A crash between the test and the clearance leaves TESTED, and the binding is then rejected.

`SignedCatalog`: a registration is two statements without a transaction (`m3-registry.ts:231-239`),
so a crash between them can leave the active version enabled and unverified; `EnabledIsVerified`
excuses exactly that state (`catCut`), which the code leaves open.

### PiWorker and ModelAccess

`PiWorker` has the client (`pwStep`: what the turn waits for), the workers with their stdin and
stdout, and Pi. `Terminate` is `#terminate`: it rejects whoever waits, and what the killed worker
wrote can still be read, for the stdout listener is not bound to its child. `ModelAccess` has the
two maps of the broker against a job whose lease ends, which is held, waits, is approved again or
pulled again. Ending and holding revoke the tokens; a new lease does not, so a token can outlive the
lease it was given for, and what stops it is the look at the job with every call. A proxied call is
`Authorize`, then `Forward` once its body was read; `AccessFollowsJob` compares the token's lease
with the job's at the first.

### SandboxJob

`sjRunner.at` walks `#pullAndExecute` for a professional job. `Exchange` is a request with its one
repetition: done, done without the Runner hearing of it, refused, or not done. So a lost answer to
an upload ends the job FAILED although its run succeeded, because the repetition is refused
(`job-artifact-store.ts:31`), and a lost event leaves a gap after which every later report is
refused (`job-registry.ts:258`): the property asks only that nothing worse happens. The daemon does
not notice that its client left, so `sjRun` goes on without one, as an orphan when the daemon ends.
A git worktree that cannot be made and a diff over 700 KiB end the job as other failures do and have
no action of their own.

### NodeEnrolment, WorkspaceList, NodeRelease

`NodeEnrolment`: the device file exists before its content does (`runner.ts:785`), a process can
end there or meet such a file. `WorkspaceList`: commands read, check and write the whole list
without a lock, so a change can be lost but the list stays valid; one directory that is gone makes
it unreadable (`workspace-registry.ts:176-180`). `NodeRelease`: a script stores the release, saves,
changes the files in order (`Changes`), restarts, verifies; an error or signal undoes, a kill does
not. Nothing keeps two scripts apart: `fridayctl` gives up at its SSH deadline (`bootstrap.ts:330`,
`:391`), its script goes on, and the next run starts another. A rollback is a list of commands of
which one may fail or be killed, which leaves the rest undone (`RestoredInPart`). So what the
installation of a release means is weaker than the "atomically switch" of `bootstrap.ts:213`, and
`ReleaseIsWhole` says what it is:

* whatever happens, a link names a complete release;
* a script that was alone leaves everything as it found it or at its own release, and says which;
* between scripts, link and unit are of one release, until a kill between two changes
  (`upgrade-managed-runner.sh:88-89`), a rollback that fails or a second script (`nrTorn`). What
  these leave may be of two releases, a later failed upgrade restores it as it is, and an undisturbed
  upgrade or bootstrap ends it.

An enrolment cut off halfway (`EnrolledHalfway`) may leave a node that every further bootstrap
refuses, because its token file stays (`install-managed-runner.sh:124`). A re-bootstrap leaves a
running service running (`enable --now`), so there the property does not ask for the service to run
the release. A release is named by the digest of its archive, and every run of `fridayctl` packs a
new one with the times of its files, so two scripts do not unpack one release into one candidate
directory at once; `Unpack` is one step.

## 3. Runs

| Run | Instance | What it shows |
|---|---|---|
| `job_registry` | 1 job, 2 runners, leases of 2 ticks, 2 leases, 4 reports | all invariants, both action properties and the refinement of `LeasedLog` |
| `node_tools` | 1 job, 3 calls through 2 leases with every tool available, 2 calls through 3 leases with tool lists as `server.ts` configures them (`MCNodeToolPolicy` picks one setting at the start) | authority, clearance and denial through crashes and restarts that change the list; a pending call holds its job while the list stays |
| `restart_redispatch` | one unavailable tool, 2 calls | the finding below |
| `agent_runner` | 1 job, 2 leases of 1 tick, 2 calls, 1 crash, 1 loss, tool lists as configured | clearance and lease of every invocation, that the Runner stays in the policy's environment, and that what the model is told is what happened, but for results that were never saved |
| `agent_ends` | 1 lease, 1 crash, 2 losses, fair | the Hub accepts every checkpoint, and every dispatched job ends |
| `agent_stale_checkpoint`, `agent_full_checkpoint`, `agent_unobserved_success` | smallest instances | the findings below |
| `channels` | outbox: 1 job, 1 call, 2 loops, 2 faults; conversation: 2 messages, 3 deliveries, 2 texts, 1 restart; gateway: 3 updates, of which one loop has a refused and one an unanswered text, 2 faults; runtime: 3 requests of either kind, 2 faults; socket: 3 messages, 2 faults | notices are shown, messages have one effect and are heard unless a refused one precedes them, requests end, channels agree, silent peers are replaced |
| `hub` | lock: 4 processes, 2 deaths; log: 6 requests, 5 events, 2 faults; fleet: 2 Runners, 1 job, 2 chats; improvements: 2 jobs, 2 ends of the Hub, 2 observers; catalog: 2 versions, 4 registrations; worker: 3 turns, 4 processes, 2 faults; tokens: 2 requests, 2 leases; sandbox: 2 leases, 2 faults; node: 2 processes of each kind, 3 keys; 3 workspace ids and 3 directories under a limit of 2, 3 steps; 2 releases of which one works, 5 steps of scripts begun (twice for one beside another), failed or killed | the invariants of section 1's last eight rows, that opening the store ends, that bound jobs settle |
| `hub_audit_event`, `worker_ends_hub` | one component's smallest instance | the findings below |

Why the bounds are enough. Jobs share nothing but `pull`'s choice of the oldest, which decides only
which job is renewed, and every property is about one job; the theorems cover any number. Two
leases are the old one and the new one; the policy gets a third so that a call of each of two
superseded leases meets the current one. A lease of two ticks has a time before, at and after its
expiry. Four reports are RUNNING, a hold or note, an outcome, and one that should be refused.
Two calls give a denied or cleared call beside a pending one; three let one of each meet.

`CHECK_DEADLOCK FALSE` is right in all of them: a job that ended with an expired lease accepts
nothing any more, and MaxLease, MaxEvents and Calls bound the rest. Symmetry is used for runners or
calls, in runs of safety properties only.

For the Runner, a step budget and a checkpoint capacity of two stand for the code's twelve: both
loops do the same at every step, and the properties depend on whether the one can exceed the other.
Two losses lose a request and its repetition, which is what makes `#request` throw.

`channels` and `hub` check several components in one run. The variable `component` is chosen in the
initial state and only that component moves, so the state space is the sum of theirs, not the
product. That is sound because these components share no state: where two parts of the code do
interact (outbox and jobs, setup and registry, improvement and its three stores, job and lease),
one module has both sides.

In `channels`, two overlapping couriers are all the code ever has; two faults let a crash meet an
expired lease; three deliveries are a first one, its repetition and another message. In `hub`, four
openers and two deaths let a claimant and the successor of a claimant die while two others contend;
two Hub deaths cut a promotion twice; a replay cache of seven is rotated in time after two turns and
still filled by turns that failed; the third turn meets the output of the first two workers. Two
sandbox leases and two faults put a second pull beside a container that still runs.

In `hub`'s log both types of events that apply knows and types it does not are appended, and a
process with either id may live at each start. Its workspace list has an id and a directory more
than the limit, so that the limit is what refuses the third. Five steps of scripts let one be killed
halfway and the next fail, or two overlap and one of them fail.

One constant leaves something out: `GraveCalls = {}` keeps R3 calls from the outbox run, as no Agent
tool has that risk.

Fairness. `FairAgentSpec` assumes the Runner keeps taking steps (its loop catches every error and
its requests time out) and the Owner answers what is asked. It assumes nothing about the clock, the
Owner's cancellation or how the model decides. Crashes and losses are bounded in number, which is
what "eventually works" needs. `JobsEnd` excuses a job whose last lease of the bound has lapsed or
whose log reached `MaxEvents`, and a job in RECONCILING: after a crash between creating the job
directory and the first checkpoint the code refuses to replay and leaves the job to the Owner.

`OutboxFairness`: the Hub is started again (systemd, `restart: unless-stopped`), a provider that
keeps messages hands them over again, leases not in use expire, couriers finish what they hold and
poll again; all of these are unconditional timers or loops. Nothing makes the Runner report or the
Owner decide. `ConversationFairness`: every await of a request has a deadline, so some step of it
comes; whether the model succeeds is open. `GatewayFairness`: both loops catch every error and start
again after a delay. The socket's fairness: timers fire, the loop reconnects, and a live provider
answers some heartbeat (strong fairness, since a reconnect disables the answer).
`StoreLockFairness`: a process that was not killed takes its next step. `SIFairness`: a Hub that is
down is started, and a start or an observation, once begun, goes on. Faults are bounded in number,
so "eventually" means once they stop.

### Findings

`restart_redispatch` checks `PendingCallHoldsJob`: once the Hub serves requests, an open job with a
pending call of its live lease is held. At start, a row that is already DENIED is denied again
whenever its job is held by the same lease (`node-tool-policy.ts:204-212`), even if another call
holds it: its `updated_at` moves behind the pending row and the job is redispatched. In the first
start the pending row comes later and the hold is restored, unless the process ends in between; in
the second start the denied row comes last and the job is handed to its Runner while the Owner is
still asked about the other call. `test/node-tool-policy.test.mjs:122` states the promise. With the
list unchanged the promise holds: `SteadyCallHoldsJob`, checked by `node_tools` and proved for any
calls, leases and crashes (`SteadyCallsHoldJobs`).

`agent_stale_checkpoint`: the checkpoint moves to a renewed lease only at `runner.ts:232`, after the
job was reported RUNNING under it (l.207). A crash in between leaves a checkpoint the Hub refuses
(`job-registry.ts:230`), and since recovery precedes the pull and throws, the Runner takes no job at
all until the Owner cancels this one. `agent_ends` shows that renewal is what it takes, and
`OnlyOutlivedAreRefused` proves that nothing else does: a kept checkpoint that the Hub refuses is one
whose job was reported RUNNING under a newer lease before the checkpoint moved to it.

`agent_full_checkpoint`: a checkpoint with more than 12 exchanges is saved but not loaded again
(`runner.ts:354`); a resumed job gets another 12 steps on top of the exchanges it has. Loading fails
before the Hub is asked, so a cancellation does not help either.

`agent_unobserved_success`: a denied call counts as an exchange, and `finish` asks for an exchange
(`runner.ts:318`), not for an observation.

`ToldTheTruth` has one exception, and it is the code's: a process that ends between a tool's result
and its checkpoint, or cannot save it and then cannot report that either, comes back after a renewal
to a pending call of an older lease and tells the model that it was not executed (`runner.ts:226`).
Nothing else does. The tools that run today only read, so this costs a repetition.

`hub_audit_event`: `store.append` takes an event of any type, but a start replays the whole log
through `FridayState.apply`, which throws for a type it does not know (`state.ts:175`). Two routes
append such types: the policy approval of a conversation job (`server.ts:820`) and the stop command
of a chat (`server.ts:1013`). Neither fails when it runs; the next start does, and every one after
it, which refutes `LogIsReadable`. Nothing else a route writes does that: `LogReplays`, checked by
`hub` and proved for logs of any length (`LogsReplay`), says that the log stays readable but for such
events, and that a start that finds the log invalid finds one of them in it.

`worker_ends_hub`: `#terminate` rejects the turn's `settled` promise (`pi-worker-client.ts:307`) also
while the turn still waits for the prompt's acknowledgement and nobody has awaited `settled`. The
rejection is unhandled and no handler is installed, so Node.js ends the Hub, where
`docs/architecture.md:130` confines the failure to one inference request.

## 4. Proofs

`JobRegistryProofs` proves, for any sets of jobs and runners, any
positive lease term and any bounds (`LeaseTicksAssumption`, `BoundsAssumption`):

* `TypeCorrect`, `GatesHold`, `OutcomesAreEvidenced`, `LogIsFenced`: the invariants of the run;
* `TerminalStaysFinal`, `LiveLeasesAreKept`: its action properties;
* `Refinement`: `JobRegistry` implements `LeasedLog`.

The invariants are not inductive one by one. `IInv` joins the types with the three facts that carry
them: the log holds only leases signed so far and in their order (so a report bound to the newest
lease keeps `Fenced`), a job without a signed spec is still waiting or was cancelled while it did
(so nobody works without one, and `OwnerGate` needs to look at signing only), and an outcome in the
log is the status and is followed by notes only. The last needs the transition table: no state
follows a terminal one (`TransitionTable`). Every action but `AcceptEvent` leaves the log alone; the
lemmas `...Quiet` say so once, and `AcceptEventInv` does the work for the one that appends.

`SignRefines`, `MoveRefines`, `EventRefines` and `HiddenRefines` map each kind of step to a step of
`LeasedLog` or to stuttering.

The other modules of proofs follow the same plan: an inductive invariant, one lemma per action or
group of actions, and the theorems. Nothing is assumed but the named assumptions on the constants,
which TLC evaluates in every run, and one hypothesis of one theorem:

* `AuthorityTicks >= LeaseTicks` (`SteadyCallsHoldJobs`): an authorization may last as long as a
  lease. Both are five minutes (`TOOL_AUTHORITY_MS`, `node-tool-policy.ts:20`, and `LEASE_MS`,
  `job-registry.ts:20`), and an authorization is cut at the end of its lease.

What each invariant adds to the property is the part worth reading:

* `NodeToolPolicyProofs`, for any calls, tool lists, crashes and starts. `PolicyInvariance` adds to
  `JobRegistry`'s invariant that calls are of agent jobs and of leases signed so far, that the order
  of rows has every row, and, while a start reads the rows, that what it has not come to yet can
  still release a held job. `PolicyUsesRegistry`: the policy never leaves the registry's own steps,
  so the registry's theorems hold of it too.
* `SteadyCallProofs`. While every start finds every tool, nothing is refused and no authorization
  runs out under a lease that runs. So a job has one pending call of its lease at most, and among
  the rows that could release its job that call is listed last: a start comes to it after all of
  them, and what it does last is to hold the job.
* `AgentRunnerProofs`, for any number of jobs, crashes and losses. At every place of the loop the
  Hub knows the job in a state the Runner left it in (`JobKnown`) and the checkpoint was written
  before the Hub was asked (`DiskKnown`); what was invoked has a row, and while the process lives a
  pending call is in one checkpoint, told to no model, and invoked only if its result is about to be
  saved or was lost before it was (`CallsUntold`); the truth of what is told rests on that.
  `RunnerUsesPolicy` maps every step to one of `NodeToolPolicy` or a stutter. For
  `OnlyOutlivedAreRefused`, `RecoveryInv` adds which lease a checkpoint is of at every place of the
  loop, and that only the one gap of the finding leaves an older one.
* `ConversationProofs`: the line of a conversation is its lock. Whoever works is the head of its
  line, a delivery stands in one place of one line, and a message is put to the model when its turn
  begins; so two deliveries of one message never both find that it was not asked.
* `ChannelProofs`. Runtime: requests are carried out in the order they were sent and one at a time,
  and an answered one left Hub, file and loop with its credential. Gateway: each loop's position
  passes an update only when it is through with it: no text, or one the Hub took, whose reply was
  sent, or has none. Sockets: what waits or was handled was seen, no message waits in two queues,
  and what was handled is older than what waits behind it.
  Outbox: a loop holds a listed notice, and one that is about to acknowledge holds a shown one,
  whichever lease it has. That is why `Acknowledge` settles only what was seen; the sets announced
  are finite, which the order of posting needs. The fairness half of `Mailbox` stays with TLC.
  `ChannelTypesCorrect` carries the types of all parts to the composition.
* `HubProofs`. Lock: claims of one lock form a chain, each member named by the dead claimant before
  it, so that at most the last of them can be alive; who removes or replaces the lock holds that
  end. Log: what is replayed is shown to be defined for a log of any length, from the least log for
  which it would not be (`ReplayExists`, `ReplayUnique`, by a least element of a set of naturals,
  since induction itself takes an operator), and `RehydrateAppend` replays one event more. `LogInv`
  then says that the memory of a running Hub is the replay of its log, short of one event that is
  committed and not yet applied, which a crash in between only makes the next start read, and that
  the log of a Hub that once read its earlier version's log is readable but for unknown types;
  `LogsReplay` follows. Fleet: a Runner under revocation is held back from new jobs and is revoked
  by one chat only, so what was checked still holds when the event is written. Worker: the text in
  hand is of the turn at work, whatever is still read of an earlier worker. Improvements: where a
  promotion is after its last await says what the patch row is (`Promoting`), and nobody comes
  between. Catalog: rows and their order are typed. `PartsTypesCorrect` types every variable of the
  composition, those of a node by the lemmas of `NodeProofs`.
* `NodeProofs`. Broker: both maps hold the same grants, each under its request, and a call is noted
  with the job's lease when it was let through. Professional jobs: the worktree is there from the
  first preparation on, so a second container is never asked for, and what is left to upload says
  what the Hub keeps. Key: a torn file has one writer, and who has loaded its key works with the
  kept one. Lists: a command holds a list that was valid when it read it. Releases: a release is
  stored before a link names it. Of a script that is alone, what it saved is what it found, and it
  touched nothing it will not put back; and while nothing is torn, what it found had link and unit
  of one release.

`NothingIsEnabledUnevidenced`, `NodesKeepTheirState` and `InboundIsKept` carry the invariants of the
parts to the composed specification of the runs: a step of the composition is a step of one part
and a stutter of every other.

Only model-checked:

* every liveness property (`JobsEnd`, `OwnerIsTold`, `RequestsEnd`, `OwnerIsHeard`,
  `SilentPeerIsReplaced`, `OpenersDecide`, `BoundJobsSettle`, and the liveness of `Mailbox`):
  fairness and ENABLED are out of the prover's reach;
* the properties the runs of section 3 refute.

## 5. Not modelled

* Authentication: Owner sessions, WebAuthn, password, request signatures and the tokens of routes.
  They are calls into cryptographic libraries, and what they keep out is not asked here.
* Memory, ingest content and voice tables: single statements. The ingest registration of a channel
  is in `ChannelRuntime`.
* Web search, voice providers, the web console, configuration: no state of their own.
* The iLink QR login, the wire formats of the providers, the text of notices.
* Review jobs, `continue` and `cancel` of the worker (the Hub does not send them), the broker
  process of MCP calls, the worktree command line of self-patches, the installation of the Hub.
* Read-only routes and queries everywhere.

## 6. Plan

1. *done* `JobRegistry` with `LeasedLog`, its invariants, refinement and proofs.
2. *done* `NodeToolPolicy`, `AgentRunner` on top of it.
3. *done* the channels: `ChannelOutbox` with `Mailbox`, `Conversation`, `ChannelGateway`,
   `ChannelRuntime`, `SocketAdapter`.
4. *done* the Hub and the nodes: `StoreLock`, `HubState`, `ChannelFleet`, `SelfImprovement`,
   `SignedCatalog`, `PiWorker`, `ModelAccess`, `SandboxJob`, `NodeEnrolment`, `WorkspaceList`,
   `NodeRelease`.
5. *done* proofs of the safety invariants and action properties of every component, and of the two
   refinements above the registry (`ImplementsPolicy`, the safety of `ImplementsMailbox`).
6. *done* proofs of the invariants that needed a setting or an argument of their own:
   `SteadyCallHoldsJob` for a tool list that stays, what a refused checkpoint must be, the replay of
   logs of any length, the composed type invariants.
7. *done* what the environment may do beside the good cases: texts the Hub refuses or does not
answer, process ids that recur, events of unknown types, scripts that overlap and rollbacks that
fail, tokens of an old lease, results that are never saved.
8. Left: the safety half of what the liveness properties rest on (what an open job, request or
   promotion still waits for), as invariants; proofs of them.

Out of the prover's reach and left to TLC: liveness and ENABLED.
