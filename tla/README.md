# A TLA+ model of iac-bus

`iac-bus` is a message bus for software agents: a Flask server that keeps
messages in memory (`server.py`), a library that decides which steps of a job
are ready (`orchestration.py`), and a library that marshals the messages agents
exchange (`agent_contract.py`), with scripts that start and stop a fleet of
agents. This directory models them and the workers they serve, checks the models
with TLC, and proves their safety properties with TLAPS.
Paths below are relative to the repository.

Contents: [Inventory](#inventory) · [Modules](#modules) · [How the models
correspond to the code](#how-the-models-correspond-to-the-code) ·
[Runs](#runs) · [Fairness](#fairness) · [Proofs](#proofs) ·
[Findings](#findings) · [Not modelled](#not-modelled) · [Plan](#plan)

## Inventory

| Part | State | Operations | What makes it correct |
|---|---|---|---|
| Message store (`server.py:46-48, 150-162, 261-305`) | `_bus_messages`, a list of dictionaries, under `_bus_lock` | append, prune (release overdue leases, drop by age, ttl, size) | nothing leaves without a reason; size bound; order of appends |
| Queue leases (`server.py:308-372, 448-527`) | `status`, `leased_by`, `lease_until`, `lease_id` of the queued messages | claim, ack, nack | one owner at a time; a lease that runs is honoured; an ack is final; first deliveries in order |
| Polling (`server.py:416-445`) | none of its own: the client keeps `since_id` | `GET /bus/messages` | what the client's cursor has passed it has received |
| Job registry and dispatch (`server.py:50-52, 165-258, 393-413, 541-549`) | `_jobs`: spec, state and dispatched steps of each job, under `_jobs_lock` | register, report a status, list what is ready | a step is assigned once, after all it waits for, and never forgotten |
| Orchestration helpers (`orchestration.py`) | none: functions of a `JobSpec` and a `JobState` | timeouts, dependencies, barriers, readiness | single-step readiness agrees with the graph of the job |
| Agent contract (`agent_contract.py`) | none: dataclasses | `to_dict`, `from_dict`, `parse_payload` | a message keeps its meaning however often it is passed on |
| Replies (`server.py:413, 445, 466, 527`) | the dictionaries of the store, read without the lock | `jsonify` | a reply does not mix two leases, and says what became of its own |
| Agents and workers (external; `scripts/dogfood_litmus.sh`) | the leases and cursors they were told of | claim, report, ack; any request, at any time, late or repeated | what was assigned is done, whoever dies |
| Agent fleet scripts (`scripts/spawn-cursor-agents.py`, `scripts/handoff-terminate-agents.py`) | the agents they created, announced, found and failed to delete | create, announce; collect ids, delete | an exit code 0 is true; every agent can be ended |
| Request validation, authentication | none | reject requests | |
| Deployment, provisioning, smoke scripts (`scripts/`, `.github/`) | files and services outside the bus | sequential HTTP and shell calls | |
| SQL schema and protocol v2 (`docs/`) | a design | none is implemented | |

How they interact:

- `app.run(threaded=True)` serves each request in a thread of its own. Threads
  share `_bus_messages` and `_jobs`, each under its lock. **A handler takes a
  lock several times**, and reads the clock before it waits for the lock, so
  what it read may be stale when it acts.
- A `POST /bus/messages` of type `orchestration.job` or
  `orchestration.step.status` goes on, after its message was appended, to the
  job registry; the assignments that come of it are appended to the store
  outside `_jobs_lock`, like any other message of a queue.
- Workers claim from queues, do the work, report statuses, and ack or nack.
  Nothing ties the lease of an assignment to the status of its step.
- The spawn script announces its agents on a channel of the bus; the handoff
  script finds them there, by a poll of 200 messages.
- There is **no background thread**: overdue leases, expired messages and
  opened time gates are noticed only by the next request that looks.
- There is **no persistence**: a restart forgets all messages and jobs, while
  clients keep their leases and cursors.
- Dictionaries of the store are returned by the helpers and serialised by
  `jsonify` after the lock was given back.

Hard to test, hence what the properties are for: interleavings of lock
sections; stale clock readings; late, lost and repeated acks; messages that
leave the store under a lease or under a client's cursor; concurrent and
replaced registrations; steps nobody dispatches; cycles that validation lets
through; workers that die between their report and their ack; replies that show
a half-written lease; scripts that die between two calls. `PROJECT.json` lists
each hazard with its line and the properties about it.

## Modules

| Module | What it is |
|---|---|
| `WorkLease` | The abstract promise of the leased queues: no clock, threads or locks |
| `MessageBus` | The store with its handlers, lock section by lock section; implements `WorkLease` |
| `PollView` | A client that follows the list with `since_id` |
| `Orchestration` | `orchestration.py` as operators |
| `JobPlan` | A job run to its end: readiness against the graph |
| `JobBoard` | The job registry with concurrent handlers |
| `JobRun` | A job run by workers that die: `JobBoard`, `WorkLease` and the workers composed |
| `ResponseRace` | The replies, against assignments to single fields of a message; implements `WorkLease` |
| `AgentContract` | Building messages, and marshalling along a chain of agents |
| `AgentFleet` | The spawn and handoff scripts, and the channel between them |
| `MessageBusProofs` | Types, leases, refinement of `WorkLease`, removal, retention, order of first deliveries |
| `WorkLeaseProofs` | The abstract leases exclude each other |
| `JobRunProofs` | Types, assignments and readiness of the job registry; workers that die lose no step and do none twice |
| `ResponseRaceProofs` | Replies are of one lease, and true; refinement of `WorkLease` |
| `PollViewProofs` | What a poller can miss and get twice |
| `AgentFleetProofs` | A handoff that ends with 0 is complete |
| `JobPlanProofs` | A job runs all that its graph lets run, and nothing else |
| `AgentContractProofs` | What is written can be read, and means what it meant |
| `MC*` | Instances for TLC, one `.cfg` per run |

`Orchestration` is used by `JobPlan` and `JobBoard`; `MessageBus` instantiates
`WorkLease` under a refinement mapping; `JobRun` extends `JobBoard` and
instantiates `WorkLease` as its queue: what is shown of the run of a job holds
of the store because the store implements `WorkLease`. Operators whose comment starts with
"Mutant:" are plausible bugs: each stands before the definition it would
replace, has the same parameters, and is used by nothing. `PROJECT.json` pairs
them with the property they violate.

## How the models correspond to the code

**MessageBus.** One action per stretch of code under `_bus_lock`, one for what
a handler does before the first, one for a reply that is read after the last.

| Request | Actions | Code |
|---|---|---|
| `POST /bus/messages` | `PostStart`, `PostAppend`, `PostPrune` | `bus_post_message`, `_bus_add_message` |
| `GET /bus/messages` | `PollStart`, `PollPrune`, `PollRead` | `bus_get_messages` |
| `POST /bus/queues/claim` | `ClaimStart`, `ClaimPrune`, `ClaimScan`, `ClaimReply` | `_claim_queue_message` and its caller |
| `.../ack`, `.../nack` | `AckStart`, `AckPrune`, `AckApply` | `_ack_queue_message` and its callers |
| none | `Tick`, `Restart` | `time.time()`, systemd |

- A message is named by its position in the order of appends, so the list is
  the set `live` of names, in increasing order; `_bus_prune`'s slice
  `[-BUS_MAX_MESSAGES:]` is `Newest`. A `lease_id` (a uuid) is named by its
  position in the order of claims.
- `now[t]` is the clock reading a thread works with. Where the code reads the
  clock right before it takes the lock (`_bus_prune` called without `now`), the
  action takes any reading `n \in now[t]..clock`; where one reading serves two
  sections (the claim) it is fixed at the start.
- `grants` and `issued` are history: every lease as it was granted and how it
  was given back. No guard but the bounds reads them; the id of the next lease
  is `issued + 1`.
- Acks and nacks name any message and lease there has ever been, of any worker:
  late, repeated and mistaken ones are all among them.
- Bounds of the model, in guards of `PostStart`, `ClaimStart` and `Tick`:
  `MsgBound`, `ClaimBound`, `ClockBound`. `MaxMessages` and `Retention` are the
  server's own settings.

**PollView** sees the list only: messages are appended and vanish, for
whatever reason, and a client with a fixed channel and `include_queue` polls
with its cursor and any limit. Slices with zero and negative limits are as
Python has them. `full` is history: the client could have known that a reply
was cut.

**Orchestration.** A job is two functions, from step ids to what each waits
for, and from barrier ids to what each requires. `Mark`, `UpdateTimeouts`,
`BarrierOpen`, `DependenciesSatisfied`, `Ready` are the functions of the same
name in the code. Absent delays and times are 0, which the code treats alike;
an absent deadline is `NoDeadline`. Barriers that are waited for but not
defined are skipped, as in `get_ready_steps`.

**JobBoard.** `JobStart`/`StatusStart` are the checks of
`_prepare_orchestration_action`; `JobRegister`/`StatusUpdate` the section under
`_jobs_lock`, which ends in `Dispatch`; `Enqueue` appends one assignment, in
the order of the ready list, outside the lock. A status report whose job was
meanwhile replaced by one without the step ends with a `KeyError`; one whose
job has the step counts for the new registration. `QueryReady` is
`GET .../ready`, which times steps out and dispatches nothing. A registration
is named by its number so that the properties can tell two of one job apart.

**JobRun.** The requests that report a status are `JobBoard`'s, those about
leases are `WorkLease`'s: `Post`, `Register`, `Update`, `Put` are the server's
handlers, and `Put` submits the assignment to the queue. An item of the queue is
the message of an assignment, in the order of the appends; `what` says which.
`Claim`, `Report`, `Ack` are a worker. It may report `running`, waits for the
reply of a report, ends if the report is rejected (`curl -f` under `set -e`),
and does not look at the reply of its ack. A claim is granted the first message
that is not leased, to any idle worker, and a request gets to any idle thread:
all run one program, so the model always takes the same one. What goes wrong (`Crash`, `LapseHeld`,
`Drop`, `ServerRestart`) is counted in `faults`; the lease of a worker that is
gone lapses by itself (`LapseAbandoned`). There is no clock, so jobs have no
time gates here. `via` and `ender` are history: the lease of the report that a
thread is about to record, and the lease of the report that ended a step.

The worker is the one the documents describe. The one the repository has,
`claim_and_complete` (`scripts/dogfood_litmus.sh:53-107`), claims, reports and acks
in this order, but it never reports `running`, and it reports the step that its
caller expects (line 100), also after it noticed that it claimed another (lines
91-94), before it acks what it claimed. The server ties no report to a lease, so
`WorkNotLost` and `JobsEnd` hold of workers that report the step they claimed, and
of no others. As written that function also does not come to its ack: `python3 - <<PY` at lines 76-89 reads its program from
the here-document, so `json.load(sys.stdin)` finds no reply and `mid` and `lease`
are empty. Its assignments are then leased again after 120 seconds.

**ResponseRace.** One message of one queue. A lock section is entered
(`PruneStart`, `ClaimSection`, `AckSection`) with the list of its assignments,
makes them one by one (`Write`), and ends (`PruneEnd`, `SectionEnd`). `Reply`
reads the dictionary at once, whoever holds the lock: the encoder takes the
items of a dictionary in one call, and no field is ever added to one that others
can see. Acks and nacks carry a lease that a reply has shown (`known`); the
others are refused, which is `MessageBus`'s. `granted` is what each lease was to
write. The module has a mapping of its own to `WorkLease`: between two
assignments the message stands for what it will be at the end of the section
(`Target`). So the lock sections of `MessageBus`, which are single steps there,
are not an assumption about the code: made of assignments, with replies read
among them, they still implement the same leases.

**AgentFleet.** Spawn (`SpawnStart`, `Create`, `Created`, `Announce`,
`SpawnEnd`) and handoff (`HandoffStart`, `Delete`, `HandoffEnd`) run at the same
time, again and again. A call that fails had its effect or not: `SpawnDies` ends
the spawn script, which catches nothing, and `Failed` lets the handoff go on,
which catches everything. The channel is what a poll may show: `OtherMessage`,
`Expire`, `BusRestart` are all that the bus does to it. An agent is named by the
place of its id in the order of the ids, since the handoff deletes in that
order; `Cut` are those with an id that `ID_RE` finds a part of, which names no
agent. `printed`, `orphans`, `unseen` and `expected` are history.

**AgentContract.** `NewMessage`, `Built` and `BuiltMessage` are `new_message` and
the five functions that build a message for a payload; a message starts as they
build it. A value carries its class (`None`, `Str`, `Member` of an Enum, `List`,
`Dictionary`, or a dataclass with its fields); what the code does not look at is
a model value. `None` fields are left out (`Dict`), absent fields get the class's
default (`Get`), enum members become strings and back (`Plain`, `Coerced`). A
relay writes, reads, and may or may not parse the payload, any number of times.
`IsMessage` says what the annotations of the dataclasses allow to be sent: a
payload is an object of the class that belongs to its action, a dictionary that
`from_dict` reads as one (a dictionary of any content for the actions without a
class), a string, or nothing. Python enforces none of it: a `null` that is given
for `allow_freeform` comes back as `True`, an object under another class's action
as a dictionary, `null` choices raise a `TypeError`.

## Runs

All runs finish within about two minutes with two workers.

| Run | Question | Instance | Why it is enough |
|---|---|---|---|
| `lease` | do leases exclude each other and hold; is an ack final; are first deliveries in order; is `WorkLease` implemented | 2 threads, 1 worker that may claim twice, 2 messages, 2 leases, span 1, retention 1, 2 s | two handlers interleave at every lock section; a lease lapses and is retried, by a claim that the server cannot tell from another worker's but for its lease id, while another message waits; acks race prunes |
| `retention` | how far is the store overfilled, what leaves it | 2 threads, 3 messages, size 1, ttl none and 1, retention 2, 3 s | both threads can have appended and not pruned; a message can expire by ttl, by age, or be cut by size |
| `reply` *(violation)* | does a claim's reply show its own lease | 2 threads, 1 message, 2 leases | see Findings |
| `race` | what may replies show of a lease; do the assignments of a lock section amount to one step of `WorkLease` | 2 threads, 2 workers, 1 message, 2 leases of 1 s, 1 s | one thread reads, or takes the lock, at every point of the other's release and grant; the second lease is another worker's or the same one's, follows a nack, a prune or the overdue lease itself, and after a nack lapses too |
| `poll` | what can a poller miss or get twice | 2 channels, 4 messages, limits -1, 0, 1, 2, 3 and cap 2 | more messages than the limit arrive between polls; the cursor's message vanishes |
| `missed` *(violation)* | does `since_id` avoid missed messages | limit 2 of 4 messages | see Findings |
| `dispatch` | is each step assigned once, after what it waits for, none forgotten | 2 threads, one job id, 2 registrations of 3 different jobs, without gates, with a gate and a deadline, with a delay; both barrier modes; reports `completed` and `pending`; 1 s | reports race each other, the registration and the enqueuing; two steps are ready at once; the job is replaced by a smaller one and back; each gate, delay and deadline has a second before and after it |
| `gate` *(violation)* | is a ready step dispatched | 1 thread, a step with a delay | see Findings |
| `jobrun` | does a job end although workers die; is no step lost or handed out twice | 2 threads, 2 workers, a chain of 2 steps, 2 registrations, 5 leases, 1 fault, reports `running` and `completed` | the fault is each of: a death between any two requests of a worker, a lapse under a living one, a dropped assignment, a restart; 5 leases are as many as the two registrations and the fault can use up (4 assignments and one retry): with too few `JobsEnd` would fail |
| `plan` | does readiness agree with the graph | all jobs of 3 steps, any dependencies, one barrier of either mode | cycles of length 1, 2 and 3, through dependencies and the barrier; every order of ends |
| `contract` | does a message keep its meaning | every function that builds a message, every payload class, dictionaries in its place, and present, absent or empty optional parts | each field kind is present, absent and empty; kind, action and state are strings and members, names that no Enum has included |
| `fleet` | is exit code 0 of a handoff true; do repeated handoffs end all agents | 2 agents, one with an id that is cut and comes first; a page of 2, a channel of 3 messages | an announcement is on the page, off the page, or dropped; a batch of two dies in the middle; a failing id precedes the other |

Properties, by module (each is stated in words where it is defined):

- `MessageBus`: `LeaseExclusion` (no message owned under two leases),
  `GrantStaysValid` (a running lease is the one its message carries: the ack
  will be accepted), `RemovalIsFinal`, `FirstDeliveriesInOrder`, `SizeBound`
  (at most `MaxMessages` plus the appends whose prune is to come),
  `RemovalsJustified` (ack of its own lease, expiry, room for `MaxMessages`
  newer ones that stay, or a restart), `ImplementsWorkLease`.
- `PollView`: `MissedOnlyWhenFull`, `RereadsOnlyWithoutCursor`.
- `JobBoard`: `AssignedOnce`, `DispatchedIsAssigned`, `ReadyIsDispatched` (for
  jobs without time gates), `WaitsWereOver` (an action property: whenever a step
  is assigned its gate is open, its deadline has not passed, each dependency was
  completed and its delay is over since the dependency last ended, and its
  barriers' steps ended as asked, all in its own registration; the ends come from
  the history `achieved`, not from the state that the code decides by).
- `JobRun`: `StepsExclusive` (two workers do one step only after a lapse),
  `WorkNotLost` (an assigned step that has not ended is on the queue or in the
  hands of a thread, unless the store dropped it), `ReopenedOnlyLate` (an ended
  step is reopened only if one of two reports was late, the one that reopens it
  or the one that ended it: that very report's lease had lapsed, or its
  assignment was of an old registration. A worker in time can reopen a step, but
  only one that a late worker ended), `JobsEnd` (liveness: with what excuses it spelled out in
  `Excused`).
- `ResponseRace`: `NoMixedReply`, `RepliesTellOutcome`, `ImplementsWorkLease` (the
  assignments of a lock section amount to one step).
- `JobPlan`: `RunsAllItCan` (when nothing is ready, exactly the largest set of
  steps that wait for each other or for a failed step is left), `CyclesNeverStart`,
  `AcyclicJobsEnd` (liveness).
- `AgentContract`: `RelayPreserves` (a message means what it meant, however many
  agents passed it on), `NeverRefused` (what is written can be read and parsed),
  and the invariant behind both, `RelayInv`.
- `AgentFleet`: `HandoffIsComplete`, `AgentsEnd` (liveness).

Threads and workers are symmetric where the run has no liveness property and
nothing names one (in `jobrun` they are not, for `JobsEnd`). Deadlock is checked
everywhere except where the system really rests: in `plan`, where a job that has
run as far as it can stops; in `jobrun`, where a job that has ended, been posted
as often as the bound allows, leaves nothing to do; in `race`, where requests end
once the message is gone, the bounds of clock and claims included.

## Fairness

- `JobPlan!Spec` has `WF_vars(Next)`: as long as something is ready some worker
  does it. It is an assumption about the workers, not the server, and is what
  "a fleet that does what it is told" means.
- `JobBoard!FairSpec` has weak fairness of each thread's next section (a thread
  that holds a request runs; the locks are held briefly and released) and of
  `Tick` (time passes). Clients are under no obligation to post anything.
  `ReadyGetsDispatched` fails under it, so the failure is not one of scheduling.
- `JobRun!FairRunSpec`: every thread comes to the end of its request again and
  again (nothing it does can block but on a lock, which is held for one
  section); and weak fairness of what the workers can do together with the lapse
  of the leases of workers that are gone (time passes). That is one condition
  for all of them: some worker goes on, not each one. Faults happen at most
  `FaultBound` times.
- `AgentFleet!FairSpec` assumes of the scripts that they go on or die; of the
  operator that the handoff is started with the bus again and again (the channel
  need not always show anything to start it for, hence strong fairness) and is
  not stopped for ever; of the service that it does not refuse the deletion of a
  running agent for ever, though it may refuse another's. Nobody need start the
  spawn script, and the channel may lose or hide what it likes: `AgentsEnd` says
  what becomes of agents whose announcement it hid (`unseen`) or that were never
  announced (`orphans`). Without either excuse TLC finds agents that run for
  ever.
- `MessageBus`, `ResponseRace`, `PollView` and `AgentContract` have none: their
  properties are safety properties.

## Proofs

`tlapm` checks every leaf. The theorems hold for all values of the constants
that satisfy the assumptions of their module:

| Assumption | What it asks, besides that bounds are numbers and that names of "none" name nothing |
|---|---|
| `BusAssumption` | finitely many threads; lifetimes and spans are numbers; `MaxMessages` is positive |
| `BoardAssumption` | finitely many threads; jobs that `validate_job_spec` lets through, cycles included |
| `RunAssumption` | the model has no clock, so jobs have no gates, delays and deadlines; finitely many steps; workers report `running` or an end |
| `PlanAssumption` | valid jobs without gates, delays and deadlines, cycles included |
| `RaceAssumption` | a claim's lease has a positive length |
| `PollAssumption` | the cap of the limit is positive; limits are any integers |
| `FleetAssumption` | finitely many agents, named by the order of their ids; the page and the channel hold a message |
| `MessagesAssumption` | agents send what the annotations of the dataclasses allow (`IsMessage`) |
| `OwnAssumption` | an id or time that a message is given is not `None` |

The bounds of the models are constants too, so the theorems cover every one of
them.

| Theorem | States |
|---|---|
| `TypeCorrect` | `TypeOK`, and that the bounds are respected |
| `LeasesInvariant` | the inductive invariant `LeaseInv` |
| `LeasesExclude` | `LeaseExclusion` |
| `LeasesStayValid` | `GrantStaysValid` |
| `RemovalInvariant`, `RemovalsAreFinal` | `RemovalIsFinal`, with what makes it inductive |
| `StoreSizeBounded` | `SizeBound` |
| `RemovalsAreJustified` | `RemovalsJustified`, an action property |
| `StoreImplementsWorkLease` | `ImplementsWorkLease` |
| `DeliveriesAreInOrder` | `FirstDeliveriesInOrder` |
| `BoardTypes` | `JobBoard`'s `TypeOK`, with the shape of the requests under way |
| `AssignmentsInvariant` | the inductive invariant `AInv` |
| `StepsAssignedOnce` | `AssignedOnce` |
| `DispatchedStepsAssigned` | `DispatchedIsAssigned` |
| `AssignedStepsWaited` | `WaitsWereOver`, an action property |
| `ReadyStepsDispatched` | `ReadyIsDispatched` |
| `LeaseTypes`, `RunningLeaseRecorded`, `LeasesAreExclusive` | the abstract leases are typed, recorded, exclusive |
| `RunsOfBoard`, `RunsOfQueue` | a run with workers is one of `JobBoard`, and one of `WorkLease` |
| `RunInvariant`, `RunTypes` | the inductive invariant `RunInv`; `RunTypeOK` |
| `StepsAreExclusive` | `StepsExclusive` |
| `WorkIsNotLost` | `WorkNotLost` |
| `ReopenedByLateReports` | `ReopenedOnlyLate`, an action property |
| `RaceTypes`, `NoRepliesMixed`, `RepliesAreTrue` | `ResponseRace`'s `TypeOK`, `NoMixedReply`, `RepliesTellOutcome` |
| `AssignmentsImplementLeases` | `ResponseRace`'s `ImplementsWorkLease` |
| `ViewInvariant`, `ViewTypes`, `OnlyTheLimitHides` | `PollView`'s `TypeOK` and `MissedOnlyWhenFull` |
| `NothingIsReread` | `RereadsOnlyWithoutCursor`, an action property |
| `FleetInvariant`, `FleetTypes`, `HandoffsAreComplete` | `AgentFleet`'s `TypeOK` and `HandoffIsComplete` |
| `PlanInvariant`, `CyclesAreNotStarted`, `AllThatCanRunIsRun` | `CyclesNeverStart`, `RunsAllItCan` |
| `RoundTrip` | a message that is written, read and parsed has the meaning of the first |
| `BuiltIsMessage` | the building functions build what `MessagesAssumption` asks for |
| `RelaysAreFaithful` | the inductive invariant `RelayInv` |
| `MeaningSurvivesRelays`, `WrittenIsReadable` | `RelayPreserves`, `NeverRefused` |

*The bounds.* A request counts against its bound when it is received and acts
later, so `TypeOK` alone is not inductive: `WithinBounds` adds the requests
under way (`Appending`, `Claiming`) to what they will append or be granted.
`AtMove` says how the number of threads at a set of stages changes when one
moves.

*The leases.* `LeaseExclusion` compares two histories and says nothing of the
messages, so it is not inductive. `LeaseInv` ties the two together:
`LeaseRecorded` (a leased message carries a lease that was granted on it, with
its worker and deadline; any other carries none), `GrantedOnAppended` (a new
message has no lease in the history), `OwnedIsCurrent` (a lease that runs is the
one its message carries). The step that matters is the prune: it releases a
lease that is overdue by a reading of the clock `n`, and `n <= clock`, so the
lease no longer runs: a stale reading makes the server late, never early. The
ack needs nothing of the clock: it compares lease ids, and ids are never
reused. Exclusion follows, for two running leases on one message are both the
one it carries.

*Removal.* `RemovalIsFinal` needs that an accepted ack is of the **latest**
lease on its message (`CarriedIsLatest`), and that the lease was not given back
before (`CarriedIsOpen`).

*Retention.* `NewestIsBounded` and `CutMadeRoom` say what the slice keeps and
why it cuts: a message that is cut has `MaxMessages` newer ones that stay. Each
overfull message is then accounted for by a thread between its append and its
prune.

*Refinement.* The mapping is in `MessageBus` (`StageOf`, `Lease`): a message is
an item, and a lease lapses when the clock reaches its deadline, not when some
prune notices. So `Tick` is `Lapse`, a prune is `Sweep`, `AckApply` is
`Requeue` or `Remove`, and a claim is `Grant`, of an item that is available
*or* whose lease has lapsed unnoticed. `UngrantedBlank` (leases are granted in
their order) and `WorkersNamed` (a claim or ack under way names its worker) are
needed besides `LeaseInv`. `WorkLease` in turn has exclusion from one invariant,
that a running lease is recorded at its item.

*Assignments.* A dispatch puts into a thread's hands only steps the job does
not hold dispatched, and `DispatchedIsAssigned` says those are the only ones of
this registration anywhere: so nothing is assigned twice, whoever else enqueues
at the time. It is inductive only with `RegsKnown`: registrations of two jobs
differ and nothing is assigned for a registration to come, so a job that is
posted again starts with none.

*Waits.* What a step waits for is judged by a history, `achieved`: the ends that
the steps of a registration have had, and when. A step's status may be reported
back to `pending`, ended again later, or ended by a report of another
registration, so the history and the state the code decides by are two things.
`EndsAchieved` ties them: the ends a job records are in the history, and none of
this registration there is later than the time its step records. `Ready` asks for
recorded ends and for delays that are over since the recorded time, hence since
every end in the history (`ReadyWaited`). `EndsKnown` (no end is of a registration
to come) makes that hold of a registration that begins.

*Readiness.* Of a job without gates, delays and deadlines `Ready` does not
depend on the clock (`TimelessReady`) and nothing times out (`TimelessKept`),
so only the handlers that dispatch can make a step ready.

*First deliveries.* A claim takes the first message of its queue that is not
leased. That this is the order of the appends needs `NoneSkipped`: when a message
was leased, all that its queue had before it, and still has, had been leased;
and that a message on a queue can be leased at all (`QueuedLeasable`). What was
released and is leased again has had its first delivery.

*Runs of a job.* `JobRun` composes two modules that have theorems of their own,
and `RunsOfBoard` and `RunsOfQueue` carry them over: every step is one of the
registry or leaves it alone, and the same for the queue. What neither of them
knows is how workers, threads, items and registrations belong together, which is
`RunInv`. `Carried`: the items carry what was queued, each assignment once, so a
step that is assigned once is one item. `UnlapsedIsLast`: a lease that has
not lapsed is the last on its item, so an item with no lapsed lease was granted at
most once. `StepsExclusive` follows from these two and the exclusion of leases. `Reporting`: a worker acks only when the reply of its last
report has come, and then the end of its step is in `achieved`, so what was
acked has ended. `WorkNotLost` follows, since an item that is gone was acked or
dropped. `ReportsHeld`: a report that a
thread is to record is of the step its lease was granted on; there is one under a
lease at a time, and the worker that has the lease waits for it. `EndsHeld`: a
step that has ended was ended by a report on it, and all there is left to report
under that lease is an end. If neither the report that meets an ended step nor the
one that ended it is late, both are of the present registration, hence of one
item, and neither lease has lapsed: by `UnlapsedIsLast` they are one lease, so the
report is an end and reopens nothing, which is `ReopenedOnlyLate`.

*Replies.* A message is written field by field, but only by the one thread that
holds the lock (`OneWriter`), and what it writes is one of three sequences: a
release, a grant, or a release and then a grant. `Writing` says that the message
is always one lease (or none) with some first fields of the next one written
over it, and which of the assignments are left. A grant never writes over a
lease directly, only over a blank message, and this keeps two leases apart. For
`RepliesTellOutcome`, a lease that is being released is over or was given back
(`GivenUp`), and one that is being granted is not yet known to anyone who could
ack it.

*Assignments that amount to a step.* A section takes effect when it takes the
lock (`PruneStart` is `Sweep`, `ClaimSection` is `Grant`, `AckSection` is `Requeue`
or `Remove`): from then on `Target` is the message it will leave, because its last
assignment, to the lease id, names it. `TargetKept` is the heart of the proof: by
`Writing` an assignment changes the message and not its target, so `Write` and
`SectionEnd` are stutters, and whoever finds the lock free finds the message equal
to its target (`FreeTarget`). A claim over a lapsed lease is one `Grant`, although
it writes a release first. `WorkersNamed` and that an unposted message is blank are
needed besides `RaceInv`.

*Polls.* What the client has received and the store still has is visible to it
and behind its cursor (`CursorIsLast`), whatever the limits were: a reply ends
with the last visible message. If the message of the cursor is there, the reply
starts after it; if it has left, the reply starts at the beginning of the list.
In both cases a reply that is shorter than its limit leaves out nothing
(`MissedOnlyWhenFull`), and in the first case it has nothing the client has.

*Handoffs.* `AnnouncementsKnown`: what was announced is on the page or counted
as `unseen`. `NothingForgotten`: while the handoff runs, what it should find is
terminated, still to be deleted or among its failures, and it ends with 0 only
without failures.

*Readiness in the graph.* `NeedsMet`: what a started step needs has come about.
`StuckPending`: of a set of steps that is stuck nothing was started. Doing a step
cannot make one stuck that was started: the started ones of a set that is stuck
afterwards would have been stuck by themselves before. Conversely
`NotReadyNeeds`: a pending step that is not ready waits for a pending one or for
one without success; so if nothing is ready, all pending steps together are
stuck.

*Messages.* `RelayPreserves` speaks only of a message at hand, so it is not
inductive; `RelayInv` says of a dictionary on its way, too, that it is readable
and that what is read of it is a message with the meaning of the first. Both
come from `RoundTrip`, which goes field by field. A name is the same name after
it was made a string (`NameKept`). A field that is `None` is not written and
comes back as the default, and every default but those of fields that are never
`None` is `None` (`SimpleDefaults`, `PayloadDefaults`): the exception is
`choices`, whose default is the empty list, which an `InputRequest` reads as
`None` again. So reading gives the meaning (`PayloadKept`, `PolicyKept`), and a
meaning has no other (`CoercedTwice`, `MeantIsPayload`, `MeaningTwice`), which is
why the second relay, and the tenth, add nothing to the first. `ReadIsMeant` is
for the agents on the way that parse: what they hold is the meaning already.
The proof is for any messages that satisfy `IsMessage`; `BuiltIsMessage` shows
that the functions which build a message for an object give such messages, each its
payload under the action that it is parsed by.

TLC checked each inductive invariant on an instance of the size of its run
before it was proved.

Every safety property of the passing runs is proved. Only model-checked: all
liveness (`JobsEnd`, `AcyclicJobsEnd`, `AgentsEnd`), which TLAPS does not prove.

## Findings

- **A claim's reply may show another worker's lease** (`reply`).
  `_claim_queue_message` returns the dictionary that stays in the store
  (`server.py:335`) and the handler serialises it after the lock was given back
  (`server.py:466`). If the lease lapses in between and the message is released
  or leased again, the reply shows no lease, or the lease id of the other
  worker. `tests/test_bus.py:78` expects a leased message.
- **A poll with `since_id` can skip messages for good** (`missed`). The slice
  after the cursor keeps the *last* `limit` messages (`server.py:445`); the
  older ones are behind the next cursor. `README.md:296` recommends `since_id`
  "to avoid missed messages". `MissedOnlyWhenFull` is what does hold: nothing is
  missed as long as no reply was as long as its limit.
- **Nobody dispatches a step when its time gate opens** (`gate`). Ready steps
  are looked for only when a job or a status is posted (`server.py:180`), and
  `GET .../ready` does not dispatch either; with no further post the step
  waits for ever. `ReadyIsDispatched` is what holds: without time gates nothing
  ready is ever left behind.

Observed while modelling, and in the models as the code has it:

- `limit=0` returns the whole list, for `msgs[-0:]` is all of it, though
  `DOCUMENTATION.md:142` says the limit is capped at 200 (`PollView!Reply`).
- A reply may show a lease half written: `leased` with no worker yet, or a worker
  with no lease id. It never shows parts of two leases (`NoMixedReply`), because
  a lease that is over is released, field by field, before the next is written:
  without that, it would.
- A worker of an earlier registration that reports `running` for a step which
  this registration has not dispatched yet makes it no longer `pending`: it is
  never dispatched (third case of `Excused` in `JobRun`).
- An assignment whose reports are rejected is leased again and again until it is
  too old: there is no limit of retries.
- An assignment that the store drops before its step was done is never sent
  again, since the step counts as dispatched (fourth case of `Excused`).
- The exit code 0 of the handoff says that every agent it *found* was deleted.
  What it cannot find: agents whose spawn script died before it announced them,
  among them all earlier ones of the same run (`spawn-cursor-agents.py:80-81`
  announces when all are created), and those whose announcement is not among the
  last 200 messages of the channel.

## Not modelled

- **Validation and authentication** (`_require_auth`, `_normalize_message_payload`,
  field checks of the handlers): they reject requests before any state is read
  or written. Data of the wrong type that validation lets through (a delay that
  is no number) is outside the models, whose jobs are valid.
- **Content of messages**: sender, channel and body are not looked at, but for
  the channel in `PollView` and the type in `JobBoard`.
- **Limits of the store that are no limits**: `BUS_MAX_MESSAGES=0` keeps
  everything (`[-0:]`); the models assume a positive limit, as every deployment
  script sets. Blanks around the queue name of a step are kept while a claim
  strips its own (`server.py:175, 463`); queue names are atoms here.
- **A clock that is set back**: `time.time()` may jump, the models' `clock` only
  advances. What the proofs say of deadlines holds as long as it does.
- **`AgentAdapter`** is an interface without an implementation, and
  `iter_pending_steps`, `assigned_to` and `attempts` enter no decision.
- **Deployment, provisioning, smoke scripts and CI**: sequential calls of
  external services (`provision-oci-dev-vm.py` polls a cloud until a machine
  runs). `deploy-*.sh` touches the bus only by restarting it, which is an action
  here. Of `dogfood_litmus.sh` the worker is modelled, not its list of checks.
- **The Cursor service**: `AgentFleet` has what the scripts see of it, agents
  that are created and deleted and calls that fail.
- **`ACP_V2_SCHEMA.sql`, `ACP_PROTOCOL_V2.md`**: a design without code.

## Plan

The order is by importance of the behaviour.

1. *Done.* `WorkLease`, `MessageBus`: the store and its leases, with the proofs.
2. *Done.* `Orchestration`, `JobPlan`, `JobBoard`: readiness and dispatch, with
   the proofs for `JobBoard`.
3. *Done.* `PollView`, `AgentContract`: what clients see and say.
4. *Done.* `JobRun`: the registry, the queue and its workers together.
5. *Done.* `ResponseRace`: the replies, read while others write.
6. *Done.* `AgentFleet`: the scripts that start and stop agents.
7. *Done.* Proofs of the safety properties of `MessageBus`, `JobBoard`,
   `JobRun`, `ResponseRace`, `PollView`, `AgentFleet` and `JobPlan`.
8. *Done.* Proofs for `AgentContract`: what is written can be read, and keeps its
   meaning.
9. *Done.* `ResponseRace` implements `WorkLease`: the justification of single steps
   for lock sections.
