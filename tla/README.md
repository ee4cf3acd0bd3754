# A TLA+ model of ALLSEER

ALLSEER governs AI coding agents on a Linux host. An agent is launched by
`allseer-shim` inside a cgroup of its own; eBPF probes report what its processes
do; `allseerd` checks every report against a sealed *envelope* of permitted
capabilities, scores it, and lets policy decide whether to allow it, warn, freeze
the process tree until a person has answered, or kill it. Decisions go to an audit
log and to whoever watches the decision stream. This directory holds TLA+ modules
of that system, the TLC configurations that check them, and machine-checked proofs.

## Inventory

| Component | Where | State it keeps | Operations |
|---|---|---|---|
| Session manager | `internal/session/manager.go` | one record per session: lifecycle state, seal, approval, root PID, end time | Create, Seal, Approve, Start, Suspend, Resume, End (which evicts old ended sessions), queries |
| Dispatch loop | `internal/daemon/daemon.go` | the control channel, the entry of each session (owner, cgroup, `ending`) | Run, emit, finish, failAll, reapOrphans, Shutdown |
| Enforcement | `internal/daemon/enforce.go` | none | react, suspend, terminate, later, failSessionAs |
| Approvals | `internal/daemon/approvals.go` | pending requests with their timers, sessions being terminated | open, timeout, resolve, cancelSession, list |
| Control calls | `internal/daemon/rpc.go`, `leftovers.go` | refusals | createSession, approveEnvelope, startSession, endSession, RespondApproval, leftover calls, status, streams |
| Session cgroups | `internal/containment` | the kernel's: membership, `cgroup.freeze`, population | Create, Adopt, Freeze, Thaw, Kill, Remove, Sweep, Lock |
| Agent launcher | `cmd/allseer-shim` | where the launch has got to, the release pipe | create, approve, hold, start, release, end, watch the daemon |
| Daemon process | `cmd/allseerd` | | start-up order (lock, sweep, telemetry, self-test, serve), shutdown order |
| Control socket | `internal/ipc` | connections with their contexts | Serve, Shutdown, framing, peer credentials |
| Dispatcher | `internal/session/dispatch.go` | a processor per session | Dispatch, Release |
| Session state | `internal/session/state.go` | counters, grant uses, history ring, novelty set, tallies | RecordEvent, RecordDecision, RecordAllowed, RecordGrantUse, SetStartedAt, queries |
| Collector, tracker | `internal/telemetry/collector.go`, `tracker.go` | attached sessions, sequence numbers, unreported losses; processes with depth and image | AttachCgroup, DetachSession, handle, pollKernelDrops, Close; Observe, Untrack, ForgetSession |
| Decoding, probes, loader | `internal/telemetry` | none | decode, enrich, coverage, load, degrade, self-test |
| Pipeline | `internal/pipeline` | none of its own | Process: validate, score, decide, commit |
| Validator, policy, risk | `internal/validator`, `policy`, `risk` | none | Validate, LintEnvelope; Evaluate, LintRuleSet; Score |
| Intent, envelope | `internal/intent`, `envelope` | none | Sanitize, Analyze, Generate, Seal |
| Audit log | `internal/audit/jsonl.go` | the open file, its size, rotation limit | Open, Emit, EmitRecord, rotate, Flush, Close |
| Stream hub | `internal/daemon/hub.go` | bounded subscriber channels | subscribe, unsubscribe, publish, closeAll |
| Configuration, logging, `pkg/*`, `allseerctl`, tooling | | none that outlives a call | |

How they interact. Kernel records reach the collector's goroutine, which attributes
them to sessions and puts them on a bounded channel. The *loop*, one goroutine,
takes events from it, closures from the control channel, and a tick every second.
An event goes through the dispatcher and the pipeline, which reads the session's
state as it was, asks validator, risk engine and policy in turn, and then writes the
state; the decision comes back through `emit`, which writes the audit log, publishes
to the hub, and lets enforcement freeze or kill the cgroup. Control calls run on
goroutines of the socket server. They share the manager (a lock), the session
entries (a lock) and the approvals (a lock) with the loop, and hand it whatever
must run on it: `onLoop` waits for the answer, `later` does not wait and never
blocks. Approval timers run on goroutines of their own. The shims are separate
processes and may die at any moment; so may the daemon.

What is hard, then, is first the gap between two steps: a decision taken under one
lock and carried out under another, a closure that is queued while the session it is
about changes, a launch half done when somebody ends the session, a rotation half
done when a call fails, a daemon that stops between any two of these. It is second
the long run: budgets, novelty, risk and rule sets are judged event by event against
what earlier events left behind, and an error shows many events later. `PROJECT.json`
lists these hazards line by line.

What makes each component correct:

* manager - approval gates running, an ended session stays as it ended, memory is
  bounded, and forgetting takes only the oldest ended sessions;
* loop, enforcement, approvals - a denial is carried out whatever else happens, no
  answer undoes it, an ended session leaves neither processes nor questions, a
  frozen session always has somebody to settle it, and every end is recorded once;
* launch and shutdown - no agent code runs outside an approved, observed cgroup;
  nothing is lost track of, in a crash either;
* collector - a loss is never hidden from the session's outcome, a process is placed
  below its true ancestor though PIDs are reused, and the drain never waits;
* admission - who creates a session is told what the host cannot show, and the
  generated envelope keeps credentials out of reach of any task that needs none;
* pipeline, validator, policy, risk - denials win, no budget admits more than it
  allows and none comes back, an event is scored on the past alone, and the linter
  accuses no rule that works;
* audit and hub - what was acknowledged stays and keeps its place, through failing
  rotations and restarts, and a stream has no gap.

## Modules

| Module | Models |
|---|---|
| `SessionManager` | the lifecycle manager, one atomic action for each operation (it holds its lock throughout) |
| `GovernanceLoop` | running sessions: the loop with enforcement, approvals and finish, the goroutines that answer, the process trees |
| `SessionLaunch` | the launch protocol between shims and daemon, ending, the reaper, shutdown, crash and restart |
| `ProcTracker` | the process tracker as a value with one operator for each method |
| `Telemetry` | the kernel's ring, the collector's drain, attach and detach, the tracker and what a session's outcome says of its losses |
| `Capabilities` | the catalog of capabilities, what an operation exercises, and what is observed of an event |
| `Selectors` | matching of paths, hosts, ports, protocols and arguments, and which of several grants is the narrowest |
| `Validation` | the validator and the admission lint, over `Selectors` |
| `Policy` | rule sets: compilation, evaluation, linting |
| `RiskScore` | the risk engine's factors and their sum |
| `SessionState` | the session's counters, history and tallies, as operators |
| `Decoding` | from a kernel record to an event |
| `Decision` | the pipeline of one session, event by event, over all of these |
| `Ledger` | abstract: accounts that are charged one use at a time and never past their limit |
| `Probes`, `Loading` | what a set of attached programs reports; what a host loads, attaches and shows in the self-test |
| `Intent`, `Generation` | the analysis of a prompt; the envelope generated from it |
| `Admission` | createSession over `Loading` and `Generation`, in front of `Decision` |
| `MCDecision` | instances of `Admission` and `Decision` for TLC |
| `AuditLog` | the audit sink, call by call, over a file system that can fail and lose power |
| `DecisionHub` | the decision stream's hub and its handlers |
| `Emission` | composes the two: what becomes of a decision and of a session record |
| `SessionManagerProofs`, `GovernanceLoopProofs`, `SessionLaunchProofs`, `TelemetryProofs`, `DecisionProofs`, `AdmissionProofs`, `EmissionProofs` | proofs |
| `SumTheorems` | what the sum of a function's values is, and the induction its definition calls for; the other proof modules use it |

Three compositions: `GovernanceLoop` and `SessionLaunch` each compose the loop with
the manager's states, the cgroups and the control calls; `Decision` composes the
pure engines with the session's state, and `Admission` what precedes them; `Emission`
composes the log and the hub behind `emit`. `Decision` implements `Ledger`: the
property `KeepsTheLedger` instantiates it with the envelope's limits and the
session's grant uses, and it is proved.

A definition in a model that stands directly before another one with the same
parameters (`EvictedLiveToo` before `Evicted`, `OpenWhileTerminating` before `Open`)
is that definition with a plausible bug. No specification uses these; they are
there to show that the properties notice the difference.

### SessionManager

`sessions` is the manager's map (`NoSession` for an ID it does not hold), `frozen`
what `cgroup.freeze` of the session's tree holds, `now` the clock. A call the code
refuses changes nothing and is not a step. `Supervise` is the call made under the
lock by Suspend and Resume: `refused` means the kernel refused the write, `late`
that the write is in force and the wait for its confirmation failed. `Evicted` says
declaratively what `evictEnded` does by sorting: all but the last `KeepEnded` in
the order of end time and ID. Two sessions may end at one reading of the clock, and the
one that ends then can be forgotten in the same step, when the greater IDs of that
reading already fill what is kept (`TiedAfter`); no step forgets a live session that it
does not end.

### GovernanceLoop

`at` says where the loop is and `cur` which session it works on. Between two values
of `at` lies one critical section of the code, so a goroutine that answers a
request may step in at each: `SuspendReads` and `SuspendFreezes` are the two halves
of `suspend`, `Resolve`, `RecordAnswer` and `DenyTakesEffect`/`ApprovalTakesEffect`
the three parts of `resolve`, and `FinishKills`, `FinishCancels`, `FinishEnds`,
`FinishRecords` those of `finish`. `req` holds approval requests with what the
answering goroutine carries from one part to the next. `control` is the bounded
channel, `waiting` the goroutines that `later` starts when it is full. `tree` is
the cgroup, and `killErr` remembers that a kill of it has failed.

Decisions are chosen freely (allow, request_approval, block) for each event, and so
is whether an event reports lost records. Warn and monitor mode change nothing;
`React` gives where each mode sends each decision.

### SessionLaunch

One shim, one session ID, one control call at a time. `call[s]` is where the call's
handler is; the handler goes on when the shim dies and its reply is dropped. The
daemon is `up`, `losing` (the telemetry stream has ended, `failAll` runs while the
socket still serves), `closing` or `draining` (`Run` has returned; after a signal
nobody waits for handlers, after a lost stream the server's Shutdown does),
`stopping` (in the daemon's Shutdown), `down` or `crashed`. A restart locks the
base, which is why two daemons never overlap, sweeps it, and then serves. `root`
is the shim's child: held at the gate, then the agent.

The server's Shutdown, which a signal calls, cancels the context of every handler
(`Cancelled`), and the loader refuses to write its map under such a context, so that
`StartAttaches` fails from then on and the start is undone. The collector itself does
not refuse when its stream has been lost.

Each call of the sweep may fail (`Restarts`). A group that cannot be read, removed or
frozen is noted as it is, with its processes running (`stuck`); one that cannot be opened
is passed over silently, and when the base cannot be listed all of them are: the daemon logs
that and serves (`missed`). `released` remembers which groups the sweep did not freeze or
did not see, and which root has thawed.

### Telemetry

`alive` is the governed processes, each a PID and a start, with its parent, its image
and how far below the root it is; `ring` and `drops` are the kernel's buffer and
counter. The drain goroutine's work on a record is three steps, as in `handle`: to
its first unlock (`Attribute`), the tracker (`ObserveProcess`), the enrichers with
what the tracker learns from them (`Enrich`), and the last section (`Deliver`), where
a full channel makes it an overflow. Between them processes fork and exit, PIDs are
handed out again, sessions detach, and grace timers fire. `PollReads` and
`PollCharges` are the two halves of the poll of the kernel's counter. `hist`,
`emitted` and `displaced` only record what really happened, for the properties.

A session stands for its cgroup, whose ID no other one gets. A record keeps the
image its process ran when the probe fired. A record that does not decode is counted
and charged to nobody. The exit of a process's leader is taken to be its last
thread's, and subreapers are ignored. The kernel's losses are charged to the sessions
attached when the counter is polled, which is the code's own approximation;
`LossesAreAccounted` says what remains true of it.

### Decision and the engines under it

Paths are sequences of segments, patterns of pattern segments, host names of labels
from the last one down, addresses of bits; times are small numbers; a list in a
selector or a condition is a set, empty when it is left out. The generator writes the
workspace's and the home's path into patterns as they are spelled: `Globs` has the names
which hold a `*`, a `?` or a `[`, each with the pattern segment it then reads as, one that
matches no name where it is malformed (`AsSegment`). A program started by a relative name
has that name as its target, which no pattern can be compared with. An event is the record
`Decoding` makes of a kernel record, or one of a recording, which also carries its
own clock and may carry a learnt host name. Live events carry no clock, so the
host's decides expiry and duration; it is a wall clock, and `Tick` may set it back. One
action, `Process`, is the code's `Process`: the
stages read the state before the event, any of them may fail (what is then decided
is the code's degraded decision), and the commit writes counters, history, tallies
and the charge to the grant. `log` remembers events with their decisions for the
properties. The environment chooses events, clocks and failures.

`Admission` has no state of its own: a host, a daemon and a request determine what
is created. Its properties are about every combination of the instance and are
evaluated before the first event; one of the generated envelopes is then governed by
the pipeline like the hand-written ones. A host is what its kernel answers: the
families it refuses, alone or together, a load that fails for another reason,
preconditions that do not hold, programs that do not attach or do not run.

### Emission

The log's file system is a map from names (`path`, `path.1`, ...) to files, each file
a sequence of pieces of which a prefix is synced. Each system call of a rotation is a
step that may fail, but that a search for names by `exists` is part of the step before or
of the removal: a Stat that fails reads as a free name, whatever is there, and ends the search
(`StatFails`). A short write leaves its piece. A stop takes the process and
leaves the files; a power loss also takes any suffix of each file beyond what was
synced, and names and truncations are taken to be durable in the order they were
made. A restart may change `max_files`, `sync_writes` and what is recorded. Records
fit `max_size`. `emit` is two steps, the write and the publication; the hub's
acceptance of a decision by a subscriber is a free choice. The sink's counters are
left out. `stranded` remembers the files that are written to after a rotation has
renamed them and could not open another; `PowerLossTakesTheTail` excepts those.

## Runs

| Run | Asks | Bounds |
|---|---|---|
| `session_manager` | do the recorded state and the tree agree, and is a live session never forgotten? | 3 sessions, `KeepEnded` 1, 3 clock readings: two can end at one reading while a third lives, and eviction has to choose |
| `session_manager_late_freeze` | does a failed Suspend leave the session what it still is? **violated** | 1 session |
| `governance_loop` | nine properties of a running session, two of them liveness | 1 session in any of three modes, 2 requests, 3 events, a control channel with room for 1, kills and freezes that fail: the channel fills, two requests overlap, and an event arrives after each of them |
| `governance_loop_race` | is the tree frozen while a request is open? **violated** | 1 session, 2 requests, 2 events |
| `session_launch` | six properties of launch, crash and restart | 1 session, 1 restart: the shim and the daemon die at every point, and the second daemon meets every state the first can leave |
| `session_launch_shutdown` | is no agent left behind by a shutdown? **violated** | 1 session, no restart |
| `session_launch_abandoned` | does a session that never started end? **violated** | 1 session |
| `telemetry` | losses, the tracker, depth, and that the drain neither blocks nor outlives Close | 1 session, 2 PIDs, 3 processes, 3 records, ring and channel with room for 1: both overflow, and a PID is used again while a record of its former holder is in the ring; what sessions attached at once do to each other is proved |
| `telemetry_tail` | does a session that ended as complete have no gap? **violated** | 1 session, 1 process, 2 records |
| `decision` | four properties of event sequences, two of rule sets and scores, three of admission, and the ledger | 3 configurations (a hand-written envelope for files, one for the network with faulty rules, a generated one), 11 events, sequences of 3 with 1 failed stage, history of 2, 3 readings of a clock that moves both ways; 26 hosts, 2 choices of probes, 5 daemons, 105 requests, 28 of them for a workspace or home that reads as a pattern |
| `emission` | order, loss, power loss and streams | 4 records, files with room for 1 of them, `max_files` 0 to 2, 1 fault, 2 stops or power losses, 1 subscriber with room for 1 decision: every call of a rotation (but a Stat under `max_files` 0) fails or is interrupted once, with older files there |
| `audit_rotation` | does a failed rotation lose nothing? **violated** | `max_files` 1, the one fault is the creation of the new file |

`CHECK_DEADLOCK FALSE` everywhere: sessions end, daemons stop, clocks and event
supplies are bounded, and the models stop with them. The bounds (`MaxClock`,
`MaxRequests`, `MaxRestarts`, `MaxStarts`, `MaxRecords`, `MaxEvents`, `MaxFaults`,
`MaxTime`, `MaxStops`) are guards of the actions that would pass them. The real
control channel has room for 64 closures, the event channel for thousands; the
capacities are constants, and a full one is reached with 1. In `decision` two events
suffice to spend a budget of 1 or to fill the history of 2, and the third meets what
they left. In `emission` the failure of creating the new file is allowed only where
`max_files` is 0, because elsewhere it is the violated run's subject; and a Stat may fail
only where `max_files` limits the files (`StatFailsUnder`), because without a limit a
failed one loses records, a disagreement listed below. The other four properties of the
run hold with that failure too.

The safety part of `session_launch` was also run by hand with two sessions
(767 000 states), `governance_loop` with two sessions of one event each; both hold,
and the theorems about `GovernanceLoop` cover any number.

### What the violated properties say

* `StateMatchesTree`, late failures: `Suspend` promises that a failure leaves the
  session active, "which is what it still is". When only the wait for the kernel's
  confirmation fails, the tree freezes all the same and the session is recorded
  active; `Resume` is then refused. `react` answers the error by terminating the
  session, so the loop does not stay there; other callers would.
* `FrozenWhileAsked`: `approvals.go` says that a session stays frozen until every
  open request for it is answered. `resolve` decides under its lock and resumes
  later, so a request opened in between is not looked at. What does hold, and is
  proved, is `EarlierRequestsAnswered`: every request asked before the answer was
  taken is answered; and `FrozenUntilAnswered`, that this race is the only way.
* `NoAgentLeftBehind`: `Shutdown` promises that no agent is left running. When the
  telemetry stream is lost, `Run` ends what it lists while the socket still serves
  and no context is cancelled. A `startSession` in flight can then publish its cgroup
  after `finish` has looked for it and start the session before `finish` gets to
  `manager.End`; the reply releases the agent, and `Shutdown`, which waits for the handler,
  passes over a session that is recorded as failed. The next daemon's sweep freezes the
  agent (`LeftoversAreHeld`), if there is a next one and it can read the group. That this
  is the only way to leave an agent behind is proved (`NobodyIsLeftBehind`): after a
  signal the handler cannot attach telemetry any more, and undoes the start.
* `AbandonedIsEnded`: the lifecycle's `end` accepts sessions that never started, so
  that they are not stuck, but nothing calls it for a session whose shim died before
  `startSession`: the reaper wants a cgroup.
* `CompleteHasNoGap`: `TelemetryComplete` "reports whether the event stream had no
  gaps". What was lost on overflow is reported with the session's next event; when
  no event follows, nothing reports it. What does hold, and is proved, is
  `LossesAreAccounted`: the loss is there, in the pending count.
* `NothingLost`: after a rotation that renamed the log and could not open a new one
  the sink writes under `path.1`, and the next attempt deletes or shifts the file it
  writes to, while the comment on the counter says that nothing was lost.

### Smaller disagreements, met while modelling

No run is about these; they are noted where a reader of the model may wonder.

* Audit: after a short write the next record is appended to the partial line.
  Clearing goes upward from `path.max_files`, so that an interrupted clear after
  `max_files` was lowered deletes newer excess files before older ones; the next one
  finishes it. A rotation that fails and is put off may still have shifted or
  deleted a file. When its new file could not be opened and the daemon is restarted,
  nothing syncs the file left under `path.1` any more, and a power loss may take its
  newest records while it keeps newer ones of the next file.
* Audit: `exists` (jsonl.go:479-482) takes any failure of a Stat for a free name. Under
  `max_files` 0 a Stat of `path.1` that fails makes `rotate` rename over the file that is
  there (jsonl.go:446-464), and its records are gone. Under a limit it ends the clearing early,
  or the file it hid is one that was to be deleted.
* Sweep: the comment on `sweep` (main.go:263-266) wants that "nothing runs ungoverned while an
  operator decides". A group that cannot be frozen is logged and listed as it is; when
  the base cannot be read the daemon serves without having seen any (main.go:269-272), and a
  group that cannot be opened is not mentioned at all (cgroup_linux.go:133-136).
* Duration: state.go says of the duration twice (519-521, 861-862) that one which can
  decrease lets a spent budget come back. On the host's clock it can: `ElapsedSeconds` reads the
  wall clock (498-505), which may be set back. `SpentStaysSpent` excepts the duration in
  the step that sets the clock back, and nothing else.
* Policy lint: one unknown value among known ones makes a rule critical
  ("can never match"), although it can, where lint.go:26-33 wants "No false positives".
  `LintIsSound` excepts a rule that is accused of no more than that; the instance has
  one that decides, and one that is also shadowed, which does not. The
  description of the default rule on privilege escalation speaks of fewer verdicts
  than its list.
* Validator: a denial's segment such as `[z-a]` passes the lint and matches nothing.
* Generation: the workspace's and the home's names are put into patterns unescaped
  (generate.go:213, 304, 307; path.go:394-452). A `[` that is never closed makes a denial
  unusable and `Seal` refuses, after `Create`, leaving a pending session. For the workspace
  `/tmp/[x]` the denial on its hooks covers those of `/tmp/x`, while `/tmp/**` is granted: its
  own hooks can be changed. For `/home/u/[slug]` the work itself is not permitted.
  `CredentialsOutOfReach` says nothing of what lies in such a home or workspace. A workspace that is `/root` itself, with a home elsewhere, gets
  `/root/**` denied and cannot be worked in.
* Coverage: the catalog does not declare `io_uring` for `ipc.unixsocket`, so that its
  loss is never reported. A spurious refusal of the first load only leaves out the
  last family. `degradeFamilies` leaves a set that cannot be enlarged, which is not
  always the largest, as a comment has it, when families conflict with one another.
  A host whose open hook is lost or silent does not pass the self-test, so that the
  warning about opens seen only when permitted reaches no session.
* Tracker: a root that is awaited is known by its PID alone (`ProcTracker.roots`,
  tracker.go:40). When it has exited before its first record was handled, and another
  session's agent gets its PID, it loses its place: its records, and those of its
  children, are placed one level too deep. `DepthIsSound` excepts a session this
  happened to (`displaced`).
* startSession looks its entry up again after adopting the agent; had the session
  been ended and 128 others after it in between, the entry would be gone.

## Fairness

`GovernanceLoop!FairSpec`: the loop's goroutine keeps running (Go's select picks at
random among what is ready, so neither events nor closures are starved, and events
are finite here), goroutines that hold an answer run on, a timer that is due fires
(`time.AfterFunc`), and a goroutine blocked on the channel gets in when it has room.
Nothing is assumed of owners, agents, shims, or of when the daemon stops: a session
is settled by its timer even if nobody answers.

`SessionLaunch!FairSpec`: the loop and each handler run while they can. The reaper's
grace period is a tick of the loop and not modelled as time. Nothing is assumed of
shims or agents, and the leads-to properties end when the daemon does.

`Telemetry!FairSpec`: the drain goroutine runs while it can, and does not pass over
the end of its context for ever. Nothing is assumed of the loop that takes the events:
that is what `RingIsDrained` is about.

`Decision` and `Emission` have safety properties only.

## Proofs

The proofs hold for every value of the constants that satisfies the modules' named
assumptions: any set of sessions, any capacity, any number of requests, all faults.

`SessionManagerProofs`. The invariant is `TypeOK` with `NoUnapprovedRun`. Every
action property follows from it and one lemma for each kind of step. `EvictsOldestFirst`
and `EndedBounded` rest on what `Evicted` says about finite sets: among the ended
sessions that are kept there is one that ended first (well-founded induction's
minimum), and fewer than `KeepEnded` ended after it. `StateMatchesTree` is proved
under the assumption that no failure is late; the violated run shows why it is
needed.

`GovernanceLoopProofs`. `NoQuestionAfterDenial` and `EarlierRequestsAnswered` are not
inductive alone: the first needs that a request is only opened outside
`terminating`, the second that an answer counts only requests that had been opened
by then (`AnswersCountOpened`), so that a later one is not among them, and that there
is room for the request the loop is about to open (`RoomToOpen`).

How sessions end adds, on top of that invariant:

* `Books`: the loop works only on live sessions (`WorksOnLive`) and records only ended
  ones (`RecordsEnded`); without both, `EndRecordedOnce` is not inductive.
* `Finished`: once `finish` has passed its kill the tree is contained, and once it has
  withdrawn the requests nothing is asked, so that `EndedIsContained` holds at the
  moment the state becomes terminal. It also needs that no request is opened about an
  ended session, which is `WorksOnLive` again.
* `Fresh`: an unopened request is unused, so opening one never overwrites a denial that
  has not taken effect. With it, a kill that is underway stays so through the channel,
  the goroutines behind it and the loop (`UnderwayStays`), and a session leaves
  `terminating` only in `FinishCancels`: `DenialNeverLost`.
* `Awaited`: `SuspendedIsAwaited` strengthened to count, of the answers on their way,
  only one that will resume the session. That such an answer exists when the last
  request is answered rests on `NoQuestionAfterDenial`; that opening is refused only
  when an end is underway rests on `DenialNeverLost`. It assumes that thaws do not fail
  (`ThawFaults = {}`), as the runs do.

`FrozenUntilAnswered` is about what the violated run refutes. Its specification
(`SpecRechecked`) has every step but one kind: a thaw that takes effect while a request
about its session is open, or while the loop is about to open one for a session it
found suspended. Without it `FrozenWhileAsked` holds for any sessions, requests and
faults of kills and freezes. The invariant (`FrozenWhileWaiting`) says of a session
that is suspended, or is asked about, or is about to be, that its tree does not run:
opening is not preceded by a look at the tree, so the loop's place has to be part of
it. It assumes that no thaw comes into force after it was reported failed, because
such a one leaves the session recorded suspended with its tree running.

`SessionLaunchProofs` proves the four safety invariants of the launch and its type,
for any number of sessions, of handlers at work and of restarts. Its invariant is a
conjunction about one session (`Safe`). The parts that are not properties themselves
are what makes them inductive: the handler of `StartSession` goes on when the shim has
died, so what holds at each of its steps is stated of the handler and not of the shim
(`HandlerHas`); an answer that releases the child says that it is inside and approved
(`Starting`); a child that is not there yet is not inside (`NoChildYet`); and a daemon
that is gone holds no group and runs no handler (`GoneHoldsNothing`), so that whatever
exists is for the next one's sweep to find. Its calls may fail in any combination;
what it could not see stays marked as missed, and the two theorems about leftovers say
so.

What `Shutdown` says is proved where, while `Run` ends the sessions of a lost stream,
`startSession` does not publish its cgroup between `finish`'s look at it and the manager's
`End` (`SpecInTime`), which is the step the violated run `session_launch_shutdown` takes.
While the daemon only serves, such a session has nothing to end it for (`NothingToEnd`, with
`CallsInOrder` for what its shim may have asked), and after a signal its handler cannot
attach: neither has to be assumed. The invariant (`InTime`) ties whoever
runs, or is about to be released by an answer already given, to a session that is
active and not killed yet (`ActiveWhile`); a handler that is still at work cannot
release what `finish` has killed (`KilledFirst`), nor start a session which `failAll`
had no reason to list (`StartsNoMore`). It gives `AgentsKeepTheirSession` while a daemon
runs, `ShutdownKillsAgents` when `failAll` is done, and for a daemon that no other
preceded `NobodyIsLeftBehind`: the shims that outlive it release nobody. Later daemons
are left out there because root may thaw a leftover, or the sweep miss one, which the
next `Shutdown` does not end.

`TelemetryProofs`. `LossesAreAccounted` is proved with `TypeOK`, for any number of
sessions, processes and PIDs, any capacities, and attachments that overlap. The
invariant is an account for each session (`Balanced`): what it has lost on overflow is
at most what it has reported and will report of its own accord, and while it is
attached that also covers what the kernel lost, up to the part of the kernel's counter
no poll has charged yet. It needs that a session is numbered and charged only once it
has been attached (`Untouched`), and that a poll under way has read a value which the
counter had and which nobody has charged (`PollIsCurrent`).

`RecordsAreCounted` proves `NothingUncounted`, whose counters are sums over the
sessions. Sums follow a step at a time: a step changes one session's counters, and
`SumFollows` says the sum changes by as much.

`TelemetryProofs` also proves `TrackerAgrees` and `DepthIsSound`, for any number of sessions
that are attached at once, processes and PIDs in any reuse. Its invariant (`Ancestry`)
is about the order of the record in hand and the records in the ring, taken together
as one `Queue`:

* What living processes and records say of a process is a claim (`Claims`). Nobody
  says two things of one process, a session has one root (`Consistent`), and an exit is
  the last that is said (`ExitIsLast`).
* The awaited root is known by its PID alone, so it has to come first: no other
  process of its session with that PID is in the table, and the queue holds the root's
  own record before any other (`RootComesFirst`). This is what a lost record breaks,
  and why the property excepts `drops > 0`; it is also what a second root given the
  same PID breaks (`displaced`).
* A parent is known by its PID alone as well. `ParentIsAbove`: whoever in the table or
  earlier in the queue has the PID a record names as its parent's, and does not have
  its exit handled before that record, is above the record's process. It is made
  true when the probe fires, where the table's entry is still alive or its exit is in
  the queue (`ExitIsReported`), and a living process with that PID is the parent.
* `HandIsSound` carries the depth from `Observe` to the end of the record's handling.

The steps fall into five kinds (nothing but losses; a process started; a probe that
fires; a record done with; a process placed), and each conjunct has one lemma per kind.

`DecisionProofs`. `LedgerIsKept` shows that `Decision` implements `Ledger`, and
`BudgetsAreHeld` proves `BudgetsHold` from the invariant `Tallied`: the number of
events a grant covered is what has been charged to it, and the session's counters are
the number of events of their kinds, whatever stages failed. `SpentBudgetsStaySpent`
needs that uses and counters only grow, and that the stream's clock does not run
backwards though the clocks of the events may; a duration read from the host's clock is
excepted in the step that sets this clock back.

`DenialsAreHeld` proves `DenialsHold` for envelopes, patterns and paths of any length.
`DescribedIsAnswered` says that a denial which may describe an event answers "matched" or
"unevaluable" and never "mismatch", so that `Validate` does not come to the grants. What
`matchSegments` computes is proved from its recursion: `SegmentsCovered` takes a cut of
the path, as `Covers` describes it, from the last segment of the pattern to the first.

`TypeCorrect` of `Decision` is where the engines' arithmetic and order are proved: the
grants and the rules are tried in an order that has a first (`OneGoverns` and
`OneRuleIsFirst`, from `FirstExists`: the ranks compared are numbers, and ties are
settled by position), so that `CHOOSE` picks one; points are naturals and the score is
clamped; the memory and the tallies stop growing at their limits.

`LintedRulesAreDead`. A verdict of the linter is about two lists of conditions, and
decisions are about events. `ImpossibleRuleNeverMatches` and `WiderMatches` go from one to the
other: a condition that names nothing known, or a range with nothing in it, matches no
event; whatever satisfies a rule satisfies one that subsumes it, so the earlier rule is
taken. That uses what a decision's verdict, type and level can be (`LintAgrees` carries
it from the stages to the record), and for patterns that a wider list holds the narrower one's.
A rule with an unknown value among known ones is covered as well, wherever the linter has
another charge against it; that one charge alone is the linter's error and is excepted
(`Innocent`).

`ScoresAreOnThePast`. The invariant `Recalled` says what the history holds of the log, at each
step: the ring is the end of the log (`Ringed`), the memory of targets is the first
`MaxSeenTargets` keys named (`Memory`), the count of violations is the departures so far. The score
of the next event reads only these. `PastIsSettled` and `ScoresAreSettled` say that
appending to the log changes nothing that is said of its earlier entries.

`AdmissionProofs`. `LoadsAreMaximal` is about an algorithm: the search of
`degradeFamilies` by halves, on any host, whichever families its verifier refuses alone
or together. The search is a table over the states a search can be in, each of which
either ends it or names the next, and the table exists because a rank falls from state
to state (`TailRecursionExists`, `SearchEnds`); what holds of the first state and is kept
by each step holds where it ends (`SearchInduction`). Two things are kept. `Cheap`: the
loads so far, and the halvings the current interval still takes, stay within a first
search and one search for each family left out. `Searched`: the shortest refused beginning
of the families still in lies in the interval, and each family left out is justified by those
that come after it (`AllJustified`). The last is stronger than what the property says,
which is of the final set alone: one family would be refused with all the others back in
that come later, whether or not these are left out in the end, and the search finds them in order
(`FoundIsJustified`). `HostsAssumption` says that a load that fails, fails with an error.

`AdmissionsAreHonest`, of the same module, compares two accounts of what a daemon
sees. The code keeps one by families: what each declares to report, and which are whole.
The property has the other, by programs: which run, and what their records decode to.
`ProgramsAre` gives every program as the emitter of its family or the other half
of its pair, `EmitsWhatItReports` says that each emits what it declares and nothing
else, and from these `ReportedIsWatched` equates the two, call by call and with refused calls
apart. `CoverageIsTold` carries that to the warnings of the answer. For the envelope,
`WantedKinds` says what any task asks for, `MergedKinds` and `OfKindsSays` that merging
and leaving out lose no other kind, and `StartedSees` that a daemon which has started
observes all of these but links.

`CredentialsAreOutOfReach` follows an envelope from the prompt to a verdict, for any
workspace, home, prompt, host and configuration. `ReadsDenied` and `WritesDenied` list
what `Denials` denies; `DenialsAreKept` carries it into the envelope, since a daemon that
has started observes reads and writes; `KeptIsShielded` and `FixedIsShielded` say that it
covers every credential and every place that runs later, but for those a git task is
left (`RemoteIsAsked`: only a prompt that asks for git before anything else, and for the
network, is left the keys). `WaysAreOperations` computes what each way to open or link
a path is decoded to and which kinds it exercises, and `DeniedIsRefused` that one denied kind
among them suffices, whatever is granted. The other direction, `WorkIsPermitted`, is
that the denials do not reach the work, where neither path reads as a pattern: `MatchedSegments` reads a match backwards, from
the pattern to the path, so that a denied place is a prefix of the workspace or differs
from the work in a segment (`WorkIsUndenied`); what `Generate` merges and keeps of the
grants still holds the workspace (`MergedFiles`, `GrantsAreKept`), so that some grant
matches, one governs, and no budget is spent. The property excepts what lies in a home or
a workspace whose path reads as a pattern (`Held`, `PlainSegments`), since the denials for it are
then about another directory; a workspace that lies where something is denied or reads so
(`Misplaced`); and operations whose kind was not granted, because the
operator forbids it or nothing observes it. Such paths are among those the theorem is
about: the places that do not depend on them, `/etc/shadow` and the other one's, are
still kept. Of the constants it takes that a
request's workspace and home are sequences of segments, the workspace without `..`, as
`filepath.Clean` leaves an absolute path (`RequestsAssumption`), that none of the names
the generator writes of its own reads as a pattern (`GlobsAssumption`), and that an
envelope's life is not zero, as `Generate` sees to (`DaemonsAssumption`).

`EmissionProofs`. One invariant of the log (`LogInv`) carries three theorems, for any
number of records, faults, stops and values of `max_files`:

* `LogIsInOrder`. The order needs to know what the next write can do to it: the record
  in hand is newer than everything on disk (`NothingNewer`), and the file it goes to is
  the newest that has a name, or has none (`WritesNewest`). A rotation moves a file only
  to a name that is free, unless a Stat has failed (`RotationAt`); then what it replaces is
  the next older file, and the others keep their order. Without `max_files` this needs
  that there is a free name: `FreeName` counts names against files with the pigeonhole
  principle, and `FewFiles` that each file was made for a record.
* `LossesAreTheTail`. A file that a rotation leaves is synced and is not written to
  again, unless it is stranded (`Stable`); so what is not synced is the end of the
  current file. A record that was forced out lies within what is synced
  (`ForcedSynced`).
* `NothingIsLost`. `SinkNamed`: while new files can be opened under a limit, the file the
  sink writes to is the one at `path`, and clearing deletes only older ones. One
  assumption is the one the violated run `audit_rotation` shows to be needed; the other
  is that no Stat of an existing file fails under `max_files` 0, where rotation would rename
  over it. Under a limit a Stat may fail: what is then replaced was to be deleted
  (`RoomMade`).

`StreamsHaveNoGap` has an invariant about each subscription alone. `EmissionProofs`'s
`TypeCorrect` bounds the sizes of the files, which are sums over their records.

`SumTheorems`. The library's induction theorems take an operator as a parameter, which
the provers cannot instantiate. `SmallerFails` is the same induction with a set in its
place: the finite sets for which something is wrong, which is empty when each of them has
a smaller one. From it follow what `SumFunction` is and the lemmas about sums that the
other modules cite. The recursive functions of `Selectors` are treated likewise, with
`LeastNatural` for the least index at which something is wrong.

Some theorems of these modules state properties that no run lists, because a
property the runs do list depends on them or a stronger one replaced them:
`UnapprovedNeverRuns`, `EndedStayBounded`, `EvictionIsOldestFirst`,
`TerminalStaysFinal`, `AgentsKeepTheirSession` and `ShutdownKillsAgents`. TLC has checked them on the instance of their component.

Only checked by TLC:

* liveness: `FrozenIsSettled`, `DenialEnds`, `OrphanIsEnded`, `AbandonedIsEnded`,
  `RingIsDrained`, `CloseEnds`. Liveness under fairness is beyond the prover.

## What is not modelled, and why

Left out, with what stands in its place:

* Bytes. Record layouts, the control socket's framing, JSON, globs as strings (what a
  name reads as is given, in `Globs`), and
  the walk of the file system that resolves a path: `Decoding` starts from a record's
  fields and is given what the walk found, and patterns are sequences of segments.
  The probes' own C code and the loader's system calls are I/O; a host's answers to
  them are an input.
* Configuration parsing, logging, metrics counters (`Stats`), `allseerctl`, replay and
  synthetic events, benchmarks, the ABI generator and packaging: no state that outlives
  a call, or tooling.
* Time is order only: grace periods, settle times and timeouts may expire whenever
  what they wait for has not happened.

Narrower than the code, by component:

* `SessionLaunch`: kills succeed, since a failing kill is `GovernanceLoop`'s subject; a
  terminated tree and its queued end are one step (`EventEnds`); the ten seconds `main`
  gives to the shutdown are taken to be enough. Eviction is left out, and with it the
  entry in `d.sessions` that goes with an evicted session and that `startSession` looks
  up a second time without checking that it is there. A signal arrives between two pieces of
  the loop's work. A freeze of the sweep that is in force though its confirmation failed
  is not told apart from one that was refused.
* `GovernanceLoop`: sessions have been started and are not evicted. A thaw that fails
  after the last answer leaves the session suspended with no request open and nothing
  that retries; the code logs it and no text promises more, so `ThawFaults` is empty in
  the runs, and `SuspendedIsAwaited` is proved under that assumption.
* `Decision`: the policy's `Reload` and the engines' `ScoreSession` and
  `ValidateSession` have no caller outside tests; the daemon always constructs the
  policy with the risk engine's score at hand (`NewWithRisk`).
* `Admission`: earlier turns of a conversation are never passed by the daemon; hints of
  paths and tools are only recorded; of the operator's limits the daemon sets only the
  number of grants; families are enabled by family and not by a single program's name;
  `Seal` is `Admissible`, the blocking findings of the admission lint.
* `AuditLog`: every record fits `max_size`; a Stat of a name that is free does not fail, which
  would read the same.
* `Telemetry`: the enrichers' results beside depth and image are `Decoding`'s subject
  and have no part in it.
