--------------------------- MODULE GovernanceLoop ---------------------------
(***************************************************************************)
(* What happens to running sessions: internal/daemon/daemon.go (the loop), *)
(* enforce.go and approvals.go, over internal/session's manager.           *)
(*                                                                         *)
(* One goroutine, the loop, takes telemetry events, queued closures and    *)
(* ticks one at a time.  A decision that asks for approval freezes the     *)
(* session's cgroup and opens a request; a decision that blocks kills it.  *)
(* Requests are answered on other goroutines: an RPC of the owner, or the  *)
(* request's timer.  An answer runs in three steps, because it leaves the  *)
(* approvals lock before it writes its audit record and again before it    *)
(* takes effect.  Every step of the loop that takes a lock (the manager's  *)
(* or the approvals') is an action of its own.                             *)
(*                                                                         *)
(* A definition that stands directly before another one, with its          *)
(* parameters, is a defect of it that some property must notice; no        *)
(* specification uses it.                                                  *)
(*                                                                         *)
(* The sessions here have been started; how a session gets that far, and   *)
(* what a crash does to it, is another module's subject.                   *)
(***************************************************************************)
EXTENDS Integers, Sequences

CONSTANTS
  Sessions,      \* started sessions
  InitialModes,  \* the enforcement modes a session may have been created with
  TimeoutAllows, \* Policy.ApprovalTimeoutAction = "allow"
  KillMayFail,   \* whether Group.Kill may time out
  FreezeFaults,  \* how Group.Freeze may fail: see SessionManager
  ThawFaults,    \* how Group.Thaw may fail
  ControlCap,    \* capacity of the control channel (64 in the code)
  MaxRequests,   \* bound: approval requests opened
  MaxEvents      \* bound: events each session's tree produces

ASSUME ModesKnown == InitialModes \subseteq {"monitor", "warn", "interactive", "enforce"}
ASSUME FlagsBoolean == TimeoutAllows \in BOOLEAN /\ KillMayFail \in BOOLEAN
ASSUME FaultsKnown == /\ FreezeFaults \subseteq {"refused", "late"}
                      /\ ThawFaults \subseteq {"refused", "late"}
ASSUME BoundsNatural == /\ ControlCap \in Nat \ {0}
                        /\ MaxRequests \in Nat
                        /\ MaxEvents \in Nat

VARIABLES
  mode,        \* [Sessions -> mode] fixed when the session was created
  state,       \* [Sessions -> lifecycle state] the manager's record
  tree,        \* [Sessions -> "running" | "frozen" | "dead"] the session cgroup
  killErr,     \* [Sessions -> BOOLEAN] history: a Kill of this tree has failed
  produced,    \* [Sessions -> Nat] events the tree has produced
  events,      \* [Sessions -> Nat] events in the telemetry channel
  at,          \* where the loop is
  cur,         \* the session the loop is working on
  result,      \* the result finish will record
  gap,         \* the event in hand reported lost records
  stopping,    \* Run has returned; the main goroutine is in Shutdown
  control,     \* the control channel: closures for the loop
  waiting,     \* [Closure -> Nat] goroutines blocked on a full control channel
  ending,      \* [Sessions -> BOOLEAN] sessionInfo.ending
  endCall,     \* [Sessions -> "none" | "settling" | "sent"] the shim's EndSession
  opened,      \* approvals.seq
  req,         \* [1..MaxRequests -> Request] see Request
  terminating, \* approvals.terminating
  ends         \* [Sessions -> Nat] session_end records written

loopVars == <<at, cur, result, gap, stopping>>
queueVars == <<control, waiting>>
treeVars == <<tree, killErr, produced>>
approvalVars == <<opened, req, terminating>>
rpcVars == <<ending, endCall>>
vars == <<mode, state, tree, killErr, produced, events, at, cur, result, gap,
          stopping, control, waiting, ending, endCall, opened, req,
          terminating, ends>>

-----------------------------------------------------------------------------
TerminalStates == {"completed", "terminated", "failed"}
IsTerminal(st) == st \in TerminalStates
AcceptsEvents(st) == st \in {"active", "suspended"}

Points == {"idle", "get", "suspend", "open", "terminate", "emit",
           "finish", "cancel", "end", "record", "stopped"}

RequestIDs == 1..MaxRequests

\* A request is open while it is in approvals.pending.  The goroutine that took
\* the answer carries what it computed under the lock: whether the session was
\* already terminating and whether no other request was left ("last").  asked is
\* the number of requests opened by then.
Request == [phase : {"unused", "open", "answered", "recorded", "settled"},
            session : Sessions, approved : BOOLEAN, doomed : BOOLEAN,
            last : BOOLEAN, asked : Nat]

\* What a closure on the control channel does: kill the tree first (a denial),
\* then failSessionAs(session, result).
Closure == [kill : BOOLEAN, session : Sessions, result : TerminalStates]

OpenRequests(s) == {r \in RequestIDs : req[r].phase = "open" /\ req[r].session = s}

LastOpenAlways(r) == TRUE
LastOpenCountsItself(r) == OpenRequests(req[r].session) = {}

\* pendingLocked = 0 once r is taken out: no other request of its session is open.
LastOpen(r) == OpenRequests(req[r].session) \ {r} = {}

KillOutcomes == IF KillMayFail THEN {"ok", "failed"} ELSE {"ok"}

\* Group.Kill, Freeze and Thaw on a tree; "late" is a write in force whose
\* confirmation did not come in time.
Killed(t, outcome) == IF outcome = "ok" THEN "dead" ELSE t
Frozen(t, outcome) == IF outcome # "refused" /\ t = "running" THEN "frozen" ELSE t
Thawed(t, outcome) == IF outcome # "refused" /\ t = "frozen" THEN "running" ELSE t

KillTree(s, outcome) ==
  /\ tree' = [tree EXCEPT ![s] = Killed(@, outcome)]
  /\ killErr' = [killErr EXCEPT ![s] = @ \/ outcome = "failed"]
  /\ UNCHANGED produced

\* later(fn): a full channel does not block the caller, it costs a goroutine.
Later(c) ==
  IF Len(control) < ControlCap
    THEN control' = Append(control, c) /\ UNCHANGED waiting
    ELSE waiting' = [waiting EXCEPT ![c] = @ + 1] /\ UNCHANGED control

-----------------------------------------------------------------------------
Init ==
  /\ mode \in [Sessions -> InitialModes]
  /\ state = [s \in Sessions |-> "active"]
  /\ tree = [s \in Sessions |-> "running"]
  /\ killErr = [s \in Sessions |-> FALSE]
  /\ produced = [s \in Sessions |-> 0]
  /\ events = [s \in Sessions |-> 0]
  /\ at = "idle"
  /\ cur \in Sessions
  /\ result = "failed"
  /\ gap = FALSE
  /\ stopping = FALSE
  /\ control = <<>>
  /\ waiting = [c \in Closure |-> 0]
  /\ ending = [s \in Sessions |-> FALSE]
  /\ endCall = [s \in Sessions |-> "none"]
  /\ opened = 0
  /\ req = [r \in RequestIDs |->
              [phase |-> "unused", session |-> cur, approved |-> FALSE,
               doomed |-> FALSE, last |-> FALSE, asked |-> 0]]
  /\ terminating = {}
  /\ ends = [s \in Sessions |-> 0]

-----------------------------------------------------------------------------
(***************************************************************************)
(* The governed tree and the collector.  A frozen tree does nothing; one   *)
(* whose kill timed out dies when the kernel gets to it.                   *)
(***************************************************************************)
AgentActs(s) ==
  /\ tree[s] = "running"
  /\ produced[s] < MaxEvents
  /\ produced' = [produced EXCEPT ![s] = @ + 1]
  /\ events' = [events EXCEPT ![s] = @ + 1]
  /\ UNCHANGED <<mode, state, tree, killErr, loopVars, queueVars, rpcVars,
                 approvalVars, ends>>

TreeExits(s) ==
  /\ tree[s] = "running" \/ (tree[s] = "frozen" /\ killErr[s])
  /\ tree' = [tree EXCEPT ![s] = "dead"]
  /\ UNCHANGED <<mode, state, killErr, produced, events, loopVars, queueVars,
                 rpcVars, approvalVars, ends>>

-----------------------------------------------------------------------------
(***************************************************************************)
(* The loop: handleEvent, Dispatch, emit, react.                           *)
(***************************************************************************)

\* Where react goes for a decision in a session of mode m.
React(m, action) ==
  IF action = "allow" \/ m \in {"monitor", "warn"} THEN "emit"
  ELSE IF m = "enforce" \/ action = "block" THEN "terminate"
  ELSE "get"

\* An event of s is dispatched, the pipeline decides, and react picks its branch.
\* Only the loop ends sessions, so the two reads of the binding (Dispatch's and
\* react's) agree.  The bound keeps an approval from being opened past MaxRequests.
TakeEvent(s, action, lost) ==
  /\ at = "idle" /\ ~stopping
  /\ events[s] > 0
  /\ AcceptsEvents(state[s])
  /\ React(mode[s], action) = "get" => opened < MaxRequests
  /\ events' = [events EXCEPT ![s] = @ - 1]
  /\ at' = React(mode[s], action)
  /\ cur' = s
  /\ gap' = lost
  /\ UNCHANGED <<mode, state, treeVars, result, stopping, queueVars, rpcVars,
                 approvalVars, ends>>

\* An event whose session does not accept events is counted and dropped.
RefuseEvent(s) ==
  /\ at = "idle" /\ ~stopping
  /\ events[s] > 0
  /\ ~AcceptsEvents(state[s])
  /\ events' = [events EXCEPT ![s] = @ - 1]
  /\ UNCHANGED <<mode, state, treeVars, loopVars, queueVars, rpcVars,
                 approvalVars, ends>>

\* suspend: a session already suspended needs no freeze.
SuspendReads ==
  /\ at = "get"
  /\ at' = IF state[cur] = "suspended" THEN "open" ELSE "suspend"
  /\ UNCHANGED <<mode, state, treeVars, events, cur, result, gap, stopping,
                 queueVars, rpcVars, approvalVars, ends>>

\* manager.Suspend: the freeze and the state change, under the manager's lock.
\* A failed freeze terminates the session instead.
SuspendFreezes(outcome) ==
  /\ at = "suspend"
  /\ tree' = [tree EXCEPT ![cur] = Frozen(@, outcome)]
  /\ state' = [state EXCEPT ![cur] = IF outcome = "ok" THEN "suspended" ELSE @]
  /\ at' = IF outcome = "ok" THEN "open" ELSE "terminate"
  /\ UNCHANGED <<mode, killErr, produced, events, cur, result, gap, stopping,
                 queueVars, rpcVars, approvalVars, ends>>

OpenWhileTerminating ==
  /\ at = "open"
  /\ at' = "emit"
  /\ opened' = opened + 1
  /\ req' = [req EXCEPT ![opened + 1] = [@ EXCEPT !.phase = "open", !.session = cur]]
  /\ UNCHANGED <<mode, state, treeVars, events, cur, result, gap, stopping,
                 queueVars, rpcVars, terminating, ends>>

\* approvals.open: no question is asked about a session already going down.
Open ==
  /\ at = "open"
  /\ at' = "emit"
  /\ IF cur \in terminating
       THEN UNCHANGED <<opened, req>>
       ELSE /\ opened' = opened + 1
            /\ req' = [req EXCEPT ![opened + 1] =
                 [@ EXCEPT !.phase = "open", !.session = cur]]
  /\ UNCHANGED <<mode, state, treeVars, events, cur, result, gap, stopping,
                 queueVars, rpcVars, terminating, ends>>

TerminateAsSuspended(kill, freeze) ==
  /\ at = "terminate"
  /\ kill = "ok" => freeze = "ok"
  /\ tree' = [tree EXCEPT ![cur] = IF kill = "ok" THEN "dead" ELSE Frozen(@, freeze)]
  /\ killErr' = [killErr EXCEPT ![cur] = @ \/ kill = "failed"]
  /\ Later([kill |-> FALSE, session |-> cur,
            result |-> IF kill = "ok" THEN "terminated" ELSE "suspended"])
  /\ at' = "emit"
  /\ UNCHANGED <<mode, state, produced, events, cur, result, gap, stopping,
                 rpcVars, approvalVars, ends>>

\* terminate: kill; when that fails, freeze as the weaker containment and end the
\* session as failed.  Either way the end itself is queued.
Terminate(kill, freeze) ==
  /\ at = "terminate"
  /\ kill = "ok" => freeze = "ok"
  /\ tree' = [tree EXCEPT ![cur] = IF kill = "ok" THEN "dead" ELSE Frozen(@, freeze)]
  /\ killErr' = [killErr EXCEPT ![cur] = @ \/ kill = "failed"]
  /\ Later([kill |-> FALSE, session |-> cur,
            result |-> IF kill = "ok" THEN "terminated" ELSE "failed"])
  /\ at' = "emit"
  /\ UNCHANGED <<mode, state, produced, events, cur, result, gap, stopping,
                 rpcVars, approvalVars, ends>>

FinishAgain(s, res) == at' = "finish" /\ cur' = s /\ result' = res

\* Where failSessionAs goes: nothing to do for a session that has ended.
FinishIfLive(s, res) ==
  IF IsTerminal(state[s])
    THEN at' = "idle" /\ UNCHANGED <<cur, result>>
    ELSE at' = "finish" /\ cur' = s /\ result' = res

\* emit writes and publishes the decision; a reported gap then fails the session
\* when fail_closed_on_drop is set.
Emit ==
  /\ at = "emit"
  /\ gap' = FALSE
  /\ IF gap THEN FinishIfLive(cur, "failed") ELSE at' = "idle" /\ UNCHANGED <<cur, result>>
  /\ UNCHANGED <<mode, state, treeVars, events, stopping, queueVars, rpcVars,
                 approvalVars, ends>>

-----------------------------------------------------------------------------
(***************************************************************************)
(* The loop: queued closures, orphans, shutdown, and finish.               *)
(***************************************************************************)
RunClosure(outcome) ==
  /\ at = "idle" /\ ~stopping
  /\ control # <<>>
  /\ LET c == Head(control)
     IN  /\ IF c.kill THEN KillTree(c.session, outcome)
                      ELSE outcome = "ok" /\ UNCHANGED treeVars
         /\ FinishIfLive(c.session, c.result)
  /\ control' = Tail(control)
  /\ UNCHANGED <<mode, state, events, gap, stopping, waiting, rpcVars,
                 approvalVars, ends>>

\* reapOrphans: a tree that stayed empty for the grace period, with no
\* EndSession on its way, is ended as completed.
ReapOrphan(s) ==
  /\ at = "idle" /\ ~stopping
  /\ tree[s] = "dead" /\ ~ending[s]
  /\ ~IsTerminal(state[s])
  /\ ending' = [ending EXCEPT ![s] = TRUE]
  /\ at' = "finish" /\ cur' = s /\ result' = "completed"
  /\ UNCHANGED <<mode, state, treeVars, events, gap, stopping, queueVars,
                 endCall, approvalVars, ends>>

\* The context ends, or the telemetry stream does: Run returns, and what is still
\* queued for the loop is never run.
Stop ==
  /\ at = "idle" /\ ~stopping
  /\ stopping' = TRUE
  /\ UNCHANGED <<mode, state, treeVars, events, at, cur, result, gap,
                 queueVars, rpcVars, approvalVars, ends>>

\* failAll: every live session is ended as failed.
FailAll ==
  /\ at = "idle" /\ stopping
  /\ \/ \E s \in Sessions :
          /\ ~IsTerminal(state[s])
          /\ at' = "finish" /\ cur' = s /\ result' = "failed"
     \/ /\ \A s \in Sessions : IsTerminal(state[s])
        /\ at' = "stopped"
        /\ UNCHANGED <<cur, result>>
  /\ UNCHANGED <<mode, state, treeVars, events, gap, stopping, queueVars,
                 rpcVars, approvalVars, ends>>

FinishStopsAtFailure(outcome) ==
  /\ at = "finish"
  /\ KillTree(cur, outcome)
  /\ at' = IF outcome = "ok" THEN "cancel" ELSE "idle"
  /\ UNCHANGED <<mode, state, events, cur, result, gap, stopping, queueVars,
                 rpcVars, approvalVars, ends>>

\* finish, first part: telemetry detached, the tree killed, the cgroup removed.
\* Failures are logged and finish goes on.
FinishKills(outcome) ==
  /\ at = "finish"
  /\ KillTree(cur, outcome)
  /\ at' = "cancel"
  /\ UNCHANGED <<mode, state, events, cur, result, gap, stopping, queueVars,
                 rpcVars, approvalVars, ends>>

FinishCancelsNoRequest ==
  /\ at = "cancel"
  /\ terminating' = terminating \ {cur}
  /\ at' = "end"
  /\ UNCHANGED <<mode, state, treeVars, events, cur, result, gap, stopping,
                 queueVars, rpcVars, opened, req, ends>>

\* approvals.cancelSession: the session's requests are withdrawn.
FinishCancels ==
  /\ at = "cancel"
  /\ req' = [r \in RequestIDs |->
       IF r \in OpenRequests(cur) THEN [req[r] EXCEPT !.phase = "settled"] ELSE req[r]]
  /\ terminating' = terminating \ {cur}
  /\ at' = "end"
  /\ UNCHANGED <<mode, state, treeVars, events, cur, result, gap, stopping,
                 queueVars, rpcVars, opened, ends>>

\* manager.End.
FinishEnds ==
  /\ at = "end"
  /\ state' = [state EXCEPT ![cur] = result]
  /\ at' = "record"
  /\ UNCHANGED <<mode, treeVars, events, cur, result, gap, stopping, queueVars,
                 rpcVars, approvalVars, ends>>

FinishRecords ==
  /\ at = "record"
  /\ ends' = [ends EXCEPT ![cur] = @ + 1]
  /\ at' = "idle"
  /\ UNCHANGED <<mode, state, treeVars, events, cur, result, gap, stopping,
                 queueVars, rpcVars, approvalVars>>

-----------------------------------------------------------------------------
(***************************************************************************)
(* Goroutines blocked in later, and the shim's EndSession.                 *)
(***************************************************************************)
Enqueue(c) ==
  /\ waiting[c] > 0
  /\ Len(control) < ControlCap
  /\ control' = Append(control, c)
  /\ waiting' = [waiting EXCEPT ![c] = @ - 1]
  /\ UNCHANGED <<mode, state, treeVars, events, loopVars, rpcVars,
                 approvalVars, ends>>

\* endSession: marks the session as ending, so that the reaper leaves it alone,
\* and lets in-flight events settle.
EndSession(s) ==
  /\ endCall[s] = "none"
  /\ ~IsTerminal(state[s])
  /\ endCall' = [endCall EXCEPT ![s] = "settling"]
  /\ ending' = [ending EXCEPT ![s] = TRUE]
  /\ UNCHANGED <<mode, state, treeVars, events, loopVars, queueVars,
                 approvalVars, ends>>

\* onLoop: unlike later, it blocks until the channel has room.
EndSessionQueues(s) ==
  /\ endCall[s] = "settling"
  /\ Len(control) < ControlCap
  /\ control' = Append(control, [kill |-> FALSE, session |-> s, result |-> "completed"])
  /\ endCall' = [endCall EXCEPT ![s] = "sent"]
  /\ UNCHANGED <<mode, state, treeVars, events, loopVars, waiting, ending,
                 approvalVars, ends>>

-----------------------------------------------------------------------------
(***************************************************************************)
(* Answers: approvals.resolve, called by an RPC or by the request's timer. *)
(***************************************************************************)

\* Under the approvals lock.  A denial withdraws the session's other requests.
Resolve(r, ok) ==
  LET s == req[r].session
      withdrawn == IF ok THEN {} ELSE OpenRequests(s) \ {r}
      doomed == IF ok THEN terminating ELSE terminating \cup {s}
  IN  /\ req[r].phase = "open"
      /\ terminating' = doomed
      /\ req' = [q \in RequestIDs |->
           IF q = r
             THEN [phase |-> "answered", session |-> s, approved |-> ok,
                   doomed |-> s \in doomed, last |-> LastOpen(r), asked |-> opened]
             ELSE IF q \in withdrawn THEN [req[q] EXCEPT !.phase = "settled"]
                                     ELSE req[q]]
      /\ UNCHANGED <<mode, state, treeVars, events, loopVars, queueVars,
                     rpcVars, opened, ends>>

\* RespondApproval, by the session's owner.
Respond(r, ok) == Resolve(r, ok)

TimeoutNeverArmed(r) == FALSE /\ UNCHANGED vars

\* The request's timer, armed when it was opened.
Timeout(r) == Resolve(r, TimeoutAllows)

\* The answer's audit record, before it takes effect.
RecordAnswer(r) ==
  /\ req[r].phase = "answered"
  /\ req' = [req EXCEPT ![r].phase = "recorded"]
  /\ UNCHANGED <<mode, state, treeVars, events, loopVars, queueVars, rpcVars,
                 opened, terminating, ends>>

DenyOnlyTheLast(r) ==
  /\ req[r].phase = "recorded" /\ ~req[r].approved
  /\ IF req[r].last
       THEN Later([kill |-> TRUE, session |-> req[r].session, result |-> "terminated"])
       ELSE UNCHANGED queueVars
  /\ req' = [req EXCEPT ![r].phase = "settled"]
  /\ UNCHANGED <<mode, state, treeVars, events, loopVars, rpcVars, opened,
                 terminating, ends>>

\* A denial queues the kill for the loop.
DenyTakesEffect(r) ==
  /\ req[r].phase = "recorded" /\ ~req[r].approved
  /\ Later([kill |-> TRUE, session |-> req[r].session, result |-> "terminated"])
  /\ req' = [req EXCEPT ![r].phase = "settled"]
  /\ UNCHANGED <<mode, state, treeVars, events, loopVars, rpcVars, opened,
                 terminating, ends>>

\* manager.Resume: refused unless the session is suspended.
Resumes(s, outcome) ==
  IF state[s] = "suspended"
    THEN /\ tree' = [tree EXCEPT ![s] = Thawed(@, outcome)]
         /\ state' = [state EXCEPT ![s] = IF outcome = "ok" THEN "active" ELSE @]
    ELSE outcome = "ok" /\ UNCHANGED <<tree, state>>

\* An approval resumes the session when it was the last one open and nothing was
\* terminating the session at the time the answer was taken.
ApprovalTakesEffect(r, outcome) ==
  /\ req[r].phase = "recorded" /\ req[r].approved
  /\ IF ~req[r].doomed /\ req[r].last
       THEN Resumes(req[r].session, outcome)
       ELSE outcome = "ok" /\ UNCHANGED <<tree, state>>
  /\ req' = [req EXCEPT ![r].phase = "settled"]
  /\ UNCHANGED <<mode, killErr, produced, events, loopVars, queueVars, rpcVars,
                 opened, terminating, ends>>

-----------------------------------------------------------------------------
LoopStep ==
  \/ \E s \in Sessions, a \in {"allow", "request_approval", "block"}, l \in BOOLEAN :
       TakeEvent(s, a, l)
  \/ \E s \in Sessions : RefuseEvent(s) \/ ReapOrphan(s)
  \/ SuspendReads
  \/ \E o \in {"ok"} \cup FreezeFaults : SuspendFreezes(o)
  \/ Open
  \/ \E k \in KillOutcomes, f \in {"ok"} \cup FreezeFaults : Terminate(k, f)
  \/ Emit
  \/ \E o \in KillOutcomes : RunClosure(o) \/ FinishKills(o)
  \/ FailAll
  \/ FinishCancels \/ FinishEnds \/ FinishRecords

AnswerStep(r) ==
  \/ RecordAnswer(r)
  \/ DenyTakesEffect(r)
  \/ \E o \in {"ok"} \cup ThawFaults : ApprovalTakesEffect(r, o)

Next ==
  \/ LoopStep
  \/ Stop
  \/ \E s \in Sessions : AgentActs(s) \/ TreeExits(s) \/ EndSession(s) \/ EndSessionQueues(s)
  \/ \E c \in Closure : Enqueue(c)
  \/ \E r \in RequestIDs :
       \/ \E ok \in BOOLEAN : Respond(r, ok)
       \/ Timeout(r)
       \/ AnswerStep(r)

Spec == Init /\ [][Next]_vars

\* Goroutines that can run do run, an approval timer that is due fires, and the
\* loop keeps turning.  Nothing is assumed of owners, agents, shims or operators.
Fairness ==
  /\ WF_vars(LoopStep)
  /\ \A r \in RequestIDs : WF_vars(AnswerStep(r)) /\ WF_vars(Timeout(r))
  /\ WF_vars(\E c \in Closure : Enqueue(c))

FairSpec == Spec /\ Fairness

-----------------------------------------------------------------------------
\* Type correctness, and the queue never exceeds its capacity.
TypeOK ==
  /\ mode \in [Sessions -> InitialModes]
  /\ state \in [Sessions -> {"active", "suspended"} \cup TerminalStates]
  /\ tree \in [Sessions -> {"running", "frozen", "dead"}]
  /\ killErr \in [Sessions -> BOOLEAN]
  /\ produced \in [Sessions -> Nat] /\ events \in [Sessions -> Nat]
  /\ at \in Points /\ cur \in Sessions /\ result \in TerminalStates
  /\ gap \in BOOLEAN /\ stopping \in BOOLEAN
  /\ control \in Seq(Closure) /\ Len(control) <= ControlCap
  /\ waiting \in [Closure -> Nat]
  /\ ending \in [Sessions -> BOOLEAN]
  /\ endCall \in [Sessions -> {"none", "settling", "sent"}]
  /\ opened \in 0..MaxRequests
  /\ req \in [RequestIDs -> Request]
  /\ terminating \in SUBSET Sessions
  /\ ends \in [Sessions -> Nat]

\* A session whose approval was denied is never asked about again: from the
\* denial until the session has ended, no request for it is open, so no later
\* answer can stand in the kill's way.
NoQuestionAfterDenial ==
  \A s \in terminating : OpenRequests(s) = {}

\* A kill for session s is on its way: still with the goroutine that took the
\* denial, in the control channel, behind it, or being carried out by the loop.
KillUnderway(s) ==
  \/ \E r \in RequestIDs : /\ req[r].session = s /\ ~req[r].approved
                            /\ req[r].phase \in {"answered", "recorded"}
  \/ \E i \in 1..Len(control) : control[i].session = s
  \/ \E c \in Closure : c.session = s /\ waiting[c] > 0
  \/ cur = s /\ at \in {"finish", "cancel"}

\* A denial is never lost: as long as a session is marked terminating, something
\* that will end it is underway (or the daemon is shutting down and ends all).
DenialNeverLost ==
  \A s \in terminating : KillUnderway(s) \/ stopping

\* A session that has ended leaves nothing behind: its tree is dead, unless a
\* kill of that tree failed, and none of its requests is still open.
EndedIsContained ==
  \A s \in Sessions :
    IsTerminal(state[s]) =>
      /\ tree[s] = "dead" \/ killErr[s]
      /\ OpenRequests(s) = {} /\ s \notin terminating

\* An answer that is about to resume a session has every request that was asked
\* before it answered too: only a request opened after the answer was taken can
\* still be open when the session is thawed.
EarlierRequestsAnswered ==
  \A r, q \in RequestIDs :
    /\ req[r].phase \in {"answered", "recorded"}
    /\ req[r].approved /\ req[r].last
    /\ req[q].session = req[r].session /\ q <= req[r].asked
    => req[q].phase # "open"

\* The session_end record is written once for each session that ended, and for
\* no other; only the loop's own last step may still be missing.
EndRecordedOnce ==
  \A s \in Sessions :
    ends[s] = IF IsTerminal(state[s]) /\ ~(at = "record" /\ cur = s) THEN 1 ELSE 0

\* A suspended session has somebody to wait for: an open request, an answer that
\* has not taken effect, the loop about to ask, or an end underway.  Without it
\* the agent would stay frozen with nobody left to thaw it.
SuspendedIsAwaited ==
  \A s \in Sessions :
    state[s] = "suspended" =>
      \/ OpenRequests(s) # {}
      \/ \E r \in RequestIDs : /\ req[r].session = s
                                /\ req[r].phase \in {"answered", "recorded"}
      \/ cur = s /\ at \in {"open", "finish", "cancel", "end"}
      \/ KillUnderway(s)
      \/ stopping

\* A frozen session is eventually resumed or ended: a request nobody answers is
\* answered by its timer.
FrozenIsSettled ==
  \A s \in Sessions : state[s] = "suspended" ~> state[s] # "suspended"

\* A denial, and a timeout under the deny posture, ends the session.
DenialEnds ==
  \A s \in Sessions : s \in terminating ~> IsTerminal(state[s])

\* What approvals.go says of its requests: a session stays frozen until every
\* open request for it is answered.
FrozenWhileAsked ==
  \A s \in Sessions : OpenRequests(s) # {} => tree[s] # "running"
=============================================================================
