---------------------------- MODULE SessionLaunch ----------------------------
(***************************************************************************)
(* How a session comes to govern an agent and how it stops doing so:       *)
(* cmd/allseer-shim/main.go, the control calls of internal/daemon/rpc.go,  *)
(* finish, the reaper and Shutdown of daemon.go, the startup sweep of      *)
(* internal/containment and internal/daemon/leftovers.go.                  *)
(*                                                                         *)
(* Each shim makes one control call at a time.  Its handler runs on a      *)
(* goroutine of the daemon, concurrently with the loop, and goes on when   *)
(* the shim dies.  A handler's steps are the places where it takes a lock  *)
(* or touches the kernel.  The daemon may be stopped or crash between any  *)
(* two steps; its memory is lost, the cgroups and the processes are not.   *)
(*                                                                         *)
(* Approvals, freezing and kills that fail are GovernanceLoop's subject.   *)
(*                                                                         *)
(* A definition that stands directly before another one, with its          *)
(* parameters, is a defect of it that some property must notice; no        *)
(* specification uses it.                                                  *)
(***************************************************************************)
EXTENDS Integers, Sequences, FiniteSets

CONSTANTS
  Sessions,        \* session IDs, one per shim
  RequireApproval, \* Envelope.RequireApproval
  MaxConcurrent,   \* Daemon.MaxConcurrentSessions
  MaxRestarts      \* bound: times a daemon is started again

ASSUME RequireApprovalBoolean == RequireApproval \in BOOLEAN
ASSUME MaxConcurrentPositive == MaxConcurrent \in Nat \ {0}
ASSUME MaxRestartsNatural == MaxRestarts \in Nat

VARIABLES
  daemon,    \* "up", "losing" (Run's failAll), "closing" or "draining" (the
             \* socket is closed), "stopping" (in Shutdown), "down", "crashed"
  restarts,  \* daemons started after the first
  state,     \* [Sessions -> lifecycle state] the manager's record
  known,     \* [Sessions -> BOOLEAN] d.sessions has an entry
  grp,       \* [Sessions -> BOOLEAN] that entry's group is set
  ending,    \* [Sessions -> BOOLEAN] that entry's ending flag
  attached,  \* [Sessions -> BOOLEAN] telemetry tracks the session's cgroup
  approved,  \* [Sessions -> BOOLEAN] the owner approved the envelope
  asked,     \* [Sessions -> result or "none"] closure a handler waits for in onLoop
  at,        \* where the loop is: "idle", "finish" or "end"
  cur,       \* the session the loop is finishing
  result,    \* the result it will record
  todo,      \* sessions failAll has still to end
  leftovers, \* d.leftovers
  dir,       \* [Sessions -> BOOLEAN] the session cgroup exists
  root,      \* [Sessions -> "none" | "held" | "agent" | "gone"] the shim's child
  inside,    \* [Sessions -> BOOLEAN] the child was moved into the cgroup
  desc,      \* [Sessions -> BOOLEAN] the agent's descendants are alive
  frozen,    \* [Sessions -> BOOLEAN] cgroup.freeze
  released,  \* [Sessions -> "no", "thawed" or "missed"] history: the sweep did not
             \* freeze the group or root thawed it, or the sweep did not see it
  shim,      \* [Sessions -> where the shim is]
  call       \* [Sessions -> where its control call's handler is]

memory == <<state, known, grp, ending, attached, asked, at, cur, result, todo, leftovers>>
kernel == <<dir, root, inside, desc, frozen, released>>
vars == <<daemon, restarts, state, known, grp, ending, attached, approved, asked,
          at, cur, result, todo, leftovers, dir, root, inside, desc, frozen,
          released, shim, call>>

-----------------------------------------------------------------------------
LiveStates == {"pending", "awaiting_approval", "ready", "active"}
TerminalStates == {"completed", "terminated", "failed"}

Live(s) == state[s] \in LiveStates
Running == daemon \in {"up", "losing", "closing", "draining", "stopping"}

\* The control socket accepts calls; each call has a connection of its own.
Serving == daemon \in {"up", "losing"}

\* The server has shut down, which cancels the context of every handler.
Cancelled == daemon \in {"closing", "draining", "stopping"}

\* Group.Populated.
Populated(s) == dir[s] /\ (desc[s] \/ (inside[s] /\ root[s] \in {"held", "agent"}))

\* Group.Kill, then Group.Remove.
KillAndRemove(s) ==
  /\ root' = [root EXCEPT ![s] = IF inside[s] THEN "gone" ELSE @]
  /\ desc' = [desc EXCEPT ![s] = FALSE]
  /\ dir' = [dir EXCEPT ![s] = FALSE]
  /\ frozen' = [frozen EXCEPT ![s] = FALSE]
  /\ UNCHANGED <<inside, released>>

\* The handler of s goes from one step to the next.
Handler(s, from, to) ==
  /\ Running
  /\ call[s] = from
  /\ call' = [call EXCEPT ![s] = to]

Init ==
  /\ daemon = "up" /\ restarts = 0
  /\ state = [s \in Sessions |-> "absent"]
  /\ known = [s \in Sessions |-> FALSE]
  /\ grp = [s \in Sessions |-> FALSE]
  /\ ending = [s \in Sessions |-> FALSE]
  /\ attached = [s \in Sessions |-> FALSE]
  /\ approved = [s \in Sessions |-> FALSE]
  /\ asked = [s \in Sessions |-> "none"]
  /\ at = "idle" /\ cur \in Sessions /\ result = "failed"
  /\ todo = {} /\ leftovers = {}
  /\ dir = [s \in Sessions |-> FALSE]
  /\ root = [s \in Sessions |-> "none"]
  /\ inside = [s \in Sessions |-> FALSE]
  /\ desc = [s \in Sessions |-> FALSE]
  /\ frozen = [s \in Sessions |-> FALSE]
  /\ released = [s \in Sessions |-> "no"]
  /\ shim = [s \in Sessions |-> "new"]
  /\ call = [s \in Sessions |-> "none"]

-----------------------------------------------------------------------------
(***************************************************************************)
(* createSession and approveEnvelope.                                      *)
(***************************************************************************)

\* activeCount against MaxConcurrentSessions; the slot is taken only by the next
\* step, so two handlers can both find the last one free.
CreateCounts(s) ==
  /\ \/ /\ Cardinality({x \in Sessions : Live(x)}) < MaxConcurrent
        /\ Handler(s, "count", "create")
     \/ Handler(s, "count", "err")   \* at the limit, or any other refusal
  /\ UNCHANGED <<daemon, restarts, memory, approved, kernel, shim>>

\* manager.Create.
CreateMakes(s) ==
  /\ Handler(s, "create", "register")
  /\ state' = [state EXCEPT ![s] = "pending"]
  /\ UNCHANGED <<daemon, restarts, known, grp, ending, attached, approved, asked, at,
                 cur, result, todo, leftovers, kernel, shim>>

CreateRegisters(s) ==
  /\ Handler(s, "register", "seal")
  /\ known' = [known EXCEPT ![s] = TRUE]
  /\ UNCHANGED <<daemon, restarts, state, grp, ending, attached, approved, asked, at,
                 cur, result, todo, leftovers, kernel, shim>>

\* manager.Seal: refused when the session was ended meanwhile, and for an
\* inadmissible envelope, which leaves the session pending.
CreateSeals(s) ==
  /\ \/ /\ state[s] = "pending"
        /\ Handler(s, "seal", "ok")
        /\ state' = [state EXCEPT ![s] =
             IF RequireApproval THEN "awaiting_approval" ELSE "ready"]
     \/ Handler(s, "seal", "err") /\ UNCHANGED state
  /\ UNCHANGED <<daemon, restarts, known, grp, ending, attached, approved, asked, at,
                 cur, result, todo, leftovers, kernel, shim>>

\* manager.Approve.
Approve(s) ==
  /\ IF known[s] /\ state[s] = "awaiting_approval"
       THEN /\ Handler(s, "approve", "ok")
            /\ state' = [state EXCEPT ![s] = "ready"]
            /\ approved' = [approved EXCEPT ![s] = TRUE]
       ELSE Handler(s, "approve", "err") /\ UNCHANGED <<state, approved>>
  /\ UNCHANGED <<daemon, restarts, known, grp, ending, attached, asked, at, cur,
                 result, todo, leftovers, kernel, shim>>

RejectAsState(s) ==
  /\ IF known[s]
       THEN Handler(s, "reject", "rejecting") /\ asked' = [asked EXCEPT ![s] = "rejected"]
       ELSE Handler(s, "reject", "err") /\ UNCHANGED asked
  /\ UNCHANGED <<daemon, restarts, state, known, grp, ending, attached, approved, at,
                 cur, result, todo, leftovers, kernel, shim>>

\* A rejection ends the session on the loop.
Reject(s) ==
  /\ IF known[s]
       THEN Handler(s, "reject", "rejecting") /\ asked' = [asked EXCEPT ![s] = "terminated"]
       ELSE Handler(s, "reject", "err") /\ UNCHANGED asked
  /\ UNCHANGED <<daemon, restarts, state, known, grp, ending, attached, approved, at,
                 cur, result, todo, leftovers, kernel, shim>>

-----------------------------------------------------------------------------
(***************************************************************************)
(* startSession.                                                           *)
(***************************************************************************)

\* Ownership, state, envelope digest, and that the child is the caller's, alive
\* and in no session cgroup.
StartChecks(s) ==
  /\ IF known[s] /\ state[s] = "ready" /\ root[s] = "held" /\ ~inside[s]
       THEN Handler(s, "check", "mkdir")
       ELSE Handler(s, "check", "err")
  /\ UNCHANGED <<daemon, restarts, memory, approved, kernel, shim>>

\* Groups.Create fails when the cgroup exists; that refusal ends nothing.
StartMakesGroup(s) ==
  /\ \/ /\ ~dir[s]
        /\ Handler(s, "mkdir", "adopt")
        /\ dir' = [dir EXCEPT ![s] = TRUE]
     \/ Handler(s, "mkdir", "err") /\ UNCHANGED dir
  /\ UNCHANGED <<daemon, restarts, memory, approved, root, inside, desc, frozen,
                 released, shim>>

StartAdoptIgnoresError(s) ==
  /\ Handler(s, "adopt", "publish")
  /\ inside' \in {inside, [inside EXCEPT ![s] = TRUE]}
  /\ UNCHANGED <<daemon, restarts, memory, approved, dir, root, desc, frozen,
                 released, shim>>

\* Group.Adopt: fails when the child is gone.
StartAdopts(s) ==
  /\ \/ /\ root[s] = "held" /\ dir[s]
        /\ Handler(s, "adopt", "publish")
        /\ inside' = [inside EXCEPT ![s] = TRUE]
     \/ Handler(s, "adopt", "undo") /\ UNCHANGED inside
  /\ UNCHANGED <<daemon, restarts, memory, approved, dir, root, desc, frozen,
                 released, shim>>

StartPublishesNothing(s) ==
  /\ Handler(s, "publish", "attach")
  /\ UNCHANGED <<daemon, restarts, memory, approved, kernel, shim>>

\* info.group = g: from here on finish can see the cgroup.
StartPublishes(s) ==
  /\ Handler(s, "publish", "attach")
  /\ grp' = [grp EXCEPT ![s] = TRUE]
  /\ UNCHANGED <<daemon, restarts, state, known, ending, attached, approved, asked,
                 at, cur, result, todo, leftovers, kernel, shim>>

\* tel.AttachCgroup: refused, before the map is written, when the handler's context
\* has been cancelled.
StartAttaches(s) ==
  /\ \/ /\ ~Cancelled
        /\ Handler(s, "attach", "start")
        /\ attached' = [attached EXCEPT ![s] = TRUE]
     \/ Handler(s, "attach", "undo") /\ UNCHANGED attached
  /\ UNCHANGED <<daemon, restarts, state, known, grp, ending, approved, asked, at,
                 cur, result, todo, leftovers, kernel, shim>>

StartActivatesAnyState(s) ==
  /\ Handler(s, "start", "ok")
  /\ state' = [state EXCEPT ![s] = "active"]
  /\ UNCHANGED <<daemon, restarts, known, grp, ending, attached, approved, asked, at,
                 cur, result, todo, leftovers, kernel, shim>>

\* manager.Start, the session_start record, and the reply.
StartActivates(s) ==
  /\ IF state[s] = "ready"
       THEN Handler(s, "start", "ok") /\ state' = [state EXCEPT ![s] = "active"]
       ELSE Handler(s, "start", "undo") /\ UNCHANGED state
  /\ UNCHANGED <<daemon, restarts, known, grp, ending, attached, approved, asked, at,
                 cur, result, todo, leftovers, kernel, shim>>

\* startSession's fail: detach, kill, remove, and end the session on the loop.
StartUndoes(s) ==
  /\ Handler(s, "undo", "failing")
  /\ attached' = [attached EXCEPT ![s] = FALSE]
  /\ KillAndRemove(s)
  /\ asked' = [asked EXCEPT ![s] = "failed"]
  /\ UNCHANGED <<daemon, restarts, state, known, grp, ending, approved, at, cur,
                 result, todo, leftovers, shim>>

-----------------------------------------------------------------------------
(***************************************************************************)
(* endSession, and onLoop for every handler that waits for the loop.       *)
(***************************************************************************)
EndMarks(s) ==
  /\ IF ~known[s] THEN Handler(s, "mark", "err") /\ UNCHANGED <<ending, asked>>
     ELSE IF ~Live(s) THEN Handler(s, "mark", "ok") /\ UNCHANGED <<ending, asked>>
     ELSE /\ Handler(s, "mark", "ending")
          /\ ending' = [ending EXCEPT ![s] = TRUE]
          /\ asked' = [asked EXCEPT ![s] = "completed"]
  /\ UNCHANGED <<daemon, restarts, state, known, grp, attached, approved, at, cur,
                 result, todo, leftovers, kernel, shim>>

\* The handler waits until the loop has run its closure; once the loop is gone
\* its context is cancelled instead.
LoopAnswered(s) ==
  /\ call[s] \in {"rejecting", "failing", "ending"}
  /\ \/ asked[s] = "none" /\ ~(at # "idle" /\ cur = s) /\ UNCHANGED asked
     \/ Cancelled /\ asked' = [asked EXCEPT ![s] = "none"]
  /\ Handler(s, call[s], IF call[s] = "failing" \/ Cancelled THEN "err" ELSE "ok")
  /\ UNCHANGED <<daemon, restarts, state, known, grp, ending, attached, approved, at,
                 cur, result, todo, leftovers, kernel, shim>>

-----------------------------------------------------------------------------
(***************************************************************************)
(* The loop.                                                               *)
(***************************************************************************)
Finish(s, res) == at' = "finish" /\ cur' = s /\ result' = res

\* failSessionAs, asked for by a handler.
RunsAsked(s) ==
  /\ daemon = "up" /\ at = "idle" /\ asked[s] # "none"
  /\ asked' = [asked EXCEPT ![s] = "none"]
  /\ IF Live(s) THEN Finish(s, asked[s]) ELSE UNCHANGED <<at, cur, result>>
  /\ UNCHANGED <<daemon, restarts, state, known, grp, ending, attached, approved,
                 todo, leftovers, kernel, shim, call>>

\* An event of the session, which may arrive as soon as telemetry is attached:
\* policy terminates an active session, lost records fail a live one.
EventEnds(s, res) ==
  /\ daemon = "up" /\ at = "idle"
  /\ attached[s] /\ Live(s)
  /\ res = "terminated" => state[s] = "active"
  /\ Finish(s, res)
  /\ UNCHANGED <<daemon, restarts, state, known, grp, ending, attached, approved,
                 asked, todo, leftovers, kernel, shim, call>>

OrphanedIfClaimed(s) == grp[s] /\ dir[s] /\ ~Populated(s) /\ ending[s] /\ Live(s)

\* reapOrphans' choice of a session: it has a cgroup that can be read and is
\* empty, and no EndSession has claimed it.
Orphaned(s) == grp[s] /\ dir[s] /\ ~Populated(s) /\ ~ending[s] /\ Live(s)

Reaps(s) ==
  /\ daemon = "up" /\ at = "idle"
  /\ Orphaned(s)
  /\ ending' = [ending EXCEPT ![s] = TRUE]
  /\ Finish(s, "completed")
  /\ UNCHANGED <<daemon, restarts, state, known, grp, attached, approved, asked,
                 todo, leftovers, kernel, shim, call>>

\* finish: detach, then kill and remove the cgroup if the entry has one.
FinishKills ==
  /\ Running /\ at = "finish"
  /\ attached' = [attached EXCEPT ![cur] = FALSE]
  /\ IF grp[cur] THEN KillAndRemove(cur) ELSE UNCHANGED kernel
  /\ at' = "end"
  /\ UNCHANGED <<daemon, restarts, state, known, grp, ending, approved, asked, cur,
                 result, todo, leftovers, shim, call>>

\* manager.End and the session_end record.
FinishEnds ==
  /\ Running /\ at = "end"
  /\ state' = [state EXCEPT ![cur] = result]
  /\ at' = "idle"
  /\ UNCHANGED <<daemon, restarts, known, grp, ending, attached, approved, asked, cur,
                 result, todo, leftovers, kernel, shim, call>>

-----------------------------------------------------------------------------
(***************************************************************************)
(* The daemon process.                                                     *)
(***************************************************************************)

\* The telemetry stream ends: Run calls failAll, still serving, and returns.
TelemetryEnds ==
  /\ daemon = "up" /\ at = "idle"
  /\ daemon' = "losing"
  /\ todo' = {s \in Sessions : Live(s)}
  /\ UNCHANGED <<restarts, state, known, grp, ending, attached, approved, asked, at,
                 cur, result, leftovers, kernel, shim, call>>

\* Run has returned and the socket is closed.  After a signal Serve's own
\* goroutine has called the server's Shutdown, so main's call returns at once and
\* waits for no handler; after a lost stream main's call is the first, and waits,
\* unless a signal has come meanwhile.
Stops ==
  /\ at = "idle" /\ todo = {}
  /\ \/ daemon \in {"up", "losing"} /\ daemon' = "closing"
     \/ daemon = "losing" /\ daemon' = "draining"
  /\ UNCHANGED <<restarts, memory, approved, kernel, shim, call>>

HandlersDone == \A s \in Sessions : call[s] \in {"none", "ok", "err"}

\* Shutdown's failAll lists the live sessions.  main's 10 s are taken to suffice
\* for the handlers it waits for.
ShutdownLists ==
  /\ daemon = "closing" \/ (daemon = "draining" /\ HandlersDone)
  /\ daemon' = "stopping"
  /\ todo' = {s \in Sessions : Live(s)}
  /\ UNCHANGED <<restarts, state, known, grp, ending, attached, approved, asked, at,
                 cur, result, leftovers, kernel, shim, call>>

\* failAll ends the sessions it listed, one after another.
FailAll ==
  /\ daemon \in {"losing", "stopping"} /\ at = "idle"
  /\ \E s \in todo :
       /\ todo' = todo \ {s}
       /\ Finish(s, "failed")
  /\ UNCHANGED <<daemon, restarts, state, known, grp, ending, attached, approved,
                 asked, leftovers, kernel, shim, call>>

\* The process is gone: what it held in memory, its probes and its open
\* connections with it.
Vanish ==
  /\ state' = [s \in Sessions |-> "absent"]
  /\ known' = [s \in Sessions |-> FALSE]
  /\ grp' = [s \in Sessions |-> FALSE]
  /\ ending' = [s \in Sessions |-> FALSE]
  /\ attached' = [s \in Sessions |-> FALSE]
  /\ asked' = [s \in Sessions |-> "none"]
  /\ at' = "idle" /\ todo' = {} /\ leftovers' = {}
  /\ call' = [s \in Sessions |-> IF call[s] \in {"none", "ok", "err"} THEN call[s] ELSE "err"]
  /\ UNCHANGED <<restarts, approved, cur, result, kernel, shim>>

Exits ==
  /\ daemon = "stopping" /\ at = "idle" /\ todo = {}
  /\ daemon' = "down"
  /\ Vanish

Crashes ==
  /\ Running
  /\ daemon' = "crashed"
  /\ Vanish

\* What the sweep says of the groups that exist: of all but those it misses it notes
\* the ones that are populated or cannot be removed, and removes the others.
Noted(missed, stuck) == {s \in Sessions \ missed : dir[s] /\ (Populated(s) \/ s \in stuck)}

RestartsWithoutFreeze(missed, stuck) ==
  /\ ~Running
  /\ restarts < MaxRestarts
  /\ daemon' = "up" /\ restarts' = restarts + 1
  /\ leftovers' = Noted(missed, stuck)
  /\ dir' = [s \in Sessions |-> dir[s] /\ s \in missed \cup leftovers']
  /\ released' = [s \in Sessions |->
       IF ~dir'[s] THEN "no" ELSE IF s \in missed THEN "missed"
       ELSE IF s \in stuck THEN "thawed" ELSE "no"]
  /\ UNCHANGED <<state, known, grp, ending, attached, approved, asked, at, cur,
                 result, todo, root, inside, desc, frozen, shim, call>>

\* A new daemon locks the base and sweeps it before it serves: empty cgroups are
\* removed, populated ones frozen, and what is left noted.  Each of these calls may
\* fail for a group, which is then noted as it is.  A group that cannot be opened is
\* passed over, and so are all of them when the base cannot be read: the daemon logs
\* that and serves.
Restarts(missed, stuck) ==
  /\ ~Running
  /\ restarts < MaxRestarts
  /\ daemon' = "up" /\ restarts' = restarts + 1
  /\ leftovers' = Noted(missed, stuck)
  /\ dir' = [s \in Sessions |-> dir[s] /\ s \in missed \cup leftovers']
  /\ frozen' = [s \in Sessions |-> dir'[s] /\ (frozen[s] \/ s \in leftovers' \ stuck)]
  /\ released' = [s \in Sessions |->
       IF ~dir'[s] THEN "no" ELSE IF s \in missed THEN "missed"
       ELSE IF s \in stuck THEN "thawed" ELSE "no"]
  /\ UNCHANGED <<state, known, grp, ending, attached, approved, asked, at, cur,
                 result, todo, root, inside, desc, shim, call>>

\* Root's leftover calls.  A thawed leftover stays one.
ThawsLeftover(s) ==
  /\ daemon = "up" /\ s \in leftovers
  /\ frozen' = [frozen EXCEPT ![s] = FALSE]
  /\ released' = [released EXCEPT ![s] = "thawed"]
  /\ UNCHANGED <<daemon, restarts, memory, approved, dir, root, inside, desc, shim,
                 call>>

KillsLeftover(s) ==
  /\ daemon = "up" /\ s \in leftovers
  /\ KillAndRemove(s)
  /\ leftovers' = leftovers \ {s}
  /\ UNCHANGED <<daemon, restarts, state, known, grp, ending, attached, approved,
                 asked, at, cur, result, todo, shim, call>>

-----------------------------------------------------------------------------
(***************************************************************************)
(* The shim and the processes it starts.                                   *)
(***************************************************************************)

\* The shim dials and calls; with no daemon it refuses to go on.
Calls(s, from, to, method) ==
  /\ shim[s] = from /\ call[s] = "none"
  /\ IF Serving
       THEN shim' = [shim EXCEPT ![s] = to] /\ call' = [call EXCEPT ![s] = method]
       ELSE shim' = [shim EXCEPT ![s] = "done"] /\ UNCHANGED call

ShimCreates(s) ==
  /\ Calls(s, "new", "creating", "count")
  /\ UNCHANGED <<daemon, restarts, memory, approved, kernel>>

\* The owner answers at the terminal.
ShimAsks(s) ==
  /\ \/ Calls(s, "asking", "approving", "approve")
     \/ Calls(s, "asking", "rejecting", "reject")
  /\ UNCHANGED <<daemon, restarts, memory, approved, kernel>>

\* The held child is started, then StartSession called with its PID.
ShimStarts(s) ==
  /\ Calls(s, "spawning", "starting", "check")
  /\ root' = [root EXCEPT ![s] = "held"]
  /\ UNCHANGED <<daemon, restarts, memory, approved, dir, inside, desc, frozen, released>>

\* The agent's root process is gone: EndSession.
ShimEnds(s) ==
  /\ root[s] = "gone"
  /\ Calls(s, "waiting", "finishing", "mark")
  /\ UNCHANGED <<daemon, restarts, memory, approved, kernel>>

\* A reply arrives.  The start call's success releases the held child, which
\* becomes the agent; if the child died meanwhile the write fails.
ShimHears(s) ==
  /\ call[s] \in {"ok", "err"}
  /\ call' = [call EXCEPT ![s] = "none"]
  /\ LET releases == shim[s] = "starting" /\ call[s] = "ok" /\ root[s] = "held"
     IN  /\ root' = [root EXCEPT ![s] = IF releases THEN "agent" ELSE @]
         /\ shim' = [shim EXCEPT ![s] =
              CASE shim[s] = "creating" /\ call[s] = "ok" ->
                     IF RequireApproval THEN "asking" ELSE "spawning"
                [] shim[s] = "approving" /\ call[s] = "ok" -> "spawning"
                [] releases -> "waiting"
                [] shim[s] = "dead" -> "dead"
                [] OTHER -> "done"]
  /\ UNCHANGED <<daemon, restarts, memory, approved, dir, inside, desc, frozen, released>>

\* watchDaemon: no answer for the grace period, or an answer that does not know
\* the session.  It kills the child it started; descendants are out of reach.
ShimLosesDaemon(s) ==
  /\ shim[s] = "waiting" /\ root[s] = "agent"
  /\ ~Serving \/ ~known[s]
  /\ root' = [root EXCEPT ![s] = "gone"]
  /\ shim' = [shim EXCEPT ![s] = "done"]
  /\ UNCHANGED <<daemon, restarts, memory, approved, dir, inside, desc, frozen,
                 released, call>>

\* The shim is killed, or the user interrupts it at a prompt.
ShimDies(s) ==
  /\ shim[s] \notin {"new", "done", "dead"}
  /\ shim' = [shim EXCEPT ![s] = "dead"]
  /\ UNCHANGED <<daemon, restarts, memory, approved, kernel, call>>

\* hold: without the release byte the child exits and runs nothing.
HeldExits(s) ==
  /\ root[s] = "held" /\ shim[s] \in {"done", "dead"} /\ ~frozen[s]
  /\ root' = [root EXCEPT ![s] = "gone"]
  /\ UNCHANGED <<daemon, restarts, memory, approved, dir, inside, desc, frozen,
                 released, shim, call>>

\* The agent runs: it may fork, exit, and leave descendants behind.
AgentRuns(s) ==
  /\ ~frozen[s]
  /\ \/ root[s] = "agent" /\ root' = [root EXCEPT ![s] = "gone"] /\ UNCHANGED desc
     \/ root[s] = "agent" /\ desc' = [desc EXCEPT ![s] = TRUE] /\ UNCHANGED root
     \/ desc[s] /\ desc' = [desc EXCEPT ![s] = FALSE] /\ UNCHANGED root
  /\ UNCHANGED <<daemon, restarts, memory, approved, dir, inside, frozen, released,
                 shim, call>>

-----------------------------------------------------------------------------
HandlerStep(s) ==
  \/ CreateCounts(s) \/ CreateMakes(s) \/ CreateRegisters(s) \/ CreateSeals(s)
  \/ Approve(s) \/ Reject(s)
  \/ StartChecks(s) \/ StartMakesGroup(s) \/ StartAdopts(s) \/ StartPublishes(s)
  \/ StartAttaches(s) \/ StartActivates(s) \/ StartUndoes(s)
  \/ EndMarks(s) \/ LoopAnswered(s)

LoopStep ==
  \/ \E s \in Sessions : RunsAsked(s) \/ Reaps(s)
  \/ FinishKills \/ FinishEnds \/ FailAll \/ ShutdownLists \/ Exits

Environment ==
  \/ \E s \in Sessions :
       \/ \E r \in {"terminated", "failed"} : EventEnds(s, r)
       \/ ThawsLeftover(s) \/ KillsLeftover(s)
       \/ ShimCreates(s) \/ ShimAsks(s) \/ ShimStarts(s) \/ ShimEnds(s) \/ ShimHears(s)
       \/ ShimLosesDaemon(s) \/ ShimDies(s) \/ HeldExits(s) \/ AgentRuns(s)
  \/ TelemetryEnds \/ Stops \/ Crashes
  \/ \E missed, stuck \in SUBSET Sessions : Restarts(missed, stuck)

Next == Environment \/ LoopStep \/ \E s \in Sessions : HandlerStep(s)

Spec == Init /\ [][Next]_vars

\* The loop and the handlers run while there is something to do; the reaper's
\* tick is part of the loop.  Nothing is assumed of shims, agents or operators.
FairSpec ==
  /\ Spec
  /\ WF_vars(LoopStep)
  /\ \A s \in Sessions : WF_vars(HandlerStep(s))

-----------------------------------------------------------------------------
\* Type correctness of the daemon's, the kernel's and the shims' state.
TypeOK ==
  /\ daemon \in {"up", "losing", "closing", "draining", "stopping", "down", "crashed"}
  /\ restarts \in 0..MaxRestarts
  /\ state \in [Sessions -> LiveStates \cup TerminalStates \cup {"absent"}]
  /\ \A f \in {known, grp, ending, attached, approved, dir, inside, desc, frozen} :
       f \in [Sessions -> BOOLEAN]
  /\ released \in [Sessions -> {"no", "thawed", "missed"}]
  /\ asked \in [Sessions -> TerminalStates \cup {"none"}]
  /\ at \in {"idle", "finish", "end"}
  /\ cur \in Sessions /\ result \in TerminalStates
  /\ todo \in SUBSET Sessions /\ leftovers \in SUBSET Sessions
  /\ root \in [Sessions -> {"none", "held", "agent", "gone"}]
  /\ shim \in [Sessions -> {"new", "creating", "asking", "approving", "rejecting",
                            "spawning", "starting", "waiting", "finishing", "done",
                            "dead"}]
  /\ call \in [Sessions -> {"none", "ok", "err", "count", "create", "register",
                            "seal", "approve", "reject", "rejecting", "check",
                            "mkdir", "adopt", "publish", "attach", "start", "undo",
                            "failing", "mark", "ending"}]

\* No agent code runs outside a session cgroup, or before its owner approved the
\* envelope when approval is required: the held child is released only by a
\* StartSession that adopted it, whatever the daemon or the shim did meanwhile.
AgentIsHeldUntilGoverned ==
  \A s \in Sessions :
    root[s] = "agent" \/ desc[s] => inside[s] /\ (RequireApproval => approved[s])

\* While a session is recorded active, its cgroup is known to the daemon and its
\* telemetry attached, except in the loop's last step of ending it.
ActiveIsObserved ==
  \A s \in Sessions :
    state[s] = "active" => grp[s] /\ (attached[s] \/ (at = "end" /\ cur = s))

\* Whatever point the daemon died at: once its successor serves, the processes of
\* a session it does not hold are leftovers, frozen until root thaws or kills
\* them, save those whose group could not be frozen.  The exception is a group that
\* the sweep never saw, because the base or the group itself could not be read.
LeftoversAreHeld ==
  \A s \in Sessions :
    daemon = "up" /\ Populated(s) /\ state[s] = "absent" /\ released[s] # "missed" =>
      s \in leftovers /\ (frozen[s] \/ released[s] = "thawed")

\* While a daemon runs, a cgroup that exists is somebody's to clean up: an entry
\* holds it, or the handler that made it has not finished with it, or it is a
\* leftover, or the sweep never saw it.
NoGroupLost ==
  \A s \in Sessions :
    Running /\ dir[s] =>
      \/ grp[s] \/ call[s] \in {"adopt", "publish", "undo"}
      \/ s \in leftovers \/ released[s] = "missed"

\* An active session whose processes are all gone is ended, even if its shim died
\* without ending it: by the shim's EndSession or by the reaper.
OrphanIsEnded ==
  \A s \in Sessions :
    (daemon = "up" /\ state[s] = "active" /\ ~Populated(s))
      ~> (daemon # "up" \/ ~Live(s) \/ Populated(s))

\* What Shutdown says: no agent is left running when the daemon goes away.
NoAgentLeftBehind ==
  daemon = "down" => \A s \in Sessions : root[s] # "agent" /\ ~desc[s]

\* What the lifecycle's End is for: a session that never got as far as starting,
\* and whose shim is gone, does not stay live for ever.
AbandonedIsEnded ==
  \A s \in Sessions :
    (daemon = "up" /\ Live(s) /\ shim[s] \in {"done", "dead"} /\ ~Populated(s))
      ~> (daemon # "up" \/ ~Live(s))
=============================================================================
