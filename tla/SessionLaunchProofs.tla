------------------------- MODULE SessionLaunchProofs -------------------------
(***************************************************************************)
(* What the launch promises for any number of sessions, of concurrent      *)
(* handlers and of restarts, whenever a shim or the daemon dies: its type, *)
(* the four safety invariants of SessionLaunch, and that Shutdown leaves   *)
(* no agent unless a lost telemetry stream races startSession.             *)
(***************************************************************************)
EXTENDS SessionLaunch, TLAPS

-----------------------------------------------------------------------------
(***************************************************************************)
(* The invariant.  Every part of it is about one session.                  *)
(***************************************************************************)

\* The steps of startSession's handler once it has found the session ready.
Launching == {"mkdir", "adopt", "publish", "attach", "start", "undo"}

\* A daemon that is gone holds nothing, and no handler runs.
GoneHoldsNothing(s) ==
  ~Running => /\ state[s] = "absent" /\ ~grp[s] /\ at = "idle" /\ todo = {}
              /\ call[s] \in {"none", "ok", "err"}

\* Ready and active sessions have been approved, where that is required.
Gated(s) == RequireApproval /\ state[s] \in {"ready", "active"} => approved[s]

\* Before the shim has started its child there is none to be adopted.
NoChildYet(s) ==
  shim[s] \in {"new", "creating", "asking", "approving", "rejecting", "spawning"} =>
    root[s] = "none" /\ ~inside[s] /\ ~desc[s]

\* What the shim that waits for StartSession is waiting for, and what an answer
\* that releases the child says.
Starting(s) ==
  shim[s] = "starting" =>
    /\ call[s] \in Launching \cup {"check", "failing", "ok", "err"}
    /\ call[s] = "ok" => inside[s] /\ (RequireApproval => approved[s])

\* What a handler of startSession has done by each of its steps.
HandlerHas(s) ==
  /\ call[s] \in Launching => state[s] \notin {"absent", "active"}
  /\ call[s] \in {"publish", "attach", "start"} => inside[s]
  /\ call[s] \in {"attach", "start"} => grp[s]
  /\ call[s] = "start" => \/ attached[s] \/ (at = "end" /\ cur = s)
                          \/ state[s] \in TerminalStates

\* Whose the cgroup is.
GroupIsHeld(s) ==
  Running /\ dir[s] =>
    \/ grp[s] \/ call[s] \in {"adopt", "publish", "undo"}
    \/ s \in leftovers \/ released[s] = "missed"

\* The invariants of SessionLaunch, of one session.
Governed(s) ==
  root[s] = "agent" \/ desc[s] => inside[s] /\ (RequireApproval => approved[s])
Observed(s) == state[s] = "active" => grp[s] /\ (attached[s] \/ (at = "end" /\ cur = s))
Held(s) ==
  daemon = "up" /\ Populated(s) /\ state[s] = "absent" /\ released[s] # "missed" =>
    s \in leftovers /\ (frozen[s] \/ released[s] = "thawed")

Safe(s) ==
  /\ GoneHoldsNothing(s) /\ Gated(s) /\ NoChildYet(s) /\ Starting(s) /\ HandlerHas(s)
  /\ GroupIsHeld(s) /\ Governed(s) /\ Observed(s) /\ Held(s)

\* TypeOK, one variable after another.
Types ==
  /\ daemon \in {"up", "losing", "closing", "draining", "stopping", "down", "crashed"}
  /\ restarts \in 0..MaxRestarts
  /\ state \in [Sessions -> LiveStates \cup TerminalStates \cup {"absent"}]
  /\ known \in [Sessions -> BOOLEAN] /\ grp \in [Sessions -> BOOLEAN]
  /\ ending \in [Sessions -> BOOLEAN] /\ attached \in [Sessions -> BOOLEAN]
  /\ approved \in [Sessions -> BOOLEAN] /\ dir \in [Sessions -> BOOLEAN]
  /\ inside \in [Sessions -> BOOLEAN] /\ desc \in [Sessions -> BOOLEAN]
  /\ frozen \in [Sessions -> BOOLEAN]
  /\ released \in [Sessions -> {"no", "thawed", "missed"}]
  /\ asked \in [Sessions -> TerminalStates \cup {"none"}]
  /\ at \in {"idle", "finish", "end"}
  /\ cur \in Sessions /\ result \in TerminalStates
  /\ todo \in SUBSET Sessions /\ leftovers \in SUBSET Sessions
  /\ root \in [Sessions -> {"none", "held", "agent", "gone"}]
  /\ shim \in [Sessions -> {"new", "creating", "asking", "approving", "rejecting",
                            "spawning", "starting", "waiting", "finishing", "done",
                            "dead"}]
  /\ call \in [Sessions -> {"none", "ok", "err", "count", "create", "register",
                            "seal", "approve", "reject", "rejecting", "check",
                            "mkdir", "adopt", "publish", "attach", "start", "undo",
                            "failing", "mark", "ending"}]

Inv == Types /\ \A s \in Sessions : Safe(s)
-----------------------------------------------------------------------------
(***************************************************************************)
(* Types.                                                                  *)
(***************************************************************************)
LEMMA InitInv == Init => Inv
<1> SUFFICES ASSUME Init PROVE Inv
  OBVIOUS
<1>1. Types
  BY MaxRestartsNatural DEF Init, Types, LiveStates, TerminalStates
<1>2. \A s \in Sessions : Safe(s)
  BY DEF Init, Safe, GoneHoldsNothing, Gated, NoChildYet, Starting, HandlerHas, Launching,
         GroupIsHeld, Governed, Observed, Held, Running, Populated, TerminalStates
<1> QED BY <1>1, <1>2 DEF Inv

\* A handler's steps.
LEMMA HandlerType ==
  ASSUME Types, NEW s \in Sessions, HandlerStep(s)
  PROVE  Types'
<1> USE DEF Types, Handler, memory, kernel, LiveStates, TerminalStates
<1>1. CASE CreateCounts(s) BY <1>1 DEF CreateCounts
<1>2. CASE CreateMakes(s) BY <1>2 DEF CreateMakes
<1>3. CASE CreateRegisters(s) BY <1>3 DEF CreateRegisters
<1>4. CASE CreateSeals(s) BY <1>4 DEF CreateSeals
<1>5. CASE Approve(s) BY ZenonT(60), <1>5 DEF Approve
<1>6. CASE Reject(s) BY <1>6 DEF Reject
<1>7. CASE StartChecks(s) BY <1>7 DEF StartChecks
<1>8. CASE StartMakesGroup(s) BY ZenonT(60), <1>8 DEF StartMakesGroup
<1>9. CASE StartAdopts(s)
  <2>1. inside' = [inside EXCEPT ![s] = TRUE] \/ inside' = inside
    BY <1>9 DEF StartAdopts
  <2>2. call' = [call EXCEPT ![s] = "publish"] \/ call' = [call EXCEPT ![s] = "undo"]
    BY <1>9 DEF StartAdopts
  <2> QED BY ZenonT(60), <1>9, <2>1, <2>2 DEF StartAdopts
<1>10. CASE StartPublishes(s) BY <1>10 DEF StartPublishes
<1>11. CASE StartAttaches(s)
  <2>1. attached' = [attached EXCEPT ![s] = TRUE] \/ attached' = attached
    BY <1>11 DEF StartAttaches
  <2>2. call' = [call EXCEPT ![s] = "start"] \/ call' = [call EXCEPT ![s] = "undo"]
    BY <1>11 DEF StartAttaches
  <2> QED BY ZenonT(60), <1>11, <2>1, <2>2 DEF StartAttaches
<1>12. CASE StartActivates(s) BY <1>12 DEF StartActivates
<1>13. CASE StartUndoes(s) BY <1>13 DEF StartUndoes, KillAndRemove
<1>14. CASE EndMarks(s)
  <2> USE <1>14 DEF EndMarks
  <2>1. CASE ~known[s] BY <2>1
  <2>2. CASE known[s] /\ ~Live(s) BY <2>2
  <2>3. CASE known[s] /\ Live(s)
    <3>1. /\ call' = [call EXCEPT ![s] = "ending"]
          /\ ending' = [ending EXCEPT ![s] = TRUE]
          /\ asked' = [asked EXCEPT ![s] = "completed"]
      BY <2>3
    <3>2. ending' \in [Sessions -> BOOLEAN]
      BY <3>1
    <3>3. asked' \in [Sessions -> TerminalStates \cup {"none"}]
      BY <3>1
    <3> QED BY <3>1, <3>2, <3>3
  <2> QED BY <2>1, <2>2, <2>3
<1>15. CASE LoopAnswered(s) BY <1>15 DEF LoopAnswered
<1> QED BY <1>1, <1>2, <1>3, <1>4, <1>5, <1>6, <1>7, <1>8, <1>9, <1>10, <1>11, <1>12, <1>13,
           <1>14, <1>15 DEF HandlerStep

\* The loop's.
LEMMA LoopType ==
  ASSUME Types, LoopStep
  PROVE  Types'
<1> USE DEF Types, memory, kernel, LiveStates, TerminalStates, Finish
<1>1. ASSUME NEW s \in Sessions, RunsAsked(s) PROVE Types' BY <1>1 DEF RunsAsked
<1>2. ASSUME NEW s \in Sessions, Reaps(s) PROVE Types' BY <1>2 DEF Reaps
<1>3. CASE FinishKills
  <2> USE <1>3 DEF FinishKills, KillAndRemove
  <2>1. CASE grp[cur] BY ZenonT(60), <2>1
  <2>2. CASE ~grp[cur] BY ZenonT(60), <2>2
  <2> QED BY <2>1, <2>2
<1>4. CASE FinishEnds BY <1>4 DEF FinishEnds
<1>5. CASE FailAll BY <1>5 DEF FailAll
<1>6. CASE ShutdownLists BY <1>6 DEF ShutdownLists
<1>7. CASE Exits BY <1>7 DEF Exits, Vanish
<1> QED BY <1>1, <1>2, <1>3, <1>4, <1>5, <1>6, <1>7 DEF LoopStep

\* Those of agents, shims, operators and the process itself.
LEMMA EnvironmentType ==
  ASSUME Types, Environment
  PROVE  Types'
<1> USE DEF Types, memory, kernel, LiveStates, TerminalStates
<1>1. ASSUME NEW s \in Sessions, NEW r \in {"terminated", "failed"}, EventEnds(s, r) PROVE Types'
  BY <1>1 DEF EventEnds, Finish
<1>2. ASSUME NEW s \in Sessions, ThawsLeftover(s) PROVE Types' BY <1>2 DEF ThawsLeftover
<1>3. ASSUME NEW s \in Sessions, KillsLeftover(s) PROVE Types'
  BY <1>3 DEF KillsLeftover, KillAndRemove
<1>4. ASSUME NEW s \in Sessions, ShimCreates(s) PROVE Types' BY <1>4 DEF ShimCreates, Calls
<1>5. ASSUME NEW s \in Sessions, ShimAsks(s) PROVE Types' BY <1>5 DEF ShimAsks, Calls
<1>6. ASSUME NEW s \in Sessions, ShimStarts(s) PROVE Types' BY <1>6 DEF ShimStarts, Calls
<1>7. ASSUME NEW s \in Sessions, ShimEnds(s) PROVE Types' BY SMTT(60), <1>7 DEF ShimEnds, Calls
<1>8. ASSUME NEW s \in Sessions, ShimHears(s) PROVE Types' BY <1>8 DEF ShimHears
<1>9. ASSUME NEW s \in Sessions, ShimLosesDaemon(s) PROVE Types' BY <1>9 DEF ShimLosesDaemon
<1>10. ASSUME NEW s \in Sessions, ShimDies(s) PROVE Types' BY <1>10 DEF ShimDies
<1>11. ASSUME NEW s \in Sessions, HeldExits(s) PROVE Types' BY <1>11 DEF HeldExits
<1>12. ASSUME NEW s \in Sessions, AgentRuns(s) PROVE Types' BY ZenonT(60), <1>12 DEF AgentRuns
<1>13. CASE TelemetryEnds BY <1>13 DEF TelemetryEnds
<1>14. CASE Stops BY <1>14 DEF Stops
<1>15. CASE Crashes BY <1>15 DEF Crashes, Vanish
<1>16. ASSUME NEW missed \in SUBSET Sessions, NEW stuck \in SUBSET Sessions, Restarts(missed, stuck)
       PROVE  Types'
  BY <1>16, MaxRestartsNatural DEF Restarts, Noted, Populated
<1> QED BY <1>1, <1>2, <1>3, <1>4, <1>5, <1>6, <1>7, <1>8, <1>9, <1>10, <1>11, <1>12, <1>13,
           <1>14, <1>15, <1>16 DEF Environment

-----------------------------------------------------------------------------
(***************************************************************************)
(* Every step keeps what is said of a session x.                           *)
(***************************************************************************)
LEMMA HandlerSafe ==
  ASSUME Types, NEW s \in Sessions, HandlerStep(s), NEW x \in Sessions, Safe(x)
  PROVE  Safe(x)'
<1> USE DEF Types, Handler, memory, kernel, LiveStates, TerminalStates, Safe, GoneHoldsNothing,
            Gated, NoChildYet, Starting, HandlerHas, Launching, GroupIsHeld, Governed, Observed,
            Held, Running, Populated
<1>1. CASE CreateCounts(s) BY <1>1 DEF CreateCounts
<1>2. CASE CreateMakes(s) BY <1>2 DEF CreateMakes
<1>3. CASE CreateRegisters(s) BY <1>3 DEF CreateRegisters
<1>4. CASE CreateSeals(s) BY <1>4 DEF CreateSeals
<1>5. CASE Approve(s) BY <1>5 DEF Approve
<1>6. CASE Reject(s) BY <1>6 DEF Reject
<1>7. CASE StartChecks(s) BY <1>7 DEF StartChecks
<1>8. CASE StartMakesGroup(s) BY <1>8 DEF StartMakesGroup
<1>9. CASE StartAdopts(s) BY <1>9 DEF StartAdopts
<1>10. CASE StartPublishes(s) BY <1>10 DEF StartPublishes
<1>11. CASE StartAttaches(s) BY <1>11 DEF StartAttaches
<1>12. CASE StartActivates(s) BY <1>12 DEF StartActivates
<1>13. CASE StartUndoes(s) BY <1>13 DEF StartUndoes, KillAndRemove
<1>14. CASE EndMarks(s) BY <1>14 DEF EndMarks
<1>15. CASE LoopAnswered(s) BY <1>15 DEF LoopAnswered
<1> QED BY <1>1, <1>2, <1>3, <1>4, <1>5, <1>6, <1>7, <1>8, <1>9, <1>10, <1>11, <1>12, <1>13,
           <1>14, <1>15 DEF HandlerStep

LEMMA LoopSafe ==
  ASSUME Types, LoopStep, NEW x \in Sessions, Safe(x)
  PROVE  Safe(x)'
<1> USE DEF Types, memory, kernel, LiveStates, TerminalStates, Safe, GoneHoldsNothing,
            Gated, NoChildYet, Starting, HandlerHas, Launching, GroupIsHeld, Governed, Observed,
            Held, Running, Populated, Finish
<1>1. ASSUME NEW s \in Sessions, RunsAsked(s) PROVE Safe(x)'
  BY <1>1 DEF RunsAsked
<1>2. ASSUME NEW s \in Sessions, Reaps(s) PROVE Safe(x)'
  BY <1>2 DEF Reaps, Orphaned
<1>3. CASE FinishKills BY <1>3 DEF FinishKills, KillAndRemove
<1>4. CASE FinishEnds BY <1>4 DEF FinishEnds
<1>5. CASE FailAll BY <1>5 DEF FailAll
<1>6. CASE ShutdownLists BY <1>6 DEF ShutdownLists
<1>7. CASE Exits BY <1>7 DEF Exits, Vanish
<1> QED BY <1>1, <1>2, <1>3, <1>4, <1>5, <1>6, <1>7 DEF LoopStep

LEMMA EnvironmentSafe ==
  ASSUME Types, Environment, NEW x \in Sessions, Safe(x)
  PROVE  Safe(x)'
<1> USE DEF Types, memory, kernel, LiveStates, TerminalStates, Safe, GoneHoldsNothing,
            Gated, NoChildYet, Starting, HandlerHas, Launching, GroupIsHeld, Governed, Observed,
            Held, Running, Populated
<1>1. ASSUME NEW s \in Sessions, NEW r \in {"terminated", "failed"}, EventEnds(s, r) PROVE Safe(x)'
  BY <1>1 DEF EventEnds, Finish
<1>2. ASSUME NEW s \in Sessions, ThawsLeftover(s) PROVE Safe(x)'
  BY <1>2 DEF ThawsLeftover
<1>3. ASSUME NEW s \in Sessions, KillsLeftover(s) PROVE Safe(x)'
  BY <1>3 DEF KillsLeftover, KillAndRemove
<1>4. ASSUME NEW s \in Sessions, ShimCreates(s) PROVE Safe(x)'
  BY <1>4 DEF ShimCreates, Calls, Serving
<1>5. ASSUME NEW s \in Sessions, ShimAsks(s) PROVE Safe(x)'
  BY <1>5 DEF ShimAsks, Calls, Serving
<1>6. ASSUME NEW s \in Sessions, ShimStarts(s) PROVE Safe(x)'
  BY <1>6 DEF ShimStarts, Calls, Serving
<1>7. ASSUME NEW s \in Sessions, ShimEnds(s) PROVE Safe(x)'
  BY <1>7 DEF ShimEnds, Calls, Serving
<1>8. ASSUME NEW s \in Sessions, ShimHears(s) PROVE Safe(x)'
  BY <1>8 DEF ShimHears
<1>9. ASSUME NEW s \in Sessions, ShimLosesDaemon(s) PROVE Safe(x)'
  BY <1>9 DEF ShimLosesDaemon
<1>10. ASSUME NEW s \in Sessions, ShimDies(s) PROVE Safe(x)'
  BY <1>10 DEF ShimDies
<1>11. ASSUME NEW s \in Sessions, HeldExits(s) PROVE Safe(x)'
  BY <1>11 DEF HeldExits
<1>12. ASSUME NEW s \in Sessions, AgentRuns(s) PROVE Safe(x)'
  BY <1>12 DEF AgentRuns
<1>13. CASE TelemetryEnds BY <1>13 DEF TelemetryEnds
<1>14. CASE Stops BY <1>14 DEF Stops
<1>15. CASE Crashes BY <1>15 DEF Crashes, Vanish
<1>16. ASSUME NEW missed \in SUBSET Sessions, NEW stuck \in SUBSET Sessions, Restarts(missed, stuck)
       PROVE  Safe(x)'
  BY <1>16 DEF Restarts, Noted
<1> QED BY <1>1, <1>2, <1>3, <1>4, <1>5, <1>6, <1>7, <1>8, <1>9, <1>10, <1>11, <1>12, <1>13,
           <1>14, <1>15, <1>16 DEF Environment

LEMMA InvStep == Inv /\ [Next]_vars => Inv'
<1> SUFFICES ASSUME Inv, [Next]_vars PROVE Inv'
  OBVIOUS
<1>1. CASE Environment
  BY <1>1, EnvironmentType, EnvironmentSafe DEF Inv
<1>2. CASE LoopStep
  BY <1>2, LoopType, LoopSafe DEF Inv
<1>3. ASSUME NEW s \in Sessions, HandlerStep(s) PROVE Inv'
  BY <1>3, HandlerType, HandlerSafe DEF Inv
<1>4. CASE UNCHANGED vars
  BY <1>4 DEF Inv, Types, vars, Safe, GoneHoldsNothing, Gated, NoChildYet, Starting, HandlerHas,
         GroupIsHeld, Governed, Observed, Held, Running, Populated
<1> QED BY <1>1, <1>2, <1>3, <1>4 DEF Next

-----------------------------------------------------------------------------
(***************************************************************************)
(* The theorems.                                                           *)
(***************************************************************************)
LEMMA Always == Spec => []Inv
  BY InitInv, InvStep, PTL DEF Spec

\* The state keeps its type, whoever dies when.
THEOREM LaunchTypeCorrect == Spec => []TypeOK
<1>1. Inv => TypeOK
  BY DEF Inv, Types, TypeOK
<1> QED BY <1>1, Always, PTL

\* No agent code runs outside a cgroup of its session, or before its owner approved
\* the envelope: the release byte follows an answer of startSession that did both
\* (cmd/allseer-shim/main.go, hold; internal/daemon/rpc.go, startSession).
THEOREM AgentsAreGoverned == Spec => []AgentIsHeldUntilGoverned
<1>1. Inv => AgentIsHeldUntilGoverned
  BY DEF Inv, Safe, Governed, AgentIsHeldUntilGoverned
<1> QED BY <1>1, Always, PTL

\* An active session is observed until the loop's last step of ending it, though
\* startSession activates it on another goroutine than the one that ends it.
THEOREM ActiveSessionsAreObserved == Spec => []ActiveIsObserved
<1>1. Inv => ActiveIsObserved
  BY DEF Inv, Safe, Observed, ActiveIsObserved
<1> QED BY <1>1, Always, PTL

\* Wherever a daemon died, the next one holds what it left, of all that its sweep could
\* read (containment's List and sweep, cmd/allseer-daemon/main.go,
\* internal/daemon/leftovers.go); what is excepted is the group that the sweep passed
\* over, which runs on with nobody to know of it.
THEOREM LeftoversStayHeld == Spec => []LeftoversAreHeld
<1>1. Inv => LeftoversAreHeld
  BY DEF Inv, Safe, Held, LeftoversAreHeld
<1> QED BY <1>1, Always, PTL

\* No handler that fails, and no end that overtakes it, loses a cgroup: a running daemon
\* lacks only those that a former one left and its own sweep did not see.
THEOREM GroupsAreNotLost == Spec => []NoGroupLost
<1>1. Inv => NoGroupLost
  BY DEF Inv, Safe, GroupIsHeld, NoGroupLost
<1> QED BY <1>1, Always, PTL

-----------------------------------------------------------------------------
(***************************************************************************)
(* What Shutdown promises, where its race with startSession is not lost.   *)
(*                                                                         *)
(* NoAgentLeftBehind is refuted by a startSession that publishes its       *)
(* cgroup after finish has looked for one and before the manager's End,    *)
(* while Run ends the sessions of a lost telemetry stream.  Here that is   *)
(* the only way: a handler that does so after a signal has its context     *)
(* cancelled and cannot attach, and before either of them no session is    *)
(* finished that has yet to be published.                                  *)
(***************************************************************************)

\* startSession sets info.group after finish has read it, in failAll of Run.
PublishesTooLate == daemon = "losing" /\ at = "end" /\ StartPublishes(cur)

SpecInTime == Init /\ [][Next /\ ~PublishesTooLate]_vars

\* Agent code runs, or the held child is about to be released by an answer given.
Unleashed(s) == root[s] = "agent" \/ desc[s]
Released(s) == root[s] = "held" /\ shim[s] = "starting" /\ call[s] = "ok"

\* The sweep noted the session's cgroup, or did not see it.
OfAFormerDaemon(s) == s \in leftovers \/ released[s] = "missed"

\* Whoever runs does so under a session that is active and was not killed yet.
ActiveWhile(s) ==
  Running /\ ~OfAFormerDaemon(s) /\ (Unleashed(s) \/ Released(s)) =>
    state[s] = "active" /\ ~(at = "end" /\ cur = s)

\* What finish killed is not there to be released.
KilledFirst(s) ==
  at = "end" /\ cur = s /\ root[s] = "held" =>
    /\ call[s] # "start"
    /\ call[s] = "attach" => Cancelled

\* A session whose cgroup is not published has nothing for the loop to end it for, as
\* long as the daemon does nothing but serve.
Unpublished(s) ==
  \/ call[s] \in {"count", "create", "register", "seal", "approve", "check", "mkdir", "adopt",
                 "publish"}
  \/ shim[s] \in {"new", "creating", "asking", "approving", "spawning"}

NothingToEnd(s) ==
  Unpublished(s) =>
    /\ ~grp[s] /\ ~attached[s] /\ asked[s] = "none"
    /\ daemon = "up" => ~(at # "idle" /\ cur = s)

\* What such a shim is waiting for.
CallsInOrder(s) ==
  /\ shim[s] \in {"new", "asking", "spawning"} => call[s] = "none"
  /\ shim[s] \in {"creating", "approving"} =>
       call[s] \in {"ok", "err", "count", "create", "register", "seal", "approve"}

\* The cgroup exists while it has anybody in it.
GroupExists(s) == (inside[s] /\ root[s] \in {"held", "agent"}) \/ desc[s] => dir[s]

\* A session that failAll does not have to end will not be started any more.
StartsNoMore(s) ==
  daemon = "stopping" /\ s \notin todo /\ ~(at # "idle" /\ cur = s) =>
    /\ state[s] # "active"
    /\ call[s] \in Launching \cup {"check"} => ~Live(s)

\* createSession's handler comes before any process of the session.
NothingYet(s) ==
  call[s] \in {"count", "create"} => root[s] = "none" /\ ~inside[s] /\ ~desc[s]

InTime(s) ==
  /\ ActiveWhile(s) /\ KilledFirst(s) /\ GroupExists(s) /\ StartsNoMore(s) /\ NothingYet(s)
  /\ NothingToEnd(s) /\ CallsInOrder(s)

LEMMA HandlerInTime ==
  ASSUME Types, NEW s \in Sessions, HandlerStep(s), ~PublishesTooLate,
         NEW x \in Sessions, Safe(x), InTime(x)
  PROVE  InTime(x)'
<1> USE DEF Types, Handler, memory, kernel, LiveStates, TerminalStates, Safe, GoneHoldsNothing,
            Starting, HandlerHas, Launching, Governed, Observed, Running, Live, InTime,
            ActiveWhile, Unleashed, Released, OfAFormerDaemon, KilledFirst, Cancelled, GroupExists,
            StartsNoMore, NothingYet, NothingToEnd, Unpublished, CallsInOrder
<1>1. CASE CreateCounts(s) BY <1>1 DEF CreateCounts
<1>2. CASE CreateMakes(s) BY <1>2 DEF CreateMakes
<1>3. CASE CreateRegisters(s) BY <1>3 DEF CreateRegisters
<1>4. CASE CreateSeals(s) BY <1>4 DEF CreateSeals
<1>5. CASE Approve(s) BY <1>5 DEF Approve
<1>6. CASE Reject(s) BY <1>6 DEF Reject
<1>7. CASE StartChecks(s) BY <1>7 DEF StartChecks
<1>8. CASE StartMakesGroup(s) BY <1>8 DEF StartMakesGroup
<1>9. CASE StartAdopts(s) BY <1>9 DEF StartAdopts
<1>10. CASE StartPublishes(s)
  <2>1. at = "end" /\ cur = s => daemon # "losing"
    BY <1>10 DEF PublishesTooLate
  <2> QED BY <1>10, <2>1 DEF StartPublishes
<1>11. CASE StartAttaches(s) BY <1>11 DEF StartAttaches
<1>12. CASE StartActivates(s) BY <1>12 DEF StartActivates
<1>13. CASE StartUndoes(s) BY <1>13 DEF StartUndoes, KillAndRemove
<1>14. CASE EndMarks(s) BY <1>14 DEF EndMarks
<1>15. CASE LoopAnswered(s) BY <1>15 DEF LoopAnswered
<1> QED BY <1>1, <1>2, <1>3, <1>4, <1>5, <1>6, <1>7, <1>8, <1>9, <1>10, <1>11, <1>12, <1>13,
           <1>14, <1>15 DEF HandlerStep

LEMMA LoopInTime ==
  ASSUME Types, LoopStep, NEW x \in Sessions, Safe(x), InTime(x)
  PROVE  InTime(x)'
<1> USE DEF Types, memory, kernel, LiveStates, TerminalStates, Safe, GoneHoldsNothing,
            Starting, HandlerHas, Launching, Governed, Observed, Running, Live, InTime, Finish,
            ActiveWhile, Unleashed, Released, OfAFormerDaemon, KilledFirst, Cancelled, GroupExists,
            StartsNoMore, NothingYet, NothingToEnd, Unpublished, CallsInOrder
<1>1. ASSUME NEW s \in Sessions, RunsAsked(s) PROVE InTime(x)'
  BY <1>1 DEF RunsAsked
<1>2. ASSUME NEW s \in Sessions, Reaps(s) PROVE InTime(x)'
  BY <1>2 DEF Reaps, Orphaned
<1>3. CASE FinishKills
  <2> USE <1>3 DEF FinishKills
  <2>1. CASE x # cur
    BY <2>1 DEF KillAndRemove
  <2>2. CASE x = cur /\ grp[x]
    <3>1. /\ ~desc'[x] /\ inside'[x] = inside[x]
          /\ inside[x] => root'[x] = "gone"
          /\ ~inside[x] => root'[x] = root[x]
      BY <2>2 DEF KillAndRemove
    <3>2. ~Unleashed(x)' /\ ~Released(x)'
      BY <2>2, <3>1
    <3>3. call'[x] \in {"attach", "start"} => root'[x] # "held"
      BY <2>2, <3>1
    <3>4. GroupExists(x)'
      BY <3>1
    <3>5. StartsNoMore(x)'
      BY <2>2
    <3>6. NothingYet(x)'
      BY <3>1
    <3> HIDE DEF Unleashed, Released, GroupExists, StartsNoMore, NothingYet
    <3> QED BY <3>2, <3>3, <3>4, <3>5, <3>6
  <2>3. CASE x = cur /\ ~grp[x]
    BY <2>3
  <2> QED BY <2>1, <2>2, <2>3
<1>4. CASE FinishEnds BY <1>4 DEF FinishEnds
<1>5. CASE FailAll BY <1>5 DEF FailAll
<1>6. CASE ShutdownLists BY <1>6 DEF ShutdownLists
<1>7. CASE Exits BY <1>7 DEF Exits, Vanish
<1> QED BY <1>1, <1>2, <1>3, <1>4, <1>5, <1>6, <1>7 DEF LoopStep

LEMMA EnvironmentInTime ==
  ASSUME Types, Environment, NEW x \in Sessions, Safe(x), InTime(x)
  PROVE  InTime(x)'
<1> USE DEF Types, memory, kernel, LiveStates, TerminalStates, Safe, GoneHoldsNothing,
            NoChildYet, Starting, HandlerHas, Launching, Governed, Observed, Running, Live, InTime,
            ActiveWhile, Unleashed, Released, OfAFormerDaemon, KilledFirst, Cancelled, GroupExists,
            StartsNoMore, NothingYet, NothingToEnd, Unpublished, CallsInOrder
<1>1. ASSUME NEW s \in Sessions, NEW r \in {"terminated", "failed"}, EventEnds(s, r) PROVE InTime(x)'
  BY <1>1 DEF EventEnds, Finish
<1>2. ASSUME NEW s \in Sessions, ThawsLeftover(s) PROVE InTime(x)'
  BY <1>2 DEF ThawsLeftover
<1>3. ASSUME NEW s \in Sessions, KillsLeftover(s) PROVE InTime(x)'
  BY <1>3 DEF KillsLeftover, KillAndRemove
<1>4. ASSUME NEW s \in Sessions, ShimCreates(s) PROVE InTime(x)'
  BY <1>4 DEF ShimCreates, Calls, Serving
<1>5. ASSUME NEW s \in Sessions, ShimAsks(s) PROVE InTime(x)'
  BY <1>5 DEF ShimAsks, Calls, Serving
<1>6. ASSUME NEW s \in Sessions, ShimStarts(s) PROVE InTime(x)'
  BY <1>6 DEF ShimStarts, Calls, Serving
<1>7. ASSUME NEW s \in Sessions, ShimEnds(s) PROVE InTime(x)'
  BY <1>7 DEF ShimEnds, Calls, Serving
<1>8. ASSUME NEW s \in Sessions, ShimHears(s) PROVE InTime(x)'
  BY <1>8 DEF ShimHears
<1>9. ASSUME NEW s \in Sessions, ShimLosesDaemon(s) PROVE InTime(x)'
  BY <1>9 DEF ShimLosesDaemon
<1>10. ASSUME NEW s \in Sessions, ShimDies(s) PROVE InTime(x)'
  BY <1>10 DEF ShimDies
<1>11. ASSUME NEW s \in Sessions, HeldExits(s) PROVE InTime(x)'
  BY <1>11 DEF HeldExits
<1>12. ASSUME NEW s \in Sessions, AgentRuns(s) PROVE InTime(x)'
  BY <1>12 DEF AgentRuns
<1>13. CASE TelemetryEnds BY <1>13 DEF TelemetryEnds
<1>14. CASE Stops BY <1>14 DEF Stops
<1>15. CASE Crashes BY <1>15 DEF Crashes, Vanish
<1>16. ASSUME NEW missed \in SUBSET Sessions, NEW stuck \in SUBSET Sessions, Restarts(missed, stuck)
       PROVE  InTime(x)'
  BY <1>16 DEF Restarts, Noted, Populated
<1> QED BY <1>1, <1>2, <1>3, <1>4, <1>5, <1>6, <1>7, <1>8, <1>9, <1>10, <1>11, <1>12, <1>13,
           <1>14, <1>15, <1>16 DEF Environment

InvInTime == Inv /\ \A s \in Sessions : InTime(s)

LEMMA InTimeAlways == SpecInTime => []InvInTime
<1>1. Init => InvInTime
  <2> SUFFICES ASSUME Init PROVE InvInTime
    OBVIOUS
  <2>1. \A s \in Sessions : InTime(s)
    BY DEF Init, InTime, ActiveWhile, Unleashed, Released, KilledFirst, GroupExists,
           StartsNoMore, NothingYet, NothingToEnd, Unpublished, CallsInOrder
  <2> QED BY <2>1, InitInv DEF InvInTime
<1>2. InvInTime /\ [Next /\ ~PublishesTooLate]_vars => InvInTime'
  <2> SUFFICES ASSUME InvInTime, [Next /\ ~PublishesTooLate]_vars PROVE InvInTime'
    OBVIOUS
  <2>1. Inv'
    BY InvStep DEF InvInTime
  <2>2. Types /\ \A x \in Sessions : Safe(x) /\ InTime(x)
    BY DEF InvInTime, Inv
  <2>3. CASE Environment
    BY <2>1, <2>2, <2>3, EnvironmentInTime DEF InvInTime
  <2>4. CASE LoopStep
    BY <2>1, <2>2, <2>4, LoopInTime DEF InvInTime
  <2>5. ASSUME NEW s \in Sessions, HandlerStep(s), ~PublishesTooLate PROVE InvInTime'
    BY <2>1, <2>2, <2>5, HandlerInTime DEF InvInTime
  <2>6. CASE UNCHANGED vars
    <3>1. \A x \in Sessions : InTime(x)'
      BY <2>2, <2>6 DEF vars, InTime, ActiveWhile, Unleashed, Released, OfAFormerDaemon, KilledFirst,
                        Cancelled, GroupExists, StartsNoMore, NothingYet, NothingToEnd, Unpublished,
                        CallsInOrder, Running, Live
    <3> QED BY <2>1, <3>1 DEF InvInTime
  <2> QED BY <2>3, <2>4, <2>5, <2>6 DEF Next
<1> QED BY <1>1, <1>2, PTL DEF SpecInTime

\* While a daemon runs, every agent and every descendant of one belongs to a session
\* that is recorded active or to one of a former daemon: finish leaves nothing of
\* what it ends (internal/daemon/daemon.go, finish; internal/daemon/rpc.go,
\* startSession), provided that while Run ends the sessions of a lost stream no
\* startSession publishes its cgroup between finish's look at info.group and the
\* manager's End.
AgentsHaveASession ==
  Running => \A s \in Sessions : Unleashed(s) => state[s] = "active" \/ OfAFormerDaemon(s)

THEOREM AgentsKeepTheirSession == SpecInTime => []AgentsHaveASession
<1>1. InvInTime => AgentsHaveASession
  BY DEF InvInTime, InTime, ActiveWhile, AgentsHaveASession
<1> QED BY <1>1, InTimeAlways, PTL

\* "Shutdown ends every live session as failed and kills its tree" (daemon.go): when
\* it has returned, nothing runs but what a former daemon left, whatever handlers
\* were under way: always after a signal alone, and after a lost stream with the same
\* proviso, which NoAgentLeftBehind's counterexample breaks.
ShutdownIsComplete ==
  daemon = "stopping" /\ at = "idle" /\ todo = {} =>
    \A s \in Sessions : Unleashed(s) => OfAFormerDaemon(s)

THEOREM ShutdownKillsAgents == SpecInTime => []ShutdownIsComplete
<1>1. InvInTime => ShutdownIsComplete
  BY DEF InvInTime, InTime, ActiveWhile, StartsNoMore, ShutdownIsComplete, Running
<1> QED BY <1>1, InTimeAlways, PTL

\* A daemon that no other preceded has no leftovers, and once it has exited nobody runs
\* or is about to be released.
OnlyDaemon ==
  /\ restarts = 0 /\ leftovers = {} /\ \A s \in Sessions : released[s] = "no"
  /\ daemon = "down" => \A s \in Sessions : ~Unleashed(s) /\ ~Released(s)

LEMMA HandlersNeedTheDaemon ==
  ASSUME NEW s \in Sessions, HandlerStep(s)
  PROVE  Running /\ UNCHANGED <<daemon, restarts, leftovers, released>>
BY DEF HandlerStep, Handler, memory, kernel, KillAndRemove, CreateCounts, CreateMakes, CreateRegisters,
       CreateSeals, Approve, Reject, StartChecks, StartMakesGroup, StartAdopts, StartPublishes, StartAttaches, StartActivates,
       StartUndoes, EndMarks, LoopAnswered

\* What is left when the daemon exits is not released by the shims.
LEMMA ShimsReleaseNobody ==
  ASSUME Types, daemon = "down", Environment,
         ~(\E missed, stuck \in SUBSET Sessions : Restarts(missed, stuck)), NEW x \in Sessions, ~Unleashed(x), ~Released(x)
  PROVE  daemon' = "down" /\ UNCHANGED <<restarts, leftovers, released>>
         /\ ~Unleashed(x)' /\ ~Released(x)'
<1> USE DEF Types, Unleashed, Released, memory, kernel, Serving
<1>1. ASSUME NEW s \in Sessions, ShimCreates(s) \/ ShimAsks(s) \/ ShimStarts(s) \/ ShimEnds(s)
      PROVE  /\ daemon' = "down" /\ UNCHANGED <<restarts, leftovers, released>>
             /\ ~Unleashed(x)' /\ ~Released(x)'
  BY <1>1 DEF ShimCreates, ShimAsks, ShimStarts, ShimEnds, Calls
<1>2. ASSUME NEW s \in Sessions, ShimHears(s)
      PROVE  /\ daemon' = "down" /\ UNCHANGED <<restarts, leftovers, released>>
             /\ ~Unleashed(x)' /\ ~Released(x)'
  BY <1>2 DEF ShimHears
<1>3. ASSUME NEW s \in Sessions, ShimLosesDaemon(s) \/ ShimDies(s) \/ HeldExits(s) \/ AgentRuns(s)
      PROVE  /\ daemon' = "down" /\ UNCHANGED <<restarts, leftovers, released>>
             /\ ~Unleashed(x)' /\ ~Released(x)'
  BY <1>3 DEF ShimLosesDaemon, ShimDies, HeldExits, AgentRuns
<1> QED
  BY <1>1, <1>2, <1>3 DEF Environment, EventEnds, ThawsLeftover, KillsLeftover, TelemetryEnds, Stops,
                          Crashes, Running

LEMMA OnlyDaemonStep ==
  ASSUME MaxRestarts = 0, Types, \A x \in Sessions : Safe(x) /\ InTime(x), OnlyDaemon, Next
  PROVE  OnlyDaemon'
<1>1. ASSUME NEW s \in Sessions, HandlerStep(s) PROVE OnlyDaemon'
  BY <1>1, HandlersNeedTheDaemon DEF OnlyDaemon, Running
<1>2. CASE LoopStep /\ ~Exits
  <2>1. Running /\ daemon' # "down" /\ UNCHANGED <<restarts, leftovers, released>>
    BY <1>2 DEF LoopStep, RunsAsked, Reaps, FinishKills, KillAndRemove, FinishEnds, FailAll,
                ShutdownLists, Running, kernel
  <2> QED BY <2>1 DEF OnlyDaemon
<1>3. CASE Exits
  <2>1. ASSUME NEW s \in Sessions PROVE ~Unleashed(s) /\ ~Released(s)
    BY <1>3 DEF Exits, OnlyDaemon, InTime, ActiveWhile, OfAFormerDaemon, StartsNoMore, Running
  <2>2. ASSUME NEW s \in Sessions PROVE ~Unleashed(s)' /\ ~Released(s)'
    BY <1>3, <2>1 DEF Exits, Vanish, kernel, Unleashed, Released, Types
  <2> QED BY <1>3, <2>2 DEF Exits, Vanish, kernel, OnlyDaemon
<1>4. CASE Environment
  <2>1. ~(\E missed, stuck \in SUBSET Sessions : Restarts(missed, stuck))
    BY DEF Restarts, OnlyDaemon
  <2>2. CASE daemon = "down"
    BY <1>4, <2>1, <2>2, ShimsReleaseNobody DEF OnlyDaemon, Types
  <2>3. CASE daemon # "down"
    <3>1. daemon' # "down" /\ leftovers' = {} /\ UNCHANGED <<restarts, released>>
      BY <1>4, <2>1, <2>3 DEF Environment, OnlyDaemon, EventEnds, ThawsLeftover, KillsLeftover,
         ShimCreates, ShimAsks, ShimStarts, ShimEnds, ShimHears, ShimLosesDaemon, ShimDies, HeldExits,
         AgentRuns, TelemetryEnds, Stops, Crashes, Vanish, memory, kernel
    <3> QED BY <3>1 DEF OnlyDaemon
  <2> QED BY <2>2, <2>3
<1> QED BY <1>1, <1>2, <1>3, <1>4 DEF Next

\* "An agent is never left running ungoverned or frozen when the daemon goes away"
\* (daemon.go, Shutdown), with the same proviso and for a daemon that no other preceded:
\* when it has exited no agent and no descendant of one runs, and the shims that outlive
\* it release none.
THEOREM NobodyIsLeftBehind == MaxRestarts = 0 => (SpecInTime => []NoAgentLeftBehind)
<1> SUFFICES ASSUME MaxRestarts = 0 PROVE SpecInTime => []NoAgentLeftBehind
  OBVIOUS
<1>1. Init => OnlyDaemon
  BY DEF Init, OnlyDaemon
<1>2. InvInTime /\ OnlyDaemon /\ [Next /\ ~PublishesTooLate]_vars => OnlyDaemon'
  <2>1. ASSUME InvInTime, OnlyDaemon, Next PROVE OnlyDaemon'
    BY <2>1, OnlyDaemonStep DEF InvInTime, Inv
  <2>2. ASSUME OnlyDaemon, UNCHANGED vars PROVE OnlyDaemon'
    BY <2>2 DEF OnlyDaemon, Unleashed, Released, vars
  <2> QED BY <2>1, <2>2
<1>3. OnlyDaemon => NoAgentLeftBehind
  BY DEF OnlyDaemon, Unleashed, NoAgentLeftBehind
<1> QED BY <1>1, <1>2, <1>3, InTimeAlways, PTL DEF SpecInTime
=============================================================================
