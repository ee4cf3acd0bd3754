--------------------------- MODULE SessionManager ---------------------------
(***************************************************************************)
(* The session lifecycle state machine: internal/session/manager.go.       *)
(*                                                                         *)
(* MemoryManager keeps one record per session and moves it through         *)
(*                                                                         *)
(*   pending -> awaiting_approval -> ready -> active <-> suspended -> end  *)
(*                                                                         *)
(* under one lock, so every operation is one atomic action here.  A call   *)
(* the code refuses (unknown session, illegal transition, inadmissible     *)
(* envelope, unnamed approver) changes nothing and is not a step.          *)
(*                                                                         *)
(* Suspend and Resume call the supervisor while the lock is held.  The     *)
(* supervisor is a cgroup freeze or thaw: a write followed by a bounded    *)
(* wait for the kernel to confirm it, so a call can fail with the write    *)
(* already in force ("late").                                              *)
(*                                                                         *)
(* A definition that stands directly before another one, with its          *)
(* parameters, is a defect of it that some property must notice; no        *)
(* specification uses it.                                                  *)
(***************************************************************************)
EXTENDS Integers, FiniteSets

CONSTANTS
  SessionIDs,       \* the envelope's session_id; ordered, as strings are in Go
  KeepEnded,        \* ManagerConfig.KeepEnded
  RequireApproval,  \* ManagerConfig.RequireApproval
  SupervisorFaults, \* which failures Freeze and Thaw may have: see Outcomes
  MaxClock          \* bound: the last clock reading the model distinguishes

ASSUME SessionIDsAreOrdered == SessionIDs \subseteq Nat
ASSUME SessionIDsFinite == IsFiniteSet(SessionIDs)
ASSUME KeepEndedPositive == KeepEnded \in Nat \ {0}
ASSUME RequireApprovalBoolean == RequireApproval \in BOOLEAN
ASSUME SupervisorFaultsKnown == SupervisorFaults \subseteq {"refused", "late"}
ASSUME MaxClockNatural == MaxClock \in Nat

VARIABLES
  sessions, \* the manager's map; a session it does not hold is NoSession
  frozen,   \* [SessionIDs -> BOOLEAN] what cgroup.freeze of the tree holds
  now       \* the manager's clock

vars == <<sessions, frozen, now>>

-----------------------------------------------------------------------------
LiveStates == {"pending", "awaiting_approval", "ready", "active", "suspended"}
TerminalStates == {"completed", "terminated", "failed"}

IsTerminal(st) == st \in TerminalStates

Outcomes == {"ok"} \cup SupervisorFaults

NoSession == [state |-> "absent", sealed |-> FALSE, approved |-> FALSE,
              rootPID |-> 0, endedAt |-> 0]

Session == [state : LiveStates \cup TerminalStates \cup {"absent"},
            sealed : BOOLEAN, approved : BOOLEAN,
            rootPID : Nat, endedAt : Nat]

\* The legal-transition table: the states an action may be taken from.
Allowed(action, from) ==
  from \in CASE action = "seal"    -> {"pending"}
             [] action = "approve" -> {"awaiting_approval"}
             [] action = "start"   -> {"ready"}
             [] action = "suspend" -> {"active"}
             [] action = "resume"  -> {"suspended"}
             [] action = "end"     -> LiveStates

\* Where Seal leaves the session: approval outstanding or not.
AfterSeal(approved) ==
  IF RequireApproval /\ ~approved THEN "awaiting_approval" ELSE "ready"

Ended(m) == {id \in DOMAIN m : IsTerminal(m[id].state)}

\* evictEnded's sort order: by end time, then by ID.
EndedBefore(m, a, b) ==
  \/ m[a].endedAt < m[b].endedAt
  \/ m[a].endedAt = m[b].endedAt /\ a < b

EvictedLiveToo(m) ==
  {id \in DOMAIN m : /\ m[id].state # "absent"
                     /\ Cardinality({b \in Ended(m) : b # id}) >= KeepEnded}

\* evictEnded: everything but the KeepEnded sessions that ended last.
Evicted(m) ==
  {id \in Ended(m) : Cardinality({b \in Ended(m) : EndedBefore(m, id, b)}) >= KeepEnded}

Forget(m, ids) == [id \in DOMAIN m |-> IF id \in ids THEN NoSession ELSE m[id]]

-----------------------------------------------------------------------------
Init ==
  /\ sessions = [id \in SessionIDs |-> NoSession]
  /\ frozen = [id \in SessionIDs |-> FALSE]
  /\ now = 0

NewSession(preApproved) ==
  [state |-> "pending", sealed |-> FALSE, approved |-> preApproved,
   rootPID |-> 0, endedAt |-> 0]

\* Create(req): refused when the ID is already held.  The envelope may carry an
\* approval given out of band.
Create(id, preApproved) ==
  /\ sessions[id].state = "absent"
  /\ sessions' = [sessions EXCEPT ![id] = NewSession(preApproved)]
  /\ frozen' = [frozen EXCEPT ![id] = FALSE]
  /\ UNCHANGED now

\* Seal(sid): the envelope is linted first, then sealed.
Seal(id, admissible) ==
  /\ Allowed("seal", sessions[id].state)
  /\ admissible
  /\ sessions' = [sessions EXCEPT ![id].sealed = TRUE,
                                  ![id].state = AfterSeal(sessions[id].approved)]
  /\ UNCHANGED <<frozen, now>>

\* Approve(sid, record): the record must name who gave it.
Approve(id, named) ==
  /\ Allowed("approve", sessions[id].state)
  /\ named
  /\ sessions' = [sessions EXCEPT ![id].approved = TRUE, ![id].state = "ready"]
  /\ UNCHANGED <<frozen, now>>

\* Start(sid, rootPID).
Start(id, pid) ==
  /\ Allowed("start", sessions[id].state)
  /\ pid > 0
  /\ sessions[id].sealed
  /\ sessions' = [sessions EXCEPT ![id].rootPID = pid, ![id].state = "active"]
  /\ UNCHANGED <<frozen, now>>

SuperviseStateFirst(id, outcome, freeze, target) ==
  /\ frozen' = [frozen EXCEPT ![id] = IF outcome = "refused" THEN @ ELSE freeze]
  /\ sessions' = [sessions EXCEPT ![id].state = target]

\* Supervisor.Suspend and Supervisor.Resume: the write takes effect unless the
\* kernel refused it; only a confirmed one lets the state move.
Supervise(id, outcome, freeze, target) ==
  /\ frozen' = [frozen EXCEPT ![id] = IF outcome = "refused" THEN @ ELSE freeze]
  /\ sessions' = [sessions EXCEPT ![id].state = IF outcome = "ok" THEN target ELSE @]

Suspend(id, outcome) ==
  /\ Allowed("suspend", sessions[id].state)
  /\ Supervise(id, outcome, TRUE, "suspended")
  /\ UNCHANGED now

Resume(id, outcome) ==
  /\ Allowed("resume", sessions[id].state)
  /\ Supervise(id, outcome, FALSE, "active")
  /\ UNCHANGED now

EndKeepsEmptyResult(id, result) ==
  LET ended == [sessions EXCEPT ![id].state = result, ![id].endedAt = now]
  IN  /\ IsTerminal(result) \/ result = "unset"
      /\ Allowed("end", sessions[id].state)
      /\ sessions' = Forget(ended, Evicted(ended))
      /\ UNCHANGED <<frozen, now>>

\* End(sid, outcome): a result left empty ("unset") means completed; a result that
\* is not a terminal state is refused.  The sessions past KeepEnded are forgotten
\* in the same critical section.
End(id, result) ==
  LET final == IF result = "unset" THEN "completed" ELSE result
      ended == [sessions EXCEPT ![id].state = final, ![id].endedAt = now]
  IN  /\ IsTerminal(final)
      /\ Allowed("end", sessions[id].state)
      /\ sessions' = Forget(ended, Evicted(ended))
      /\ UNCHANGED <<frozen, now>>

Tick ==
  /\ now < MaxClock
  /\ now' = now + 1
  /\ UNCHANGED <<sessions, frozen>>

Next ==
  \/ \E id \in SessionIDs :
       \/ \E b \in BOOLEAN : Create(id, b) \/ Seal(id, b) \/ Approve(id, b)
       \/ \E pid \in {0, 1} : Start(id, pid)
       \/ \E o \in Outcomes : Suspend(id, o) \/ Resume(id, o)
       \/ \E r \in TerminalStates \cup {"unset", "active"} : End(id, r)
  \/ Tick

Spec == Init /\ [][Next]_vars

-----------------------------------------------------------------------------
\* Type correctness of the manager's map and of the freeze flags.
TypeOK ==
  /\ sessions \in [SessionIDs -> Session]
  /\ frozen \in [SessionIDs -> BOOLEAN]
  /\ now \in Nat

\* No agent runs under an envelope that was not sealed, or that nobody approved
\* while approval is required: Start is reachable only through Seal and, when
\* RequireApproval is set, an approval that the envelope carries.
NoUnapprovedRun ==
  \A id \in SessionIDs :
    sessions[id].state \in {"ready", "active", "suspended"} =>
      /\ sessions[id].sealed
      /\ RequireApproval => sessions[id].approved

\* The sessions that ended at the present reading and sort after id.
TiedAfter(id) == {b \in SessionIDs : /\ IsTerminal(sessions[b].state)
                                     /\ sessions[b].endedAt = now
                                     /\ id < b}

\* A running session is never forgotten because another one ended: eviction
\* takes ended sessions only.  A live session is gone after a step only if it is
\* the one the step ends (every other live session stays as it was), and only if
\* KeepEnded sessions with a greater ID had all ended at that same reading:
\* evictEnded breaks the tie by ID, and the session that just ended goes.
LiveNeverForgotten ==
  [][\A id \in SessionIDs :
       sessions[id].state \in LiveStates /\ sessions'[id].state = "absent" =>
         /\ \A x \in SessionIDs \ {id} :
              sessions[x].state \in LiveStates => sessions'[x] = sessions[x]
         /\ Cardinality(TiedAfter(id)) >= KeepEnded]_vars

\* The recorded state and the tree agree: a session recorded active is not
\* stopped, and one recorded suspended is.  Suspend and Resume promise this by
\* moving the state only after the supervisor succeeded.
StateMatchesTree ==
  \A id \in SessionIDs :
    /\ sessions[id].state = "active" => ~frozen[id]
    /\ sessions[id].state = "suspended" => frozen[id]

\* An ended session keeps its result until it is forgotten: no late Resume,
\* Start or second End rewrites it.
TerminalIsFinal ==
  [][\A id \in SessionIDs :
       IsTerminal(sessions[id].state) =>
         sessions'[id] \in {sessions[id], NoSession}]_vars

\* The ended sessions a manager holds stay bounded, so a long-lived daemon's
\* memory does not grow with every session it ran.
EndedBounded == Cardinality(Ended(sessions)) <= KeepEnded

\* When a session that this step leaves forgotten ended: before it, or now.
EndOf(id) == IF IsTerminal(sessions[id].state) THEN sessions[id].endedAt ELSE now

\* Eviction forgets those that ended first: a session this step forgets, the one
\* it ends included, ended no later than any ended session the step keeps.
EvictsOldestFirst ==
  [][\A a, b \in SessionIDs :
       /\ sessions[a].state # "absent" /\ sessions'[a].state = "absent"
       /\ IsTerminal(sessions'[b].state)
       => EndOf(a) <= sessions'[b].endedAt]_vars
=============================================================================
