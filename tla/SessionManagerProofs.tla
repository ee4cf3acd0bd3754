------------------------ MODULE SessionManagerProofs ------------------------
(***************************************************************************)
(* What SessionManager promises for every set of sessions, every KeepEnded *)
(* and both approval postures.                                             *)
(*                                                                         *)
(* The inductive invariant Inv adds to NoUnapprovedRun what Approve needs  *)
(* (a session awaiting approval is sealed), and to the eviction properties *)
(* what evictEnded needs (no session ended after the clock's reading).     *)
(***************************************************************************)
EXTENDS SessionManager, FiniteSetTheorems, WellFoundedInduction, TLAPS

Gated ==
  \A id \in SessionIDs :
    sessions[id].state \in {"awaiting_approval", "ready", "active", "suspended"} =>
      /\ sessions[id].sealed
      /\ RequireApproval /\ sessions[id].state # "awaiting_approval" => sessions[id].approved

EndsArePast == \A id \in SessionIDs : sessions[id].endedAt \in 0..now

Inv == TypeOK /\ Gated /\ EndsArePast

\* What a session the manager does not hold looks like, and that whatever it
\* forgets, Forget leaves a well-typed map.
LEMMA ForgottenFields == NoSession.state = "absent" /\ NoSession.endedAt = 0
  BY DEF NoSession

\* Forgetting sessions keeps the map a map of sessions.
LEMMA ForgetType ==
  ASSUME NEW m \in [SessionIDs -> Session], NEW ids
  PROVE  Forget(m, ids) \in [SessionIDs -> Session]
  BY DEF Forget, NoSession, Session, LiveStates, TerminalStates

\* A session moved to a live state is still a session.
LEMMA MovedType ==
  ASSUME NEW m \in [SessionIDs -> Session], NEW id \in SessionIDs, NEW s \in LiveStates
  PROVE  [m EXCEPT ![id].state = s] \in [SessionIDs -> Session]
<1>1. [m[id] EXCEPT !.state = s] \in Session
  BY DEF Session
<1> QED
  BY ONLY <1>1, m \in [SessionIDs -> Session]

\* A handler leaves a well-typed map, keeps sessions gated, and the clock ahead.
LEMMA InitInv == Init => Inv
  BY MaxClockNatural
  DEF Init, Inv, TypeOK, Gated, EndsArePast, NoSession, Session, LiveStates, TerminalStates

\* Create keeps the invariant: a new session is pending.
LEMMA CreateInv ==
  ASSUME Inv, NEW id \in SessionIDs, NEW b \in BOOLEAN, Create(id, b)
  PROVE  Inv'
<1>1. TypeOK'
  BY DEF Create, NewSession, Inv, TypeOK, Session, LiveStates
<1>2. Gated' /\ EndsArePast'
  BY DEF Create, NewSession, Inv, TypeOK, Gated, EndsArePast
<1> QED
  BY <1>1, <1>2 DEF Inv

\* Seal keeps the invariant: it seals, and leads to ready only with an approval
\* or where none is required.
LEMMA SealInv ==
  ASSUME Inv, NEW id \in SessionIDs, NEW b \in BOOLEAN, Seal(id, b)
  PROVE  Inv'
<1>1. TypeOK'
  <2> PICK m : m = [sessions EXCEPT ![id].sealed = TRUE]
    OBVIOUS
  <2>1. m \in [SessionIDs -> Session]
    BY DEF Inv, TypeOK, Session
  <2>2. PICK s \in LiveStates : sessions' = [m EXCEPT ![id].state = s]
    BY DEF Seal, AfterSeal, LiveStates
  <2>3. sessions' \in [SessionIDs -> Session]
    BY ONLY <2>1, <2>2, MovedType
  <2> QED
    BY <2>3 DEF Seal, Inv, TypeOK
<1>2. Gated'
  BY DEF Seal, AfterSeal, Inv, TypeOK, Gated, Session
<1>3. EndsArePast'
  BY DEF Seal, Inv, TypeOK, EndsArePast, Session
<1> QED
  BY <1>1, <1>2, <1>3 DEF Inv

\* Approve keeps the invariant: the session it makes ready was sealed before.
LEMMA ApproveInv ==
  ASSUME Inv, NEW id \in SessionIDs, NEW b \in BOOLEAN, Approve(id, b)
  PROVE  Inv'
<1>1. TypeOK'
  BY DEF Approve, Allowed, Inv, TypeOK, Session, LiveStates
<1>2. Gated'
  BY DEF Approve, Allowed, Inv, TypeOK, Gated, Session
<1>3. EndsArePast'
  BY DEF Approve, Inv, TypeOK, EndsArePast, Session
<1> QED
  BY <1>1, <1>2, <1>3 DEF Inv

\* Start keeps the invariant: the session was ready.
LEMMA StartInv ==
  ASSUME Inv, NEW id \in SessionIDs, NEW pid \in {0, 1}, Start(id, pid)
  PROVE  Inv'
<1>1. TypeOK'
  BY DEF Start, Allowed, Inv, TypeOK, Session, LiveStates
<1>2. Gated'
  BY DEF Start, Allowed, Inv, TypeOK, Gated, Session
<1>3. EndsArePast'
  BY DEF Start, Inv, TypeOK, EndsArePast, Session
<1> QED
  BY <1>1, <1>2, <1>3 DEF Inv

\* Suspend keeps the invariant: it moves an active session only.
LEMMA SuspendInv ==
  ASSUME Inv, NEW id \in SessionIDs, NEW o \in Outcomes, Suspend(id, o)
  PROVE  Inv'
<1>1. TypeOK'
  <2>1. frozen' \in [SessionIDs -> BOOLEAN] /\ now' \in Nat
    BY DEF Suspend, Supervise, Inv, TypeOK
  <2>2. CASE o = "ok"
    <3>1. "suspended" \in LiveStates
      BY DEF LiveStates
    <3>2. sessions' = [sessions EXCEPT ![id].state = "suspended"]
      BY <2>2 DEF Suspend, Supervise
    <3> QED
      BY <2>1, <3>1, <3>2, MovedType DEF Inv, TypeOK
  <2>3. CASE o # "ok"
    <3>1. sessions' = [sessions EXCEPT ![id].state = @]
      BY <2>3 DEF Suspend, Supervise
    <3>2. sessions' = sessions
      BY <3>1 DEF Inv, TypeOK, Session
    <3> QED
      BY <2>1, <3>2 DEF Inv, TypeOK
  <2> QED
    BY <2>2, <2>3
<1>2. Gated'
  BY DEF Suspend, Supervise, Allowed, Inv, TypeOK, Gated, Session
<1>3. EndsArePast'
  BY DEF Suspend, Supervise, Inv, TypeOK, EndsArePast, Session
<1> QED
  BY <1>1, <1>2, <1>3 DEF Inv

\* Resume keeps the invariant: it moves a suspended session only.
LEMMA ResumeInv ==
  ASSUME Inv, NEW id \in SessionIDs, NEW o \in Outcomes, Resume(id, o)
  PROVE  Inv'
<1>1. TypeOK'
  <2>1. frozen' \in [SessionIDs -> BOOLEAN] /\ now' \in Nat
    BY DEF Resume, Supervise, Inv, TypeOK
  <2>2. CASE o = "ok"
    <3>1. "active" \in LiveStates
      BY DEF LiveStates
    <3>2. sessions' = [sessions EXCEPT ![id].state = "active"]
      BY <2>2 DEF Resume, Supervise
    <3> QED
      BY <2>1, <3>1, <3>2, MovedType DEF Inv, TypeOK
  <2>3. CASE o # "ok"
    <3>1. sessions' = [sessions EXCEPT ![id].state = @]
      BY <2>3 DEF Resume, Supervise
    <3>2. sessions' = sessions
      BY <3>1 DEF Inv, TypeOK, Session
    <3> QED
      BY <2>1, <3>2 DEF Inv, TypeOK
  <2> QED
    BY <2>2, <2>3
<1>2. Gated'
  BY DEF Resume, Supervise, Allowed, Inv, TypeOK, Gated, Session
<1>3. EndsArePast'
  BY DEF Resume, Supervise, Inv, TypeOK, EndsArePast, Session
<1> QED
  BY <1>1, <1>2, <1>3 DEF Inv

\* What End computes before it forgets anybody.
Ending(id, final) == [sessions EXCEPT ![id].state = final, ![id].endedAt = now]

\* A session given a terminal state and an end time is still a session.
LEMMA EndingType ==
  ASSUME Inv, NEW id \in SessionIDs, NEW final \in TerminalStates
  PROVE  /\ Ending(id, final) \in [SessionIDs -> Session]
         /\ Ending(id, final)[id].state = final
         /\ Ending(id, final)[id].endedAt = now
         /\ \A b \in SessionIDs \ {id} : Ending(id, final)[b] = sessions[b]
  BY DEF Ending, Inv, TypeOK, Session

\* An End that is a step ends the session in a terminal state and forgets those
\* that evictEnded chose.
LEMMA EndStep ==
  ASSUME Inv, NEW id \in SessionIDs,
         NEW r \in TerminalStates \cup {"unset", "active"}, End(id, r)
  PROVE  /\ sessions[id].state \in LiveStates
         /\ frozen' = frozen /\ now' = now
         /\ \E final \in TerminalStates :
              sessions' = Forget(Ending(id, final), Evicted(Ending(id, final)))
<1> DEFINE final == IF r = "unset" THEN "completed" ELSE r
<1>1. final \in TerminalStates
  BY DEF End, IsTerminal
<1>2. sessions' = Forget(Ending(id, final), Evicted(Ending(id, final)))
  BY DEF End, Ending
<1>3. sessions[id].state \in LiveStates
  BY DEF End, Allowed
<1> HIDE DEF final
<1> QED
  BY <1>1, <1>2, <1>3 DEF End

\* End keeps the invariant: what it leaves is ended or forgotten.
LEMMA EndInv ==
  ASSUME Inv, NEW id \in SessionIDs,
         NEW r \in TerminalStates \cup {"unset", "active"}, End(id, r)
  PROVE  Inv'
<1>1. PICK final \in TerminalStates :
        sessions' = Forget(Ending(id, final), Evicted(Ending(id, final)))
  BY EndStep
<1>2. frozen' = frozen /\ now' = now
  BY EndStep
<1> DEFINE m == Ending(id, final)
<1>3. /\ m \in [SessionIDs -> Session]
      /\ m[id].state = final
      /\ m[id].endedAt = now
      /\ \A b \in SessionIDs \ {id} : m[b] = sessions[b]
  BY EndingType
<1> HIDE DEF m
<1>4. \A x \in SessionIDs : sessions'[x] = m[x] \/ sessions'[x] = NoSession
  BY <1>1, <1>3 DEF m, Forget
<1>5. TypeOK'
  BY <1>1, <1>2, <1>3, ForgetType DEF m, Inv, TypeOK
<1>6. Gated'
  <2> SUFFICES ASSUME NEW x \in SessionIDs,
                      sessions'[x].state \in {"awaiting_approval", "ready", "active", "suspended"}
               PROVE  /\ sessions'[x].sealed
                      /\ RequireApproval /\ sessions'[x].state # "awaiting_approval"
                           => sessions'[x].approved
    BY DEF Gated
  <2>1. sessions'[x] = m[x]
    BY <1>4, ForgottenFields
  <2>2. x # id
    BY <2>1, <1>3 DEF TerminalStates
  <2> QED
    BY <2>1, <2>2, <1>3 DEF Inv, Gated
<1>7. EndsArePast'
  <2> SUFFICES ASSUME NEW x \in SessionIDs PROVE sessions'[x].endedAt \in 0..now
    BY <1>2 DEF EndsArePast
  <2>1. 0 \in 0..now /\ now \in 0..now
    BY DEF Inv, TypeOK
  <2>2. CASE sessions'[x] = NoSession
    BY <2>1, <2>2, ForgottenFields
  <2>3. CASE sessions'[x] = m[x] /\ x = id
    BY <2>1, <2>3, <1>3
  <2>4. CASE sessions'[x] = m[x] /\ x # id
    BY <2>4, <1>3 DEF Inv, EndsArePast
  <2> QED
    BY <1>4, <2>2, <2>3, <2>4
<1> QED
  BY <1>5, <1>6, <1>7 DEF Inv

\* The clock touches no session.
LEMMA TickInv == ASSUME Inv, Tick PROVE Inv'
  BY DEF Tick, Inv, TypeOK, Gated, EndsArePast, Session

\* Every step keeps Inv: one lemma per operation.
LEMMA NextInv == Inv /\ [Next]_vars => Inv'
<1> SUFFICES ASSUME Inv, [Next]_vars PROVE Inv'
  OBVIOUS
<1>1. CASE UNCHANGED vars
  BY <1>1 DEF vars, Inv, TypeOK, Gated, EndsArePast
<1>2. CASE Tick
  BY <1>2, TickInv
<1>3. ASSUME NEW id \in SessionIDs, NEW b \in BOOLEAN,
             Create(id, b) \/ Seal(id, b) \/ Approve(id, b)
      PROVE  Inv'
  BY <1>3, CreateInv, SealInv, ApproveInv
<1>4. ASSUME NEW id \in SessionIDs, NEW pid \in {0, 1}, Start(id, pid)
      PROVE  Inv'
  BY <1>4, StartInv
<1>5. ASSUME NEW id \in SessionIDs, NEW o \in Outcomes, Suspend(id, o) \/ Resume(id, o)
      PROVE  Inv'
  BY <1>5, SuspendInv, ResumeInv
<1>6. ASSUME NEW id \in SessionIDs, NEW r \in TerminalStates \cup {"unset", "active"},
             End(id, r)
      PROVE  Inv'
  BY <1>6, EndInv
<1> QED
  BY <1>1, <1>2, <1>3, <1>4, <1>5, <1>6 DEF Next

\* Inv holds in every state of every behaviour of the manager.
THEOREM InvHolds == Spec => []Inv
  BY InitInv, NextInv, PTL DEF Spec

\* The manager's map keeps its type: every session it holds is one of the eight
\* lifecycle states, whatever calls arrive in whatever order.
THEOREM TypeCorrect == Spec => []TypeOK
<1>1. Inv => TypeOK
  BY DEF Inv
<1> QED
  BY <1>1, InvHolds, PTL

\* No agent runs under an envelope that was not sealed, or not approved while
\* approval is required (Seal, Approve, Start).
THEOREM UnapprovedNeverRuns == Spec => []NoUnapprovedRun
<1>1. Inv => NoUnapprovedRun
  BY DEF Inv, Gated, NoUnapprovedRun
<1> QED
  BY <1>1, InvHolds, PTL

-----------------------------------------------------------------------------
(***************************************************************************)
(* Ended sessions: End is the only operation that touches a session in a   *)
(* terminal state, and only by forgetting it.                              *)
(***************************************************************************)

\* Every operation but End leaves terminal sessions alone, adds none, and forgets
\* nobody.
LEMMA OthersKeepTerminal ==
  ASSUME Inv, NEW a \in SessionIDs, NEW id \in SessionIDs, NEW b \in BOOLEAN,
         NEW pid \in {0, 1}, NEW o \in Outcomes,
         \/ Create(id, b) \/ Seal(id, b) \/ Approve(id, b) \/ Start(id, pid)
         \/ Suspend(id, o) \/ Resume(id, o)
  PROVE  /\ IsTerminal(sessions[a].state) => sessions'[a] = sessions[a]
         /\ IsTerminal(sessions'[a].state) => IsTerminal(sessions[a].state)
         /\ sessions'[a].state = "absent" => sessions[a].state = "absent"
<1> USE DEF Inv, TypeOK
<1>1. CASE Create(id, b)
  BY <1>1 DEF Create, NewSession, IsTerminal, TerminalStates
<1>2. CASE Seal(id, b)
  BY <1>2 DEF Seal, AfterSeal, Allowed, IsTerminal, TerminalStates, Session
<1>3. CASE Approve(id, b)
  BY <1>3 DEF Approve, Allowed, IsTerminal, TerminalStates, Session
<1>4. CASE Start(id, pid)
  BY <1>4 DEF Start, Allowed, IsTerminal, TerminalStates, Session
<1>5. CASE Suspend(id, o)
  BY <1>5 DEF Suspend, Supervise, Allowed, IsTerminal, TerminalStates, Session
<1>6. CASE Resume(id, o)
  BY <1>6 DEF Resume, Supervise, Allowed, IsTerminal, TerminalStates, Session
<1> QED
  BY <1>1, <1>2, <1>3, <1>4, <1>5, <1>6

\* The shape of a step, for an action property: it ends a session, or it leaves
\* every terminal session as it is, adds none and forgets nobody.
LEMMA StepKinds ==
  ASSUME Inv, [Next]_vars
  PROVE  \/ \E id \in SessionIDs, r \in TerminalStates \cup {"unset", "active"} : End(id, r)
         \/ \A a \in SessionIDs :
              /\ IsTerminal(sessions[a].state) => sessions'[a] = sessions[a]
              /\ IsTerminal(sessions'[a].state) => IsTerminal(sessions[a].state)
              /\ sessions'[a].state = "absent" => sessions[a].state = "absent"
<1>1. CASE UNCHANGED vars \/ Tick
  BY <1>1 DEF vars, Tick
<1>2. CASE \E id \in SessionIDs, r \in TerminalStates \cup {"unset", "active"} : End(id, r)
  BY <1>2
<1>3. CASE \E id \in SessionIDs, b \in BOOLEAN : Create(id, b) \/ Seal(id, b) \/ Approve(id, b)
  <2>1. TRUE \in BOOLEAN /\ 1 \in {0, 1} /\ "ok" \in Outcomes
    BY DEF Outcomes
  <2> QED
    BY <1>3, <2>1, OthersKeepTerminal
<1>4. CASE \E id \in SessionIDs, pid \in {0, 1} : Start(id, pid)
  <2>1. TRUE \in BOOLEAN /\ "ok" \in Outcomes
    BY DEF Outcomes
  <2> QED
    BY <1>4, <2>1, OthersKeepTerminal
<1>5. CASE \E id \in SessionIDs, o \in Outcomes : Suspend(id, o) \/ Resume(id, o)
  BY <1>5, OthersKeepTerminal
<1> QED
  BY <1>1, <1>2, <1>3, <1>4, <1>5 DEF Next

\* The property as a predicate of one step.
FinalStep ==
  \A id \in SessionIDs :
    IsTerminal(sessions[id].state) => sessions'[id] \in {sessions[id], NoSession}

\* Every step keeps an ended session or forgets it.
LEMMA FinalStepHolds == Inv /\ [Next]_vars => FinalStep
<1> SUFFICES ASSUME Inv, [Next]_vars, NEW a \in SessionIDs, IsTerminal(sessions[a].state)
             PROVE  sessions'[a] \in {sessions[a], NoSession}
  BY DEF FinalStep
<1>1. CASE \E id \in SessionIDs, r \in TerminalStates \cup {"unset", "active"} : End(id, r)
  <2>1. PICK id \in SessionIDs, r \in TerminalStates \cup {"unset", "active"} : End(id, r)
    BY <1>1
  <2>2. a # id
    BY <2>1, EndStep DEF IsTerminal, LiveStates, TerminalStates
  <2>3. PICK final \in TerminalStates :
          sessions' = Forget(Ending(id, final), Evicted(Ending(id, final)))
    BY <2>1, EndStep
  <2>4. Ending(id, final)[a] = sessions[a] /\ Ending(id, final) \in [SessionIDs -> Session]
    BY <2>2, EndingType
  <2> QED
    BY <2>3, <2>4 DEF Forget
<1> QED
  BY <1>1, StepKinds

\* An ended session keeps its result until it is forgotten (the transition table
\* and evictEnded together).
THEOREM TerminalStaysFinal == Spec => TerminalIsFinal
<1>1. Inv /\ [Next]_vars => FinalStep
  BY FinalStepHolds
<1> QED
  BY <1>1, InvHolds, PTL DEF Spec, TerminalIsFinal, FinalStep

-----------------------------------------------------------------------------
(***************************************************************************)
(* Eviction.                                                               *)
(***************************************************************************)

\* The ended sessions that ended after x: what evictEnded counts.
After(m, x) == {c \in Ended(m) : EndedBefore(m, x, c)}

\* The ended sessions that end after a given one are finitely many.
LEMMA AfterFinite ==
  ASSUME NEW m \in [SessionIDs -> Session], NEW x
  PROVE  IsFiniteSet(After(m, x)) /\ Cardinality(After(m, x)) \in Nat
<1>1. After(m, x) \subseteq SessionIDs
  BY DEF After, Ended
<1> QED
  BY <1>1, SessionIDsFinite, FS_Subset, FS_CardinalityType

\* evictEnded's cut respects its order: who is evicted ended no later than who
\* is kept.
LEMMA EvictedFirst ==
  ASSUME NEW m \in [SessionIDs -> Session],
         NEW a \in Evicted(m), NEW b \in Ended(m), b \notin Evicted(m)
  PROVE  m[a].endedAt <= m[b].endedAt
<1>1. a \in SessionIDs /\ b \in SessionIDs /\ a \in Ended(m)
  BY DEF Evicted, Ended
<1>2. m[a].endedAt \in Nat /\ m[b].endedAt \in Nat
  BY <1>1 DEF Session
<1>3. Cardinality(After(m, a)) >= KeepEnded /\ ~(Cardinality(After(m, b)) >= KeepEnded)
  BY DEF Evicted, After
<1> SUFFICES ASSUME m[b].endedAt < m[a].endedAt PROVE FALSE
  BY <1>2
<1>4. After(m, a) \subseteq After(m, b)
  <2> SUFFICES ASSUME NEW c \in After(m, a) PROVE c \in After(m, b)
    OBVIOUS
  <2>1. c \in Ended(m) /\ c \in SessionIDs /\ EndedBefore(m, a, c)
    BY DEF After, Ended
  <2>2. m[c].endedAt \in Nat
    BY <2>1 DEF Session
  <2>3. m[b].endedAt < m[c].endedAt
    BY <1>2, <2>1, <2>2 DEF EndedBefore
  <2> QED
    BY <2>1, <2>3 DEF After, EndedBefore
<1>5. Cardinality(After(m, a)) <= Cardinality(After(m, b))
  BY <1>4, AfterFinite, FS_Subset
<1>6. /\ Cardinality(After(m, a)) \in Nat
      /\ Cardinality(After(m, b)) \in Nat
      /\ KeepEnded \in Nat
  BY AfterFinite, KeepEndedPositive
<1> QED
  BY <1>3, <1>5, <1>6

\* What a step that forgets a session has done.
LEMMA ForgettingStep ==
  ASSUME Inv, [Next]_vars, NEW a \in SessionIDs,
         sessions[a].state # "absent", sessions'[a].state = "absent"
  PROVE  \E id \in SessionIDs, final \in TerminalStates :
           /\ sessions[id].state \in LiveStates
           /\ sessions' = Forget(Ending(id, final), Evicted(Ending(id, final)))
           /\ a \in Evicted(Ending(id, final))
<1>1. PICK id \in SessionIDs, r \in TerminalStates \cup {"unset", "active"} : End(id, r)
  BY StepKinds
<1>2. sessions[id].state \in LiveStates
  BY <1>1, EndStep
<1>3. PICK final \in TerminalStates :
        sessions' = Forget(Ending(id, final), Evicted(Ending(id, final)))
  BY <1>1, EndStep
<1>4. Ending(id, final)[a].state # "absent" /\ Ending(id, final) \in [SessionIDs -> Session]
  BY EndingType DEF TerminalStates
<1>5. a \in Evicted(Ending(id, final))
  BY <1>3, <1>4 DEF Forget
<1> QED
  BY <1>2, <1>3, <1>5

OldestFirstStep ==
  \A a, b \in SessionIDs :
    /\ sessions[a].state # "absent" /\ sessions'[a].state = "absent"
    /\ IsTerminal(sessions'[b].state)
    => EndOf(a) <= sessions'[b].endedAt

\* Every step that forgets a session forgets one that ended no later than those
\* it keeps.
LEMMA OldestFirstStepHolds == Inv /\ [Next]_vars => OldestFirstStep
<1> SUFFICES ASSUME Inv, [Next]_vars, NEW a \in SessionIDs, NEW b \in SessionIDs,
                    sessions[a].state # "absent", sessions'[a].state = "absent",
                    IsTerminal(sessions'[b].state)
             PROVE  EndOf(a) <= sessions'[b].endedAt
  BY DEF OldestFirstStep
<1>1. PICK id \in SessionIDs, final \in TerminalStates :
        /\ sessions[id].state \in LiveStates
        /\ sessions' = Forget(Ending(id, final), Evicted(Ending(id, final)))
        /\ a \in Evicted(Ending(id, final))
  BY ForgettingStep
<1> DEFINE m == Ending(id, final)
<1>2. /\ m \in [SessionIDs -> Session]
      /\ m[id].endedAt = now
      /\ \A x \in SessionIDs \ {id} : m[x] = sessions[x]
  BY EndingType
<1> HIDE DEF m
<1>3. sessions' = Forget(m, Evicted(m)) /\ a \in Evicted(m)
  BY <1>1 DEF m
<1>4. b \notin Evicted(m) /\ sessions'[b] = m[b] /\ b \in Ended(m)
  <2>1. b \notin Evicted(m)
    BY <1>2, <1>3, ForgottenFields DEF Forget, IsTerminal, TerminalStates
  <2>2. sessions'[b] = m[b]
    BY <1>2, <1>3, <2>1 DEF Forget
  <2> QED
    BY <1>2, <2>1, <2>2 DEF Ended
<1>5. m[a].endedAt = EndOf(a)
  <2>1. CASE a = id
    BY <1>1, <1>2, <2>1 DEF EndOf, IsTerminal, LiveStates, TerminalStates
  <2>2. CASE a # id
    BY <1>2, <1>3, <2>2 DEF EndOf, Evicted, Ended
  <2> QED
    BY <2>1, <2>2
<1> QED
  BY <1>2, <1>3, <1>4, <1>5, EvictedFirst

\* Eviction forgets those that ended first, for any number of sessions and any
\* KeepEnded (evictEnded's sort and its cut).
THEOREM EvictionIsOldestFirst == Spec => EvictsOldestFirst
<1>1. Inv /\ [Next]_vars => OldestFirstStep
  BY OldestFirstStepHolds
<1> QED
  BY <1>1, InvHolds, PTL DEF Spec, EvictsOldestFirst, OldestFirstStep

LiveStep ==
  \A id \in SessionIDs :
    sessions[id].state \in LiveStates /\ sessions'[id].state = "absent" =>
      /\ \A x \in SessionIDs \ {id} :
           sessions[x].state \in LiveStates => sessions'[x] = sessions[x]
      /\ Cardinality(TiedAfter(id)) >= KeepEnded

\* Every step that forgets a live session ends that session, leaves every other
\* live one alone, and finds KeepEnded sessions that ended at the same reading.
LEMMA LiveStepHolds == Inv /\ [Next]_vars => LiveStep
<1> SUFFICES ASSUME Inv, [Next]_vars, NEW a \in SessionIDs,
                    sessions[a].state \in LiveStates, sessions'[a].state = "absent"
             PROVE  /\ \A x \in SessionIDs \ {a} :
                         sessions[x].state \in LiveStates => sessions'[x] = sessions[x]
                    /\ Cardinality(TiedAfter(a)) >= KeepEnded
  BY DEF LiveStep
<1>0. sessions[a].state # "absent"
  BY DEF LiveStates
<1>1. PICK id \in SessionIDs, final \in TerminalStates :
        /\ sessions[id].state \in LiveStates
        /\ sessions' = Forget(Ending(id, final), Evicted(Ending(id, final)))
        /\ a \in Evicted(Ending(id, final))
  BY <1>0, ForgettingStep
<1> DEFINE m == Ending(id, final)
<1>2. /\ m \in [SessionIDs -> Session]
      /\ m[id].endedAt = now
      /\ \A x \in SessionIDs \ {id} : m[x] = sessions[x]
  BY EndingType
<1> HIDE DEF m
<1>3. a \in Evicted(m) /\ sessions' = Forget(m, Evicted(m))
  BY <1>1 DEF m
<1>4. a = id
  BY <1>2, <1>3 DEF Evicted, Ended, IsTerminal, LiveStates, TerminalStates
<1>5. ASSUME NEW x \in SessionIDs \ {a}, sessions[x].state \in LiveStates
      PROVE  sessions'[x] = sessions[x]
  <2>1. m[x] = sessions[x]
    BY <1>2, <1>4
  <2>2. x \notin Evicted(m)
    BY <1>5, <2>1 DEF Evicted, Ended, IsTerminal, LiveStates, TerminalStates
  <2> QED
    BY <1>2, <1>3, <2>1, <2>2 DEF Forget
<1>6. After(m, a) \subseteq TiedAfter(a)
  <2> SUFFICES ASSUME NEW b \in After(m, a) PROVE b \in TiedAfter(a)
    OBVIOUS
  <2>1. b \in SessionIDs /\ b \in Ended(m) /\ EndedBefore(m, a, b)
    BY <1>2 DEF After, Ended
  <2>2. /\ m[a].endedAt = now /\ now \in Nat
        /\ a \in Nat /\ b \in Nat
    BY <1>2, <1>4, <2>1, SessionIDsAreOrdered DEF Inv, TypeOK
  <2>3. b # id
    BY <1>4, <2>1, <2>2 DEF EndedBefore
  <2>4. m[b] = sessions[b] /\ sessions[b].endedAt \in 0..now
    BY <1>2, <2>1, <2>3 DEF Inv, EndsArePast
  <2>5. m[b].endedAt = now /\ a < b
    BY <2>1, <2>2, <2>4 DEF EndedBefore
  <2> QED
    BY <2>1, <2>4, <2>5 DEF TiedAfter, Ended
<1>7. Cardinality(After(m, a)) >= KeepEnded
  BY <1>3 DEF Evicted, After
<1>8. IsFiniteSet(TiedAfter(a))
  BY SessionIDsFinite, FS_Subset DEF TiedAfter
<1>9. /\ Cardinality(After(m, a)) <= Cardinality(TiedAfter(a))
      /\ Cardinality(After(m, a)) \in Nat /\ Cardinality(TiedAfter(a)) \in Nat
      /\ KeepEnded \in Nat
  BY <1>6, <1>8, FS_Subset, FS_CardinalityType, KeepEndedPositive
<1> QED
  BY <1>5, <1>7, <1>9

\* A live session is never forgotten because another one ended; the one a step
\* ends is forgotten in it only when KeepEnded others ended at the same reading.
THEOREM LiveIsNeverForgotten == Spec => LiveNeverForgotten
<1>1. Inv /\ [Next]_vars => LiveStep
  BY LiveStepHolds
<1> QED
  BY <1>1, InvHolds, PTL DEF Spec, LiveNeverForgotten, LiveStep

-----------------------------------------------------------------------------
(***************************************************************************)
(* The bound on ended sessions.                                            *)
(***************************************************************************)
LEMMA NatMin ==
  ASSUME NEW T, T \subseteq Nat, T # {}
  PROVE  \E x \in T : \A y \in T : x <= y
<1>1. PICK x \in T : \A y \in T : ~ (<<y, x>> \in OpToRel(<, Nat))
  BY NatLessThanWellFounded, WFMin
<1>2. ASSUME NEW y \in T, y < x PROVE FALSE
  <2>1. y \in Nat /\ x \in Nat
    OBVIOUS
  <2>2. <<y, x>> \in OpToRel(<, Nat)
    BY <1>2, <2>1 DEF OpToRel
  <2> QED
    BY <1>1, <2>2
<1> QED
  BY <1>2

\* A set of ended sessions has one that ended before all the others of it.
LEMMA FirstEnded ==
  ASSUME NEW m \in [SessionIDs -> Session], NEW S, S \subseteq Ended(m), S # {}
  PROVE  \E x \in S : \A y \in S \ {x} : EndedBefore(m, x, y)
<1>1. \A x \in S : x \in SessionIDs /\ x \in Nat /\ m[x].endedAt \in Nat
  BY SessionIDsAreOrdered DEF Ended, Session
<1> DEFINE times == {m[x].endedAt : x \in S}
<1>2. PICK t \in times : \A u \in times : t <= u
  <2>1. times \subseteq Nat /\ times # {}
    BY <1>1
  <2> HIDE DEF times
  <2> QED
    BY <2>1, NatMin
<1> DEFINE first == {x \in S : m[x].endedAt = t}
<1>3. PICK x \in first : \A y \in first : x <= y
  <2>1. first \subseteq Nat /\ first # {}
    BY <1>1, <1>2
  <2> HIDE DEF first
  <2> QED
    BY <2>1, NatMin
<1>4. ASSUME NEW y \in S, y # x
      PROVE  EndedBefore(m, x, y)
  <2>1. m[x].endedAt = t /\ t <= m[y].endedAt
    BY <1>2, <1>3, <1>4
  <2>2. m[y].endedAt = t => x < y
    BY <1>1, <1>3, <1>4
  <2> QED
    BY <1>1, <1>3, <2>1, <2>2 DEF EndedBefore
<1> QED
  BY <1>3, <1>4

\* What evictEnded keeps is at most KeepEnded sessions.
LEMMA KeptBounded ==
  ASSUME NEW m \in [SessionIDs -> Session]
  PROVE  Cardinality(Ended(m) \ Evicted(m)) <= KeepEnded
<1> DEFINE S == Ended(m) \ Evicted(m)
<1>1. S \subseteq SessionIDs
  BY DEF Ended
<1>2. IsFiniteSet(S) /\ Cardinality(S) \in Nat /\ KeepEnded \in Nat
  BY <1>1, SessionIDsFinite, KeepEndedPositive, FS_Subset, FS_CardinalityType
<1>3. CASE S = {}
  BY <1>2, <1>3, FS_EmptySet
<1>4. CASE S # {}
  <2>1. PICK x \in S : \A y \in S \ {x} : EndedBefore(m, x, y)
    BY <1>4, FirstEnded
  <2>2. S \ {x} \subseteq After(m, x)
    BY <2>1 DEF After
  <2>3. Cardinality(S \ {x}) = Cardinality(S) - 1
    BY <1>2, FS_RemoveElement
  <2>4. Cardinality(S \ {x}) <= Cardinality(After(m, x))
    BY <2>2, AfterFinite, FS_Subset
  <2>5. ~(Cardinality(After(m, x)) >= KeepEnded)
    BY <2>1 DEF Evicted, After
  <2>6. Cardinality(After(m, x)) \in Nat
    BY AfterFinite
  <2> HIDE DEF S
  <2>7. Cardinality(S) <= KeepEnded
    BY <1>2, <2>3, <2>4, <2>5, <2>6
  <2> QED
    BY <2>7 DEF S
<1> QED
  BY <1>3, <1>4

\* A new manager holds no ended session.
LEMMA BoundedInit == Init => EndedBounded
<1> SUFFICES ASSUME Init PROVE EndedBounded
  OBVIOUS
<1>1. Ended(sessions) = {}
  BY ForgottenFields DEF Init, Ended, IsTerminal, TerminalStates
<1> QED
  BY <1>1, KeepEndedPositive, FS_EmptySet DEF EndedBounded

\* Every step keeps the ended sessions within KeepEnded: End evicts after it
\* ends.
LEMMA BoundedStep == Inv /\ EndedBounded /\ [Next]_vars => EndedBounded'
<1> SUFFICES ASSUME Inv, EndedBounded, [Next]_vars PROVE EndedBounded'
  OBVIOUS
<1>0. DOMAIN sessions = SessionIDs /\ DOMAIN sessions' = SessionIDs
  BY NextInv DEF Inv, TypeOK
<1>1. CASE \E id \in SessionIDs, r \in TerminalStates \cup {"unset", "active"} : End(id, r)
  <2>1. PICK id \in SessionIDs, r \in TerminalStates \cup {"unset", "active"} : End(id, r)
    BY <1>1
  <2>2. PICK final \in TerminalStates :
          sessions' = Forget(Ending(id, final), Evicted(Ending(id, final)))
    BY <2>1, EndStep
  <2> DEFINE m == Ending(id, final)
  <2>3. m \in [SessionIDs -> Session]
    BY EndingType
  <2>4. sessions' = Forget(m, Evicted(m))
    BY <2>2
  <2> HIDE DEF m
  <2>5. Ended(sessions') = Ended(m) \ Evicted(m)
    BY <2>3, <2>4, ForgottenFields DEF Forget, Ended, Evicted, IsTerminal, TerminalStates
  <2> QED
    BY <2>3, <2>5, KeptBounded DEF EndedBounded
<1>2. CASE \A a \in SessionIDs : IsTerminal(sessions'[a].state) => IsTerminal(sessions[a].state)
  <2>1. Ended(sessions') \subseteq Ended(sessions)
    BY <1>0, <1>2 DEF Ended
  <2>2. IsFiniteSet(Ended(sessions))
    BY <1>0, SessionIDsFinite, FS_Subset DEF Ended
  <2>3. /\ Cardinality(Ended(sessions')) <= Cardinality(Ended(sessions))
        /\ Cardinality(Ended(sessions')) \in Nat /\ Cardinality(Ended(sessions)) \in Nat
    BY <2>1, <2>2, FS_Subset, FS_CardinalityType
  <2> QED
    BY <2>3, KeepEndedPositive DEF EndedBounded
<1> QED
  BY <1>1, <1>2, StepKinds

\* The manager holds at most KeepEnded ended sessions, however many it has run.
THEOREM EndedStayBounded == Spec => []EndedBounded
<1>1. Init => EndedBounded
  BY BoundedInit
<1>2. Inv /\ EndedBounded /\ [Next]_vars => EndedBounded'
  BY BoundedStep
<1> QED
  BY <1>1, <1>2, InvHolds, PTL DEF Spec

-----------------------------------------------------------------------------
(***************************************************************************)
(* The recorded state and the tree.                                        *)
(***************************************************************************)

\* Inductive form of StateMatchesTree: a session on its way to active is not
\* stopped either.
Matches ==
  \A id \in SessionIDs :
    /\ sessions[id].state \in LiveStates \ {"suspended"} => ~frozen[id]
    /\ sessions[id].state = "suspended" => frozen[id]

\* Every step keeps record and tree in agreement when no failure is late.
LEMMA MatchesStep ==
  ASSUME "late" \notin SupervisorFaults, Inv, Matches, [Next]_vars
  PROVE  Matches'
<1> USE DEF Inv, TypeOK, Matches
<1>1. CASE UNCHANGED vars \/ Tick
  BY <1>1 DEF vars, Tick
<1>2. ASSUME NEW id \in SessionIDs, NEW b \in BOOLEAN, Create(id, b) PROVE Matches'
  BY <1>2 DEF Create, NewSession, LiveStates
<1>3. ASSUME NEW id \in SessionIDs, NEW b \in BOOLEAN, Seal(id, b) PROVE Matches'
  BY <1>3 DEF Seal, AfterSeal, Allowed, LiveStates, Session
<1>4. ASSUME NEW id \in SessionIDs, NEW b \in BOOLEAN, Approve(id, b) PROVE Matches'
  BY <1>4 DEF Approve, Allowed, LiveStates, Session
<1>5. ASSUME NEW id \in SessionIDs, NEW pid \in {0, 1}, Start(id, pid) PROVE Matches'
  BY <1>5 DEF Start, Allowed, LiveStates, Session
<1>6. \A o \in Outcomes : o \in {"ok", "refused"}
  BY SupervisorFaultsKnown DEF Outcomes
<1>7. ASSUME NEW id \in SessionIDs, NEW o \in Outcomes, Suspend(id, o) PROVE Matches'
  BY <1>6, <1>7 DEF Suspend, Supervise, Allowed, LiveStates, Session
<1>8. ASSUME NEW id \in SessionIDs, NEW o \in Outcomes, Resume(id, o) PROVE Matches'
  BY <1>6, <1>8 DEF Resume, Supervise, Allowed, LiveStates, Session
<1>9. ASSUME NEW id \in SessionIDs, NEW r \in TerminalStates \cup {"unset", "active"},
             End(id, r)
      PROVE  Matches'
  <2>1. PICK final \in TerminalStates :
          sessions' = Forget(Ending(id, final), Evicted(Ending(id, final)))
    BY <1>9, EndStep
  <2>2. frozen' = frozen
    BY <1>9 DEF End
  <2>3. \A x \in SessionIDs : \/ sessions'[x] = sessions[x]
                              \/ sessions'[x].state \in TerminalStates \cup {"absent"}
    BY <2>1, EndingType, ForgottenFields DEF Forget
  <2> QED
    BY <2>2, <2>3 DEF LiveStates, TerminalStates
<1> QED
  BY <1>1, <1>2, <1>3, <1>4, <1>5, <1>7, <1>8, <1>9 DEF Next

\* A supervisor that fails only before its write is in force keeps the recorded
\* state and the tree in step (Suspend and Resume); "late" failures do not.
THEOREM StateAndTreeAgree ==
  ASSUME "late" \notin SupervisorFaults
  PROVE  Spec => []StateMatchesTree
<1>1. Init => Matches
  BY ForgottenFields DEF Init, Matches, LiveStates
<1>2. Inv /\ Matches /\ [Next]_vars => Matches'
  BY MatchesStep
<1>3. Matches => StateMatchesTree
  BY DEF Matches, StateMatchesTree, LiveStates
<1> QED
  BY <1>1, <1>2, <1>3, InvHolds, PTL DEF Spec
=============================================================================
