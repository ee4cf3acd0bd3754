------------------------ MODULE GovernanceLoopProofs ------------------------
(***************************************************************************)
(* What GovernanceLoop promises for any set of sessions, any control       *)
(* channel, any number of requests and every fault its constants allow:    *)
(* its type, that no question is asked after a denial, that an answer      *)
(* resumes a session only when every request asked before it is answered,  *)
(* how sessions end, and when one stays frozen until all is answered.      *)
(***************************************************************************)
EXTENDS GovernanceLoop, TLAPS

\* The loop is on its way to open a request only when the bound leaves room.
RoomToOpen == at \in {"get", "suspend", "open"} => opened < MaxRequests

\* An answer counts requests that have been opened.
AnswersCountOpened == \A r \in RequestIDs : req[r].asked <= opened

Inv == /\ TypeOK
       /\ RoomToOpen
       /\ AnswersCountOpened
       /\ NoQuestionAfterDenial
       /\ EarlierRequestsAnswered

-----------------------------------------------------------------------------
(***************************************************************************)
(* The type.                                                               *)
(***************************************************************************)

\* A closure handed to later is of the channel's type, full or not.
LEMMA LaterType ==
  ASSUME TypeOK, NEW c \in Closure, Later(c)
  PROVE  /\ control' \in Seq(Closure) /\ Len(control') <= ControlCap
         /\ waiting' \in [Closure -> Nat]
<1> USE DEF TypeOK
<1>1. CASE Len(control) < ControlCap
  <2>1. control' = Append(control, c) /\ waiting' = waiting
    BY <1>1 DEF Later
  <2>2. control' \in Seq(Closure) /\ Len(control') = Len(control) + 1 /\ Len(control) \in Nat
    BY <2>1
  <2> QED
    BY <1>1, <2>1, <2>2, BoundsNatural
<1>2. CASE ~(Len(control) < ControlCap)
  <2>1. control' = control /\ waiting' = [waiting EXCEPT ![c] = @ + 1]
    BY <1>2 DEF Later
  <2> QED
    BY <2>1
<1> QED
  BY <1>1, <1>2

\* What the loop and the answers put on the control channel is a closure.
LEMMA ClosureType ==
  ASSUME NEW k \in BOOLEAN, NEW s \in Sessions, NEW r \in TerminalStates
  PROVE  [kill |-> k, session |-> s, result |-> r] \in Closure
  BY DEF Closure

\* The daemon starts well typed, with nothing asked.
LEMMA InitType == Init => TypeOK /\ RoomToOpen
<1> SUFFICES ASSUME Init PROVE TypeOK /\ RoomToOpen
  OBVIOUS
<1>1. req \in [RequestIDs -> Request]
  BY DEF Init, Request
<1>2. control \in Seq(Closure) /\ Len(control) <= ControlCap
  BY BoundsNatural DEF Init
<1>3. opened \in 0..MaxRequests
  BY BoundsNatural DEF Init
<1> QED
  BY <1>1, <1>2, <1>3 DEF Init, TypeOK, RoomToOpen, Points, TerminalStates

\* Steps that touch neither the queue nor the requests.
LEMMA PlainStepsType ==
  ASSUME TypeOK, RoomToOpen,
         \/ \E s \in Sessions : \/ AgentActs(s) \/ TreeExits(s) \/ RefuseEvent(s)
                                \/ ReapOrphan(s) \/ EndSession(s)
         \/ \E s \in Sessions, a \in {"allow", "request_approval", "block"}, l \in BOOLEAN :
              TakeEvent(s, a, l)
         \/ SuspendReads \/ (\E o \in {"ok"} \cup FreezeFaults : SuspendFreezes(o))
         \/ Emit \/ Stop \/ FailAll \/ FinishEnds \/ FinishRecords
         \/ \E o \in KillOutcomes : FinishKills(o)
  PROVE  TypeOK' /\ RoomToOpen'
<1> USE DEF TypeOK, RoomToOpen, loopVars, queueVars, treeVars, approvalVars, rpcVars
<1>1. CASE \E s \in Sessions : AgentActs(s)
  <2>1. PICK s \in Sessions : AgentActs(s)
    BY <1>1
  <2>2. produced' \in [Sessions -> Nat] /\ events' \in [Sessions -> Nat]
    BY <2>1 DEF AgentActs
  <2> QED
    BY <2>1, <2>2 DEF AgentActs
<1>2. CASE \E s \in Sessions : TreeExits(s)
  BY <1>2 DEF TreeExits
<1>3. CASE \E s \in Sessions : RefuseEvent(s)
  BY <1>3 DEF RefuseEvent
<1>4. CASE \E s \in Sessions : ReapOrphan(s)
  BY <1>4 DEF ReapOrphan, Points, TerminalStates
<1>5. CASE \E s \in Sessions : EndSession(s)
  BY <1>5 DEF EndSession
<1>6. CASE \E s \in Sessions, a \in {"allow", "request_approval", "block"}, l \in BOOLEAN :
             TakeEvent(s, a, l)
  <2> PICK s \in Sessions, a \in {"allow", "request_approval", "block"}, l \in BOOLEAN :
             TakeEvent(s, a, l)
    BY <1>6
  <2>1. React(mode[s], a) \in {"emit", "terminate", "get"}
    BY DEF React
  <2>2. events' \in [Sessions -> Nat] /\ gap' = l /\ cur' = s /\ at' = React(mode[s], a)
    BY DEF TakeEvent
  <2> QED BY <2>1, <2>2 DEF TakeEvent, Points
<1>7. CASE SuspendReads
  BY <1>7 DEF SuspendReads, Points
<1>8. CASE \E o \in {"ok"} \cup FreezeFaults : SuspendFreezes(o)
  BY <1>8 DEF SuspendFreezes, Frozen, Points
<1>9. CASE Emit
  BY <1>9 DEF Emit, FinishIfLive, Points, TerminalStates
<1>10. CASE Stop
  BY <1>10 DEF Stop
<1>11. CASE FailAll
  BY <1>11 DEF FailAll, Points, TerminalStates
<1>12. CASE FinishEnds
  BY <1>12 DEF FinishEnds, Points
<1>13. CASE FinishRecords
  BY <1>13 DEF FinishRecords, Points
<1>14. CASE \E o \in KillOutcomes : FinishKills(o)
  BY <1>14 DEF FinishKills, KillTree, Killed, Points
<1> QED
  BY <1>1, <1>2, <1>3, <1>4, <1>5, <1>6, <1>7, <1>8, <1>9, <1>10, <1>11, <1>12,
     <1>13, <1>14

\* Steps that add to the control channel or take from it.
LEMMA QueueStepsType ==
  ASSUME TypeOK, RoomToOpen,
         \/ \E k \in KillOutcomes, f \in {"ok"} \cup FreezeFaults : Terminate(k, f)
         \/ \E o \in KillOutcomes : RunClosure(o)
         \/ \E c \in Closure : Enqueue(c)
         \/ \E s \in Sessions : EndSessionQueues(s)
  PROVE  TypeOK' /\ RoomToOpen'
<1> USE DEF RoomToOpen, loopVars, queueVars, treeVars, approvalVars, rpcVars
<1>1. ASSUME NEW k \in KillOutcomes, NEW f \in {"ok"} \cup FreezeFaults, Terminate(k, f)
      PROVE  TypeOK' /\ RoomToOpen'
  <2> DEFINE c == [kill |-> FALSE, session |-> cur,
                   result |-> IF k = "ok" THEN "terminated" ELSE "failed"]
  <2>1. c \in Closure
    BY ClosureType DEF TypeOK, TerminalStates
  <2>2. Later(c)
    BY <1>1 DEF Terminate
  <2> HIDE DEF c
  <2>3. /\ control' \in Seq(Closure) /\ Len(control') <= ControlCap
        /\ waiting' \in [Closure -> Nat]
    BY <2>1, <2>2, LaterType
  <2> QED
    BY <1>1, <2>3 DEF Terminate, TypeOK, Frozen, Points
<1>2. ASSUME NEW o \in KillOutcomes, RunClosure(o) PROVE TypeOK' /\ RoomToOpen'
  <2>1. Head(control) \in Closure /\ Tail(control) \in Seq(Closure)
        /\ Len(Tail(control)) <= ControlCap
    BY <1>2, BoundsNatural DEF RunClosure, TypeOK
  <2>2. /\ Head(control).session \in Sessions
        /\ Head(control).result \in TerminalStates
    BY <2>1 DEF Closure
  <2>3. tree' \in [Sessions -> {"running", "frozen", "dead"}]
        /\ killErr' \in [Sessions -> BOOLEAN] /\ produced' = produced
    <3>1. CASE Head(control).kill
      <4>1. KillTree(Head(control).session, o)
        BY <1>2, <3>1 DEF RunClosure
      <4> HIDE DEF RoomToOpen
      <4> QED
        BY <2>2, <4>1 DEF KillTree, Killed, TypeOK
    <3>2. CASE ~Head(control).kill
      <4>1. UNCHANGED treeVars
        BY <1>2, <3>2 DEF RunClosure
      <4> QED
        BY <4>1 DEF TypeOK
    <3> QED
      BY <3>1, <3>2
  <2>4. at' \in {"idle", "finish"} /\ cur' \in Sessions /\ result' \in TerminalStates
    BY <1>2, <2>2 DEF RunClosure, FinishIfLive, TypeOK
  <2> QED
    BY <1>2, <2>1, <2>3, <2>4 DEF RunClosure, TypeOK, Points
<1>3. ASSUME NEW c \in Closure, Enqueue(c) PROVE TypeOK' /\ RoomToOpen'
  <2>1. control' \in Seq(Closure) /\ Len(control') <= ControlCap
    BY <1>3, BoundsNatural DEF Enqueue, TypeOK
  <2>2. waiting' \in [Closure -> Nat]
    BY <1>3 DEF Enqueue, TypeOK
  <2> QED
    BY <1>3, <2>1, <2>2 DEF Enqueue, TypeOK
<1>4. ASSUME NEW s \in Sessions, EndSessionQueues(s) PROVE TypeOK' /\ RoomToOpen'
  <2> DEFINE c == [kill |-> FALSE, session |-> s, result |-> "completed"]
  <2>1. c \in Closure
    BY ClosureType DEF TerminalStates
  <2>2. control' = Append(control, c) /\ Len(control) < ControlCap
    BY <1>4 DEF EndSessionQueues
  <2> HIDE DEF c
  <2>3. control' \in Seq(Closure) /\ Len(control') <= ControlCap
    BY <2>1, <2>2, BoundsNatural DEF TypeOK
  <2> QED
    BY <1>4, <2>3 DEF EndSessionQueues, TypeOK
<1> QED
  BY <1>1, <1>2, <1>3, <1>4

\* A request in another phase is a request.
LEMMA Rephased ==
  ASSUME NEW x \in Request, NEW p \in {"unused", "open", "answered", "recorded", "settled"}
  PROVE  [x EXCEPT !.phase = p] \in Request
  BY DEF Request

\* So are all requests when one of them changes its phase.
LEMMA OneRephased ==
  ASSUME TypeOK, NEW r \in RequestIDs,
         NEW p \in {"unused", "open", "answered", "recorded", "settled"},
         req' = [req EXCEPT ![r].phase = p]
  PROVE  req' \in [RequestIDs -> Request]
<1>1. req \in [RequestIDs -> Request]
  BY DEF TypeOK
<1>2. req' = [req EXCEPT ![r] = [req[r] EXCEPT !.phase = p]]
  BY <1>1
<1>3. [req[r] EXCEPT !.phase = p] \in Request
  BY <1>1, Rephased
<1> QED
  BY <1>1, <1>2, <1>3

\* Steps on the requests that open none and take no answer.
LEMMA PhaseStepsType ==
  ASSUME TypeOK, RoomToOpen,
         \/ FinishCancels
         \/ \E r \in RequestIDs : AnswerStep(r)
  PROVE  TypeOK' /\ RoomToOpen'
<1> USE DEF RoomToOpen, loopVars, queueVars, treeVars, approvalVars, rpcVars
<1>1. CASE FinishCancels
  <2>1. req' \in [RequestIDs -> Request]
    <3>1. req \in [RequestIDs -> Request]
      BY DEF TypeOK
    <3>2. \A r \in RequestIDs : [req[r] EXCEPT !.phase = "settled"] \in Request
      BY <3>1, Rephased
    <3> QED
      BY <1>1, <3>1, <3>2 DEF FinishCancels
  <2> QED
    BY <1>1, <2>1 DEF FinishCancels, TypeOK, Points
<1>2. ASSUME NEW r \in RequestIDs, RecordAnswer(r) PROVE TypeOK' /\ RoomToOpen'
  <2>1. req' = [req EXCEPT ![r].phase = "recorded"]
    BY <1>2 DEF RecordAnswer
  <2>a. req' \in [RequestIDs -> Request]
    BY <2>1, OneRephased
  <2> QED
    BY <1>2, <2>a DEF RecordAnswer, TypeOK
<1>3. ASSUME NEW r \in RequestIDs, DenyTakesEffect(r) PROVE TypeOK' /\ RoomToOpen'
  <2>1. req' = [req EXCEPT ![r].phase = "settled"]
    BY <1>3 DEF DenyTakesEffect
  <2>a. req' \in [RequestIDs -> Request]
    BY <2>1, OneRephased
  <2> DEFINE c == [kill |-> TRUE, session |-> req[r].session, result |-> "terminated"]
  <2>2. c \in Closure
    BY ClosureType DEF TypeOK, Request, TerminalStates
  <2>3. Later(c)
    BY <1>3 DEF DenyTakesEffect
  <2> HIDE DEF c
  <2>4. /\ control' \in Seq(Closure) /\ Len(control') <= ControlCap
        /\ waiting' \in [Closure -> Nat]
    BY <2>2, <2>3, LaterType
  <2> QED
    BY <1>3, <2>a, <2>4 DEF DenyTakesEffect, TypeOK
<1>4. ASSUME NEW r \in RequestIDs, NEW o \in {"ok"} \cup ThawFaults,
             ApprovalTakesEffect(r, o)
      PROVE  TypeOK' /\ RoomToOpen'
  <2>1. req' = [req EXCEPT ![r].phase = "settled"]
    BY <1>4 DEF ApprovalTakesEffect
  <2>a. req' \in [RequestIDs -> Request]
    BY <2>1, OneRephased
  <2>2. req[r].session \in Sessions
    BY DEF TypeOK, Request
  <2>3. tree' \in [Sessions -> {"running", "frozen", "dead"}]
        /\ state' \in [Sessions -> {"active", "suspended"} \cup TerminalStates]
    BY <1>4, <2>2 DEF ApprovalTakesEffect, Resumes, Thawed, TypeOK
  <2> QED
    BY <1>4, <2>a, <2>3 DEF ApprovalTakesEffect, TypeOK
<1> QED
  BY <1>1, <1>2, <1>3, <1>4 DEF AnswerStep

\* approvals.open keeps the types: the new request is within the bound.
LEMMA OpenType ==
  ASSUME TypeOK, RoomToOpen, Open
  PROVE  TypeOK' /\ RoomToOpen'
<1> USE DEF loopVars, queueVars, treeVars, approvalVars, rpcVars
<1>1. CASE cur \in terminating
  BY <1>1 DEF Open, TypeOK, RoomToOpen, Points
<1>2. CASE cur \notin terminating
  <2>1. opened + 1 \in RequestIDs /\ opened' = opened + 1 /\ opened' \in 0..MaxRequests
    BY <1>2, BoundsNatural DEF Open, TypeOK, RoomToOpen, RequestIDs
  <2>2. req' = [req EXCEPT ![opened + 1] = [@ EXCEPT !.phase = "open", !.session = cur]]
    BY <1>2 DEF Open
  <2>3. req' \in [RequestIDs -> Request]
    <3>1. req \in [RequestIDs -> Request] /\ cur \in Sessions
      BY DEF TypeOK
    <3>2. [req[opened + 1] EXCEPT !.phase = "open", !.session = cur] \in Request
      BY <2>1, <3>1 DEF Request
    <3> QED
      BY <2>1, <2>2, <3>1, <3>2
  <2> QED
    BY <1>2, <2>1, <2>3 DEF Open, TypeOK, RoomToOpen, Points
<1> QED
  BY <1>1, <1>2

\* approvals.resolve keeps the types, whichever requests it withdraws.
LEMMA ResolveType ==
  ASSUME TypeOK, RoomToOpen, NEW r \in RequestIDs, NEW ok \in BOOLEAN, Resolve(r, ok)
  PROVE  TypeOK' /\ RoomToOpen'
<1> USE DEF loopVars, queueVars, treeVars, approvalVars, rpcVars
<1> DEFINE s == req[r].session
           doomed == IF ok THEN terminating ELSE terminating \cup {s}
           withdrawn == IF ok THEN {} ELSE OpenRequests(s) \ {r}
           answer == [phase |-> "answered", session |-> s, approved |-> ok,
                      doomed |-> s \in doomed, last |-> LastOpen(r), asked |-> opened]
<1>1. req' \in [RequestIDs -> Request]
  <2>1. answer \in Request
    <3>1. s \in Sessions /\ opened \in Nat
      BY DEF TypeOK, Request
    <3>2. LastOpen(r) \in BOOLEAN /\ (s \in doomed) \in BOOLEAN
      BY DEF LastOpen
    <3> HIDE DEF s, doomed
    <3> QED
      BY <3>1, <3>2 DEF Request
  <2>2. req' = [q \in RequestIDs |->
                  IF q = r THEN answer
                  ELSE IF q \in withdrawn THEN [req[q] EXCEPT !.phase = "settled"]
                  ELSE req[q]]
    BY DEF Resolve
  <2>3. \A q \in RequestIDs : req[q] \in Request /\ [req[q] EXCEPT !.phase = "settled"] \in Request
    BY Rephased DEF TypeOK
  <2> HIDE DEF answer, withdrawn
  <2> QED
    BY <2>1, <2>2, <2>3
<1>2. terminating' \in SUBSET Sessions
  BY DEF Resolve, TypeOK, Request
<1> QED
  BY <1>1, <1>2 DEF Resolve, TypeOK, RoomToOpen

-----------------------------------------------------------------------------
(***************************************************************************)
(* The requests.                                                           *)
(***************************************************************************)
Answers == AnswersCountOpened /\ NoQuestionAfterDenial /\ EarlierRequestsAnswered

\* A step that opens nothing, takes no answer and lets requests only move on
\* (RecordAnswer, an answer taking effect, cancelSession, or none at all).
LEMMA RequestsMoveOn ==
  ASSUME Inv, opened' = opened, terminating' \subseteq terminating,
         \A q \in RequestIDs :
           /\ req'[q].session = req[q].session /\ req'[q].approved = req[q].approved
           /\ req'[q].last = req[q].last /\ req'[q].asked = req[q].asked
           /\ \/ req'[q].phase = req[q].phase
              \/ req'[q].phase = "settled"
              \/ req[q].phase = "answered" /\ req'[q].phase = "recorded"
  PROVE  Answers'
<1>1. AnswersCountOpened'
  BY DEF Inv, AnswersCountOpened
<1>2. NoQuestionAfterDenial'
  <2>1. \A q \in RequestIDs : req'[q].phase = "open" => req[q].phase = "open"
    OBVIOUS
  <2> QED
    BY <2>1 DEF Inv, NoQuestionAfterDenial, OpenRequests
<1>3. EarlierRequestsAnswered'
  <2>1. \A q \in RequestIDs :
          /\ req'[q].phase = "open" => req[q].phase = "open"
          /\ req'[q].phase \in {"answered", "recorded"} => req[q].phase \in {"answered", "recorded"}
    OBVIOUS
  <2> QED
    BY <2>1 DEF Inv, EarlierRequestsAnswered
<1> QED
  BY <1>1, <1>2, <1>3 DEF Answers

\* approvals.open asks only about a session nobody denied, and its request is
\* newer than any answer taken so far.
LEMMA OpenAnswers ==
  ASSUME Inv, Open
  PROVE  Answers'
<1>1. CASE cur \in terminating
  BY <1>1, RequestsMoveOn DEF Open
<1>2. CASE cur \notin terminating
  <2> DEFINE n == opened + 1
  <2>1. n \in RequestIDs /\ opened \in Nat /\ opened' = n
    BY <1>2, BoundsNatural DEF Open, Inv, TypeOK, RoomToOpen, RequestIDs
  <2>2. req' = [req EXCEPT ![n] = [@ EXCEPT !.phase = "open", !.session = cur]]
    BY <1>2 DEF Open
  <2>3. req \in [RequestIDs -> Request]
    BY DEF Inv, TypeOK
  <2>4. req'[n].phase = "open" /\ req'[n].session = cur /\ req'[n].asked = req[n].asked
    BY <2>1, <2>2, <2>3 DEF Request
  <2>5. \A q \in RequestIDs \ {n} : req'[q] = req[q]
    BY <2>1, <2>2, <2>3
  <2>6. \A q \in RequestIDs : req[q].asked \in Nat /\ req[q].asked <= opened
    BY <2>3 DEF Request, Inv, AnswersCountOpened
  <2> HIDE DEF n
  <2>7. AnswersCountOpened'
    <3>1. opened <= n
      BY <2>1 DEF n
    <3>2. n \in Nat
      BY <2>1 DEF n
    <3> SUFFICES ASSUME NEW q \in RequestIDs PROVE req'[q].asked <= n
      BY <2>1 DEF AnswersCountOpened
    <3>3. req'[q].asked = req[q].asked
      BY <2>4, <2>5
    <3> QED
      BY <2>1, <2>6, <3>1, <3>2, <3>3
  <2>8. NoQuestionAfterDenial'
    <3>1. terminating' = terminating
      BY DEF Open
    <3>2. \A s \in terminating : OpenRequests(s)' = {}
      BY <1>2, <2>1, <2>4, <2>5 DEF Inv, NoQuestionAfterDenial, OpenRequests
    <3> QED
      BY <3>1, <3>2 DEF NoQuestionAfterDenial
  <2>9. EarlierRequestsAnswered'
    <3> SUFFICES ASSUME NEW r \in RequestIDs, NEW q \in RequestIDs,
                        req'[r].phase \in {"answered", "recorded"},
                        req'[r].approved, req'[r].last,
                        req'[q].session = req'[r].session, q <= req'[r].asked
                 PROVE  req'[q].phase # "open"
      BY DEF EarlierRequestsAnswered
    <3>1. r # n
      BY <2>4
    <3>2. req'[r] = req[r]
      BY <2>5, <3>1
    <3>3. q # n
      <4>1. req[r].asked \in Nat /\ req[r].asked <= opened
        BY <2>6
      <4>2. q <= req[r].asked
        BY <3>2
      <4> SUFFICES ASSUME q = n PROVE FALSE
        OBVIOUS
      <4>3. opened + 1 <= req[r].asked
        BY <4>2 DEF n
      <4> QED
        BY <2>1, <4>1, <4>3
    <3>4. req'[q] = req[q]
      BY <2>5, <3>3
    <3> QED
      BY <3>2, <3>4 DEF Inv, EarlierRequestsAnswered
  <2> QED
    BY <2>7, <2>8, <2>9 DEF Answers
<1> QED
  BY <1>1, <1>2

\* approvals.resolve: a denial withdraws what is open for its session, and an
\* approval that says it was the last one was.
LEMMA ResolveAnswers ==
  ASSUME Inv, NEW r \in RequestIDs, NEW ok \in BOOLEAN, Resolve(r, ok)
  PROVE  Answers'
<1> DEFINE s == req[r].session
           withdrawn == IF ok THEN {} ELSE OpenRequests(s) \ {r}
<1>1. /\ req[r].phase = "open" /\ opened' = opened
      /\ terminating' = IF ok THEN terminating ELSE terminating \cup {s}
  BY DEF Resolve
<1>2. /\ req'[r].phase = "answered" /\ req'[r].session = s /\ req'[r].asked = opened
      /\ req'[r].last = LastOpen(r)
  BY DEF Resolve
<1>3. \A q \in RequestIDs \ {r} :
        req'[q] = IF q \in withdrawn THEN [req[q] EXCEPT !.phase = "settled"] ELSE req[q]
  BY DEF Resolve
<1>4. \A q \in RequestIDs \ {r} :
        /\ req'[q].session = req[q].session /\ req'[q].approved = req[q].approved
        /\ req'[q].last = req[q].last /\ req'[q].asked = req[q].asked
        /\ req'[q].phase = IF q \in withdrawn THEN "settled" ELSE req[q].phase
  <2>1. \A q \in RequestIDs : req[q] \in Request
    BY DEF Inv, TypeOK
  <2> HIDE DEF withdrawn
  <2> QED
    BY <1>3, <2>1 DEF Request
<1>5. opened \in Nat
  BY DEF Inv, TypeOK
<1>6. AnswersCountOpened'
  BY <1>1, <1>2, <1>4, <1>5 DEF Inv, AnswersCountOpened
<1>7. NoQuestionAfterDenial'
  <2> SUFFICES ASSUME NEW x \in terminating', NEW q \in RequestIDs,
                      req'[q].phase = "open", req'[q].session = x
               PROVE  FALSE
    BY DEF NoQuestionAfterDenial, OpenRequests
  <2>1. q # r
    BY <1>2
  <2>2. req[q].phase = "open" /\ req[q].session = x /\ q \notin withdrawn
    BY <1>4, <2>1
  <2>3. x \notin terminating
    BY <2>2 DEF Inv, NoQuestionAfterDenial, OpenRequests
  <2>4. ~ok /\ x = s
    BY <1>1, <2>3
  <2> QED
    BY <2>1, <2>2, <2>4 DEF OpenRequests
<1>8. EarlierRequestsAnswered'
  <2> SUFFICES ASSUME NEW a \in RequestIDs, NEW q \in RequestIDs,
                      req'[a].phase \in {"answered", "recorded"},
                      req'[a].approved, req'[a].last,
                      req'[q].session = req'[a].session, q <= req'[a].asked,
                      req'[q].phase = "open"
               PROVE  FALSE
    BY DEF EarlierRequestsAnswered
  <2> HIDE DEF withdrawn
  <2> q # r
    BY <1>2
  <2>1. q # r /\ req[q].phase = "open" /\ req[q].session = req'[a].session
    BY <1>4
  <2>2. CASE a = r
    <3>1. req[q].session = s /\ OpenRequests(s) \ {r} = {}
      BY <1>2, <2>1, <2>2 DEF LastOpen
    <3> HIDE DEF s
    <3> QED
      BY <2>1, <3>1 DEF OpenRequests
  <2>3. CASE a # r
    <3>1. req[a].phase \in {"answered", "recorded"}
      BY <1>4, <2>3
    <3>2. /\ req[a].approved /\ req[a].last /\ q <= req[a].asked
          /\ req[q].session = req[a].session
      BY <1>4, <2>1, <2>3
    <3> QED
      BY <2>1, <3>1, <3>2 DEF Inv, EarlierRequestsAnswered
  <2> QED
    BY <2>2, <2>3
<1> QED
  BY <1>6, <1>7, <1>8 DEF Answers

\* cancelSession and the steps of an answer after it was taken.
LEMMA PhaseStepsAnswers ==
  ASSUME Inv, FinishCancels \/ \E r \in RequestIDs : AnswerStep(r)
  PROVE  Answers'
<1> \A q \in RequestIDs : req[q] \in Request
  BY DEF Inv, TypeOK
<1>1. CASE FinishCancels
  BY <1>1, RequestsMoveOn DEF FinishCancels, Request
<1>2. ASSUME NEW r \in RequestIDs, RecordAnswer(r) PROVE Answers'
  BY <1>2, RequestsMoveOn DEF RecordAnswer, Request, Inv, TypeOK
<1>3. ASSUME NEW r \in RequestIDs, DenyTakesEffect(r) PROVE Answers'
  BY <1>3, RequestsMoveOn DEF DenyTakesEffect, Request, Inv, TypeOK
<1>4. ASSUME NEW r \in RequestIDs, NEW o \in {"ok"} \cup ThawFaults,
             ApprovalTakesEffect(r, o)
      PROVE  Answers'
  BY <1>4, RequestsMoveOn DEF ApprovalTakesEffect, Request, Inv, TypeOK
<1> QED
  BY <1>1, <1>2, <1>3, <1>4 DEF AnswerStep

\* Every other step leaves the requests alone.
LEMMA OtherStepsAnswers ==
  ASSUME Inv, UNCHANGED approvalVars
  PROVE  Answers'
<1>1. opened' = opened /\ req' = req /\ terminating' = terminating
  BY DEF approvalVars
<1> QED
  BY <1>1, RequestsMoveOn

\* Initially no request is open.
LEMMA InitInv == Init => Inv
<1> SUFFICES ASSUME Init PROVE Inv
  OBVIOUS
<1>1. TypeOK /\ RoomToOpen
  BY InitType
<1>2. \A q \in RequestIDs : req[q].phase = "unused" /\ req[q].asked = 0
  BY DEF Init
<1>3. opened = 0 /\ terminating = {}
  BY DEF Init
<1> QED
  BY <1>1, <1>2, <1>3
  DEF Inv, AnswersCountOpened, NoQuestionAfterDenial, EarlierRequestsAnswered

PlainStep ==
  \/ \E s \in Sessions : \/ AgentActs(s) \/ TreeExits(s) \/ RefuseEvent(s)
                         \/ ReapOrphan(s) \/ EndSession(s)
  \/ \E s \in Sessions, a \in {"allow", "request_approval", "block"}, l \in BOOLEAN :
       TakeEvent(s, a, l)
  \/ SuspendReads \/ (\E o \in {"ok"} \cup FreezeFaults : SuspendFreezes(o))
  \/ Emit \/ Stop \/ FailAll \/ FinishEnds \/ FinishRecords
  \/ \E o \in KillOutcomes : FinishKills(o)

QueueStep ==
  \/ \E k \in KillOutcomes, f \in {"ok"} \cup FreezeFaults : Terminate(k, f)
  \/ \E o \in KillOutcomes : RunClosure(o)
  \/ \E c \in Closure : Enqueue(c)
  \/ \E s \in Sessions : EndSessionQueues(s)

RequestStep ==
  \/ Open
  \/ FinishCancels
  \/ \E r \in RequestIDs : AnswerStep(r)
  \/ \E r \in RequestIDs, ok \in BOOLEAN : Resolve(r, ok)

\* Next, regrouped by what the steps touch.
LEMMA NextKinds == Next => PlainStep \/ QueueStep \/ RequestStep
<1> SUFFICES ASSUME Next PROVE PlainStep \/ QueueStep \/ RequestStep
  OBVIOUS
<1>1. CASE LoopStep
  BY <1>1 DEF LoopStep, PlainStep, QueueStep, RequestStep
<1>2. CASE Stop \/ \E s \in Sessions : \/ AgentActs(s) \/ TreeExits(s)
                                      \/ EndSession(s) \/ EndSessionQueues(s)
  BY <1>2 DEF PlainStep, QueueStep
<1>3. CASE \E c \in Closure : Enqueue(c)
  BY <1>3 DEF QueueStep
<1>4. CASE \E r \in RequestIDs : \/ \E ok \in BOOLEAN : Respond(r, ok)
                                \/ Timeout(r) \/ AnswerStep(r)
  BY <1>4, FlagsBoolean DEF RequestStep, Respond, Timeout
<1> QED
  BY <1>1, <1>2, <1>3, <1>4 DEF Next

\* Every step of the loop, the trees, the shims and the answers keeps Inv.
LEMMA NextInv == Inv /\ [Next]_vars => Inv'
<1> SUFFICES ASSUME Inv, [Next]_vars PROVE Inv'
  OBVIOUS
<1> TypeOK /\ RoomToOpen
  BY DEF Inv
<1>1. CASE UNCHANGED vars
  BY <1>1 DEF vars, Inv, TypeOK, RoomToOpen, AnswersCountOpened, NoQuestionAfterDenial,
              OpenRequests, EarlierRequestsAnswered
<1>2. CASE PlainStep
  <2>1. UNCHANGED approvalVars
    BY <1>2 DEF PlainStep, AgentActs, TreeExits, RefuseEvent, ReapOrphan, EndSession,
                TakeEvent, SuspendReads, SuspendFreezes, Emit, Stop, FailAll,
                FinishEnds, FinishRecords, FinishKills, approvalVars
  <2>2. TypeOK' /\ RoomToOpen'
    BY <1>2, PlainStepsType DEF PlainStep
  <2> QED
    BY <2>1, <2>2, OtherStepsAnswers DEF Inv, Answers
<1>3. CASE QueueStep
  <2>1. UNCHANGED approvalVars
    BY <1>3 DEF QueueStep, Terminate, RunClosure, Enqueue, EndSessionQueues, approvalVars
  <2>2. TypeOK' /\ RoomToOpen'
    BY <1>3, QueueStepsType DEF QueueStep
  <2> QED
    BY <2>1, <2>2, OtherStepsAnswers DEF Inv, Answers
<1>4. CASE RequestStep
  <2>1. TypeOK' /\ RoomToOpen'
    BY <1>4, OpenType, PhaseStepsType, ResolveType DEF RequestStep
  <2>2. Answers'
    BY <1>4, OpenAnswers, PhaseStepsAnswers, ResolveAnswers DEF RequestStep
  <2> QED
    BY <2>1, <2>2 DEF Inv, Answers
<1> QED
  BY <1>1, <1>2, <1>3, <1>4, NextKinds

\* Inv holds throughout.
THEOREM InvHolds == Spec => []Inv
  BY InitInv, NextInv, PTL DEF Spec

\* The daemon's records keep their type, and the control channel never holds more
\* than its capacity, whatever is denied, ended, reaped or refused at once.
THEOREM TypeCorrect == Spec => []TypeOK
<1>1. Inv => TypeOK
  BY DEF Inv
<1> QED
  BY <1>1, InvHolds, PTL

\* A session whose approval was denied is never asked about again (resolve, open
\* and cancelSession together).
THEOREM DeniedIsNotAsked == Spec => []NoQuestionAfterDenial
<1>1. Inv => NoQuestionAfterDenial
  BY DEF Inv
<1> QED
  BY <1>1, InvHolds, PTL

\* An answer that will resume a session has all requests asked before it
\* answered: what resolve computed under its lock is still true when it acts.
THEOREM ResumedAfterAllAnswers == Spec => []EarlierRequestsAnswered
<1>1. Inv => EarlierRequestsAnswered
  BY DEF Inv
<1> QED
  BY <1>1, InvHolds, PTL

-----------------------------------------------------------------------------
(***************************************************************************)
(* How sessions end: each end is recorded once, an ended session leaves    *)
(* nothing behind, a denial is never lost, and a suspended session always  *)
(* has something to wait for.                                              *)
(***************************************************************************)
\* While the loop works on a session, nothing else ends it.
WorksOnLive == at \notin {"idle", "record", "stopped"} => ~IsTerminal(state[cur])

\* The loop records the end of a session that has ended.
RecordsEnded == at = "record" => IsTerminal(state[cur])

Books == WorksOnLive /\ RecordsEnded /\ EndRecordedOnce

\* The steps that leave alone what Books speaks about.
QuietStep ==
  \/ \E s \in Sessions : \/ AgentActs(s) \/ TreeExits(s) \/ RefuseEvent(s)
                         \/ EndSession(s) \/ EndSessionQueues(s)
  \/ \E c \in Closure : Enqueue(c)
  \/ \E r \in RequestIDs : \/ \E ok \in BOOLEAN : Resolve(r, ok)
                           \/ RecordAnswer(r) \/ DenyTakesEffect(r)
  \/ Stop

-----------------------------------------------------------------------------
\* A quiet step changes no lifecycle state and does not move the loop.
LEMMA QuietIsQuiet ==
  ASSUME QuietStep PROVE UNCHANGED <<state, at, cur, result, ends>>
  BY DEF QuietStep, AgentActs, TreeExits, RefuseEvent, EndSession, EndSessionQueues,
         Enqueue, Resolve, RecordAnswer, DenyTakesEffect, Stop, loopVars

\* What the steps that move the loop, or change a lifecycle state, are.
LEMMA LoudSteps ==
  ASSUME Next
  PROVE  \/ QuietStep
         \/ \E s \in Sessions : ReapOrphan(s)
         \/ \E s \in Sessions, a \in {"allow", "request_approval", "block"}, l \in BOOLEAN :
              TakeEvent(s, a, l)
         \/ SuspendReads \/ (\E o \in {"ok"} \cup FreezeFaults : SuspendFreezes(o))
         \/ Open \/ Emit \/ FailAll \/ FinishCancels \/ FinishEnds \/ FinishRecords
         \/ (\E k \in KillOutcomes, f \in {"ok"} \cup FreezeFaults : Terminate(k, f))
         \/ (\E o \in KillOutcomes : RunClosure(o) \/ FinishKills(o))
         \/ \E r \in RequestIDs, o \in {"ok"} \cup ThawFaults : ApprovalTakesEffect(r, o)
<1>1. CASE LoopStep
  BY <1>1 DEF LoopStep, QuietStep
<1>2. CASE Stop \/ \E s \in Sessions : \/ AgentActs(s) \/ TreeExits(s)
                                      \/ EndSession(s) \/ EndSessionQueues(s)
  BY <1>2 DEF QuietStep
<1>3. CASE \E c \in Closure : Enqueue(c)
  BY <1>3 DEF QuietStep
<1>4. CASE \E r \in RequestIDs : \/ \E ok \in BOOLEAN : Respond(r, ok)
                                \/ Timeout(r) \/ AnswerStep(r)
  BY <1>4, FlagsBoolean DEF QuietStep, Respond, Timeout, AnswerStep
<1> QED
  BY <1>1, <1>2, <1>3, <1>4 DEF Next

\* A step that leaves the ends alone, and either the loop idle or at work on a live
\* session, keeps the books; no session may end or come back to life in it.
LEMMA BooksKept ==
  ASSUME TypeOK, TypeOK', Books, ends' = ends, at # "record", at' # "record",
         \A s \in Sessions : IsTerminal(state'[s]) <=> IsTerminal(state[s]),
         at' \notin {"idle", "stopped"} => ~IsTerminal(state'[cur'])
  PROVE  Books'
  BY DEF Books, WorksOnLive, RecordsEnded, EndRecordedOnce, TypeOK

\* Every step keeps the books.
LEMMA BooksStep == Inv /\ Inv' /\ Books /\ [Next]_vars => Books'
<1> SUFFICES ASSUME Inv, Inv', Books, [Next]_vars PROVE Books'
  OBVIOUS
<1> TypeOK /\ TypeOK'
  BY DEF Inv
<1> USE DEF loopVars, treeVars, IsTerminal, TerminalStates
<1>1. CASE UNCHANGED vars
  BY <1>1 DEF vars, Books, WorksOnLive, RecordsEnded, EndRecordedOnce
<1>2. CASE QuietStep
  BY <1>2, QuietIsQuiet DEF Books, WorksOnLive, RecordsEnded, EndRecordedOnce
<1>3. ASSUME NEW s \in Sessions, ReapOrphan(s) PROVE Books'
  BY <1>3, BooksKept DEF ReapOrphan
<1>4. ASSUME NEW s \in Sessions, NEW a \in {"allow", "request_approval", "block"},
             NEW l \in BOOLEAN, TakeEvent(s, a, l)
      PROVE  Books'
  BY <1>4, BooksKept DEF TakeEvent, React, AcceptsEvents
<1>5. CASE SuspendReads
  BY <1>5, BooksKept DEF SuspendReads, Books, WorksOnLive
<1>6. ASSUME NEW o \in {"ok"} \cup FreezeFaults, SuspendFreezes(o) PROVE Books'
  <2>1. ~IsTerminal(state[cur]) /\ cur' = cur
    BY <1>6 DEF SuspendFreezes, Books, WorksOnLive
  <2>2. \A s \in Sessions : IsTerminal(state'[s]) <=> IsTerminal(state[s])
    BY <1>6, <2>1 DEF SuspendFreezes, TypeOK
  <2> QED
    BY <1>6, <2>1, <2>2, BooksKept DEF SuspendFreezes, TypeOK
<1>7. CASE Open
  BY <1>7, BooksKept DEF Open, Books, WorksOnLive
<1>8. CASE Emit
  BY <1>8, BooksKept DEF Emit, FinishIfLive, Books, WorksOnLive
<1>9. CASE FailAll
  BY <1>9, BooksKept DEF FailAll
<1>10. CASE FinishCancels
  BY <1>10, BooksKept DEF FinishCancels, Books, WorksOnLive
<1>11. CASE FinishEnds
  <2>1. IsTerminal(state'[cur]) /\ ~IsTerminal(state[cur]) /\ cur' = cur
    BY <1>11 DEF FinishEnds, Books, WorksOnLive, TypeOK
  <2>2. \A s \in Sessions \ {cur} : state'[s] = state[s]
    BY <1>11 DEF FinishEnds, TypeOK
  <2> QED
    BY <1>11, <2>1, <2>2 DEF FinishEnds, Books, WorksOnLive, RecordsEnded, EndRecordedOnce
<1>12. CASE FinishRecords
  <2>1. ends[cur] = 0 /\ ends'[cur] = 1 /\ IsTerminal(state[cur])
    BY <1>12 DEF FinishRecords, Books, RecordsEnded, EndRecordedOnce, TypeOK
  <2>2. \A s \in Sessions \ {cur} : ends'[s] = ends[s]
    BY <1>12 DEF FinishRecords, TypeOK
  <2> QED
    BY <1>12, <2>1, <2>2 DEF FinishRecords, Books, WorksOnLive, RecordsEnded, EndRecordedOnce
<1>13. ASSUME NEW k \in KillOutcomes, NEW f \in {"ok"} \cup FreezeFaults, Terminate(k, f)
       PROVE  Books'
  BY <1>13, BooksKept DEF Terminate, Books, WorksOnLive
<1>14. ASSUME NEW o \in KillOutcomes, RunClosure(o) PROVE Books'
  BY <1>14, BooksKept DEF RunClosure, FinishIfLive
<1>15. ASSUME NEW o \in KillOutcomes, FinishKills(o) PROVE Books'
  BY <1>15, BooksKept DEF FinishKills, Books, WorksOnLive
<1>16. ASSUME NEW r \in RequestIDs, NEW o \in {"ok"} \cup ThawFaults,
              ApprovalTakesEffect(r, o)
       PROVE  Books'
  <2>1. \A s \in Sessions : IsTerminal(state'[s]) <=> IsTerminal(state[s])
    <3>1. \/ state' = state
          \/ /\ state[req[r].session] = "suspended"
             /\ state' = [state EXCEPT ![req[r].session] = IF o = "ok" THEN "active" ELSE @]
      BY <1>16 DEF ApprovalTakesEffect, Resumes
    <3>2. state \in [Sessions -> {"active", "suspended"} \cup TerminalStates]
      BY DEF TypeOK
    <3> QED
      BY <3>1, <3>2
  <2> QED
    BY <1>16, <2>1 DEF ApprovalTakesEffect, Books, WorksOnLive, RecordsEnded,
                       EndRecordedOnce, TypeOK
<1> QED
  BY <1>1, <1>2, <1>3, <1>4, <1>5, <1>6, <1>7, <1>8, <1>9, <1>10, <1>11, <1>12,
     <1>13, <1>14, <1>15, <1>16, LoudSteps

\* The books are kept from the start.
LEMMA BooksInit == Init => Books
  BY DEF Init, Books, WorksOnLive, RecordsEnded, EndRecordedOnce, IsTerminal, TerminalStates

\* session_end is written once for every session that ended and for no other,
\* however many of the loop's ways to end it were taken (finish, failSessionAs).
THEOREM EndsAreRecordedOnce == Spec => []EndRecordedOnce
<1>1. Books => EndRecordedOnce
  BY DEF Books
<1>2. Spec => []Books
  BY InvHolds, BooksInit, BooksStep, PTL DEF Spec
<1> QED
  BY <1>1, <1>2, PTL

-----------------------------------------------------------------------------
(***************************************************************************)
(* What an ended session leaves behind.                                    *)
(***************************************************************************)
Contained(s) == tree[s] = "dead" \/ killErr[s]
Unasked(s) == OpenRequests(s) = {} /\ s \notin terminating

\* finish contains the tree before it withdraws the requests, and both before End.
Finished ==
  /\ at \in {"cancel", "end"} => Contained(cur)
  /\ at = "end" => Unasked(cur)
  /\ EndedIsContained

\* A dead tree stays dead, and a failed kill stays on record.
LEMMA ContainedStays ==
  ASSUME Inv, Next, NEW s \in Sessions, Contained(s) PROVE Contained(s)'
<1> TypeOK
  BY DEF Inv
<1> USE DEF TypeOK, Contained, loopVars, treeVars
<1>1. CASE QuietStep
  BY <1>1 DEF QuietStep, AgentActs, TreeExits, RefuseEvent, EndSession,
              EndSessionQueues, Enqueue, Resolve, RecordAnswer, DenyTakesEffect, Stop
<1>2. CASE \/ (\E x \in Sessions : ReapOrphan(x))
           \/ SuspendReads \/ Open \/ Emit \/ FailAll
           \/ FinishCancels \/ FinishEnds \/ FinishRecords
  BY <1>2 DEF ReapOrphan, SuspendReads, Open, Emit, FailAll, FinishCancels,
              FinishEnds, FinishRecords
<1>3. CASE \E x \in Sessions, a \in {"allow", "request_approval", "block"}, l \in BOOLEAN :
             TakeEvent(x, a, l)
  BY <1>3 DEF TakeEvent
<1>4. CASE \E o \in {"ok"} \cup FreezeFaults : SuspendFreezes(o)
  BY <1>4 DEF SuspendFreezes, Frozen
<1>5. CASE \E k \in KillOutcomes, f \in {"ok"} \cup FreezeFaults : Terminate(k, f)
  BY <1>5 DEF Terminate, Frozen
<1>6. ASSUME NEW o \in KillOutcomes, RunClosure(o) PROVE Contained(s)'
  <2>1. UNCHANGED treeVars \/ KillTree(Head(control).session, o)
    BY <1>6 DEF RunClosure
  <2> QED
    BY <2>1 DEF KillTree, Killed
<1>7. ASSUME NEW o \in KillOutcomes, FinishKills(o) PROVE Contained(s)'
  BY <1>7 DEF FinishKills, KillTree, Killed
<1>8. ASSUME NEW r \in RequestIDs, NEW o \in {"ok"} \cup ThawFaults,
             ApprovalTakesEffect(r, o)
      PROVE  Contained(s)'
  <2>1. killErr' = killErr /\ (tree' = tree
          \/ tree' = [tree EXCEPT ![req[r].session] = Thawed(@, o)])
    BY <1>8 DEF ApprovalTakesEffect, Resumes
  <2> QED
    BY <2>1 DEF Thawed
<1> QED
  BY <1>1, <1>2, <1>3, <1>4, <1>5, <1>6, <1>7, <1>8, LoudSteps

\* finish leaves the tree dead, or its failed kill on record.
LEMMA KillContains ==
  ASSUME Inv, NEW o \in KillOutcomes, FinishKills(o) PROVE Contained(cur)'
  BY DEF Inv, TypeOK, FinishKills, KillTree, Killed, KillOutcomes, Contained

\* A session nobody is asked about is asked about again only by open, which works
\* on a live session.
LEMMA UnaskedStays ==
  ASSUME Inv, Next, NEW s \in Sessions, Unasked(s), ~(Open /\ s = cur)
  PROVE  Unasked(s)'
<1> TypeOK
  BY DEF Inv
<1> USE DEF Unasked, OpenRequests
<1>1. CASE UNCHANGED approvalVars
  BY <1>1 DEF approvalVars
<1>2. CASE Open
  <2>1. cur # s /\ terminating' = terminating
    BY <1>2 DEF Open
  <2>2. \A q \in RequestIDs : req'[q].session = s /\ req'[q].phase = "open" =>
          req[q].session = s /\ req[q].phase = "open"
    <3>1. \/ req' = req
          \/ req' = [req EXCEPT ![opened + 1] = [@ EXCEPT !.phase = "open", !.session = cur]]
      BY <1>2 DEF Open
    <3>2. \A q \in RequestIDs : req'[q] = req[q] \/ req'[q].session = cur
      BY <3>1 DEF TypeOK, Request
    <3> QED
      BY <2>1, <3>2
  <2> QED
    BY <2>1, <2>2
<1>3. CASE FinishCancels
  <2>1. terminating' \subseteq terminating
    BY <1>3 DEF FinishCancels
  <2>2. \A q \in RequestIDs : req'[q].session = req[q].session /\
          (req'[q].phase = "open" => req[q].phase = "open")
    BY <1>3 DEF FinishCancels, TypeOK, Request
  <2> QED
    BY <2>1, <2>2
<1>4. ASSUME NEW r \in RequestIDs, NEW ok \in BOOLEAN, Resolve(r, ok) PROVE Unasked(s)'
  <2>1. req[r].session # s
    BY <1>4 DEF Resolve
  <2>2. terminating' \subseteq terminating \cup {req[r].session}
    BY <1>4 DEF Resolve
  <2>3. \A q \in RequestIDs : req'[q].session = req[q].session /\
          (req'[q].phase = "open" => req[q].phase = "open")
    BY <1>4 DEF Resolve, TypeOK, Request
  <2> QED
    BY <2>1, <2>2, <2>3
<1>5. ASSUME NEW r \in RequestIDs, AnswerStep(r) PROVE Unasked(s)'
  <2>1. terminating' = terminating
    BY <1>5 DEF AnswerStep, RecordAnswer, DenyTakesEffect, ApprovalTakesEffect
  <2>2. req' = [req EXCEPT ![r].phase = "recorded"] \/ req' = [req EXCEPT ![r].phase = "settled"]
    BY <1>5 DEF AnswerStep, RecordAnswer, DenyTakesEffect, ApprovalTakesEffect
  <2>3. \A q \in RequestIDs : req'[q].session = req[q].session /\
          (req'[q].phase = "open" => req[q].phase = "open")
    <3>1. CASE req' = [req EXCEPT ![r].phase = "recorded"]
      BY <3>1 DEF TypeOK, Request
    <3>2. CASE req' = [req EXCEPT ![r].phase = "settled"]
      BY <3>2 DEF TypeOK, Request
    <3> QED
      BY <2>2, <3>1, <3>2
  <2> QED
    BY <2>1, <2>3
<1>6. CASE PlainStep
  BY <1>6, <1>1 DEF PlainStep, AgentActs, TreeExits, RefuseEvent, ReapOrphan, EndSession,
                    TakeEvent, SuspendReads, SuspendFreezes, Emit, Stop, FailAll,
                    FinishEnds, FinishRecords, FinishKills, approvalVars
<1>7. CASE QueueStep
  BY <1>7, <1>1 DEF QueueStep, Terminate, RunClosure, Enqueue, EndSessionQueues,
                    approvalVars
<1> QED
  BY <1>2, <1>3, <1>4, <1>5, <1>6, <1>7, NextKinds DEF RequestStep

\* cancelSession leaves the session it is about with nothing asked.
LEMMA CancelUnasks ==
  ASSUME Inv, FinishCancels PROVE Unasked(cur)'
<1>1. \A q \in RequestIDs : req[q].session = cur => req'[q].phase # "open"
  BY DEF Inv, TypeOK, Request, FinishCancels, OpenRequests
<1>2. \A q \in RequestIDs : req'[q].session = req[q].session
  BY DEF Inv, TypeOK, Request, FinishCancels
<1> QED
  BY <1>1, <1>2 DEF FinishCancels, Unasked, OpenRequests

\* How the loop gets to the later parts of finish, and how a session ends.
LEMMA FinishOrder ==
  ASSUME Inv, Books, Next
  PROVE  /\ at' \in {"cancel", "end"} =>
              /\ cur' = cur
              /\ \/ at' = at
                 \/ at' = "cancel" /\ \E o \in KillOutcomes : FinishKills(o)
                 \/ at = "cancel" /\ at' = "end" /\ FinishCancels
         /\ \A s \in Sessions : IsTerminal(state'[s]) =>
              IsTerminal(state[s]) \/ (at = "end" /\ s = cur)
<1> TypeOK
  BY DEF Inv
<1> USE DEF TypeOK, loopVars, IsTerminal, TerminalStates
<1>1. CASE QuietStep
  BY <1>1, QuietIsQuiet
<1>2. CASE \/ (\E x \in Sessions : ReapOrphan(x))
           \/ SuspendReads \/ Open \/ Emit \/ FailAll
           \/ FinishCancels \/ FinishEnds \/ FinishRecords
  BY <1>2 DEF ReapOrphan, SuspendReads, Open, Emit, FailAll, FinishIfLive, FinishCancels,
              FinishEnds, FinishRecords
<1>3. CASE \E x \in Sessions, a \in {"allow", "request_approval", "block"}, l \in BOOLEAN :
             TakeEvent(x, a, l)
  BY <1>3 DEF TakeEvent, React
<1>4. CASE \E o \in {"ok"} \cup FreezeFaults : SuspendFreezes(o)
  BY <1>4 DEF SuspendFreezes
<1>5. CASE \E k \in KillOutcomes, f \in {"ok"} \cup FreezeFaults : Terminate(k, f)
  BY <1>5 DEF Terminate
<1>6. CASE \E o \in KillOutcomes : RunClosure(o) \/ FinishKills(o)
  BY <1>6 DEF RunClosure, FinishIfLive, FinishKills
<1>7. CASE \E r \in RequestIDs, o \in {"ok"} \cup ThawFaults : ApprovalTakesEffect(r, o)
  BY <1>7 DEF ApprovalTakesEffect, Resumes
<1> QED
  BY <1>1, <1>2, <1>3, <1>4, <1>5, <1>6, <1>7, LoudSteps

\* Every step keeps what finish promises.
LEMMA FinishedStep == Inv /\ Inv' /\ Books /\ Finished /\ [Next]_vars => Finished'
<1> SUFFICES ASSUME Inv, Inv', Books, Finished, [Next]_vars PROVE Finished'
  OBVIOUS
<1> cur \in Sessions /\ cur' \in Sessions
  BY DEF Inv, TypeOK
<1>1. CASE UNCHANGED vars
  BY <1>1 DEF vars, Finished, Contained, Unasked, OpenRequests, EndedIsContained, IsTerminal
<1>2. CASE Next
  <2>1. ASSUME at' \in {"cancel", "end"} PROVE Contained(cur)'
    <3>1. CASE at' = at \/ (at = "cancel" /\ at' = "end")
      BY <1>2, <2>1, <3>1, FinishOrder, ContainedStays DEF Finished, Contained
    <3>2. CASE \E o \in KillOutcomes : FinishKills(o)
      BY <3>2, KillContains
    <3> QED
      BY <1>2, <2>1, <3>1, <3>2, FinishOrder
  <2>2. ASSUME at' = "end" PROVE Unasked(cur)'
    <3>1. CASE at = "end"
      <4>1. Unasked(cur) /\ ~Open /\ cur' = cur
        BY <1>2, <2>2, <3>1, FinishOrder DEF Finished, Open
      <4> QED
        BY <1>2, <4>1, UnaskedStays DEF Unasked, OpenRequests
    <3>2. CASE FinishCancels
      BY <3>2, CancelUnasks
    <3> QED
      BY <1>2, <2>2, <3>1, <3>2, FinishOrder
  <2>3. ASSUME NEW s \in Sessions, IsTerminal(state'[s]) PROVE Contained(s)' /\ Unasked(s)'
    <3>1. IsTerminal(state[s]) \/ (at = "end" /\ s = cur)
      BY <1>2, <2>3, FinishOrder
    <3>2. Contained(s) /\ Unasked(s)
      BY <3>1 DEF Finished, EndedIsContained, Contained, Unasked
    <3>3. ~(Open /\ s = cur)
      BY <3>1 DEF Open, Books, WorksOnLive
    <3> QED
      BY <1>2, <3>2, <3>3, ContainedStays, UnaskedStays
  <2> QED
    BY <2>1, <2>2, <2>3 DEF Finished, EndedIsContained, Contained, Unasked, IsTerminal
<1> QED
  BY <1>1, <1>2

\* Nothing has ended at the start.
LEMMA FinishedInit == Init => Finished
  BY DEF Init, Finished, EndedIsContained, IsTerminal, TerminalStates

\* An ended session is contained: its processes are dead unless a kill failed, and
\* nobody is asked about it any more (finish, terminate, cancelSession together).
THEOREM EndedStaysContained == Spec => []EndedIsContained
<1>1. Finished => EndedIsContained
  BY DEF Finished
<1>2. Spec => [](Books /\ Finished)
  BY InvHolds, BooksInit, BooksStep, FinishedInit, FinishedStep, PTL DEF Spec
<1> QED
  BY <1>1, <1>2, PTL

-----------------------------------------------------------------------------
(***************************************************************************)
(* That a denial is carried out, or at least on its way.                   *)
(***************************************************************************)

\* A closure about s is in the control channel or behind it.
Queued(s) ==
  \/ \E i \in 1..Len(control) : control[i].session = s
  \/ \E c \in Closure : c.session = s /\ waiting[c] > 0

\* A goroutine holds a denial that has not taken effect.
Denied(s) ==
  \E r \in RequestIDs : /\ req[r].session = s /\ ~req[r].approved
                        /\ req[r].phase \in {"answered", "recorded"}

\* A request that was not opened yet is unused.
Fresh == \A q \in RequestIDs : q > opened => req[q].phase = "unused"

\* KillUnderway in these terms.
LEMMA UnderwayParts ==
  ASSUME NEW s \in Sessions
  PROVE  KillUnderway(s) <=> Denied(s) \/ Queued(s) \/ (cur = s /\ at \in {"finish", "cancel"})
  BY DEF KillUnderway, Denied, Queued

\* What is appended to the control channel stands behind what was there.
LEMMA AppendQueues ==
  ASSUME TypeOK, NEW c \in Closure, control' = Append(control, c), NEW s \in Sessions
  PROVE  /\ \E i \in 1..Len(control') : control'[i].session = c.session
         /\ (\E i \in 1..Len(control) : control[i].session = s) =>
              \E i \in 1..Len(control') : control'[i].session = s
<1>1. control \in Seq(Closure) /\ Len(control) \in Nat
  BY DEF TypeOK
<1>2. Len(control') = Len(control) + 1 /\ control'[Len(control) + 1] = c
  BY <1>1
<1>3. \A i \in 1..Len(control) : control'[i] = control[i]
  BY <1>1
<1> QED
  BY <1>1, <1>2, <1>3

\* later queues its closure, in the channel or behind it, and loses none.
LEMMA LaterQueues ==
  ASSUME TypeOK, NEW c \in Closure, Later(c), NEW s \in Sessions
  PROVE  Queued(c.session)' /\ (Queued(s) => Queued(s)')
<1>1. CASE Len(control) < ControlCap
  <2>1. control' = Append(control, c) /\ waiting' = waiting
    BY <1>1 DEF Later
  <2> QED
    BY <2>1, AppendQueues DEF Queued
<1>2. CASE ~(Len(control) < ControlCap)
  <2>1. control' = control /\ waiting' = [waiting EXCEPT ![c] = @ + 1]
    BY <1>2 DEF Later
  <2>2. waiting \in [Closure -> Nat]
    BY DEF TypeOK
  <2>3. waiting'[c] > 0 /\ \A d \in Closure : waiting[d] > 0 => waiting'[d] > 0
    BY <2>1, <2>2
  <2> QED
    BY <2>1, <2>3 DEF Queued
<1> QED
  BY <1>1, <1>2

\* A closure that is queued stays queued until the loop runs it.
LEMMA QueuedStays ==
  ASSUME Inv, Next, NEW s \in Sessions, Queued(s)
  PROVE  \/ Queued(s)'
         \/ \E o \in KillOutcomes : RunClosure(o) /\ Head(control).session = s
<1> TypeOK
  BY DEF Inv
<1>1. ASSUME NEW k \in KillOutcomes, NEW f \in {"ok"} \cup FreezeFaults, Terminate(k, f)
      PROVE  Queued(s)'
  <2> DEFINE c == [kill |-> FALSE, session |-> cur,
                   result |-> IF k = "ok" THEN "terminated" ELSE "failed"]
  <2>1. c \in Closure
    BY ClosureType DEF TypeOK, TerminalStates
  <2>2. Later(c)
    BY <1>1 DEF Terminate
  <2> HIDE DEF c
  <2> QED
    BY <2>1, <2>2, LaterQueues
<1>2. ASSUME NEW o \in KillOutcomes, RunClosure(o), Head(control).session # s
      PROVE  Queued(s)'
  <2>1. /\ control \in Seq(Closure) /\ Len(control) \in Nat /\ control # <<>>
        /\ control' = Tail(control) /\ waiting' = waiting
    BY <1>2 DEF RunClosure, TypeOK
  <2>2. ASSUME NEW i \in 1..Len(control), control[i].session = s
        PROVE  \E j \in 1..Len(control') : control'[j].session = s
    <3>1. i # 1
      BY <1>2, <2>1, <2>2
    <3>2. i - 1 \in 1..Len(control') /\ control'[i - 1] = control[i]
      BY <2>1, <3>1
    <3> QED
      BY <2>2, <3>2
  <2> QED
    BY <2>1, <2>2 DEF Queued
<1>3. ASSUME NEW c \in Closure, Enqueue(c) PROVE Queued(s)'
  <2>1. control' = Append(control, c) /\ waiting' = [waiting EXCEPT ![c] = @ - 1]
    BY <1>3 DEF Enqueue
  <2>2. waiting \in [Closure -> Nat]
    BY DEF TypeOK
  <2>3. \A d \in Closure : d # c => waiting'[d] = waiting[d]
    BY <2>1, <2>2
  <2> QED
    BY <2>1, <2>3, AppendQueues DEF Queued
<1>4. ASSUME NEW x \in Sessions, EndSessionQueues(x) PROVE Queued(s)'
  <2> DEFINE c == [kill |-> FALSE, session |-> x, result |-> "completed"]
  <2>1. c \in Closure
    BY ClosureType DEF TerminalStates
  <2>2. control' = Append(control, c) /\ waiting' = waiting
    BY <1>4 DEF EndSessionQueues
  <2> HIDE DEF c
  <2> QED
    BY <2>1, <2>2, AppendQueues DEF Queued
<1>5. ASSUME NEW r \in RequestIDs, DenyTakesEffect(r) PROVE Queued(s)'
  <2> DEFINE c == [kill |-> TRUE, session |-> req[r].session, result |-> "terminated"]
  <2>1. c \in Closure
    BY ClosureType DEF TypeOK, Request, TerminalStates
  <2>2. Later(c)
    BY <1>5 DEF DenyTakesEffect
  <2> HIDE DEF c
  <2> QED
    BY <2>1, <2>2, LaterQueues
<1>6. ASSUME UNCHANGED queueVars PROVE Queued(s)'
  BY <1>6 DEF queueVars, Queued
<1>7. CASE PlainStep
  BY <1>6, <1>7 DEF PlainStep, AgentActs, TreeExits, RefuseEvent, ReapOrphan, EndSession,
                    TakeEvent, SuspendReads, SuspendFreezes, Emit, Stop, FailAll,
                    FinishEnds, FinishRecords, FinishKills, queueVars
<1>8. CASE Open \/ FinishCancels
  BY <1>6, <1>8 DEF Open, FinishCancels
<1>9. ASSUME NEW r \in RequestIDs, NEW ok \in BOOLEAN, Resolve(r, ok) PROVE Queued(s)'
  BY <1>6, <1>9 DEF Resolve
<1>10. ASSUME NEW r \in RequestIDs,
              RecordAnswer(r) \/ \E o \in {"ok"} \cup ThawFaults : ApprovalTakesEffect(r, o)
       PROVE  Queued(s)'
  BY <1>6, <1>10 DEF RecordAnswer, ApprovalTakesEffect
<1> QED
  BY <1>1, <1>2, <1>3, <1>4, <1>5, <1>7, <1>8, <1>9, <1>10,
     NextKinds DEF QueueStep, RequestStep, AnswerStep

\* A denial stays with its goroutine until it is queued.
LEMMA DeniedStays ==
  ASSUME Inv, Fresh, Next, NEW s \in Sessions, Denied(s)
  PROVE  Denied(s)' \/ Queued(s)'
<1> TypeOK
  BY DEF Inv
<1> PICK d \in RequestIDs : /\ req[d].session = s /\ ~req[d].approved
                            /\ req[d].phase \in {"answered", "recorded"}
  BY DEF Denied
<1>1. CASE UNCHANGED req
  BY <1>1 DEF Denied
<1>2. CASE Open
  <2>1. opened + 1 # d /\ opened \in Nat
    BY <1>2 DEF Fresh, RequestIDs, TypeOK
  <2>2. \/ req' = req
         \/ req' = [req EXCEPT ![opened + 1] = [@ EXCEPT !.phase = "open", !.session = cur]]
    BY <1>2 DEF Open
  <2>3. req'[d] = req[d]
    BY <2>1, <2>2 DEF TypeOK
  <2> QED
    BY <2>3 DEF Denied
<1>3. CASE FinishCancels
  <2>1. d \notin OpenRequests(cur)
    BY DEF OpenRequests
  <2>2. req'[d] = req[d]
    BY <1>3, <2>1 DEF FinishCancels
  <2> QED
    BY <2>2 DEF Denied
<1>4. ASSUME NEW r \in RequestIDs, NEW ok \in BOOLEAN, Resolve(r, ok) PROVE Denied(s)'
  <2>1. d # r /\ d \notin OpenRequests(req[r].session)
    BY <1>4 DEF Resolve, OpenRequests
  <2>2. req'[d] = req[d]
    BY <1>4, <2>1 DEF Resolve
  <2> QED
    BY <2>2 DEF Denied
<1>5. ASSUME NEW r \in RequestIDs, RecordAnswer(r) PROVE Denied(s)'
  <2>1. req' = [req EXCEPT ![r].phase = "recorded"]
    BY <1>5 DEF RecordAnswer
  <2>2. /\ req'[d].session = req[d].session /\ req'[d].approved = req[d].approved
        /\ req'[d].phase \in {"answered", "recorded"}
    BY <2>1 DEF TypeOK, Request
  <2> QED
    BY <2>2 DEF Denied
<1>6. ASSUME NEW r \in RequestIDs, DenyTakesEffect(r) PROVE Denied(s)' \/ Queued(s)'
  <2>1. CASE r = d
    <3> DEFINE c == [kill |-> TRUE, session |-> s, result |-> "terminated"]
    <3>1. c \in Closure /\ c.session = s
      BY ClosureType DEF TerminalStates
    <3>2. Later(c)
      BY <1>6, <2>1 DEF DenyTakesEffect
    <3> HIDE DEF c
    <3>3. Queued(c.session)'
      BY <3>1, <3>2, LaterQueues
    <3> QED
      BY <3>1, <3>3 DEF Queued
  <2>2. CASE r # d
    <3>1. req'[d] = req[d]
      BY <1>6, <2>2 DEF DenyTakesEffect, TypeOK
    <3> QED
      BY <3>1 DEF Denied
  <2> QED
    BY <2>1, <2>2
<1>7. ASSUME NEW r \in RequestIDs, NEW o \in {"ok"} \cup ThawFaults, ApprovalTakesEffect(r, o)
      PROVE  Denied(s)'
  <2>1. r # d
    BY <1>7 DEF ApprovalTakesEffect
  <2>2. req'[d] = req[d]
    BY <1>7, <2>1 DEF ApprovalTakesEffect, TypeOK
  <2> QED
    BY <2>2 DEF Denied
<1>8. CASE PlainStep
  BY <1>1, <1>8 DEF PlainStep, AgentActs, TreeExits, RefuseEvent, ReapOrphan, EndSession,
                    TakeEvent, SuspendReads, SuspendFreezes, Emit, Stop, FailAll,
                    FinishEnds, FinishRecords, FinishKills, approvalVars
<1>9. CASE QueueStep
  BY <1>1, <1>9 DEF QueueStep, Terminate, RunClosure, Enqueue, EndSessionQueues, approvalVars
<1> QED
  BY <1>2, <1>3, <1>4, <1>5, <1>6, <1>7, <1>8, <1>9, NextKinds DEF RequestStep, AnswerStep

\* A request is used from the moment it is opened, and never before.
LEMMA FreshStep == Inv /\ Fresh /\ [Next]_vars => Fresh'
<1> SUFFICES ASSUME Inv, Fresh, [Next]_vars PROVE Fresh'
  OBVIOUS
<1> TypeOK
  BY DEF Inv
<1>1. CASE UNCHANGED approvalVars
  BY <1>1 DEF approvalVars, Fresh
<1>2. CASE Open
  <2>1. CASE UNCHANGED <<opened, req>>
    BY <2>1 DEF Fresh
  <2>2. CASE /\ opened' = opened + 1
             /\ req' = [req EXCEPT ![opened + 1] = [@ EXCEPT !.phase = "open", !.session = cur]]
    <3>1. opened \in Int /\ \A q \in RequestIDs : q \in Int
      BY DEF TypeOK, RequestIDs
    <3>2. ASSUME NEW q \in RequestIDs, q > opened' PROVE req'[q].phase = "unused"
      <4>1. q > opened /\ q # opened + 1
        BY <2>2, <3>1, <3>2
      <4>2. req'[q] = req[q]
        BY <2>2, <4>1 DEF TypeOK
      <4> QED
        BY <4>1, <4>2 DEF Fresh
    <3> QED
      BY <3>2 DEF Fresh
  <2> QED
    BY <1>2, <2>1, <2>2 DEF Open
<1>3. CASE FinishCancels
  BY <1>3 DEF FinishCancels, Fresh, OpenRequests
<1>4. ASSUME NEW r \in RequestIDs, NEW ok \in BOOLEAN, Resolve(r, ok) PROVE Fresh'
  <2>1. \A q \in RequestIDs : req[q].phase = "unused" =>
          q # r /\ q \notin OpenRequests(req[r].session)
    BY <1>4 DEF Resolve, OpenRequests
  <2> QED
    BY <1>4, <2>1 DEF Resolve, Fresh
<1>5. ASSUME NEW r \in RequestIDs, AnswerStep(r) PROVE Fresh'
  <2>1. opened' = opened /\ req[r].phase # "unused" /\
        \A q \in RequestIDs \ {r} : req'[q] = req[q]
    BY <1>5 DEF AnswerStep, RecordAnswer, DenyTakesEffect, ApprovalTakesEffect, TypeOK
  <2> QED
    BY <2>1 DEF Fresh
<1>6. CASE UNCHANGED vars
  BY <1>6 DEF vars, Fresh
<1>7. CASE PlainStep
  BY <1>1, <1>7 DEF PlainStep, AgentActs, TreeExits, RefuseEvent, ReapOrphan, EndSession,
                    TakeEvent, SuspendReads, SuspendFreezes, Emit, Stop, FailAll,
                    FinishEnds, FinishRecords, FinishKills
<1>8. CASE QueueStep
  BY <1>1, <1>8 DEF QueueStep, Terminate, RunClosure, Enqueue, EndSessionQueues
<1> QED
  BY <1>2, <1>3, <1>4, <1>5, <1>6, <1>7, <1>8, NextKinds DEF RequestStep

\* Nothing has been asked at the start.
LEMMA FreshInit == Init => Fresh
  BY DEF Init, Fresh

\* Only the loop moves on from finish and cancelSession, and in their order.
LEMMA WorkStays ==
  ASSUME Next, at \in {"finish", "cancel", "end"}
  PROVE  /\ cur' = cur
         /\ \/ at' = at
            \/ at' = "cancel" /\ \E o \in KillOutcomes : FinishKills(o)
            \/ at' = "end" /\ FinishCancels
            \/ FinishEnds
<1>1. CASE QuietStep
  BY <1>1, QuietIsQuiet
<1>2. CASE ~QuietStep
  BY <1>2, LoudSteps
     DEF ReapOrphan, TakeEvent, SuspendReads, SuspendFreezes, Open, Emit, FailAll,
         FinishCancels, FinishEnds, FinishRecords, Terminate, RunClosure, FinishKills,
         ApprovalTakesEffect, loopVars
<1> QED
  BY <1>1, <1>2

\* A kill that is underway for a live session stays underway until its session's
\* requests are withdrawn: whatever queues, runs or answers in between.
LEMMA UnderwayStays ==
  ASSUME Inv, Fresh, Next, NEW s \in Sessions, KillUnderway(s), ~IsTerminal(state[s])
  PROVE  KillUnderway(s)' \/ (FinishCancels /\ cur = s)
<1>1. KillUnderway(s)' <=>
        Denied(s)' \/ Queued(s)' \/ (cur' = s /\ at' \in {"finish", "cancel"})
  BY DEF KillUnderway, Denied, Queued
<1>2. CASE Denied(s)
  BY <1>1, <1>2, DeniedStays
<1>3. CASE Queued(s)
  <2>1. ASSUME NEW o \in KillOutcomes, RunClosure(o), Head(control).session = s
        PROVE  cur' = s /\ at' = "finish"
    BY <2>1 DEF RunClosure, FinishIfLive
  <2> QED
    BY <1>1, <1>3, <2>1, QueuedStays
<1>4. CASE cur = s /\ at \in {"finish", "cancel"}
  BY <1>1, <1>4, WorkStays DEF FinishEnds
<1> QED
  BY <1>2, <1>3, <1>4, UnderwayParts

\* A session is marked terminating only by a denial, and unmarked by cancelSession.
LEMMA MarkedByDenial ==
  ASSUME Inv, Next, NEW s \in Sessions, s \in terminating'
  PROVE  /\ s \in terminating \/ Denied(s)'
         /\ ~(FinishCancels /\ cur = s)
<1> TypeOK
  BY DEF Inv
<1>1. CASE Open \/ \E r \in RequestIDs : AnswerStep(r)
  BY <1>1 DEF Open, FinishCancels, AnswerStep, RecordAnswer, DenyTakesEffect, ApprovalTakesEffect
<1>2. CASE FinishCancels
  BY <1>2 DEF FinishCancels
<1>3. ASSUME NEW r \in RequestIDs, NEW ok \in BOOLEAN, Resolve(r, ok)
      PROVE  (s \in terminating \/ Denied(s)') /\ ~FinishCancels
  <2>1. ~FinishCancels
    BY <1>3 DEF Resolve, FinishCancels, loopVars
  <2>2. CASE s \notin terminating
    <3>1. ~ok /\ req[r].session = s
      BY <1>3, <2>2 DEF Resolve
    <3>2. req'[r].session = s /\ ~req'[r].approved /\ req'[r].phase = "answered"
      BY <1>3, <3>1 DEF Resolve
    <3> QED
      BY <2>1, <3>2 DEF Denied
  <2> QED
    BY <2>1, <2>2
<1>4. CASE PlainStep
  BY <1>4 DEF PlainStep, AgentActs, TreeExits, RefuseEvent, ReapOrphan, EndSession,
              TakeEvent, SuspendReads, SuspendFreezes, Emit, Stop, FailAll, FinishEnds,
              FinishRecords, FinishKills, FinishCancels, approvalVars
<1>5. CASE QueueStep
  BY <1>5 DEF QueueStep, Terminate, RunClosure, Enqueue, EndSessionQueues, FinishCancels,
              approvalVars
<1> QED
  BY <1>1, <1>2, <1>3, <1>4, <1>5, NextKinds DEF RequestStep

\* Once Run has returned it does not start again.
LEMMA StoppingStays == Next /\ stopping => stopping'
<1> SUFFICES ASSUME Next, stopping PROVE stopping'
  OBVIOUS
<1>1. CASE PlainStep
  BY <1>1 DEF PlainStep, AgentActs, TreeExits, RefuseEvent, ReapOrphan, EndSession,
              TakeEvent, SuspendReads, SuspendFreezes, Emit, Stop, FailAll, FinishEnds,
              FinishRecords, FinishKills, loopVars
<1>2. CASE QueueStep
  BY <1>2 DEF QueueStep, Terminate, RunClosure, Enqueue, EndSessionQueues, loopVars
<1>3. CASE RequestStep
  BY <1>3 DEF RequestStep, Open, FinishCancels, AnswerStep, RecordAnswer,
              DenyTakesEffect, ApprovalTakesEffect, Resolve, loopVars
<1> QED
  BY <1>1, <1>2, <1>3, NextKinds

\* What this module knows so far, of every reachable state.
Known == Inv /\ Books /\ Finished /\ Fresh

\* Known holds throughout.
LEMMA KnownHolds == Spec => []Known
  BY InvHolds, BooksInit, BooksStep, FinishedInit, FinishedStep, FreshInit, FreshStep, PTL
  DEF Spec, Known

\* A denial is carried by every step until the session is ended.
LEMMA DenialStep == Known /\ DenialNeverLost /\ [Next]_vars => DenialNeverLost'
<1> SUFFICES ASSUME Known, DenialNeverLost, [Next]_vars, NEW s \in Sessions, s \in terminating'
             PROVE  KillUnderway(s)' \/ stopping'
  <2>1. Known /\ [Next]_vars => terminating' \subseteq Sessions
    BY NextInv DEF Known, Inv, TypeOK
  <2> QED
    BY <2>1 DEF DenialNeverLost
<1>1. CASE UNCHANGED vars
  BY <1>1 DEF vars, DenialNeverLost, KillUnderway
<1>2. CASE Next
  <2>1. CASE s \notin terminating
    <3>1. Denied(s)'
      BY <1>2, <2>1, MarkedByDenial DEF Known
    <3> QED
      BY <3>1 DEF Denied, KillUnderway
  <2>2. CASE s \in terminating
    <3>1. ~IsTerminal(state[s])
      BY <2>2 DEF Known, Finished, EndedIsContained
    <3>2. KillUnderway(s) \/ stopping
      BY <2>2 DEF DenialNeverLost
    <3>3. ~(FinishCancels /\ cur = s)
      BY <1>2, MarkedByDenial DEF Known
    <3> QED
      BY <1>2, <3>1, <3>2, <3>3, UnderwayStays, StoppingStays DEF Known
  <2> QED
    BY <2>1, <2>2
<1> QED
  BY <1>1, <1>2

\* A denial is never lost: from resolve through the audit write, a control channel
\* full or not, and the loop, something that will end the session is underway.
THEOREM DenialsAreCarriedOut == Spec => []DenialNeverLost
<1>1. Init => DenialNeverLost
  BY DEF Init, DenialNeverLost
<1> QED
  BY <1>1, KnownHolds, DenialStep, PTL DEF Spec

-----------------------------------------------------------------------------
(***************************************************************************)
(* That a frozen agent is never forgotten.                                 *)
(***************************************************************************)

\* An answer that will resume s when it takes effect.
WillResume(s) ==
  \E r \in RequestIDs : /\ req[r].session = s /\ req[r].phase \in {"answered", "recorded"}
                        /\ req[r].approved /\ req[r].last /\ ~req[r].doomed

\* The session's end is underway.
EndUnderway(s) ==
  \/ KillUnderway(s)
  \/ cur = s /\ at \in {"finish", "cancel", "end"}
  \/ stopping

\* What SuspendedIsAwaited needs to be kept by every step: of the answers on their
\* way, only one that will resume the session counts.
Awaited(s) ==
  state[s] = "suspended" =>
    \/ OpenRequests(s) # {}
    \/ WillResume(s)
    \/ cur = s /\ at = "open"
    \/ EndUnderway(s)

AllAwaited == \A s \in Sessions : Awaited(s)

\* An end that is underway stays so until the session has ended.
LEMMA EndUnderwayStays ==
  ASSUME Known, Next, NEW s \in Sessions, EndUnderway(s), ~IsTerminal(state[s]),
         state'[s] = "suspended"
  PROVE  EndUnderway(s)'
<1>1. CASE KillUnderway(s)
  <2>1. KillUnderway(s)' \/ (FinishCancels /\ cur = s)
    BY <1>1, UnderwayStays DEF Known
  <2> QED
    BY <2>1 DEF EndUnderway, FinishCancels
<1>2. CASE cur = s /\ at \in {"finish", "cancel", "end"}
  <2>1. ~FinishEnds
    BY <1>2 DEF FinishEnds, Known, Inv, TypeOK, TerminalStates
  <2> QED
    BY <1>2, <2>1, WorkStays DEF EndUnderway
<1>3. CASE stopping
  BY <1>3, StoppingStays DEF EndUnderway
<1> QED
  BY <1>1, <1>2, <1>3 DEF EndUnderway

\* Only the loop suspends, and it goes on to ask.
LEMMA SuspendsToAsk ==
  ASSUME Inv, Next, NEW s \in Sessions, state'[s] = "suspended", state[s] # "suspended"
  PROVE  cur' = s /\ at' = "open"
<1> TypeOK
  BY DEF Inv
<1> USE DEF TypeOK, TerminalStates
<1>1. CASE QuietStep
  BY <1>1, QuietIsQuiet
<1>2. ASSUME NEW o \in {"ok"} \cup FreezeFaults, SuspendFreezes(o) PROVE cur' = s /\ at' = "open"
  BY <1>2 DEF SuspendFreezes
<1>3. CASE FinishEnds
  BY <1>3 DEF FinishEnds
<1>4. ASSUME NEW r \in RequestIDs, NEW o \in {"ok"} \cup ThawFaults, ApprovalTakesEffect(r, o)
      PROVE  FALSE
  BY <1>4 DEF ApprovalTakesEffect, Resumes
<1>5. CASE state' = state
  BY <1>5
<1> QED
  BY <1>1, <1>2, <1>3, <1>4, <1>5, LoudSteps
     DEF ReapOrphan, TakeEvent, SuspendReads, Open, Emit, FailAll, FinishCancels,
         FinishRecords, Terminate, RunClosure, FinishKills

\* Opening a request either asks about the session or leaves it to its end.
LEMMA OpenAwaits ==
  ASSUME Known, DenialNeverLost, Open, NEW s \in Sessions, cur = s
  PROVE  OpenRequests(s)' # {} \/ EndUnderway(s)'
<1> TypeOK
  BY DEF Known, Inv
<1>1. CASE s \in terminating
  <2>1. KillUnderway(s) \/ stopping
    BY <1>1 DEF DenialNeverLost
  <2>2. KillUnderway(s)' \/ stopping'
    BY <1>1, <2>1 DEF Open, KillUnderway, queueVars
  <2> QED
    BY <2>2 DEF EndUnderway, Open
<1>2. CASE s \notin terminating
  <2>1. opened + 1 \in RequestIDs
    BY BoundsNatural DEF Open, Known, Inv, RoomToOpen, TypeOK, RequestIDs
  <2>2. req'[opened + 1].phase = "open" /\ req'[opened + 1].session = s
    <3>1. req \in [RequestIDs -> Request]
      BY DEF TypeOK
    <3>2. req[opened + 1] \in Request
      BY <2>1, <3>1
    <3>3. req' = [req EXCEPT ![opened + 1] = [req[opened + 1] EXCEPT !.phase = "open",
                                                                     !.session = cur]]
      BY <1>2, <2>1, <3>1 DEF Open
    <3>4. req'[opened + 1] = [req[opened + 1] EXCEPT !.phase = "open", !.session = cur]
      BY <2>1, <3>1, <3>3
    <3> QED
      BY <3>2, <3>4 DEF Request
  <2> QED
    BY <2>1, <2>2 DEF OpenRequests, Open
<1> QED
  BY <1>1, <1>2

\* An answer leaves its session with another request open, with itself to resume
\* it, or with the kill it asked for.
LEMMA ResolveAwaits ==
  ASSUME Known, NEW r \in RequestIDs, NEW ok \in BOOLEAN, Resolve(r, ok),
         NEW s \in Sessions, req[r].session = s
  PROVE  OpenRequests(s)' # {} \/ WillResume(s)' \/ Denied(s)'
<1>1. CASE ~ok
  <2>1. req'[r].session = s /\ ~req'[r].approved /\ req'[r].phase = "answered"
    BY <1>1 DEF Resolve
  <2> QED
    BY <2>1 DEF Denied
<1>2. CASE ok /\ LastOpen(r)
  <2>1. s \notin terminating
    BY DEF Known, Inv, NoQuestionAfterDenial, OpenRequests, Resolve
  <2>2. /\ req'[r].session = s /\ req'[r].approved /\ req'[r].phase = "answered"
        /\ req'[r].last /\ ~req'[r].doomed
    BY <1>2, <2>1 DEF Resolve
  <2> QED
    BY <2>2 DEF WillResume
<1>3. CASE ok /\ ~LastOpen(r)
  <2>1. PICK q \in RequestIDs : q # r /\ req[q].phase = "open" /\ req[q].session = s
    BY <1>3 DEF LastOpen, OpenRequests
  <2>2. req'[q] = req[q]
    BY <1>3, <2>1 DEF Resolve
  <2> QED
    BY <2>1, <2>2 DEF OpenRequests
<1> QED
  BY <1>1, <1>2, <1>3

\* What can happen to a request that was opened: its session's requests are
\* withdrawn or answered, or its own answer goes on.
LEMMA RequestKept ==
  ASSUME Inv, Fresh, Next, NEW q \in RequestIDs, req[q].phase # "unused"
  PROVE  \/ req'[q] = req[q]
         \/ req[q].phase = "open" /\ FinishCancels /\ cur = req[q].session
         \/ req[q].phase = "open" /\ \E r \in RequestIDs, ok \in BOOLEAN :
              Resolve(r, ok) /\ req[r].session = req[q].session
         \/ AnswerStep(q)
<1> TypeOK
  BY DEF Inv
<1>1. CASE UNCHANGED approvalVars
  BY <1>1 DEF approvalVars
<1>2. CASE Open
  <2>1. opened + 1 # q /\ opened \in Nat
    BY <1>2 DEF Fresh, RequestIDs, TypeOK
  <2>2. \/ req' = req
         \/ req' = [req EXCEPT ![opened + 1] = [@ EXCEPT !.phase = "open", !.session = cur]]
    BY <1>2 DEF Open
  <2> QED
    BY <2>1, <2>2 DEF TypeOK
<1>3. CASE FinishCancels
  BY <1>3 DEF FinishCancels, OpenRequests
<1>4. ASSUME NEW r \in RequestIDs, NEW ok \in BOOLEAN, Resolve(r, ok)
      PROVE  \/ req'[q] = req[q]
             \/ req[q].phase = "open" /\ req[r].session = req[q].session
  BY <1>4 DEF Resolve, OpenRequests
<1>5. ASSUME NEW r \in RequestIDs, AnswerStep(r), r # q PROVE req'[q] = req[q]
  BY <1>5 DEF AnswerStep, RecordAnswer, DenyTakesEffect, ApprovalTakesEffect, TypeOK
<1>6. CASE PlainStep
  BY <1>1, <1>6 DEF PlainStep, AgentActs, TreeExits, RefuseEvent, ReapOrphan, EndSession,
                    TakeEvent, SuspendReads, SuspendFreezes, Emit, Stop, FailAll,
                    FinishEnds, FinishRecords, FinishKills
<1>7. CASE QueueStep
  BY <1>1, <1>7 DEF QueueStep, Terminate, RunClosure, Enqueue, EndSessionQueues
<1> QED
  BY <1>2, <1>3, <1>4, <1>5, <1>6, <1>7, NextKinds DEF RequestStep

\* The loop moves on from open by opening.
LEMMA OpenPoint == Next /\ at = "open" => Open \/ (at' = "open" /\ cur' = cur)
<1> SUFFICES ASSUME Next, at = "open" PROVE Open \/ (at' = "open" /\ cur' = cur)
  OBVIOUS
<1>1. CASE QuietStep
  BY <1>1, QuietIsQuiet
<1>2. CASE ~QuietStep
  BY <1>2, LoudSteps
     DEF ReapOrphan, TakeEvent, SuspendReads, SuspendFreezes, Emit, FailAll,
         FinishCancels, FinishEnds, FinishRecords, Terminate, RunClosure, FinishKills,
         ApprovalTakesEffect, loopVars
<1> QED
  BY <1>1, <1>2

\* Where thaws do not fail, every step leaves a suspended session something to
\* wait for.
LEMMA AwaitedStep ==
  ASSUME ThawFaults = {}, Known, DenialNeverLost, AllAwaited, [Next]_vars
  PROVE  AllAwaited'
<1> SUFFICES ASSUME NEW s \in Sessions, state'[s] = "suspended"
             PROVE  \/ OpenRequests(s)' # {} \/ WillResume(s)'
                    \/ (cur' = s /\ at' = "open") \/ EndUnderway(s)'
  BY DEF AllAwaited, Awaited
<1> TypeOK
  BY DEF Known, Inv
<1>1. CASE UNCHANGED vars
  BY <1>1 DEF vars, AllAwaited, Awaited, OpenRequests, WillResume, EndUnderway, KillUnderway
<1>2. CASE Next /\ state[s] # "suspended"
  BY <1>2, SuspendsToAsk DEF Known
<1>3. CASE Next /\ EndUnderway(s) /\ state[s] = "suspended"
  BY <1>3, EndUnderwayStays DEF IsTerminal, TerminalStates
<1>4. CASE Next /\ cur = s /\ at = "open"
  BY <1>4, OpenPoint, OpenAwaits
<1>5. CASE Next /\ OpenRequests(s) # {}
  <2>1. PICK q \in RequestIDs : req[q].phase = "open" /\ req[q].session = s
    BY <1>5 DEF OpenRequests
  <2>2. CASE req'[q] = req[q]
    BY <2>1, <2>2 DEF OpenRequests
  <2>3. CASE FinishCancels /\ cur = s
    BY <2>3 DEF FinishCancels, EndUnderway
  <2>4. ASSUME NEW r \in RequestIDs, NEW ok \in BOOLEAN, Resolve(r, ok), req[r].session = s
        PROVE  OpenRequests(s)' # {} \/ WillResume(s)' \/ EndUnderway(s)'
    <3>1. Denied(s)' => EndUnderway(s)'
      BY DEF Denied, EndUnderway, KillUnderway
    <3> QED
      BY <2>4, <3>1, ResolveAwaits
  <2>5. ~AnswerStep(q)
    BY <2>1 DEF AnswerStep, RecordAnswer, DenyTakesEffect, ApprovalTakesEffect
  <2> QED
    BY <1>5, <2>1, <2>2, <2>3, <2>4, <2>5, RequestKept DEF Known
<1>6. CASE Next /\ WillResume(s)
  <2>1. PICK d \in RequestIDs :
          /\ req[d].session = s /\ req[d].phase \in {"answered", "recorded"}
          /\ req[d].approved /\ req[d].last /\ ~req[d].doomed
    BY <1>6 DEF WillResume
  <2>2. CASE req'[d] = req[d]
    BY <2>1, <2>2 DEF WillResume
  <2>3. CASE RecordAnswer(d)
    <3>1. /\ req'[d].session = s /\ req'[d].phase = "recorded"
          /\ req'[d].approved /\ req'[d].last /\ ~req'[d].doomed
      BY <2>1, <2>3 DEF RecordAnswer, TypeOK, Request
    <3> QED
      BY <3>1 DEF WillResume
  <2>4. ~ApprovalTakesEffect(d, "ok")
    BY <2>1 DEF ApprovalTakesEffect, Resumes, TypeOK
  <2>5. ~DenyTakesEffect(d)
    BY <2>1 DEF DenyTakesEffect
  <2>6. req'[d] = req[d] \/ AnswerStep(d)
    BY <1>6, <2>1, RequestKept DEF Known
  <2> QED
    BY <2>2, <2>3, <2>4, <2>5, <2>6 DEF AnswerStep
<1> QED
  BY <1>1, <1>2, <1>3, <1>4, <1>5, <1>6 DEF AllAwaited, Awaited

\* A suspended session always has somebody or something to wait for, when thaws do
\* not fail: it is never left frozen by two answers that each leave the resume to
\* the other (resolve, open, suspend and finish together).
THEOREM SuspendedHasAnAnswer == ThawFaults = {} => (Spec => []SuspendedIsAwaited)
<1> SUFFICES ASSUME ThawFaults = {} PROVE Spec => []SuspendedIsAwaited
  OBVIOUS
<1>1. Init => AllAwaited
  BY DEF Init, AllAwaited, Awaited
<1>2. Known /\ DenialNeverLost /\ AllAwaited /\ [Next]_vars => AllAwaited'
  BY AwaitedStep
<1>3. AllAwaited => SuspendedIsAwaited
  BY DEF AllAwaited, Awaited, SuspendedIsAwaited, WillResume, EndUnderway
<1> QED
  BY <1>1, <1>2, <1>3, KnownHolds, DenialsAreCarriedOut, PTL DEF Spec

-----------------------------------------------------------------------------
(***************************************************************************)
(* What approvals.go says of a frozen session, where the race of an answer *)
(* with a new question is not lost.                                        *)
(*                                                                         *)
(* FrozenWhileAsked is refuted by a thaw decided before a question was     *)
(* asked.  Here that is the only way: when no thaw takes effect under an   *)
(* open request, or while the loop is about to open one for a session it   *)
(* found suspended, a session is not thawed until every request is         *)
(* answered.                                                               *)
(***************************************************************************)
ThawsTooEarly ==
  \E r \in RequestIDs, o \in {"ok"} \cup ThawFaults :
    /\ ApprovalTakesEffect(r, o) /\ tree' # tree
    /\ OpenRequests(req[r].session) # {} \/ (at = "open" /\ cur = req[r].session)

SpecRechecked == Init /\ [][Next /\ ~ThawsTooEarly]_vars

\* The session waits for an answer, or is about to.
Waits(s) ==
  state[s] = "suspended" \/ OpenRequests(s) # {} \/ (at = "open" /\ cur = s)

FrozenWhileWaiting == \A s \in Sessions : Waits(s) => tree[s] # "running"

\* Only the loop's open opens a request.
LEMMA OnlyOpenAsks ==
  ASSUME TypeOK, Next, NEW s \in Sessions, OpenRequests(s)' # {}
  PROVE  OpenRequests(s) # {} \/ (Open /\ cur = s)
<1> PICK q \in RequestIDs : req'[q].phase = "open" /\ req'[q].session = s
  BY DEF OpenRequests
<1> SUFFICES ASSUME ~(Open /\ cur = s) PROVE req[q].phase = "open" /\ req[q].session = s
  BY DEF OpenRequests
<1> USE DEF TypeOK, Request
<1>1. CASE UNCHANGED approvalVars
  BY <1>1 DEF approvalVars
<1>2. CASE Open
  <2>1. \/ req' = req
        \/ req' = [req EXCEPT ![opened + 1] = [@ EXCEPT !.phase = "open", !.session = cur]]
    BY <1>2 DEF Open
  <2>2. req'[q] = req[q] \/ req'[q].session = cur
    BY <2>1
  <2> QED BY <1>2, <2>2
<1>3. CASE FinishCancels
  BY <1>3 DEF FinishCancels
<1>4. ASSUME NEW r \in RequestIDs, NEW ok \in BOOLEAN, Resolve(r, ok)
      PROVE  req[q].phase = "open" /\ req[q].session = s
  BY <1>4 DEF Resolve
<1>5. ASSUME NEW r \in RequestIDs, AnswerStep(r)
      PROVE  req[q].phase = "open" /\ req[q].session = s
  <2>1. req' = [req EXCEPT ![r].phase = "recorded"] \/ req' = [req EXCEPT ![r].phase = "settled"]
    BY <1>5 DEF AnswerStep, RecordAnswer, DenyTakesEffect, ApprovalTakesEffect
  <2>2. CASE req' = [req EXCEPT ![r].phase = "recorded"]
    BY <2>2
  <2>3. CASE req' = [req EXCEPT ![r].phase = "settled"]
    BY <2>3
  <2> QED BY <2>1, <2>2, <2>3
<1>6. CASE PlainStep
  BY <1>6, <1>1 DEF PlainStep, AgentActs, TreeExits, RefuseEvent, ReapOrphan, EndSession,
                    TakeEvent, SuspendReads, SuspendFreezes, Emit, Stop, FailAll,
                    FinishEnds, FinishRecords, FinishKills, approvalVars
<1>7. CASE QueueStep
  BY <1>7, <1>1 DEF QueueStep, Terminate, RunClosure, Enqueue, EndSessionQueues, approvalVars
<1> QED
  BY <1>2, <1>3, <1>4, <1>5, <1>6, <1>7, NextKinds DEF RequestStep

\* The loop comes to open only for a session that is suspended.
LEMMA OpensForSuspended ==
  ASSUME Next, at' = "open"
  PROVE  \/ at = "open" /\ cur' = cur
         \/ SuspendReads /\ cur' = cur /\ state[cur] = "suspended"
         \/ SuspendFreezes("ok") /\ cur' = cur
<1>1. CASE QuietStep
  BY <1>1, QuietIsQuiet
<1>2. CASE SuspendReads
  BY <1>2 DEF SuspendReads
<1>3. ASSUME NEW o \in {"ok"} \cup FreezeFaults, SuspendFreezes(o)
      PROVE  SuspendFreezes("ok") /\ cur' = cur
  BY <1>3 DEF SuspendFreezes
<1>4. ASSUME NEW s, NEW a, NEW l, TakeEvent(s, a, l) PROVE FALSE
  BY <1>4 DEF TakeEvent, React
<1>5. ASSUME NEW r, NEW o, ApprovalTakesEffect(r, o) PROVE at = "open" /\ cur' = cur
  BY <1>5 DEF ApprovalTakesEffect, loopVars
<1>6. CASE Emit \/ \E o : RunClosure(o)
  BY <1>6 DEF Emit, RunClosure, FinishIfLive
<1> QED
  BY <1>1, <1>2, <1>3, <1>4, <1>5, <1>6, LoudSteps
     DEF ReapOrphan, Open, FailAll, FinishCancels, FinishEnds, FinishRecords, Terminate,
         FinishKills

\* A session begins to wait by being frozen.
LEMMA WaitsByFreezing ==
  ASSUME Inv, Next, NEW s \in Sessions, Waits(s)'
  PROVE  Waits(s) \/ (SuspendFreezes("ok") /\ cur = s)
<1>1. CASE OpenRequests(s)' # {}
  BY <1>1, OnlyOpenAsks DEF Inv, Waits, Open
<1>2. CASE at' = "open" /\ cur' = s
  BY <1>2, OpensForSuspended DEF Waits
<1>3. CASE state'[s] = "suspended" /\ state[s] # "suspended"
  BY <1>2, <1>3, SuspendsToAsk
<1> QED BY <1>1, <1>2, <1>3 DEF Waits

\* No step but a thaw sets a tree running.
LEMMA TreesRunNoMore ==
  ASSUME TypeOK, Next, NEW s \in Sessions, tree'[s] = "running"
  PROVE  \/ tree[s] = "running"
         \/ \E r \in RequestIDs, o \in {"ok"} \cup ThawFaults : ApprovalTakesEffect(r, o)
<1> USE DEF TypeOK, treeVars
<1>1. CASE QuietStep
  BY <1>1 DEF QuietStep, AgentActs, TreeExits, RefuseEvent, EndSession,
              EndSessionQueues, Enqueue, Resolve, RecordAnswer, DenyTakesEffect, Stop
<1>2. CASE \/ (\E x \in Sessions : ReapOrphan(x))
           \/ SuspendReads \/ Open \/ Emit \/ FailAll
           \/ FinishCancels \/ FinishEnds \/ FinishRecords
  BY <1>2 DEF ReapOrphan, SuspendReads, Open, Emit, FailAll, FinishCancels,
              FinishEnds, FinishRecords
<1>3. ASSUME NEW x, NEW a, NEW l, TakeEvent(x, a, l) PROVE tree[s] = "running"
  BY <1>3 DEF TakeEvent
<1>4. ASSUME NEW o, SuspendFreezes(o) PROVE tree[s] = "running"
  BY <1>4 DEF SuspendFreezes, Frozen
<1>5. ASSUME NEW k, NEW f, Terminate(k, f) PROVE tree[s] = "running"
  BY <1>5 DEF Terminate, Frozen
<1>6. ASSUME NEW o, RunClosure(o) PROVE tree[s] = "running"
  <2>1. UNCHANGED treeVars \/ KillTree(Head(control).session, o)
    BY <1>6 DEF RunClosure
  <2> QED BY <2>1 DEF KillTree, Killed
<1>7. ASSUME NEW o, FinishKills(o) PROVE tree[s] = "running"
  BY <1>7 DEF FinishKills, KillTree, Killed
<1> QED
  BY <1>1, <1>2, <1>3, <1>4, <1>5, <1>6, <1>7, LoudSteps

LEMMA WaitingStep ==
  "late" \notin ThawFaults /\ Inv /\ FrozenWhileWaiting /\ [Next /\ ~ThawsTooEarly]_vars
    => FrozenWhileWaiting'
<1> SUFFICES ASSUME "late" \notin ThawFaults, Inv, FrozenWhileWaiting, Next, ~ThawsTooEarly,
                    NEW s \in Sessions, Waits(s)', tree'[s] = "running"
             PROVE  FALSE
  <2>1. CASE UNCHANGED vars
    BY <2>1 DEF vars, FrozenWhileWaiting, Waits, OpenRequests
  <2> QED BY <2>1 DEF FrozenWhileWaiting
<1> TypeOK
  BY DEF Inv
<1>1. CASE SuspendFreezes("ok") /\ cur = s
  BY <1>1 DEF SuspendFreezes, Frozen, TypeOK
<1>2. CASE Waits(s)
  <2>1. tree[s] # "running"
    BY <1>2 DEF FrozenWhileWaiting
  <2>2. PICK r \in RequestIDs, o \in {"ok"} \cup ThawFaults : ApprovalTakesEffect(r, o)
    BY <2>1, TreesRunNoMore
  <2>3. /\ tree' = [tree EXCEPT ![req[r].session] = Thawed(@, o)]
        /\ state' = [state EXCEPT ![req[r].session] = IF o = "ok" THEN "active" ELSE @]
        /\ at' = at /\ cur' = cur
    BY <2>1, <2>2 DEF ApprovalTakesEffect, Resumes, loopVars
  <2>4. s = req[r].session /\ o = "ok"
    BY <2>1, <2>3, FaultsKnown DEF Thawed, TypeOK, Request
  <2>5. OpenRequests(s) = {} /\ ~(at = "open" /\ cur = s)
    BY <2>1, <2>2, <2>4 DEF ThawsTooEarly
  <2>6. OpenRequests(s)' = {}
    BY <2>2, <2>5, OnlyOpenAsks DEF Open, ApprovalTakesEffect, loopVars
  <2>7. state'[s] # "suspended"
    BY <2>3, <2>4 DEF TypeOK
  <2> QED BY <2>3, <2>5, <2>6, <2>7 DEF Waits
<1> QED BY <1>1, <1>2, WaitsByFreezing

\* "A session stays frozen until every open request for it is answered"
\* (internal/daemon/approvals.go), for any sessions, requests and faults of kills and
\* freezes, provided that a thaw in force is one that was confirmed and that none
\* comes after a question it did not know of.
THEOREM FrozenUntilAnswered ==
  "late" \notin ThawFaults => (SpecRechecked => []FrozenWhileAsked)
<1> SUFFICES ASSUME "late" \notin ThawFaults PROVE SpecRechecked => []FrozenWhileAsked
  OBVIOUS
<1>1. Init => Inv /\ FrozenWhileWaiting
  BY InitInv DEF Init, FrozenWhileWaiting, Waits, OpenRequests
<1>2. Inv /\ [Next /\ ~ThawsTooEarly]_vars => Inv'
  BY NextInv
<1>3. Inv /\ FrozenWhileWaiting /\ [Next /\ ~ThawsTooEarly]_vars => FrozenWhileWaiting'
  BY WaitingStep
<1>4. FrozenWhileWaiting => FrozenWhileAsked
  BY DEF FrozenWhileWaiting, Waits, FrozenWhileAsked
<1> QED
  BY <1>1, <1>2, <1>3, <1>4, PTL DEF SpecRechecked
=============================================================================
