------------------------------ MODULE Decision ------------------------------
(***************************************************************************)
(* The decision pipeline of one session, internal/pipeline/process.go over *)
(* the validator, the risk engine, the policy engine and the session's     *)
(* state.  One goroutine processes a session's events one by one, so an    *)
(* event is one step: the three stages read the state as it was before the *)
(* event, any of them may fail, and the commit writes it last.             *)
(***************************************************************************)
EXTENDS SessionState, Policy

CONSTANTS
  Configs,         \* what a session runs under: see SessionConfig
  Events,          \* what the kernel may report
  SequenceWindow,  \* how far back a sequence is looked for
  MaxEvents,       \* bounds the events of a behaviour
  MaxFaults,       \* bounds the failed stages of a behaviour
  MaxTime          \* bounds the host's clock

ASSUME SequenceWindowAssumption == SequenceWindow \in Nat \ {0}
ASSUME BoundsAssumption == MaxEvents \in Nat /\ MaxFaults \in Nat /\ MaxTime \in Nat \ {0}

\* A path, or a pattern, is the sequence of its segments.
IsSegments(p) == Len(p) \in Nat /\ p = [i \in 1..Len(p) |-> p[i]]

\* A file has lists of finitely many values.
IsSelector(sel) ==
  /\ IsFiniteSet(sel.paths) /\ IsFiniteSet(sel.executables) /\ IsFiniteSet(sel.hosts)
  /\ IsFiniteSet(sel.ports) /\ IsFiniteSet(sel.protocols)
  /\ \A p \in sel.paths \cup sel.executables : IsSegments(p)
  /\ \A h \in sel.hosts : h.form # "invalid" => Len(h.at) \in Nat
  /\ sel.max \in Nat

IsRule(rule) ==
  /\ rule.priority \in Int
  /\ rule.match.minRisk \cup rule.match.maxRisk \cup rule.match.minConfidence \subseteq Int

\* What was admitted: Seal refuses an envelope with a blocking defect, and the
\* policy engine a rule set it cannot compile.
ASSUME ConfigsAssumption ==
  \A c \in Configs : /\ Admissible(c.envelope)
                     /\ Compiles(c.rules, c.defaultAction)
                     /\ c.mode \in Modes /\ c.hostClock \in BOOLEAN
                     /\ Len(c.envelope.grants) \in Nat
                     /\ DOMAIN c.envelope.grants = 1..Len(c.envelope.grants)
                     /\ \A i \in DOMAIN c.envelope.grants : IsSelector(c.envelope.grants[i].sel)
                     /\ \A i \in DOMAIN c.envelope.denials : IsSelector(c.envelope.denials[i].sel)
                     /\ Len(c.rules) \in Nat /\ DOMAIN c.rules = 1..Len(c.rules)
                     /\ \A i \in DOMAIN c.rules : IsRule(c.rules[i])
                     /\ {c.envelope.maxWrites, c.envelope.maxProcesses, c.envelope.maxBytes,
                         c.envelope.maxDuration} \subseteq Nat

\* Decode refuses a record of no kind of the catalog.
ASSUME EventsAssumption ==
  \A e \in Events : /\ e.kind \in Kinds
                    /\ {"id", "clock", "bytes", "dropped", "kind", "path", "executable"}
                         \subseteq DOMAIN e
                    /\ {e.clock, e.bytes, e.dropped} \subseteq Nat
                    /\ IsSegments(e.path) /\ IsSegments(e.executable)

VARIABLES
  config,     \* the envelope, the rules, the mode and the sensitivity list
  grantUses,  \* what has been charged to each grant
  counters,   \* what the session's budgets are checked against
  history,    \* what the risk engine remembers
  tallies,    \* what a summary of the session is made from
  now,        \* the host's clock
  faults,     \* stages that have failed
  log         \* for each event, what the stages concluded and what was decided

vars == <<config, grantUses, counters, history, tallies, now, faults, log>>

Stages == {"validate", "score", "decide"}

NoRule == -1 \* the decision of a stage that failed names no rule, not even the default
NoResult == [verdict |-> "", grant |-> 0, violations |-> {}]

-----------------------------------------------------------------------------
Init ==
  /\ config \in Configs
  /\ now = 1
  /\ grantUses = [i \in DOMAIN config.envelope.grants |-> 0]
  /\ counters = NewCounters(IF config.hostClock THEN now ELSE 0)
  /\ history = NewHistory
  /\ tallies = NewTallies
  /\ faults = 0
  /\ log = <<>>

\* What the validator reads of the state.
Budgets ==
  [grantUses |-> grantUses, writes |-> counters.writes, processes |-> counters.processes,
   bytesSent |-> counters.bytesSent, elapsed |-> Elapsed(counters, now)]

\* Scored after the event had been folded in, nothing would be new.
PastWithEvent(e) ==
  LET h == Remember(history, e)
  IN [recent |-> RecentEvents(h, SequenceWindow), seen |-> h.seen,
      violations |-> tallies.violations]

\* What the risk engine reads of it: the session before this event.
Past(e) ==
  [recent |-> RecentEvents(history, SequenceWindow), seen |-> history.seen,
   violations |-> tallies.violations]

\* finalize: every part is copied from a stage.  A grant is named only by a
\* decision it covered.
Finalize(result, risk, outcome) ==
  [verdict |-> result.verdict, action |-> outcome.action, rule |-> outcome.rule, risk |-> risk,
   grant |-> IF result.verdict = "within_envelope" THEN result.grant ELSE 0]

\* IndeterminateHandler: a stage that failed is asked about, never let through.
HandleFailure ==
  [verdict |-> "indeterminate", action |-> "request_approval", rule |-> NoRule,
   risk |-> Unscored, grant |-> 0]

\* A grant that ran out is still named by the result.
ChargeNamedGrant(result) == SpendGrant(grantUses, result.grant)

\* commit: the grant is charged when it covered the operation, whatever became of
\* the later stages.
ChargeGrant(result) ==
  IF result.verdict = "within_envelope" THEN SpendGrant(grantUses, result.grant) ELSE grantUses

\* Process, with the stage that fails, or none of them.
Process(reported, failing) ==
  LET e == [reported EXCEPT !.id = Len(log) + 1]
      result == Validate(config.envelope, e, Budgets, now)
      risk == Score(config.oracle, e, result, Past(e))
      outcome == Evaluate(config.rules, config.defaultAction, config.mode, e, result, risk,
                          config.envelope.task)
      decision == IF failing = "none" THEN Finalize(result, risk, outcome) ELSE HandleFailure
  IN /\ Len(log) < MaxEvents
     /\ failing # "none" => faults < MaxFaults
     /\ faults' = faults + Bit(failing # "none")
     /\ grantUses' = IF failing = "validate" THEN grantUses ELSE ChargeGrant(result)
     /\ counters' = CountEvent(counters, e)
     /\ history' = Remember(history, e)
     /\ tallies' = TallyAllowed(TallyDecision(tallies, decision), e, decision)
     /\ log' = Append(log, [event |-> e, failed |-> failing # "none", decision |-> decision,
                            result |-> IF failing = "validate" THEN NoResult ELSE result])
     /\ UNCHANGED <<config, now>>

\* The host's wall clock: it moves on, and it may be set back.
Tick ==
  /\ now' \in (1..MaxTime) \ {now}
  /\ UNCHANGED <<config, grantUses, counters, history, tallies, faults, log>>

Next ==
  \/ \E e \in Events, failing \in Stages \cup {"none"} : Process(e, failing)
  \/ Tick

Spec == Init /\ [][Next]_vars

-----------------------------------------------------------------------------
\* Types and ranges of what is decided and charged.
TypeOK ==
  /\ config \in Configs
  /\ grantUses \in [DOMAIN config.envelope.grants -> Nat]
  /\ now \in 1..MaxTime /\ faults \in 0..MaxFaults
  /\ counters.events = Len(log) /\ history.next \in 0..HistorySize - 1
  /\ Cardinality(history.seen) <= MaxSeenTargets
  /\ Cardinality(DOMAIN tallies.unmatched) <= MaxUnmatched
  /\ \A n \in DOMAIN log :
       LET d == log[n].decision
       IN /\ d.verdict \in Verdicts /\ d.action \in Actions
          /\ d.rule \in {NoRule, DefaultRuleID} \cup DOMAIN config.rules
          /\ d.grant \in {0} \cup DOMAIN config.envelope.grants
          /\ d.risk.score \in 0..100 /\ d.risk.confidence \in 0..10

Within(n) == log[n].result.verdict = "within_envelope"

\* The grants of the envelope are the accounts of a ledger, and every step
\* charges at most one use of one that had a use left: the charge the commit
\* makes is the one the validator checked, and a grant that only names a
\* refusal, or whose event failed in a stage before, is charged nothing.
Accounts ==
  INSTANCE Ledger WITH
    limits <- [i \in DOMAIN config.envelope.grants |-> config.envelope.grants[i].sel.max],
    uses <- grantUses
KeepsTheLedger == Accounts!Spec

\* The events a grant covered, and those before an event that modified the file
\* system or started a process.
CoveredBy(i) == {n \in DOMAIN log : Within(n) /\ log[n].result.grant = i}
WritesBefore(n) == {m \in 1..n - 1 : ModifiesFilesystem(CountedKind(log[m].event))}
SpawnsBefore(n) == {m \in 1..n - 1 : SpawnsProcess(CountedKind(log[m].event))}

\* No budget is passed: whatever was found within the envelope had a use left in
\* the grant that covered it, and in the session's budgets of writes and
\* processes, when every earlier operation is counted against those, the refused
\* ones and those of a failed stage too.
BudgetsHold ==
  LET env == config.envelope
  IN /\ \A i \in DOMAIN env.grants : env.grants[i].sel.max > 0 =>
          Cardinality(CoveredBy(i)) <= env.grants[i].sel.max
     /\ \A n \in {m \in DOMAIN log : Within(m)} :
          LET kind == Observe(log[n].event).kind
          IN /\ env.maxWrites > 0 /\ ModifiesFilesystem(kind) =>
                  Cardinality(WritesBefore(n)) < env.maxWrites
             /\ env.maxProcesses > 0 /\ SpawnsProcess(kind) =>
                  Cardinality(SpawnsBefore(n)) < env.maxProcesses

\* A pattern covers a path when the path can be cut into one piece for each of its
\* segments: any length for the deep one, a single segment it covers for another.
Covers(pattern, path) ==
  \E cut \in [0..Len(pattern) -> 0..Len(path)] :
    /\ cut[0] = 0 /\ cut[Len(pattern)] = Len(path)
    /\ \A i \in DOMAIN pattern :
         IF pattern[i] = Deep THEN cut[i] >= cut[i - 1]
         ELSE cut[i] = cut[i - 1] + 1 /\ path[cut[i]] \in pattern[i].covers

MayCoverPath(patterns, path) ==
  patterns = {} \/ ~IsResolved(path) \/ \E p \in patterns : Covers(p, path)

MayCoverHost(patterns, known) ==
  \/ patterns = {} \/ known = {}
  \/ \E p \in patterns : (\E h \in known : MatchHost(p, h))
                           \/ (\A h \in known : CorrelationMissing(p, h))

MayCoverValue(values, value, missing) == values = {} \/ value \in values \cup {missing}

\* The event may be something the entry describes.
MayDescribe(entry, e) ==
  LET obs == Observe(e)
  IN /\ entry.kind \in {obs.kind} \cup ExercisedBesides(e)
     /\ CASE DomainOf(entry.kind) = "network" ->
               /\ MayCoverHost(entry.sel.hosts, obs.hosts)
               /\ MayCoverValue(entry.sel.ports, obs.port, 0)
               /\ MayCoverValue(entry.sel.protocols, obs.protocol, "")
          [] DomainOf(entry.kind) = "process" ->
               /\ MayCoverPath(entry.sel.executables, obs.target)
               /\ entry.sel.args = {} \/ obs.argv = {}
                  \/ \E a \in entry.sel.args : a \cap obs.argv # {}
          [] OTHER -> MayCoverPath(entry.sel.paths, obs.target)

\* A denial is never passed: nothing that a denial describes, or that cannot be
\* told from what it describes, is found within the envelope, whatever grants
\* cover it and however narrow they are, and under whichever of the kinds it
\* exercised the denial was written.
DenialsHold ==
  \A n \in DOMAIN log : Within(n) =>
    \A i \in DOMAIN config.envelope.denials :
      ~MayDescribe(config.envelope.denials[i], log[n].event)

TargetKey(e) == <<CountedKind(e), TargetOf(Observe(e))>>

\* The targets of the first events, as many as are remembered.
Remembered(n) ==
  LET named == {m \in 1..n - 1 : HasTarget(Observe(log[m].event))}
      keys(M) == {TargetKey(log[m].event) : m \in M}
  IN keys({m \in named : Cardinality(keys({j \in named : j < m})) < MaxSeenTargets})

\* A score is about the session as it was before the event: a covered operation
\* costs nothing, and another is charged for a new target, for a sensitive read
\* in the window before a step off the host, and for the violations so far,
\* exactly when the events decided before it say so.
ScoredOnThePast ==
  \A n \in {m \in DOMAIN log : ~log[m].failed} :
    LET e == log[n].event
        obs == Observe(e)
        risk == log[n].decision.risk
        window == (n - Least(SequenceWindow, HistorySize))..n - 1
    IN IF Within(n) THEN risk.score = 0
       ELSE /\ risk.factors.novel_target > 0
                 <=> HasTarget(obs) /\ TargetKey(e) \notin Remembered(n)
            /\ risk.factors.credential_access_egress > 0
                 <=> /\ IsEgress(obs.kind)
                     /\ \E m \in window \cap DOMAIN log : IsAccess(config.oracle, log[m].event)
            /\ risk.factors.violation_history
                 = Least(10, Cardinality({m \in 1..n - 1 :
                                            log[m].decision.verdict # "within_envelope"}))

\* What is unknown in a list is dead weight, and not the whole list.
PartlyUnknown(c) ==
  \/ NamesUnknown([Anything EXCEPT !.verdicts = c.verdicts]) /\ c.verdicts \cap Verdicts # {}
  \/ NamesUnknown([Anything EXCEPT !.kinds = c.kinds]) /\ c.kinds \cap Kinds # {}
  \/ NamesUnknown([Anything EXCEPT !.domains = c.domains]) /\ c.domains \cap Domains # {}
  \/ NamesUnknown([Anything EXCEPT !.types = c.types]) /\ c.types \cap ViolationTypes # {}
  \/ NamesUnknown([Anything EXCEPT !.levels = c.levels]) /\ c.levels \cap Levels # {}

\* What the linter accuses of a rule set, as impossible or shadowed.  It is wrong of a
\* rule whose lists hold an unknown value among known ones, which can decide; such a
\* rule is left out, unless its range of risk is empty, its kinds are of no domain it
\* names or an earlier rule shadows it.
Accused(rules) == {issue.rule : issue \in {i \in LintRuleSet(rules) : i.severity # Medium}}
Innocent(rules) ==
  {i \in DOMAIN rules :
     LET c == rules[i].match
     IN /\ PartlyUnknown(c) /\ ~EmptyRiskRange(c) /\ ~KindsOutsideDomains(c)
        /\ ReachabilityIssues(rules, i) = {}}

\* The rule set is linted once, before the session.
DeadRules == [c \in Configs |-> (Accused(c.rules) \ Innocent(c.rules))
                                 \cup (IF DefaultActionIssues(c.rules) = {} THEN {} ELSE {DefaultRuleID})]

\* The linter accuses no rule that works: one it calls impossible, or shadowed by
\* an earlier one, never decides an event, and a default action it calls dead is
\* never taken.
LintIsSound ==
  \A n \in {m \in DOMAIN log : ~log[m].failed} :
    log[n].decision.rule \notin DeadRules[config]

\* The budgets that are spent.
Spent ==
  LET env == config.envelope
      spent(name, limit, used) == IF limit > 0 /\ used >= limit THEN {<<name, 0>>} ELSE {}
  IN {<<"grant", i>> : i \in {j \in DOMAIN grantUses : BudgetExhausted(env.grants[j], grantUses[j])}}
     \cup spent("writes", env.maxWrites, counters.writes)
     \cup spent("processes", env.maxProcesses, counters.processes)
     \cup spent("bytes", env.maxBytes, counters.bytesSent)
     \cup spent("duration", env.maxDuration, Elapsed(counters, now) - 1)

\* A spent budget never comes back, though records may come with clocks that run
\* backwards.  The one that can is the duration of a live session, which
\* ElapsedSeconds measures by the host's wall clock, and only in a step that sets
\* this clock back.
SpentStaysSpent ==
  [][Spent \ Spent' \subseteq
       IF counters.hostClock /\ now' < now THEN {<<"duration", 0>>} ELSE {}]_vars
=============================================================================
