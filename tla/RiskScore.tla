------------------------------ MODULE RiskScore ------------------------------
(***************************************************************************)
(* The risk engine: internal/risk.  A score is a bounded sum of points     *)
(* that independent factors contribute; an operation the envelope covered  *)
(* is charged for none of them.                                            *)
(*                                                                         *)
(* A sensitivity list grades paths and hosts: a set of entries, each a     *)
(* grade and the patterns it is given to.  A list that grades nothing      *)
(* stands for an engine without one.                                       *)
(***************************************************************************)
EXTENDS Capabilities, Selectors

NoOracle == [paths |-> {}, hosts |-> {}]

Unknown == -1 \* no grade: not the same as a grade of no consequence

Least(a, b) == IF a < b THEN a ELSE b

Departed(result) == result.verdict # "within_envelope"

VerdictPoints(verdict) ==
  CASE verdict = "within_envelope" -> 0
    [] verdict = "indeterminate" -> 20
    [] verdict \in {"constraint_violation", "grant_exceeded"} -> 25
    [] verdict = "outside_envelope" -> 30
    [] verdict = "explicitly_denied" -> 55

SeverityPoints(severity) ==
  CASE severity = Info -> 0 [] severity = Low -> 5 [] severity = Medium -> 10
    [] severity = High -> 15 [] severity = Critical -> 30

SensitivityPoints(grade) ==
  CASE grade = Medium -> 8 [] grade = High -> 15 [] grade = Critical -> 25 [] OTHER -> 0

-----------------------------------------------------------------------------
\* What a list says.  Entries are asked from the gravest grade down, so that the
\* gravest that covers a resource is the one it is given.

Gravest(grades) ==
  IF grades = {} THEN Unknown ELSE CHOOSE g \in grades : \A h \in grades : g >= h

PathSensitivity(oracle, path) ==
  Gravest({entry.grade : entry \in {n \in oracle.paths : \E p \in n.patterns : MatchPath(p, path)}})

HostSensitivity(oracle, host) ==
  Gravest({entry.grade : entry \in {n \in oracle.hosts : \E p \in n.patterns : MatchHost(p, host)}})

AccessSensitivityQualifies(grade) == grade >= High

\* ownProcEntry: an entry of /proc about the reading process itself, or one of its
\* tasks, that is not a link to elsewhere.
OwnProcEntry(path, own) ==
  LET ofTask == Len(path) = 5 /\ path[3] = "task"
      entry == IF ofTask THEN path[5] ELSE path[3]
  IN /\ Len(path) = 3 \/ ofTask
     /\ path[1] = "proc" /\ path[2] \in own \cup {"self", "thread-self"}
     /\ entry \notin {Dots, "root", "cwd", "exe"}

\* bareHost: the name, where one was learnt, and the address otherwise.
BareHosts(obs) ==
  LET names == {h \in obs.hosts : h.form = "name"} IN IF names # {} THEN names ELSE obs.hosts

\* What the event acted on, as far as it is known: a path, or a host and its port.
TargetOf(obs) ==
  IF DomainOf(obs.kind) = "network"
  THEN IF obs.hosts = {} THEN <<>>
       ELSE <<(CHOOSE h \in BareHosts(obs) : TRUE).at, obs.port>>
  ELSE IF obs.target = NoTarget THEN <<>> ELSE <<obs.target, 0>>

HasTarget(obs) == TargetOf(obs) # <<>>

-----------------------------------------------------------------------------
\* The factors.

WorstSeverity(violations) ==
  IF violations = {} THEN Info
  ELSE LET v == CHOOSE v \in violations : \A w \in violations : v.severity >= w.severity
       IN v.severity

\* The most serious violation alone.
ViolationSeverityPoints(violations) == SeverityPoints(WorstSeverity(violations))

SensitivePathPoints(oracle, e, obs) ==
  IF DomainOf(obs.kind) # "filesystem" \/ OwnProcEntry(obs.target, e.own) THEN 0
  ELSE SensitivityPoints(PathSensitivity(oracle, obs.target))

SensitiveHostPoints(oracle, obs) ==
  IF DomainOf(obs.kind) # "network" THEN 0
  ELSE SensitivityPoints(Gravest({HostSensitivity(oracle, h) : h \in BareHosts(obs)}))

IsEgress(kind) == kind \in {"net.connect", "net.send"}

\* Reached by address, with no name known for it.
UncorrelatedDestinationPoints(obs) ==
  IF IsEgress(obs.kind) /\ \E h \in BareHosts(obs) : h.form = "ip" THEN 5 ELSE 0

UnverifiablePathPoints(e) == IF e.unverified THEN 30 ELSE 0

PrivilegeChangePoints(kind) ==
  IF DomainOf(kind) = "privilege" THEN SensitivityPoints(BaselineSeverity(kind)) ELSE 0

WorkspaceEscapePoints(violations) ==
  IF \E v \in violations : v.type = "workspace_escape" THEN 10 ELSE 0

NovelTargetPoints(obs, seen) ==
  IF HasTarget(obs) /\ <<obs.kind, TargetOf(obs)>> \notin seen THEN 5 ELSE 0

ViolationHistoryPoints(violations) == Least(violations, 10)

\* A successful read of something graded high or above.
IsAccess(oracle, prev) ==
  LET obs == Observe(prev)
  IN /\ prev.succeeded /\ obs.kind = "fs.read" /\ HasTarget(obs)
     /\ ~OwnProcEntry(obs.target, prev.own)
     /\ AccessSensitivityQualifies(PathSensitivity(oracle, obs.target))

\* credential_access_egress: a step off the host with such a read among the
\* events before it.
CredentialEgressPoints(oracle, e, obs, recent) ==
  IF /\ IsEgress(obs.kind)
     /\ \E i \in DOMAIN recent : recent[i].id # e.id /\ IsAccess(oracle, recent[i])
  THEN 30 ELSE 0

\* A factor that can find something on a covered operation reports it and
\* withholds its points; the verdict and the violations speak for themselves.
Charges(oracle, e, result, history) ==
  LET obs == Observe(e)
      ifDeparted(points) == IF Departed(result) THEN points ELSE 0
  IN [verdict |-> VerdictPoints(result.verdict),
      violation_severity |-> ViolationSeverityPoints(result.violations),
      sensitive_path |-> ifDeparted(SensitivePathPoints(oracle, e, obs)),
      sensitive_host |-> ifDeparted(SensitiveHostPoints(oracle, obs)),
      uncorrelated_destination |-> ifDeparted(UncorrelatedDestinationPoints(obs)),
      unverifiable_path |-> ifDeparted(UnverifiablePathPoints(e)),
      credential_access_egress |->
        ifDeparted(CredentialEgressPoints(oracle, e, obs, history.recent)),
      privilege_change |-> ifDeparted(PrivilegeChangePoints(obs.kind)),
      workspace_escape |-> WorkspaceEscapePoints(result.violations),
      novel_target |-> ifDeparted(NovelTargetPoints(obs, history.seen)),
      violation_history |-> ifDeparted(ViolationHistoryPoints(history.violations))]

-----------------------------------------------------------------------------
LevelFor(score) ==
  CASE score <= 0 -> "none" [] score \in 1..24 -> "low" [] score \in 25..54 -> "medium"
    [] score \in 55..84 -> "high" [] OTHER -> "critical"

\* confidenceFor, in tenths: a third for each kind of evidence there was.  The
\* history is always there.
Confidence(result, obs) ==
  3 * (1 + Bit(result.verdict # "indeterminate") + Bit(HasTarget(obs)))

Unclamped(points) == points

\* Aggregate: the sum, held to the scale.
ClampScore(points) == Least(points, 100)

\* Score: the history is that of the session before this event.
Score(oracle, e, result, history) ==
  LET factors == Charges(oracle, e, result, history)
      score == ClampScore(SumFunction(factors))
  IN [score |-> score, level |-> LevelFor(score),
      confidence |-> Confidence(result, Observe(e)), factors |-> factors]

\* What a decision carries when nothing was scored.
Unscored == [score |-> 0, level |-> "unscored", confidence |-> 0, factors |-> <<>>]
=============================================================================
