------------------------------- MODULE Policy -------------------------------
(***************************************************************************)
(* The policy engine: internal/policy/evaluate.go, and the linter of       *)
(* lint.go that says which rules of a set can never fire.                  *)
(*                                                                         *)
(* A rule is a record of its priority, whether it is enabled, the modes it *)
(* is for, its condition and its action; its identity is its place in the  *)
(* file.  A list of a condition is a set, empty when the file leaves the   *)
(* list out; a number a condition may leave out is a set of at most one.   *)
(***************************************************************************)
EXTENDS Capabilities, Selectors

Actions == {"allow", "warn", "request_approval", "block"}
Modes == {"monitor", "warn", "interactive", "enforce"}
Domains == {"filesystem", "process", "network", "privilege", "ipc", "kernel"}
Verdicts == {"within_envelope", "outside_envelope", "explicitly_denied", "grant_exceeded",
             "constraint_violation", "indeterminate"}
ViolationTypes == {"ungranted_capability", "selector_mismatch", "explicit_denial",
                   "constraint_exceeded", "count_exceeded", "workspace_escape",
                   "envelope_expired", "unresolvable"}
Levels == {"none", "low", "medium", "high", "critical"}

\* A condition that constrains nothing.
Anything == [verdicts |-> {}, kinds |-> {}, domains |-> {}, types |-> {}, levels |-> {},
             tasks |-> {}, paths |-> {}, hosts |-> {},
             minRisk |-> {}, maxRisk |-> {}, minConfidence |-> {}]

\* compile: the ID is the key of the audit log, so no rule may lack one or share
\* one; here the place in the file is the ID.
Compiles(rules, defaultAction) ==
  /\ defaultAction \in Actions
  /\ \A i \in DOMAIN rules : rules[i].action \in Actions /\ rules[i].modes \subseteq Modes

\* evaluationOrder: by priority from the highest down, then by place in the file.
Before(rules, i, j) ==
  \/ rules[i].priority > rules[j].priority
  \/ rules[i].priority = rules[j].priority /\ i < j

-----------------------------------------------------------------------------
\* matches, one operator for each part of a condition.

Allows(values, value) == values = {} \/ value \in values

ModeApplies(rule, mode) == Allows(rule.modes, mode)

CapabilityMatches(c, kind) ==
  Allows(c.kinds, kind) /\ Allows(c.domains, DomainOf(kind))

HasViolation(c, violations) ==
  c.types = {} \/ \E v \in violations : v.type \in c.types

RiskConditioned(c) ==
  c.minRisk # {} \/ c.maxRisk # {} \/ c.minConfidence # {} \/ c.levels # {}

\* The minimum is inclusive and the maximum exclusive, so that bands partition
\* the scale.
RiskMatches(c, risk) ==
  /\ \A m \in c.minRisk : risk.score >= m
  /\ \A m \in c.maxRisk : risk.score < m
  /\ \A m \in c.minConfidence : risk.confidence >= m
  /\ Allows(c.levels, risk.level)

\* targetMatches: what could not be observed matches no path and no host.
TargetMatches(c, obs) ==
  /\ c.paths = {} \/ \E p \in c.paths : MatchPath(p, obs.target)
  /\ c.hosts = {} \/ \E p \in c.hosts, h \in obs.hosts : MatchHost(p, h)

\* Every populated part must hold, and within a part any value will do.
Matches(c, e, result, risk, task) ==
  /\ Allows(c.verdicts, result.verdict)
  /\ CapabilityMatches(c, e.kind)
  /\ HasViolation(c, result.violations)
  /\ RiskMatches(c, risk)
  /\ TargetMatches(c, Observe(e))
  /\ Allows(c.tasks, task)

\* Evaluate: the first enabled rule for this mode whose condition holds decides.
\* Place 0 is the default action's.
DefaultRuleID == 0

Eligible(rules, mode, e, result, risk, task) ==
  {i \in DOMAIN rules : /\ rules[i].enabled
                        /\ ModeApplies(rules[i], mode)
                        /\ Matches(rules[i].match, e, result, risk, task)}

Evaluate(rules, defaultAction, mode, e, result, risk, task) ==
  LET eligible == Eligible(rules, mode, e, result, risk, task)
      first == CHOOSE i \in eligible : \A j \in eligible \ {i} : Before(rules, i, j)
  IN IF eligible = {} THEN [action |-> defaultAction, rule |-> DefaultRuleID, terminal |-> FALSE]
     ELSE [action |-> rules[first].action, rule |-> first, terminal |-> rules[first].terminal]

-----------------------------------------------------------------------------
\* The linter.  A finding is the rule it is about and how much it matters:
\* critical means the rule can never match, and the set should be refused.

Issue(severity, rule) == [severity |-> severity, rule |-> rule]

\* lintClosedSets: a value of no stage upstream.
NamesUnknown(c) ==
  \/ ~c.verdicts \subseteq Verdicts \/ ~c.kinds \subseteq Kinds
  \/ ~c.domains \subseteq Domains \/ ~c.types \subseteq ViolationTypes
  \/ ~c.levels \subseteq Levels

\* lintRiskRange, on a scale of 0 to 100; confidence is counted in tenths.
EmptyRiskRange(c) ==
  \/ \E low \in c.minRisk, high \in c.maxRisk : low >= high
  \/ \E low \in c.minRisk : low > 100
  \/ \E high \in c.maxRisk : high <= 0
  \/ \E m \in c.minConfidence : m > 10

\* lintCapabilityDomain: the catalog places every kind elsewhere.
KindsOutsideDomains(c) ==
  /\ c.kinds # {} /\ c.domains # {} /\ c.kinds \subseteq Kinds
  /\ \A k \in c.kinds : DomainOf(k) \notin c.domains

\* lintPatterns: one bad pattern is dead weight, nothing but bad ones is a rule gone.
PatternIssues(i, patterns, usable) ==
  LET bad == patterns \ usable
  IN (IF bad = {} THEN {} ELSE {Issue(Medium, i)})
     \cup (IF bad # {} /\ bad = patterns THEN {Issue(Critical, i)} ELSE {})

LintRule(rule, i) ==
  LET c == rule.match
  IN IF ~rule.enabled THEN {}
     ELSE (IF NamesUnknown(c) \/ EmptyRiskRange(c) \/ KindsOutsideDomains(c)
           THEN {Issue(Critical, i)} ELSE {})
          \cup PatternIssues(i, c.paths, {p \in c.paths : ValidPattern(p)})
          \cup PatternIssues(i, c.hosts, {h \in c.hosts : h.form # "invalid"})

\* subsumes: the first covers whatever the second does, part by part.
SetSubsumes(a, b) == a = {} \/ (b # {} /\ b \subseteq a)
MinSubsumes(a, b) == \A m \in a : \E n \in b : n >= m

Overlaps(a, b) == \A m \in a : \E n \in b : n >= m

MaxSubsumes(a, b) == \A m \in a : \E n \in b : n <= m

Subsumes(a, b) ==
  /\ SetSubsumes(a.modes, b.modes)
  /\ \A part \in {"verdicts", "kinds", "domains", "types", "levels", "tasks"} :
       SetSubsumes(a.match[part], b.match[part])
  /\ SetSubsumes(a.match.paths, b.match.paths)
  /\ SetSubsumes(a.match.hosts, b.match.hosts)
  /\ MinSubsumes(a.match.minRisk, b.match.minRisk)
  /\ MaxSubsumes(a.match.maxRisk, b.match.maxRisk)
  /\ MinSubsumes(a.match.minConfidence, b.match.minConfidence)

\* lintReachability: the first of the earlier rules that always wins.
Shadows(rules, j, i) ==
  /\ rules[j].enabled /\ rules[i].enabled
  /\ Before(rules, j, i) /\ Subsumes(rules[j], rules[i])

ReachabilityIssues(rules, i) ==
  LET shadows == {j \in DOMAIN rules : Shadows(rules, j, i)}
      first == CHOOSE j \in shadows : \A k \in shadows \ {j} : Before(rules, j, k)
  IN IF shadows = {} THEN {}
     ELSE {Issue(IF rules[first].action # rules[i].action THEN High ELSE Low, i)}

MatchesEverything(c) == c = Anything

\* lintDefaultAction: a rule that takes every event leaves none to the default.
DefaultActionIssues(rules) ==
  LET catchAll == {i \in DOMAIN rules : /\ rules[i].enabled
                                        /\ rules[i].modes = {}
                                        /\ MatchesEverything(rules[i].match)}
      first == CHOOSE i \in catchAll : \A j \in catchAll \ {i} : Before(rules, i, j)
  IN IF catchAll = {} THEN {} ELSE {Issue(Medium, first)}

LintRuleSet(rules) ==
  (UNION {LintRule(rules[i], i) \cup ReachabilityIssues(rules, i) : i \in DOMAIN rules})
  \cup DefaultActionIssues(rules)

BlockingIssues(issues) == {issue \in issues : issue.severity = Critical}
=============================================================================
