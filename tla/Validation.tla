----------------------------- MODULE Validation -----------------------------
(***************************************************************************)
(* The validator: internal/validator/validate.go over the selectors, and   *)
(* the admission lint of lint.go.  A pure function of the envelope, the    *)
(* event and the counters of the session, which it reads and never moves.  *)
(***************************************************************************)
EXTENDS Capabilities, Selectors

Violation(type, severity) == [type |-> type, severity |-> severity]

Higher(a, b) == IF a >= b THEN a ELSE b

\* severityFor: the worse of what the departure is and what the capability is.
SeverityFor(type, kind) ==
  LET floor == IF type \in {"explicit_denial", "workspace_escape", "envelope_expired"}
               THEN High ELSE Medium
  IN IF kind \in Kinds THEN Higher(floor, BaselineSeverity(kind)) ELSE floor

Result(verdict, grant, types, kind) ==
  [verdict |-> verdict, grant |-> grant,
   violations |-> {Violation(t, SeverityFor(t, kind)) : t \in types}]

-----------------------------------------------------------------------------
\* The entries that cover an observation, and those that cannot be told.
Answering(entries, obs, answer) == {i \in DOMAIN entries : Match(entries[i], obs) = answer}

As(obs, kind) == [obs EXCEPT !.kind = kind]

LabelOnly(e, obs) == {obs.kind}

\* A denial is consulted under every kind the operation exercised.
DeniableKinds(e, obs) == {obs.kind} \cup ExercisedBesides(e)

\* expired: the event's own clock decides, the host's only where it has none.
Expired(env, e, now) ==
  env.expires # 0 /\ (IF e.clock # 0 THEN e.clock ELSE now) > env.expires

AllowsOneMore(entry, used) == entry.sel.max > 0 /\ used > entry.sel.max

\* budgetExhausted: the governing grant's own limit.
BudgetExhausted(entry, used) == entry.sel.max > 0 /\ used >= entry.sel.max

ModifiesFilesystem(kind) ==
  kind \in {"fs.write", "fs.create", "fs.delete", "fs.rename", "fs.truncate", "fs.link"}

SpawnsProcess(kind) == kind \in {"process.exec", "process.fork"}

\* sessionConstraint: only the budgets this observation draws on; zero is none.
OverSessionBudget(env, obs, st) ==
  LET spent(limit, used) == limit > 0 /\ used >= limit
  IN \/ env.maxDuration > 0 /\ st.elapsed > env.maxDuration
     \/ SpawnsProcess(obs.kind) /\ spent(env.maxProcesses, st.processes)
     \/ ModifiesFilesystem(obs.kind) /\ spent(env.maxWrites, st.writes)
     \/ DomainOf(obs.kind) = "network" /\ spent(env.maxBytes, st.bytesSent)

\* workspaceEscape, for a resolved path that nothing covered.
Escapes(env, obs) ==
  /\ env.root # <<>> /\ DomainOf(obs.kind) = "filesystem" /\ IsResolved(obs.target)
  /\ ~WithinRoot(env.root, obs.target)

Uncovered(env, obs) ==
  LET granted == \E i \in DOMAIN env.grants : env.grants[i].kind = obs.kind
      types == {IF granted THEN "selector_mismatch" ELSE "ungranted_capability"}
                 \cup (IF Escapes(env, obs) THEN {"workspace_escape"} ELSE {})
  IN Result(IF granted THEN "grant_exceeded" ELSE "outside_envelope", 0, types, obs.kind)

Covered(env, obs, st, grant) ==
  IF BudgetExhausted(env.grants[grant], st.grantUses[grant])
  THEN Result("grant_exceeded", grant, {"count_exceeded"}, obs.kind)
  ELSE IF OverSessionBudget(env, obs, st)
  THEN Result("constraint_violation", grant, {"constraint_exceeded"}, obs.kind)
  ELSE Result("within_envelope", grant, {}, obs.kind)

\* Validate: expiry, the event itself, denials that match, denials that cannot be
\* told, grants that match, grants that cannot be told, and what is left over.
\* What cannot be told is indeterminate and never passes for a match or for none.
Validate(env, e, st, now) ==
  LET obs == Observe(e)
      denying(answer) == {k \in DeniableKinds(e, obs) : Answering(env.denials, As(obs, k), answer) # {}}
      granting == Answering(env.grants, obs, Yes)
      unresolvable == Result("indeterminate", 0, {"unresolvable"}, e.kind)
  IN IF Expired(env, e, now) THEN Result("outside_envelope", 0, {"envelope_expired"}, e.kind)
     ELSE IF obs = Unobservable THEN unresolvable
     ELSE IF denying(Yes) # {}
     THEN LET kind == IF obs.kind \in denying(Yes) THEN obs.kind ELSE CHOOSE k \in denying(Yes) : TRUE
          IN Result("explicitly_denied", 0, {"explicit_denial"}, kind)
     ELSE IF denying(Unclear) # {} THEN unresolvable
     ELSE IF granting # {} THEN Covered(env, obs, st, MostSpecific(env.grants, granting))
     ELSE IF Answering(env.grants, obs, Unclear) # {} THEN unresolvable
     ELSE Uncovered(env, obs)

-----------------------------------------------------------------------------
\* Admission.  A pattern that can match nothing is a blocking defect in a denial
\* and a narrowness in a grant; an unknown kind blocks either way.

Applicable(kind) ==
  CASE DomainOf(kind) = "network" -> {"hosts", "ports", "protocols"}
    [] DomainOf(kind) = "process" -> {"executables", "args"}
    [] OTHER -> {"paths"}

BadPaths(patterns) == \E p \in patterns : ~ValidPattern(p)
BadHosts(hosts) == \E h \in hosts : h.form = "invalid"
BadPorts(ports) == ~ports \subseteq 1..65535
BadStrings(values, empty) == empty \in values

\* lintEntry: only the dimensions that matching reads are judged.
Unmatchable(entry) ==
  LET read(dim) == dim \in Applicable(entry.kind)
  IN \/ read("paths") /\ BadPaths(entry.sel.paths)
     \/ read("executables") /\ BadPaths(entry.sel.executables)
     \/ read("hosts") /\ BadHosts(entry.sel.hosts)
     \/ read("ports") /\ BadPorts(entry.sel.ports)
     \/ read("protocols") /\ BadStrings(entry.sel.protocols, "")
     \/ read("args") /\ BadStrings(entry.sel.args, {})

Admissible(env) ==
  /\ \A i \in DOMAIN env.grants : env.grants[i].kind \in Kinds
  /\ \A i \in DOMAIN env.denials : env.denials[i].kind \in Kinds /\ ~Unmatchable(env.denials[i])
=============================================================================
