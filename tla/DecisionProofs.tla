--------------------------- MODULE DecisionProofs ---------------------------
(***************************************************************************)
(* What is proved of Decision for every envelope, rule set and stream of   *)
(* events: the grants are the accounts of a ledger, and no budget is       *)
(* passed.                                                                 *)
(*                                                                         *)
(* Both rest on one fact about the validator: what it finds within the     *)
(* envelope had a use left in the grant that covered it and in the budgets *)
(* of the session, at the counters it was given.  The rest is that the     *)
(* counters say what has been decided, which takes counting the log.       *)
(***************************************************************************)
EXTENDS Decision, SumTheorems, SequenceTheorems

\* A result of the validator that finds an event within the envelope.
\* validate.go: the budgets are the last thing that is asked.
LEMMA WithinHasRoom ==
  ASSUME NEW env, NEW e, NEW st, NEW time,
         Validate(env, e, st, time).verdict = "within_envelope"
  PROVE  LET grant == Validate(env, e, st, time).grant
         IN /\ ~BudgetExhausted(env.grants[grant], st.grantUses[grant])
            /\ ~OverSessionBudget(env, Observe(e), st)
<1> DEFINE obs == Observe(e)
           denying(answer) ==
             {k \in DeniableKinds(e, obs) : Answering(env.denials, As(obs, k), answer) # {}}
           granting == Answering(env.grants, obs, Yes)
           governing == MostSpecific(env.grants, granting)
<1>1. \A grant, types, kind, verdict :
        /\ Result(verdict, grant, types, kind).verdict = verdict
        /\ Result(verdict, grant, types, kind).grant = grant
  BY DEF Result
<1>2. Uncovered(env, obs).verdict # "within_envelope"
  <2> HIDE DEF obs
  <2> QED BY <1>1 DEF Uncovered
<1>3. Validate(env, e, st, time) = Covered(env, obs, st, governing)
  <2> DEFINE refused(verdict, types, kind) == Result(verdict, 0, types, kind)
             kind == IF obs.kind \in denying(Yes) THEN obs.kind ELSE CHOOSE k \in denying(Yes) : TRUE
  <2>1. /\ refused("outside_envelope", {"envelope_expired"}, e.kind).verdict # "within_envelope"
        /\ refused("indeterminate", {"unresolvable"}, e.kind).verdict # "within_envelope"
        /\ refused("explicitly_denied", {"explicit_denial"}, kind).verdict # "within_envelope"
    <3> HIDE DEF obs, denying, kind
    <3> QED BY <1>1
  <2>2. \/ Validate(env, e, st, time) = refused("outside_envelope", {"envelope_expired"}, e.kind)
        \/ Validate(env, e, st, time) = refused("indeterminate", {"unresolvable"}, e.kind)
        \/ Validate(env, e, st, time) = refused("explicitly_denied", {"explicit_denial"}, kind)
        \/ Validate(env, e, st, time) = Uncovered(env, obs)
        \/ Validate(env, e, st, time) = Covered(env, obs, st, governing)
    BY Zenon DEF Validate
  <2> QED
    <3> HIDE DEF obs, denying, kind, governing, refused
    <3> QED BY <1>2, <2>1, <2>2
<1>4. /\ Covered(env, obs, st, governing).verdict = "within_envelope"
      => /\ ~BudgetExhausted(env.grants[governing], st.grantUses[governing])
         /\ ~OverSessionBudget(env, obs, st)
         /\ Covered(env, obs, st, governing).grant = governing
  <2> HIDE DEF obs, governing
  <2> QED BY <1>1 DEF Covered
<1> QED BY <1>3, <1>4

-----------------------------------------------------------------------------
Grants == config.envelope.grants

\* What is charged to each grant, and that it is within its limit.
Ledgered ==
  /\ config \in Configs
  /\ grantUses \in [DOMAIN Grants -> Nat]
  /\ \A i \in DOMAIN Grants : Grants[i].sel.max > 0 => grantUses[i] <= Grants[i].sel.max

\* A step leaves the accounts alone or charges one, which had a use left.
Charged(i) ==
  /\ i \in DOMAIN grantUses
  /\ ~BudgetExhausted(Grants[i], grantUses[i])
  /\ grantUses' = [grantUses EXCEPT ![i] = @ + 1]

LEMMA ChargeIsOneUse ==
  ASSUME NEW e, NEW time,
         LET result == Validate(config.envelope, e, Budgets, time)
         IN grantUses' = ChargeGrant(result),
         grantUses \in [DOMAIN Grants -> Nat]
  PROVE  LET result == Validate(config.envelope, e, Budgets, time)
         IN \/ grantUses' = grantUses /\ ~(result.verdict = "within_envelope"
                                           /\ result.grant \in DOMAIN grantUses)
            \/ result.verdict = "within_envelope" /\ Charged(result.grant)
<1> DEFINE result == Validate(config.envelope, e, Budgets, time)
<1>1. CASE result.verdict # "within_envelope"
  <2>1. grantUses' = grantUses
    BY <1>1 DEF ChargeGrant
  <2> QED BY <1>1, <2>1
<1>2. CASE result.verdict = "within_envelope" /\ result.grant \notin DOMAIN grantUses
  <2>1. grantUses' = SpendGrant(grantUses, result.grant)
    BY <1>2 DEF ChargeGrant
  <2>2. SpendGrant(grantUses, result.grant) = grantUses
    <3> HIDE DEF result
    <3> QED BY <1>2 DEF SpendGrant
  <2> QED BY <1>2, <2>1, <2>2
<1>3. CASE result.verdict = "within_envelope" /\ result.grant \in DOMAIN grantUses
  <2>1. grantUses' = SpendGrant(grantUses, result.grant)
    BY <1>3 DEF ChargeGrant
  <2>2. SpendGrant(grantUses, result.grant) = [grantUses EXCEPT ![result.grant] = @ + 1]
    <3> HIDE DEF result
    <3> QED BY <1>3 DEF SpendGrant
  <2>3. ~BudgetExhausted(Grants[result.grant], grantUses[result.grant])
    <3>1. ~BudgetExhausted(config.envelope.grants[result.grant], Budgets.grantUses[result.grant])
      BY <1>3, WithinHasRoom
    <3>2. Budgets.grantUses = grantUses
      BY DEF Budgets
    <3> QED BY <3>1, <3>2 DEF Grants
  <2> QED BY <1>3, <2>1, <2>2, <2>3 DEF Charged
<1> HIDE DEF result
<1> QED BY <1>1, <1>2, <1>3

LEMMA LimitsAreNumbers ==
  \A c \in Configs : \A i \in DOMAIN c.envelope.grants : c.envelope.grants[i].sel.max \in Nat
BY ConfigsAssumption DEF IsSelector

\* Every step is a tick, or an event whose record the commit makes.
LEMMA StepOfTheAccounts ==
  ASSUME Ledgered, [Next]_vars
  PROVE  config' = config /\ (grantUses' = grantUses \/ \E i \in DOMAIN Grants : Charged(i))
<1>1. CASE Tick \/ UNCHANGED vars
  BY <1>1 DEF Tick, vars
<1>2. ASSUME NEW reported \in Events, NEW failing \in Stages \cup {"none"},
             Process(reported, failing)
      PROVE  config' = config /\ (grantUses' = grantUses \/ \E i \in DOMAIN Grants : Charged(i))
  <2> DEFINE e == [reported EXCEPT !.id = Len(log) + 1]
             result == Validate(config.envelope, e, Budgets, now)
  <2>1. config' = config /\ grantUses' \in {grantUses, ChargeGrant(result)}
    BY <1>2 DEF Process
  <2>2. CASE grantUses' = ChargeGrant(result)
    <3>1. grantUses' = grantUses \/ Charged(result.grant)
      BY <2>2, ChargeIsOneUse DEF Ledgered
    <3>2. DOMAIN grantUses = DOMAIN Grants
      BY DEF Ledgered
    <3> HIDE DEF result
    <3> QED BY <2>1, <3>1, <3>2 DEF Charged
  <2> QED BY <2>1, <2>2
<1> QED BY <1>1, <1>2 DEF Next

LEMMA LedgeredStep == Ledgered /\ [Next]_vars => Ledgered'
<1> SUFFICES ASSUME Ledgered, [Next]_vars PROVE Ledgered'
  OBVIOUS
<1>1. config' = config /\ (grantUses' = grantUses \/ \E i \in DOMAIN Grants : Charged(i))
  BY StepOfTheAccounts
<1>2. Grants' = Grants
  BY <1>1 DEF Grants
<1>3. CASE grantUses' = grantUses
  BY <1>1, <1>2, <1>3 DEF Ledgered
<1>4. ASSUME NEW i \in DOMAIN Grants, Charged(i) PROVE Ledgered'
  <2>1. grantUses' = [grantUses EXCEPT ![i] = @ + 1]
    BY <1>4 DEF Charged
  <2>2. grantUses' \in [DOMAIN Grants -> Nat]
    BY <2>1 DEF Ledgered
  <2>3. Grants[i].sel.max > 0 => grantUses[i] < Grants[i].sel.max
    <3>1. Grants[i].sel.max \in Nat /\ grantUses[i] \in Nat
      BY LimitsAreNumbers DEF Ledgered, Grants
    <3> QED BY <1>4, <3>1 DEF Charged, BudgetExhausted
  <2>4. ASSUME NEW j \in DOMAIN Grants, Grants[j].sel.max > 0
        PROVE  grantUses'[j] <= Grants[j].sel.max
    <3>1. Grants[j].sel.max \in Nat /\ grantUses[j] \in Nat /\ grantUses[j] <= Grants[j].sel.max
      BY <2>4, LimitsAreNumbers DEF Ledgered, Grants
    <3>2. CASE j = i
      BY <2>1, <2>3, <2>4, <3>1, <3>2 DEF Ledgered
    <3>3. CASE j # i
      BY <2>1, <3>1, <3>3 DEF Ledgered
    <3> QED BY <3>2, <3>3
  <2> QED BY <1>1, <1>2, <2>2, <2>4 DEF Ledgered
<1> QED BY <1>1, <1>3, <1>4

LEMMA LedgeredInit == Init => Ledgered
<1> SUFFICES ASSUME Init PROVE Ledgered
  OBVIOUS
<1>1. grantUses = [i \in DOMAIN Grants |-> 0] /\ config \in Configs
  BY DEF Init, Grants
<1>2. \A i \in DOMAIN Grants : Grants[i].sel.max \in Nat
  BY <1>1, LimitsAreNumbers DEF Grants
<1> QED BY <1>1, <1>2 DEF Ledgered

\* Decision implements the ledger: its first state is one of the ledger, and each
\* of its steps charges one account that has a use left, or none.
\* process.go, commit: "A grant is charged only when it actually covered the
\* operation."
THEOREM LedgerIsKept == Spec => KeepsTheLedger
<1>1. Init => Accounts!Init
  <2> SUFFICES ASSUME Init PROVE Accounts!Init
    OBVIOUS
  <2>1. config \in Configs /\ grantUses = [i \in DOMAIN Grants |-> 0]
    BY DEF Init, Grants
  <2>2. /\ DOMAIN Grants = 1..Len(Grants) /\ Len(Grants) \in Nat
        /\ \A i \in DOMAIN Grants : Grants[i].sel.max \in Nat
    BY <2>1, ConfigsAssumption, LimitsAreNumbers DEF Grants
  <2>3. [i \in DOMAIN Grants |-> Grants[i].sel.max] \in Seq(Nat)
    BY <2>2
  <2> QED BY <2>1, <2>3 DEF Accounts!Init, Grants
<1>2. Ledgered /\ [Next]_vars => [Accounts!Next]_(Accounts!vars)
  <2> SUFFICES ASSUME Ledgered, [Next]_vars PROVE [Accounts!Next]_(Accounts!vars)
    OBVIOUS
  <2> DEFINE limits == [i \in DOMAIN Grants |-> Grants[i].sel.max]
  <2>1. config' = config /\ (grantUses' = grantUses \/ \E i \in DOMAIN Grants : Charged(i))
    BY StepOfTheAccounts
  <2>2. Grants' = Grants /\ limits' = limits
    BY <2>1 DEF Grants
  <2>3. CASE grantUses' = grantUses
    BY <2>2, <2>3 DEF Accounts!vars, Grants
  <2>4. ASSUME NEW i \in DOMAIN Grants, Charged(i) PROVE Accounts!Next
    <3>1. Grants[i].sel.max \in Nat /\ grantUses[i] \in Nat
      BY LimitsAreNumbers DEF Ledgered, Grants
    <3>2. limits[i] = 0 \/ grantUses[i] < limits[i]
      BY <2>4, <3>1 DEF Charged, BudgetExhausted
    <3>3. grantUses' = [grantUses EXCEPT ![i] = @ + 1]
      BY <2>4 DEF Charged
    <3>4. Accounts!Charge(i)
      BY <2>2, <3>2, <3>3 DEF Accounts!Charge, Grants
    <3>5. DOMAIN limits = DOMAIN Grants
      OBVIOUS
    <3> QED BY <3>4, <3>5 DEF Accounts!Next, Grants
  <2> QED BY <2>1, <2>3, <2>4
<1> QED BY <1>1, <1>2, LedgeredInit, LedgeredStep, PTL DEF Spec, KeepsTheLedger, Accounts!Spec

-----------------------------------------------------------------------------
\* The counters are what the log says.

LEMMA AppendedLog ==
  ASSUME NEW S, NEW s \in Seq(S), NEW x
  PROVE  /\ Append(s, x) \in Seq(S \cup {x})
         /\ Len(s) \in Nat /\ Len(Append(s, x)) = Len(s) + 1
         /\ DOMAIN s = 1..Len(s) /\ DOMAIN Append(s, x) = 1..Len(s) + 1
         /\ \A m \in 1..Len(s) : Append(s, x)[m] = s[m]
         /\ Append(s, x)[Len(s) + 1] = x
<1>1. s \in Seq(S \cup {x})
  <2>1. Len(s) \in Nat /\ s \in [1..Len(s) -> S]
    BY LenProperties
  <2>2. s \in [1..Len(s) -> S \cup {x}]
    BY <2>1
  <2> QED BY <2>1, <2>2, SeqDef
<1>2. x \in S \cup {x}
  OBVIOUS
<1> QED BY <1>1, <1>2, AppendProperties, LenProperties

LEMMA OneMoreIndex ==
  ASSUME NEW k \in Nat, NEW A \in SUBSET (1..k)
  PROVE  /\ Cardinality(A) \in Nat
         /\ Cardinality(A \cup {k + 1}) = Cardinality(A) + 1
<1>1. IsFiniteSet(1..k)
  BY FS_Interval
<1>2. IsFiniteSet(A)
  BY <1>1, FS_Subset
<1>3. k + 1 \notin A
  OBVIOUS
<1> QED BY <1>2, <1>3, FS_AddElement, FS_CardinalityType

\* RecordEvent: one more for each budget the kind draws on.
CounterType ==
  [events : Nat, dropped : Nat, writes : Nat, processes : Nat, bytesSent : Nat,
   uses : [Kinds -> Nat], hostClock : BOOLEAN, started : Nat, latest : Nat]

LEMMA ClockAdvances ==
  ASSUME NEW c \in CounterType, NEW clock \in Nat
  PROVE  LET d == AdvanceClock(c, clock)
         IN /\ d \in CounterType
            /\ d.writes = c.writes /\ d.processes = c.processes /\ d.bytesSent = c.bytesSent
            /\ d.hostClock = c.hostClock /\ d.latest >= c.latest
            /\ d.started = c.started \/ (c.started = 0 /\ d.started = clock)
<1>1. Higher(c.latest, clock) \in Nat /\ Higher(c.latest, clock) >= c.latest
  BY DEF Higher, CounterType
<1>2. CASE clock = 0
  BY <1>2 DEF AdvanceClock, CounterType
<1>3. CASE clock # 0
  BY <1>1, <1>3 DEF AdvanceClock, CounterType
<1> QED BY <1>2, <1>3

LEMMA CountsOneEvent ==
  ASSUME NEW c \in CounterType, NEW e, {e.clock, e.bytes, e.dropped} \subseteq Nat
  PROVE  LET d == CountEvent(c, e)
             k == CountedKind(e)
         IN /\ d \in CounterType
            /\ d.writes = c.writes + Bit(ModifiesFilesystem(k))
            /\ d.processes = c.processes + Bit(SpawnsProcess(k))
            /\ d.bytesSent = c.bytesSent + e.bytes
            /\ d.hostClock = c.hostClock /\ d.latest >= c.latest
            /\ d.started = c.started \/ c.started = 0
<1> DEFINE kind == CountedKind(e)
           counted == Counted(c, kind, e)
<1>1. /\ Bit(ModifiesFilesystem(kind)) \in Nat /\ Bit(SpawnsProcess(kind)) \in Nat
      /\ \A k \in Kinds : Bit(k = kind) \in Nat
  BY DEF Bit
<1>2. [k \in Kinds |-> c.uses[k] + Bit(k = kind)] \in [Kinds -> Nat]
  <2>1. c.uses \in [Kinds -> Nat]
    BY DEF CounterType
  <2> QED BY <1>1, <2>1
<1>3. /\ c.events \in Nat /\ c.dropped \in Nat /\ c.writes \in Nat /\ c.processes \in Nat
      /\ c.bytesSent \in Nat /\ c.hostClock \in BOOLEAN /\ c.started \in Nat /\ c.latest \in Nat
  BY DEF CounterType
<1>4. /\ counted \in CounterType
      /\ counted.writes = c.writes + Bit(ModifiesFilesystem(kind))
      /\ counted.processes = c.processes + Bit(SpawnsProcess(kind))
      /\ counted.bytesSent = c.bytesSent + e.bytes
      /\ counted.hostClock = c.hostClock /\ counted.latest = c.latest
      /\ counted.started = c.started
  <2> HIDE DEF kind
  <2> QED BY <1>1, <1>2, <1>3 DEF CounterType, Counted
<1>5. CountEvent(c, e) = AdvanceClock(counted, e.clock)
  BY DEF CountEvent
<1>6. LET d == AdvanceClock(counted, e.clock)
      IN /\ d \in CounterType
         /\ d.writes = counted.writes /\ d.processes = counted.processes
         /\ d.bytesSent = counted.bytesSent
         /\ d.hostClock = counted.hostClock /\ d.latest >= counted.latest
         /\ d.started = counted.started \/ counted.started = 0
  <2> HIDE DEF counted
  <2> QED BY <1>4, ClockAdvances
<1>7. LET d == CountEvent(c, e)
      IN /\ d \in CounterType
         /\ d.writes = c.writes + Bit(ModifiesFilesystem(kind))
         /\ d.processes = c.processes + Bit(SpawnsProcess(kind))
         /\ d.bytesSent = c.bytesSent + e.bytes
         /\ d.hostClock = c.hostClock /\ d.latest >= c.latest
         /\ d.started = c.started \/ c.started = 0
  <2> HIDE DEF counted, kind
  <2> QED BY <1>4, <1>5, <1>6
<1> QED BY <1>7

-----------------------------------------------------------------------------
\* What an event that was found within the envelope had left of the budgets of
\* the session.
RoomFor(n) ==
  LET env == config.envelope
      kind == Observe(log[n].event).kind
  IN /\ env.maxWrites > 0 /\ ModifiesFilesystem(kind) =>
          Cardinality(WritesBefore(n)) < env.maxWrites
     /\ env.maxProcesses > 0 /\ SpawnsProcess(kind) =>
          Cardinality(SpawnsBefore(n)) < env.maxProcesses

\* The counters are the number of events in the log that each of them counts.
Tallied ==
  /\ Ledgered
  /\ counters \in CounterType
  /\ \E S : log \in Seq(S)
  /\ \A i \in DOMAIN Grants : Cardinality(CoveredBy(i)) = grantUses[i]
  /\ counters.writes = Cardinality(WritesBefore(Len(log) + 1))
  /\ counters.processes = Cardinality(SpawnsBefore(Len(log) + 1))
  /\ \A n \in DOMAIN log : Within(n) => RoomFor(n)

\* The events before an index do not change, and the new one is added after them.
LEMMA LogGrows ==
  ASSUME NEW CONSTANT S, log \in Seq(S), NEW entry, log' = Append(log, entry),
         NEW CONSTANT k, k = Len(log)
  PROVE  LET within == entry.result.verdict = "within_envelope"
         IN /\ k \in Nat /\ Len(log') = k + 1 /\ \E T : log' \in Seq(T)
            /\ DOMAIN log = 1..k /\ DOMAIN log' = 1..k + 1
            /\ \A n \in 1..k : log'[n] = log[n]
            /\ log'[k + 1] = entry
            /\ \A i : CoveredBy(i)' = CoveredBy(i) \cup
                                        (IF within /\ entry.result.grant = i THEN {k + 1} ELSE {})
            /\ \A n \in 1..k + 1 : /\ WritesBefore(n)' = WritesBefore(n)
                                   /\ SpawnsBefore(n)' = SpawnsBefore(n)
            /\ WritesBefore(k + 2)' = WritesBefore(k + 1) \cup
                 (IF ModifiesFilesystem(CountedKind(entry.event)) THEN {k + 1} ELSE {})
            /\ SpawnsBefore(k + 2)' = SpawnsBefore(k + 1) \cup
                 (IF SpawnsProcess(CountedKind(entry.event)) THEN {k + 1} ELSE {})
<1>1. /\ k \in Nat /\ Len(log') = k + 1 /\ \E T : log' \in Seq(T)
      /\ DOMAIN log = 1..k /\ DOMAIN log' = 1..k + 1
      /\ \A n \in 1..k : log'[n] = log[n]
      /\ log'[k + 1] = entry
  <2>1. Append(log, entry) \in Seq(S \cup {entry})
    BY AppendedLog
  <2>2. /\ k \in Nat /\ Len(Append(log, entry)) = k + 1
        /\ DOMAIN log = 1..k /\ DOMAIN Append(log, entry) = 1..k + 1
        /\ \A n \in 1..k : Append(log, entry)[n] = log[n]
        /\ Append(log, entry)[k + 1] = entry
    BY AppendedLog
  <2> QED BY <2>1, <2>2
<1>2. ASSUME NEW i
      PROVE  CoveredBy(i)' = CoveredBy(i) \cup
               (IF entry.result.verdict = "within_envelope" /\ entry.result.grant = i
                THEN {k + 1} ELSE {})
  BY <1>1 DEF CoveredBy, Within
<1>3. ASSUME NEW n \in 1..k + 1
      PROVE  WritesBefore(n)' = WritesBefore(n) /\ SpawnsBefore(n)' = SpawnsBefore(n)
  <2>1. \A m \in 1..n - 1 : log'[m].event = log[m].event
    BY <1>1
  <2> QED BY <2>1 DEF WritesBefore, SpawnsBefore
<1>4. k + 2 - 1 = k + 1 /\ k + 1 - 1 = k
  BY <1>1
<1>5. WritesBefore(k + 2)' = WritesBefore(k + 1) \cup
        (IF ModifiesFilesystem(CountedKind(entry.event)) THEN {k + 1} ELSE {})
  <2>1. WritesBefore(k + 2)' = {m \in 1..k + 1 : ModifiesFilesystem(CountedKind(log'[m].event))}
    BY <1>1, <1>4 DEF WritesBefore
  <2>2. WritesBefore(k + 1) = {m \in 1..k : ModifiesFilesystem(CountedKind(log[m].event))}
    BY <1>1 DEF WritesBefore
  <2>3. 1..k + 1 = 1..k \cup {k + 1}
    BY <1>1
  <2>4. log'[k + 1].event = entry.event /\ \A m \in 1..k : log'[m].event = log[m].event
    BY <1>1
  <2> QED BY <2>1, <2>2, <2>3, <2>4
<1>6. SpawnsBefore(k + 2)' = SpawnsBefore(k + 1) \cup
        (IF SpawnsProcess(CountedKind(entry.event)) THEN {k + 1} ELSE {})
  <2>1. SpawnsBefore(k + 2)' = {m \in 1..k + 1 : SpawnsProcess(CountedKind(log'[m].event))}
    BY <1>1, <1>4 DEF SpawnsBefore
  <2>2. SpawnsBefore(k + 1) = {m \in 1..k : SpawnsProcess(CountedKind(log[m].event))}
    BY <1>1 DEF SpawnsBefore
  <2>3. 1..k + 1 = 1..k \cup {k + 1}
    BY <1>1
  <2>4. log'[k + 1].event = entry.event /\ \A m \in 1..k : log'[m].event = log[m].event
    BY <1>1
  <2> QED BY <2>1, <2>2, <2>3, <2>4
<1> QED BY <1>1, <1>2, <1>3, <1>5, <1>6


\* An event is reported with numbers that are numbers.
LEMMA ReportedNumbers ==
  ASSUME NEW reported \in Events, NEW id
  PROVE  LET e == [reported EXCEPT !.id = id] IN {e.clock, e.bytes, e.dropped} \subseteq Nat
<1> DEFINE e == [reported EXCEPT !.id = id]
<1>1. /\ {"clock", "bytes", "dropped"} \subseteq DOMAIN reported
      /\ {reported.clock, reported.bytes, reported.dropped} \subseteq Nat
  BY EventsAssumption
<1>2. e.clock = reported.clock /\ e.bytes = reported.bytes /\ e.dropped = reported.dropped
  BY <1>1
<1> HIDE DEF e
<1> QED BY <1>1, <1>2

LEMMA CountedGrants ==
  ASSUME Tallied, Grants' = Grants, NEW CONSTANT k \in Nat, k = Len(log), NEW grant,
         NEW within \in BOOLEAN,
         \A i : CoveredBy(i)' = CoveredBy(i) \cup (IF within /\ grant = i THEN {k + 1} ELSE {}),
         DOMAIN log = 1..k,
         \/ grantUses' = grantUses /\ ~(within /\ grant \in DOMAIN grantUses)
         \/ within /\ Charged(grant)
  PROVE  \A i \in DOMAIN Grants' : Cardinality(CoveredBy(i)') = grantUses'[i]
<1> SUFFICES ASSUME NEW i \in DOMAIN Grants PROVE Cardinality(CoveredBy(i)') = grantUses'[i]
  OBVIOUS
<1>1. DOMAIN grantUses = DOMAIN Grants /\ grantUses \in [DOMAIN Grants -> Nat]
  BY DEF Tallied, Ledgered
<1>2. CoveredBy(i) \in SUBSET (1..k) /\ Cardinality(CoveredBy(i)) = grantUses[i]
  BY DEF Tallied, CoveredBy
<1>3. CASE within /\ grant = i
  <2>1. grantUses' = [grantUses EXCEPT ![i] = @ + 1]
    BY <1>1, <1>3 DEF Charged
  <2>2. CoveredBy(i)' = CoveredBy(i) \cup {k + 1}
    BY <1>3
  <2> QED BY <1>1, <1>2, <2>1, <2>2, OneMoreIndex
<1>4. CASE ~(within /\ grant = i)
  <2>1. CoveredBy(i)' = CoveredBy(i)
    BY <1>4
  <2>2. grantUses'[i] = grantUses[i]
    BY <1>1, <1>4 DEF Charged
  <2> QED BY <1>2, <2>1, <2>2
<1> QED BY <1>3, <1>4

\* One more of the events that a counter counts.
LEMMA CountedBudget ==
  ASSUME NEW k \in Nat, NEW before \in SUBSET (1..k), NEW counted \in BOOLEAN,
         NEW used, used = Cardinality(before)
  PROVE  used + Bit(counted) = Cardinality(before \cup (IF counted THEN {k + 1} ELSE {}))
<1>1. CASE counted
  BY <1>1, OneMoreIndex DEF Bit
<1>2. CASE ~counted
  <2>1. Cardinality(before) \in Nat
    BY OneMoreIndex
  <2> QED BY <1>2, <2>1 DEF Bit
<1> QED BY <1>1, <1>2

LEMMA TalliedByProcess ==
  ASSUME Tallied, NEW reported \in Events, NEW failing \in Stages \cup {"none"},
         Process(reported, failing)
  PROVE  Tallied'
<1> DEFINE e == [reported EXCEPT !.id = Len(log) + 1]
           result == Validate(config.envelope, e, Budgets, now)
           recorded == IF failing = "validate" THEN NoResult ELSE result
           within == recorded.verdict = "within_envelope"
<1>1. PICK S : log \in Seq(S)
  BY DEF Tallied
<1>2. PICK k \in Nat : k = Len(log)
  BY <1>1, LenProperties
<1>3. PICK entry : /\ log' = Append(log, entry)
                   /\ entry.event = e /\ entry.result = recorded
  BY SMTT(60) DEF Process
<1>4. /\ config' = config /\ counters' = CountEvent(counters, e)
      /\ grantUses' = IF failing = "validate" THEN grantUses ELSE ChargeGrant(result)
  BY DEF Process
<1>5. {e.clock, e.bytes, e.dropped} \subseteq Nat
  BY ReportedNumbers
<1>6. Grants' = Grants
  BY <1>4 DEF Grants
<1>7. \/ grantUses' = grantUses /\ ~(within /\ recorded.grant \in DOMAIN grantUses)
      \/ within /\ Charged(recorded.grant)
  <2>1. CASE failing = "validate"
    BY <1>4, <2>1 DEF NoResult
  <2>2. CASE failing # "validate"
    <3>1. grantUses \in [DOMAIN Grants -> Nat]
      BY DEF Tallied, Ledgered
    <3>2. grantUses' = ChargeGrant(result) /\ recorded = result
      BY <1>4, <2>2
    <3>3. \/ grantUses' = grantUses /\ ~(result.verdict = "within_envelope"
                                         /\ result.grant \in DOMAIN grantUses)
          \/ result.verdict = "within_envelope" /\ Charged(result.grant)
      BY <3>1, <3>2, ChargeIsOneUse
    <3> HIDE DEF result
    <3> QED BY <3>2, <3>3
  <2> QED BY <2>1, <2>2
<1>8. Ledgered'
  <2>1. [Next]_vars
    BY DEF Next
  <2> QED BY <2>1, LedgeredStep DEF Tallied
<1>9. /\ ~within \/ (recorded = result /\ ~OverSessionBudget(config.envelope, Observe(e), Budgets))
  <2>1. CASE failing = "validate"
    BY <2>1 DEF NoResult
  <2>2. CASE failing # "validate"
    <3>1. recorded = result
      BY <2>2
    <3>2. ASSUME result.verdict = "within_envelope"
          PROVE  ~OverSessionBudget(config.envelope, Observe(e), Budgets)
      BY <3>2, WithinHasRoom
    <3> HIDE DEF result
    <3> QED BY <3>1, <3>2
  <2> QED BY <2>1, <2>2
<1> HIDE DEF recorded
<1>10. /\ Len(log') = k + 1 /\ \E T : log' \in Seq(T)
       /\ DOMAIN log = 1..k /\ DOMAIN log' = 1..k + 1
       /\ \A n \in 1..k : log'[n] = log[n]
       /\ log'[k + 1] = entry
       /\ \A i : CoveredBy(i)' = CoveredBy(i) \cup
                                   (IF within /\ recorded.grant = i THEN {k + 1} ELSE {})
       /\ \A n \in 1..k + 1 : /\ WritesBefore(n)' = WritesBefore(n)
                              /\ SpawnsBefore(n)' = SpawnsBefore(n)
       /\ WritesBefore(k + 2)' = WritesBefore(k + 1) \cup
            (IF ModifiesFilesystem(CountedKind(e)) THEN {k + 1} ELSE {})
       /\ SpawnsBefore(k + 2)' = SpawnsBefore(k + 1) \cup
            (IF SpawnsProcess(CountedKind(e)) THEN {k + 1} ELSE {})
  <2> HIDE DEF e
  <2>1. /\ Len(log') = k + 1 /\ \E T : log' \in Seq(T)
        /\ DOMAIN log = 1..k /\ DOMAIN log' = 1..k + 1
        /\ \A n \in 1..k : log'[n] = log[n]
        /\ log'[k + 1] = entry
    BY <1>1, <1>2, <1>3, LogGrows
  <2>2. \A i : CoveredBy(i)' = CoveredBy(i) \cup
                 (IF entry.result.verdict = "within_envelope" /\ entry.result.grant = i
                  THEN {k + 1} ELSE {})
    BY <1>1, <1>2, <1>3, LogGrows
  <2>3. \A n \in 1..k + 1 : WritesBefore(n)' = WritesBefore(n) /\ SpawnsBefore(n)' = SpawnsBefore(n)
    BY <1>1, <1>2, <1>3, LogGrows
  <2>4. /\ WritesBefore(k + 2)' = WritesBefore(k + 1) \cup
             (IF ModifiesFilesystem(CountedKind(entry.event)) THEN {k + 1} ELSE {})
        /\ SpawnsBefore(k + 2)' = SpawnsBefore(k + 1) \cup
             (IF SpawnsProcess(CountedKind(entry.event)) THEN {k + 1} ELSE {})
    BY <1>1, <1>2, <1>3, LogGrows
  <2> QED BY <1>3, <2>1, <2>2, <2>3, <2>4
<1>11. \A i \in DOMAIN Grants' : Cardinality(CoveredBy(i)') = grantUses'[i]
  BY <1>2, <1>6, <1>7, <1>10, CountedGrants
<1>12. LET d == counters'
       IN /\ d \in CounterType
          /\ d.writes = counters.writes + Bit(ModifiesFilesystem(CountedKind(e)))
          /\ d.processes = counters.processes + Bit(SpawnsProcess(CountedKind(e)))
  <2> HIDE DEF e
  <2> QED BY <1>4, <1>5, CountsOneEvent DEF Tallied
<1>13. /\ counters.writes = Cardinality(WritesBefore(k + 1))
       /\ counters.processes = Cardinality(SpawnsBefore(k + 1))
       /\ WritesBefore(k + 1) \in SUBSET (1..k) /\ SpawnsBefore(k + 1) \in SUBSET (1..k)
  <2>1. k + 1 - 1 = k
    OBVIOUS
  <2> QED BY <1>2, <2>1 DEF Tallied, WritesBefore, SpawnsBefore
<1>14. counters'.writes = Cardinality(WritesBefore(k + 2)')
  <2> HIDE DEF e
  <2>1. ModifiesFilesystem(CountedKind(e)) \in BOOLEAN
    BY DEF ModifiesFilesystem
  <2> QED BY <1>10, <1>12, <1>13, <2>1, CountedBudget
<1>15. counters'.processes = Cardinality(SpawnsBefore(k + 2)')
  <2> HIDE DEF e
  <2>1. SpawnsProcess(CountedKind(e)) \in BOOLEAN
    BY DEF SpawnsProcess
  <2> QED BY <1>10, <1>12, <1>13, <2>1, CountedBudget
<1>16. Len(log') + 1 = k + 2
  BY <1>10
<1>17. ASSUME NEW n \in 1..k + 1, Within(n)' PROVE RoomFor(n)'
  <2>1. CASE n \in 1..k
    <3>1. Within(n) /\ log'[n].event = log[n].event
      BY <1>10, <1>17, <2>1 DEF Within
    <3>2. RoomFor(n)
      BY <1>10, <2>1, <3>1 DEF Tallied
    <3> QED BY <1>4, <1>10, <2>1, <3>1, <3>2 DEF RoomFor
  <2>2. CASE n = k + 1
    <3>1. within /\ log'[n].event = e
      BY <1>3, <1>10, <1>17, <2>2 DEF Within
    <3>2. ~OverSessionBudget(config.envelope, Observe(e), Budgets)
      BY <1>9, <3>1
    <3>3. /\ Budgets.writes = counters.writes /\ Budgets.processes = counters.processes
      BY DEF Budgets
    <3>4. /\ {config.envelope.maxWrites, config.envelope.maxProcesses} \subseteq Nat
          /\ {counters.writes, counters.processes} \subseteq Nat
      BY ConfigsAssumption DEF Tallied, Ledgered, CounterType
    <3>5. LET env == config.envelope
              kind == Observe(e).kind
          IN /\ env.maxWrites > 0 /\ ModifiesFilesystem(kind) => counters.writes < env.maxWrites
             /\ env.maxProcesses > 0 /\ SpawnsProcess(kind) => counters.processes < env.maxProcesses
      <4> HIDE DEF e
      <4> QED BY <3>2, <3>3, <3>4 DEF OverSessionBudget
    <3>6. WritesBefore(n)' = WritesBefore(k + 1) /\ SpawnsBefore(n)' = SpawnsBefore(k + 1)
      BY <1>10, <2>2
    <3> HIDE DEF e
    <3> QED BY <1>4, <1>13, <3>1, <3>5, <3>6 DEF RoomFor
  <2> QED BY <2>1, <2>2
<1> HIDE DEF e
<1> QED BY <1>8, <1>10, <1>11, <1>12, <1>14, <1>15, <1>16, <1>17 DEF Tallied


LEMMA TalliedStep == Tallied /\ [Next]_vars => Tallied'
<1> SUFFICES ASSUME Tallied, [Next]_vars PROVE Tallied'
  OBVIOUS
<1>1. CASE Tick \/ UNCHANGED vars
  <2>1. /\ config' = config /\ grantUses' = grantUses /\ counters' = counters /\ log' = log
    BY <1>1 DEF Tick, vars
  <2> QED BY <2>1 DEF Tallied, Ledgered, Grants, CoveredBy, Within, WritesBefore, SpawnsBefore,
                      RoomFor
<1>2. ASSUME NEW reported \in Events, NEW failing \in Stages \cup {"none"},
             Process(reported, failing)
      PROVE  Tallied'
  BY <1>2, TalliedByProcess
<1> QED BY <1>1, <1>2 DEF Next

LEMMA TalliedInit == Init => Tallied
<1> SUFFICES ASSUME Init PROVE Tallied
  OBVIOUS
<1>1. Ledgered
  BY LedgeredInit
<1>2. /\ log = <<>> /\ now = 1 /\ grantUses = [i \in DOMAIN Grants |-> 0]
      /\ counters = NewCounters(IF config.hostClock THEN now ELSE 0)
  BY DEF Init, Grants
<1>3. /\ log \in Seq({}) /\ Len(log) = 0 /\ DOMAIN log = {}
  BY <1>2
<1>4. counters \in CounterType /\ counters.writes = 0 /\ counters.processes = 0
  BY <1>2 DEF NewCounters, CounterType
<1>5. /\ \A i : CoveredBy(i) = {}
      /\ WritesBefore(Len(log) + 1) = {} /\ SpawnsBefore(Len(log) + 1) = {}
  BY <1>3 DEF CoveredBy, WritesBefore, SpawnsBefore
<1>6. Cardinality({}) = 0
  BY FS_EmptySet
<1> QED BY <1>1, <1>2, <1>3, <1>4, <1>5, <1>6 DEF Tallied

\* No budget is passed, by any stream of events under any envelope and any rules,
\* with any stage failing at any of them.
\* validate.go, budgetExhausted and sessionConstraint, at the counters of state.go.
THEOREM BudgetsAreHeld == Spec => []BudgetsHold
<1>1. Tallied => BudgetsHold
  <2> SUFFICES ASSUME Tallied PROVE BudgetsHold
    OBVIOUS
  <2>1. \A i \in DOMAIN Grants : Grants[i].sel.max > 0 =>
          Cardinality(CoveredBy(i)) <= Grants[i].sel.max
    BY DEF Tallied, Ledgered
  <2>2. \A n \in DOMAIN log : Within(n) => RoomFor(n)
    BY DEF Tallied
  <2> QED BY <2>1, <2>2 DEF BudgetsHold, RoomFor, Grants
<1> QED BY <1>1, TalliedInit, TalliedStep, PTL DEF Spec

-----------------------------------------------------------------------------
\* What a recording measures never goes back, and what the host's clock measures
\* does only when this clock does.
Measured ==
  /\ Tallied
  /\ now \in Nat

LEMMA ElapsedGrows ==
  ASSUME Measured, [Next]_vars
  PROVE  /\ Measured'
         /\ \/ Elapsed(counters', now') >= Elapsed(counters, now)
            \/ counters.hostClock /\ now' < now
<1>1. /\ Tallied' /\ counters \in CounterType /\ now \in Nat
      /\ {counters.started, counters.latest} \subseteq Nat
  BY TalliedStep DEF Measured, Tallied, CounterType
<1>2. CASE Tick \/ UNCHANGED vars
  <2>1. counters' = counters /\ now' \in Nat
    BY <1>1, <1>2, BoundsAssumption DEF Tick, vars
  <2>2. CASE counters.hostClock /\ now' < now
    BY <1>1, <2>1, <2>2 DEF Measured
  <2>3. CASE counters.hostClock /\ now' >= now
    BY <1>1, <2>1, <2>3 DEF Measured, Elapsed
  <2>4. CASE ~counters.hostClock
    BY <1>1, <2>1, <2>4 DEF Measured, Elapsed
  <2> QED BY <1>1, <2>1, <2>2, <2>3, <2>4
<1>3. ASSUME NEW reported \in Events, NEW failing \in Stages \cup {"none"},
             Process(reported, failing)
      PROVE  Measured' /\ Elapsed(counters', now') >= Elapsed(counters, now)
  <2> DEFINE e == [reported EXCEPT !.id = Len(log) + 1]
  <2>1. now' = now /\ counters' = CountEvent(counters, e)
    BY <1>3 DEF Process
  <2>2. {e.clock, e.bytes, e.dropped} \subseteq Nat
    BY ReportedNumbers
  <2> HIDE DEF e
  <2>3. /\ counters' \in CounterType /\ counters'.hostClock = counters.hostClock
        /\ counters'.latest >= counters.latest
        /\ counters'.started = counters.started \/ counters.started = 0
    BY <1>1, <2>1, <2>2, CountsOneEvent
  <2>4. {counters'.started, counters'.latest} \subseteq Nat
    BY <2>3 DEF CounterType
  <2>5. Measured'
    BY <1>1, <2>1 DEF Measured
  <2>6. Elapsed(counters', now') \in Nat
    BY <1>1, <2>1, <2>4 DEF Elapsed
  <2>7. CASE counters.started = 0
    <3>1. Elapsed(counters, now) = 0
      BY <2>7 DEF Elapsed
    <3> QED BY <2>5, <2>6, <3>1
  <2>8. CASE counters'.started = counters.started
    BY <1>1, <2>1, <2>3, <2>4, <2>5, <2>8 DEF Elapsed
  <2> QED BY <2>3, <2>7, <2>8
<1> QED BY <1>2, <1>3 DEF Next


\* A spent budget stays spent.
LEMMA BudgetsOnlyGrow ==
  ASSUME Measured, [Next]_vars
  PROVE  /\ config' = config /\ Grants' = Grants
         /\ \A i \in DOMAIN Grants : grantUses'[i] >= grantUses[i]
         /\ counters'.writes >= counters.writes /\ counters'.processes >= counters.processes
         /\ counters'.bytesSent >= counters.bytesSent
<1>1. config' = config /\ (grantUses' = grantUses \/ \E i \in DOMAIN Grants : Charged(i))
  BY StepOfTheAccounts DEF Measured, Tallied
<1>2. Grants' = Grants
  BY <1>1 DEF Grants
<1>3. grantUses \in [DOMAIN Grants -> Nat]
  BY DEF Measured, Tallied, Ledgered
<1>4. \A i \in DOMAIN Grants : grantUses'[i] >= grantUses[i]
  BY <1>1, <1>3 DEF Charged
<1>5. /\ counters \in CounterType
      /\ {counters.writes, counters.processes, counters.bytesSent} \subseteq Nat
  BY DEF Measured, Tallied, CounterType
<1>6. CASE Tick \/ UNCHANGED vars
  <2>1. counters' = counters
    BY <1>6 DEF Tick, vars
  <2> QED BY <1>1, <1>2, <1>4, <1>5, <2>1
<1>7. ASSUME NEW reported \in Events, NEW failing \in Stages \cup {"none"},
             Process(reported, failing)
      PROVE  /\ counters'.writes >= counters.writes /\ counters'.processes >= counters.processes
             /\ counters'.bytesSent >= counters.bytesSent
  <2> DEFINE e == [reported EXCEPT !.id = Len(log) + 1]
  <2>1. counters' = CountEvent(counters, e)
    BY <1>7 DEF Process
  <2>2. {e.clock, e.bytes, e.dropped} \subseteq Nat
    BY ReportedNumbers
  <2> HIDE DEF e
  <2>3. /\ counters'.writes = counters.writes + Bit(ModifiesFilesystem(CountedKind(e)))
        /\ counters'.processes = counters.processes + Bit(SpawnsProcess(CountedKind(e)))
        /\ counters'.bytesSent = counters.bytesSent + e.bytes
    BY <1>5, <2>1, <2>2, CountsOneEvent
  <2>4. \A b : Bit(b) \in {0, 1}
    BY DEF Bit
  <2> QED BY <1>5, <2>2, <2>3, <2>4
<1> QED BY <1>1, <1>2, <1>4, <1>6, <1>7 DEF Next

\* No budget that is spent comes back, whatever clocks the events carry, except a
\* duration measured by a host's clock that is set back (state.go, advanceClock and
\* ElapsedSeconds): "a duration that could decrease would let an exhausted budget
\* come back".
THEOREM SpentBudgetsStaySpent == Spec => SpentStaysSpent
<1>1. Init => Measured
  BY TalliedInit DEF Init, Measured
<1>2. Measured /\ [Next]_vars => Measured'
  BY ElapsedGrows
<1> DEFINE SetBack == IF counters.hostClock /\ now' < now THEN {<<"duration", 0>>} ELSE {}
<1>3. Measured /\ [Next]_vars => [Spent \ Spent' \subseteq SetBack]_vars
  <2> SUFFICES ASSUME Measured, [Next]_vars PROVE Spent \ Spent' \subseteq SetBack
    OBVIOUS
  <2>1. /\ config' = config /\ Grants' = Grants
        /\ \A i \in DOMAIN Grants : grantUses'[i] >= grantUses[i]
        /\ counters'.writes >= counters.writes /\ counters'.processes >= counters.processes
        /\ counters'.bytesSent >= counters.bytesSent
    BY BudgetsOnlyGrow
  <2>2. /\ Measured'
        /\ \/ Elapsed(counters', now') >= Elapsed(counters, now)
           \/ counters.hostClock /\ now' < now
    BY ElapsedGrows
  <2>3. /\ DOMAIN grantUses = DOMAIN Grants /\ DOMAIN grantUses' = DOMAIN Grants
        /\ \A i \in DOMAIN Grants : /\ Grants[i].sel.max \in Nat
                                    /\ {grantUses[i], grantUses'[i]} \subseteq Nat
    BY <2>1, <2>2, ConfigsAssumption, LimitsAreNumbers DEF Measured, Tallied, Ledgered, Grants
  <2>4. \A i \in DOMAIN grantUses : BudgetExhausted(Grants[i], grantUses[i]) =>
          i \in DOMAIN grantUses' /\ BudgetExhausted(Grants[i], grantUses'[i])
    BY <2>1, <2>3 DEF BudgetExhausted
  <2>5. /\ {config.envelope.maxWrites, config.envelope.maxProcesses,
            config.envelope.maxBytes, config.envelope.maxDuration} \subseteq Nat
        /\ {counters.writes, counters.processes, counters.bytesSent} \subseteq Nat
        /\ {counters'.writes, counters'.processes, counters'.bytesSent} \subseteq Nat
    BY <2>2, ConfigsAssumption DEF Measured, Tallied, Ledgered, CounterType
  <2>6. /\ Elapsed(counters, now) \in Int /\ Elapsed(counters', now') \in Int
    <3>1. ASSUME NEW c \in CounterType, NEW time \in Nat PROVE Elapsed(c, time) \in Int
      <4>1. c.started \in Nat /\ c.latest \in Nat
        BY DEF CounterType
      <4> QED BY <4>1 DEF Elapsed
    <3>2. /\ counters \in CounterType /\ now \in Nat
          /\ counters' \in CounterType /\ now' \in Nat
      BY <2>2 DEF Measured, Tallied
    <3> QED BY <3>1, <3>2
  <2>7. CASE Elapsed(counters', now') >= Elapsed(counters, now)
    <3>1. Spent \subseteq Spent'
      BY <2>1, <2>2, <2>4, <2>5, <2>6, <2>7 DEF Spent, Grants
    <3> QED BY <3>1
  <2>8. CASE counters.hostClock /\ now' < now
    <3>1. \A budget \in Spent : budget = <<"duration", 0>> \/ budget \in Spent'
      BY <2>1, <2>4, <2>5 DEF Spent, Grants
    <3> QED BY <2>8, <3>1
  <2> QED BY <2>2, <2>7, <2>8
<1> QED BY <1>1, <1>2, <1>3, PTL DEF Spec, SpentStaysSpent

-----------------------------------------------------------------------------
(***************************************************************************)
(* Denials.  matchSegments finds every way to cut a path that a pattern    *)
(* allows, so that what a denial may describe is at least unclear to the   *)
(* matcher, and never within the envelope.                                 *)
(***************************************************************************)

\* What a position of the pattern covers, when what the next one covers is known.
Covering(pattern, path, next, i) ==
  {j \in 1..Len(path) + 1 :
     IF i > Len(pattern) THEN j > Len(path)
     ELSE IF pattern[i] = Deep
          THEN i = Len(pattern) \/ \E k \in j..Len(path) + 1 : k \in next
     ELSE j <= Len(path) /\ path[j] \in pattern[i].covers /\ j + 1 \in next}

\* The recursion is well defined.
CoversFrom(pattern, path, from) ==
  from = [i \in 1..Len(pattern) + 1 |-> Covering(pattern, path, from[i + 1], i)]

LEMMA CoveringExists ==
  ASSUME NEW pattern, NEW path, Len(pattern) \in Nat
  PROVE  \E from : CoversFrom(pattern, path, from)
<1> DEFINE m == Len(pattern)
           I == 1..m + 1
           C(next, i) == Covering(pattern, path, next, i)
           Solved(f, k) == \A i \in I : i >= m + 1 - k => f[i] = C(f[i + 1], i)
           T == {k \in 0..m : ~\E f : f = [i \in I |-> f[i]] /\ Solved(f, k)}
<1>1. m \in Nat
  OBVIOUS
<1>2. \A i : i > m => \A x, y : C(x, i) = C(y, i)
  <2> SUFFICES ASSUME NEW i, i > m, NEW x, NEW y PROVE C(x, i) = C(y, i)
    OBVIOUS
  <2>1. C(x, i) = {j \in 1..Len(path) + 1 : j > Len(path)}
    BY DEF Covering
  <2>2. C(y, i) = {j \in 1..Len(path) + 1 : j > Len(path)}
    BY DEF Covering
  <2> QED
    BY <2>1, <2>2
<1> HIDE DEF m, C
<1>3. 0 \notin T
  <2> DEFINE f == [i \in I |-> C({}, m + 1)]
  <2>1. f = [i \in I |-> f[i]]
    OBVIOUS
  <2>2. ASSUME NEW i \in I, i >= m + 1 - 0 PROVE f[i] = C(f[i + 1], i)
    <3>1. i = m + 1 /\ i > m
      BY <1>1, <2>2
    <3>2. f[i] = C({}, m + 1)
      OBVIOUS
    <3> HIDE DEF f
    <3> QED
      BY <1>2, <3>1, <3>2
  <2> HIDE DEF f
  <2> QED
    BY <2>1, <2>2
<1>4. ASSUME NEW k \in T, k # 0 PROVE k - 1 \in T
  <2> SUFFICES ASSUME k - 1 \notin T PROVE FALSE
    OBVIOUS
  <2>1. k \in 1..m /\ k - 1 \in 0..m
    BY <1>1, <1>4
  <2>2. PICK f : f = [i \in I |-> f[i]] /\ Solved(f, k - 1)
    BY <2>1
  <2>0. k \in Nat
    OBVIOUS
  <2> HIDE DEF T
  <2> DEFINE a == m + 1 - k
             g == [i \in I |-> IF i = a THEN C(f[a + 1], a) ELSE f[i]]
  <2>3. a \in I /\ a + 1 \in I
    BY <1>1, <2>1
  <2> HIDE DEF a
  <2>4. /\ g = [i \in I |-> g[i]] /\ g[a] = C(f[a + 1], a)
        /\ \A i \in I : i # a => g[i] = f[i]
    BY <2>3
  <2>5. ASSUME NEW i \in I, i >= m + 1 - k PROVE g[i] = C(g[i + 1], i)
    <3>1. CASE i = a
      <4>1. a + 1 # a
        BY <2>3
      <4>2. g[a + 1] = f[a + 1]
        BY <2>3, <2>4, <4>1
      <4> HIDE DEF g
      <4> QED
        BY <2>4, <3>1, <4>2
    <3>2. CASE i # a
      <4>1. i >= m + 1 - (k - 1)
        BY <1>1, <2>1, <2>5, <3>2 DEF a
      <4>2. g[i] = f[i] /\ f[i] = C(f[i + 1], i)
        BY <2>2, <2>4, <3>2, <4>1
      <4>3. CASE i = m + 1
        <5>1. i > m
          BY <1>1, <4>3
        <5> HIDE DEF g
        <5> QED
          BY <1>2, <4>2, <5>1
      <4>4. CASE i # m + 1
        <5>1. i + 1 \in I /\ i + 1 # a
          BY <1>1, <2>0, <4>1, <4>4 DEF a
        <5>2. g[i + 1] = f[i + 1]
          BY <2>4, <5>1
        <5> HIDE DEF g
        <5> QED
          BY <4>2, <5>2
      <4> QED
        BY <4>3, <4>4
    <3> QED
      BY <3>1, <3>2
  <2> HIDE DEF g
  <2>6. Solved(g, k)
    BY <2>5
  <2> QED
    BY <2>4, <2>6 DEF T
<1>5. T = {}
  <2> SUFFICES ASSUME T # {} PROVE FALSE
    OBVIOUS
  <2>1. T \subseteq Nat
    BY <1>1
  <2> HIDE DEF T
  <2>2. PICK k \in T : \A l \in T : k <= l
    BY <2>1, LeastNatural
  <2> QED
    BY <1>3, <1>4, <2>1, <2>2
<1>6. PICK f : f = [i \in I |-> f[i]] /\ Solved(f, m)
  BY <1>1, <1>5
<1>7. \A i \in I : f[i] = C(f[i + 1], i)
  <2>1. \A i \in I : i >= m + 1 - m
    BY <1>1
  <2> QED
    BY <1>6, <2>1
<1>8. f = [i \in I |-> C(f[i + 1], i)]
  <2>1. [i \in I |-> f[i]] = [i \in I |-> C(f[i + 1], i)]
    BY <1>7
  <2> QED
    BY <1>6, <2>1
<1> QED
  BY <1>8 DEF CoversFrom, m, C

LEMMA SegmentsCovered ==
  ASSUME NEW pattern, NEW path, IsSegments(pattern), Len(path) \in Nat, Covers(pattern, path)
  PROVE  MatchSegments(pattern, path)
<1> DEFINE m == Len(pattern)
           n == Len(path)
<1>1. m \in Nat /\ n \in Nat /\ DOMAIN pattern = 1..m
  BY DEF IsSegments
<1>2. PICK cut \in [0..m -> 0..n] :
        /\ cut[0] = 0 /\ cut[m] = n
        /\ \A i \in 1..m : IF pattern[i] = Deep THEN cut[i] >= cut[i - 1]
                           ELSE cut[i] = cut[i - 1] + 1 /\ path[cut[i]] \in pattern[i].covers
  BY <1>1 DEF Covers
<1> DEFINE from == CHOOSE f : CoversFrom(pattern, path, f)
<1>3. CoversFrom(pattern, path, from)
  BY <1>1, CoveringExists
<1>4. MatchSegments(pattern, path) <=> 1 \in from[1]
  BY Zenon DEF MatchSegments, CoversFrom, Covering
<1> HIDE DEF from
<1>5. \A i \in 1..m + 1 : from[i] = Covering(pattern, path, from[i + 1], i)
  BY <1>3 DEF CoversFrom
<1> DEFINE T == {k \in 0..m : cut[m - k] + 1 \notin from[m - k + 1]}
<1> HIDE DEF m, n
<1>6. 0 \notin T
  <2>1. m - 0 + 1 = m + 1 /\ m - 0 = m /\ m + 1 \in 1..m + 1 /\ m + 1 > m
    BY <1>1
  <2>2. n + 1 \in from[m + 1]
    <3>1. n + 1 \in 1..n + 1 /\ n + 1 > n
      BY <1>1
    <3>2. \A next : n + 1 \in Covering(pattern, path, next, m + 1)
      BY <2>1, <3>1 DEF Covering, m, n
    <3> QED
      BY <1>5, <2>1, <3>2
  <2> QED
    BY <1>2, <2>1, <2>2
<1>7. ASSUME NEW k \in T, k # 0 PROVE k - 1 \in T
  <2> SUFFICES ASSUME k - 1 \notin T PROVE FALSE
    OBVIOUS
  <2>1. PICK i \in 1..m : i = m - k + 1
    BY <1>1, <1>7
  <2>2. k - 1 \in 0..m /\ m - (k - 1) = i /\ m - (k - 1) + 1 = i + 1 /\ m - k = i - 1 /\ m - k + 1 = i
    BY <1>1, <1>7, <2>1
  <2>3. cut[i] + 1 \in from[i + 1] /\ cut[i - 1] + 1 \notin from[i]
    BY <1>7, <2>2
  <2>4. cut[i] \in 0..n /\ cut[i - 1] \in 0..n
    BY <1>1, <1>2
  <2>5. i \in 1..m + 1 /\ ~(i > m)
    BY <1>1
  <2> DEFINE j == cut[i - 1] + 1
             next == from[i + 1]
  <2>6. j \in 1..n + 1
    BY <1>1, <2>4
  <2>7. from[i] = Covering(pattern, path, next, i)
    BY <1>5, <2>5
  <2> HIDE DEF next
  <2>8. CASE pattern[i] = Deep
    <3>1. cut[i] >= cut[i - 1]
      BY <1>2, <2>8
    <3>2. cut[i] + 1 \in j..n + 1 /\ cut[i] + 1 \in next
      <4>1. PICK p, q \in 0..n : p = cut[i] /\ q = cut[i - 1]
        BY <2>4
      <4>2. p >= q
        BY <3>1, <4>1
      <4>3. p + 1 \in q + 1..n + 1
        BY ONLY <1>1, <4>1, <4>2
      <4> QED BY <2>3, <4>1, <4>3 DEF next
    <3>3. \E l \in j..n + 1 : l \in next
      BY <3>2
    <3> HIDE DEF j
    <3>4. j \in Covering(pattern, path, next, i)
      BY ONLY <2>5, <2>6, <2>8, <3>3 DEF Covering, m, n
    <3> QED
      BY <2>3, <2>7, <3>4 DEF j
  <2>9. CASE pattern[i] # Deep
    <3>1. cut[i] = j /\ path[cut[i]] \in pattern[i].covers
      BY <1>2, <2>9
    <3>2. j <= n /\ j + 1 \in next
      BY <1>1, <2>3, <2>4, <3>1 DEF next
    <3> HIDE DEF j
    <3>3. j \in Covering(pattern, path, next, i)
      BY ONLY <2>5, <2>6, <2>9, <3>1, <3>2 DEF Covering, m, n
    <3> QED
      BY <2>3, <2>7, <3>3 DEF j
  <2> QED
    BY <2>8, <2>9
<1>8. T = {}
  <2> SUFFICES ASSUME T # {} PROVE FALSE
    OBVIOUS
  <2>1. T \subseteq Nat
    BY <1>1
  <2> HIDE DEF T
  <2>2. PICK k \in T : \A l \in T : k <= l
    BY <2>1, LeastNatural
  <2> QED
    BY <1>6, <1>7, <2>1, <2>2
<1>9. m \in 0..m /\ m - m = 0
  BY <1>1
<1>10. cut[m - m] + 1 \in from[m - m + 1]
  BY <1>8, <1>9
<1>11. 1 \in from[1]
  BY <1>2, <1>9, <1>10
<1> QED
  BY <1>4, <1>11

\* What is within the envelope was observed, and no denial answered for it, under
\* any of the kinds it exercised, anything but no.
LEMMA WithinIsUndenied ==
  ASSUME NEW env, NEW e, NEW st, NEW time,
         Validate(env, e, st, time).verdict = "within_envelope"
  PROVE  /\ Observe(e) # Unobservable
         /\ \A k \in DeniableKinds(e, Observe(e)), i \in DOMAIN env.denials :
              Match(env.denials[i], As(Observe(e), k)) \notin {Yes, Unclear}
<1> DEFINE obs == Observe(e)
           denying(answer) ==
             {k \in DeniableKinds(e, obs) : Answering(env.denials, As(obs, k), answer) # {}}
           kind == IF obs.kind \in denying(Yes) THEN obs.kind ELSE CHOOSE k \in denying(Yes) : TRUE
           unresolvable == Result("indeterminate", 0, {"unresolvable"}, e.kind)
<1>1. \A grant, types, k, verdict : Result(verdict, grant, types, k).verdict = verdict
  BY DEF Result
<1>2. /\ Expired(env, e, time) =>
           Validate(env, e, st, time) = Result("outside_envelope", 0, {"envelope_expired"}, e.kind)
      /\ ~Expired(env, e, time) /\ obs = Unobservable => Validate(env, e, st, time) = unresolvable
      /\ ~Expired(env, e, time) /\ obs # Unobservable /\ denying(Yes) # {} =>
           Validate(env, e, st, time) = Result("explicitly_denied", 0, {"explicit_denial"}, kind)
      /\ ~Expired(env, e, time) /\ obs # Unobservable /\ denying(Yes) = {} /\ denying(Unclear) # {} =>
           Validate(env, e, st, time) = unresolvable
  BY Zenon DEF Validate
<1>3. obs # Unobservable /\ denying(Yes) = {} /\ denying(Unclear) = {}
  <2> HIDE DEF obs, denying, kind
  <2> QED
    BY <1>1, <1>2
<1>4. ASSUME NEW k \in DeniableKinds(e, obs), NEW i \in DOMAIN env.denials,
             NEW answer \in {Yes, Unclear}, Match(env.denials[i], As(obs, k)) = answer
      PROVE  FALSE
  <2>1. i \in Answering(env.denials, As(obs, k), answer)
    BY <1>4 DEF Answering
  <2>2. k \in denying(answer)
    BY <2>1
  <2> QED
    BY <1>3, <2>2
<1> QED
  BY <1>3, <1>4

\* What of an observation does not depend on its kind.
LEMMA ObservationShape ==
  ASSUME NEW e
  PROVE  DOMAIN Observe(e) = {"kind", "target", "hosts", "port", "protocol", "argv"}
<1> DEFINE of == [Unobservable EXCEPT !.kind = e.kind]
<1>1. DOMAIN of = {"kind", "target", "hosts", "port", "protocol", "argv"}
  BY DEF Unobservable
<1>2. DOMAIN Unobservable = {"kind", "target", "hosts", "port", "protocol", "argv"}
  BY DEF Unobservable
<1> HIDE DEF of
<1>3. /\ \A x : DOMAIN [of EXCEPT !.target = x] = DOMAIN of
      /\ \A x, y : DOMAIN [of EXCEPT !.target = x, !.argv = y] = DOMAIN of
      /\ \A x, y, z : DOMAIN [of EXCEPT !.hosts = x, !.protocol = y, !.port = z] = DOMAIN of
  OBVIOUS
<1>4. DOMAIN Observe(e) = DOMAIN of \/ DOMAIN Observe(e) = DOMAIN Unobservable
  BY <1>3, Zenon DEF Observe, of
<1> QED
  BY <1>1, <1>2, <1>4

LEMMA AsKeeps ==
  ASSUME NEW e, NEW k
  PROVE  LET obs == Observe(e)
             as == As(obs, k)
         IN /\ as.kind = k /\ as.target = obs.target /\ as.hosts = obs.hosts
            /\ as.port = obs.port /\ as.protocol = obs.protocol /\ as.argv = obs.argv
<1> DEFINE obs == Observe(e)
<1>1. DOMAIN obs = {"kind", "target", "hosts", "port", "protocol", "argv"}
  BY ObservationShape
<1> HIDE DEF obs
<1>2. LET as == As(obs, k)
      IN /\ as.kind = k /\ as.target = obs.target /\ as.hosts = obs.hosts
         /\ as.port = obs.port /\ as.protocol = obs.protocol /\ as.argv = obs.argv
  BY <1>1 DEF As
<1> QED
  BY <1>2 DEF obs

\* Dimensions of which none answers no.
LEMMA NoneAnswersNo ==
  ASSUME NEW n \in Nat, NEW answers, DOMAIN answers = 1..n,
         \A i \in 1..n : answers[i] \in {Yes, Unclear}
  PROVE  FirstNotCovered(answers) \in {Yes, Unclear}
<1> DEFINE open == {i \in DOMAIN answers : answers[i] # Yes}
<1>1. CASE open = {}
  BY <1>1 DEF FirstNotCovered
<1>2. CASE open # {}
  <2>1. open \subseteq Nat
    OBVIOUS
  <2>2. \E i \in open : \A j \in open : i <= j
    BY <1>2, <2>1, LeastNatural
  <2> DEFINE first == CHOOSE i \in open : \A j \in open : i <= j
  <2>3. first \in open
    BY <2>2, Zenon
  <2>4. FirstNotCovered(answers) = answers[first]
    BY <1>2, Zenon DEF FirstNotCovered
  <2> QED
    BY <2>3, <2>4
<1> QED
  BY <1>1, <1>2

\* A list of patterns that may cover a target is not answered by no.
LEMMA CoveredPathAnswers ==
  ASSUME NEW patterns, NEW target, Len(target) \in Nat, ~BadPaths(patterns),
         \A p \in patterns : IsSegments(p), MayCoverPath(patterns, target)
  PROVE  MatchPaths(patterns, target) \in {Yes, Unclear}
<1>1. CASE patterns = {} \/ ~IsResolved(target)
  BY <1>1 DEF MatchPaths
<1>2. CASE patterns # {} /\ IsResolved(target)
  <2>1. PICK p \in patterns : Covers(p, target)
    BY <1>2 DEF MayCoverPath
  <2>2. MatchPath(p, target)
    BY <1>2, <2>1, SegmentsCovered DEF MatchPath, BadPaths
  <2> QED
    BY <1>2, <2>1, <2>2 DEF MatchPaths
<1> QED
  BY <1>1, <1>2

\* A list of two answers, and of three.
LEMMA TwoOf ==
  ASSUME NEW S, NEW a \in S, NEW b \in S
  PROVE  DOMAIN <<a, b>> = 1..2 /\ \A i \in 1..2 : <<a, b>>[i] \in S
<1>1. \A i \in 1..2 : i = 1 \/ i = 2
  OBVIOUS
<1>2. <<a, b>>[1] = a /\ <<a, b>>[2] = b
  OBVIOUS
<1>3. <<a, b>> \in Seq(S) /\ Len(<<a, b>>) = 2
  OBVIOUS
<1> QED
  BY <1>1, <1>2, <1>3

LEMMA ThreeOf ==
  ASSUME NEW S, NEW a \in S, NEW b \in S, NEW c \in S
  PROVE  DOMAIN <<a, b, c>> = 1..3 /\ \A i \in 1..3 : <<a, b, c>>[i] \in S
<1>1. \A i \in 1..3 : i = 1 \/ i = 2 \/ i = 3
  OBVIOUS
<1>2. <<a, b, c>>[1] = a /\ <<a, b, c>>[2] = b /\ <<a, b, c>>[3] = c
  OBVIOUS
<1>3. <<a, b, c>> \in Seq(S) /\ Len(<<a, b, c>>) = 3
  OBVIOUS
<1> QED
  BY <1>1, <1>2, <1>3

LEMMA DescribedIsAnswered ==
  ASSUME NEW entry, NEW e, ~Unmatchable(entry),
         \A p \in entry.sel.paths \cup entry.sel.executables : IsSegments(p),
         Len(Observe(e).target) \in Nat, MayDescribe(entry, e)
  PROVE  Match(entry, As(Observe(e), entry.kind)) \in {Yes, Unclear}
<1> DEFINE obs == Observe(e)
           as == As(obs, entry.kind)
           sel == entry.sel
           domain == DomainOf(entry.kind)
<1>1. /\ as.kind = entry.kind /\ as.target = obs.target /\ as.hosts = obs.hosts
      /\ as.port = obs.port /\ as.protocol = obs.protocol /\ as.argv = obs.argv
  BY AsKeeps
<1>2. /\ domain = "network" => /\ MayCoverHost(sel.hosts, obs.hosts)
                               /\ MayCoverValue(sel.ports, obs.port, 0)
                               /\ MayCoverValue(sel.protocols, obs.protocol, "")
      /\ domain = "process" => /\ MayCoverPath(sel.executables, obs.target)
                               /\ sel.args = {} \/ obs.argv = {} \/ \E a \in sel.args : a \cap obs.argv # {}
      /\ domain \notin {"network", "process"} => MayCoverPath(sel.paths, obs.target)
  <2> HIDE DEF obs, domain
  <2>1. LET d == DomainOf(entry.kind)
        IN CASE d = "network" ->
                  /\ MayCoverHost(sel.hosts, obs.hosts)
                  /\ MayCoverValue(sel.ports, obs.port, 0)
                  /\ MayCoverValue(sel.protocols, obs.protocol, "")
             [] d = "process" ->
                  /\ MayCoverPath(sel.executables, obs.target)
                  /\ sel.args = {} \/ obs.argv = {} \/ \E a \in sel.args : a \cap obs.argv # {}
             [] OTHER -> MayCoverPath(sel.paths, obs.target)
    BY Zenon DEF MayDescribe, obs
  <2>2. CASE domain = "network"
    BY <2>1, <2>2 DEF domain
  <2>3. CASE domain = "process"
    BY <2>1, <2>3 DEF domain
  <2>4. CASE domain \notin {"network", "process"}
    BY <2>1, <2>4 DEF domain
  <2> QED
    BY <2>2, <2>3, <2>4
<1>3. /\ domain = "network" => Match(entry, as) = MatchNetwork(sel, as)
      /\ domain = "process" => Match(entry, as) = FirstNotCovered(<<MatchPaths(sel.executables, as.target),
                                                                   MatchArgs(sel.args, as.argv)>>)
      /\ domain \notin {"network", "process"} => Match(entry, as) = MatchPaths(sel.paths, as.target)
  <2> HIDE DEF as, domain
  <2>1. Match(entry, as) = CASE domain = "filesystem" -> MatchPaths(sel.paths, as.target)
         [] domain = "network" -> MatchNetwork(sel, as)
         [] domain = "process" ->
              FirstNotCovered(<<MatchPaths(sel.executables, as.target),
                                MatchArgs(sel.args, as.argv)>>)
         [] OTHER -> MatchPaths(sel.paths, as.target)
    BY <1>1, Zenon DEF Match, domain
  <2> QED
    BY <2>1
<1>4. /\ domain = "network" => Applicable(entry.kind) = {"hosts", "ports", "protocols"}
      /\ domain = "process" => Applicable(entry.kind) = {"executables", "args"}
      /\ domain \notin {"network", "process"} => Applicable(entry.kind) = {"paths"}
  BY DEF Applicable
<1> SUFFICES Match(entry, as) \in {Yes, Unclear}
  OBVIOUS
<1>0. Len(obs.target) \in Nat
  OBVIOUS
<1> HIDE DEF obs, as, domain
<1>5. CASE domain = "network"
  <2>1. CASE sel.hosts = {} /\ sel.ports = {} /\ sel.protocols = {}
    BY <1>3, <1>5, <2>1 DEF MatchNetwork
  <2>2. CASE as.hosts = {}
    BY <1>3, <1>5, <2>2 DEF MatchNetwork
  <2>3. CASE as.hosts # {} /\ ~(sel.hosts = {} /\ sel.ports = {} /\ sel.protocols = {})
    <3> DEFINE answers == <<MatchHosts(sel.hosts, as.hosts), MatchPorts(sel.ports, as.port),
                            MatchProtocols(sel.protocols, as.protocol)>>
    <3>1. MatchNetwork(sel, as) = FirstNotCovered(answers)
      BY <2>3, Zenon DEF MatchNetwork
    <3>2. MatchHosts(sel.hosts, as.hosts) \in {Yes, Unclear}
      BY <1>1, <1>2, <1>5, <2>3 DEF MayCoverHost, MatchHosts
    <3>3. MatchPorts(sel.ports, as.port) \in {Yes, Unclear}
      BY <1>1, <1>2, <1>5 DEF MayCoverValue, MatchPorts
    <3>4. MatchProtocols(sel.protocols, as.protocol) \in {Yes, Unclear}
      BY <1>1, <1>2, <1>5 DEF MayCoverValue, MatchProtocols
    <3>5. DOMAIN answers = 1..3 /\ \A i \in 1..3 : answers[i] \in {Yes, Unclear}
      <4> DEFINE both == {Yes, Unclear}
                 a == MatchHosts(sel.hosts, as.hosts)
                 b == MatchPorts(sel.ports, as.port)
                 c == MatchProtocols(sel.protocols, as.protocol)
      <4>1. a \in both /\ b \in both /\ c \in both
        BY <3>2, <3>3, <3>4
      <4> HIDE DEF both, a, b, c
      <4>2. DOMAIN <<a, b, c>> = 1..3 /\ \A i \in 1..3 : <<a, b, c>>[i] \in both
        BY <4>1, ThreeOf
      <4> QED
        BY <4>2 DEF both, a, b, c
    <3> HIDE DEF answers
    <3> QED
      BY <1>3, <1>5, <3>1, <3>5, NoneAnswersNo
  <2> QED
    BY <2>1, <2>2, <2>3
<1>6. CASE domain = "process"
  <2> DEFINE answers == <<MatchPaths(sel.executables, as.target), MatchArgs(sel.args, as.argv)>>
  <2>1. ~BadPaths(sel.executables)
    BY <1>4, <1>6 DEF Unmatchable
  <2>2. MatchPaths(sel.executables, as.target) \in {Yes, Unclear}
    BY <1>0, <1>1, <1>2, <1>6, <2>1, CoveredPathAnswers
  <2>3. MatchArgs(sel.args, as.argv) \in {Yes, Unclear}
    BY <1>1, <1>2, <1>6 DEF MatchArgs
  <2>4. DOMAIN answers = 1..2 /\ \A i \in 1..2 : answers[i] \in {Yes, Unclear}
    <3> DEFINE both == {Yes, Unclear}
               a == MatchPaths(sel.executables, as.target)
               b == MatchArgs(sel.args, as.argv)
    <3>1. a \in both /\ b \in both
      BY <2>2, <2>3
    <3> HIDE DEF both, a, b
    <3>2. DOMAIN <<a, b>> = 1..2 /\ \A i \in 1..2 : <<a, b>>[i] \in both
      BY <3>1, TwoOf
    <3> QED
      BY <3>2 DEF both, a, b
  <2>5. Match(entry, as) = FirstNotCovered(answers)
    BY <1>3, <1>6
  <2> HIDE DEF answers
  <2> QED
    BY <2>4, <2>5, NoneAnswersNo
<1>7. CASE domain \notin {"network", "process"}
  <2>1. ~BadPaths(sel.paths)
    BY <1>4, <1>7 DEF Unmatchable
  <2> QED
    BY <1>0, <1>1, <1>2, <1>3, <1>7, <2>1, CoveredPathAnswers
<1> QED
  BY <1>5, <1>6, <1>7

\* An observed target is a path.
LEMMA TargetIsPath ==
  ASSUME NEW reported \in Events, NEW id
  PROVE  Len(Observe([reported EXCEPT !.id = id]).target) \in Nat
<1> DEFINE e == [reported EXCEPT !.id = id]
           of == [Unobservable EXCEPT !.kind = e.kind]
<1>1. e.path = reported.path /\ e.executable = reported.executable
  BY EventsAssumption
<1>2. /\ Len(e.path) \in Nat /\ Len(e.executable) \in Nat /\ Len(NoTarget) \in Nat
  BY <1>1, EventsAssumption DEF IsSegments, NoTarget
<1>3. Unobservable.target = NoTarget /\ of.target = NoTarget /\ "target" \in DOMAIN of
  BY DEF Unobservable
<1> HIDE DEF e, of
<1>4. /\ \A x : [of EXCEPT !.target = x].target = x
      /\ \A x, y : [of EXCEPT !.target = x, !.argv = y].target = x
      /\ \A x, y, z : [of EXCEPT !.hosts = x, !.protocol = y, !.port = z].target = NoTarget
  BY <1>3
<1>5. Observe(e).target \in {e.path, e.executable, NoTarget}
  BY <1>3, <1>4, Zenon DEF Observe, of
<1> QED
  BY <1>2, <1>5 DEF e

\* The log's entries, and what the configuration cannot change under them.
Undenied ==
  /\ config \in Configs
  /\ \E S : log \in Seq(S)
  /\ DenialsHold

\* No denial is passed, whatever else the envelope grants, under any rules and with
\* any stage failing at any event: validate.go consults the denials before any
\* grant, for every kind an operation exercised, and takes what it cannot tell
\* for indeterminate.
THEOREM DenialsAreHeld == Spec => []DenialsHold
<1>1. Init => Undenied
  <2> SUFFICES ASSUME Init PROVE Undenied
    OBVIOUS
  <2>1. config \in Configs /\ log = <<>>
    BY DEF Init
  <2>2. log \in Seq({}) /\ DOMAIN log = {}
    BY <2>1
  <2> QED
    BY <2>1, <2>2 DEF Undenied, DenialsHold
<1>2. Undenied /\ [Next]_vars => Undenied'
  <2> SUFFICES ASSUME Undenied, [Next]_vars PROVE Undenied'
    OBVIOUS
  <2>1. CASE Tick \/ UNCHANGED vars
    <3>1. config' = config /\ log' = log
      BY <2>1 DEF Tick, vars
    <3> QED
      BY <3>1 DEF Undenied, DenialsHold, Within
  <2>2. ASSUME NEW reported \in Events, NEW failing \in Stages \cup {"none"},
               Process(reported, failing)
        PROVE  Undenied'
    <3> DEFINE e == [reported EXCEPT !.id = Len(log) + 1]
               result == Validate(config.envelope, e, Budgets, now)
               recorded == IF failing = "validate" THEN NoResult ELSE result
    <3>1. PICK entry : /\ log' = Append(log, entry) /\ entry.event = e /\ entry.result = recorded
      BY <2>2, SMTT(60) DEF Process
    <3>2. config' = config
      BY <2>2 DEF Process
    <3>3. PICK S : log \in Seq(S)
      BY DEF Undenied
    <3>4. /\ log' \in Seq(S \cup {entry}) /\ DOMAIN log = 1..Len(log) /\ Len(log) \in Nat
          /\ DOMAIN log' = 1..Len(log) + 1
          /\ \A n \in 1..Len(log) : log'[n] = log[n]
          /\ log'[Len(log) + 1] = entry
      BY <3>1, <3>3, AppendedLog
    <3>5. ASSUME recorded.verdict = "within_envelope", NEW i \in DOMAIN config.envelope.denials
          PROVE  ~MayDescribe(config.envelope.denials[i], e)
      <4> DEFINE d == config.envelope.denials[i]
      <4> SUFFICES ASSUME MayDescribe(d, e) PROVE FALSE
        OBVIOUS
      <4>1. Validate(config.envelope, e, Budgets, now).verdict = "within_envelope"
        <5> HIDE DEF result
        <5>1. recorded = result
          BY <3>5 DEF NoResult
        <5> QED
          BY <3>5, <5>1 DEF result
      <4>2. \A k \in DeniableKinds(e, Observe(e)) : Match(d, As(Observe(e), k)) \notin {Yes, Unclear}
        BY <4>1, WithinIsUndenied
      <4>3. Len(Observe(e).target) \in Nat
        BY TargetIsPath
      <4> HIDE DEF e
      <4>4. d.kind \in DeniableKinds(e, Observe(e))
        BY DEF MayDescribe, DeniableKinds
      <4>5. ~Unmatchable(d) /\ \A p \in d.sel.paths \cup d.sel.executables : IsSegments(p)
        BY ConfigsAssumption DEF Undenied, Admissible, IsSelector
      <4>6. Match(d, As(Observe(e), d.kind)) \in {Yes, Unclear}
        BY <4>3, <4>5, DescribedIsAnswered
      <4> QED
        BY <4>2, <4>4, <4>6
    <3> HIDE DEF e, recorded
    <3>6. ASSUME NEW n \in DOMAIN log', Within(n)', NEW i \in DOMAIN config.envelope.denials
          PROVE  ~MayDescribe(config.envelope.denials[i], log'[n].event)
      <4>1. CASE n \in DOMAIN log
        <5>1. log'[n] = log[n] /\ Within(n)
          BY <3>4, <3>6, <4>1 DEF Within
        <5> QED
          BY <4>1, <5>1 DEF Undenied, DenialsHold
      <4>2. CASE n \notin DOMAIN log
        <5>1. n = Len(log) + 1
          BY <3>4, <4>2
        <5>2. recorded.verdict = "within_envelope" /\ log'[n].event = e
          BY <3>1, <3>4, <3>6, <5>1 DEF Within
        <5> QED
          BY <3>5, <5>2
      <4> QED
        BY <4>1, <4>2
    <3>7. DenialsHold'
      BY <3>2, <3>6 DEF DenialsHold
    <3> QED
      BY <3>2, <3>4, <3>7 DEF Undenied
  <2> QED
    BY <2>1, <2>2 DEF Next
<1> QED
  BY <1>1, <1>2, PTL DEF Spec, Undenied
-----------------------------------------------------------------------------
\* Precedence: the order of measurements, and that of several grants one governs.

LEMMA OneIsNarrower ==
  ASSUME NEW n \in Nat, NEW a \in [1..n -> Int], NEW b \in [1..n -> Int]
  PROVE  /\ a = b \/ Narrower(a, b) \/ Narrower(b, a)
         /\ ~(Narrower(a, b) /\ Narrower(b, a))
<1>1. ASSUME a # b PROVE Narrower(a, b) \/ Narrower(b, a)
  <2> DEFINE T == {i \in 1..n : a[i] # b[i]}
  <2>1. T # {} /\ T \subseteq Nat
    BY <1>1
  <2>2. PICK i \in T : \A j \in T : i <= j
    <3> HIDE DEF T
    <3> QED BY <2>1, LeastNatural
  <2>3. \A j \in 1..i - 1 : a[j] = b[j]
    BY <2>2
  <2>4. a[i] > b[i] \/ b[i] > a[i]
    OBVIOUS
  <2> QED BY <2>3, <2>4 DEF Narrower
<1>2. ASSUME Narrower(a, b), Narrower(b, a) PROVE FALSE
  <2>1. PICK i \in 1..n : a[i] > b[i] /\ \A j \in 1..i - 1 : a[j] = b[j]
    BY <1>2 DEF Narrower
  <2>2. PICK k \in 1..n : b[k] > a[k] /\ \A j \in 1..k - 1 : b[j] = a[j]
    BY <1>2 DEF Narrower
  <2>3. a[i] \in Int /\ b[i] \in Int /\ a[k] \in Int /\ b[k] \in Int
    OBVIOUS
  <2>4. i < k \/ i = k \/ k < i
    OBVIOUS
  <2> QED BY <2>1, <2>2, <2>3, <2>4
<1> QED BY <1>1, <1>2

LEMMA NarrowerIsTransitive ==
  ASSUME NEW n \in Nat, NEW a \in [1..n -> Int], NEW b \in [1..n -> Int], NEW c \in [1..n -> Int],
         Narrower(a, b), Narrower(b, c)
  PROVE  Narrower(a, c)
<1>1. PICK i \in 1..n : a[i] > b[i] /\ \A j \in 1..i - 1 : a[j] = b[j]
  BY DEF Narrower
<1>2. PICK k \in 1..n : b[k] > c[k] /\ \A j \in 1..k - 1 : b[j] = c[j]
  BY DEF Narrower
<1>3. \A j \in 1..n : a[j] \in Int /\ b[j] \in Int /\ c[j] \in Int
  OBVIOUS
<1>4. CASE i <= k
  <2>1. \A j \in 1..i - 1 : j \in 1..k - 1 /\ a[j] = b[j] /\ b[j] = c[j]
    BY <1>1, <1>2, <1>4
  <2>2. CASE i = k
    <3>1. a[i] > b[i] /\ b[i] > c[i]
      BY <1>1, <1>2, <2>2
    <3>2. a[i] > c[i]
      BY <1>3, <3>1
    <3> QED BY <2>1, <3>2 DEF Narrower
  <2>3. CASE i < k
    <3>1. b[i] = c[i]
      BY <1>2, <2>3
    <3> QED BY <1>1, <2>1, <3>1 DEF Narrower
  <2> QED BY <1>4, <2>2, <2>3
<1>5. CASE k < i
  <2>1. \A j \in 1..k - 1 : j \in 1..i - 1 /\ a[j] = b[j] /\ b[j] = c[j]
    BY <1>1, <1>2, <1>5
  <2>2. a[k] = b[k]
    BY <1>1, <1>5
  <2> QED BY <1>2, <1>3, <2>1, <2>2 DEF Narrower
<1> QED BY <1>4, <1>5

\* Broadest: of finitely many measurements there is one that is narrower than none.
LEMMA BroadestIsOne ==
  ASSUME NEW n \in Nat, NEW scores \in SUBSET [1..n -> Int], IsFiniteSet(scores),
         NEW none \in [1..n -> Int]
  PROVE  Broadest(scores, none) \in [1..n -> Int]
<1>1. CASE scores = {}
  BY <1>1 DEF Broadest
<1>2. CASE scores # {}
  <2> DEFINE R == {x \in scores \X scores : ~Narrower(x[1], x[2])}
  <2>1. \A s, r \in scores : <<s, r>> \in R <=> ~Narrower(s, r)
    OBVIOUS
  <2> HIDE DEF R
  <2>2. \A s, r \in scores : s = r \/ <<s, r>> \in R \/ <<r, s>> \in R
    BY <2>1, OneIsNarrower
  <2>3. \A s, r, t \in scores : <<s, r>> \in R /\ <<r, t>> \in R => <<s, t>> \in R
    <3> SUFFICES ASSUME NEW s \in scores, NEW r \in scores, NEW t \in scores,
                        ~Narrower(s, r), ~Narrower(r, t)
                 PROVE  ~Narrower(s, t)
      BY <2>1
    <3>1. CASE s = r \/ r = t
      BY <3>1
    <3>2. CASE s # r /\ r # t
      <4>1. Narrower(r, s) /\ Narrower(t, r)
        BY <3>2, OneIsNarrower
      <4>2. Narrower(t, s)
        BY <4>1, NarrowerIsTransitive
      <4> QED BY <4>2, OneIsNarrower
    <3> QED BY <3>1, <3>2
  <2>4. \E s \in scores : \A r \in scores \ {s} : <<s, r>> \in R
    BY <1>2, <2>2, <2>3, FirstExists
  <2>5. \E s \in scores : \A r \in scores : ~Narrower(s, r)
    <3>1. PICK s \in scores : \A r \in scores \ {s} : <<s, r>> \in R
      BY <2>4
    <3>2. ~Narrower(s, s)
      BY OneIsNarrower
    <3> QED BY <2>1, <3>1, <3>2
  <2>6. Broadest(scores, none) \in scores
    BY <1>2, <2>5 DEF Broadest
  <2> QED BY <2>6
<1> QED BY <1>1, <1>2

LEMMA TuplesOfIntegers ==
  /\ \A a, b \in Int : <<a, b>> \in [1..2 -> Int]
  /\ \A a, b, c \in Int : <<a, b, c>> \in [1..3 -> Int]
<1>1. ASSUME NEW a \in Int, NEW b \in Int PROVE <<a, b>> \in [1..2 -> Int]
  <2>1. <<a, b>> \in Seq(Int) /\ Len(<<a, b>>) = 2
    OBVIOUS
  <2> QED BY <2>1, LenProperties
<1>2. ASSUME NEW a \in Int, NEW b \in Int, NEW c \in Int PROVE <<a, b, c>> \in [1..3 -> Int]
  <2>1. <<a, b, c>> \in Seq(Int) /\ Len(<<a, b, c>>) = 3
    OBVIOUS
  <2> QED BY <2>1, LenProperties
<1> QED BY <1>1, <1>2

LEMMA PathScores ==
  ASSUME NEW p, IsSegments(p)
  PROVE  ScorePath(p) \in [1..3 -> Int]
<1> DEFINE wild == {i \in DOMAIN p : p[i].form # "literal"}
           least == CHOOSE i \in wild : \A j \in wild : i <= j
           anchored == IF wild = {} THEN Len(p) ELSE least - 1
<1>1. wild \subseteq Nat /\ Len(p) \in Int
  BY DEF IsSegments
<1>2. anchored \in Int
  <2>1. CASE wild # {}
    <3> HIDE DEF wild
    <3>1. \E i \in wild : \A j \in wild : i <= j
      BY <1>1, <2>1, LeastNatural
    <3>2. least \in wild
      BY <3>1
    <3> HIDE DEF least
    <3> QED BY <1>1, <2>1, <3>2
  <2>2. CASE wild = {}
    BY <1>1, <2>2
  <2> QED BY <2>1, <2>2
<1>3. Bit(Deep \notin Range(p)) \in Int
  BY DEF Bit
<1>4. ScorePath(p) = <<anchored, Bit(Deep \notin Range(p)), Len(p)>>
  BY DEF ScorePath
<1> HIDE DEF anchored
<1> QED BY <1>1, <1>2, <1>3, <1>4, TuplesOfIntegers

LEMMA HostScores ==
  ASSUME NEW h, Len(h.at) \in Nat
  PROVE  ScoreHost(h) \in [1..2 -> Int]
<1>1. ScoreHost(h) \in {<<3, 0>>, <<2, Len(h.at)>>, <<1, Len(h.at)>>}
  BY DEF ScoreHost
<1> QED BY <1>1, TuplesOfIntegers

LEMMA JoinedMeasurements ==
  ASSUME NEW m \in Nat, NEW n \in Nat, NEW a \in [1..m -> Int], NEW b \in [1..n -> Int]
  PROVE  a \o b \in [1..m + n -> Int]
<1>1. a \in Seq(Int) /\ b \in Seq(Int)
  BY SeqDef
<1>2. Len(a) = m /\ Len(b) = n
  <2>1. DOMAIN a = 1..Len(a) /\ DOMAIN b = 1..Len(b) /\ Len(a) \in Nat /\ Len(b) \in Nat
    BY <1>1, LenProperties
  <2>2. DOMAIN a = 1..m /\ DOMAIN b = 1..n
    OBVIOUS
  <2> QED BY <2>1, <2>2
<1>3. a \o b \in Seq(Int) /\ Len(a \o b) = m + n
  BY <1>1, <1>2, ConcatProperties
<1> QED BY <1>3, LenProperties

LEMMA FiniteImage ==
  ASSUME NEW S, IsFiniteSet(S), NEW T, NEW f \in [S -> T],
         NEW U, \A u \in U : \E x \in S : u = f[x]
  PROVE  IsFiniteSet(U)
<1> DEFINE image == {f[x] : x \in S}
<1>1. f \in Surjection(S, image)
  BY DEF Surjection
<1>2. U \subseteq image
  OBVIOUS
<1> QED BY <1>1, <1>2, FS_Surjection, FS_Subset

LEMMA SpecificityIsMeasured ==
  ASSUME NEW sel, IsSelector(sel)
  PROVE  SpecificityOf(sel) \in [1..15 -> Int]
<1> DEFINE paths == {ScorePath(p) : p \in {q \in sel.paths : ValidPattern(q)}}
           programs == {ScorePath(p) : p \in {q \in sel.executables : ValidPattern(q)}}
           hosts == {ScoreHost(p) : p \in {h \in sel.hosts : h.form # "invalid"}}
           rest == <<Bit(sel.args # {}), Bit(sel.max > 0), IF sel.max > 0 THEN -sel.max ELSE 0>>
           b1 == Broadest(paths, <<0, 0, 0>>)
           b2 == Broadest(programs, <<0, 0, 0>>)
           b3 == Broadest(hosts, <<0, 0>>)
<1>1. <<0, 0, 0>> \in [1..3 -> Int] /\ <<0, 0>> \in [1..2 -> Int]
  BY TuplesOfIntegers
<1>2. ASSUME NEW list, IsFiniteSet(list), \A p \in list : IsSegments(p)
      PROVE  LET s == {ScorePath(p) : p \in {q \in list : ValidPattern(q)}}
             IN s \in SUBSET [1..3 -> Int] /\ IsFiniteSet(s)
  <2> DEFINE valid == {q \in list : ValidPattern(q)}
  <2>1. IsFiniteSet(valid) /\ \A p \in valid : ScorePath(p) \in [1..3 -> Int]
    BY <1>2, FS_Subset, PathScores
  <2> HIDE DEF valid
  <2>2. IsFiniteSet({ScorePath(p) : p \in valid})
    <3> DEFINE f == [p \in valid |-> ScorePath(p)]
    <3>1. f \in [valid -> [1..3 -> Int]] /\ \A p \in valid : f[p] = ScorePath(p)
      BY <2>1
    <3> HIDE DEF f
    <3> DEFINE image == {ScorePath(p) : p \in valid}
    <3>2. \A u \in image : \E x \in valid : u = f[x]
      BY <3>1
    <3> HIDE DEF image
    <3>3. IsFiniteSet(image)
      <4>1. IsFiniteSet(valid)
        BY <2>1
      <4>2. f \in [valid -> [1..3 -> Int]]
        BY <3>1
      <4> HIDE DEF image, f, valid
      <4> QED BY ONLY <3>2, <4>1, <4>2, FiniteImage
    <3> QED BY <3>3 DEF image
  <2>3. {ScorePath(p) : p \in valid} \in SUBSET [1..3 -> Int]
    BY <2>1
  <2> QED BY <2>2, <2>3 DEF valid
<1>3. paths \in SUBSET [1..3 -> Int] /\ IsFiniteSet(paths)
  BY <1>2 DEF IsSelector
<1>4. programs \in SUBSET [1..3 -> Int] /\ IsFiniteSet(programs)
  BY <1>2 DEF IsSelector
<1>5. hosts \in SUBSET [1..2 -> Int] /\ IsFiniteSet(hosts)
  <2> DEFINE valid == {h \in sel.hosts : h.form # "invalid"}
  <2>1. IsFiniteSet(valid) /\ \A h \in valid : ScoreHost(h) \in [1..2 -> Int]
    BY FS_Subset, HostScores DEF IsSelector
  <2> HIDE DEF valid
  <2>2. IsFiniteSet({ScoreHost(h) : h \in valid})
    <3> DEFINE f == [h \in valid |-> ScoreHost(h)]
    <3>1. f \in [valid -> [1..2 -> Int]] /\ \A h \in valid : f[h] = ScoreHost(h)
      BY <2>1
    <3> HIDE DEF f
    <3> DEFINE image == {ScoreHost(h) : h \in valid}
    <3>2. \A u \in image : \E x \in valid : u = f[x]
      BY <3>1
    <3> HIDE DEF image
    <3>3. IsFiniteSet(image)
      <4>1. IsFiniteSet(valid)
        BY <2>1
      <4>2. f \in [valid -> [1..2 -> Int]]
        BY <3>1
      <4> HIDE DEF image, f, valid
      <4> QED BY ONLY <3>2, <4>1, <4>2, FiniteImage
    <3> QED BY <3>3 DEF image
  <2>3. {ScoreHost(h) : h \in valid} \in SUBSET [1..2 -> Int]
    BY <2>1
  <2> QED BY <2>2, <2>3 DEF valid
<1>6. b1 \in [1..3 -> Int] /\ b2 \in [1..3 -> Int] /\ b3 \in [1..2 -> Int]
  <2> HIDE DEF paths, programs, hosts
  <2> QED BY <1>1, <1>3, <1>4, <1>5, BroadestIsOne
<1>7. ListScore(sel.ports) \in [1..2 -> Int] /\ ListScore(sel.protocols) \in [1..2 -> Int]
  <2>1. /\ \A b : Bit(b) \in Int
        /\ Cardinality(sel.ports) \in Nat /\ Cardinality(sel.protocols) \in Nat
    BY FS_CardinalityType DEF Bit, IsSelector
  <2> QED BY <2>1, TuplesOfIntegers DEF ListScore
<1>8. rest \in [1..3 -> Int]
  <2>1. /\ \A b : Bit(b) \in Int
        /\ (IF sel.max > 0 THEN -sel.max ELSE 0) \in Int
    BY DEF Bit, IsSelector
  <2> QED BY <2>1, TuplesOfIntegers
<1>9. SpecificityOf(sel) = b1 \o b2 \o b3 \o ListScore(sel.ports) \o ListScore(sel.protocols) \o rest
  BY DEF SpecificityOf
<1> HIDE DEF b1, b2, b3, rest
<1>10. b1 \o b2 \in [1..6 -> Int]
  BY <1>6, JoinedMeasurements, 3 + 3 = 6
<1>11. b1 \o b2 \o b3 \in [1..8 -> Int]
  BY <1>6, <1>10, JoinedMeasurements, 6 + 2 = 8
<1>12. b1 \o b2 \o b3 \o ListScore(sel.ports) \in [1..10 -> Int]
  BY <1>7, <1>11, JoinedMeasurements, 8 + 2 = 10
<1>13. b1 \o b2 \o b3 \o ListScore(sel.ports) \o ListScore(sel.protocols) \in [1..12 -> Int]
  BY <1>7, <1>12, JoinedMeasurements, 10 + 2 = 12
<1> DEFINE front == b1 \o b2 \o b3 \o ListScore(sel.ports) \o ListScore(sel.protocols)
<1>14. front \in [1..12 -> Int] /\ SpecificityOf(sel) = front \o rest
  BY <1>9, <1>13
<1> HIDE DEF front
<1>15. front \o rest \in [1..12 + 3 -> Int]
  BY <1>8, <1>14, JoinedMeasurements
<1> QED BY <1>14, <1>15, 12 + 3 = 15

\* MostSpecific: of the entries that cover an event one governs.
\* precedence.go, mostSpecific: its order has no ties, so the choice does not
\* depend on the order in which the entries are compared.
LEMMA OneGoverns ==
  ASSUME NEW entries, NEW n \in Nat, NEW at \in SUBSET (1..n), at # {},
         \A i \in at : IsSelector(entries[i].sel)
  PROVE  MostSpecific(entries, at) \in at
<1> DEFINE spec(i) == SpecificityOf(entries[i].sel)
           before(i, j) == Narrower(spec(i), spec(j)) \/ (~Narrower(spec(j), spec(i)) /\ i < j)
           R == {x \in at \X at : before(x[1], x[2])}
<1>1. \A i \in at : spec(i) \in [1..15 -> Int]
  BY SpecificityIsMeasured
<1> HIDE DEF spec
<1>2. IsFiniteSet(at) /\ \A i \in at : i \in Nat
  <2>1. IsFiniteSet(1..n)
    BY FS_Interval
  <2>2. IsFiniteSet(at)
    BY <2>1, FS_Subset
  <2> QED BY <2>2
<1>3. \A i, j \in at : <<i, j>> \in R <=> before(i, j)
  OBVIOUS
<1> HIDE DEF R
<1>4. \A i, j \in at : i = j \/ <<i, j>> \in R \/ <<j, i>> \in R
  <2> SUFFICES ASSUME NEW i \in at, NEW j \in at, i # j PROVE before(i, j) \/ before(j, i)
    BY <1>3
  <2>1. i < j \/ j < i
    BY <1>2
  <2> QED BY <2>1
<1>5. \A i, j, k \in at : <<i, j>> \in R /\ <<j, k>> \in R => <<i, k>> \in R
  <2> SUFFICES ASSUME NEW i \in at, NEW j \in at, NEW k \in at, before(i, j), before(j, k)
               PROVE  before(i, k)
    BY <1>3
  <2>1. i \in Nat /\ j \in Nat /\ k \in Nat
    BY <1>2
  <2>2. PICK a, b, c : a = spec(i) /\ b = spec(j) /\ c = spec(k)
    OBVIOUS
  <2>3. a \in [1..15 -> Int] /\ b \in [1..15 -> Int] /\ c \in [1..15 -> Int]
    BY <1>1, <2>2
  <2>4. /\ a = b \/ Narrower(a, b) \/ Narrower(b, a)
        /\ b = c \/ Narrower(b, c) \/ Narrower(c, b)
        /\ a = c \/ Narrower(a, c) \/ Narrower(c, a)
        /\ ~(Narrower(a, b) /\ Narrower(b, a))
        /\ ~(Narrower(b, c) /\ Narrower(c, b))
        /\ ~(Narrower(a, c) /\ Narrower(c, a))
    BY <2>3, OneIsNarrower
  <2>5. Narrower(a, b) /\ Narrower(b, c) => Narrower(a, c)
    BY <2>3, NarrowerIsTransitive
  <2>6. /\ Narrower(a, b) \/ (~Narrower(b, a) /\ i < j)
        /\ Narrower(b, c) \/ (~Narrower(c, b) /\ j < k)
    BY <2>2
  <2>7. Narrower(a, c) \/ (~Narrower(c, a) /\ i < k)
    BY <2>1, <2>4, <2>5, <2>6
  <2> QED BY <2>2, <2>7
<1>6. \E i \in at : \A j \in at \ {i} : <<i, j>> \in R
  <2>1. IsFiniteSet(at) /\ at # {}
    BY <1>2
  <2>2. PICK S, O : S = at /\ O = R
    OBVIOUS
  <2>3. /\ \A x, y, z \in S : <<x, y>> \in O /\ <<y, z>> \in O => <<x, z>> \in O
        /\ \A x, y \in S : x = y \/ <<x, y>> \in O \/ <<y, x>> \in O
        /\ IsFiniteSet(S) /\ S # {}
    BY <1>4, <1>5, <2>1, <2>2
  <2>4. \E x \in S : \A y \in S \ {x} : <<x, y>> \in O
    BY ONLY <2>3, FirstExists
  <2> QED BY <2>2, <2>4
<1>7. \E i \in at : \A j \in at \ {i} : before(i, j)
  BY <1>3, <1>6
<1>8. MostSpecific(entries, at) = CHOOSE i \in at : \A j \in at \ {i} : before(i, j)
  BY Zenon DEF MostSpecific, spec
<1> HIDE DEF before
<1> QED BY <1>7, <1>8

-----------------------------------------------------------------------------
\* What the stages conclude.

\* evaluationOrder has no ties: among rules that match one is first.
LEMMA OneRuleIsFirst ==
  ASSUME NEW rules, NEW n \in Nat, NEW at \in SUBSET (1..n), at # {},
         \A i \in 1..n : rules[i].priority \in Int
  PROVE  \E i \in at : \A j \in at \ {i} : Before(rules, i, j)
<1> DEFINE R == {x \in at \X at : Before(rules, x[1], x[2])}
<1>1. IsFiniteSet(at)
  <2>1. IsFiniteSet(1..n)
    BY FS_Interval
  <2> QED BY <2>1, FS_Subset
<1>2. \A i, j \in at : <<i, j>> \in R <=> Before(rules, i, j)
  OBVIOUS
<1> HIDE DEF R
<1>3. \A i \in at : i \in Nat /\ rules[i].priority \in Int
  <2> TAKE i \in at
  <2>1. i \in 1..n
    OBVIOUS
  <2> QED BY <2>1
<1>4. \A x, y, z \in at : <<x, y>> \in R /\ <<y, z>> \in R => <<x, z>> \in R
  BY <1>2, <1>3 DEF Before
<1>5. \A x, y \in at : x = y \/ <<x, y>> \in R \/ <<y, x>> \in R
  <2> SUFFICES ASSUME NEW x \in at, NEW y \in at, x # y
               PROVE  Before(rules, x, y) \/ Before(rules, y, x)
    BY <1>2
  <2>1. PICK p, q \in Int : p = rules[x].priority /\ q = rules[y].priority
    BY <1>3
  <2>2. p > q \/ q > p \/ (p = q /\ (x < y \/ y < x))
    BY <1>3
  <2> QED BY <2>1, <2>2, SMTT(60) DEF Before
<1>6. PICK S, O : S = at /\ O = R
  OBVIOUS
<1>7. /\ \A x, y, z \in S : <<x, y>> \in O /\ <<y, z>> \in O => <<x, z>> \in O
      /\ \A x, y \in S : x = y \/ <<x, y>> \in O \/ <<y, x>> \in O
      /\ IsFiniteSet(S) /\ S # {}
  BY <1>1, <1>4, <1>5, <1>6
<1>8. \E x \in S : \A y \in S \ {x} : <<x, y>> \in O
  BY ONLY <1>7, FirstExists
<1> QED BY <1>2, <1>6, <1>8

\* Evaluate: the first of the rules that match decides, and the default action when
\* there is none.
LEMMA FirstDecides ==
  ASSUME NEW c \in Configs, NEW mode, NEW e, NEW result, NEW risk, NEW task
  PROVE  LET matching == Eligible(c.rules, mode, e, result, risk, task)
             outcome == Evaluate(c.rules, c.defaultAction, mode, e, result, risk, task)
         IN /\ matching \subseteq DOMAIN c.rules
            /\ matching = {} => outcome.rule = DefaultRuleID
            /\ matching # {} => /\ outcome.rule \in matching
                                /\ \A j \in matching \ {outcome.rule} :
                                     Before(c.rules, outcome.rule, j)
            /\ outcome.action \in Actions
<1> DEFINE matching == Eligible(c.rules, mode, e, result, risk, task)
           outcome == Evaluate(c.rules, c.defaultAction, mode, e, result, risk, task)
           first == CHOOSE i \in matching : \A j \in matching \ {i} : Before(c.rules, i, j)
<1>1. matching \subseteq DOMAIN c.rules
  BY DEF Eligible
<1>2. /\ DOMAIN c.rules = 1..Len(c.rules) /\ Len(c.rules) \in Nat
      /\ \A i \in DOMAIN c.rules : c.rules[i].priority \in Int /\ c.rules[i].action \in Actions
      /\ c.defaultAction \in Actions
  BY ConfigsAssumption DEF IsRule, Compiles
<1>3. outcome = IF matching = {}
                THEN [action |-> c.defaultAction, rule |-> DefaultRuleID, terminal |-> FALSE]
                ELSE [action |-> c.rules[first].action, rule |-> first,
                      terminal |-> c.rules[first].terminal]
  BY Zenon DEF Evaluate
<1> HIDE DEF matching, outcome
<1>4. matching # {} => first \in matching /\ \A j \in matching \ {first} : Before(c.rules, first, j)
  <2> SUFFICES ASSUME matching # {}
               PROVE  \E i \in matching : \A j \in matching \ {i} : Before(c.rules, i, j)
    BY Zenon
  <2>1. PICK n \in Nat : n = Len(c.rules)
    BY <1>2
  <2>2. matching \in SUBSET (1..n) /\ \A i \in 1..n : c.rules[i].priority \in Int
    BY <1>1, <1>2, <2>1
  <2>3. PICK rules : rules = c.rules
    OBVIOUS
  <2>4. \A i \in 1..n : rules[i].priority \in Int
    BY <2>2, <2>3
  <2> QED BY <2>2, <2>3, <2>4, OneRuleIsFirst
<1> HIDE DEF first
<1>5. matching = {} => outcome.rule = DefaultRuleID /\ outcome.action = c.defaultAction
  BY <1>3
<1>6. matching # {} => outcome.rule = first /\ outcome.action = c.rules[first].action
  BY <1>3
<1> QED BY <1>1, <1>2, <1>4, <1>5, <1>6 DEF matching, outcome

LEMMA Severities ==
  /\ \A kind : BaselineSeverity(kind) \in 0..4
  /\ \A type, kind : SeverityFor(type, kind) \in 0..4
<1>1. \A kind : BaselineSeverity(kind) \in 0..4
  BY DEF BaselineSeverity, Info, Low, Medium, High, Critical
<1>2. \A a, b \in 0..4 : Higher(a, b) \in 0..4
  BY DEF Higher
<1>3. Medium \in 0..4 /\ High \in 0..4
  BY DEF Medium, High
<1>4. ASSUME NEW type, NEW kind PROVE SeverityFor(type, kind) \in 0..4
  <2> DEFINE floor == IF type \in {"explicit_denial", "workspace_escape", "envelope_expired"}
                      THEN High ELSE Medium
  <2>1. floor \in 0..4
    BY <1>3
  <2>2. SeverityFor(type, kind) = IF kind \in Kinds THEN Higher(floor, BaselineSeverity(kind)) ELSE floor
    BY DEF SeverityFor
  <2> HIDE DEF floor
  <2> QED BY <1>1, <1>2, <2>1, <2>2
<1> QED BY <1>1, <1>4

\* A result, and what it finds.
SoundResult(result) ==
  /\ result.verdict \in Verdicts
  /\ \A v \in result.violations : v.type \in ViolationTypes /\ v.severity \in 0..4
  /\ result.verdict = "within_envelope" => result.violations = {}

LEMMA ResultsAreSound ==
  ASSUME NEW verdict \in Verdicts, NEW grant, NEW types \in SUBSET ViolationTypes, NEW kind,
         verdict = "within_envelope" => types = {}
  PROVE  SoundResult(Result(verdict, grant, types, kind))
<1> DEFINE r == Result(verdict, grant, types, kind)
<1>1. r.verdict = verdict
  BY DEF Result
<1>2. r.violations = {Violation(t, SeverityFor(t, kind)) : t \in types}
  BY DEF Result
<1>3. \A t : Violation(t, SeverityFor(t, kind)).type = t
             /\ Violation(t, SeverityFor(t, kind)).severity \in 0..4
  BY Severities DEF Violation
<1> HIDE DEF r
<1>4. \A v \in r.violations : v.type \in ViolationTypes /\ v.severity \in 0..4
  <2> TAKE v \in r.violations
  <2>1. PICK t \in types : v = Violation(t, SeverityFor(t, kind))
    BY <1>2
  <2> QED BY <1>3, <2>1
<1>5. verdict = "within_envelope" => r.violations = {}
  BY <1>2
<1> QED BY <1>1, <1>4, <1>5 DEF SoundResult, r

LEMMA ValidationIsSound ==
  ASSUME NEW c \in Configs, NEW e, NEW st, NEW time
  PROVE  LET result == Validate(c.envelope, e, st, time)
         IN /\ SoundResult(result)
            /\ result.verdict = "within_envelope" => result.grant \in DOMAIN c.envelope.grants
<1> DEFINE env == c.envelope
           obs == Observe(e)
           denying(answer) ==
             {k \in DeniableKinds(e, obs) : Answering(env.denials, As(obs, k), answer) # {}}
           granting == Answering(env.grants, obs, Yes)
           governing == MostSpecific(env.grants, granting)
           refused(verdict, types, kind) == Result(verdict, 0, types, kind)
           kind == IF obs.kind \in denying(Yes) THEN obs.kind ELSE CHOOSE k \in denying(Yes) : TRUE
           sound(r) == /\ SoundResult(r)
                       /\ r.verdict = "within_envelope" => r.grant \in DOMAIN env.grants
<1>1. \A verdict, grant, types, k : /\ Result(verdict, grant, types, k).verdict = verdict
                                    /\ Result(verdict, grant, types, k).grant = grant
  BY DEF Result
<1>2. ASSUME NEW verdict \in Verdicts \ {"within_envelope"}, NEW grant,
             NEW types \in SUBSET ViolationTypes, NEW k
      PROVE  sound(Result(verdict, grant, types, k))
  <2> HIDE DEF env
  <2> QED BY <1>1, ResultsAreSound
<1>3. /\ sound(refused("outside_envelope", {"envelope_expired"}, e.kind))
      /\ sound(refused("indeterminate", {"unresolvable"}, e.kind))
      /\ sound(refused("explicitly_denied", {"explicit_denial"}, kind))
  <2>1. /\ {"outside_envelope", "indeterminate", "explicitly_denied"}
             \subseteq Verdicts \ {"within_envelope"}
        /\ {{"envelope_expired"}, {"unresolvable"}, {"explicit_denial"}} \subseteq SUBSET ViolationTypes
    BY DEF Verdicts, ViolationTypes
  <2> HIDE DEF sound, kind
  <2> QED BY <1>2, <2>1
<1>4. sound(Uncovered(env, obs))
  <2> DEFINE granted == \E i \in DOMAIN env.grants : env.grants[i].kind = obs.kind
             types == {IF granted THEN "selector_mismatch" ELSE "ungranted_capability"}
                        \cup (IF Escapes(env, obs) THEN {"workspace_escape"} ELSE {})
             verdict == IF granted THEN "grant_exceeded" ELSE "outside_envelope"
  <2>1. verdict \in Verdicts \ {"within_envelope"}
    BY DEF Verdicts
  <2>2. types \in SUBSET ViolationTypes
    BY DEF ViolationTypes
  <2>3. Uncovered(env, obs) = Result(verdict, 0, types, obs.kind)
    BY DEF Uncovered
  <2> HIDE DEF sound, verdict, types, obs, env
  <2> QED BY <1>2, <2>1, <2>2, <2>3
<1>5. granting # {} => sound(Covered(env, obs, st, governing))
  <2> SUFFICES ASSUME granting # {} PROVE sound(Covered(env, obs, st, governing))
    OBVIOUS
  <2>1. /\ DOMAIN env.grants = 1..Len(env.grants) /\ Len(env.grants) \in Nat
        /\ \A i \in DOMAIN env.grants : IsSelector(env.grants[i].sel)
    BY ConfigsAssumption
  <2>2. granting \subseteq DOMAIN env.grants
    BY DEF Answering
  <2>3. governing \in granting
    <3> HIDE DEF granting, env
    <3>1. PICK n, entries : n = Len(env.grants) /\ entries = env.grants
      BY <2>1
    <3>2. n \in Nat /\ granting \in SUBSET (1..n) /\ \A i \in granting : IsSelector(entries[i].sel)
      BY <2>1, <2>2, <3>1
    <3>3. MostSpecific(entries, granting) \in granting
      BY <3>2, OneGoverns
    <3> QED BY <3>1, <3>3
  <2>4. /\ {"grant_exceeded", "constraint_violation"} \subseteq Verdicts \ {"within_envelope"}
        /\ "within_envelope" \in Verdicts
        /\ {{"count_exceeded"}, {"constraint_exceeded"}, {}} \subseteq SUBSET ViolationTypes
    BY DEF Verdicts, ViolationTypes
  <2> HIDE DEF granting, obs, governing, env
  <2>5. sound(Result("within_envelope", governing, {}, obs.kind))
    BY <1>1, <2>2, <2>3, <2>4, ResultsAreSound
  <2> HIDE DEF sound
  <2>6. /\ sound(Result("grant_exceeded", governing, {"count_exceeded"}, obs.kind))
        /\ sound(Result("constraint_violation", governing, {"constraint_exceeded"}, obs.kind))
    BY <1>2, <2>4
  <2> QED BY <2>5, <2>6 DEF Covered
<1>6. \/ Validate(env, e, st, time) = refused("outside_envelope", {"envelope_expired"}, e.kind)
      \/ Validate(env, e, st, time) = refused("indeterminate", {"unresolvable"}, e.kind)
      \/ Validate(env, e, st, time) = refused("explicitly_denied", {"explicit_denial"}, kind)
      \/ Validate(env, e, st, time) = Uncovered(env, obs)
      \/ granting # {} /\ Validate(env, e, st, time) = Covered(env, obs, st, governing)
  <2> HIDE DEF env
  <2> QED BY Zenon DEF Validate
<1> HIDE DEF refused, granting, governing, kind, obs
<1>7. sound(Validate(env, e, st, time))
  <2> HIDE DEF sound
  <2> QED BY <1>3, <1>4, <1>5, <1>6
<1> QED BY <1>7

-----------------------------------------------------------------------------
\* The points.

Factors ==
  {"verdict", "violation_severity", "sensitive_path", "sensitive_host", "uncorrelated_destination",
   "unverifiable_path", "credential_access_egress", "privilege_change", "workspace_escape",
   "novel_target", "violation_history"}

LEMMA FactorsAreFinite == IsFiniteSet(Factors)
<1>1. ASSUME NEW S, IsFiniteSet(S), NEW x PROVE IsFiniteSet(S \cup {x})
  BY <1>1, FS_AddElement
<1> DEFINE four == ((({} \cup {"verdict"}) \cup {"violation_severity"}) \cup {"sensitive_path"})
                     \cup {"sensitive_host"}
           eight == (((four \cup {"uncorrelated_destination"}) \cup {"unverifiable_path"})
                      \cup {"credential_access_egress"}) \cup {"privilege_change"}
           all == ((eight \cup {"workspace_escape"}) \cup {"novel_target"})
                     \cup {"violation_history"}
<1>2. IsFiniteSet(four)
  BY <1>1, FS_EmptySet
<1> HIDE DEF four
<1>3. IsFiniteSet(eight)
  BY <1>1, <1>2
<1> HIDE DEF eight
<1>4. IsFiniteSet(all)
  BY <1>1, <1>3
<1>5. all = Factors
  BY DEF Factors, four, eight
<1> QED BY <1>4, <1>5

LEMMA Points ==
  /\ \A verdict \in Verdicts : VerdictPoints(verdict) \in Nat
  /\ VerdictPoints("within_envelope") = 0
  /\ \A severity \in 0..4 : SeverityPoints(severity) \in Nat
  /\ SeverityPoints(Info) = 0
  /\ \A grade : SensitivityPoints(grade) \in Nat
<1>1. \A verdict \in Verdicts : VerdictPoints(verdict) \in Nat
  BY DEF Verdicts, VerdictPoints
<1>2. VerdictPoints("within_envelope") = 0
  BY DEF VerdictPoints
<1>3. \A severity \in 0..4 : SeverityPoints(severity) \in Nat
  BY DEF SeverityPoints, Info, Low, Medium, High, Critical
<1>4. SeverityPoints(Info) = 0
  BY DEF SeverityPoints, Info, Low, Medium, High, Critical
<1>5. \A grade : SensitivityPoints(grade) \in Nat
  BY DEF SensitivityPoints
<1> QED BY <1>1, <1>2, <1>3, <1>4, <1>5

LEMMA WorstIsASeverity ==
  ASSUME NEW violations, \A v \in violations : v.severity \in 0..4
  PROVE  WorstSeverity(violations) \in 0..4
<1>1. CASE violations = {}
  BY <1>1 DEF WorstSeverity, Info
<1>2. CASE violations # {}
  <2> DEFINE T == {4 - v.severity : v \in violations}
             worst == CHOOSE v \in violations : \A w \in violations : v.severity >= w.severity
  <2>1. T \subseteq Nat /\ T # {}
    BY <1>2
  <2>2. PICK x \in T : \A y \in T : x <= y
    <3> HIDE DEF T
    <3> QED BY <2>1, LeastNatural
  <2>3. PICK v \in violations : x = 4 - v.severity
    BY <2>2
  <2>4. \A w \in violations : v.severity >= w.severity
    <3> TAKE w \in violations
    <3>1. x <= 4 - w.severity
      BY <2>2
    <3> QED BY <2>3, <3>1
  <2>5. worst \in violations
    BY <2>4
  <2>6. WorstSeverity(violations) = worst.severity
    BY <1>2 DEF WorstSeverity
  <2> HIDE DEF worst
  <2> QED BY <2>5, <2>6
<1> QED BY <1>1, <1>2

\* Charges: every factor is a natural number; what was covered is charged for none;
\* and the three factors of an operation that departed which look at the past.
LEMMA WhatIsCharged ==
  ASSUME NEW oracle, NEW e, NEW result, NEW past, SoundResult(result),
         past.violations \in Nat
  PROVE  LET f == Charges(oracle, e, result, past)
             obs == Observe(e)
         IN /\ f \in [Factors -> Nat]
            /\ ~Departed(result) => \A x \in Factors : f[x] = 0
            /\ Departed(result) =>
                 /\ f.novel_target = NovelTargetPoints(obs, past.seen)
                 /\ f.credential_access_egress
                      = CredentialEgressPoints(oracle, e, obs, past.recent)
                 /\ f.violation_history = ViolationHistoryPoints(past.violations)
<1> DEFINE obs == Observe(e)
           ifDeparted(points) == IF Departed(result) THEN points ELSE 0
           verdict == VerdictPoints(result.verdict)
           severity == ViolationSeverityPoints(result.violations)
           path == SensitivePathPoints(oracle, e, obs)
           host == SensitiveHostPoints(oracle, obs)
           unnamed == UncorrelatedDestinationPoints(obs)
           unverifiable == UnverifiablePathPoints(e)
           credential == CredentialEgressPoints(oracle, e, obs, past.recent)
           privilege == PrivilegeChangePoints(obs.kind)
           escape == WorkspaceEscapePoints(result.violations)
           novel == NovelTargetPoints(obs, past.seen)
           before == ViolationHistoryPoints(past.violations)
           f == Charges(oracle, e, result, past)
<1>1. f = [verdict |-> verdict, violation_severity |-> severity,
           sensitive_path |-> ifDeparted(path), sensitive_host |-> ifDeparted(host),
           uncorrelated_destination |-> ifDeparted(unnamed),
           unverifiable_path |-> ifDeparted(unverifiable),
           credential_access_egress |-> ifDeparted(credential),
           privilege_change |-> ifDeparted(privilege), workspace_escape |-> escape,
           novel_target |-> ifDeparted(novel), violation_history |-> ifDeparted(before)]
  BY DEF Charges
<1>2. verdict \in Nat /\ (~Departed(result) => verdict = 0)
  BY Points DEF SoundResult, Departed
<1>3. severity \in Nat /\ (~Departed(result) => severity = 0)
  <2>1. \A v \in result.violations : v.severity \in 0..4
    BY DEF SoundResult
  <2>2. WorstSeverity(result.violations) \in 0..4
    BY <2>1, WorstIsASeverity
  <2>3. ~Departed(result) => WorstSeverity(result.violations) = Info
    BY DEF SoundResult, Departed, WorstSeverity
  <2> QED BY <2>2, <2>3, Points DEF ViolationSeverityPoints
<1>4. path \in Nat /\ host \in Nat /\ privilege \in Nat
  <2> HIDE DEF obs
  <2> QED BY Points DEF SensitivePathPoints, SensitiveHostPoints, PrivilegeChangePoints
<1>5. unnamed \in Nat /\ unverifiable \in Nat /\ credential \in Nat /\ novel \in Nat
  <2> HIDE DEF obs
  <2> QED BY DEF UncorrelatedDestinationPoints, UnverifiablePathPoints, CredentialEgressPoints,
                 NovelTargetPoints
<1>6. escape \in Nat /\ (~Departed(result) => escape = 0)
  BY DEF WorkspaceEscapePoints, SoundResult, Departed
<1>7. before \in Nat
  BY DEF ViolationHistoryPoints, Least
<1> HIDE DEF obs, verdict, severity, path, host, unnamed, unverifiable, credential, privilege,
             escape, novel, before, f
<1>8. DOMAIN f = Factors
  BY <1>1 DEF Factors
<1>9. f = [x \in Factors |-> f[x]]
  BY <1>1, <1>8
<1>10. /\ f["verdict"] = verdict /\ f["violation_severity"] = severity
       /\ f["sensitive_path"] = ifDeparted(path) /\ f["sensitive_host"] = ifDeparted(host)
       /\ f["uncorrelated_destination"] = ifDeparted(unnamed)
       /\ f["unverifiable_path"] = ifDeparted(unverifiable)
       /\ f["credential_access_egress"] = ifDeparted(credential)
       /\ f["privilege_change"] = ifDeparted(privilege) /\ f["workspace_escape"] = escape
       /\ f["novel_target"] = ifDeparted(novel) /\ f["violation_history"] = ifDeparted(before)
  BY <1>1
<1>11. \A x \in Factors : f[x] \in Nat
  BY <1>2, <1>3, <1>4, <1>5, <1>6, <1>7, <1>10 DEF Factors
<1>12. ~Departed(result) => \A x \in Factors : f[x] = 0
  BY <1>2, <1>3, <1>6, <1>10 DEF Factors
<1>13. f \in [Factors -> Nat]
  BY <1>9, <1>11
<1>14. Departed(result) => /\ f.novel_target = novel /\ f.credential_access_egress = credential
                           /\ f.violation_history = before
  BY <1>10
<1> QED BY <1>12, <1>13, <1>14 DEF f, novel, credential, before, obs

LEMMA RiskIsBounded ==
  ASSUME NEW oracle, NEW e, NEW result, NEW past, SoundResult(result),
         past.violations \in Nat
  PROVE  LET risk == Score(oracle, e, result, past)
         IN /\ risk.score \in 0..100 /\ risk.confidence \in 0..10
            /\ risk.level \in Levels
            /\ risk.factors = Charges(oracle, e, result, past)
            /\ ~Departed(result) => risk.score = 0
<1> DEFINE f == Charges(oracle, e, result, past)
           sum == SumFunction(f)
           risk == Score(oracle, e, result, past)
<1>1. /\ risk.score = ClampScore(sum) /\ risk.level = LevelFor(ClampScore(sum))
      /\ risk.confidence = Confidence(result, Observe(e)) /\ risk.factors = f
  BY DEF Score
<1>2. f \in [Factors -> Nat] /\ (~Departed(result) => \A x \in Factors : f[x] = 0)
  BY WhatIsCharged
<1> HIDE DEF f
<1>3. sum \in Nat
  BY <1>2, FactorsAreFinite, SumIsNatural
<1>4. ~Departed(result) => sum = 0
  <2> SUFFICES ASSUME ~Departed(result) PROVE sum = 0
    OBVIOUS
  <2>1. f \in [Factors -> Int] /\ \A x \in Factors : x # "verdict" => f[x] = 0
    BY <1>2
  <2>2. SumFunction(f) = IF "verdict" \in Factors THEN f["verdict"] ELSE 0
    BY ONLY <2>1, FactorsAreFinite, SumOfOne
  <2> QED BY <1>2, <2>2
<1> HIDE DEF sum
<1>5. ClampScore(sum) \in 0..100 /\ (sum = 0 => ClampScore(sum) = 0)
  BY <1>3 DEF ClampScore, Least
<1>6. \A score \in 0..100 : LevelFor(score) \in Levels
  BY DEF LevelFor, Levels
<1>7. Confidence(result, Observe(e)) \in 0..10
  <2>1. \A b : Bit(b) \in {0, 1}
    BY DEF Bit
  <2>2. \A a, b \in {0, 1} : 3 * (1 + a + b) \in 0..10
    OBVIOUS
  <2> QED BY <2>1, <2>2 DEF Confidence
<1> HIDE DEF risk
<1> QED BY <1>1, <1>4, <1>5, <1>6, <1>7 DEF risk, f

-----------------------------------------------------------------------------
\* What the session remembers and tallies.

IsHistory(h) ==
  /\ DOMAIN h = {"seen", "seenFull", "ring", "next", "length"}
  /\ IsFiniteSet(h.seen) /\ Cardinality(h.seen) <= MaxSeenTargets
  /\ h.next \in 0..HistorySize - 1 /\ DOMAIN h.ring = 0..HistorySize - 1
  /\ h.length \in 0..HistorySize

LEMMA RemembersOneMore ==
  ASSUME NEW h, IsHistory(h), NEW e
  PROVE  LET g == Remember(h, e)
             obs == Observe(e)
             key == <<CountedKind(e), TargetOf(obs)>>
         IN /\ IsHistory(g)
            /\ g.seen = IF HasTarget(obs) /\ Cardinality(h.seen) < MaxSeenTargets
                        THEN h.seen \cup {key} ELSE h.seen
            /\ g.ring = [h.ring EXCEPT ![h.next] = e]
            /\ g.next = (h.next + 1) % HistorySize
            /\ g.length = IF h.length < HistorySize THEN h.length + 1 ELSE h.length
<1> DEFINE obs == Observe(e)
           key == <<CountedKind(e), TargetOf(obs)>>
           marked == MarkSeen(h, key)
           kept == IF HasTarget(obs) THEN marked ELSE h
           g == Remember(h, e)
<1>1. g = Push(kept, e)
  BY DEF Remember
<1> HIDE DEF g
<1>2. Cardinality(h.seen) \in Nat
  BY FS_CardinalityType DEF IsHistory
<1>3. /\ DOMAIN marked = DOMAIN h
      /\ marked.ring = h.ring /\ marked.next = h.next /\ marked.length = h.length
      /\ marked.seen = IF Cardinality(h.seen) < MaxSeenTargets THEN h.seen \cup {key} ELSE h.seen
  <2> HIDE DEF key
  <2>1. CASE MaxSeenTargets = 0 \/ key \in h.seen
    <3>1. marked = h
      BY <2>1 DEF MarkSeen
    <3>2. Cardinality(h.seen) < MaxSeenTargets => key \in h.seen
      BY <1>2, <2>1
    <3> QED BY <3>1, <3>2
  <2>2. CASE ~(MaxSeenTargets = 0 \/ key \in h.seen) /\ Cardinality(h.seen) >= MaxSeenTargets
    BY <1>2, <2>2, MaxSeenTargetsAssumption DEF MarkSeen, IsHistory
  <2>3. CASE ~(MaxSeenTargets = 0 \/ key \in h.seen) /\ ~(Cardinality(h.seen) >= MaxSeenTargets)
    BY <1>2, <2>3, MaxSeenTargetsAssumption DEF MarkSeen, IsHistory
  <2> QED BY <2>1, <2>2, <2>3
<1> HIDE DEF marked, key
<1>4. /\ DOMAIN kept = DOMAIN h
      /\ kept.ring = h.ring /\ kept.next = h.next /\ kept.length = h.length
      /\ kept.seen = IF HasTarget(obs) /\ Cardinality(h.seen) < MaxSeenTargets
                     THEN h.seen \cup {key} ELSE h.seen
  <2> HIDE DEF obs
  <2> QED BY <1>3
<1> HIDE DEF kept
<1>5. /\ DOMAIN g = DOMAIN h /\ g.seen = kept.seen
      /\ g.ring = [h.ring EXCEPT ![h.next] = e]
      /\ g.next = (h.next + 1) % HistorySize
      /\ g.length = IF h.length < HistorySize THEN h.length + 1 ELSE h.length
  <2>1. g = [kept EXCEPT !.ring = [kept.ring EXCEPT ![kept.next] = e],
                         !.next = (kept.next + 1) % HistorySize,
                         !.length = IF kept.length < HistorySize THEN kept.length + 1 ELSE kept.length]
    BY <1>1, <1>4 DEF Push, IsHistory
  <2> QED BY <1>4, <2>1 DEF IsHistory
<1>6. IsFiniteSet(g.seen) /\ Cardinality(g.seen) <= MaxSeenTargets
  <2>1. CASE g.seen = h.seen
    BY <2>1 DEF IsHistory
  <2>2. CASE Cardinality(h.seen) < MaxSeenTargets /\ g.seen = h.seen \cup {key}
    <3>1. IsFiniteSet(h.seen)
      BY DEF IsHistory
    <3>2. /\ IsFiniteSet(h.seen \cup {key})
          /\ Cardinality(h.seen \cup {key}) \in {Cardinality(h.seen), Cardinality(h.seen) + 1}
      BY <3>1, FS_AddElement
    <3> QED BY <1>2, <2>2, <3>2, MaxSeenTargetsAssumption
  <2> QED BY <1>4, <1>5, <2>1, <2>2
<1>7. g.next \in 0..HistorySize - 1 /\ g.length \in 0..HistorySize
  BY <1>5, HistorySizeAssumption DEF IsHistory
<1>8. DOMAIN g.ring = 0..HistorySize - 1
  BY <1>5 DEF IsHistory
<1>9. IsHistory(g)
  BY <1>5, <1>6, <1>7, <1>8 DEF IsHistory
<1> QED BY <1>4, <1>5, <1>9 DEF g, key, obs

IsTallies(t) ==
  /\ DOMAIN t = {"decisions", "violations", "tally", "peak", "unmatched", "unmatchedTotal"}
  /\ t.violations \in Nat
  /\ IsFiniteSet(DOMAIN t.unmatched) /\ Cardinality(DOMAIN t.unmatched) <= MaxUnmatched

LEMMA TalliesOneMore ==
  ASSUME NEW t, IsTallies(t), NEW e, NEW d
  PROVE  LET u == TallyAllowed(TallyDecision(t, d), e, d)
         IN /\ IsTallies(u)
            /\ u.violations = t.violations + Bit(d.verdict # "within_envelope")
<1> DEFINE v == TallyDecision(t, d)
           key == <<TargetOf(Observe(e)), d.verdict>>
           u == TallyAllowed(v, e, d)
           more == [v EXCEPT !.unmatchedTotal = @ + 1,
                             !.unmatched = IF key \in DOMAIN @ \/ Cardinality(DOMAIN @) < MaxUnmatched
                                           THEN OneMore(@, key) ELSE @]
<1>1. /\ DOMAIN v = DOMAIN t /\ v.unmatched = t.unmatched
      /\ v.violations = t.violations + Bit(d.verdict # "within_envelope")
  BY DEF TallyDecision, IsTallies
<1>2. u = v \/ u = more
  <2> HIDE DEF v
  <2> QED BY Zenon DEF TallyAllowed
<1> HIDE DEF v, u, key
<1>3. /\ DOMAIN more = DOMAIN t /\ more.violations = v.violations
      /\ more.unmatched = IF key \in DOMAIN t.unmatched \/ Cardinality(DOMAIN t.unmatched) < MaxUnmatched
                          THEN OneMore(t.unmatched, key) ELSE t.unmatched
  BY <1>1 DEF IsTallies
<1> HIDE DEF more
<1>4. DOMAIN OneMore(t.unmatched, key) = DOMAIN t.unmatched \cup {key}
  BY DEF OneMore
<1>5. v.violations \in Nat
  <2>1. Bit(d.verdict # "within_envelope") \in Nat
    BY DEF Bit
  <2> QED BY <1>1, <2>1 DEF IsTallies
<1>6. /\ IsFiniteSet(DOMAIN more.unmatched)
      /\ Cardinality(DOMAIN more.unmatched) <= MaxUnmatched
  <2> DEFINE names == DOMAIN t.unmatched
  <2>1. IsFiniteSet(names) /\ Cardinality(names) \in Nat /\ Cardinality(names) <= MaxUnmatched
    BY FS_CardinalityType DEF IsTallies
  <2>2. CASE more.unmatched = t.unmatched
    BY <2>1, <2>2
  <2>3. CASE /\ key \in names \/ Cardinality(names) < MaxUnmatched
             /\ more.unmatched = OneMore(t.unmatched, key)
    <3>1. DOMAIN more.unmatched = names \cup {key}
      BY <1>4, <2>3
    <3> HIDE DEF names
    <3>2. /\ IsFiniteSet(names \cup {key})
          /\ Cardinality(names \cup {key}) =
               IF key \in names THEN Cardinality(names) ELSE Cardinality(names) + 1
      BY <2>1, FS_AddElement
    <3> QED BY <2>1, <2>3, <3>1, <3>2, MaxUnmatchedAssumption
  <2> QED BY <1>3, <2>2, <2>3
<1>7. IsTallies(v) /\ IsTallies(more)
  BY <1>1, <1>3, <1>5, <1>6 DEF IsTallies
<1> QED BY <1>1, <1>2, <1>3, <1>7 DEF u, v

-----------------------------------------------------------------------------
\* A step that processes an event: what it is processed as and what is written.

Processed(k, e, failing, result, risk, outcome, decision) ==
  /\ k = Len(log) /\ k \in Nat /\ e.id = k + 1 /\ e.kind \in Kinds
  /\ result = Validate(config.envelope, e, Budgets, now)
  /\ risk = Score(config.oracle, e, result, Past(e))
  /\ outcome = Evaluate(config.rules, config.defaultAction, config.mode, e, result, risk,
                        config.envelope.task)
  /\ decision = IF failing = "none" THEN Finalize(result, risk, outcome) ELSE HandleFailure
  /\ DOMAIN log = 1..k /\ DOMAIN log' = 1..k + 1 /\ Len(log') = k + 1
  /\ \A n \in 1..k : log'[n] = log[n]
  /\ log'[k + 1].event = e /\ log'[k + 1].failed = (failing # "none") /\ log'[k + 1].decision = decision
  /\ log'[k + 1].result = IF failing = "validate" THEN NoResult ELSE result
  /\ history' = Remember(history, e)
  /\ tallies' = TallyAllowed(TallyDecision(tallies, decision), e, decision)
  /\ counters'.events = counters.events + 1
  /\ config' = config /\ now' = now
  /\ faults' = faults + Bit(failing # "none") /\ (failing # "none" => faults < MaxFaults)

LEMMA EventIsProcessed ==
  ASSUME Tallied, NEW reported \in Events, NEW failing \in Stages \cup {"none"},
         Process(reported, failing)
  PROVE  \E k, e, result, risk, outcome, decision :
           Processed(k, e, failing, result, risk, outcome, decision)
<1> DEFINE k == Len(log)
           e == [reported EXCEPT !.id = k + 1]
           result == Validate(config.envelope, e, Budgets, now)
           risk == Score(config.oracle, e, result, Past(e))
           outcome == Evaluate(config.rules, config.defaultAction, config.mode, e, result, risk,
                               config.envelope.task)
           decision == IF failing = "none" THEN Finalize(result, risk, outcome) ELSE HandleFailure
           entry == [event |-> e, failed |-> failing # "none", decision |-> decision,
                     result |-> IF failing = "validate" THEN NoResult ELSE result]
<1>1. /\ log' = Append(log, entry)
      /\ history' = Remember(history, e) /\ counters' = CountEvent(counters, e)
      /\ tallies' = TallyAllowed(TallyDecision(tallies, decision), e, decision)
      /\ config' = config /\ now' = now
      /\ faults' = faults + Bit(failing # "none") /\ (failing # "none" => faults < MaxFaults)
  BY Zenon DEF Process
<1>2. PICK S : log \in Seq(S)
  BY DEF Tallied
<1>3. k \in Nat
  BY <1>2, LenProperties
<1>4. e.id = k + 1 /\ e.kind \in Kinds
  BY EventsAssumption
<1>5. {e.clock, e.bytes, e.dropped} \subseteq Nat
  BY ReportedNumbers
<1> HIDE DEF e, result, risk, outcome, decision
<1>6. /\ entry.event = e /\ entry.failed = (failing # "none") /\ entry.decision = decision
      /\ entry.result = IF failing = "validate" THEN NoResult ELSE result
  OBVIOUS
<1> HIDE DEF entry
<1>7. /\ DOMAIN log = 1..k /\ DOMAIN Append(log, entry) = 1..k + 1
      /\ Len(Append(log, entry)) = k + 1
      /\ \A n \in 1..k : Append(log, entry)[n] = log[n]
      /\ Append(log, entry)[k + 1] = entry
  BY <1>2, AppendedLog
<1>8. counters'.events = counters.events + 1
  <2>1. counters \in CounterType
    BY DEF Tallied
  <2>2. \A c : AdvanceClock(Counted(c, CountedKind(e), e), e.clock).events = c.events + 1
    BY DEF AdvanceClock, Counted
  <2> QED BY <1>1, <2>2 DEF CountEvent
<1>9. Processed(k, e, failing, result, risk, outcome, decision)
  <2> HIDE DEF k
  <2>1. /\ result = Validate(config.envelope, e, Budgets, now)
        /\ risk = Score(config.oracle, e, result, Past(e))
        /\ outcome = Evaluate(config.rules, config.defaultAction, config.mode, e, result, risk,
                              config.envelope.task)
        /\ decision = IF failing = "none" THEN Finalize(result, risk, outcome) ELSE HandleFailure
        /\ k = Len(log)
    BY Zenon DEF result, risk, outcome, decision, k
  <2> QED BY <1>1, <1>3, <1>4, <1>6, <1>7, <1>8, <2>1 DEF Processed
<1> QED BY <1>9

\* A step is that of an event, or leaves all but the host's clock alone.
LEMMA StepsAreTwo ==
  ASSUME Tallied, [Next]_vars
  PROVE  \/ \E failing \in Stages \cup {"none"} : \E k, e, result, risk, outcome, decision :
              Processed(k, e, failing, result, risk, outcome, decision)
         \/ /\ now' \in {now} \cup 1..MaxTime
            /\ UNCHANGED <<config, grantUses, counters, history, tallies, faults, log>>
<1>1. CASE Tick \/ UNCHANGED vars
  BY <1>1 DEF Tick, vars
<1>2. ASSUME NEW reported \in Events, NEW failing \in Stages \cup {"none"},
             Process(reported, failing)
      PROVE  \E k, e, result, risk, outcome, decision :
               Processed(k, e, failing, result, risk, outcome, decision)
  BY <1>2, EventIsProcessed
<1> QED BY <1>1, <1>2 DEF Next

\* The decisions.
Typed(c, d) ==
  /\ d.verdict \in Verdicts /\ d.action \in Actions
  /\ d.rule \in {NoRule, DefaultRuleID} \cup DOMAIN c.rules
  /\ d.grant \in {0} \cup DOMAIN c.envelope.grants
  /\ d.risk.score \in 0..100 /\ d.risk.confidence \in 0..10

Bounded ==
  /\ Tallied
  /\ now \in 1..MaxTime /\ faults \in 0..MaxFaults
  /\ counters.events = Len(log)
  /\ IsHistory(history) /\ IsTallies(tallies)
  /\ \A n \in DOMAIN log : Typed(config, log[n].decision)

LEMMA DecisionsAreTyped ==
  ASSUME Bounded, NEW failing,
         NEW k, NEW e, NEW result, NEW risk, NEW outcome, NEW decision,
         Processed(k, e, failing, result, risk, outcome, decision)
  PROVE  Typed(config, decision)
<1>1. config \in Configs
  BY DEF Bounded, Tallied, Ledgered
<1>2. result = Validate(config.envelope, e, Budgets, now) /\ risk = Score(config.oracle, e, result, Past(e))
  BY DEF Processed
<1>3. /\ SoundResult(result)
      /\ result.verdict = "within_envelope" => result.grant \in DOMAIN config.envelope.grants
  BY <1>1, <1>2, ValidationIsSound
<1>4. Past(e).violations \in Nat
  BY DEF Past, Bounded, IsTallies
<1>5. risk.score \in 0..100 /\ risk.confidence \in 0..10
  <2>1. PICK past : past = Past(e)
    OBVIOUS
  <2> QED BY <1>2, <1>3, <1>4, <2>1, RiskIsBounded
<1>6. /\ outcome.action \in Actions
      /\ outcome.rule \in {DefaultRuleID} \cup DOMAIN config.rules
  <2>1. outcome = Evaluate(config.rules, config.defaultAction, config.mode, e, result, risk,
                           config.envelope.task)
    BY DEF Processed
  <2>2. LET matching == Eligible(config.rules, config.mode, e, result, risk, config.envelope.task)
        IN /\ matching \subseteq DOMAIN config.rules
           /\ matching = {} => outcome.rule = DefaultRuleID
           /\ matching # {} => outcome.rule \in matching
           /\ outcome.action \in Actions
    BY <1>1, <2>1, FirstDecides
  <2> QED BY <2>2
<1>7. CASE failing = "none"
  <2>1. decision = Finalize(result, risk, outcome)
    BY <1>7 DEF Processed
  <2>2. /\ decision.verdict = result.verdict /\ decision.action = outcome.action
        /\ decision.rule = outcome.rule /\ decision.risk = risk
        /\ decision.grant = IF result.verdict = "within_envelope" THEN result.grant ELSE 0
    BY <2>1 DEF Finalize
  <2> QED BY <1>3, <1>5, <1>6, <2>2 DEF Typed, SoundResult
<1>8. CASE failing # "none"
  <2>1. decision = HandleFailure
    BY <1>8 DEF Processed
  <2> QED BY <2>1 DEF HandleFailure, Typed, Verdicts, Actions, Unscored
<1> QED BY <1>7, <1>8

LEMMA BoundedStep == Bounded /\ [Next]_vars => Bounded'
<1> SUFFICES ASSUME Bounded, [Next]_vars PROVE Bounded'
  OBVIOUS
<1>1. Tallied /\ Tallied'
  BY TalliedStep DEF Bounded
<1>2. ASSUME NEW failing \in Stages \cup {"none"},
             NEW k, NEW e, NEW result, NEW risk, NEW outcome, NEW decision,
             Processed(k, e, failing, result, risk, outcome, decision)
      PROVE  Bounded'
  <2>1. now' \in 1..MaxTime /\ faults' \in 0..MaxFaults
    BY <1>2, BoundsAssumption DEF Processed, Bounded, Bit
  <2>2. counters'.events = Len(log')
    BY <1>2 DEF Processed, Bounded
  <2>3. IsHistory(history)'
    <3>1. history' = Remember(history, e) /\ IsHistory(history)
      BY <1>2 DEF Processed, Bounded
    <3>2. \A h : IsHistory(h) => IsHistory(Remember(h, e))
      BY RemembersOneMore
    <3>3. IsHistory(Remember(history, e))
      BY <3>1, <3>2
    <3> QED BY <3>1, <3>3 DEF IsHistory
  <2>4. IsTallies(tallies)'
    <3>1. /\ tallies' = TallyAllowed(TallyDecision(tallies, decision), e, decision)
          /\ IsTallies(tallies)
      BY <1>2 DEF Processed, Bounded
    <3>2. \A t : IsTallies(t) => IsTallies(TallyAllowed(TallyDecision(t, decision), e, decision))
      BY TalliesOneMore
    <3>3. IsTallies(TallyAllowed(TallyDecision(tallies, decision), e, decision))
      BY <3>1, <3>2
    <3> QED BY <3>1, <3>3 DEF IsTallies
  <2>5. Typed(config, decision)
    BY <1>2, DecisionsAreTyped
  <2>6. ASSUME NEW n \in 1..k + 1 PROVE Typed(config', log'[n].decision)
    <3>1. Typed(config, log'[n].decision)
      <4>1. CASE n \in 1..k
        <5>1. log'[n] = log[n] /\ n \in DOMAIN log
          BY <1>2, <4>1 DEF Processed
        <5> QED BY <5>1 DEF Bounded
      <4>2. CASE n = k + 1
        BY <1>2, <2>5, <4>2 DEF Processed
      <4>3. k \in Nat
        BY <1>2 DEF Processed
      <4> QED BY <4>1, <4>2, <4>3
    <3> QED BY <1>2, <3>1 DEF Processed
  <2>7. DOMAIN log' = 1..k + 1
    BY <1>2 DEF Processed
  <2> QED BY <1>1, <2>1, <2>2, <2>3, <2>4, <2>6, <2>7 DEF Bounded
<1>3. CASE /\ now' \in {now} \cup 1..MaxTime
           /\ UNCHANGED <<config, grantUses, counters, history, tallies, faults, log>>
  <2>1. now' \in 1..MaxTime
    BY <1>3, BoundsAssumption DEF Bounded
  <2>2. IsHistory(history)' /\ IsTallies(tallies)'
    BY <1>3 DEF Bounded, IsHistory, IsTallies
  <2>3. \A n \in DOMAIN log' : Typed(config, log[n].decision)'
    BY <1>3 DEF Bounded, Typed
  <2> QED BY <1>1, <1>3, <2>1, <2>2, <2>3 DEF Bounded
<1> QED BY <1>1, <1>2, <1>3, StepsAreTwo

LEMMA BoundedInit == Init => Bounded
<1> SUFFICES ASSUME Init PROVE Bounded
  OBVIOUS
<1>1. Tallied
  BY TalliedInit
<1>2. now \in 1..MaxTime /\ faults \in 0..MaxFaults
  BY BoundsAssumption DEF Init
<1>3. counters.events = Len(log) /\ DOMAIN log = {}
  BY DEF Init, NewCounters
<1>4. IsFiniteSet({}) /\ Cardinality({}) = 0
  BY FS_EmptySet
<1>5. IsHistory(history)
  BY <1>4, MaxSeenTargetsAssumption, HistorySizeAssumption DEF Init, NewHistory, IsHistory
<1>6. IsTallies(tallies)
  <2>1. DOMAIN <<>> = {}
    OBVIOUS
  <2> QED BY <1>4, <2>1, MaxUnmatchedAssumption DEF Init, NewTallies, IsTallies
<1> QED BY <1>1, <1>2, <1>3, <1>5, <1>6 DEF Bounded

\* Every decision names a verdict, an action, a rule and a grant that exist, with a
\* score and a confidence on their scales, under any envelope and any rules, and
\* the history and the tallies keep to their limits.
\* process.go, finalize; score.go, Aggregate; state.go, markSeen and RecordAllowed.
THEOREM TypeCorrect == Spec => []TypeOK
<1>1. Bounded => TypeOK
  <2> SUFFICES ASSUME Bounded PROVE TypeOK
    OBVIOUS
  <2>1. config \in Configs /\ grantUses \in [DOMAIN config.envelope.grants -> Nat]
    BY DEF Bounded, Tallied, Ledgered, Grants
  <2> QED BY <2>1 DEF Bounded, TypeOK, Typed, IsHistory, IsTallies
<1> QED BY <1>1, BoundedInit, BoundedStep, PTL DEF Spec
-----------------------------------------------------------------------------
\* The linter.  What Matches compares a condition with: a result, the kind of an
\* event, and a risk on its scales.

Comparable(e, result, risk) ==
  /\ e.kind \in Kinds /\ SoundResult(result)
  /\ risk.score \in 0..100 /\ risk.confidence \in 0..10 /\ risk.level \in Levels

LEMMA EveryKindHasADomain == \A kind \in Kinds : DomainOf(kind) \in Domains
BY DEF Kinds, DomainOf, Domains

\* A list of which no value is known allows nothing that is.
LEMMA UnknownAllowsNothing ==
  ASSUME NEW known, NEW values, ~(values \subseteq known), values \cap known = {}
  PROVE  \A value \in known : ~Allows(values, value)
BY DEF Allows

\* lintClosedSets: what names an unknown value, and is not partly unknown, matches
\* nothing.
LEMMA UnknownNeverMatches ==
  ASSUME NEW c, NEW e, NEW result, NEW risk, NEW task, Comparable(e, result, risk),
         NamesUnknown(c), ~PartlyUnknown(c)
  PROVE  ~Matches(c, e, result, risk, task)
<1>1. /\ ~c.verdicts \subseteq Verdicts => c.verdicts \cap Verdicts = {}
      /\ ~c.kinds \subseteq Kinds => c.kinds \cap Kinds = {}
      /\ ~c.domains \subseteq Domains => c.domains \cap Domains = {}
      /\ ~c.types \subseteq ViolationTypes => c.types \cap ViolationTypes = {}
      /\ ~c.levels \subseteq Levels => c.levels \cap Levels = {}
  BY DEF PartlyUnknown, NamesUnknown, Anything
<1>2. CASE ~c.verdicts \subseteq Verdicts
  <2>1. ~Allows(c.verdicts, result.verdict)
    BY <1>1, <1>2, UnknownAllowsNothing DEF Comparable, SoundResult
  <2> QED BY <2>1 DEF Matches
<1>3. CASE ~c.kinds \subseteq Kinds
  <2>1. ~Allows(c.kinds, e.kind)
    BY <1>1, <1>3, UnknownAllowsNothing DEF Comparable
  <2> QED BY <2>1 DEF Matches, CapabilityMatches
<1>4. CASE ~c.domains \subseteq Domains
  <2>1. DomainOf(e.kind) \in Domains
    BY EveryKindHasADomain DEF Comparable
  <2>2. ~Allows(c.domains, DomainOf(e.kind))
    BY <1>1, <1>4, <2>1, UnknownAllowsNothing
  <2> QED BY <2>2 DEF Matches, CapabilityMatches
<1>5. CASE ~c.types \subseteq ViolationTypes
  <2>1. ~HasViolation(c, result.violations)
    BY <1>1, <1>5 DEF HasViolation, Comparable, SoundResult
  <2> QED BY <2>1 DEF Matches
<1>6. CASE ~c.levels \subseteq Levels
  <2>1. ~Allows(c.levels, risk.level)
    BY <1>1, <1>6, UnknownAllowsNothing DEF Comparable
  <2> QED BY <2>1 DEF Matches, RiskMatches
<1> QED BY <1>2, <1>3, <1>4, <1>5, <1>6 DEF NamesUnknown

\* lintRiskRange: no score is in an empty range.
LEMMA EmptyRangeNeverMatches ==
  ASSUME NEW rule, IsRule(rule), NEW e, NEW result, NEW risk, Comparable(e, result, risk),
         EmptyRiskRange(rule.match)
  PROVE  ~RiskMatches(rule.match, risk)
<1> DEFINE c == rule.match
<1>1. /\ \A m \in c.minRisk : m \in Int
      /\ \A m \in c.maxRisk : m \in Int
      /\ \A m \in c.minConfidence : m \in Int
  BY DEF IsRule
<1>2. risk.score \in 0..100 /\ risk.confidence \in 0..10
  BY DEF Comparable
<1> SUFFICES ASSUME RiskMatches(c, risk) PROVE FALSE
  OBVIOUS
<1>3. /\ \A m \in c.minRisk : risk.score >= m
      /\ \A m \in c.maxRisk : risk.score < m
      /\ \A m \in c.minConfidence : risk.confidence >= m
  BY DEF RiskMatches
<1>4. EmptyRiskRange(c)
  OBVIOUS
<1> HIDE DEF c
<1>5. CASE \E low \in c.minRisk, high \in c.maxRisk : low >= high
  BY <1>1, <1>2, <1>3, <1>5
<1>6. CASE \E low \in c.minRisk : low > 100
  BY <1>1, <1>2, <1>3, <1>6
<1>7. CASE \E high \in c.maxRisk : high <= 0
  BY <1>1, <1>2, <1>3, <1>7
<1>8. CASE \E m \in c.minConfidence : m > 10
  BY <1>1, <1>2, <1>3, <1>8
<1> QED BY <1>4, <1>5, <1>6, <1>7, <1>8 DEF EmptyRiskRange

LEMMA UnusablePatternsNeverMatch ==
  ASSUME NEW c, NEW obs,
         \/ c.paths # {} /\ \A p \in c.paths : ~ValidPattern(p)
         \/ c.hosts # {} /\ \A h \in c.hosts : h.form = "invalid"
  PROVE  ~TargetMatches(c, obs)
<1>1. \A p : ~ValidPattern(p) => ~MatchPath(p, obs.target)
  BY DEF MatchPath
<1>2. \A p, h : p.form = "invalid" => ~MatchHost(p, h)
  BY DEF MatchHost
<1> QED BY <1>1, <1>2 DEF TargetMatches

\* LintRule: a rule it says can never match, for no value it does not know among
\* those it does, matches no event.
LEMMA ImpossibleRuleNeverMatches ==
  ASSUME NEW rule, IsRule(rule), NEW i, NEW issue \in LintRule(rule, i),
         issue.severity # Medium, ~PartlyUnknown(rule.match),
         NEW e, NEW result, NEW risk, NEW task, Comparable(e, result, risk)
  PROVE  ~Matches(rule.match, e, result, risk, task)
<1> DEFINE c == rule.match
           usablePaths == {p \in c.paths : ValidPattern(p)}
           usableHosts == {h \in c.hosts : h.form # "invalid"}
<1>1. \A patterns, usable : \A x \in PatternIssues(i, patterns, usable) :
        x.severity # Medium => patterns \ usable # {} /\ patterns \ usable = patterns
  BY DEF PatternIssues, Issue
<1>2. \/ NamesUnknown(c) \/ EmptyRiskRange(c) \/ KindsOutsideDomains(c)
      \/ issue \in PatternIssues(i, c.paths, usablePaths)
      \/ issue \in PatternIssues(i, c.hosts, usableHosts)
  BY Zenon DEF LintRule
<1>3. CASE NamesUnknown(c)
  BY <1>3, UnknownNeverMatches
<1>4. CASE EmptyRiskRange(c)
  BY <1>4, EmptyRangeNeverMatches DEF Matches
<1>5. CASE KindsOutsideDomains(c)
  BY <1>5 DEF KindsOutsideDomains, Matches, CapabilityMatches, Allows
<1>6. CASE issue \in PatternIssues(i, c.paths, usablePaths)
  <2>1. c.paths \ usablePaths # {} /\ c.paths \ usablePaths = c.paths
    BY <1>1, <1>6
  <2>2. c.paths # {} /\ \A p \in c.paths : ~ValidPattern(p)
    BY <2>1
  <2> QED BY <2>2, UnusablePatternsNeverMatch DEF Matches
<1>7. CASE issue \in PatternIssues(i, c.hosts, usableHosts)
  <2>1. c.hosts \ usableHosts # {} /\ c.hosts \ usableHosts = c.hosts
    BY <1>1, <1>7
  <2>2. c.hosts # {} /\ \A h \in c.hosts : h.form = "invalid"
    BY <2>1
  <2> QED BY <2>2, UnusablePatternsNeverMatch DEF Matches
<1> QED BY <1>2, <1>3, <1>4, <1>5, <1>6, <1>7

\* subsumes: what a narrower rule matches a wider one matches.
LEMMA WiderMatches ==
  ASSUME NEW a, NEW b, IsRule(a), IsRule(b), Subsumes(a, b),
         NEW mode, NEW e, NEW result, NEW risk, NEW task, Comparable(e, result, risk),
         ModeApplies(b, mode), Matches(b.match, e, result, risk, task)
  PROVE  ModeApplies(a, mode) /\ Matches(a.match, e, result, risk, task)
<1> DEFINE c == a.match
           d == b.match
<1>1. \A wide, narrow : SetSubsumes(wide, narrow) =>
        \A value : Allows(narrow, value) => Allows(wide, value)
  BY DEF SetSubsumes, Allows
<1>2. /\ SetSubsumes(c.verdicts, d.verdicts) /\ SetSubsumes(c.kinds, d.kinds)
      /\ SetSubsumes(c.domains, d.domains) /\ SetSubsumes(c.types, d.types)
      /\ SetSubsumes(c.levels, d.levels) /\ SetSubsumes(c.tasks, d.tasks)
  <2>1. \A part \in {"verdicts", "kinds", "domains", "types", "levels", "tasks"} :
          SetSubsumes(a.match[part], b.match[part])
    BY DEF Subsumes
  <2> QED BY <2>1
<1>3. /\ SetSubsumes(a.modes, b.modes)
      /\ SetSubsumes(c.paths, d.paths) /\ SetSubsumes(c.hosts, d.hosts)
      /\ MinSubsumes(c.minRisk, d.minRisk) /\ MaxSubsumes(c.maxRisk, d.maxRisk)
      /\ MinSubsumes(c.minConfidence, d.minConfidence)
  BY DEF Subsumes
<1>4. /\ \A m \in c.minRisk \cup c.maxRisk \cup c.minConfidence : m \in Int
      /\ \A m \in d.minRisk \cup d.maxRisk \cup d.minConfidence : m \in Int
  BY DEF IsRule
<1>5. /\ Allows(d.verdicts, result.verdict) /\ CapabilityMatches(d, e.kind)
      /\ HasViolation(d, result.violations) /\ RiskMatches(d, risk)
      /\ TargetMatches(d, Observe(e)) /\ Allows(d.tasks, task)
  BY DEF Matches
<1>6. risk.score \in Int /\ risk.confidence \in Int
  BY DEF Comparable
<1> HIDE DEF c, d
<1>7. ModeApplies(a, mode)
  BY <1>1, <1>3 DEF ModeApplies
<1>8. Allows(c.verdicts, result.verdict) /\ Allows(c.tasks, task)
  BY <1>1, <1>2, <1>5
<1>9. CapabilityMatches(c, e.kind)
  BY <1>1, <1>2, <1>5 DEF CapabilityMatches
<1>10. HasViolation(c, result.violations)
  BY <1>2, <1>5 DEF HasViolation, SetSubsumes
<1>11. RiskMatches(c, risk)
  <2>1. Allows(c.levels, risk.level)
    BY <1>1, <1>2, <1>5 DEF RiskMatches
  <2>2. ASSUME NEW m \in c.minRisk PROVE risk.score >= m
    <3>1. PICK n \in d.minRisk : n >= m
      BY <1>3 DEF MinSubsumes
    <3>2. risk.score >= n
      BY <1>5 DEF RiskMatches
    <3> QED BY <1>4, <1>6, <3>1, <3>2
  <2>3. ASSUME NEW m \in c.maxRisk PROVE risk.score < m
    <3>1. PICK n \in d.maxRisk : n <= m
      BY <1>3 DEF MaxSubsumes
    <3>2. risk.score < n
      BY <1>5 DEF RiskMatches
    <3> QED BY <1>4, <1>6, <3>1, <3>2
  <2>4. ASSUME NEW m \in c.minConfidence PROVE risk.confidence >= m
    <3>1. PICK n \in d.minConfidence : n >= m
      BY <1>3 DEF MinSubsumes
    <3>2. risk.confidence >= n
      BY <1>5 DEF RiskMatches
    <3> QED BY <1>4, <1>6, <3>1, <3>2
  <2> QED BY <2>1, <2>2, <2>3, <2>4 DEF RiskMatches
<1>12. TargetMatches(c, Observe(e))
  BY <1>3, <1>5 DEF TargetMatches, SetSubsumes
<1>13. Matches(c, e, result, risk, task)
  BY <1>8, <1>9, <1>10, <1>11, <1>12 DEF Matches
<1> QED BY <1>7, <1>13 DEF c

LEMMA AnythingMatches ==
  \A e, result, risk, task : Matches(Anything, e, result, risk, task)
BY DEF Anything, Matches, Allows, CapabilityMatches, HasViolation, RiskMatches, TargetMatches

\* What the linter says of one decision: the rule it names is none of those that
\* were accused, and not the default where that was called dead.
LintAgrees(rules, d) ==
  /\ d.rule \notin Accused(rules) \ Innocent(rules)
  /\ DefaultActionIssues(rules) # {} => d.rule # DefaultRuleID

LEMMA FirstIsNotAccused ==
  ASSUME NEW c \in Configs, NEW mode, NEW e, NEW result, NEW risk, NEW task,
         Comparable(e, result, risk), NEW d,
         d.rule = Evaluate(c.rules, c.defaultAction, mode, e, result, risk, task).rule
  PROVE  LintAgrees(c.rules, d)
<1> DEFINE matching == Eligible(c.rules, mode, e, result, risk, task)
<1>1. /\ matching \subseteq DOMAIN c.rules
      /\ matching = {} => d.rule = DefaultRuleID
      /\ matching # {} => /\ d.rule \in matching
                          /\ \A j \in matching \ {d.rule} : Before(c.rules, d.rule, j)
  BY FirstDecides
<1>2. /\ DOMAIN c.rules = 1..Len(c.rules) /\ Len(c.rules) \in Nat
      /\ \A i \in DOMAIN c.rules : IsRule(c.rules[i])
  BY ConfigsAssumption
<1>3. \A i \in DOMAIN c.rules :
        i \in matching <=> /\ c.rules[i].enabled /\ ModeApplies(c.rules[i], mode)
                           /\ Matches(c.rules[i].match, e, result, risk, task)
  BY DEF Eligible
<1> HIDE DEF matching
<1>4. PICK rules, rule : rules = c.rules /\ rule = d.rule
  OBVIOUS
<1>5. \A i \in DOMAIN rules : i \in Nat /\ rules[i].priority \in Int
  BY <1>2, <1>4 DEF IsRule
<1>6. \A issue \in DefaultActionIssues(rules) : issue.severity = Medium
  BY DEF DefaultActionIssues, Issue
<1>7. ASSUME NEW issue \in LintRuleSet(rules), issue.severity # Medium, issue.rule = rule,
             rule \notin Innocent(rules)
      PROVE  FALSE
  <2>1. PICK i \in DOMAIN rules : issue \in LintRule(rules[i], i) \cup ReachabilityIssues(rules, i)
    <3> DEFINE of(i) == LintRule(rules[i], i) \cup ReachabilityIssues(rules, i)
    <3>1. LintRuleSet(rules) = (UNION {of(i) : i \in DOMAIN rules}) \cup DefaultActionIssues(rules)
      BY DEF LintRuleSet
    <3>2. issue \notin DefaultActionIssues(rules)
      BY <1>6, <1>7
    <3> HIDE DEF of
    <3>3. \E i \in DOMAIN rules : issue \in of(i)
      BY <1>7, <3>1, <3>2
    <3> QED BY <3>3 DEF of
  <2>2. issue.rule = i
    <3>1. \A x \in LintRule(rules[i], i) : x.rule = i
      BY DEF LintRule, PatternIssues, Issue
    <3>2. \A x \in ReachabilityIssues(rules, i) : x.rule = i
      BY DEF ReachabilityIssues, Issue
    <3> QED BY <2>1, <3>1, <3>2
  <2>3. rule = i /\ i # DefaultRuleID
    BY <1>2, <1>4, <1>7, <2>2 DEF DefaultRuleID
  <2>4. /\ i \in matching /\ \A j \in matching \ {i} : Before(rules, i, j)
    BY <1>1, <1>4, <2>3
  <2>5. /\ IsRule(rules[i]) /\ rules[i].enabled /\ ModeApplies(rules[i], mode)
        /\ Matches(rules[i].match, e, result, risk, task)
    BY <1>2, <1>3, <1>4, <2>4
  <2>6. CASE issue \in LintRule(rules[i], i) /\ ReachabilityIssues(rules, i) = {}
    <3>1. CASE ~PartlyUnknown(rules[i].match)
      BY <1>7, <2>5, <2>6, <3>1, ImpossibleRuleNeverMatches
    <3>2. CASE EmptyRiskRange(rules[i].match)
      BY <2>5, <3>2, EmptyRangeNeverMatches DEF Matches
    <3>3. CASE KindsOutsideDomains(rules[i].match)
      BY <2>5, <3>3 DEF KindsOutsideDomains, Matches, CapabilityMatches, Allows
    <3>4. i \notin Innocent(rules)
      BY <1>7, <2>3
    <3> QED BY <2>6, <3>1, <3>2, <3>3, <3>4 DEF Innocent
  <2>7. CASE ReachabilityIssues(rules, i) # {}
    <3>1. PICK j \in DOMAIN rules : Shadows(rules, j, i)
      BY <2>7, Zenon DEF ReachabilityIssues
    <3>2. rules[j].enabled /\ Before(rules, j, i) /\ Subsumes(rules[j], rules[i]) /\ IsRule(rules[j])
      BY <1>2, <1>4, <3>1 DEF Shadows
    <3>3. ModeApplies(rules[j], mode) /\ Matches(rules[j].match, e, result, risk, task)
      BY <2>5, <3>2, WiderMatches
    <3>4. j \in matching
      BY <1>3, <1>4, <3>2, <3>3
    <3>5. j # i /\ ~Before(rules, i, j)
      BY <1>5, <3>2 DEF Before
    <3> QED BY <2>4, <3>4, <3>5
  <2> QED BY <2>1, <2>6, <2>7
<1>8. ASSUME DefaultActionIssues(rules) # {} PROVE rule # DefaultRuleID
  <2>1. PICK i \in DOMAIN rules : /\ rules[i].enabled /\ rules[i].modes = {}
                                  /\ MatchesEverything(rules[i].match)
    BY <1>8 DEF DefaultActionIssues
  <2>2. ModeApplies(rules[i], mode) /\ Matches(rules[i].match, e, result, risk, task)
    BY <2>1, AnythingMatches DEF ModeApplies, Allows, MatchesEverything
  <2>3. i \in matching
    BY <1>3, <1>4, <2>1, <2>2
  <2> QED BY <1>1, <1>2, <1>4, <2>3 DEF DefaultRuleID
<1>9. LintAgrees(rules, d)
  BY <1>4, <1>7, <1>8 DEF LintAgrees, Accused
<1> QED BY <1>4, <1>9

Linted ==
  /\ Bounded
  /\ \A n \in DOMAIN log : ~log[n].failed => LintAgrees(config.rules, log[n].decision)

LEMMA LintedStep == Linted /\ [Next]_vars => Linted'
<1> SUFFICES ASSUME Linted, [Next]_vars PROVE Linted'
  OBVIOUS
<1>1. Bounded /\ Bounded' /\ Tallied
  BY BoundedStep DEF Linted, Bounded
<1>2. ASSUME NEW failing \in Stages \cup {"none"},
             NEW k, NEW e, NEW result, NEW risk, NEW outcome, NEW decision,
             Processed(k, e, failing, result, risk, outcome, decision)
      PROVE  Linted'
  <2>1. ASSUME failing = "none" PROVE LintAgrees(config.rules, decision)
    <3>1. config \in Configs
      BY <1>1 DEF Tallied, Ledgered
    <3>2. /\ result = Validate(config.envelope, e, Budgets, now)
          /\ risk = Score(config.oracle, e, result, Past(e)) /\ e.kind \in Kinds
          /\ outcome = Evaluate(config.rules, config.defaultAction, config.mode, e, result, risk,
                                config.envelope.task)
          /\ decision = Finalize(result, risk, outcome)
      BY <1>2, <2>1 DEF Processed
    <3>3. SoundResult(result)
      BY <3>1, <3>2, ValidationIsSound
    <3>4. Past(e).violations \in Nat
      BY <1>1 DEF Past, Bounded, IsTallies
    <3>5. risk.score \in 0..100 /\ risk.confidence \in 0..10 /\ risk.level \in Levels
      <4>1. PICK past : past = Past(e)
        OBVIOUS
      <4> QED BY <3>2, <3>3, <3>4, <4>1, RiskIsBounded
    <3>6. Comparable(e, result, risk)
      BY <3>2, <3>3, <3>5 DEF Comparable
    <3>7. decision.rule = outcome.rule
      BY <3>2 DEF Finalize
    <3> PICK c, d, mode, task : /\ c = config /\ d = decision
                                /\ mode = config.mode /\ task = config.envelope.task
      OBVIOUS
    <3>8. c \in Configs
      BY <3>1
    <3>9. d.rule = Evaluate(c.rules, c.defaultAction, mode, e, result, risk, task).rule
      BY <3>2, <3>7
    <3>10. LintAgrees(c.rules, d)
      BY ONLY <3>6, <3>8, <3>9, FirstIsNotAccused
    <3> QED BY <3>10
  <2>2. ASSUME NEW n \in 1..k + 1, ~log'[n].failed
        PROVE  LintAgrees(config'.rules, log'[n].decision)
    <3>1. config' = config /\ k \in Nat
      BY <1>2 DEF Processed
    <3>2. CASE n \in 1..k
      <4>1. log'[n] = log[n] /\ n \in DOMAIN log
        BY <1>2, <3>2 DEF Processed
      <4>2. LintAgrees(config.rules, log[n].decision)
        BY <2>2, <4>1 DEF Linted
      <4> QED BY <3>1, <4>1, <4>2
    <3>3. CASE n = k + 1
      <4>1. log'[n].failed = (failing # "none") /\ log'[n].decision = decision
        BY <1>2, <3>3 DEF Processed
      <4> QED BY <2>1, <2>2, <3>1, <4>1
    <3> QED BY <3>1, <3>2, <3>3
  <2>3. DOMAIN log' = 1..k + 1
    BY <1>2 DEF Processed
  <2> QED BY <1>1, <2>2, <2>3 DEF Linted
<1>3. CASE UNCHANGED <<config, log>>
  BY <1>1, <1>3 DEF Linted
<1> QED BY <1>1, <1>2, <1>3, StepsAreTwo

\* No rule that the linter calls impossible, or shadowed by an earlier one, decides
\* an event, and the default action it calls dead is never taken, for any envelope,
\* any events and any rules but those of which it is wrong: a rule it calls impossible
\* for an unknown value among known ones, and for no empty range, no domain and no
\* earlier rule besides, is not shown to be dead, and may decide.
\* lint.go, lintClosedSets, lintRiskRange, lintReachability and lintDefaultAction.
THEOREM LintedRulesAreDead == Spec => []LintIsSound
<1>1. Init => Linted
  <2> SUFFICES ASSUME Init PROVE Linted
    OBVIOUS
  <2>1. DOMAIN log = {}
    BY DEF Init
  <2> QED BY <2>1, BoundedInit DEF Linted
<1>2. Linted => LintIsSound
  <2> SUFFICES ASSUME Linted, NEW n \in DOMAIN log, ~log[n].failed
               PROVE  log[n].decision.rule \notin DeadRules[config]
    BY DEF LintIsSound
  <2>1. config \in Configs
    BY DEF Linted, Bounded, Tallied, Ledgered
  <2>2. LintAgrees(config.rules, log[n].decision)
    BY DEF Linted
  <2> QED BY <2>1, <2>2 DEF LintAgrees, DeadRules
<1> QED BY <1>1, <1>2, LintedStep, PTL DEF Spec
-----------------------------------------------------------------------------
\* What the risk engine reads of the past is what the log says of it.

\* The operators of ScoredOnThePast, of a log that is given.
NamedIn(l, n) == {m \in 1..n - 1 : HasTarget(Observe(l[m].event))}
KeysOf(l, M) == {TargetKey(l[m].event) : m \in M}
RememberedIn(l, n) ==
  KeysOf(l, {m \in NamedIn(l, n) :
               Cardinality(KeysOf(l, {j \in NamedIn(l, n) : j < m})) < MaxSeenTargets})
DepartedIn(l, n) == {m \in 1..n - 1 : l[m].decision.verdict # "within_envelope"}
ReadsIn(l, oracle, n) ==
  {m \in ((n - Least(SequenceWindow, HistorySize))..n - 1) \cap DOMAIN l :
     IsAccess(oracle, l[m].event)}

ScoreAgrees(l, oracle, n) ==
  LET e == l[n].event
      obs == Observe(e)
      risk == l[n].decision.risk
  IN IF l[n].result.verdict = "within_envelope" THEN risk.score = 0
     ELSE /\ risk.factors.novel_target > 0
               <=> HasTarget(obs) /\ TargetKey(e) \notin RememberedIn(l, n)
          /\ risk.factors.credential_access_egress > 0
               <=> IsEgress(obs.kind) /\ ReadsIn(l, oracle, n) # {}
          /\ risk.factors.violation_history = Least(10, Cardinality(DepartedIn(l, n)))

\* One log goes on from another: it has one more entry.
GoesOn(l, g, k) ==
  /\ k \in Nat /\ DOMAIN l = 1..k /\ DOMAIN g = 1..k + 1
  /\ \A m \in 1..k : g[m] = l[m]

LEMMA PastIsSettled ==
  ASSUME NEW l, NEW g, NEW k, GoesOn(l, g, k), NEW n \in 1..k + 1
  PROVE  /\ NamedIn(g, n) = NamedIn(l, n)
         /\ \A M \in SUBSET (1..k) : KeysOf(g, M) = KeysOf(l, M)
         /\ RememberedIn(g, n) = RememberedIn(l, n)
         /\ DepartedIn(g, n) = DepartedIn(l, n)
         /\ \A oracle : ReadsIn(g, oracle, n) = ReadsIn(l, oracle, n)
<1>1. k \in Nat /\ \A m \in 1..n - 1 : m \in 1..k /\ g[m] = l[m]
  BY DEF GoesOn
<1>2. NamedIn(g, n) = NamedIn(l, n) /\ NamedIn(l, n) \subseteq 1..k
  BY <1>1 DEF NamedIn
<1>3. DepartedIn(g, n) = DepartedIn(l, n)
  BY <1>1 DEF DepartedIn
<1>4. \A M \in SUBSET (1..k) : KeysOf(g, M) = KeysOf(l, M)
  <2> TAKE M \in SUBSET (1..k)
  <2>1. \A m \in M : g[m] = l[m]
    BY DEF GoesOn
  <2> QED BY <2>1 DEF KeysOf
<1>5. RememberedIn(g, n) = RememberedIn(l, n)
  <2> DEFINE named == NamedIn(l, n)
             kept(h) == {m \in named : Cardinality(KeysOf(h, {j \in named : j < m})) < MaxSeenTargets}
  <2>1. \A m \in named : KeysOf(g, {j \in named : j < m}) = KeysOf(l, {j \in named : j < m})
    <3> TAKE m \in named
    <3>1. {j \in named : j < m} \in SUBSET (1..k)
      BY <1>2
    <3> QED BY <1>4, <3>1
  <2>2. kept(g) = kept(l)
    BY <2>1
  <2>3. kept(l) \in SUBSET (1..k)
    BY <1>2
  <2>4. RememberedIn(g, n) = KeysOf(g, kept(g)) /\ RememberedIn(l, n) = KeysOf(l, kept(l))
    BY <1>2 DEF RememberedIn
  <2> HIDE DEF kept
  <2> QED BY <1>4, <2>2, <2>3, <2>4
<1>6. ASSUME NEW oracle PROVE ReadsIn(g, oracle, n) = ReadsIn(l, oracle, n)
  <2> DEFINE first == n - Least(SequenceWindow, HistorySize)
             window(h) == (first..n - 1) \cap DOMAIN h
  <2>1. first \in Int
    BY SequenceWindowAssumption, HistorySizeAssumption DEF Least
  <2>2. window(g) = window(l) /\ \A m \in window(l) : g[m] = l[m]
    <3> HIDE DEF first
    <3> QED BY <1>1, <2>1 DEF GoesOn
  <2>3. /\ ReadsIn(g, oracle, n) = {m \in window(g) : IsAccess(oracle, g[m].event)}
        /\ ReadsIn(l, oracle, n) = {m \in window(l) : IsAccess(oracle, l[m].event)}
    BY DEF ReadsIn
  <2> HIDE DEF window
  <2> QED BY <2>2, <2>3
<1> QED BY <1>2, <1>3, <1>4, <1>5, <1>6

LEMMA ScoresAreSettled ==
  ASSUME NEW l, NEW g, NEW k, GoesOn(l, g, k), NEW n \in 1..k, NEW oracle,
         ScoreAgrees(l, oracle, n)
  PROVE  ScoreAgrees(g, oracle, n)
<1>1. n \in 1..k + 1 /\ g[n] = l[n]
  BY DEF GoesOn
<1>2. /\ RememberedIn(g, n) = RememberedIn(l, n)
      /\ DepartedIn(g, n) = DepartedIn(l, n)
      /\ ReadsIn(g, oracle, n) = ReadsIn(l, oracle, n)
  BY <1>1, PastIsSettled
<1> QED BY <1>1, <1>2 DEF ScoreAgrees

\* What has a target was observed, as an event of its own kind.
LEMMA NamedIsObserved ==
  ASSUME NEW e, e.kind \in Kinds, HasTarget(Observe(e))
  PROVE  Observe(e).kind = e.kind /\ TargetKey(e) = <<Observe(e).kind, TargetOf(Observe(e))>>
<1> DEFINE of == [Unobservable EXCEPT !.kind = e.kind]
<1>1. Observe(e).kind = e.kind \/ Observe(e) = Unobservable
  <2> DEFINE good(obs) == obs.kind = e.kind \/ obs = Unobservable
  <2>1. of.kind = e.kind
    BY DEF Unobservable
  <2> HIDE DEF of
  <2>2. /\ \A x : [of EXCEPT !.target = x].kind = e.kind
        /\ \A x, y : [of EXCEPT !.target = x, !.argv = y].kind = e.kind
        /\ \A x, y, z : [of EXCEPT !.hosts = x, !.protocol = y, !.port = z].kind = e.kind
    BY <2>1
  <2>3. /\ good(Unobservable)
        /\ \A x : good([of EXCEPT !.target = x])
        /\ \A x, y : good([of EXCEPT !.target = x, !.argv = y])
        /\ \A x, y, z : good([of EXCEPT !.hosts = x, !.protocol = y, !.port = z])
    <3>1. good(Unobservable)
      OBVIOUS
    <3>2. \A obs : obs.kind = e.kind => good(obs)
      OBVIOUS
    <3> HIDE DEF good
    <3>3. \A x : good([of EXCEPT !.target = x])
      BY <2>2, <3>2
    <3>4. \A x, y : good([of EXCEPT !.target = x, !.argv = y])
      BY <2>2, <3>2
    <3>5. ASSUME NEW x, NEW y, NEW z
          PROVE  good([of EXCEPT !.hosts = x, !.protocol = y, !.port = z])
      <4>1. [of EXCEPT !.hosts = x, !.protocol = y, !.port = z].kind = e.kind
        BY <2>2
      <4> QED BY <3>2, <4>1
    <3> QED BY <3>1, <3>3, <3>4, <3>5
  <2> HIDE DEF good
  <2>4. good(Observe(e))
    BY ONLY <2>3, Zenon DEF Observe, of
  <2> QED BY <2>4 DEF good
<1>2. ~HasTarget(Unobservable)
  <2>1. DomainOf("") = ""
    BY DEF DomainOf, FilesystemKinds, ProcessKinds, NetworkKinds, PrivilegeKinds, IPCKinds, KernelKinds
  <2>2. Unobservable.kind = "" /\ Unobservable.target = NoTarget
    BY DEF Unobservable
  <2> QED BY <2>1, <2>2 DEF HasTarget, TargetOf
<1>3. Observe(e).kind = e.kind
  BY <1>1, <1>2
<1>4. e.kind # ""
  BY DEF Kinds, FilesystemKinds, ProcessKinds, NetworkKinds, PrivilegeKinds, IPCKinds, KernelKinds
<1> QED BY <1>3, <1>4 DEF TargetKey, CountedKind

\* markSeen: the targets remembered are those of the first events that named one,
\* and all of them while there is room.
Memory(l, n, seen) ==
  /\ seen = RememberedIn(l, n)
  /\ seen \subseteq KeysOf(l, NamedIn(l, n))
  /\ Cardinality(seen) < MaxSeenTargets => seen = KeysOf(l, NamedIn(l, n))

LEMMA MemoryGoesOn ==
  ASSUME NEW l, NEW g, NEW k, GoesOn(l, g, k), NEW seen, Memory(l, k + 1, seen),
         NEW e, e = g[k + 1].event, NEW more,
         more = IF HasTarget(Observe(e)) /\ Cardinality(seen) < MaxSeenTargets
                THEN seen \cup {TargetKey(e)} ELSE seen,
         IsFiniteSet(more)
  PROVE  Memory(g, k + 2, more)
<1> DEFINE named == NamedIn(l, k + 1)
           all == KeysOf(l, named)
           one == IF HasTarget(Observe(e)) THEN {k + 1} ELSE {}
           room(h, known, m) ==
             Cardinality(KeysOf(h, {j \in known : j < m})) < MaxSeenTargets
           kept == {m \in named : room(l, named, m)}
<1>1. k \in Nat /\ k + 1 \in 1..k + 1 /\ k + 1 - 1 = k /\ k + 2 - 1 = k + 1
  BY DEF GoesOn
<1>2. named = {m \in 1..k : HasTarget(Observe(l[m].event))} /\ named \in SUBSET (1..k)
  BY <1>1 DEF NamedIn
<1>3. NamedIn(g, k + 2) = named \cup one
  <2>1. NamedIn(g, k + 2) = {m \in 1..k + 1 : HasTarget(Observe(g[m].event))}
    BY <1>1 DEF NamedIn
  <2>2. 1..k + 1 = 1..k \cup {k + 1} /\ \A m \in 1..k : g[m] = l[m]
    BY <1>1 DEF GoesOn
  <2> QED BY <1>2, <2>1, <2>2
<1>4. \A M \in SUBSET (1..k) : KeysOf(g, M) = KeysOf(l, M)
  BY <1>1, PastIsSettled
<1>5. \A M : KeysOf(g, M \cup one) = KeysOf(g, M) \cup
               (IF HasTarget(Observe(e)) THEN {TargetKey(e)} ELSE {})
  BY DEF KeysOf
<1>6. /\ seen = KeysOf(l, kept) /\ seen \subseteq all
      /\ Cardinality(seen) < MaxSeenTargets => seen = all
  <2>1. RememberedIn(l, k + 1) = KeysOf(l, kept)
    BY DEF RememberedIn
  <2> QED BY <2>1 DEF Memory
<1>7. IsFiniteSet(all)
  <2>1. IsFiniteSet(named)
    <3>1. IsFiniteSet(1..k)
      BY <1>1, FS_Interval
    <3> QED BY <1>2, <3>1, FS_Subset
  <2> HIDE DEF named
  <2> DEFINE f == [m \in named |-> TargetKey(l[m].event)]
  <2>2. PICK T : f \in [named -> T]
    <3>1. f \in [named -> {TargetKey(l[m].event) : m \in named}]
      OBVIOUS
    <3> QED BY <3>1
  <2>3. \A u \in all : \E m \in named : u = f[m]
    BY DEF KeysOf
  <2> HIDE DEF f, all
  <2> QED BY ONLY <2>1, <2>2, <2>3, FiniteImage
<1>8. Cardinality(all) < MaxSeenTargets <=> Cardinality(seen) < MaxSeenTargets
  <2>1. IsFiniteSet(seen) /\ Cardinality(seen) <= Cardinality(all)
    BY <1>6, <1>7, FS_Subset
  <2>2. Cardinality(all) \in Nat /\ Cardinality(seen) \in Nat
    BY <1>7, <2>1, FS_CardinalityType
  <2> QED BY <1>6, <2>1, <2>2, MaxSeenTargetsAssumption
<1>9. {m \in named \cup one : room(g, named \cup one, m)}
        = kept \cup (IF Cardinality(all) < MaxSeenTargets THEN one ELSE {})
  <2>1. ASSUME NEW m \in named PROVE room(g, named \cup one, m) <=> room(l, named, m)
    <3>1. {j \in named \cup one : j < m} = {j \in named : j < m}
      BY <1>1, <1>2, <2>1
    <3>2. {j \in named : j < m} \in SUBSET (1..k)
      BY <1>2
    <3> HIDE DEF named, one
    <3> QED BY <1>4, <3>1, <3>2
  <2>2. room(g, named \cup one, k + 1) <=> Cardinality(all) < MaxSeenTargets
    <3>1. {j \in named \cup one : j < k + 1} = named
      BY <1>1, <1>2
    <3> HIDE DEF named, one
    <3> QED BY <1>2, <1>4, <3>1
  <2>3. one \subseteq {k + 1}
    OBVIOUS
  <2> HIDE DEF room, all, named, one
  <2> QED BY <2>1, <2>2, <2>3
<1>10. more = RememberedIn(g, k + 2)
  <2>1. RememberedIn(g, k + 2)
          = KeysOf(g, kept \cup (IF Cardinality(all) < MaxSeenTargets THEN one ELSE {}))
    <3>1. RememberedIn(g, k + 2) = KeysOf(g, {m \in named \cup one : room(g, named \cup one, m)})
      <4> HIDE DEF named, one
      <4> QED BY <1>3 DEF RememberedIn
    <3> QED BY <1>9, <3>1
  <2>2. KeysOf(g, kept) = seen
    BY <1>2, <1>4, <1>6
  <2> HIDE DEF kept, all, one
  <2>3. CASE Cardinality(all) < MaxSeenTargets
    BY <1>5, <1>8, <2>1, <2>2, <2>3
  <2>4. CASE ~(Cardinality(all) < MaxSeenTargets)
    BY <1>8, <2>1, <2>2, <2>4
  <2> QED BY <2>3, <2>4
<1>11. KeysOf(g, NamedIn(g, k + 2)) = all \cup (IF HasTarget(Observe(e)) THEN {TargetKey(e)} ELSE {})
  <2> HIDE DEF one
  <2> QED BY <1>2, <1>3, <1>4, <1>5
<1> HIDE DEF all, named, one, kept
<1>12. more \subseteq KeysOf(g, NamedIn(g, k + 2))
  BY <1>6, <1>11
<1>13. Cardinality(more) < MaxSeenTargets => Cardinality(seen) < MaxSeenTargets
  <2>1. seen \subseteq more
    OBVIOUS
  <2>2. IsFiniteSet(seen) /\ Cardinality(seen) <= Cardinality(more)
    BY <2>1, FS_Subset
  <2>3. Cardinality(more) \in Nat /\ Cardinality(seen) \in Nat
    BY <2>2, FS_CardinalityType
  <2> QED BY <2>2, <2>3, MaxSeenTargetsAssumption
<1>14. Cardinality(more) < MaxSeenTargets => more = KeysOf(g, NamedIn(g, k + 2))
  BY <1>6, <1>11, <1>13
<1> QED BY <1>10, <1>12, <1>14 DEF Memory

\* push: the ring holds the last events, the one before its next place first.
LEMMA Wraps ==
  ASSUME NEW n \in Nat \ {0}, NEW x \in 0..n - 1
  PROVE  x % n = x /\ (x + n) % n = x
OBVIOUS

Ringed(h, l, k) ==
  /\ h.length = Least(k, HistorySize)
  /\ \A j \in 1..h.length : h.ring[(h.next - j + HistorySize) % HistorySize] = l[k - j + 1].event

\* Where the j-th event before the next place is.
LEMMA PlaceBefore ==
  ASSUME NEW next \in 0..HistorySize - 1, NEW j \in 1..HistorySize
  PROVE  (next - j + HistorySize) % HistorySize
           = IF next - j >= 0 THEN next - j ELSE next - j + HistorySize
<1>1. HistorySize \in Nat \ {0}
  BY HistorySizeAssumption
<1>2. CASE next - j >= 0
  <2>1. next - j \in 0..HistorySize - 1
    BY <1>1, <1>2
  <2> QED BY <1>1, <1>2, <2>1, Wraps
<1>3. CASE ~(next - j >= 0)
  <2>1. next - j + HistorySize \in 0..HistorySize - 1
    BY <1>1, <1>3
  <2> QED BY <1>1, <1>3, <2>1, Wraps
<1> QED BY <1>2, <1>3

LEMMA RingGoesOn ==
  ASSUME NEW h, IsHistory(h), NEW l, NEW g, NEW k, GoesOn(l, g, k), Ringed(h, l, k),
         NEW e, e = g[k + 1].event, NEW r,
         r.ring = [h.ring EXCEPT ![h.next] = e],
         r.next = (h.next + 1) % HistorySize,
         r.length = IF h.length < HistorySize THEN h.length + 1 ELSE h.length
  PROVE  Ringed(r, g, k + 1)
<1>1. HistorySize \in Nat \ {0} /\ k \in Nat
  BY HistorySizeAssumption DEF GoesOn
<1>2. PICK n \in Nat \ {0} : n = HistorySize
  BY <1>1
<1>3. PICK next \in 0..n - 1, length \in 0..n : next = h.next /\ length = h.length
  BY <1>2 DEF IsHistory
<1>4. r.next = IF next + 1 < n THEN next + 1 ELSE 0
  <2>1. CASE next + 1 < n
    BY <1>2, <1>3, <2>1, Wraps
  <2>2. CASE ~(next + 1 < n)
    <3>1. next + 1 = 0 + n /\ 0 \in 0..n - 1
      BY <2>2
    <3> QED BY <1>2, <1>3, <2>2, <3>1, Wraps
  <2> QED BY <2>1, <2>2
<1>5. /\ length = Least(k, n)
      /\ \A j \in 1..length : h.ring[(next - j + n) % n] = l[k - j + 1].event
  BY <1>2, <1>3 DEF Ringed
<1>6. r.length = Least(k + 1, n)
  BY <1>1, <1>2, <1>3, <1>5 DEF Least
<1>7. \A x \in 0..n - 1 : r.ring[x] = IF x = next THEN e ELSE h.ring[x]
  BY <1>2, <1>3 DEF IsHistory
<1>8. ASSUME NEW j \in 1..r.length
      PROVE  r.ring[(r.next - j + n) % n] = g[k + 1 - j + 1].event
  <2>1. j \in 1..n /\ r.next \in 0..n - 1
    BY <1>1, <1>4, <1>6 DEF Least
  <2>2. (r.next - j + n) % n = IF r.next - j >= 0 THEN r.next - j ELSE r.next - j + n
    BY <1>2, <2>1, PlaceBefore
  <2>3. CASE j = 1
    <3>1. (r.next - j + n) % n = next
      BY <1>4, <2>2, <2>3
    <3>2. k + 1 - j + 1 = k + 1
      BY <1>1, <2>3
    <3> QED BY <1>7, <3>1, <3>2
  <2>4. CASE j # 1
    <3>1. PICK i \in 1..n : i = j - 1 /\ i \in 1..length /\ i < n
      BY <1>1, <1>3, <1>5, <1>6, <2>1, <2>4 DEF Least
    <3>2. (next - i + n) % n = IF next - i >= 0 THEN next - i ELSE next - i + n
      BY <1>2, <3>1, PlaceBefore
    <3>3. PICK x : x = (r.next - j + n) % n
      OBVIOUS
    <3>4. x = (next - i + n) % n /\ x \in 0..n - 1 /\ x # next
      BY <1>4, <2>1, <2>2, <3>1, <3>2, <3>3
    <3>5. r.ring[x] = l[k - i + 1].event
      BY <1>5, <1>7, <3>1, <3>4
    <3>6. k - i + 1 \in 1..k /\ k + 1 - j + 1 = k - i + 1
      BY <1>1, <1>5, <2>1, <3>1 DEF Least
    <3>7. g[k - i + 1] = l[k - i + 1]
      BY <3>6 DEF GoesOn
    <3> QED BY <3>3, <3>5, <3>6, <3>7
  <2> QED BY <2>3, <2>4
<1>9. \A j \in 1..r.length : r.ring[(r.next - j + n) % n] = g[(k + 1) - j + 1].event
  <2> TAKE j \in 1..r.length
  <2>1. j \in Int /\ k + 1 - j + 1 = (k + 1) - j + 1
    BY <1>1, <1>2, <1>6 DEF Least
  <2> QED BY <1>8, <2>1
<1> QED BY <1>2, <1>6, <1>9 DEF Ringed

\* RecentEvents: the end of the log, as far back as the ring and the window go.
LEMMA RecentIsTheEnd ==
  ASSUME NEW h, IsHistory(h), NEW l, NEW k \in Nat, Ringed(h, l, k)
  PROVE  LET recent == RecentEvents(h, SequenceWindow)
             m == Least(SequenceWindow, Least(k, HistorySize))
         IN /\ DOMAIN recent = 1..m
            /\ \A i \in 1..m : recent[i] = l[k - m + i].event
<1> DEFINE recent == RecentEvents(h, SequenceWindow)
<1>1. PICK n \in Nat \ {0} : n = HistorySize
  BY HistorySizeAssumption
<1>2. PICK next \in 0..n - 1 : next = h.next
  BY <1>1 DEF IsHistory
<1>3. PICK m \in 0..n : m = Least(SequenceWindow, Least(k, n)) /\ m <= k /\ m <= Least(k, n)
  BY <1>1, SequenceWindowAssumption DEF Least
<1>4. /\ h.length = Least(k, n)
      /\ \A j \in 1..h.length : h.ring[(next - j + n) % n] = l[k - j + 1].event
  BY <1>1, <1>2 DEF Ringed
<1>5. recent = [i \in 1..m |-> h.ring[(((next - m + n) % n) + i - 1) % n]]
  BY <1>1, <1>2, <1>3, <1>4 DEF RecentEvents
<1> HIDE DEF recent
<1>6. ASSUME NEW i \in 1..m PROVE recent[i] = l[k - m + i].event
  <2>1. PICK j \in 1..n : j = m - i + 1 /\ j <= m
    BY <1>3
  <2>2. j \in 1..h.length
    BY <1>3, <1>4, <2>1 DEF Least
  <2>3. (next - m + n) % n = IF next - m >= 0 THEN next - m ELSE next - m + n
    <3>1. m \in 1..n
      BY <1>3
    <3> QED BY <1>1, <3>1, PlaceBefore
  <2>4. (next - j + n) % n = IF next - j >= 0 THEN next - j ELSE next - j + n
    BY <1>1, PlaceBefore
  <2>5. PICK x : x = ((next - m + n) % n) + i - 1
    OBVIOUS
  <2>6. x % n = (next - j + n) % n
    <3>1. CASE next - m >= 0
      <4>1. x = next - j /\ x \in 0..n - 1
        BY <2>1, <2>3, <2>5, <3>1
      <4> QED BY <2>4, <4>1, Wraps
    <3>2. CASE ~(next - m >= 0)
      <4>1. x = next - j + n
        BY <2>1, <2>3, <2>5, <3>2
      <4> QED BY <4>1
    <3> QED BY <3>1, <3>2
  <2>7. recent[i] = h.ring[(next - j + n) % n]
    BY <1>5, <2>5, <2>6
  <2>8. k - j + 1 = k - m + i
    BY <1>3, <2>1
  <2> QED BY <1>4, <2>2, <2>7, <2>8
<1>7. DOMAIN recent = 1..m
  BY <1>5
<1> QED BY <1>1, <1>3, <1>6, <1>7 DEF recent

\* credential_access_egress looks at the events before this one, in the window.
LEMMA ReadsAreRecent ==
  ASSUME NEW h, IsHistory(h), NEW l, NEW k \in Nat, Ringed(h, l, k), DOMAIN l = 1..k,
         \A n \in 1..k : l[n].event.id = n, NEW e, e.id = k + 1, NEW oracle
  PROVE  LET recent == RecentEvents(h, SequenceWindow)
         IN (\E i \in DOMAIN recent : recent[i].id # e.id /\ IsAccess(oracle, recent[i]))
              <=> ReadsIn(l, oracle, k + 1) # {}
<1> DEFINE recent == RecentEvents(h, SequenceWindow)
           w == Least(SequenceWindow, HistorySize)
           m == Least(SequenceWindow, Least(k, HistorySize))
<1>1. DOMAIN recent = 1..m /\ \A i \in 1..m : recent[i] = l[k - m + i].event
  BY RecentIsTheEnd
<1>2. /\ w \in Nat \ {0} /\ m \in 0..k
      /\ \A q \in 1..k : q \in ((k + 1) - w)..k <=> q \in (k - m + 1)..k
  BY SequenceWindowAssumption, HistorySizeAssumption DEF Least
<1>3. ReadsIn(l, oracle, k + 1) = {q \in (k - m + 1)..k : IsAccess(oracle, l[q].event)}
  <2>1. (((k + 1) - w)..(k + 1) - 1) \cap DOMAIN l = (k - m + 1)..k
    <3> HIDE DEF w, m
    <3>1. (k + 1) - 1 = k /\ (k - m + 1)..k \subseteq 1..k
      BY <1>2
    <3> QED BY <1>2, <3>1
  <2>2. ReadsIn(l, oracle, k + 1)
          = {q \in (((k + 1) - w)..(k + 1) - 1) \cap DOMAIN l : IsAccess(oracle, l[q].event)}
    BY DEF ReadsIn
  <2> HIDE DEF w, m
  <2> QED BY <2>1, <2>2
<1> HIDE DEF recent, m, w
<1>4. ASSUME NEW i \in 1..m, IsAccess(oracle, recent[i])
      PROVE  ReadsIn(l, oracle, k + 1) # {}
  <2>1. k - m + i \in (k - m + 1)..k
    BY <1>2
  <2>2. IsAccess(oracle, l[k - m + i].event)
    BY <1>1, <1>4
  <2> QED BY <1>3, <2>1, <2>2
<1>5. ASSUME NEW q \in (k - m + 1)..k, IsAccess(oracle, l[q].event)
      PROVE  \E i \in 1..m : recent[i].id # e.id /\ IsAccess(oracle, recent[i])
  <2>1. PICK i \in 1..m : k - m + i = q
    <3>1. m - k + q \in 1..m /\ k - m + (m - k + q) = q
      BY <1>2
    <3> QED BY <3>1
  <2>2. recent[i] = l[q].event
    BY <1>1, <2>1
  <2>3. l[q].event.id = q /\ q # k + 1
    BY <1>2
  <2> QED BY <1>5, <2>2, <2>3
<1>6. (\E i \in DOMAIN recent : recent[i].id # e.id /\ IsAccess(oracle, recent[i]))
        <=> ReadsIn(l, oracle, k + 1) # {}
  BY <1>1, <1>3, <1>4, <1>5
<1> QED BY <1>6 DEF recent

\* A score is in agreement with the log it was made on.
LEMMA NewScoreAgrees ==
  ASSUME NEW l, NEW g, NEW k, GoesOn(l, g, k), NEW h, IsHistory(h),
         \A n \in 1..k : l[n].event.id = n,
         Memory(l, k + 1, h.seen), Ringed(h, l, k),
         NEW e, e.id = k + 1, e.kind \in Kinds, NEW result, SoundResult(result),
         NEW oracle, NEW past,
         past.recent = RecentEvents(h, SequenceWindow), past.seen = h.seen,
         past.violations = Cardinality(DepartedIn(l, k + 1)), past.violations \in Nat,
         NEW risk, risk = Score(oracle, e, result, past),
         g[k + 1].event = e, g[k + 1].result = result, g[k + 1].decision.risk = risk
  PROVE  ScoreAgrees(g, oracle, k + 1)
<1> DEFINE obs == Observe(e)
           f == Charges(oracle, e, result, past)
<1>1. /\ risk.factors = f
      /\ ~Departed(result) => risk.score = 0
  BY RiskIsBounded
<1>2. Departed(result) =>
        /\ f.novel_target = NovelTargetPoints(obs, past.seen)
        /\ f.credential_access_egress = CredentialEgressPoints(oracle, e, obs, past.recent)
        /\ f.violation_history = ViolationHistoryPoints(past.violations)
  BY WhatIsCharged
<1>3. k \in Nat /\ k + 1 \in 1..k + 1 /\ DOMAIN l = 1..k
  BY DEF GoesOn
<1>4. /\ RememberedIn(g, k + 1) = h.seen
      /\ DepartedIn(g, k + 1) = DepartedIn(l, k + 1)
      /\ ReadsIn(g, oracle, k + 1) = ReadsIn(l, oracle, k + 1)
  BY <1>3, PastIsSettled DEF Memory
<1>5. CASE ~Departed(result)
  BY <1>1, <1>5 DEF ScoreAgrees, Departed
<1>6. CASE Departed(result)
  <2>1. risk.factors.novel_target > 0 <=> HasTarget(obs) /\ TargetKey(e) \notin h.seen
    <3>1. risk.factors.novel_target = NovelTargetPoints(obs, h.seen)
      BY <1>1, <1>2, <1>6
    <3>2. HasTarget(obs) => TargetKey(e) = <<obs.kind, TargetOf(obs)>>
      BY NamedIsObserved
    <3> HIDE DEF obs, f
    <3> QED BY <3>1, <3>2 DEF NovelTargetPoints
  <2>2. risk.factors.credential_access_egress > 0
          <=> IsEgress(obs.kind) /\ ReadsIn(l, oracle, k + 1) # {}
    <3>1. risk.factors.credential_access_egress
            = CredentialEgressPoints(oracle, e, obs, past.recent)
      BY <1>1, <1>2, <1>6
    <3>2. (\E i \in DOMAIN past.recent : past.recent[i].id # e.id /\ IsAccess(oracle, past.recent[i]))
            <=> ReadsIn(l, oracle, k + 1) # {}
      BY <1>3, ReadsAreRecent
    <3> HIDE DEF obs, f
    <3> QED BY <3>1, <3>2 DEF CredentialEgressPoints
  <2>3. risk.factors.violation_history = Least(10, Cardinality(DepartedIn(l, k + 1)))
    <3>1. risk.factors.violation_history = Least(past.violations, 10)
      BY <1>1, <1>2, <1>6 DEF ViolationHistoryPoints
    <3>2. Least(past.violations, 10) = Least(10, past.violations)
      BY DEF Least
    <3> QED BY <3>1, <3>2
  <2> HIDE DEF f
  <2>4. g[k + 1].result.verdict # "within_envelope"
    BY <1>6 DEF Departed
  <2> QED BY <1>4, <2>1, <2>2, <2>3, <2>4 DEF ScoreAgrees
<1> QED BY <1>5, <1>6

Recalled ==
  /\ Bounded
  /\ \A n \in DOMAIN log : log[n].event.id = n
  /\ Memory(log, Len(log) + 1, history.seen)
  /\ Ringed(history, log, Len(log))
  /\ tallies.violations = Cardinality(DepartedIn(log, Len(log) + 1))
  /\ \A n \in DOMAIN log : ~log[n].failed => ScoreAgrees(log, config.oracle, n)

LEMMA RecalledByEvent ==
  ASSUME Recalled, Bounded', NEW failing \in Stages \cup {"none"},
         NEW k, NEW e, NEW result, NEW risk, NEW outcome, NEW decision,
         Processed(k, e, failing, result, risk, outcome, decision)
  PROVE  Recalled'
<1>1. PICK l, g, h : l = log /\ g = log' /\ h = history
  OBVIOUS
<1>2. GoesOn(l, g, k) /\ k = Len(log) /\ Len(log') = k + 1
  BY <1>1 DEF Processed, GoesOn
<1>3. k \in Nat /\ DOMAIN l = 1..k /\ DOMAIN g = 1..k + 1 /\ \A m \in 1..k : g[m] = l[m]
  BY <1>2 DEF GoesOn
<1>4. /\ g[k + 1].event = e /\ g[k + 1].failed = (failing # "none") /\ g[k + 1].decision = decision
      /\ e.id = k + 1 /\ e.kind \in Kinds
  BY <1>1 DEF Processed
<1>5. /\ Bounded /\ IsHistory(h) /\ Memory(l, k + 1, h.seen) /\ Ringed(h, l, k)
      /\ \A n \in 1..k : l[n].event.id = n
      /\ tallies.violations = Cardinality(DepartedIn(l, k + 1)) /\ tallies.violations \in Nat
  BY <1>1, <1>2, <1>3 DEF Recalled, Bounded, IsTallies
<1>6. PICK r : r = history'
  OBVIOUS
<1>7. /\ r.seen = IF HasTarget(Observe(e)) /\ Cardinality(h.seen) < MaxSeenTargets
                  THEN h.seen \cup {TargetKey(e)} ELSE h.seen
      /\ r.ring = [h.ring EXCEPT ![h.next] = e]
      /\ r.next = (h.next + 1) % HistorySize
      /\ r.length = IF h.length < HistorySize THEN h.length + 1 ELSE h.length
  <2>1. r = Remember(h, e)
    BY <1>1, <1>6 DEF Processed
  <2> QED BY <1>5, <2>1, RemembersOneMore DEF TargetKey
<1>8. IsFiniteSet(r.seen)
  BY <1>6 DEF Bounded, IsHistory
<1>9. Memory(g, k + 2, r.seen)
  BY <1>2, <1>4, <1>5, <1>7, <1>8, MemoryGoesOn
<1>10. Ringed(r, g, k + 1)
  BY <1>2, <1>4, <1>5, <1>7, RingGoesOn
<1>11. tallies'.violations = Cardinality(DepartedIn(g, k + 2))
  <2>1. tallies'.violations = tallies.violations + Bit(decision.verdict # "within_envelope")
    <3>1. /\ tallies' = TallyAllowed(TallyDecision(tallies, decision), e, decision)
          /\ IsTallies(tallies)
      BY <1>5 DEF Processed, Bounded
    <3> QED BY <3>1, TalliesOneMore
  <2>2. DepartedIn(g, k + 2) = DepartedIn(l, k + 1) \cup
          (IF decision.verdict # "within_envelope" THEN {k + 1} ELSE {})
    <3>1. /\ DepartedIn(g, k + 2) = {m \in 1..k + 1 : g[m].decision.verdict # "within_envelope"}
          /\ DepartedIn(l, k + 1) = {m \in 1..k : l[m].decision.verdict # "within_envelope"}
      BY <1>3 DEF DepartedIn
    <3>2. 1..k + 1 = 1..k \cup {k + 1}
      BY <1>3
    <3> QED BY <1>3, <1>4, <3>1, <3>2
  <2>3. DepartedIn(l, k + 1) \in SUBSET (1..k)
    BY <1>3 DEF DepartedIn
  <2>4. PICK departed \in BOOLEAN : departed = (decision.verdict # "within_envelope")
    OBVIOUS
  <2>5. PICK before, used : before = DepartedIn(l, k + 1) /\ used = tallies.violations
    OBVIOUS
  <2>6. used = Cardinality(before) /\ before \in SUBSET (1..k) /\ k \in Nat
    BY <1>3, <1>5, <2>3, <2>5
  <2>7. used + Bit(departed) = Cardinality(before \cup (IF departed THEN {k + 1} ELSE {}))
    BY ONLY <2>6, departed \in BOOLEAN, CountedBudget
  <2>8. /\ Bit(decision.verdict # "within_envelope") = Bit(departed)
        /\ (IF decision.verdict # "within_envelope" THEN {k + 1} ELSE {})
             = IF departed THEN {k + 1} ELSE {}
    BY <2>4 DEF Bit
  <2> QED BY <2>1, <2>2, <2>5, <2>7, <2>8
<1>12. config' = config
  BY DEF Processed
<1>13. ASSUME failing = "none" PROVE ScoreAgrees(g, config.oracle, k + 1)
  <2>1. PICK past, oracle : past = Past(e) /\ oracle = config.oracle
    OBVIOUS
  <2>2. /\ past.recent = RecentEvents(h, SequenceWindow) /\ past.seen = h.seen
        /\ past.violations = Cardinality(DepartedIn(l, k + 1)) /\ past.violations \in Nat
    BY <1>1, <1>5, <2>1 DEF Past
  <2>3. SoundResult(result)
    <3>1. config \in Configs /\ result = Validate(config.envelope, e, Budgets, now)
      BY <1>5 DEF Bounded, Tallied, Ledgered, Processed
    <3> QED BY <3>1, ValidationIsSound
  <2>4. risk = Score(oracle, e, result, past)
    BY <2>1 DEF Processed
  <2>5. g[k + 1].result = result /\ g[k + 1].decision.risk = risk
    <3>1. g[k + 1].result = result /\ decision = Finalize(result, risk, outcome)
      BY <1>1, <1>13 DEF Processed
    <3> QED BY <1>4, <3>1 DEF Finalize
  <2>6. ScoreAgrees(g, oracle, k + 1)
    BY ONLY <1>2, <1>4, <1>5, <2>2, <2>3, <2>4, <2>5, NewScoreAgrees
  <2> QED BY <2>1, <2>6
<1>14. ASSUME NEW n \in 1..k + 1, ~g[n].failed
       PROVE  ScoreAgrees(g, config'.oracle, n)
  <2>1. CASE n \in 1..k
    <3>1. ScoreAgrees(l, config.oracle, n)
      <4>1. n \in DOMAIN log /\ ~log[n].failed
        BY <1>1, <1>3, <1>14, <2>1
      <4> QED BY <1>1, <4>1 DEF Recalled
    <3> QED BY <1>2, <1>12, <2>1, <3>1, ScoresAreSettled
  <2>2. CASE n = k + 1
    BY <1>4, <1>12, <1>13, <1>14, <2>2
  <2> QED BY <1>3, <2>1, <2>2
<1>15. \A n \in 1..k + 1 : g[n].event.id = n
  <2> TAKE n \in 1..k + 1
  <2>1. n \in 1..k \/ n = k + 1
    BY <1>3
  <2> QED BY <1>3, <1>4, <1>5, <2>1
<1>16. Len(log') + 1 = k + 2
  BY <1>2, <1>3
<1>17. /\ Memory(log', Len(log') + 1, history'.seen)
       /\ Ringed(history', log', Len(log'))
       /\ tallies'.violations = Cardinality(DepartedIn(log', Len(log') + 1))
  BY <1>1, <1>2, <1>6, <1>9, <1>10, <1>11, <1>16
<1>18. /\ \A n \in DOMAIN log' : log'[n].event.id = n
       /\ \A n \in DOMAIN log' : ~log'[n].failed => ScoreAgrees(log', config'.oracle, n)
  BY <1>1, <1>3, <1>14, <1>15
<1> QED BY <1>17, <1>18 DEF Recalled

LEMMA RecalledInit == Init => Recalled
<1> SUFFICES ASSUME Init PROVE Recalled
  OBVIOUS
<1>1. Bounded
  BY BoundedInit
<1>2. DOMAIN log = {} /\ Len(log) = 0
  BY DEF Init
<1>3. IsFiniteSet({}) /\ Cardinality({}) = 0
  BY FS_EmptySet
<1>4. history.seen = {} /\ history.length = 0 /\ tallies.violations = 0
  BY DEF Init, NewHistory, NewTallies
<1>5. NamedIn(log, 0 + 1) = {} /\ DepartedIn(log, 0 + 1) = {}
  BY DEF NamedIn, DepartedIn
<1>6. \A M : M = {} => KeysOf(log, M) = {}
  BY DEF KeysOf
<1>7. RememberedIn(log, 0 + 1) = {}
  BY <1>5, <1>6 DEF RememberedIn
<1>8. Memory(log, Len(log) + 1, history.seen)
  BY <1>2, <1>4, <1>5, <1>6, <1>7 DEF Memory
<1>9. Ringed(history, log, Len(log))
  BY <1>2, <1>4, HistorySizeAssumption DEF Ringed, Least
<1> QED BY <1>1, <1>2, <1>3, <1>4, <1>5, <1>8, <1>9 DEF Recalled

\* A score is about the session as it was before its event: what was covered costs
\* nothing, and a new target, a sensitive read in the window before a step off the
\* host and the violations so far are charged for exactly when the events decided
\* before say so, however long the session, however small the ring and the memory
\* of targets, and whichever stages failed in between.
\* process.go, commit after the stages; score.go, Score; state.go, RecordEvent.
THEOREM ScoresAreOnThePast == Spec => []ScoredOnThePast
<1>1. Recalled /\ [Next]_vars => Recalled'
  <2> SUFFICES ASSUME Recalled, [Next]_vars PROVE Recalled'
    OBVIOUS
  <2>1. Bounded /\ Bounded' /\ Tallied
    BY BoundedStep DEF Recalled, Bounded
  <2>2. ASSUME NEW failing \in Stages \cup {"none"},
               NEW k, NEW e, NEW result, NEW risk, NEW outcome, NEW decision,
               Processed(k, e, failing, result, risk, outcome, decision)
        PROVE  Recalled'
    BY <2>1, <2>2, RecalledByEvent
  <2>3. CASE UNCHANGED <<config, history, tallies, log>>
    BY <2>1, <2>3 DEF Recalled, Memory, Ringed
  <2> QED BY <2>1, <2>2, <2>3, StepsAreTwo
<1>2. Recalled => ScoredOnThePast
  <2> SUFFICES ASSUME Recalled, NEW n \in DOMAIN log, ~log[n].failed
               PROVE  LET e == log[n].event
                          obs == Observe(e)
                          risk == log[n].decision.risk
                          window == (n - Least(SequenceWindow, HistorySize))..n - 1
                      IN IF Within(n) THEN risk.score = 0
                         ELSE /\ risk.factors.novel_target > 0
                                   <=> HasTarget(obs) /\ TargetKey(e) \notin Remembered(n)
                              /\ risk.factors.credential_access_egress > 0
                                   <=> /\ IsEgress(obs.kind)
                                       /\ \E m \in window \cap DOMAIN log :
                                            IsAccess(config.oracle, log[m].event)
                              /\ risk.factors.violation_history
                                   = Least(10, Cardinality({m \in 1..n - 1 :
                                       log[m].decision.verdict # "within_envelope"}))
    BY DEF ScoredOnThePast
  <2>1. ScoreAgrees(log, config.oracle, n)
    BY DEF Recalled
  <2>2. Remembered(n) = RememberedIn(log, n)
    BY DEF Remembered, RememberedIn, NamedIn, KeysOf
  <2>3. ReadsIn(log, config.oracle, n) # {} <=>
          \E m \in ((n - Least(SequenceWindow, HistorySize))..n - 1) \cap DOMAIN log :
            IsAccess(config.oracle, log[m].event)
    BY DEF ReadsIn
  <2> QED BY <2>1, <2>2, <2>3 DEF ScoreAgrees, DepartedIn, Within
<1> QED BY <1>1, <1>2, RecalledInit, PTL DEF Spec
=============================================================================
