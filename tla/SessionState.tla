---------------------------- MODULE SessionState ----------------------------
(***************************************************************************)
(* The mutable state of a session: internal/session/state.go, as operators *)
(* on its parts.  One goroutine writes it, the one that processes the      *)
(* session's events, so a record of an event is one step.                  *)
(*                                                                         *)
(* The parts are the counters the validator checks budgets against, the    *)
(* history the risk engine reads, and the tallies a summary is made from.  *)
(***************************************************************************)
EXTENDS Capabilities, Validation, RiskScore

CONSTANTS
  HistorySize,     \* events the ring holds
  MaxSeenTargets,  \* targets remembered, of each session
  MaxUnmatched     \* destinations tallied by name: maxUnmatchedTargets

ASSUME HistorySizeAssumption == HistorySize \in Nat \ {0}
ASSUME MaxSeenTargetsAssumption == MaxSeenTargets \in Nat
ASSUME MaxUnmatchedAssumption == MaxUnmatched \in Nat

-----------------------------------------------------------------------------
\* NewStateWith: the host's clock measures a session that was given its start;
\* the events of a recording measure a session that was not.
NewCounters(startedAt) ==
  [events |-> 0, dropped |-> 0, writes |-> 0, processes |-> 0, bytesSent |-> 0,
   uses |-> [k \in Kinds |-> 0],
   hostClock |-> startedAt # 0, started |-> startedAt, latest |-> 0]

NewHistory ==
  [seen |-> {}, seenFull |-> FALSE, ring |-> [i \in 0..HistorySize - 1 |-> 0], next |-> 0,
   length |-> 0]

NewTallies ==
  [decisions |-> 0, violations |-> 0, tally |-> <<>>, peak |-> 0, unmatched |-> <<>>,
   unmatchedTotal |-> 0]

\* One more under a key, which may be new.
OneMore(tally, key) ==
  [k \in DOMAIN tally \cup {key} |->
     (IF k \in DOMAIN tally THEN tally[k] ELSE 0) + Bit(k = key)]

-----------------------------------------------------------------------------
\* RecordEvent.

\* What it is counted as: what it was observed as, or else what it was decoded as.
CountedKind(e) ==
  LET obs == Observe(e) IN IF obs.kind # "" THEN obs.kind ELSE e.kind

FollowClock(c, clock) ==
  IF clock = 0 THEN c
  ELSE [c EXCEPT !.started = IF @ = 0 THEN clock ELSE @, !.latest = clock]

\* advanceClock: the furthest any event has reached; the first starts a recording.
AdvanceClock(c, clock) ==
  IF clock = 0 THEN c
  ELSE [c EXCEPT !.started = IF @ = 0 THEN clock ELSE @, !.latest = Higher(@, clock)]

\* Counted even when nothing could be observed of it: what cannot be resolved is
\* not free.
Counted(c, kind, e) ==
  [events |-> c.events + 1, dropped |-> c.dropped + e.dropped,
   writes |-> c.writes + Bit(ModifiesFilesystem(kind)),
   processes |-> c.processes + Bit(SpawnsProcess(kind)),
   bytesSent |-> c.bytesSent + e.bytes,
   uses |-> [k \in Kinds |-> c.uses[k] + Bit(k = kind)],
   hostClock |-> c.hostClock, started |-> c.started, latest |-> c.latest]

CountEvent(c, e) == AdvanceClock(Counted(c, CountedKind(e), e), e.clock)

\* markSeen: the set stops growing when it is full, and says so from then on.
MarkSeen(h, key) ==
  IF MaxSeenTargets = 0 \/ key \in h.seen THEN h
  ELSE IF Cardinality(h.seen) >= MaxSeenTargets THEN [h EXCEPT !.seenFull = TRUE]
  ELSE [h EXCEPT !.seen = @ \cup {key}]

\* push: the ring overwrites its oldest.
Push(h, e) ==
  [h EXCEPT !.ring[h.next] = e, !.next = (@ + 1) % HistorySize,
            !.length = IF @ < HistorySize THEN @ + 1 ELSE @]

Remember(h, e) ==
  LET obs == Observe(e)
  IN Push(IF HasTarget(obs) THEN MarkSeen(h, <<CountedKind(e), TargetOf(obs)>>) ELSE h, e)

\* RecentEvents: the last n, the oldest of them first.
RecentEvents(h, n) ==
  LET m == Least(n, h.length)
      start == (h.next - m + HistorySize) % HistorySize
  IN [i \in 1..m |-> h.ring[(start + i - 1) % HistorySize]]

\* ElapsedSeconds.
Elapsed(c, now) ==
  LET end == IF c.hostClock THEN now ELSE c.latest
  IN IF c.started = 0 \/ end <= c.started THEN 0 ELSE end - c.started

-----------------------------------------------------------------------------
\* RecordDecision, and RecordAllowed for a connection that was let through though
\* nothing covered it.
TallyDecision(t, d) ==
  LET departed == d.verdict # "within_envelope"
  IN [t EXCEPT !.decisions = @ + 1, !.violations = @ + Bit(departed),
               !.tally = IF departed THEN OneMore(@, <<d.verdict, d.rule>>) ELSE @,
               !.peak = Higher(@, d.risk.score)]

TallyAllowed(t, e, d) ==
  LET obs == Observe(e)
      key == <<TargetOf(obs), d.verdict>>
  IN IF d.verdict = "within_envelope" \/ d.action \notin {"allow", "warn"}
        \/ obs.kind # "net.connect"
     THEN t
     ELSE [t EXCEPT !.unmatchedTotal = @ + 1,
                    !.unmatched = IF key \in DOMAIN @ \/ Cardinality(DOMAIN @) < MaxUnmatched
                                  THEN OneMore(@, key) ELSE @]

\* RecordGrantUse: an index of no grant is ignored.
SpendGrant(uses, grant) ==
  [i \in DOMAIN uses |-> IF i = grant THEN uses[i] + 1 ELSE uses[i]]
=============================================================================
