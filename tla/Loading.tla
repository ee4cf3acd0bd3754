------------------------------ MODULE Loading ------------------------------
(***************************************************************************)
(* From the kernel object to telemetry that has been shown to report:      *)
(* loader_linux.go and degrade.go, the start of the collector, and the     *)
(* self-test of the daemon (internal/daemon/selftest.go).                  *)
(*                                                                         *)
(* A host is what the kernel answers: a record of                          *)
(*   refuses       sets of families it does not load together: one family  *)
(*                 the verifier refuses, or two that exceed a limit        *)
(*   failsAt       the load that fails for another reason, or 0            *)
(*   failsWith     and the error it fails with                             *)
(*   faults        preconditions that do not hold                          *)
(*   unattachable  programs that load and do not attach                    *)
(*   silent        programs that attach and do not run                     *)
(***************************************************************************)
EXTENDS Probes

\* What Load asks, in its order, before anything reaches the kernel.
Preconditions == <<"cgroup2", "record_layout", "abi_version", "ring_size", "open">>

\* refusal: what leaving a family out can cure.
IsRefusal(err) ==
  err \in {"EACCES", "EPERM", "EINVAL", "E2BIG", "ESRCH", "ENOENT", "EOPNOTSUPP", "ENOTSUPP"}

\* Load number n of the object, with these families left out: "" when it loads.
LoadError(host, out, n) ==
  IF n = host.failsAt THEN host.failsWith
  ELSE IF \E together \in host.refuses : together \cap out = {} THEN "EINVAL" ELSE ""

NotLoaded(reason) == [ok |-> FALSE, reason |-> reason, out |-> {}, loads |-> 0]
Loaded(out, loads) == [ok |-> TRUE, reason |-> "", out |-> out, loads |-> loads]

\* The floor is never among what may be left out.
Droppable == Range(AllFamilies) \ FloorFamilies

\* The places of the families still in, and which of them one is.
StillIn(out) == {i \in DOMAIN AllFamilies : AllFamilies[i] \in Droppable \ out}
Place(out, i) == Cardinality({j \in StillIn(out) : j <= i})

\* withOut: of those still in only the first k are left in.
AllBut(out, k) == out \cup {AllFamilies[i] : i \in {j \in StillIn(out) : Place(out, j) > k}}

\* Nobody looked at the later families once a refused one was found.
DegradeAtOnce(host, first) ==
  LET refused == {k \in 1..Cardinality(Droppable) : LoadError(host, AllBut({}, k), 2) # ""}
      last == CHOOSE k \in refused : \A j \in refused : k <= j
  IN IF LoadError(host, Droppable, 2) # "" THEN NotLoaded(first)
     ELSE Loaded(IF refused = {} THEN {} ELSE AllBut({}, last - 1), 2)

\* Where a search is: the shortest beginning of the families still in that is
\* refused has from lo to hi of them, and this load of the object is next.
Searches ==
  {s \in [out : SUBSET Droppable, lo : Nat, hi : Nat, loads : Nat] :
     s.lo <= s.hi /\ s.hi <= Cardinality(StillIn(s.out))}

SearchFrom(out, loads) ==
  [out |-> out, lo |-> 0, hi |-> Cardinality(StillIn(out)), loads |-> loads]

\* What the next load leaves out: all but the half in question, or, once the
\* beginning is found, its last family and those found before.
Middle(s) == (s.lo + s.hi) \div 2
Probed(s) ==
  IF s.lo < s.hi THEN AllBut(s.out, Middle(s))
  ELSE s.out \cup (AllBut(s.out, s.lo - 1) \ AllBut(s.out, s.lo))

ProbeError(host, s) == LoadError(host, Probed(s), s.loads)

\* The search ends with nothing left to leave out, with a load that fails for a
\* reason that says nothing about a family, or when all the rest loads.
Ended(host, s) ==
  \/ s.hi = 0
  \/ ProbeError(host, s) # "" /\ ~IsRefusal(ProbeError(host, s))
  \/ s.lo = s.hi /\ ProbeError(host, s) = ""

Further(host, s) ==
  IF s.lo = s.hi THEN SearchFrom(Probed(s), s.loads + 1)
  ELSE IF ProbeError(host, s) = "" THEN [s EXCEPT !.lo = Middle(s) + 1, !.loads = @ + 1]
  ELSE [s EXCEPT !.hi = Middle(s), !.loads = @ + 1]

EndOf(host, s, first) ==
  IF s.hi = 0 THEN NotLoaded(first)
  ELSE IF ProbeError(host, s) = "" THEN Loaded(Probed(s), s.loads)
  ELSE NotLoaded(ProbeError(host, s))

\* degradeFamilies: bisects the families still in for the shortest beginning that
\* is refused, leaves its last family out, and goes on until the rest loads.  When
\* nothing but the floor is left and is refused, nothing is left out and nothing
\* governs.
DegradeFamilies(host, first) ==
  LET search[s \in Searches] ==
        IF Ended(host, s) THEN EndOf(host, s, first) ELSE search[Further(host, s)]
  IN IF IsRefusal(first) THEN search[SearchFrom({}, 2)] ELSE NotLoaded(first)

\* Load.
Load(host) ==
  LET broken == {i \in DOMAIN Preconditions : Preconditions[i] \in host.faults}
      first == LoadError(host, {}, 1)
  IN IF broken # {}
     THEN NotLoaded(Preconditions[CHOOSE i \in broken : \A j \in broken : i <= j])
     ELSE IF first = "" THEN Loaded({}, 1) ELSE DegradeFamilies(host, first)

-----------------------------------------------------------------------------
\* attachLocked: every program that was loaded and is enabled; nothing enabled by
\* name enables everything, and the floor is enabled whatever is named.
Enabled(program, named) ==
  named = {} \/ program.family \in named \cup FloorFamilies

Attached(host, load, named) ==
  {p \in AllProbes : /\ Enabled(p, named)
                     /\ p.family \notin load.out
                     /\ p \notin host.unattachable}

NotStarted(reason) == [ok |-> FALSE, reason |-> reason, attached |-> {}]

\* Start, once attached: refuses without the floor or a core kind, and closes what
\* it opened.
Observing(host, attached, coverage) ==
  IF ~coverage.floorIntact THEN NotStarted("floor")
  ELSE IF UnobservableCore(coverage) # {} THEN NotStarted("core")
  ELSE IF "ring" \in host.faults THEN NotStarted("ring")
  ELSE [ok |-> TRUE, reason |-> "", attached |-> attached, coverage |-> coverage]

StartOf(host, attached) == Observing(host, attached, ComputeCoverage(attached))

StartCollector(host, named) ==
  LET load == Load(host)
  IN IF load.ok THEN StartOf(host, Attached(host, load, named)) ELSE NotStarted(load.reason)

\* What may keep the self-test from running at all.
SelfTestFaults == {"prober", "test_cgroup", "adopt", "attach", "release"}

\* SelfTest: a held process in a cgroup of its own opens a path that is not there.
\* Only the pair reports an open that failed, and only while both halves run.
SelfTestPasses(host, attached) ==
  /\ host.faults \cap SelfTestFaults = {}
  /\ Family["openat"].programs \subseteq attached \ host.silent

\* run: what allseerd does before its socket exists, in its order.  Any of it that
\* fails ends the daemon.
BeforeTelemetry ==
  <<"configuration", "preflight", "rules", "sensitivity", "cgroups", "freeze", "base_lock",
    "audit_log">>

Tested(host, collector) ==
  IF ~collector.ok THEN collector
  ELSE IF ~SelfTestPasses(host, collector.attached) THEN NotStarted("self_test")
  ELSE IF "socket" \in host.faults THEN NotStarted("socket")
  ELSE collector

Startup(host, named) ==
  LET failed == {i \in DOMAIN BeforeTelemetry : BeforeTelemetry[i] \in host.faults}
  IN IF failed = {} THEN Tested(host, StartCollector(host, named))
     ELSE NotStarted(BeforeTelemetry[CHOOSE i \in failed : \A j \in failed : i <= j])
=============================================================================
