------------------------------ MODULE Telemetry ------------------------------
(***************************************************************************)
(* The live collector and what a session learns from it:                   *)
(* internal/telemetry/collector.go over tracker.go, with the probes'       *)
(* kernel side (the tracked cgroups, the ring buffer, its drop counter),   *)
(* the dispatch loop that takes the events, and finish, which detaches a   *)
(* session and reads off whether its telemetry was complete.               *)
(*                                                                         *)
(* The actors are the kernel, the collector's one drain goroutine (which   *)
(* also polls the kernel's drop counter), the handlers that attach, the    *)
(* loop, the grace timers, and Close.  A section under the collector's or  *)
(* the tracker's lock is one action.                                       *)
(*                                                                         *)
(* A session has one cgroup, made for it and never used again (cgroup IDs  *)
(* are not reused within a boot), so the session stands for its cgroup.    *)
(* A record keeps the image its process ran when the probe fired; on the   *)
(* wire only an exec record has it, as its filename.                       *)
(***************************************************************************)
EXTENDS Integers, Sequences, FiniteSets, Functions, ProcTracker

CONSTANTS
  Sessions,           \* sessions, each with a cgroup of its own
  PIDs,               \* the PIDs the kernel hands out, and hands out again
  Images,             \* executables
  RingCap,            \* records the kernel ring holds
  OutCap,             \* Config.EventChannelSize
  MaxStarts,          \* bound: processes started
  MaxRecords          \* bound: records the probes want to emit

ASSUME CapsPositive == RingCap \in Nat \ {0} /\ OutCap \in Nat \ {0}
ASSUME PIDsPositive == PIDs \subseteq Nat \ {0}
ASSUME SessionsFinite == IsFiniteSet(Sessions)
ASSUME BoundsNatural == MaxStarts \in Nat /\ MaxRecords \in Nat

VARIABLES
  alive,      \* the governed processes: <<pid, start>> -> what each is
  starts,     \* how many were started
  tracked,    \* the filter map: sessions whose cgroup the probes report on
  ring,       \* the kernel ring buffer
  drops,      \* the kernel's counter of records it had no room for
  phase,      \* the collector: running, closed, or its goroutine done
  sess,       \* collSession of each session
  hand,       \* what the drain goroutine is at
  lastKernel, \* the drop counter as last polled
  tracker,    \* the process tracker
  stats,      \* the collector's counters
  out,        \* the channel of events
  loop,       \* the dispatch loop: idle, or where in finish, for whom
  dropped,    \* MemoryState.droppedEvents
  ended,      \* Outcome.TelemetryComplete, once the session has ended
  emitted,    \* history only: records the probes wanted to emit
  hist,       \* history only: what was lost, sent and reported per session
  displaced   \* history only: sessions whose awaited root another took over

kernel == <<alive, starts, tracked, ring, drops>>
collector == <<phase, sess, hand, lastKernel, stats, out>>
consumer == <<loop, dropped, ended>>
history == <<emitted, hist, displaced>>
vars == <<kernel, collector, tracker, consumer, history>>

-----------------------------------------------------------------------------
Idle == [at |-> "idle"]

Outside == 0 \* a PID that belongs to no governed process

Held(pid) == {p \in DOMAIN alive : p[1] = pid}

\* Events the goroutine has numbered and not yet delivered.
InHand(s) ==
  IF hand.at \in {"observe", "enrich", "deliver"} /\ hand.rec.session = s THEN 1 ELSE 0

Init ==
  /\ alive = <<>> /\ starts = 0 /\ tracked = {} /\ ring = <<>> /\ drops = 0
  /\ phase = "running"
  /\ sess = [s \in Sessions |-> [st |-> "none", seq |-> 0, pending |-> 0]]
  /\ hand = Idle /\ lastKernel = 0 /\ tracker = NoTracker
  /\ stats = [received |-> 0, decodeErrs |-> 0, kernelDrops |-> 0,
              overflow |-> 0, unattributed |-> 0]
  /\ out = <<>> /\ loop = Idle
  /\ dropped = [s \in Sessions |-> 0]
  /\ ended = [s \in Sessions |-> "no"]
  /\ emitted = 0
  /\ hist = [s \in Sessions |-> [lost |-> 0, sent |-> 0, reported |-> 0]]
  /\ displaced = {}

-----------------------------------------------------------------------------
\* The governed processes.  What they do outside a tracked cgroup no probe
\* reports, so they are followed while they are in one.

Parent(p) ==
  IF alive[p].parent \in DOMAIN alive THEN alive[p].parent[1] ELSE Outside

Record(kind, p, image) ==
  [session |-> alive[p].session, kind |-> kind, proc |-> p,
   ppid |-> Parent(p), image |-> image, gen |-> alive[p].gen]

\* A probe fires: the record goes into the ring, or is counted as dropped.
Emit(r) ==
  /\ emitted < MaxRecords
  /\ emitted' = emitted + 1 /\ UNCHANGED displaced
  /\ IF Len(ring) < RingCap
     THEN /\ ring' = Append(ring, r)
          /\ UNCHANGED <<drops, hist>>
     ELSE /\ drops' = drops + 1
          /\ hist' = [hist EXCEPT ![r.session].lost = @ + 1]
          /\ UNCHANGED ring

Observed(p) == alive[p].session \in tracked

\* A process forks.  No probe reports a fork.
Fork(p, pid) ==
  /\ Observed(p) /\ starts < MaxStarts /\ Held(pid) = {}
  /\ starts' = starts + 1
  /\ alive' = With(alive, <<pid, starts + 1>>,
                  [session |-> alive[p].session, parent |-> p, image |-> alive[p].image,
                   gen |-> alive[p].gen + 1])
  /\ UNCHANGED <<tracked, ring, drops, collector, tracker, consumer, history>>

Exec(p, image) ==
  /\ Observed(p)
  /\ alive' = [alive EXCEPT ![p].image = image]
  /\ Emit(Record("exec", p, image))
  /\ UNCHANGED <<starts, tracked, collector, tracker, consumer>>

\* Any other probe; "garbled" is a record the decoder refuses.
Act(p, kind) ==
  /\ Observed(p)
  /\ Emit(Record(kind, p, alive[p].image))
  /\ UNCHANGED <<alive, starts, tracked, collector, tracker, consumer>>

\* The process exits: its leader, whose exit is what proc_exit reports, is
\* taken to be its last thread.
Exit(p) ==
  /\ Observed(p)
  /\ alive' = Without(alive, {p})
  /\ Emit(Record("exit", p, alive[p].image))
  /\ UNCHANGED <<starts, tracked, collector, tracker, consumer>>

-----------------------------------------------------------------------------
\* An awaited root is known by its PID alone: a root that is given the PID of
\* another one takes its place.
Displaces(s, pid) == {q \in Sessions \ {s} : PendingRoot(tracker, q, <<pid, 0>>)}

\* AttachCgroup, for a held agent in its cgroup: both maps and the root PID
\* are set, then the filter map is written, all under the lock.
Attach(s, pid) ==
  /\ phase = "running" /\ sess[s].st = "none"
  /\ starts < MaxStarts /\ Held(pid) = {}
  /\ starts' = starts + 1
  /\ \E image \in Images :
       alive' = With(alive, <<pid, starts + 1>>,
                    [session |-> s, parent |-> <<Outside, 0>>, image |-> image, gen |-> 0])
  /\ tracked' = tracked \cup {s}
  /\ sess' = [sess EXCEPT ![s].st = "attached"]
  /\ tracker' = TrackRoot(tracker, s, pid)
  /\ displaced' = displaced \cup Displaces(s, pid)
  /\ UNCHANGED <<ring, drops, phase, hand, lastKernel, stats, out, consumer, emitted, hist>>

\* The filter map refuses the cgroup: the session is forgotten again, and its
\* agent is killed before it ran.
AttachFails(s, pid) ==
  /\ phase = "running" /\ sess[s].st = "none"
  /\ starts < MaxStarts /\ Held(pid) = {}
  /\ starts' = starts + 1
  /\ sess' = [sess EXCEPT ![s].st = "gone"]
  /\ tracker' = ForgetSession(TrackRoot(tracker, s, pid), s)
  /\ displaced' = displaced \cup Displaces(s, pid)
  /\ UNCHANGED <<alive, tracked, ring, drops, phase, hand, lastKernel, stats, out,
                 consumer, emitted, hist>>

Received == [stats EXCEPT !.received = @ + 1]

\* handle, to its first unlock: decode, count, attribute by cgroup, number.
Attribute ==
  /\ phase # "done" /\ hand = Idle /\ ring # <<>>
  /\ ring' = Tail(ring)
  /\ LET r == Head(ring) IN
       \/ /\ r.kind = "garbled"
          /\ stats' = [stats EXCEPT !.decodeErrs = @ + 1]
          /\ UNCHANGED <<sess, hand>>
       \/ /\ r.kind # "garbled" /\ sess[r.session].st \in {"none", "gone"}
          /\ stats' = [Received EXCEPT !.unattributed = @ + 1]
          /\ UNCHANGED <<sess, hand>>
       \/ /\ r.kind # "garbled" /\ sess[r.session].st \in {"attached", "detached"}
          /\ stats' = Received
          /\ sess' = [sess EXCEPT ![r.session].seq = @ + 1]
          /\ hand' = [at |-> "observe", rec |-> r, seq |-> sess[r.session].seq + 1,
                      depth |-> 0, image |-> NoImage]
  /\ UNCHANGED <<alive, starts, tracked, drops, phase, lastKernel, tracker, out,
                 consumer, history>>

\* The tracker places the process; an event with no image of its own takes the
\* tracker's.
ObserveProcess ==
  /\ hand.at = "observe"
  /\ LET r == hand.rec IN
       /\ tracker' = Observe(tracker, r.session, r.proc, r.ppid)
       /\ hand' = [hand EXCEPT
            !.at = "enrich",
            !.depth = ObservedDepth(tracker, r.session, r.proc, r.ppid),
            !.image = IF r.kind = "exec" THEN NoImage ELSE Executable(tracker', r.proc)]
  /\ UNCHANGED <<kernel, phase, sess, lastKernel, stats, out, consumer, history>>

\* ExecEnricher: /proc/<pid>/exe as it is now, else the record's filename, else
\* nothing when that is relative.
ExecImages(r) ==
  IF Held(r.proc[1]) # {}
  THEN {alive[p].image : p \in Held(r.proc[1])}
  ELSE {r.image, NoImage}

\* The enrichers run, and the tracker learns of an exec or an exit.
Enrich ==
  /\ hand.at = "enrich"
  /\ LET r == hand.rec IN
       \E image \in IF r.kind = "exec" THEN ExecImages(r) ELSE {hand.image} :
         /\ tracker' = CASE r.kind = "exec" /\ image # NoImage
                              -> SetExecutable(tracker, r.proc, image)
                         [] r.kind = "exit" -> Untrack(tracker, r.proc)
                         [] OTHER -> tracker
         /\ hand' = [hand EXCEPT !.at = "deliver", !.image = image]
  /\ UNCHANGED <<kernel, phase, sess, lastKernel, stats, out, consumer, history>>

Event(h, pending) ==
  [session |-> h.rec.session, seq |-> h.seq, dropped |-> pending]

RoomForOneMore == Len(out) <= OutCap

Room == Len(out) < OutCap

\* The event carries what its session has lost since the one before it.
Send(s) ==
  /\ Room
  /\ out' = Append(out, Event(hand, sess[s].pending))
  /\ sess' = [sess EXCEPT ![s].pending = 0]
  /\ hist' = [hist EXCEPT ![s] = [lost |-> @.lost, sent |-> @.sent + 1,
                                  reported |-> @.reported + sess[s].pending]]
  /\ UNCHANGED stats

OverflowWaitsForRoom(s) == Send(s)

OverflowForgets(s) ==
  /\ ~Room
  /\ sess' = [sess EXCEPT ![s].pending = 1]
  /\ stats' = [stats EXCEPT !.overflow = @ + 1]
  /\ UNCHANGED <<out, hist>>

OverflowUncounted(s) ==
  /\ ~Room
  /\ sess' = [sess EXCEPT ![s].pending = @ + 1]
  /\ UNCHANGED <<out, stats, hist>>

\* The channel is full: the event itself is lost, and counted.
Overflow(s) ==
  /\ ~Room
  /\ sess' = [sess EXCEPT ![s].pending = @ + 1]
  /\ stats' = [stats EXCEPT !.overflow = @ + 1]
  /\ UNCHANGED <<out, hist>>

\* The last section of handle, under the lock.
Deliver ==
  /\ hand.at = "deliver"
  /\ hand' = Idle
  /\ Send(hand.rec.session) \/ Overflow(hand.rec.session)
  /\ UNCHANGED <<kernel, phase, lastKernel, tracker, consumer, emitted, displaced>>

\* pollKernelDrops reads the counter, then charges what is new to every
\* attached session under the lock.
PollReads ==
  /\ phase # "done" /\ hand = Idle /\ drops > lastKernel
  /\ hand' = [at |-> "poll", n |-> drops]
  /\ UNCHANGED <<kernel, phase, sess, lastKernel, stats, out, tracker, consumer, history>>

PollCharges ==
  /\ hand.at = "poll"
  /\ LET delta == hand.n - lastKernel IN
       /\ stats' = [stats EXCEPT !.kernelDrops = @ + delta]
       /\ sess' = [s \in Sessions |->
            IF sess[s].st = "attached"
            THEN [sess[s] EXCEPT !.pending = @ + delta] ELSE sess[s]]
  /\ lastKernel' = hand.n
  /\ hand' = Idle
  /\ UNCHANGED <<kernel, phase, out, tracker, consumer, history>>

\* Close: the probes go, and the goroutine is told to end.
Close ==
  /\ phase = "running"
  /\ phase' = "closed"
  /\ tracked' = {}
  /\ UNCHANGED <<alive, starts, ring, drops, sess, hand, lastKernel, stats, out,
                 tracker, consumer, history>>

DrainEndsOnceTaken ==
  /\ phase = "closed" /\ hand = Idle /\ out = <<>>
  /\ phase' = "done"
  /\ UNCHANGED <<kernel, sess, hand, lastKernel, stats, out, tracker, consumer, history>>

DrainEnds ==
  /\ phase = "closed" /\ hand = Idle
  /\ phase' = "done"
  /\ UNCHANGED <<kernel, sess, hand, lastKernel, stats, out, tracker, consumer, history>>

\* The timer of DetachSession, and what it removes.
GraceExpires(s) ==
  /\ sess[s].st = "detached" /\ loop # [at |-> "untrack", session |-> s]
  /\ sess' = [sess EXCEPT ![s].st = "gone"]
  /\ tracker' = ForgetSession(tracker, s)
  /\ UNCHANGED <<kernel, phase, hand, lastKernel, stats, out, consumer, history>>

-----------------------------------------------------------------------------
\* The loop takes an event; RecordEvent adds its losses to the session's.
Take ==
  /\ loop = Idle /\ out # <<>>
  /\ out' = Tail(out)
  /\ LET e == Head(out) IN
       dropped' = IF ended[e.session] = "no"
                  THEN [dropped EXCEPT ![e.session] = @ + e.dropped] ELSE dropped
  /\ UNCHANGED <<kernel, phase, sess, hand, lastKernel, stats, tracker, loop, ended, history>>

\* finish: DetachSession marks the session, takes its cgroup out of the filter
\* and sets the timer; then the tree is killed and the outcome computed.
FinishDetaches(s) ==
  /\ loop = Idle /\ ended[s] = "no" /\ sess[s].st = "attached"
  /\ sess' = [sess EXCEPT ![s].st = "detached"]
  /\ loop' = [at |-> "untrack", session |-> s]
  /\ UNCHANGED <<kernel, phase, hand, lastKernel, stats, out, tracker, dropped, ended, history>>

FinishUntracks ==
  /\ loop.at = "untrack"
  /\ tracked' = tracked \ {loop.session}
  /\ loop' = [at |-> "outcome", session |-> loop.session]
  /\ UNCHANGED <<alive, starts, ring, drops, collector, tracker, dropped, ended, history>>

FinishEnds ==
  /\ loop.at = "outcome"
  /\ alive' = Without(alive, {p \in DOMAIN alive : alive[p].session = loop.session})
  /\ ended' = [ended EXCEPT ![loop.session] =
                 IF dropped[loop.session] = 0 THEN "complete" ELSE "incomplete"]
  /\ loop' = Idle
  /\ UNCHANGED <<starts, tracked, ring, drops, collector, tracker, dropped, history>>

-----------------------------------------------------------------------------
Processes ==
  \E p \in DOMAIN alive :
    \/ \E pid \in PIDs : Fork(p, pid)
    \/ \E image \in Images : Exec(p, image)
    \/ \E kind \in {"other", "garbled"} : Act(p, kind)
    \/ Exit(p)

\* The drain goroutine.
Drain ==
  \/ Attribute \/ ObserveProcess \/ Enrich \/ Deliver
  \/ PollReads \/ PollCharges \/ DrainEnds

Next ==
  \/ Processes
  \/ Drain
  \/ \E s \in Sessions : \E pid \in PIDs : Attach(s, pid) \/ AttachFails(s, pid)
  \/ \E s \in Sessions : GraceExpires(s) \/ FinishDetaches(s)
  \/ Close \/ Take \/ FinishUntracks \/ FinishEnds

Spec == Init /\ [][Next]_vars

\* The goroutine runs whenever it can, and select, which picks among the ready
\* cases at random, does not pass over the end of its context for ever.  Nobody
\* is assumed to take an event.
FairSpec == Spec /\ WF_vars(Drain) /\ WF_vars(DrainEnds)

-----------------------------------------------------------------------------
ProcID == Nat \X Nat

Process == [session : Sessions, parent : ProcID, image : Images, gen : Nat]

ProbeRecord == [session : Sessions, kind : {"exec", "exit", "other", "garbled"},
                proc : ProcID, ppid : Nat, image : Images, gen : Nat]

Hand ==
  {Idle} \cup [at : {"poll"}, n : Nat]
         \cup [at : {"observe", "enrich", "deliver"}, rec : ProbeRecord, seq : Nat,
               depth : Nat, image : Images \cup {NoImage}]

CollSession == [st : {"none", "attached", "detached", "gone"}, seq : Nat, pending : Nat]

Stats == [received : Nat, decodeErrs : Nat, kernelDrops : Nat, overflow : Nat,
          unattributed : Nat]

SentEvent == [session : Sessions, seq : Nat, dropped : Nat]

TrackerType(t) ==
  /\ t = [procs |-> t.procs, live |-> t.live, roots |-> t.roots]
  /\ DOMAIN t.procs \subseteq ProcID
  /\ \A p \in DOMAIN t.procs :
       t.procs[p] \in [session : Sessions, depth : Nat, image : Images \cup {NoImage}]
  /\ \A pid \in DOMAIN t.live : t.live[pid] \in ProcID
  /\ \A pid \in DOMAIN t.roots : t.roots[pid] \in Sessions

\* The shapes of the state: the kernel's processes and ring, the collector's
\* sessions and hand, the tracker, the channel and the sessions' outcomes.
TypeOK ==
  /\ DOMAIN alive \subseteq ProcID /\ \A p \in DOMAIN alive : alive[p] \in Process
  /\ starts \in Nat /\ tracked \subseteq Sessions
  /\ ring \in Seq(ProbeRecord) /\ Len(ring) <= RingCap
  /\ drops \in Nat /\ lastKernel \in Nat
  /\ phase \in {"running", "closed", "done"}
  /\ sess \in [Sessions -> CollSession]
  /\ hand \in Hand
  /\ TrackerType(tracker)
  /\ stats \in Stats
  /\ out \in Seq(SentEvent) /\ Len(out) <= OutCap
  /\ loop \in {Idle} \cup [at : {"untrack", "outcome"}, session : Sessions]
  /\ dropped \in [Sessions -> Nat]
  /\ ended \in [Sessions -> {"no", "complete", "incomplete"}]
  /\ emitted \in Nat
  /\ hist \in [Sessions -> [lost : Nat, sent : Nat, reported : Nat]]
  /\ displaced \subseteq Sessions

\* Numbered events that neither reached the channel nor are on their way to it.
LostToOverflow(s) == sess[s].seq - InHand(s) - hist[s].sent

\* Every loss reaches the session: what was lost of an attached session, on
\* overflow or in the kernel, is at most what its delivered events reported,
\* what its next event will report, and what the next poll will charge; of a
\* detached one, the same without the kernel's part.
LossesAreAccounted ==
  \A s \in Sessions :
    LET known == hist[s].reported + sess[s].pending
    IN /\ LostToOverflow(s) >= 0
       /\ LostToOverflow(s) <= known
       /\ sess[s].st = "attached" =>
            LostToOverflow(s) + hist[s].lost <= known + (drops - lastKernel)

\* No record vanishes uncounted: what the probes wanted to emit is in the ring,
\* in the goroutine's hands, delivered, or in one of the published counters.
NothingUncounted ==
  /\ emitted = Len(ring) + drops + stats.decodeErrs + stats.received
  /\ stats.received = stats.unattributed + SumFunction([s \in Sessions |-> sess[s].seq])
  /\ stats.overflow = SumFunction([s \in Sessions |-> LostToOverflow(s)])

\* The tracker's tables agree: a PID's holder is a process of the table with that
\* PID, and a root that is still awaited belongs to a session the collector
\* knows.  (A process may be left behind: a record in hand when the grace period
\* ends enters its process again, in a session that is gone.)
TrackerAgrees ==
  /\ \A pid \in DOMAIN tracker.live :
       tracker.live[pid][1] = pid /\ tracker.live[pid] \in DOMAIN tracker.procs
  /\ \A pid \in DOMAIN tracker.roots : sess[tracker.roots[pid]].st \in {"attached", "detached"}

\* AncestryDepth never overstates how far a process is below the root, and 0 is
\* the root and nobody else, PIDs being reused, as long as the kernel has lost
\* no record, the session's grace period lasts, and no other session's root was
\* given the PID of its root while that one was awaited.
DepthIsSound ==
  drops = 0 /\ hand.at \in {"enrich", "deliver"}
    /\ sess[hand.rec.session].st # "gone" /\ hand.rec.session \notin displaced =>
    hand.depth <= hand.rec.gen /\ (hand.depth = 0 <=> hand.rec.gen = 0)

\* Outcome.TelemetryComplete "reports whether the event stream had no gaps": a
\* session that ended as complete lost no event it numbered and no record of
\* its own in the kernel.
CompleteHasNoGap ==
  \A s \in Sessions :
    ended[s] = "complete" => LostToOverflow(s) = 0 /\ hist[s].lost = 0

\* The drain never blocks on its consumer, so the kernel ring empties whether or
\* not anybody takes the events, until the collector is closed.
RingIsDrained == <>[](ring = <<>> \/ phase = "done")

\* A closed collector's goroutine ends, and with it the stream.
CloseEnds == phase = "closed" ~> phase = "done"
=============================================================================
