--------------------------- MODULE TelemetryProofs ---------------------------
(***************************************************************************)
(* What the collector promises for any number of sessions, processes and   *)
(* records, and any capacity of the ring and of the channel: its type,     *)
(* that every loss of an attached session is reported or about to be, that *)
(* no record vanishes uncounted, and where it places a process below its   *)
(* session's root.                                                         *)
(***************************************************************************)
EXTENDS Telemetry, SumTheorems

\* A poll under way has read a value the counter had and has not charged yet.
PollIsCurrent ==
  /\ lastKernel <= drops
  /\ hand.at = "poll" => lastKernel <= hand.n /\ hand.n <= drops

\* What a session has reported and will report of its own accord.
Announced(s) == hist[s].reported + sess[s].pending

\* A session is numbered, tracked and charged only once it has been attached.
Untouched(s) ==
  sess[s].st = "none" =>
    /\ s \notin tracked
    /\ sess[s].seq = 0 /\ InHand(s) = 0
    /\ hist[s].lost = 0 /\ hist[s].sent = 0

\* The inductive invariant of one session's account.
Balanced(s) ==
  /\ Untouched(s)
  /\ LostToOverflow(s) >= 0
  /\ LostToOverflow(s) <= Announced(s)
  /\ sess[s].st = "attached" =>
       LostToOverflow(s) + hist[s].lost <= Announced(s) + (drops - lastKernel)

Inv == TypeOK /\ PollIsCurrent /\ \A s \in Sessions : Balanced(s)

-----------------------------------------------------------------------------
(***************************************************************************)
(* The tracker's operators keep its type.                                  *)
(***************************************************************************)

\* TrackRoot adds a pending root.
LEMMA TrackRootType ==
  ASSUME NEW t, TrackerType(t), NEW s \in Sessions, NEW pid
  PROVE  TrackerType(TrackRoot(t, s, pid))
<1> DEFINE u == TrackRoot(t, s, pid)
           roots == With(t.roots, pid, s)
<1>1. u = [procs |-> t.procs, live |-> t.live, roots |-> roots]
  BY DEF TrackRoot, TrackerType
<1>2. \A q \in DOMAIN roots : roots[q] \in Sessions
  BY DEF TrackerType, With
<1> HIDE DEF u, roots
<1> QED
  BY <1>1, <1>2 DEF TrackerType, u

Entry == [session : Sessions, depth : Nat, image : Images \cup {NoImage}]

\* trackLocked adds a process that is not there.
LEMMA TrackLockedType ==
  ASSUME NEW t, TrackerType(t), NEW s \in Sessions, NEW p \in ProcID, NEW d \in Nat
  PROVE  TrackerType(TrackLocked(t, s, p, d)) /\ p \in DOMAIN TrackLocked(t, s, p, d).procs
<1> DEFINE u == TrackLocked(t, s, p, d)
           e == [session |-> s, depth |-> d, image |-> NoImage]
           procs == With(t.procs, p, e)
           live == With(t.live, p[1], p)
<1>1. CASE p \in DOMAIN t.procs
  BY <1>1 DEF TrackLocked
<1>2. CASE p \notin DOMAIN t.procs
  <2>1. u = [procs |-> procs, live |-> live, roots |-> t.roots]
    BY <1>2 DEF TrackLocked, TrackerType
  <2>2. e \in Entry
    BY DEF Entry
  <2> HIDE DEF e
  <2>3. /\ DOMAIN procs \subseteq ProcID /\ p \in DOMAIN procs
        /\ \A q \in DOMAIN procs : procs[q] \in Entry
    BY <2>2 DEF TrackerType, Entry, With
  <2>4. \A pid \in DOMAIN live : live[pid] \in ProcID
    BY DEF TrackerType, With
  <2> HIDE DEF u, procs, live
  <2> QED
    BY <2>1, <2>3, <2>4 DEF TrackerType, Entry, u
<1> QED
  BY <1>1, <1>2

\* The depth Observe gives a process, and the image it inherits.
LEMMA PlaceType ==
  ASSUME NEW t, TrackerType(t), NEW s \in Sessions, NEW p \in ProcID, NEW ppid
  PROVE  /\ ObservedDepth(t, s, p, ppid) \in Nat
         /\ InheritedImage(t, s, p, ppid) \in Images \cup {NoImage}
<1>1. \A q \in DOMAIN t.procs : t.procs[q].depth \in Nat /\ t.procs[q].image \in Images \cup {NoImage}
  BY DEF TrackerType
<1>2. ParentTracked(t, s, ppid) => t.live[ppid] \in DOMAIN t.procs
  BY DEF ParentTracked, Known
<1> QED
  BY <1>1, <1>2 DEF ObservedDepth, InheritedImage, Known

\* Giving a process an image, or taking roots away, keeps the tracker's type.
LEMMA ImageType ==
  ASSUME NEW t, TrackerType(t), NEW p \in DOMAIN t.procs, NEW i \in Images \cup {NoImage}
  PROVE  TrackerType([t EXCEPT !.procs[p].image = i])
<1> DEFINE procs == [t.procs EXCEPT ![p].image = i]
           u == [t EXCEPT !.procs[p].image = i]
<1>1. u = [procs |-> procs, live |-> t.live, roots |-> t.roots]
  BY DEF TrackerType
<1>2. DOMAIN procs = DOMAIN t.procs /\ \A q \in DOMAIN procs : procs[q] \in Entry
  BY DEF TrackerType, Entry
<1> HIDE DEF u, procs
<1> QED
  BY <1>1, <1>2 DEF TrackerType, Entry, u

LEMMA FewerRootsType ==
  ASSUME NEW t, TrackerType(t), NEW pids
  PROVE  TrackerType([t EXCEPT !.roots = Without(@, pids)])
  BY DEF TrackerType, Without

\* Observe, SetExecutable, Untrack and ForgetSession keep the tracker's type.
LEMMA ObserveType ==
  ASSUME NEW t, TrackerType(t), NEW s \in Sessions, NEW p \in ProcID, NEW ppid
  PROVE  TrackerType(Observe(t, s, p, ppid))
<1> DEFINE image == InheritedImage(t, s, p, ppid)
           entered == TrackLocked(t, s, p, ObservedDepth(t, s, p, ppid))
           placed == IF PendingRoot(t, s, p)
                     THEN [entered EXCEPT !.roots = Without(@, {p[1]})] ELSE entered
<1>1. image \in Images \cup {NoImage} /\ ObservedDepth(t, s, p, ppid) \in Nat
  BY PlaceType
<1>2. TrackerType(entered) /\ p \in DOMAIN entered.procs
  BY <1>1, TrackLockedType
<1> HIDE DEF image, entered
<1>3. TrackerType(placed)
  BY <1>2, FewerRootsType
<1>4. p \in DOMAIN placed.procs
  BY <1>2 DEF TrackerType
<1> HIDE DEF placed
<1>5. TrackerType([placed EXCEPT !.procs[p].image = image])
  BY <1>1, <1>3, <1>4, ImageType
<1>6. Observe(t, s, p, ppid) = IF Known(t, s, p) THEN t
                               ELSE IF image = NoImage THEN placed
                               ELSE [placed EXCEPT !.procs[p].image = image]
  BY DEF Observe, image, placed, entered
<1> QED
  BY <1>3, <1>5, <1>6

LEMMA SetExecutableType ==
  ASSUME NEW t, TrackerType(t), NEW p, NEW i \in Images \cup {NoImage}
  PROVE  TrackerType(SetExecutable(t, p, i)) /\ Executable(t, p) \in Images \cup {NoImage}
<1>1. Executable(t, p) \in Images \cup {NoImage}
  BY DEF Executable, TrackerType
<1> QED
  BY <1>1, ImageType DEF SetExecutable

LEMMA UntrackType ==
  ASSUME NEW t, TrackerType(t), NEW p
  PROVE  TrackerType(Untrack(t, p))
  BY DEF TrackerType, Untrack, Without

LEMMA ForgetType ==
  ASSUME NEW t, TrackerType(t), NEW s
  PROVE  TrackerType(ForgetSession(t, s))
  BY DEF TrackerType, ForgetSession, Without

-----------------------------------------------------------------------------
(***************************************************************************)
(* The type, action by action.                                             *)
(***************************************************************************)

LEMMA InitInv == Init => Inv
<1> SUFFICES ASSUME Init PROVE Inv
  OBVIOUS
<1>1. TrackerType(tracker)
  BY DEF Init, NoTracker, TrackerType
<1>2. TypeOK
  BY <1>1, CapsPositive DEF Init, TypeOK, Idle, Hand, NoTracker, CollSession, Stats
<1>3. PollIsCurrent /\ \A s \in Sessions : Balanced(s)
  BY DEF Init, Balanced, Untouched, Announced, PollIsCurrent, InHand, LostToOverflow, Idle
<1> QED
  BY <1>2, <1>3 DEF Inv

\* What a probe of a governed process reports is a record.
LEMMA RecordType ==
  ASSUME TypeOK, NEW p \in DOMAIN alive, NEW i \in Images,
         NEW k \in {"exec", "exit", "other", "garbled"}
  PROVE  Record(k, p, i) \in ProbeRecord
<1>1. alive[p] \in Process /\ p \in ProcID
  BY DEF TypeOK
<1>2. Parent(p) \in Nat
  BY <1>1 DEF Parent, Process, Outside, TypeOK, ProcID
<1> QED
  BY <1>1, <1>2 DEF Record, ProbeRecord, Process

\* Emitting a record keeps the ring, the counter and the history well typed.
LEMMA EmitType ==
  ASSUME TypeOK, NEW r \in ProbeRecord, Emit(r)
  PROVE  /\ ring' \in Seq(ProbeRecord) /\ Len(ring') <= RingCap
         /\ drops' \in Nat /\ emitted' \in Nat
         /\ hist' \in [Sessions -> [lost : Nat, sent : Nat, reported : Nat]]
         /\ displaced' = displaced
<1>0. r.session \in Sessions
  BY DEF ProbeRecord
<1>a. ring \in Seq(ProbeRecord) /\ Len(ring) <= RingCap /\ drops \in Nat /\ emitted \in Nat
  BY DEF TypeOK
<1>b. hist \in [Sessions -> [lost : Nat, sent : Nat, reported : Nat]]
  BY DEF TypeOK
<1>c. emitted' = emitted + 1 /\ displaced' = displaced
  BY DEF Emit
<1>1. CASE Len(ring) < RingCap
  <2>1. ring' = Append(ring, r) /\ hist' = hist /\ drops' = drops
    BY <1>1 DEF Emit
  <2>2. ring' \in Seq(ProbeRecord) /\ Len(ring') = Len(ring) + 1
    BY <1>a, <2>1
  <2>3. Len(ring) + 1 <= RingCap
    BY <1>a, <1>1, CapsPositive
  <2> QED
    BY <1>a, <1>b, <1>c, <2>1, <2>2, <2>3
<1>2. CASE ~(Len(ring) < RingCap)
  <2>1. drops' = drops + 1 /\ ring' = ring
    BY <1>2 DEF Emit
  <2>2. hist' = [hist EXCEPT ![r.session].lost = @ + 1]
    BY <1>2 DEF Emit
  <2>3. hist' \in [Sessions -> [lost : Nat, sent : Nat, reported : Nat]]
    BY <1>0, <1>b, <2>2
  <2> QED
    BY <1>a, <1>c, <2>1, <2>3
<1> QED
  BY <1>1, <1>2

\* Every step keeps the type.
LEMMA TypeStep ==
  ASSUME TypeOK, PollIsCurrent, [Next]_vars
  PROVE  TypeOK'
<1> USE DEF kernel, collector, consumer, history
<1>0. sess \in [Sessions -> CollSession] /\ starts \in Nat /\ stats \in Stats
  BY DEF TypeOK
<1>1. ASSUME NEW p \in DOMAIN alive, NEW pid \in PIDs, Fork(p, pid) PROVE TypeOK'
  <2>1. alive[p] \in Process /\ p \in ProcID /\ <<pid, starts + 1>> \in ProcID /\ starts \in Nat
    BY PIDsPositive DEF TypeOK, ProcID
  <2>2. [session |-> alive[p].session, parent |-> p, image |-> alive[p].image,
         gen |-> alive[p].gen + 1] \in Process
    BY <2>1 DEF Process
  <2>3. DOMAIN alive' \subseteq ProcID /\ \A q \in DOMAIN alive' : alive'[q] \in Process
    BY <1>1, <2>1, <2>2 DEF Fork, With, TypeOK
  <2>4. starts' \in Nat
    BY <1>1, <2>1 DEF Fork
  <2> QED
    BY <1>1, <2>3, <2>4 DEF Fork, TypeOK
<1>2. ASSUME NEW p \in DOMAIN alive, NEW i \in Images, Exec(p, i) PROVE TypeOK'
  <2>1. Record("exec", p, i) \in ProbeRecord
    BY RecordType
  <2>2. Emit(Record("exec", p, i))
    BY <1>2 DEF Exec
  <2>3. DOMAIN alive' \subseteq ProcID /\ \A q \in DOMAIN alive' : alive'[q] \in Process
    BY <1>2 DEF Exec, TypeOK, Process
  <2> QED
    BY <1>2, <2>1, <2>2, <2>3, EmitType DEF Exec, TypeOK
<1>3. ASSUME NEW p \in DOMAIN alive, NEW k \in {"other", "garbled"}, Act(p, k) PROVE TypeOK'
  <2>1. alive[p].image \in Images
    BY DEF TypeOK, Process
  <2>2. Record(k, p, alive[p].image) \in ProbeRecord
    BY <2>1, RecordType
  <2>3. Emit(Record(k, p, alive[p].image))
    BY <1>3 DEF Act
  <2> QED
    BY <1>3, <2>2, <2>3, EmitType DEF Act, TypeOK
<1>4. ASSUME NEW p \in DOMAIN alive, Exit(p) PROVE TypeOK'
  <2>1. alive[p].image \in Images
    BY DEF TypeOK, Process
  <2>2. Record("exit", p, alive[p].image) \in ProbeRecord
    BY <2>1, RecordType
  <2>3. Emit(Record("exit", p, alive[p].image))
    BY <1>4 DEF Exit
  <2>4. DOMAIN alive' \subseteq ProcID /\ \A q \in DOMAIN alive' : alive'[q] \in Process
    BY <1>4 DEF Exit, Without, TypeOK
  <2> QED
    BY <1>4, <2>2, <2>3, <2>4, EmitType DEF Exit, TypeOK
<1>5. ASSUME NEW s \in Sessions, NEW pid \in PIDs, Attach(s, pid) PROVE TypeOK'
  <2>1. PICK i \in Images : alive' = With(alive, <<pid, starts + 1>>,
                    [session |-> s, parent |-> <<Outside, 0>>, image |-> i, gen |-> 0])
    BY <1>5 DEF Attach
  <2>2. <<pid, starts + 1>> \in ProcID /\ starts' = starts + 1
    BY <1>0, <1>5, PIDsPositive DEF ProcID, Attach
  <2>3. [session |-> s, parent |-> <<Outside, 0>>, image |-> i, gen |-> 0] \in Process
    BY DEF Process, ProcID, Outside
  <2>4. DOMAIN alive' \subseteq ProcID /\ \A q \in DOMAIN alive' : alive'[q] \in Process
    BY <2>1, <2>2, <2>3 DEF With, TypeOK
  <2>5. TrackerType(tracker')
    BY <1>5, TrackRootType DEF Attach, TypeOK
  <2>6. sess' \in [Sessions -> CollSession]
    BY <1>0, <1>5 DEF Attach, CollSession
  <2>7. tracked' \subseteq Sessions
    BY <1>5 DEF Attach, TypeOK
  <2>8. starts' \in Nat
    BY <1>0, <2>2
  <2>9. displaced' \subseteq Sessions
    BY <1>5 DEF Attach, Displaces, TypeOK
  <2> QED
    BY <1>5, <2>4, <2>5, <2>6, <2>7, <2>8, <2>9 DEF Attach, TypeOK
<1>6. ASSUME NEW s \in Sessions, NEW pid \in PIDs, AttachFails(s, pid) PROVE TypeOK'
  <2>1. TrackerType(tracker')
    BY <1>6, TrackRootType, ForgetType DEF AttachFails, TypeOK
  <2>2. sess' \in [Sessions -> CollSession]
    BY <1>0, <1>6 DEF AttachFails, CollSession
  <2>3. displaced' \subseteq Sessions /\ starts' \in Nat
    BY <1>0, <1>6 DEF AttachFails, Displaces, TypeOK
  <2> QED
    BY <1>6, <2>1, <2>2, <2>3 DEF AttachFails, TypeOK
<1>7. CASE Attribute
  <2> DEFINE r == Head(ring)
  <2>1. ring' \in Seq(ProbeRecord) /\ Len(ring') <= RingCap /\ r \in ProbeRecord
    BY <1>7, CapsPositive DEF Attribute, TypeOK
  <2>2. stats' \in Stats
    <3>1. \/ stats' = [stats EXCEPT !.decodeErrs = @ + 1]
          \/ stats' = [Received EXCEPT !.unattributed = @ + 1]
          \/ stats' = Received
      BY <1>7 DEF Attribute
    <3>2. [stats EXCEPT !.decodeErrs = @ + 1] \in Stats
      BY <1>0 DEF Stats
    <3>3. Received \in Stats
      BY <1>0 DEF Stats, Received
    <3>4. [Received EXCEPT !.unattributed = @ + 1] \in Stats
      BY <3>3 DEF Stats
    <3> QED
      BY <3>1, <3>2, <3>3, <3>4
  <2>3. sess' \in [Sessions -> CollSession]
    <3>1. sess' = sess \/ sess' = [sess EXCEPT ![r.session].seq = @ + 1]
      BY <1>7 DEF Attribute
    <3>2. r.session \in Sessions
      BY <2>1 DEF ProbeRecord
    <3> HIDE DEF r
    <3> QED
      BY <1>0, <3>1, <3>2 DEF CollSession
  <2>4. hand' \in Hand
    <3>1. CASE UNCHANGED hand
      BY <3>1 DEF TypeOK
    <3>2. CASE ~UNCHANGED hand
      <4>1. hand' = [at |-> "observe", rec |-> r, seq |-> sess[r.session].seq + 1,
                     depth |-> 0, image |-> NoImage]
        BY <1>7, <3>2 DEF Attribute
      <4>2. sess[r.session].seq + 1 \in Nat
        BY <1>0, <2>1 DEF ProbeRecord, CollSession
      <4> HIDE DEF r
      <4> QED
        BY <2>1, <4>1, <4>2 DEF Hand
    <3> QED
      BY <3>1, <3>2
  <2> QED
    BY <1>7, <2>1, <2>2, <2>3, <2>4 DEF Attribute, TypeOK
<1>8. CASE ObserveProcess
  <2>1. /\ hand \in [at : {"observe", "enrich", "deliver"}, rec : ProbeRecord, seq : Nat,
                     depth : Nat, image : Images \cup {NoImage}]
        /\ TrackerType(tracker)
    BY <1>8 DEF ObserveProcess, TypeOK, Hand, Idle
  <2>2. hand.rec.session \in Sessions /\ hand.rec.proc \in ProcID
    BY <2>1 DEF ProbeRecord
  <2>3. TrackerType(tracker')
    BY <1>8, <2>1, <2>2, ObserveType DEF ObserveProcess
  <2>4. Executable(tracker', hand.rec.proc) \in Images \cup {NoImage}
    BY <2>3, SetExecutableType
  <2>5. ObservedDepth(tracker, hand.rec.session, hand.rec.proc, hand.rec.ppid) \in Nat
    BY <2>1, <2>2, PlaceType
  <2>6. hand' \in Hand
    BY <1>8, <2>1, <2>4, <2>5 DEF ObserveProcess, Hand
  <2> QED
    BY <1>8, <2>3, <2>6 DEF ObserveProcess, TypeOK
<1>9. CASE Enrich
  <2>1. /\ hand \in [at : {"observe", "enrich", "deliver"}, rec : ProbeRecord, seq : Nat,
                     depth : Nat, image : Images \cup {NoImage}]
        /\ TrackerType(tracker)
    BY <1>9 DEF Enrich, TypeOK, Hand, Idle
  <2>2. hand.rec.image \in Images /\ hand.image \in Images \cup {NoImage}
    BY <2>1 DEF ProbeRecord
  <2>3. ExecImages(hand.rec) \subseteq Images \cup {NoImage}
    BY <2>2 DEF ExecImages, Held, TypeOK, Process
  <2>4. PICK image \in Images \cup {NoImage} :
          /\ tracker' = CASE hand.rec.kind = "exec" /\ image # NoImage
                                -> SetExecutable(tracker, hand.rec.proc, image)
                           [] hand.rec.kind = "exit" -> Untrack(tracker, hand.rec.proc)
                           [] OTHER -> tracker
          /\ hand' = [hand EXCEPT !.at = "deliver", !.image = image]
    BY <1>9, <2>2, <2>3 DEF Enrich
  <2>5. TrackerType(tracker')
    BY <2>1, <2>4, SetExecutableType, UntrackType
  <2>6. hand' \in Hand
    BY <2>1, <2>4 DEF Hand
  <2> QED
    BY <1>9, <2>5, <2>6 DEF Enrich, TypeOK
<1>10. CASE Deliver
  <2>1. /\ hand \in [at : {"observe", "enrich", "deliver"}, rec : ProbeRecord, seq : Nat,
                     depth : Nat, image : Images \cup {NoImage}]
        /\ hand' = Idle
    BY <1>10 DEF Deliver, TypeOK, Hand, Idle
  <2> DEFINE s == hand.rec.session
  <2>2. s \in Sessions /\ sess[s].pending \in Nat /\ hand.seq \in Nat
    BY <1>0, <2>1 DEF ProbeRecord, CollSession
  <2>3. /\ hist \in [Sessions -> [lost : Nat, sent : Nat, reported : Nat]]
        /\ out \in Seq(SentEvent) /\ Len(out) <= OutCap
    BY DEF TypeOK
  <2>4. CASE Len(out) < OutCap
    <3>1. /\ out' = Append(out, Event(hand, sess[s].pending))
          /\ sess' = [sess EXCEPT ![s].pending = 0]
          /\ hist' = [hist EXCEPT ![s] =
                        [lost |-> @.lost, sent |-> @.sent + 1,
                         reported |-> @.reported + sess[s].pending]]
          /\ stats' = stats
      BY <1>10, <2>4 DEF Deliver, Send, Overflow, Room
    <3>2. Event(hand, sess[s].pending) \in SentEvent
      BY <2>2 DEF Event, SentEvent
    <3>3. out' \in Seq(SentEvent) /\ Len(out') <= OutCap
      BY <2>3, <2>4, <3>1, <3>2, CapsPositive
    <3> HIDE DEF s
    <3>4. sess' \in [Sessions -> CollSession]
      BY <1>0, <2>2, <3>1 DEF CollSession
    <3>5. hist' \in [Sessions -> [lost : Nat, sent : Nat, reported : Nat]]
      BY <2>2, <2>3, <3>1
    <3> QED
      BY <1>10, <2>1, <3>1, <3>3, <3>4, <3>5 DEF Deliver, TypeOK, Hand
  <2>5. CASE ~(Len(out) < OutCap)
    <3>1. /\ sess' = [sess EXCEPT ![s].pending = @ + 1]
          /\ stats' = [stats EXCEPT !.overflow = @ + 1]
          /\ out' = out /\ hist' = hist
      BY <1>10, <2>5 DEF Deliver, Send, Overflow, Room
    <3> HIDE DEF s
    <3>2. sess' \in [Sessions -> CollSession]
      BY <1>0, <2>2, <3>1 DEF CollSession
    <3>3. stats' \in Stats
      BY <1>0, <3>1 DEF Stats
    <3> QED
      BY <1>10, <2>1, <3>1, <3>2, <3>3 DEF Deliver, TypeOK, Hand
  <2> QED
    BY <2>4, <2>5
<1>11. CASE PollReads
  <2>1. hand' \in Hand
    BY <1>11 DEF PollReads, Hand, TypeOK
  <2> QED
    BY <1>11, <2>1 DEF PollReads, TypeOK
<1>12. CASE PollCharges
  <2>1. hand.at = "poll" /\ hand' = Idle /\ lastKernel' = hand.n
    BY <1>12 DEF PollCharges
  <2>2. hand.n \in Nat /\ hand.n - lastKernel \in Nat
    BY <2>1 DEF TypeOK, Hand, Idle, PollIsCurrent
  <2>3. stats' \in Stats
    BY <1>0, <1>12, <2>2 DEF PollCharges, Stats
  <2>4. sess' \in [Sessions -> CollSession]
    BY <1>0, <1>12, <2>2 DEF PollCharges, CollSession
  <2>5. hand' \in Hand /\ lastKernel' \in Nat
    BY <2>1, <2>2 DEF Hand
  <2> QED
    BY <1>12, <2>3, <2>4, <2>5 DEF PollCharges, TypeOK
<1>13. CASE Close
  BY <1>13 DEF Close, TypeOK
<1>14. CASE DrainEnds
  BY <1>14 DEF DrainEnds, TypeOK
<1>15. ASSUME NEW s \in Sessions, GraceExpires(s) PROVE TypeOK'
  <2>1. TrackerType(tracker')
    BY <1>15, ForgetType DEF GraceExpires, TypeOK
  <2>2. sess' \in [Sessions -> CollSession]
    BY <1>0, <1>15 DEF GraceExpires, CollSession
  <2> QED
    BY <1>15, <2>1, <2>2 DEF GraceExpires, TypeOK
<1>16. CASE Take
  <2>0. /\ out # <<>> /\ out' = Tail(out)
        /\ out \in Seq(SentEvent) /\ Len(out) <= OutCap
        /\ dropped \in [Sessions -> Nat]
    BY <1>16 DEF Take, TypeOK
  <2> DEFINE e == Head(out)
  <2>1. e \in SentEvent
    BY <2>0
  <2>2. out' \in Seq(SentEvent) /\ Len(out') <= OutCap
    BY <2>0, CapsPositive
  <2>3. dropped' \in [Sessions -> Nat]
    <3>1. dropped' = dropped \/ dropped' = [dropped EXCEPT ![e.session] = @ + e.dropped]
      BY <1>16 DEF Take
    <3>2. e.session \in Sessions /\ e.dropped \in Nat
      BY <2>1 DEF SentEvent
    <3> HIDE DEF e
    <3> QED
      BY <2>0, <3>1, <3>2
  <2> QED
    BY <1>16, <2>2, <2>3 DEF Take, TypeOK
<1>17. ASSUME NEW s \in Sessions, FinishDetaches(s) PROVE TypeOK'
  <2>1. sess' \in [Sessions -> CollSession]
    BY <1>0, <1>17 DEF FinishDetaches, CollSession
  <2>2. loop' \in {Idle} \cup [at : {"untrack", "outcome"}, session : Sessions]
    BY <1>17 DEF FinishDetaches
  <2> QED
    BY <1>17, <2>1, <2>2 DEF FinishDetaches, TypeOK
<1>18. CASE FinishUntracks
  <2>1. loop' \in {Idle} \cup [at : {"untrack", "outcome"}, session : Sessions]
    BY <1>18 DEF FinishUntracks, TypeOK, Idle
  <2> QED
    BY <1>18, <2>1 DEF FinishUntracks, TypeOK
<1>19. CASE FinishEnds
  <2>1. DOMAIN alive' \subseteq ProcID /\ \A q \in DOMAIN alive' : alive'[q] \in Process
    BY <1>19 DEF FinishEnds, Without, TypeOK
  <2>2. ended' \in [Sessions -> {"no", "complete", "incomplete"}]
    BY <1>19 DEF FinishEnds, TypeOK, Idle
  <2> QED
    BY <1>19, <2>1, <2>2 DEF FinishEnds, TypeOK
<1>20. CASE UNCHANGED vars
  BY <1>20 DEF vars, TypeOK
<1> QED
  BY <1>1, <1>2, <1>3, <1>4, <1>5, <1>6, <1>7, <1>8, <1>9, <1>10, <1>11, <1>12, <1>13,
     <1>14, <1>15, <1>16, <1>17, <1>18, <1>19, <1>20 DEF Next, Processes, Drain

-----------------------------------------------------------------------------
(***************************************************************************)
(* The account of one session, action by action.                           *)
(***************************************************************************)

\* The numbers an account is made of.
LEMMA AccountType ==
  ASSUME TypeOK, NEW s \in Sessions
  PROVE  /\ sess[s] \in CollSession /\ sess[s].seq \in Nat /\ sess[s].pending \in Nat
         /\ hist[s].lost \in Nat /\ hist[s].sent \in Nat /\ hist[s].reported \in Nat
         /\ drops \in Nat /\ lastKernel \in Nat /\ InHand(s) \in {0, 1}
<1>1. sess[s] \in CollSession
  BY DEF TypeOK
<1>2. hist[s] \in [lost : Nat, sent : Nat, reported : Nat] /\ drops \in Nat /\ lastKernel \in Nat
  BY DEF TypeOK
<1>3. InHand(s) \in {0, 1}
  BY DEF InHand
<1> QED
  BY <1>1, <1>2, <1>3 DEF CollSession

\* A step that touches no account, and at most shrinks the filter, balances.
LEMMA QuietStep ==
  ASSUME Inv, NEW s \in Sessions, tracked' \subseteq tracked,
         UNCHANGED <<sess, hand, hist, drops, lastKernel>>
  PROVE  PollIsCurrent' /\ Balanced(s)'
  BY DEF Inv, PollIsCurrent, Balanced, Untouched, Announced, LostToOverflow, InHand

\* A probe fires in a tracked cgroup.
LEMMA EmitStep ==
  ASSUME Inv, NEW s \in Sessions, NEW r \in ProbeRecord, Emit(r), r.session \in tracked,
         UNCHANGED <<sess, hand, tracked, lastKernel>>
  PROVE  PollIsCurrent' /\ Balanced(s)'
<1>1. CASE drops' = drops /\ hist' = hist
  BY <1>1, QuietStep
<1>2. CASE ~(drops' = drops /\ hist' = hist)
  <2>1. drops' = drops + 1 /\ hist' = [hist EXCEPT ![r.session].lost = @ + 1]
    BY <1>2 DEF Emit
  <2>2. /\ hist \in [Sessions -> [lost : Nat, sent : Nat, reported : Nat]]
        /\ hand \in Hand
    BY DEF Inv, TypeOK
  <2>3. /\ hist'[s].sent = hist[s].sent /\ hist'[s].reported = hist[s].reported
        /\ s # r.session => hist'[s].lost = hist[s].lost
        /\ hist'[s].lost \in {hist[s].lost, hist[s].lost + 1}
    BY <2>1, <2>2
  <2>4. Untouched(s)'
    BY <2>3 DEF Inv, Balanced, Untouched, InHand
  <2>5. InHand(s)' = InHand(s) /\ LostToOverflow(s)' = LostToOverflow(s)
        /\ Announced(s)' = Announced(s)
    BY <2>3 DEF InHand, LostToOverflow, Announced
  <2>6. PollIsCurrent'
    BY <2>1, <2>2, AccountType DEF PollIsCurrent, Inv, Hand, Idle
  <2> QED
    BY <2>1, <2>3, <2>4, <2>5, <2>6, AccountType DEF Inv, Balanced, LostToOverflow, Announced
<1> QED
  BY <1>1, <1>2

\* The goroutine works on an event it has numbered: nothing is accounted.
LEMMA WorkStep ==
  ASSUME Inv, NEW s \in Sessions, hand.at \in {"observe", "enrich"},
         hand'.at \in {"enrich", "deliver"}, hand'.rec = hand.rec,
         UNCHANGED <<sess, hist, drops, lastKernel, tracked>>
  PROVE  PollIsCurrent' /\ Balanced(s)'
<1>1. InHand(s)' = InHand(s)
  BY DEF InHand
<1> QED
  BY <1>1 DEF Inv, PollIsCurrent, Balanced, Untouched, Announced, LostToOverflow

\* A session is attached: it had no account to keep.
LEMMA AttachStep ==
  ASSUME Inv, NEW s \in Sessions, NEW q \in Sessions, sess[q].st = "none",
         NEW st \in {"attached", "gone"}, sess' = [sess EXCEPT ![q].st = st],
         tracked' \in {tracked, tracked \cup {q}},
         UNCHANGED <<hand, hist, drops, lastKernel>>
  PROVE  PollIsCurrent' /\ Balanced(s)'
<1>1. PollIsCurrent'
  BY DEF Inv, PollIsCurrent
<1>2. sess \in [Sessions -> CollSession]
  BY DEF Inv, TypeOK
<1>3. InHand(s)' = InHand(s)
  BY DEF InHand
<1>4. CASE s # q
  <2>1. sess'[s] = sess[s]
    BY <1>2, <1>4
  <2> QED
    BY <1>1, <1>3, <1>4, <2>1 DEF Inv, Balanced, Untouched, Announced, LostToOverflow
<1>5. CASE s = q
  <2>1. /\ sess'[s].st = st /\ sess'[s].seq = sess[s].seq
        /\ sess'[s].pending = sess[s].pending
    BY <1>2, <1>5 DEF CollSession
  <2>2. Untouched(s)
    BY DEF Inv, Balanced
  <2>3. LostToOverflow(s)' = 0 /\ hist'[s].lost = 0 /\ sess'[s].st # "none"
    BY <1>3, <1>5, <2>1, <2>2 DEF Untouched, LostToOverflow
  <2>4. Announced(s)' \in Nat /\ drops' - lastKernel' \in Nat
    BY <1>5, <2>1, AccountType DEF Announced, Inv, PollIsCurrent
  <2> QED
    BY <1>1, <2>3, <2>4 DEF Balanced, Untouched
<1> QED
  BY <1>4, <1>5

\* An event is numbered, and is then in the goroutine's hands.
LEMMA AttributeStep ==
  ASSUME Inv, NEW s \in Sessions, Attribute
  PROVE  PollIsCurrent' /\ Balanced(s)'
<1> DEFINE r == Head(ring)
<1>1. hand = Idle /\ UNCHANGED <<hist, drops, lastKernel, tracked>>
  BY DEF Attribute, kernel, history
<1>2. CASE UNCHANGED <<sess, hand>>
  BY <1>1, <1>2, QuietStep
<1>3. CASE ~UNCHANGED <<sess, hand>>
  <2>1. /\ sess[r.session].st \in {"attached", "detached"}
        /\ sess' = [sess EXCEPT ![r.session].seq = @ + 1]
        /\ hand' = [at |-> "observe", rec |-> r, seq |-> sess[r.session].seq + 1,
                    depth |-> 0, image |-> NoImage]
    BY <1>3 DEF Attribute
  <2>2. r.session \in Sessions /\ sess \in [Sessions -> CollSession]
    <3>1. ring \in Seq(ProbeRecord) /\ ring # <<>> /\ sess \in [Sessions -> CollSession]
      BY DEF Inv, TypeOK, Attribute
    <3>2. r \in ProbeRecord
      BY <3>1
    <3> QED
      BY <3>1, <3>2 DEF ProbeRecord
  <2> HIDE DEF r
  <2>3. hand'.at = "observe" /\ hand'.rec = r
    BY <2>1
  <2>4. PollIsCurrent'
    BY <1>1, <2>3 DEF Inv, PollIsCurrent
  <2>5. CASE s = r.session
    <3>1. /\ sess'[s].st = sess[s].st /\ sess'[s].seq = sess[s].seq + 1
          /\ sess'[s].pending = sess[s].pending
      BY <2>1, <2>2, <2>5 DEF CollSession
    <3>2. InHand(s) = 0 /\ InHand(s)' = 1
      BY <1>1, <2>3, <2>5 DEF InHand, Idle
    <3>3. LostToOverflow(s)' = LostToOverflow(s) /\ Announced(s)' = Announced(s)
      BY <1>1, <3>1, <3>2, AccountType DEF LostToOverflow, Announced, Inv
    <3> QED
      BY <1>1, <2>1, <2>4, <2>5, <3>1, <3>3 DEF Inv, Balanced, Untouched
  <2>6. CASE s # r.session
    <3>1. sess'[s] = sess[s]
      BY <2>1, <2>2, <2>6
    <3>2. InHand(s) = 0 /\ InHand(s)' = 0
      BY <1>1, <2>3, <2>6 DEF InHand, Idle
    <3> QED
      BY <1>1, <2>4, <3>1, <3>2
      DEF Inv, Balanced, Untouched, Announced, LostToOverflow
  <2> QED
    BY <2>5, <2>6
<1> QED
  BY <1>2, <1>3

\* An event is delivered with the losses that were pending, or becomes one.
LEMMA DeliverStep ==
  ASSUME Inv, NEW s \in Sessions, Deliver
  PROVE  PollIsCurrent' /\ Balanced(s)'
<1> DEFINE q == hand.rec.session
<1>1. /\ hand.at = "deliver" /\ hand' = Idle
      /\ UNCHANGED <<drops, lastKernel, tracked>>
  BY DEF Deliver, kernel
<1>2. PollIsCurrent'
  BY <1>1 DEF Inv, PollIsCurrent, Idle
<1>3. /\ sess \in [Sessions -> CollSession]
      /\ hist \in [Sessions -> [lost : Nat, sent : Nat, reported : Nat]]
  BY DEF Inv, TypeOK
<1>4. q \in Sessions
  BY <1>1 DEF Inv, TypeOK, Hand, Idle, ProbeRecord
<1>5. InHand(s)' = 0
  BY <1>1 DEF InHand, Idle
<1>6. InHand(s) = IF q = s THEN 1 ELSE 0
  BY <1>1 DEF InHand
<1>7. UNCHANGED <<sess[s].st, sess[s].seq>>
  <2>1. \/ sess' = [sess EXCEPT ![q].pending = 0]
        \/ sess' = [sess EXCEPT ![q].pending = @ + 1]
    BY DEF Deliver, Send, Overflow
  <2> HIDE DEF q
  <2> QED
    BY <1>3, <1>4, <2>1 DEF CollSession
<1>8. CASE s # q
  <2>1. \/ sess' = [sess EXCEPT ![q].pending = 0]
        \/ sess' = [sess EXCEPT ![q].pending = @ + 1]
    BY DEF Deliver, Send, Overflow
  <2>2. \/ hist' = hist
        \/ hist' = [hist EXCEPT ![q] = [lost |-> @.lost, sent |-> @.sent + 1,
                                        reported |-> @.reported + sess[q].pending]]
    BY DEF Deliver, Send, Overflow
  <2> HIDE DEF q
  <2>3. sess'[s] = sess[s] /\ hist'[s] = hist[s]
    BY <1>3, <1>8, <2>1, <2>2
  <2> QED
    BY <1>1, <1>2, <1>5, <1>6, <1>8, <2>3
    DEF Inv, Balanced, Untouched, Announced, LostToOverflow
<1>9. CASE s = q /\ Len(out) < OutCap
  <2>1. /\ sess' = [sess EXCEPT ![q].pending = 0]
        /\ hist' = [hist EXCEPT ![q] = [lost |-> @.lost, sent |-> @.sent + 1,
                                        reported |-> @.reported + sess[q].pending]]
    BY <1>9 DEF Deliver, Send, Overflow, Room
  <2> HIDE DEF q
  <2>2. /\ sess'[s].pending = 0 /\ hist'[s].lost = hist[s].lost
        /\ hist'[s].sent = hist[s].sent + 1
        /\ hist'[s].reported = hist[s].reported + sess[s].pending
    BY <1>3, <1>9, <2>1 DEF CollSession
  <2>3. LostToOverflow(s)' = LostToOverflow(s) /\ Announced(s)' = Announced(s)
    <3>1. InHand(s) = 1 /\ sess'[s].seq = sess[s].seq
      BY <1>6, <1>7, <1>9
    <3>2. sess[s].seq \in Nat /\ sess[s].pending \in Nat /\ hist[s].sent \in Nat
          /\ hist[s].reported \in Nat
      BY AccountType DEF Inv
    <3> QED
      BY <1>5, <2>2, <3>1, <3>2 DEF LostToOverflow, Announced
  <2>4. Untouched(s)'
    BY <1>1, <1>6, <1>7, <1>9 DEF Inv, Balanced, Untouched
  <2> QED
    BY <1>1, <1>2, <1>7, <2>2, <2>3, <2>4 DEF Inv, Balanced
<1>10. CASE s = q /\ ~(Len(out) < OutCap)
  <2>1. sess' = [sess EXCEPT ![q].pending = @ + 1] /\ hist' = hist
    BY <1>10 DEF Deliver, Send, Overflow, Room
  <2> HIDE DEF q
  <2>2. sess'[s].pending = sess[s].pending + 1
    BY <1>3, <1>10, <2>1 DEF CollSession
  <2>3. /\ LostToOverflow(s)' = LostToOverflow(s) + 1
        /\ Announced(s)' = Announced(s) + 1
    <3>1. InHand(s) = 1 /\ sess'[s].seq = sess[s].seq
      BY <1>6, <1>7, <1>10
    <3>2. sess[s].seq \in Nat /\ sess[s].pending \in Nat /\ hist[s].sent \in Nat
          /\ hist[s].reported \in Nat
      BY AccountType DEF Inv
    <3> QED
      BY <1>5, <2>1, <2>2, <3>1, <3>2 DEF LostToOverflow, Announced
  <2>4. Untouched(s)'
    BY <1>1, <1>6, <1>7, <1>10 DEF Inv, Balanced, Untouched
  <2>5. LostToOverflow(s) \in Int /\ Announced(s) \in Int
    BY AccountType DEF LostToOverflow, Announced, Inv
  <2> QED
    BY <1>1, <1>2, <1>7, <2>1, <2>3, <2>4, <2>5, AccountType DEF Inv, Balanced
<1> QED
  BY <1>8, <1>9, <1>10

\* What the kernel has lost since the last poll moves to the attached sessions.
LEMMA PollReadsStep ==
  ASSUME Inv, NEW s \in Sessions, PollReads
  PROVE  PollIsCurrent' /\ Balanced(s)'
<1>1. /\ hand = Idle /\ hand' = [at |-> "poll", n |-> drops] /\ drops > lastKernel
      /\ UNCHANGED <<sess, hist, drops, lastKernel, tracked>>
  BY DEF PollReads, kernel, history
<1>2. InHand(s) = 0 /\ InHand(s)' = 0
  BY <1>1 DEF InHand, Idle
<1>3. PollIsCurrent'
  BY <1>1, AccountType DEF Inv, PollIsCurrent
<1> QED
  BY <1>1, <1>2, <1>3 DEF Inv, Balanced, Untouched, Announced, LostToOverflow

LEMMA PollChargesStep ==
  ASSUME Inv, NEW s \in Sessions, PollCharges
  PROVE  PollIsCurrent' /\ Balanced(s)'
<1> DEFINE delta == hand.n - lastKernel
<1>1. /\ hand.at = "poll" /\ hand' = Idle /\ lastKernel' = hand.n
      /\ UNCHANGED <<hist, drops, tracked>>
  BY DEF PollCharges, kernel, history
<1>2. InHand(s) = 0 /\ InHand(s)' = 0
  BY <1>1 DEF InHand, Idle
<1>3. hand.n \in Nat /\ lastKernel <= hand.n /\ hand.n <= drops
  BY <1>1 DEF Inv, TypeOK, PollIsCurrent, Hand, Idle
<1>4. PollIsCurrent'
  BY <1>1, <1>3 DEF PollIsCurrent, Idle
<1>5. sess'[s] = IF sess[s].st = "attached"
                 THEN [sess[s] EXCEPT !.pending = @ + delta] ELSE sess[s]
  BY DEF PollCharges
<1>6. delta \in Nat
  BY <1>3, AccountType DEF Inv
<1>7. /\ LostToOverflow(s) \in Int /\ Announced(s) \in Int
  BY AccountType DEF LostToOverflow, Announced, Inv
<1>8. CASE sess[s].st = "attached"
  <2>1. /\ sess'[s].st = sess[s].st /\ sess'[s].seq = sess[s].seq
        /\ sess'[s].pending = sess[s].pending + delta
    BY <1>5, <1>8, AccountType DEF CollSession, Inv
  <2> HIDE DEF delta
  <2>2. LostToOverflow(s)' = LostToOverflow(s) /\ Announced(s)' = Announced(s) + delta
    BY <1>1, <1>2, <1>6, <2>1, AccountType DEF LostToOverflow, Announced, Inv
  <2>3. Announced(s)' + (drops' - lastKernel') = Announced(s) + (drops - lastKernel)
    BY <1>1, <1>3, <1>7, <2>2, AccountType DEF delta, Inv
  <2> QED
    BY <1>1, <1>4, <1>6, <1>7, <1>8, <2>1, <2>2, <2>3 DEF Inv, Balanced, Untouched
<1>9. CASE sess[s].st # "attached"
  <2>1. sess'[s] = sess[s]
    BY <1>5, <1>9
  <2> QED
    BY <1>1, <1>2, <1>4, <1>9, <2>1 DEF Inv, Balanced, Untouched, Announced, LostToOverflow
<1> QED
  BY <1>8, <1>9

\* A session is detached, or its grace period ends: less is asked of its account.
LEMMA LeaveStep ==
  ASSUME Inv, NEW s \in Sessions, NEW q \in Sessions, sess[q].st \in {"attached", "detached"},
         NEW st \in {"detached", "gone"}, sess' = [sess EXCEPT ![q].st = st],
         UNCHANGED <<hand, hist, drops, lastKernel, tracked>>
  PROVE  PollIsCurrent' /\ Balanced(s)'
<1>1. PollIsCurrent' /\ InHand(s)' = InHand(s)
  BY DEF Inv, PollIsCurrent, InHand
<1>2. /\ sess'[s].seq = sess[s].seq /\ sess'[s].pending = sess[s].pending
      /\ sess'[s].st # "none" \/ sess'[s].st = sess[s].st
      /\ sess'[s].st = "attached" => sess[s].st = "attached"
  BY AccountType DEF Inv, TypeOK, CollSession
<1> QED
  BY <1>1, <1>2 DEF Inv, Balanced, Untouched, Announced, LostToOverflow

\* The counter the poll reads only grows.
LEMMA PollStep ==
  ASSUME TypeOK, PollIsCurrent, [Next]_vars
  PROVE  PollIsCurrent'
<1> USE DEF kernel, collector, consumer, history
<1>1. drops \in Nat /\ lastKernel \in Nat
  BY DEF TypeOK
<1>2. CASE PollReads
  BY <1>1, <1>2 DEF PollReads, PollIsCurrent
<1>3. CASE PollCharges
  BY <1>1, <1>3 DEF PollCharges, PollIsCurrent, Idle, TypeOK, Hand
<1>4. CASE \E r : Emit(r) /\ UNCHANGED <<hand, lastKernel>>
  <2>1. drops' \in {drops, drops + 1}
    BY <1>4 DEF Emit
  <2>2. hand.at = "poll" => hand.n \in Nat
    BY DEF TypeOK, Hand, Idle
  <2> QED
    BY <1>1, <1>4, <2>1, <2>2 DEF PollIsCurrent
<1>5. CASE Attribute \/ ObserveProcess \/ Enrich \/ Deliver
  <2>1. UNCHANGED <<drops, lastKernel>>
    BY <1>5 DEF Attribute, ObserveProcess, Enrich, Deliver
  <2>2. CASE Attribute \/ Deliver
    BY <2>1, <2>2 DEF Attribute, Deliver, Idle, PollIsCurrent
  <2>3. CASE ObserveProcess \/ Enrich
    <3>1. hand.at \in {"observe", "enrich"}
      BY <2>3 DEF ObserveProcess, Enrich
    <3>2. hand = [hand EXCEPT !.at = hand.at] /\ "at" \in DOMAIN hand
      BY <3>1 DEF TypeOK, Hand, Idle
    <3>3. hand'.at \in {"enrich", "deliver"}
      BY <2>3, <3>2 DEF ObserveProcess, Enrich
    <3> QED
      BY <2>1, <3>3 DEF PollIsCurrent
  <2> QED
    BY <1>5, <2>2, <2>3
<1>6. CASE UNCHANGED <<drops, hand, lastKernel>>
  BY <1>6 DEF PollIsCurrent
<1>7. Processes => \/ \E r : Emit(r) /\ UNCHANGED <<hand, lastKernel>>
                   \/ UNCHANGED <<drops, hand, lastKernel>>
  BY DEF Processes, Fork, Exec, Act, Exit
<1> QED
  BY <1>2, <1>3, <1>4, <1>5, <1>6, <1>7
  DEF Next, Drain, Attach, AttachFails, GraceExpires, FinishDetaches, Close, DrainEnds,
      Take, FinishUntracks, FinishEnds, vars

\* Every step keeps every account balanced.
LEMMA AccountStep ==
  ASSUME Inv, NEW s \in Sessions, [Next]_vars
  PROVE  PollIsCurrent' /\ Balanced(s)'
<1> USE DEF kernel, collector, consumer, history
<1>1. ASSUME NEW p \in DOMAIN alive, NEW pid \in PIDs, Fork(p, pid)
      PROVE  PollIsCurrent' /\ Balanced(s)'
  BY <1>1, QuietStep DEF Fork
<1>2. ASSUME NEW p \in DOMAIN alive, NEW i \in Images, Exec(p, i)
      PROVE  PollIsCurrent' /\ Balanced(s)'
  <2>1. Record("exec", p, i) \in ProbeRecord /\ Record("exec", p, i).session \in tracked
    BY <1>2, RecordType DEF Inv, Exec, Observed, Record
  <2> QED
    BY <1>2, <2>1, EmitStep DEF Exec
<1>3. ASSUME NEW p \in DOMAIN alive, NEW k \in {"other", "garbled"}, Act(p, k)
      PROVE  PollIsCurrent' /\ Balanced(s)'
  <2>1. alive[p].image \in Images
    BY DEF Inv, TypeOK, Process
  <2>2. /\ Record(k, p, alive[p].image) \in ProbeRecord
        /\ Record(k, p, alive[p].image).session \in tracked
    BY <1>3, <2>1, RecordType DEF Inv, Act, Observed, Record
  <2> QED
    BY <1>3, <2>2, EmitStep DEF Act
<1>4. ASSUME NEW p \in DOMAIN alive, Exit(p) PROVE PollIsCurrent' /\ Balanced(s)'
  <2>1. alive[p].image \in Images
    BY DEF Inv, TypeOK, Process
  <2>2. /\ Record("exit", p, alive[p].image) \in ProbeRecord
        /\ Record("exit", p, alive[p].image).session \in tracked
    BY <1>4, <2>1, RecordType DEF Inv, Exit, Observed, Record
  <2> QED
    BY <1>4, <2>2, EmitStep DEF Exit
<1>5. ASSUME NEW q \in Sessions, NEW pid \in PIDs, Attach(q, pid)
      PROVE  PollIsCurrent' /\ Balanced(s)'
  BY <1>5, AttachStep DEF Attach
<1>6. ASSUME NEW q \in Sessions, NEW pid \in PIDs, AttachFails(q, pid)
      PROVE  PollIsCurrent' /\ Balanced(s)'
  BY <1>6, AttachStep DEF AttachFails
<1>7. CASE Attribute
  BY <1>7, AttributeStep
<1>8. CASE ObserveProcess
  <2>1. /\ hand.at = "observe" /\ hand'.at = "enrich" /\ hand'.rec = hand.rec
    BY <1>8 DEF ObserveProcess, Inv, TypeOK, Hand, Idle
  <2> QED
    BY <1>8, <2>1, WorkStep DEF ObserveProcess
<1>9. CASE Enrich
  <2>1. /\ hand.at = "enrich" /\ hand'.at = "deliver" /\ hand'.rec = hand.rec
    BY <1>9 DEF Enrich, Inv, TypeOK, Hand, Idle
  <2> QED
    BY <1>9, <2>1, WorkStep DEF Enrich
<1>10. CASE Deliver
  BY <1>10, DeliverStep
<1>11. CASE PollReads
  BY <1>11, PollReadsStep
<1>12. CASE PollCharges
  BY <1>12, PollChargesStep
<1>13. CASE Close \/ DrainEnds \/ Take \/ FinishUntracks \/ FinishEnds \/ UNCHANGED vars
  BY <1>13, QuietStep DEF Close, DrainEnds, Take, FinishUntracks, FinishEnds, vars
<1>14. ASSUME NEW q \in Sessions, GraceExpires(q) PROVE PollIsCurrent' /\ Balanced(s)'
  BY <1>14, LeaveStep DEF GraceExpires
<1>15. ASSUME NEW q \in Sessions, FinishDetaches(q) PROVE PollIsCurrent' /\ Balanced(s)'
  BY <1>15, LeaveStep DEF FinishDetaches
<1> QED
  BY <1>1, <1>2, <1>3, <1>4, <1>5, <1>6, <1>7, <1>8, <1>9, <1>10, <1>11, <1>12, <1>13,
     <1>14, <1>15 DEF Next, Processes, Drain

\* The invariant is inductive.
LEMMA InvStep == Inv /\ [Next]_vars => Inv'
<1> SUFFICES ASSUME Inv, [Next]_vars PROVE Inv'
  OBVIOUS
<1>1. TypeOK'
  BY TypeStep DEF Inv
<1>2. \A s \in Sessions : Balanced(s)'
  BY AccountStep
<1>3. PollIsCurrent'
  BY PollStep DEF Inv
<1> QED
  BY <1>1, <1>2, <1>3 DEF Inv

\* The collector's state has its type, whatever the number of sessions and
\* processes and the capacity of the ring and the channel.
THEOREM TypeCorrect == Spec => []TypeOK
<1>1. Inv => TypeOK
  BY DEF Inv
<1> QED
  BY <1>1, InitInv, InvStep, PTL DEF Spec

\* Every event lost on overflow and every record lost in the kernel is, for an
\* attached session, reported or about to be: handle and pollKernelDrops lose no
\* count, in whatever order they and the detaching goroutine run.
THEOREM LossesAccounted == Spec => []LossesAreAccounted
<1>1. Inv => LossesAreAccounted
  BY DEF Inv, Balanced, LossesAreAccounted, Announced
<1> QED
  BY <1>1, InitInv, InvStep, PTL DEF Spec

-----------------------------------------------------------------------------
(***************************************************************************)
(* The counters, which sum over the sessions.                              *)
(***************************************************************************)
Numbers == [s \in Sessions |-> sess[s].seq]
Losses == [s \in Sessions |-> LostToOverflow(s)]

Entered == emitted = Len(ring) + drops + stats.decodeErrs + stats.received

LEMMA CountedBySums ==
  NothingUncounted <=> /\ Entered
                       /\ stats.received = stats.unattributed + SumFunction(Numbers)
                       /\ stats.overflow = SumFunction(Losses)
  BY DEF NothingUncounted, Numbers, Losses, Entered

LEMMA SumTypes ==
  ASSUME TypeOK
  PROVE  /\ Numbers \in [Sessions -> Int] /\ Losses \in [Sessions -> Int]
         /\ stats.received \in Nat /\ stats.decodeErrs \in Nat
         /\ stats.unattributed \in Nat /\ stats.overflow \in Nat
         /\ emitted \in Nat /\ drops \in Nat /\ Len(ring) \in Nat
         /\ SumFunction(Numbers) \in Int /\ SumFunction(Losses) \in Int
<1>1. \A s \in Sessions : sess[s].seq \in Int /\ LostToOverflow(s) \in Int
  BY AccountType DEF LostToOverflow
<1>2. Numbers \in [Sessions -> Int] /\ Losses \in [Sessions -> Int]
  BY <1>1 DEF Numbers, Losses
<1>3. SumFunction(Numbers) \in Int /\ SumFunction(Losses) \in Int
  BY <1>2, SessionsFinite, SumIsInteger
<1> QED
  BY <1>2, <1>3 DEF TypeOK, Stats

\* What is numbered, in hand and delivered of each session stays as it is.
SameAccounts ==
  \A s \in Sessions : /\ sess'[s].seq = sess[s].seq
                      /\ InHand(s)' = InHand(s)
                      /\ hist'[s].sent = hist[s].sent

LEMMA SameSums ==
  ASSUME SameAccounts
  PROVE  Numbers' = Numbers /\ Losses' = Losses
<1>1. \A s \in Sessions : LostToOverflow(s)' = LostToOverflow(s)
  BY DEF SameAccounts, LostToOverflow
<1> QED
  BY <1>1 DEF SameAccounts, Numbers, Losses

\* A step that concerns no record.
LEMMA NoRecordCounted ==
  ASSUME NothingUncounted, SameAccounts,
         UNCHANGED <<emitted, ring, drops, stats.decodeErrs, stats.received,
                     stats.unattributed, stats.overflow>>
  PROVE  NothingUncounted'
<1>1. Numbers' = Numbers /\ Losses' = Losses
  BY SameSums
<1>2. /\ Entered
      /\ stats.received = stats.unattributed + SumFunction(Numbers)
      /\ stats.overflow = SumFunction(Losses)
  BY CountedBySums
<1>3. Entered'
  BY <1>2 DEF Entered
<1>4. /\ stats'.received = stats'.unattributed + SumFunction(Numbers')
      /\ stats'.overflow = SumFunction(Losses')
  BY <1>1, <1>2
<1> QED
  BY <1>3, <1>4 DEF NothingUncounted, Numbers, Losses, Entered

\* A probe fires: its record is in the ring, or one of the drops.
LEMMA EmitCounts ==
  ASSUME TypeOK, NothingUncounted, NEW r \in ProbeRecord, Emit(r),
         UNCHANGED <<sess, hand, stats>>
  PROVE  NothingUncounted'
<1>1. hist \in [Sessions -> [lost : Nat, sent : Nat, reported : Nat]]
  BY DEF TypeOK
<1>2. hist' = hist \/ hist' = [hist EXCEPT ![r.session].lost = @ + 1]
  BY DEF Emit
<1>3. \A s \in Sessions : hist'[s].sent = hist[s].sent
  BY <1>1, <1>2
<1>4. Numbers' = Numbers /\ Losses' = Losses
  BY <1>3, SameSums DEF SameAccounts, InHand
<1>5. /\ Entered
      /\ stats.received = stats.unattributed + SumFunction(Numbers)
      /\ stats.overflow = SumFunction(Losses)
  BY CountedBySums
<1>6. Entered'
  <2>1. /\ emitted' = emitted + 1
        /\ \/ ring' = Append(ring, r) /\ drops' = drops
           \/ ring' = ring /\ drops' = drops + 1
    BY DEF Emit
  <2>2. ring \in Seq(ProbeRecord)
    BY DEF TypeOK
  <2>3. Len(Append(ring, r)) = Len(ring) + 1
    BY <2>2
  <2>4. /\ emitted \in Nat /\ drops \in Nat /\ Len(ring) \in Nat
        /\ stats.decodeErrs \in Nat /\ stats.received \in Nat
    BY SumTypes
  <2>5. stats' = stats
    OBVIOUS
  <2>6. \/ emitted' = emitted + 1 /\ Len(ring') = Len(ring) + 1 /\ drops' = drops
        \/ emitted' = emitted + 1 /\ Len(ring') = Len(ring) /\ drops' = drops + 1
    BY <2>1, <2>3
  <2> PICK len, len1, errs, got : /\ len = Len(ring) /\ len1 = Len(ring')
                                  /\ errs = stats.decodeErrs /\ got = stats.received
    OBVIOUS
  <2>8. emitted = len + drops + errs + got
    BY <1>5 DEF Entered
  <2>9. emitted \in Nat /\ drops \in Nat /\ len \in Nat /\ errs \in Nat /\ got \in Nat
    BY <2>4
  <2>10. \/ emitted' = emitted + 1 /\ len1 = len + 1 /\ drops' = drops
         \/ emitted' = emitted + 1 /\ len1 = len /\ drops' = drops + 1
    BY <2>6
  <2>11. emitted' = len1 + drops' + errs + got
    BY ONLY <2>8, <2>9, <2>10
  <2>7. emitted' = Len(ring') + drops' + stats.decodeErrs + stats.received
    BY <2>11
  <2> QED
    BY <2>5, <2>7 DEF Entered
<1>7. /\ stats'.received = stats'.unattributed + SumFunction(Numbers')
      /\ stats'.overflow = SumFunction(Losses')
  BY <1>4, <1>5
<1> QED
  BY <1>6, <1>7 DEF NothingUncounted, Numbers, Losses, Entered

\* A record is taken from the ring: it cannot be decoded, belongs to no session,
\* or is numbered.
LEMMA AttributeCounts ==
  ASSUME TypeOK, TypeOK', NothingUncounted, Attribute
  PROVE  NothingUncounted'
<1> DEFINE r == Head(ring)
<1>1. /\ hand = Idle /\ ring # <<>> /\ ring' = Tail(ring)
      /\ UNCHANGED <<drops, emitted, hist>>
  BY DEF Attribute, history
<1>2. /\ ring \in Seq(ProbeRecord) /\ sess \in [Sessions -> CollSession] /\ stats \in Stats
      /\ hist \in [Sessions -> [lost : Nat, sent : Nat, reported : Nat]]
  BY DEF TypeOK
<1>3. Len(ring') = Len(ring) - 1 /\ r \in ProbeRecord
  BY <1>1, <1>2
<1>4. /\ Entered
      /\ stats.received = stats.unattributed + SumFunction(Numbers)
      /\ stats.overflow = SumFunction(Losses)
  BY CountedBySums
<1>5. CASE UNCHANGED <<sess, hand>>
  <2>1. Numbers' = Numbers /\ Losses' = Losses
    BY <1>1, <1>5, SameSums DEF SameAccounts, InHand
  <2>2. \/ stats' = [stats EXCEPT !.decodeErrs = @ + 1]
        \/ stats' = [Received EXCEPT !.unattributed = @ + 1]
    <3>1. hand' # [at |-> "observe", rec |-> r, seq |-> sess[r.session].seq + 1,
                   depth |-> 0, image |-> NoImage]
      BY <1>1, <1>5 DEF Idle
    <3> QED
      BY <3>1 DEF Attribute
  <2>3. /\ \/ /\ stats'.decodeErrs = stats.decodeErrs + 1 /\ stats'.received = stats.received
              /\ stats'.unattributed = stats.unattributed
           \/ /\ stats'.decodeErrs = stats.decodeErrs /\ stats'.received = stats.received + 1
              /\ stats'.unattributed = stats.unattributed + 1
        /\ stats'.overflow = stats.overflow
    BY <1>2, <2>2 DEF Stats, Received
  <2> DEFINE n == SumFunction(Numbers)
  <2>4. /\ emitted \in Nat /\ drops \in Nat /\ Len(ring) \in Nat /\ n \in Int
        /\ stats.decodeErrs \in Nat /\ stats.received \in Nat /\ stats.unattributed \in Nat
    BY SumTypes
  <2> HIDE DEF n
  <2>5. emitted' = Len(ring') + drops' + stats'.decodeErrs + stats'.received
    <3>1. emitted' = emitted /\ drops' = drops /\ Len(ring') = Len(ring) - 1
      BY <1>1, <1>3
    <3> PICK len, len1, errs, got, errs1, got1 :
          /\ len = Len(ring) /\ errs = stats.decodeErrs /\ got = stats.received
          /\ len1 = Len(ring') /\ errs1 = stats'.decodeErrs /\ got1 = stats'.received
      OBVIOUS
    <3>2. emitted = len + drops + errs + got
      BY <1>4 DEF Entered
    <3>3. drops \in Nat /\ len \in Nat /\ errs \in Nat /\ got \in Nat
      BY <2>4
    <3>4. errs1 + got1 = errs + got + 1 /\ errs1 \in Nat /\ got1 \in Nat
      BY <2>3, <3>3
    <3>5. emitted' = emitted /\ drops' = drops /\ len1 = len - 1
      BY <3>1
    <3>6. emitted' = len1 + drops' + errs1 + got1
      BY ONLY <3>2, <3>3, <3>4, <3>5
    <3> QED
      BY <3>6
  <2>6. stats.received = stats.unattributed + n
    BY <1>4 DEF n
  <2>7. stats'.received = stats'.unattributed + n
    BY <2>3, <2>4, <2>6
  <2>8. stats'.overflow = SumFunction(Losses')
    BY <1>4, <2>1, <2>3
  <2>9. Entered'
    BY <2>5 DEF Entered
  <2>10. stats'.received = stats'.unattributed + SumFunction(Numbers')
    BY <2>1, <2>7 DEF n
  <2> QED
    BY <2>8, <2>9, <2>10 DEF NothingUncounted, Numbers, Losses, Entered
<1>6. CASE ~UNCHANGED <<sess, hand>>
  <2>1. /\ stats' = Received
        /\ sess' = [sess EXCEPT ![r.session].seq = @ + 1]
        /\ hand' = [at |-> "observe", rec |-> r, seq |-> sess[r.session].seq + 1,
                    depth |-> 0, image |-> NoImage]
    BY <1>6 DEF Attribute
  <2>2. /\ stats'.received = stats.received + 1 /\ stats'.unattributed = stats.unattributed
        /\ stats'.decodeErrs = stats.decodeErrs /\ stats'.overflow = stats.overflow
    BY <1>2, <2>1 DEF Stats, Received
  <2>3. PICK q \in Sessions : q = r.session
    BY <1>3 DEF ProbeRecord
  <2> HIDE DEF r
  <2>4. hand'.at = "observe" /\ hand'.rec.session = q
    BY <2>1, <2>3
  <2>5. /\ sess'[q].seq = sess[q].seq + 1
        /\ \A s \in Sessions : s # q => sess'[s] = sess[s]
    BY <1>2, <2>1, <2>3 DEF CollSession
  <2>6. \A s \in Sessions : InHand(s) = 0 /\ InHand(s)' = IF s = q THEN 1 ELSE 0
    BY <1>1, <2>4 DEF InHand, Idle
  <2>7. \A s \in Sessions : LostToOverflow(s)' = LostToOverflow(s)
    <3> TAKE s \in Sessions
    <3>1. sess[s].seq \in Nat /\ hist[s].sent \in Nat
      BY AccountType
    <3> QED
      BY <1>1, <2>5, <2>6, <3>1 DEF LostToOverflow
  <2>8. Losses' = Losses
    BY <2>7 DEF Losses
  <2>9. SumFunction(Numbers') = SumFunction(Numbers) + 1
    <3> DEFINE f == Numbers
               g == Numbers'
    <3>0. \A s \in Sessions : sess[s].seq \in Int /\ sess'[s].seq \in Int
      BY <2>5, AccountType
    <3>1. f \in [Sessions -> Int] /\ g \in [Sessions -> Int]
      BY <3>0 DEF Numbers
    <3>2. f[q] \in Int /\ g[q] = f[q] + 1 /\ \A s \in Sessions : s # q => g[s] = f[s]
      BY <2>5, <3>1 DEF Numbers
    <3> HIDE DEF f, g
    <3>3. SumFunction(g) = SumFunction(f) + (g[q] - f[q])
      BY <3>1, <3>2, SessionsFinite, SumFollows
    <3>4. SumFunction(f) \in Int
      BY <3>1, SessionsFinite, SumIsInteger
    <3>5. SumFunction(g) = SumFunction(f) + 1
      BY <3>2, <3>3, <3>4
    <3> QED
      BY <3>5 DEF f, g
  <2>10. Entered'
    <3>1. /\ emitted \in Nat /\ drops \in Nat /\ Len(ring) \in Nat
          /\ stats.decodeErrs \in Nat /\ stats.received \in Nat
      BY SumTypes
    <3>2. emitted' = Len(ring') + drops' + stats'.decodeErrs + stats'.received
      BY <1>1, <1>3, <1>4, <2>2, <3>1 DEF Entered
    <3> QED
      BY <3>2 DEF Entered
  <2>11. /\ stats'.received = stats'.unattributed + SumFunction(Numbers')
         /\ stats'.overflow = SumFunction(Losses')
    BY <1>4, <2>2, <2>8, <2>9, SumTypes
  <2> QED
    BY <2>10, <2>11 DEF NothingUncounted, Numbers, Losses, Entered
<1> QED
  BY <1>5, <1>6

\* The event in hand is delivered, or lost on overflow and counted.
LEMMA DeliverCounts ==
  ASSUME TypeOK, TypeOK', NothingUncounted, Deliver
  PROVE  NothingUncounted'
<1>1. /\ hand.at = "deliver" /\ hand' = Idle /\ UNCHANGED <<ring, drops, emitted>>
  BY DEF Deliver, kernel
<1>2. /\ sess \in [Sessions -> CollSession] /\ stats \in Stats
      /\ hist \in [Sessions -> [lost : Nat, sent : Nat, reported : Nat]]
  BY DEF TypeOK
<1>3. PICK q \in Sessions : q = hand.rec.session
  BY <1>1 DEF TypeOK, Hand, Idle, ProbeRecord
<1>4. /\ Entered
      /\ stats.received = stats.unattributed + SumFunction(Numbers)
      /\ stats.overflow = SumFunction(Losses)
  BY CountedBySums
<1>5. \A s \in Sessions : InHand(s)' = 0 /\ InHand(s) = IF s = q THEN 1 ELSE 0
  BY <1>1, <1>3 DEF InHand, Idle
<1>6. Send(q) \/ Overflow(q)
  BY <1>3 DEF Deliver
<1>7. \A s \in Sessions : sess'[s].seq = sess[s].seq
  <2>1. \/ sess' = [sess EXCEPT ![q].pending = 0]
        \/ sess' = [sess EXCEPT ![q].pending = @ + 1]
    BY <1>6 DEF Send, Overflow
  <2>2. CASE sess' = [sess EXCEPT ![q].pending = 0]
    BY ONLY <1>2, <2>2 DEF CollSession
  <2>3. CASE sess' = [sess EXCEPT ![q].pending = @ + 1]
    BY ONLY <1>2, <2>3 DEF CollSession
  <2> QED
    BY <2>1, <2>2, <2>3
<1>8. Numbers' = Numbers
  BY <1>7 DEF Numbers
<1>9. \A s \in Sessions : sess[s].seq \in Nat /\ hist[s].sent \in Nat
  BY AccountType
<1>10. CASE Send(q)
  <2>1. /\ stats' = stats
        /\ hist' = [hist EXCEPT ![q] = [lost |-> @.lost, sent |-> @.sent + 1,
                                        reported |-> @.reported + sess[q].pending]]
    BY <1>10 DEF Send
  <2>2. \A s \in Sessions : hist'[s].sent = hist[s].sent + InHand(s)
    BY <1>2, <1>5, <1>9, <2>1
  <2>3. \A s \in Sessions : LostToOverflow(s)' = LostToOverflow(s)
    BY <1>5, <1>7, <1>9, <2>2 DEF LostToOverflow
  <2>4. Losses' = Losses
    BY <2>3 DEF Losses
  <2> QED
    BY <1>1, <1>4, <1>8, <2>1, <2>4 DEF NothingUncounted, Numbers, Losses, Entered
<1>11. CASE Overflow(q)
  <2>1. hist' = hist /\ stats' = [stats EXCEPT !.overflow = @ + 1]
    BY <1>11 DEF Overflow
  <2>2. /\ stats'.received = stats.received /\ stats'.unattributed = stats.unattributed
        /\ stats'.decodeErrs = stats.decodeErrs /\ stats'.overflow = stats.overflow + 1
    BY <1>2, <2>1 DEF Stats
  <2>3. \A s \in Sessions : LostToOverflow(s)' = LostToOverflow(s) + InHand(s)
    BY <1>5, <1>7, <1>9, <2>1 DEF LostToOverflow
  <2>4. SumFunction(Losses') = SumFunction(Losses) + 1
    <3> DEFINE f == Losses
               g == Losses'
    <3>1. \A s \in Sessions : LostToOverflow(s) \in Int /\ LostToOverflow(s)' \in Int
      <4>1. \A s \in Sessions : LostToOverflow(s) \in Int
        BY <1>5, <1>9 DEF LostToOverflow
      <4> QED
        BY <1>5, <2>3, <4>1
    <3>2. f \in [Sessions -> Int] /\ g \in [Sessions -> Int]
      BY <3>1 DEF Losses
    <3>3. f[q] \in Int /\ g[q] = f[q] + 1 /\ \A s \in Sessions : s # q => g[s] = f[s]
      BY <1>5, <2>3, <3>1 DEF Losses
    <3> HIDE DEF f, g
    <3>4. SumFunction(g) = SumFunction(f) + (g[q] - f[q])
      BY <3>2, <3>3, SessionsFinite, SumFollows
    <3>5. SumFunction(f) \in Int
      BY <3>2, SessionsFinite, SumIsInteger
    <3>6. SumFunction(g) = SumFunction(f) + 1
      BY <3>3, <3>4, <3>5
    <3> QED
      BY <3>6 DEF f, g
  <2>5. Entered'
    BY <1>1, <1>4, <2>2 DEF Entered
  <2>6. /\ stats'.received = stats'.unattributed + SumFunction(Numbers')
        /\ stats'.overflow = SumFunction(Losses')
    BY <1>4, <1>8, <2>2, <2>4
  <2> QED
    BY <2>5, <2>6 DEF NothingUncounted, Numbers, Losses, Entered
<1> QED
  BY <1>6, <1>10, <1>11

LEMMA CountStep ==
  ASSUME TypeOK, TypeOK', NothingUncounted, [Next]_vars
  PROVE  NothingUncounted'
<1> USE DEF kernel, collector, consumer, history
<1>1. CASE Processes
  <2>1. ASSUME NEW p \in DOMAIN alive, NEW pid \in PIDs, Fork(p, pid) PROVE NothingUncounted'
    BY <2>1, NoRecordCounted DEF Fork, SameAccounts, InHand
  <2>2. ASSUME NEW p \in DOMAIN alive, NEW i \in Images, Exec(p, i) PROVE NothingUncounted'
    <3>1. Record("exec", p, i) \in ProbeRecord
      BY RecordType
    <3> QED
      BY <2>2, <3>1, EmitCounts DEF Exec
  <2>3. ASSUME NEW p \in DOMAIN alive, NEW k \in {"other", "garbled"}, Act(p, k)
        PROVE  NothingUncounted'
    <3>1. alive[p].image \in Images
      BY DEF TypeOK, Process
    <3>2. Record(k, p, alive[p].image) \in ProbeRecord
      BY <3>1, RecordType
    <3> QED
      BY <2>3, <3>2, EmitCounts DEF Act
  <2>4. ASSUME NEW p \in DOMAIN alive, Exit(p) PROVE NothingUncounted'
    <3>1. alive[p].image \in Images
      BY DEF TypeOK, Process
    <3>2. Record("exit", p, alive[p].image) \in ProbeRecord
      BY <3>1, RecordType
    <3> QED
      BY <2>4, <3>2, EmitCounts DEF Exit
  <2> QED
    BY <1>1, <2>1, <2>2, <2>3, <2>4 DEF Processes
<1>2. CASE Attribute \/ Deliver
  BY <1>2, AttributeCounts, DeliverCounts
<1>3. CASE ObserveProcess \/ Enrich
  <2>1. \/ hand.at = "observe" /\ hand'.at = "enrich" /\ hand'.rec = hand.rec
        \/ hand.at = "enrich" /\ hand'.at = "deliver" /\ hand'.rec = hand.rec
    <3>1. CASE ObserveProcess
      <4>1. /\ hand.at = "observe"
            /\ \E d, i : hand' = [hand EXCEPT !.at = "enrich", !.depth = d, !.image = i]
        BY <3>1 DEF ObserveProcess
      <4> QED BY <4>1 DEF TypeOK, Hand, Idle
    <3>2. CASE Enrich
      <4>1. /\ hand.at = "enrich"
            /\ \E i : hand' = [hand EXCEPT !.at = "deliver", !.image = i]
        BY <3>2 DEF Enrich
      <4> QED BY <4>1 DEF TypeOK, Hand, Idle
    <3> QED BY <1>3, <3>1, <3>2
  <2>2. SameAccounts
    BY <1>3, <2>1 DEF SameAccounts, InHand, ObserveProcess, Enrich
  <2> QED
    BY <1>3, <2>2, NoRecordCounted DEF ObserveProcess, Enrich
<1>4. CASE PollReads
  <2>1. SameAccounts
    BY <1>4 DEF SameAccounts, InHand, PollReads, Idle
  <2> QED
    BY <1>4, <2>1, NoRecordCounted DEF PollReads
<1>5. CASE PollCharges
  <2>1. \A s \in Sessions : sess'[s].seq = sess[s].seq
    <3> DEFINE delta == hand.n - lastKernel
    <3>1. \A s \in Sessions : sess'[s] = IF sess[s].st = "attached"
                                         THEN [sess[s] EXCEPT !.pending = @ + delta] ELSE sess[s]
      BY <1>5 DEF PollCharges
    <3> HIDE DEF delta
    <3> QED
      BY <3>1 DEF TypeOK, CollSession
  <2>2. SameAccounts
    BY <1>5, <2>1 DEF SameAccounts, InHand, PollCharges, Idle
  <2>3. UNCHANGED <<stats.decodeErrs, stats.received, stats.unattributed, stats.overflow>>
    BY <1>5 DEF PollCharges, TypeOK, Stats
  <2> QED
    BY <1>5, <2>2, <2>3, NoRecordCounted DEF PollCharges
<1>6. CASE \E s \in Sessions : \/ GraceExpires(s) \/ FinishDetaches(s)
                             \/ \E pid \in PIDs : Attach(s, pid) \/ AttachFails(s, pid)
  <2>1. PICK q \in Sessions, st \in {"attached", "detached", "gone"} :
                                                      sess' = [sess EXCEPT ![q].st = st]
    BY <1>6 DEF GraceExpires, FinishDetaches, Attach, AttachFails
  <2>2. \A s \in Sessions : sess'[s].seq = sess[s].seq
    BY <2>1 DEF TypeOK, CollSession
  <2>3. UNCHANGED <<hand, hist, stats, emitted, ring, drops>>
    BY <1>6 DEF GraceExpires, FinishDetaches, Attach, AttachFails
  <2>4. SameAccounts
    BY <2>2, <2>3 DEF SameAccounts, InHand
  <2> QED
    BY <2>3, <2>4, NoRecordCounted
<1>7. CASE Close \/ DrainEnds \/ Take \/ FinishUntracks \/ FinishEnds \/ UNCHANGED vars
  <2>1. UNCHANGED <<sess, hand, hist, stats, emitted, ring, drops>>
    BY <1>7 DEF Close, DrainEnds, Take, FinishUntracks, FinishEnds, vars
  <2> QED
    BY <2>1, NoRecordCounted DEF SameAccounts, InHand
<1> QED
  BY <1>1, <1>2, <1>3, <1>4, <1>5, <1>6, <1>7 DEF Next, Drain

LEMMA CountInit == Init => NothingUncounted
<1> SUFFICES ASSUME Init PROVE NothingUncounted
  OBVIOUS
<1>1. /\ \A s \in Sessions : sess[s].seq = 0 /\ hist[s].sent = 0 /\ InHand(s) = 0
      /\ emitted = 0 /\ ring = <<>> /\ drops = 0
      /\ stats.received = 0 /\ stats.decodeErrs = 0 /\ stats.unattributed = 0
      /\ stats.overflow = 0
  BY DEF Init, InHand, Idle
<1>2. TypeOK
  BY InitInv DEF Inv
<1>3. /\ \A s \in Sessions : Numbers[s] = 0 /\ Losses[s] = 0
      /\ Numbers \in [Sessions -> Int] /\ Losses \in [Sessions -> Int]
  BY <1>1, <1>2, SumTypes DEF Numbers, Losses, LostToOverflow
<1>4. SumFunction(Numbers) = 0 /\ SumFunction(Losses) = 0
  <2>1. PICK a : a \notin Sessions
    <3>1. {x \in Sessions : x \notin x} \notin Sessions
      OBVIOUS
    <3> QED
      BY <3>1
  <2> QED
    BY <1>3, <2>1, SessionsFinite, SumOfOne
<1> QED
  BY <1>1, <1>4, CountedBySums DEF Entered

\* No record the probes wanted to emit vanishes uncounted: it is in the ring, in
\* the goroutine's hands, delivered, or in one of the counters that handle and
\* pollKernelDrops publish, with the sessions' own numbers adding up to them.
THEOREM RecordsAreCounted == Spec => []NothingUncounted
<1>1. Inv => TypeOK
  BY DEF Inv
<1>2. Inv /\ NothingUncounted /\ [Next]_vars => NothingUncounted'
  BY <1>1, InvStep, CountStep DEF Inv
<1> QED
  BY <1>1, <1>2, CountInit, InitInv, InvStep, PTL DEF Spec

-----------------------------------------------------------------------------
(***************************************************************************)
(* Ancestry: the tracker's tables agree, and the depth an event is given   *)
(* below its session's root is sound, whatever PIDs are used again.        *)
(***************************************************************************)

\* What the goroutine has yet to work off, and what it knows of it: the record
\* whose exec or exit the tracker has not learnt, then the ring.
Queue == (IF hand.at \in {"observe", "enrich"} THEN <<hand.rec>> ELSE <<>>) \o ring

\* The session is attached or in its grace period, and its root kept its place.
Good(s) == sess[s].st \in {"attached", "detached"} /\ s \notin displaced

Claim(p, s, g) == [proc |-> p, session |-> s, gen |-> g]

\* What is said of processes: by themselves, while they live, and by records.
Claims ==
  {Claim(p, alive[p].session, alive[p].gen) : p \in DOMAIN alive}
    \cup {Claim(Queue[i].proc, Queue[i].session, Queue[i].gen) : i \in DOMAIN Queue}

Sound(depth, gen) == depth <= gen /\ (depth = 0 <=> gen = 0)

-----------------------------------------------------------------------------
\* Processes, their numbers and their parents.
Lineage ==
  /\ \A p \in DOMAIN alive : \A q \in DOMAIN alive : p[1] = q[1] => p = q
  /\ \A p \in DOMAIN alive :
       /\ alive[p].parent[2] <= starts
       /\ alive[p].parent \in DOMAIN alive => alive[p].gen = alive[alive[p].parent].gen + 1
  /\ \A c \in Claims : c.proc[1] # Outside /\ c.proc[2] <= starts
                       /\ sess[c.session].st # "none"
  /\ \A p \in DOMAIN tracker.procs : p[1] # Outside /\ p[2] <= starts
                                      /\ sess[tracker.procs[p].session].st # "none"
  /\ \A i \in DOMAIN Queue : Queue[i].ppid # Queue[i].proc[1]

\* Nobody says two things of a process, and a session has one root.
Consistent ==
  /\ \A c, d \in Claims : c.proc = d.proc => c = d
  /\ \A c, d \in Claims : c.session = d.session /\ c.gen = 0 /\ d.gen = 0 => c = d
  /\ \A c \in Claims : c.proc \in DOMAIN tracker.procs =>
       tracker.procs[c.proc].session = c.session

\* A process that has exited says nothing more.
ExitIsLast ==
  \A i \in DOMAIN Queue : Queue[i].kind = "exit" =>
    /\ Queue[i].proc \notin DOMAIN alive
    /\ \A j \in DOMAIN Queue : i < j => Queue[j].proc # Queue[i].proc

\* The goroutine and the loop work for sessions that have been attached.
Stages ==
  /\ hand.at \in {"observe", "enrich", "deliver"} =>
       hand.rec.kind # "garbled" /\ sess[hand.rec.session].st # "none"
  /\ loop.at \in {"untrack", "outcome"} => sess[loop.session].st \in {"detached", "gone"}
  /\ loop.at = "outcome" => loop.session \notin tracked

-----------------------------------------------------------------------------
Awaited(s, pid) == pid \in DOMAIN tracker.roots /\ tracker.roots[pid] = s

\* A record that will take the place of the awaited root.
RootRecord(s, pid, i) ==
  Queue[i].session = s /\ Queue[i].proc[1] = pid /\ Queue[i].gen = 0 /\ Queue[i].kind # "garbled"

\* An awaited root has not been entered, and is the first of its PID to be.
RootComesFirst ==
  \A pid \in DOMAIN tracker.roots :
    LET s == tracker.roots[pid] IN
    Good(s) =>
      /\ \A p \in DOMAIN tracker.procs : p[1] = pid => tracker.procs[p].session # s
      /\ hand.at = "enrich" => ~(hand.rec.session = s /\ hand.rec.proc[1] = pid)
      /\ \A i \in DOMAIN Queue :
           Queue[i].session = s /\ Queue[i].proc[1] = pid /\ Queue[i].kind # "garbled" =>
             \E j \in 1..i : RootRecord(s, pid, j)
      /\ s \in tracked =>
           \/ \E j \in DOMAIN Queue : RootRecord(s, pid, j)
           \/ \E p \in DOMAIN alive :
                p[1] = pid /\ alive[p].session = s /\ alive[p].gen = 0

\* A root is awaited or known for as long as it has something to say.
RootIsPlaced ==
  \A c \in Claims : c.gen = 0 /\ Good(c.session) =>
    Awaited(c.session, c.proc[1]) \/ c.proc \in DOMAIN tracker.procs

\* The tracker's depths are sound.
PlacedSoundly ==
  \A c \in Claims : c.proc \in DOMAIN tracker.procs /\ Good(c.session) =>
    Sound(tracker.procs[c.proc].depth, c.gen)

ExitPending(p, n) == \E k \in 1..n : Queue[k].proc = p /\ Queue[k].kind = "exit"

\* A process that is known, or about to be, lives or its exit will be handled.
ExitIsReported ==
  /\ \A p \in DOMAIN tracker.procs :
       LET s == tracker.procs[p].session IN
       Good(s) /\ s \in tracked => p \in DOMAIN alive \/ ExitPending(p, Len(Queue))
  /\ \A i \in DOMAIN Queue :
       Good(Queue[i].session) /\ Queue[i].session \in tracked =>
         Queue[i].proc \in DOMAIN alive \/ ExitPending(Queue[i].proc, Len(Queue))

\* Whoever will hold a parent's PID when the record is handled is above it.
ParentIsAbove ==
  \A i \in DOMAIN Queue : Good(Queue[i].session) =>
    /\ \A q \in DOMAIN tracker.procs :
         q[1] = Queue[i].ppid /\ tracker.procs[q].session = Queue[i].session =>
           ExitPending(q, i - 1) \/ tracker.procs[q].depth < Queue[i].gen
    /\ \A j \in 1..(i - 1) :
         Queue[j].proc[1] = Queue[i].ppid /\ Queue[j].session = Queue[i].session =>
           ExitPending(Queue[j].proc, i - 1) \/ Queue[j].gen < Queue[i].gen

\* What Observe has returned.
HandIsSound ==
  hand.at \in {"enrich", "deliver"} /\ Good(hand.rec.session) =>
    Sound(hand.depth, hand.rec.gen)

Placed ==
  RootComesFirst /\ RootIsPlaced /\ PlacedSoundly /\ ExitIsReported /\ ParentIsAbove
  /\ HandIsSound

Ancestry ==
  TypeOK /\ TrackerAgrees /\ Lineage /\ Consistent /\ ExitIsLast /\ Stages
  /\ (drops = 0 => Placed)
-----------------------------------------------------------------------------
(***************************************************************************)
(* The queue.                                                              *)
(***************************************************************************)
IsQueue == Queue \in Seq(ProbeRecord) /\ DOMAIN Queue = 1..Len(Queue) /\ Len(Queue) \in Nat

Pushed(r) ==
  /\ Len(Queue') = Len(Queue) + 1
  /\ \A i \in DOMAIN Queue' : Queue'[i] = IF i \in DOMAIN Queue THEN Queue[i] ELSE r

Popped ==
  /\ 1 \in DOMAIN Queue /\ Len(Queue') = Len(Queue) - 1
  /\ \A i \in DOMAIN Queue' : i + 1 \in DOMAIN Queue /\ Queue'[i] = Queue[i + 1]

LEMMA QueueType == ASSUME TypeOK PROVE IsQueue
<1>1. ring \in Seq(ProbeRecord)
  BY DEF TypeOK
<1>2. hand.at \in {"observe", "enrich"} => hand.rec \in ProbeRecord
  BY DEF TypeOK, Hand, Idle
<1>3. Queue \in Seq(ProbeRecord)
  BY <1>1, <1>2 DEF Queue
<1> HIDE DEF Queue
<1> QED BY <1>3 DEF IsQueue

LEMMA QueueTypeNext == ASSUME TypeOK' PROVE IsQueue'
<1>1. ring' \in Seq(ProbeRecord)
  BY DEF TypeOK
<1>2. hand'.at \in {"observe", "enrich"} => hand'.rec \in ProbeRecord
  BY DEF TypeOK, Hand, Idle
<1>3. Queue' \in Seq(ProbeRecord)
  BY <1>1, <1>2 DEF Queue
<1> QED BY <1>3 DEF IsQueue

\* A record enters the ring.
LEMMA QueuePushed ==
  ASSUME TypeOK, NEW r \in ProbeRecord, ring' = Append(ring, r), hand' = hand
  PROVE  Pushed(r)
<1> DEFINE h == IF hand.at \in {"observe", "enrich"} THEN <<hand.rec>> ELSE <<>>
<1>1. ring \in Seq(ProbeRecord) /\ h \in Seq(ProbeRecord)
  BY DEF TypeOK, Hand, Idle
<1>2. Queue = h \o ring /\ Queue' = h \o Append(ring, r)
  BY DEF Queue
<1> HIDE DEF h
<1>3. Queue' = Append(Queue, r)
  BY <1>1, <1>2
<1>4. Queue \in Seq(ProbeRecord)
  BY <1>1, <1>2
<1> QED BY <1>3, <1>4 DEF Pushed

\* A record is taken from the ring, or passed over.
LEMMA QueueTaken ==
  ASSUME TypeOK, hand = Idle, ring # <<>>, ring' = Tail(ring)
  PROVE  /\ Queue # <<>> /\ 1 \in DOMAIN Queue /\ Queue[1] = Head(ring)
         /\ hand'.at = "observe" /\ hand'.rec = Head(ring) => Queue' = Queue
         /\ hand' = hand => Popped
<1>1. ring \in Seq(ProbeRecord)
  BY DEF TypeOK
<1>2. Queue = ring
  BY <1>1 DEF Queue, Idle
<1>3. CASE hand'.at = "observe" /\ hand'.rec = Head(ring)
  <2>1. Queue' = <<Head(ring)>> \o Tail(ring)
    BY <1>3 DEF Queue
  <2> QED BY <1>1, <1>2, <1>3, <2>1 DEF Idle
<1>4. CASE hand' = hand
  <2>1. Queue' = Tail(Queue)
    BY <1>1, <1>2, <1>4 DEF Queue, Idle
  <2> QED BY <1>1, <1>2, <1>4, <2>1 DEF Popped, Idle
<1> QED BY <1>1, <1>2, <1>3, <1>4

\* The record in hand is done with.
LEMMA QueueRetired ==
  ASSUME TypeOK, hand.at = "enrich", hand'.at = "deliver", ring' = ring
  PROVE  Popped /\ Queue[1] = hand.rec
<1>1. ring \in Seq(ProbeRecord) /\ hand.rec \in ProbeRecord
  BY DEF TypeOK, Hand, Idle
<1>2. Queue = <<hand.rec>> \o ring /\ Queue' = ring
  BY <1>1 DEF Queue
<1> QED BY <1>1, <1>2 DEF Popped

\* The record in hand is the first.
LEMMA QueueHead ==
  ASSUME TypeOK, hand.at \in {"observe", "enrich"}
  PROVE  1 \in DOMAIN Queue /\ Queue[1] = hand.rec
<1>1. ring \in Seq(ProbeRecord) /\ hand.rec \in ProbeRecord
  BY DEF TypeOK, Hand, Idle
<1>2. Queue = <<hand.rec>> \o ring
  BY DEF Queue
<1> QED BY <1>1, <1>2

-----------------------------------------------------------------------------
(***************************************************************************)
(* Steps that take away: processes, sessions, what the tracker knows of    *)
(* them, or nothing.                                                       *)
(***************************************************************************)
GoodNext(s) == sess'[s].st \in {"attached", "detached"} /\ s \notin displaced'

\* Whoever lives has lived, as the same.
LivesKept ==
  \A p \in DOMAIN alive' :
    /\ p \in DOMAIN alive /\ alive'[p].session = alive[p].session
    /\ alive'[p].parent = alive[p].parent /\ alive'[p].gen = alive[p].gen

SessionsKept ==
  \A s \in Sessions :
    (sess[s].st # "none" => sess'[s].st # "none") /\ (GoodNext(s) => Good(s))

TablesShrink ==
  /\ \A p \in DOMAIN tracker'.procs :
       p \in DOMAIN tracker.procs /\ tracker'.procs[p] = tracker.procs[p]
  /\ \A p \in DOMAIN tracker.procs \ DOMAIN tracker'.procs : ~GoodNext(tracker.procs[p].session)
  /\ \A pid \in DOMAIN tracker'.roots :
       pid \in DOMAIN tracker.roots /\ tracker'.roots[pid] = tracker.roots[pid]
  /\ \A pid \in DOMAIN tracker.roots \ DOMAIN tracker'.roots : ~GoodNext(tracker.roots[pid])

Ebb ==
  /\ LivesKept
  /\ \A p \in DOMAIN alive \ DOMAIN alive' : alive[p].session \notin tracked'
  /\ starts <= starts' /\ tracked' \subseteq tracked /\ drops' = drops /\ Queue' = Queue
  /\ hand' = hand \/ hand'.at \notin {"enrich", "deliver"}
  /\ SessionsKept /\ TablesShrink

\* What the types say of whom.
LEMMA Typed ==
  ASSUME TypeOK
  PROVE  /\ \A c \in Claims : c.session \in Sessions /\ c.gen \in Nat /\ c.proc \in ProcID
         /\ \A p \in DOMAIN alive : alive[p].session \in Sessions /\ alive[p].gen \in Nat
                                    /\ p \in ProcID
         /\ \A i \in DOMAIN Queue : /\ Queue[i].session \in Sessions /\ Queue[i].gen \in Nat
                                    /\ Queue[i].proc \in ProcID /\ Queue[i].ppid \in Nat
         /\ \A p \in DOMAIN tracker.procs :
              /\ tracker.procs[p].session \in Sessions /\ tracker.procs[p].depth \in Nat
              /\ p \in ProcID
         /\ \A pid \in DOMAIN tracker.roots : tracker.roots[pid] \in Sessions
         /\ starts \in Nat /\ drops \in Nat
<1>1. \A p \in DOMAIN alive : alive[p].session \in Sessions /\ alive[p].gen \in Nat
                              /\ p \in ProcID
  BY DEF TypeOK, Process
<1>2. \A i \in DOMAIN Queue : /\ Queue[i].session \in Sessions /\ Queue[i].gen \in Nat
                              /\ Queue[i].proc \in ProcID /\ Queue[i].ppid \in Nat
  <2>1. \A i \in DOMAIN Queue : Queue[i] \in ProbeRecord
    BY QueueType DEF IsQueue
  <2> QED BY <2>1 DEF ProbeRecord
<1>3. \A c \in Claims : c.session \in Sessions /\ c.gen \in Nat /\ c.proc \in ProcID
  BY <1>1, <1>2 DEF Claims, Claim
<1>4. \A p \in DOMAIN tracker.procs :
        /\ tracker.procs[p].session \in Sessions /\ tracker.procs[p].depth \in Nat
        /\ p \in ProcID
  BY DEF TypeOK, TrackerType
<1>5. \A pid \in DOMAIN tracker.roots : tracker.roots[pid] \in Sessions
  BY DEF TypeOK, TrackerType
<1>6. starts \in Nat /\ drops \in Nat
  BY DEF TypeOK
<1> QED BY <1>1, <1>2, <1>3, <1>4, <1>5, <1>6

LEMMA HandType ==
  ASSUME TypeOK
  PROVE  /\ hand.at \in {"observe", "enrich", "deliver"} =>
              hand.rec \in ProbeRecord /\ hand.rec.session \in Sessions
         /\ loop.at \in {"untrack", "outcome"} => loop.session \in Sessions
<1>1. hand.at \in {"observe", "enrich", "deliver"} => hand.rec \in ProbeRecord
  BY DEF TypeOK, Hand, Idle
<1>2. loop.at \in {"untrack", "outcome"} => loop.session \in Sessions
  BY DEF TypeOK, Idle
<1> QED BY <1>1, <1>2 DEF ProbeRecord

\* Each claim is made by a living process or by a record.
LEMMA Claimants ==
  /\ \A p \in DOMAIN alive : Claim(p, alive[p].session, alive[p].gen) \in Claims
  /\ \A i \in DOMAIN Queue : Claim(Queue[i].proc, Queue[i].session, Queue[i].gen) \in Claims
  /\ \A c \in Claims :
       \/ c.proc \in DOMAIN alive /\ c.session = alive[c.proc].session /\ c.gen = alive[c.proc].gen
       \/ \E i \in DOMAIN Queue : c.proc = Queue[i].proc /\ c.session = Queue[i].session
                                  /\ c.gen = Queue[i].gen
  BY DEF Claims, Claim

LEMMA EbbClaims == ASSUME LivesKept, Queue' = Queue PROVE Claims' \subseteq Claims
  BY DEF LivesKept, Claims

LEMMA EbbBase ==
  ASSUME TypeOK, TypeOK', Lineage, Consistent, ExitIsLast, Ebb
  PROVE  Lineage' /\ Consistent' /\ ExitIsLast'
<1>1. Claims' \subseteq Claims
  BY EbbClaims DEF Ebb
<1>2. Lineage'
  <2>1. \A p \in DOMAIN alive' : \A q \in DOMAIN alive' : p[1] = q[1] => p = q
    BY DEF Lineage, Ebb, LivesKept
  <2>2. \A p \in DOMAIN alive' :
          /\ alive'[p].parent[2] <= starts'
          /\ alive'[p].parent \in DOMAIN alive' => alive'[p].gen = alive'[alive'[p].parent].gen + 1
    <3> SUFFICES ASSUME NEW p \in DOMAIN alive'
        PROVE
        /\ alive'[p].parent[2] <= starts'
        /\ alive'[p].parent \in DOMAIN alive' => alive'[p].gen = alive'[alive'[p].parent].gen + 1
      OBVIOUS
    <3>1. p \in DOMAIN alive /\ alive[p].parent \in ProcID /\ starts \in Nat /\ starts' \in Nat
      BY DEF Ebb, LivesKept, TypeOK, Process
    <3>2. alive[p].parent[2] \in Nat
      BY <3>1 DEF ProcID
    <3> QED BY <3>1, <3>2 DEF Lineage, Ebb, LivesKept
  <2>3. \A c \in Claims' : c.proc[1] # Outside /\ c.proc[2] <= starts'
                           /\ sess'[c.session].st # "none"
    <3> SUFFICES ASSUME NEW c \in Claims' 
                 PROVE c.proc[1] # Outside /\ c.proc[2] <= starts' /\ sess'[c.session].st # "none"
      OBVIOUS
    <3>1. c \in Claims /\ c.session \in Sessions /\ c.proc \in ProcID /\ starts \in Nat /\ starts' \in Nat
      BY <1>1, Typed DEF TypeOK
    <3>2. c.proc[2] \in Nat
      BY <3>1 DEF ProcID
    <3>3. c.proc[1] # Outside /\ c.proc[2] <= starts /\ sess[c.session].st # "none"
      BY <3>1 DEF Lineage
    <3> QED BY <3>1, <3>2, <3>3 DEF Ebb, SessionsKept
  <2>4. \A p \in DOMAIN tracker'.procs : p[1] # Outside /\ p[2] <= starts'
                                         /\ sess'[tracker'.procs[p].session].st # "none"
    <3> SUFFICES ASSUME NEW p \in DOMAIN tracker'.procs
                 PROVE  p[1] # Outside /\ p[2] <= starts' /\ sess'[tracker'.procs[p].session].st # "none"
      OBVIOUS
    <3>1. p \in DOMAIN tracker.procs /\ tracker'.procs[p] = tracker.procs[p]
      BY DEF Ebb, TablesShrink
    <3>2. p \in ProcID /\ starts \in Nat /\ starts' \in Nat /\ starts <= starts'
          /\ tracker.procs[p].session \in Sessions
      BY <3>1, Typed DEF TypeOK, Ebb
    <3>3. p[2] \in Nat
      BY <3>2 DEF ProcID
    <3> QED BY <3>1, <3>2, <3>3 DEF Lineage, Ebb, SessionsKept
  <2>5. \A i \in DOMAIN Queue' : Queue'[i].ppid # Queue'[i].proc[1]
    BY DEF Lineage, Ebb
  <2> QED BY <2>1, <2>2, <2>3, <2>4, <2>5 DEF Lineage
<1>3. Consistent'
  BY <1>1 DEF Consistent, Ebb, TablesShrink
<1>4. ExitIsLast'
  BY DEF ExitIsLast, Ebb, LivesKept
<1> QED BY <1>2, <1>3, <1>4

LEMMA EbbPlaced ==
  ASSUME TypeOK, TypeOK', Consistent, Placed, Ebb
  PROVE  Placed'
<1>1. Claims' \subseteq Claims
  BY EbbClaims DEF Ebb
<1>2. \A s \in Sessions : Good(s)' => Good(s)
  BY DEF Ebb, SessionsKept, Good, GoodNext
<1>3. \A s : Good(s)' <=> GoodNext(s)
  BY DEF Good, GoodNext
<1>q. IsQueue
  BY QueueType
<1>4. RootComesFirst'
  <2> SUFFICES ASSUME NEW pid \in DOMAIN tracker'.roots, NEW s \in Sessions, s = tracker'.roots[pid], Good(s)'
      PROVE
      /\ \A p \in DOMAIN tracker'.procs : p[1] = pid => tracker'.procs[p].session # s
      /\ hand'.at = "enrich" => ~(hand'.rec.session = s /\ hand'.rec.proc[1] = pid)
      /\ \A i \in DOMAIN Queue' :
           Queue'[i].session = s /\ Queue'[i].proc[1] = pid /\ Queue'[i].kind # "garbled" =>
             \E j \in 1..i : RootRecord(s, pid, j)'
      /\ s \in tracked' =>
           \/ \E j \in DOMAIN Queue' : RootRecord(s, pid, j)'
           \/ \E p \in DOMAIN alive' :
                p[1] = pid /\ alive'[p].session = s /\ alive'[p].gen = 0
    BY Typed DEF RootComesFirst, TypeOK, TrackerType
  <2>1. pid \in DOMAIN tracker.roots /\ s = tracker.roots[pid] /\ Good(s)
    BY <1>2 DEF Ebb, TablesShrink
  <2>2. \A j : RootRecord(s, pid, j)' <=> RootRecord(s, pid, j)
    BY DEF RootRecord, Ebb
  <2>3. \A p \in DOMAIN tracker'.procs : p[1] = pid => tracker'.procs[p].session # s
    BY <2>1 DEF RootComesFirst, Ebb, TablesShrink, Placed
  <2>4. hand'.at = "enrich" => ~(hand'.rec.session = s /\ hand'.rec.proc[1] = pid)
    BY <2>1 DEF RootComesFirst, Ebb, Placed
  <2>5. \A i \in DOMAIN Queue' :
           Queue'[i].session = s /\ Queue'[i].proc[1] = pid /\ Queue'[i].kind # "garbled" =>
             \E j \in 1..i : RootRecord(s, pid, j)'
    BY <2>1, <2>2 DEF RootComesFirst, Ebb, Placed
  <2>6. s \in tracked' =>
           \/ \E j \in DOMAIN Queue' : RootRecord(s, pid, j)'
           \/ \E p \in DOMAIN alive' :
                p[1] = pid /\ alive'[p].session = s /\ alive'[p].gen = 0
    <3> SUFFICES ASSUME s \in tracked', NEW p \in DOMAIN alive, p[1] = pid, alive[p].session = s, alive[p].gen = 0
                 PROVE p \in DOMAIN alive' /\ alive'[p].session = s /\ alive'[p].gen = 0
      BY <2>1, <2>2 DEF RootComesFirst, Ebb, Placed
    <3> QED BY DEF Ebb, LivesKept
  <2> QED BY <2>3, <2>4, <2>5, <2>6
<1>5. RootIsPlaced'
  <2> SUFFICES ASSUME NEW c \in Claims', c.gen = 0, Good(c.session)'
               PROVE  Awaited(c.session, c.proc[1])' \/ c.proc \in DOMAIN tracker'.procs
    BY DEF RootIsPlaced
  <2>1. c \in Claims /\ c.session \in Sessions /\ Good(c.session)
    BY <1>1, <1>2, Typed
  <2>2. CASE Awaited(c.session, c.proc[1])
    BY <1>3, <2>2 DEF Awaited, Ebb, TablesShrink
  <2>3. CASE c.proc \in DOMAIN tracker.procs
    <3>1. tracker.procs[c.proc].session = c.session
      BY <2>1, <2>3 DEF Consistent
    <3> QED BY <1>3, <2>3, <3>1 DEF Ebb, TablesShrink
  <2> QED BY <2>1, <2>2, <2>3 DEF RootIsPlaced, Placed
<1>6. PlacedSoundly'
  BY <1>1, <1>2, Typed DEF PlacedSoundly, Ebb, TablesShrink, Placed
<1>7. ExitIsReported'
  <2>1. \A p, n : ExitPending(p, n)' <=> ExitPending(p, n)
    BY DEF ExitPending, Ebb
  <2>2. ASSUME NEW p \in DOMAIN tracker'.procs, GoodNext(tracker'.procs[p].session),
               tracker'.procs[p].session \in tracked'
        PROVE  p \in DOMAIN alive' \/ ExitPending(p, Len(Queue))
    <3>1. p \in DOMAIN tracker.procs /\ tracker'.procs[p] = tracker.procs[p]
      BY DEF Ebb, TablesShrink
    <3>2. tracker.procs[p].session \in Sessions
      BY <3>1, Typed
    <3>3. Good(tracker.procs[p].session) /\ tracker.procs[p].session \in tracked
      BY <1>2, <2>2, <3>1, <3>2 DEF Ebb, Good, GoodNext
    <3>4. p \in DOMAIN alive => alive[p].session = tracker.procs[p].session
      <4> SUFFICES ASSUME p \in DOMAIN alive PROVE alive[p].session = tracker.procs[p].session
        OBVIOUS
      <4> QED BY <3>1, Claimants DEF Consistent, Claim
    <3> QED BY <2>2, <3>1, <3>3, <3>4 DEF ExitIsReported, Placed, Ebb
  <2>3. ASSUME NEW i \in DOMAIN Queue, Good(Queue[i].session)', Queue'[i].session \in tracked'
        PROVE  Queue[i].proc \in DOMAIN alive' \/ ExitPending(Queue[i].proc, Len(Queue))
    <3>1. Queue[i].session \in Sessions /\ Queue'[i] = Queue[i]
      BY Typed DEF Ebb
    <3>2. Good(Queue[i].session) /\ Queue[i].session \in tracked
      BY <1>2, <2>3, <3>1 DEF Ebb, Good, GoodNext
    <3>3. Queue[i].proc \in DOMAIN alive => alive[Queue[i].proc].session = Queue[i].session
      <4> SUFFICES ASSUME Queue[i].proc \in DOMAIN alive
                   PROVE  alive[Queue[i].proc].session = Queue[i].session
        OBVIOUS
      <4> QED BY Claimants DEF Consistent, Claim
    <3> QED BY <2>3, <3>1, <3>2, <3>3 DEF ExitIsReported, Placed, Ebb
  <2>4. Len(Queue') = Len(Queue) /\ DOMAIN Queue' = DOMAIN Queue
    BY DEF Ebb
  <2>5. \A p \in DOMAIN tracker'.procs :
       GoodNext(tracker'.procs[p].session) /\ tracker'.procs[p].session \in tracked' => p \in DOMAIN alive' \/ ExitPending(p, Len(Queue))'
    BY <2>1, <2>2, <2>4
  <2>6. \A i \in DOMAIN Queue' :
       Good(Queue[i].session)' /\ Queue'[i].session \in tracked' =>
         Queue'[i].proc \in DOMAIN alive' \/ ExitPending(Queue[i].proc, Len(Queue))'
    BY <2>1, <2>3, <2>4 DEF Ebb
  <2> QED BY <2>5, <2>6 DEF ExitIsReported, Good, GoodNext
<1>8. ParentIsAbove'
  <2>1. \A p, n : ExitPending(p, n)' <=> ExitPending(p, n)
    BY DEF ExitPending, Ebb
  <2> SUFFICES ASSUME NEW i \in DOMAIN Queue', Good(Queue[i].session)'
      PROVE
      /\ \A q \in DOMAIN tracker'.procs :
           q[1] = Queue'[i].ppid /\ tracker'.procs[q].session = Queue'[i].session =>
             ExitPending(q, i - 1)' \/ tracker'.procs[q].depth < Queue'[i].gen
      /\ \A j \in 1..(i - 1) :
           Queue'[j].proc[1] = Queue'[i].ppid /\ Queue'[j].session = Queue'[i].session =>
             ExitPending(Queue[j].proc, i - 1)' \/ Queue'[j].gen < Queue'[i].gen
    BY DEF ParentIsAbove
  <2>2. i \in DOMAIN Queue /\ Queue' = Queue
    BY DEF Ebb
  <2>3. Good(Queue[i].session)
    BY <1>2, <2>2, Typed DEF Ebb, Good, GoodNext
  <2> QED BY <2>1, <2>2, <2>3 DEF ParentIsAbove, Placed, Ebb, TablesShrink
<1>9. HandIsSound'
  <2>1. CASE hand' = hand /\ hand.at \in {"enrich", "deliver"}
    <3>1. hand.rec.session \in Sessions
      BY <2>1 DEF TypeOK, Hand, Idle, ProbeRecord
    <3> QED BY <1>2, <2>1, <3>1 DEF HandIsSound, Placed, Good, GoodNext
  <2>2. CASE hand'.at \notin {"enrich", "deliver"}
    BY <2>2 DEF HandIsSound
  <2> QED BY <2>1, <2>2 DEF Ebb
<1> QED BY <1>4, <1>5, <1>6, <1>7, <1>8, <1>9 DEF Placed

-----------------------------------------------------------------------------
(***************************************************************************)
(* A process is started: a fork, or a session's agent.                     *)
(***************************************************************************)

\* The process n of the session s, of generation g, with the parent par.
Started(n, s, g, par) ==
  /\ n \in ProcID /\ n[1] \in PIDs /\ n[2] = starts + 1 /\ starts' = starts + 1
  /\ Held(n[1]) = {}
  /\ DOMAIN alive' = DOMAIN alive \cup {n}
  /\ alive'[n].session = s /\ alive'[n].gen = g /\ alive'[n].parent = par
  /\ \A p \in DOMAIN alive : alive'[p] = alive[p]
  /\ par \in ProcID /\ par[2] <= starts
  /\ par \in DOMAIN alive' => par \in DOMAIN alive /\ g = alive[par].gen + 1
  /\ s \in Sessions /\ sess'[s].st # "none" /\ (\A q \in Sessions \ {s} : sess'[q].st = sess[q].st)
  /\ g = 0 => \A c \in Claims : c.session # s
  /\ Queue' = Queue /\ tracker'.procs = tracker.procs

\* Nobody has spoken of it.
LEMMA StartedIsNew ==
  ASSUME TypeOK, Lineage, NEW n, NEW s, NEW g, NEW par, Started(n, s, g, par)
  PROVE  /\ n \notin DOMAIN alive /\ \A p \in DOMAIN alive : p[1] # n[1]
         /\ n \notin DOMAIN tracker.procs
         /\ \A c \in Claims : c.proc # n
         /\ n[1] # Outside
         /\ Claims' = Claims \cup {Claim(n, s, g)}
<1>1. \A p \in DOMAIN alive : p[1] # n[1]
  BY DEF Started, Held
<1>2. starts \in Nat /\ n[2] = starts + 1
  BY DEF Started, TypeOK
<1>3. n \notin DOMAIN tracker.procs
  BY <1>2 DEF Lineage
<1>4. \A c \in Claims : c.proc # n
  BY <1>2 DEF Lineage
<1>5. n[1] # Outside
  BY PIDsPositive DEF Started, Outside
<1>6. Claims' = Claims \cup {Claim(n, s, g)}
  <2>1. {Claim(p, alive'[p].session, alive'[p].gen) : p \in DOMAIN alive'}
          = {Claim(p, alive[p].session, alive[p].gen) : p \in DOMAIN alive} \cup {Claim(n, s, g)}
    BY <1>1 DEF Started
  <2> QED BY <2>1 DEF Claims, Started
<1> QED BY <1>1, <1>3, <1>4, <1>5, <1>6

LEMMA StartedBase ==
  ASSUME TypeOK, TypeOK', Lineage, Consistent, ExitIsLast,
         NEW n, NEW s, NEW g, NEW par, Started(n, s, g, par)
  PROVE  Lineage' /\ Consistent' /\ ExitIsLast'
<1> DEFINE new == Claim(n, s, g)
<1>0. new.proc = n /\ new.session = s /\ new.gen = g
  BY DEF Claim
<1>1. Claims' = Claims \cup {new}
  BY StartedIsNew
<1>2. /\ n \notin DOMAIN alive /\ \A p \in DOMAIN alive : p[1] # n[1]
      /\ n \notin DOMAIN tracker.procs /\ n[1] # Outside
      /\ \A c \in Claims : c.proc # n
  BY StartedIsNew
<1> HIDE DEF new
<1>3. starts \in Nat /\ starts' = starts + 1 /\ n[2] = starts + 1
  BY DEF Started, TypeOK
<1>4. Lineage'
  <2>1. \A p \in DOMAIN alive' : \A q \in DOMAIN alive' : p[1] = q[1] => p = q
    BY <1>2 DEF Lineage, Started
  <2>2. \A p \in DOMAIN alive' : alive'[p].parent \in DOMAIN alive' => alive'[p].gen = alive'[alive'[p].parent].gen + 1
    <3> SUFFICES ASSUME NEW p \in DOMAIN alive', alive'[p].parent \in DOMAIN alive'
                 PROVE  alive'[p].gen = alive'[alive'[p].parent].gen + 1
      OBVIOUS
    <3>1. CASE p = n
      BY <3>1 DEF Started
    <3>2. CASE p # n
      <4>1. p \in DOMAIN alive /\ alive'[p] = alive[p]
        BY <3>2 DEF Started
      <4>2. alive[p].parent # n
        BY <1>3, <4>1 DEF Lineage
      <4> QED BY <4>1, <4>2 DEF Started, Lineage
    <3> QED BY <3>1, <3>2
  <2>3. \A c \in Claims' : c.proc[1] # Outside /\ c.proc[2] <= starts'
                           /\ sess'[c.session].st # "none"
    <3>1. ASSUME NEW c \in Claims
          PROVE  c.proc[1] # Outside /\ c.proc[2] <= starts' /\ sess'[c.session].st # "none"
      <4>1. c.proc \in ProcID /\ c.session \in Sessions
        BY Typed
      <4>2. c.proc[2] \in Nat
        BY <4>1 DEF ProcID
      <4> QED BY <1>3, <4>1, <4>2 DEF Lineage, Started
    <3> QED BY <1>0, <1>1, <1>2, <1>3, <3>1 DEF Started
  <2>4. \A p \in DOMAIN tracker'.procs : p[1] # Outside /\ p[2] <= starts'
                                         /\ sess'[tracker'.procs[p].session].st # "none"
    <3> SUFFICES ASSUME NEW p \in DOMAIN tracker.procs
                 PROVE  p[1] # Outside /\ p[2] <= starts'
                        /\ sess'[tracker.procs[p].session].st # "none"
      BY DEF Started
    <3>1. p \in ProcID /\ tracker.procs[p].session \in Sessions
      BY Typed
    <3>2. p[2] \in Nat
      BY <3>1 DEF ProcID
    <3> QED BY <1>3, <3>1, <3>2 DEF Lineage, Started
  <2>5. \A p \in DOMAIN alive' : alive'[p].parent[2] <= starts'
    <3> SUFFICES ASSUME NEW p \in DOMAIN alive' PROVE alive'[p].parent[2] <= starts'
      OBVIOUS
    <3>1. alive'[p].parent \in ProcID
      BY DEF TypeOK, Process
    <3>2. alive'[p].parent[2] \in Nat
      BY <3>1 DEF ProcID
    <3>3. alive'[p].parent[2] <= starts
      BY DEF Lineage, Started
    <3> QED BY <1>3, <3>2, <3>3
  <2>6. \A i \in DOMAIN Queue' : Queue'[i].ppid # Queue'[i].proc[1]
    BY DEF Lineage, Started
  <2> QED BY <2>1, <2>2, <2>3, <2>4, <2>5, <2>6 DEF Lineage
<1>5. Consistent'
  <2>1. \A c, d \in Claims' : c.proc = d.proc => c = d
    BY <1>0, <1>1, <1>2 DEF Consistent
  <2>2. \A c, d \in Claims' : c.session = d.session /\ c.gen = 0 /\ d.gen = 0 => c = d
    BY <1>0, <1>1 DEF Consistent, Started
  <2>3. \A c \in Claims' : c.proc \in DOMAIN tracker'.procs =>
          tracker'.procs[c.proc].session = c.session
    BY <1>0, <1>1, <1>2 DEF Consistent, Started
  <2> QED BY <2>1, <2>2, <2>3 DEF Consistent
<1>6. ExitIsLast'
  <2>1. \A i \in DOMAIN Queue : Queue[i].proc # n
    <3> SUFFICES ASSUME NEW i \in DOMAIN Queue PROVE Queue[i].proc # n
      OBVIOUS
    <3>1. Claim(Queue[i].proc, Queue[i].session, Queue[i].gen) \in Claims
      BY Claimants
    <3> QED BY <1>2, <3>1 DEF Claim
  <2> QED BY <2>1 DEF ExitIsLast, Started
<1> QED BY <1>4, <1>5, <1>6

\* A fork: the tracker and the sessions know nothing of it.
LEMMA ForkPlaced ==
  ASSUME TypeOK, TypeOK', Lineage, Consistent, Placed,
         NEW n, NEW s, NEW g, NEW par, Started(n, s, g, par), g \in Nat \ {0},
         UNCHANGED <<tracker, sess, displaced, hand, tracked>>
  PROVE  Placed'
<1> DEFINE new == Claim(n, s, g)
<1>0. new.proc = n /\ new.session = s /\ new.gen = g
  BY DEF Claim
<1>1. Claims' = Claims \cup {new}
  BY StartedIsNew
<1>2. n \notin DOMAIN alive /\ n \notin DOMAIN tracker.procs
  BY StartedIsNew
<1> HIDE DEF new
<1>3. \A q : Good(q)' <=> Good(q)
  BY DEF Good
<1>4. Queue' = Queue
  BY DEF Started
<1>5. \A p, m : ExitPending(p, m)' <=> ExitPending(p, m)
  BY <1>4 DEF ExitPending
<1>6. \A q, pid, j : RootRecord(q, pid, j)' <=> RootRecord(q, pid, j)
  BY <1>4 DEF RootRecord
<1>7. RootComesFirst'
  <2>1. \A p \in DOMAIN alive : p \in DOMAIN alive' /\ alive'[p] = alive[p]
    BY DEF Started
  <2> QED BY <1>3, <1>4, <1>6, <2>1 DEF RootComesFirst, Placed, Good, RootRecord
<1>8. RootIsPlaced'
  BY <1>0, <1>1 DEF RootIsPlaced, Placed, Good, Awaited
<1>9. PlacedSoundly'
  BY <1>0, <1>1, <1>2 DEF PlacedSoundly, Placed, Good
<1>10. ExitIsReported'
  BY <1>4 DEF ExitIsReported, Placed, Good, ExitPending, Started
<1>11. ParentIsAbove'
  BY <1>4 DEF ParentIsAbove, Placed, Good, ExitPending
<1>12. HandIsSound'
  BY DEF HandIsSound, Placed, Good
<1> QED BY <1>7, <1>8, <1>9, <1>10, <1>11, <1>12 DEF Placed

\* An agent is attached: it is awaited, and whoever was awaited with its PID is
\* displaced.
LEMMA AttachPlaced ==
  ASSUME TypeOK, TypeOK', Lineage, Consistent, Stages, TrackerAgrees, Placed,
         NEW n, NEW s, Started(n, s, 0, <<Outside, 0>>),
         sess[s].st = "none", sess'[s].st = "attached",
         tracked' = tracked \cup {s}, tracker' = TrackRoot(tracker, s, n[1]),
         displaced' = displaced \cup Displaces(s, n[1]), hand' = hand
  PROVE  Placed'
<1> DEFINE new == Claim(n, s, 0)
<1>0. new.proc = n /\ new.session = s /\ new.gen = 0
  BY DEF Claim
<1>1. Claims' = Claims \cup {new}
  BY StartedIsNew
<1>2. /\ n \notin DOMAIN alive /\ n \notin DOMAIN tracker.procs
      /\ \A p \in DOMAIN alive : p[1] # n[1]
  BY StartedIsNew
<1> HIDE DEF new
<1>3. \A q \in Sessions \ {s} : GoodNext(q) => Good(q)
  BY DEF Good, GoodNext, Started
<1>4. \A q : Good(q)' <=> GoodNext(q)
  BY DEF Good, GoodNext
<1>5. Queue' = Queue /\ s \in Sessions
  BY DEF Started
<1>6. \A p, m : ExitPending(p, m)' <=> ExitPending(p, m)
  BY <1>5 DEF ExitPending
<1>7. \A q, pid, j : RootRecord(q, pid, j)' <=> RootRecord(q, pid, j)
  BY <1>5 DEF RootRecord
<1>8. /\ tracker'.procs = tracker.procs
      /\ DOMAIN tracker'.roots = DOMAIN tracker.roots \cup {n[1]}
      /\ tracker'.roots[n[1]] = s
      /\ \A pid \in DOMAIN tracker.roots \ {n[1]} : tracker'.roots[pid] = tracker.roots[pid]
  BY DEF TrackRoot, With, TypeOK, TrackerType
<1>9. \A p \in DOMAIN tracker.procs : tracker.procs[p].session # s
  BY DEF Lineage
<1>10. \A i \in DOMAIN Queue : Queue[i].session # s
  <2> SUFFICES ASSUME NEW i \in DOMAIN Queue PROVE Queue[i].session # s
    OBVIOUS
  <2>1. Claim(Queue[i].proc, Queue[i].session, Queue[i].gen) \in Claims
    BY Claimants
  <2> QED BY <2>1 DEF Lineage, Claim
<1>11. \A p \in DOMAIN alive : p \in DOMAIN alive' /\ alive'[p] = alive[p]
  BY DEF Started
<1>12. \A c \in Claims : c.session \in Sessions \ {s}
  BY Typed DEF Lineage
<1>13. \A pid \in DOMAIN tracker.roots : tracker.roots[pid] \in Sessions \ {s}
  BY Typed DEF TrackerAgrees
<1>14. hand.at \in {"observe", "enrich", "deliver"} => hand.rec.session \in Sessions \ {s}
  BY HandType DEF Stages
<1>15. RootComesFirst'
  <2> SUFFICES ASSUME NEW pid \in DOMAIN tracker'.roots, NEW q \in Sessions,
                      q = tracker'.roots[pid], GoodNext(q)
      PROVE
      /\ \A p \in DOMAIN tracker'.procs : p[1] = pid => tracker'.procs[p].session # q
      /\ hand'.at = "enrich" => ~(hand'.rec.session = q /\ hand'.rec.proc[1] = pid)
      /\ \A i \in DOMAIN Queue' :
           Queue'[i].session = q /\ Queue'[i].proc[1] = pid /\ Queue'[i].kind # "garbled" =>
             \E j \in 1..i : RootRecord(q, pid, j)'
      /\ q \in tracked' =>
           \/ \E j \in DOMAIN Queue' : RootRecord(q, pid, j)'
           \/ \E p \in DOMAIN alive' :
                p[1] = pid /\ alive'[p].session = q /\ alive'[p].gen = 0
    BY <1>4, <1>5, <1>8, <1>13 DEF RootComesFirst
  <2>1. CASE pid = n[1]
    <3>1. q = s
      BY <1>8, <2>1
    <3>2. n \in DOMAIN alive' /\ alive'[n].session = s /\ alive'[n].gen = 0
      BY DEF Started
    <3> QED BY <1>5, <1>8, <1>9, <1>10, <1>14, <2>1, <3>1, <3>2
  <2>2. CASE pid # n[1]
    <3>1. pid \in DOMAIN tracker.roots /\ tracker.roots[pid] = q /\ q # s /\ Good(q)
      BY <1>3, <1>8, <1>13, <2>2
    <3> QED BY <1>5, <1>7, <1>8, <1>11, <3>1 DEF RootComesFirst, Placed
  <2> QED BY <2>1, <2>2
<1>16. RootIsPlaced'
  <2> SUFFICES ASSUME NEW c \in Claims', c.gen = 0, GoodNext(c.session)
               PROVE  (c.proc[1] \in DOMAIN tracker'.roots /\ tracker'.roots[c.proc[1]] = c.session)
                      \/ c.proc \in DOMAIN tracker'.procs
    BY <1>4 DEF RootIsPlaced, Awaited
  <2>1. CASE c = new
    BY <1>0, <1>8, <2>1
  <2>2. CASE c \in Claims
    <3>1. Good(c.session) /\ c.session \in Sessions \ {s}
      BY <1>3, <1>12, <2>2
    <3>2. Awaited(c.session, c.proc[1]) \/ c.proc \in DOMAIN tracker.procs
      BY <2>2, <3>1 DEF RootIsPlaced, Placed
    <3>3. ASSUME Awaited(c.session, c.proc[1]), c.proc[1] = n[1] PROVE FALSE
      <4>1. PendingRoot(tracker, c.session, <<n[1], 0>>)
        BY <3>3 DEF PendingRoot, Awaited
      <4>2. c.session \in displaced'
        BY <3>1, <4>1 DEF Displaces
      <4> QED BY <4>2 DEF GoodNext
    <3> QED BY <1>8, <3>2, <3>3 DEF Awaited
  <2> QED BY <1>1, <2>1, <2>2
<1>17. PlacedSoundly'
  BY <1>0, <1>1, <1>2, <1>3, <1>4, <1>8, <1>12 DEF PlacedSoundly, Placed, Good, GoodNext
<1>18. \A i \in DOMAIN Queue : Queue[i].session \in Sessions \ {s}
  BY <1>10, Typed
<1>19. \A p \in DOMAIN tracker.procs : tracker.procs[p].session \in Sessions \ {s}
  BY <1>9, Typed
<1>20. ExitIsReported'
  BY <1>3, <1>5, <1>8, <1>11, <1>18, <1>19
  DEF ExitIsReported, Placed, Good, GoodNext, ExitPending
<1>21. ParentIsAbove'
  BY <1>3, <1>5, <1>8, <1>18, <1>19 DEF ParentIsAbove, Placed, Good, GoodNext, ExitPending
<1>22. HandIsSound'
  BY <1>3, <1>4, <1>14 DEF HandIsSound, Placed, Good, GoodNext
<1> QED BY <1>15, <1>16, <1>17, <1>20, <1>21, <1>22 DEF Placed

-----------------------------------------------------------------------------
(***************************************************************************)
(* A probe fires.                                                          *)
(***************************************************************************)

\* The record r of the process p; if it is its exit, p is gone.
Spoken(p, r) ==
  /\ p \in DOMAIN alive /\ alive[p].session \in tracked
  /\ r \in ProbeRecord /\ r.session = alive[p].session /\ r.proc = p /\ r.gen = alive[p].gen
  /\ r.ppid = Parent(p)
  /\ LivesKept
  /\ DOMAIN alive' = IF r.kind = "exit" THEN DOMAIN alive \ {p} ELSE DOMAIN alive
  /\ UNCHANGED <<starts, tracked, sess, hand, tracker, displaced>>

LEMMA SpokenClaims ==
  ASSUME IsQueue, NEW p, NEW r, Spoken(p, r), IsQueue', Pushed(r) \/ Queue' = Queue
  PROVE  Claims' \subseteq Claims
<1>1. Claim(p, alive[p].session, alive[p].gen) \in Claims
  BY Claimants DEF Spoken
<1>2. \A i \in DOMAIN Queue' :
        Claim(Queue'[i].proc, Queue'[i].session, Queue'[i].gen) \in Claims
  BY <1>1, Claimants DEF Spoken, Pushed
<1>3. \A q \in DOMAIN alive' : Claim(q, alive'[q].session, alive'[q].gen) \in Claims
  BY Claimants DEF Spoken, LivesKept
<1> QED BY <1>2, <1>3 DEF Claims

\* Who holds the PID of a living process's parent is its parent.
LEMMA ParentsGeneration ==
  ASSUME TypeOK, Lineage, NEW p \in DOMAIN alive, NEW q \in DOMAIN alive, q[1] = Parent(p)
  PROVE  alive[p].gen = alive[q].gen + 1
<1>1. q[1] # Outside
  <2>1. Claim(q, alive[q].session, alive[q].gen) \in Claims
    BY Claimants
  <2> QED BY <2>1 DEF Lineage, Claim
<1>2. alive[p].parent \in DOMAIN alive /\ q[1] = alive[p].parent[1]
  BY <1>1 DEF Parent
<1>3. q = alive[p].parent
  BY <1>2 DEF Lineage
<1> QED BY <1>2, <1>3 DEF Lineage

LEMMA SpokenBase ==
  ASSUME TypeOK, TypeOK', Lineage, Consistent, ExitIsLast, NEW p, NEW r, Spoken(p, r),
         Pushed(r) \/ Queue' = Queue
  PROVE  Lineage' /\ Consistent' /\ ExitIsLast'
<1>q. IsQueue /\ IsQueue'
  BY QueueType, QueueTypeNext
<1>1. Claims' \subseteq Claims
  BY <1>q, SpokenClaims
<1>2. Lineage'
  <2>1. r.ppid # r.proc[1]
    <3>1. p \in DOMAIN alive /\ r.ppid = Parent(p) /\ r.proc = p
      BY DEF Spoken
    <3>2. Parent(p) # p[1]
      BY <3>1, ParentsGeneration, Typed
    <3> QED BY <3>1, <3>2
  <2>2. \A i \in DOMAIN Queue' : Queue'[i].ppid # Queue'[i].proc[1]
    BY <2>1 DEF Lineage, Pushed
  <2> QED BY <1>1, <2>2 DEF Lineage, Spoken, LivesKept
<1>3. Consistent'
  BY <1>1 DEF Consistent, Spoken
<1>4. ExitIsLast'
  <2>1. CASE Queue' = Queue
    BY <2>1 DEF ExitIsLast, Spoken, LivesKept
  <2>2. CASE Pushed(r)
    <3> SUFFICES ASSUME NEW i \in DOMAIN Queue', Queue'[i].kind = "exit"
                 PROVE  /\ Queue'[i].proc \notin DOMAIN alive'
                        /\ \A j \in DOMAIN Queue' : i < j => Queue'[j].proc # Queue'[i].proc
      BY DEF ExitIsLast
    <3>1. CASE i \in DOMAIN Queue
      BY <1>q, <2>2, <3>1 DEF ExitIsLast, Spoken, LivesKept, Pushed, IsQueue
    <3>2. CASE i \notin DOMAIN Queue
      BY <1>q, <2>2, <3>2 DEF Spoken, Pushed, IsQueue
    <3> QED BY <3>1, <3>2
  <2> QED BY <2>1, <2>2
<1> QED BY <1>2, <1>3, <1>4

LEMMA SpokenPlaced ==
  ASSUME TypeOK, TypeOK', Lineage, Consistent, Placed, NEW p, NEW r, Spoken(p, r), Pushed(r)
  PROVE  Placed'
<1>q. IsQueue /\ IsQueue'
  BY QueueType, QueueTypeNext
<1>0. PICK last \in Nat : last = Len(Queue) + 1
  BY <1>q DEF IsQueue
<1>1. Claims' \subseteq Claims
  BY <1>q, SpokenClaims
<1>2. /\ DOMAIN Queue' = DOMAIN Queue \cup {last} /\ last \notin DOMAIN Queue
      /\ Queue'[last] = r /\ \A i \in DOMAIN Queue : Queue'[i] = Queue[i]
      /\ Len(Queue') = last /\ DOMAIN Queue = 1..(last - 1) /\ last \in Nat
  BY <1>q, <1>0 DEF Pushed, IsQueue
<1>3. \A q : Good(q)' <=> Good(q)
  BY DEF Good, Spoken
<1>4. \A i \in 0..(last - 1) : \A q : ExitPending(q, i)' <=> ExitPending(q, i)
  BY <1>2 DEF ExitPending
<1>5. \A q : ExitPending(q, last - 1) => ExitPending(q, last)'
  BY <1>2 DEF ExitPending
<1>6. r.kind = "exit" => ExitPending(p, last)'
  BY <1>2 DEF ExitPending, Spoken
<1>7. Len(Queue) = last - 1
  BY <1>q, <1>0 DEF IsQueue
<1>8. RootComesFirst'
  <2> SUFFICES ASSUME NEW pid \in DOMAIN tracker.roots, NEW s,
                      s = tracker.roots[pid], Good(s)
      PROVE
      /\ \A x \in DOMAIN tracker.procs : x[1] = pid => tracker.procs[x].session # s
      /\ hand.at = "enrich" => ~(hand.rec.session = s /\ hand.rec.proc[1] = pid)
      /\ \A i \in DOMAIN Queue' :
           Queue'[i].session = s /\ Queue'[i].proc[1] = pid /\ Queue'[i].kind # "garbled" =>
             \E j \in 1..i : RootRecord(s, pid, j)'
      /\ s \in tracked =>
           \/ \E j \in DOMAIN Queue' : RootRecord(s, pid, j)'
           \/ \E x \in DOMAIN alive' :
                x[1] = pid /\ alive'[x].session = s /\ alive'[x].gen = 0
    BY DEF RootComesFirst, Spoken, Good
  <2>1. \A j \in DOMAIN Queue : RootRecord(s, pid, j)' <=> RootRecord(s, pid, j)
    BY <1>2 DEF RootRecord
  <2>2. RootRecord(s, pid, last)' <=>
          alive[p].session = s /\ p[1] = pid /\ alive[p].gen = 0 /\ r.kind # "garbled"
    BY <1>2 DEF RootRecord, Spoken
  <2>3. s \in tracked =>
           \/ \E j \in DOMAIN Queue : RootRecord(s, pid, j)
           \/ \E x \in DOMAIN alive :
                x[1] = pid /\ alive[x].session = s /\ alive[x].gen = 0
    BY DEF RootComesFirst, Placed
  <2>4. ASSUME NEW i \in DOMAIN Queue', Queue'[i].session = s, Queue'[i].proc[1] = pid,
               Queue'[i].kind # "garbled"
        PROVE  \E j \in 1..i : RootRecord(s, pid, j)'
    <3>1. CASE i \in DOMAIN Queue
      <4>1. \E j \in 1..i : RootRecord(s, pid, j)
        BY <1>2, <2>4, <3>1 DEF RootComesFirst, Placed
      <4> QED BY <1>2, <2>1, <3>1, <4>1
    <3>2. CASE i = last
      <4>1. alive[p].session = s /\ s \in tracked /\ p[1] = pid /\ p \in DOMAIN alive
            /\ r.kind # "garbled"
        BY <1>2, <2>4, <3>2 DEF Spoken
      <4>2. CASE \E j \in DOMAIN Queue : RootRecord(s, pid, j)
        BY <1>2, <2>1, <3>2, <4>2
      <4>3. CASE \E x \in DOMAIN alive : x[1] = pid /\ alive[x].session = s /\ alive[x].gen = 0
        <5>1. alive[p].gen = 0
          BY <4>1, <4>3 DEF Lineage
        <5>2. RootRecord(s, pid, last)'
          BY <2>2, <4>1, <5>1
        <5> QED BY <1>2, <3>2, <5>2
      <4> QED BY <2>3, <4>1, <4>2, <4>3
    <3> QED BY <1>2, <3>1, <3>2
  <2>5. ASSUME s \in tracked
        PROVE  \/ \E j \in DOMAIN Queue' : RootRecord(s, pid, j)'
               \/ \E x \in DOMAIN alive' :
                    x[1] = pid /\ alive'[x].session = s /\ alive'[x].gen = 0
    <3>1. CASE \E j \in DOMAIN Queue : RootRecord(s, pid, j)
      BY <1>2, <2>1, <3>1
    <3>2. ASSUME NEW x \in DOMAIN alive, x[1] = pid, alive[x].session = s, alive[x].gen = 0
          PROVE  \/ \E j \in DOMAIN Queue' : RootRecord(s, pid, j)'
                 \/ x \in DOMAIN alive' /\ alive'[x].session = s /\ alive'[x].gen = 0
      <4>1. CASE x \in DOMAIN alive'
        BY <3>2, <4>1 DEF Spoken, LivesKept
      <4>2. CASE x \notin DOMAIN alive'
        <5>1. x = p /\ r.kind # "garbled"
          BY <4>2 DEF Spoken
        <5> QED BY <1>2, <2>2, <3>2, <5>1
      <4> QED BY <4>1, <4>2
    <3> QED BY <2>3, <2>5, <3>1, <3>2
  <2>6. /\ \A x \in DOMAIN tracker.procs : x[1] = pid => tracker.procs[x].session # s
        /\ hand.at = "enrich" => ~(hand.rec.session = s /\ hand.rec.proc[1] = pid)
    BY DEF RootComesFirst, Placed
  <2> QED BY <2>4, <2>5, <2>6
<1>9. RootIsPlaced'
  BY <1>1 DEF RootIsPlaced, Placed, Good, Awaited, Spoken
<1>10. PlacedSoundly'
  BY <1>1 DEF PlacedSoundly, Placed, Good, Spoken
<1>11. ExitIsReported'
  <2>1. ASSUME NEW q, q \in DOMAIN alive \/ ExitPending(q, last - 1)
        PROVE  q \in DOMAIN alive' \/ ExitPending(q, last)'
    BY <1>5, <1>6, <2>1 DEF Spoken
  <2>2. ASSUME NEW q \in DOMAIN tracker.procs, Good(tracker.procs[q].session),
               tracker.procs[q].session \in tracked
        PROVE  q \in DOMAIN alive' \/ ExitPending(q, last)'
    BY <1>7, <2>1, <2>2 DEF ExitIsReported, Placed
  <2>3. ASSUME NEW i \in DOMAIN Queue', Good(Queue'[i].session), Queue'[i].session \in tracked
        PROVE  Queue'[i].proc \in DOMAIN alive' \/ ExitPending(Queue[i].proc, last)'
    <3>1. CASE i \in DOMAIN Queue
      BY <1>2, <1>7, <2>1, <2>3, <3>1 DEF ExitIsReported, Placed
    <3>2. CASE i = last
      BY <1>2, <1>6, <2>1, <3>2 DEF Spoken
    <3> QED BY <1>2, <3>1, <3>2
  <2> QED BY <1>2, <2>2, <2>3 DEF ExitIsReported, Good, Spoken
<1>12. ParentIsAbove'
  <2> SUFFICES ASSUME NEW i \in DOMAIN Queue', Good(Queue'[i].session)
      PROVE
      /\ \A q \in DOMAIN tracker.procs :
           q[1] = Queue'[i].ppid /\ tracker.procs[q].session = Queue'[i].session =>
             ExitPending(q, i - 1)' \/ tracker.procs[q].depth < Queue'[i].gen
      /\ \A j \in 1..(i - 1) :
           Queue'[j].proc[1] = Queue'[i].ppid /\ Queue'[j].session = Queue'[i].session =>
             ExitPending(Queue[j].proc, i - 1)' \/ Queue'[j].gen < Queue'[i].gen
    BY DEF ParentIsAbove, Good, Spoken
  <2>1. CASE i \in DOMAIN Queue
    <3>1. i - 1 \in 0..(last - 1) /\ Queue'[i] = Queue[i]
          /\ \A j \in 1..(i - 1) : j \in DOMAIN Queue /\ Queue'[j] = Queue[j]
      BY <1>2, <2>1
    <3>2. \A q : ExitPending(q, i - 1)' <=> ExitPending(q, i - 1)
      BY <1>4, <3>1
    <3> QED BY <2>1, <3>1, <3>2 DEF ParentIsAbove, Placed
  <2>2. CASE i = last
    <3>1. Queue'[i] = r /\ i - 1 = last - 1 /\ i - 1 \in 0..(last - 1)
          /\ \A j \in 1..(i - 1) : j \in DOMAIN Queue /\ Queue'[j] = Queue[j]
      BY <1>2, <2>2
    <3>2. /\ p \in DOMAIN alive /\ r.gen = alive[p].gen /\ r.ppid = Parent(p)
          /\ r.session \in tracked /\ Good(r.session)
      BY <3>1 DEF Spoken
    <3>3. \A q : ExitPending(q, i - 1)' <=> ExitPending(q, last - 1)
      BY <1>4, <3>1
    <3>4. ASSUME NEW q \in DOMAIN tracker.procs, q[1] = r.ppid,
                 tracker.procs[q].session = r.session
          PROVE  ExitPending(q, last - 1) \/ tracker.procs[q].depth < r.gen
      <4>1. q \in DOMAIN alive \/ ExitPending(q, last - 1)
        BY <1>7, <3>2, <3>4 DEF ExitIsReported, Placed
      <4>2. CASE q \in DOMAIN alive
        <5>1. r.gen = alive[q].gen + 1
          BY <3>2, <3>4, <4>2, ParentsGeneration
        <5>2. Claim(q, alive[q].session, alive[q].gen) \in Claims
          BY <4>2, Claimants
        <5>3. alive[q].session = r.session
          BY <3>4, <5>2 DEF Consistent, Claim
        <5>4. tracker.procs[q].depth <= alive[q].gen
          BY <3>2, <5>2, <5>3, <3>4 DEF PlacedSoundly, Placed, Claim, Sound
        <5> QED BY <4>2, <5>1, <5>4, Typed
      <4> QED BY <4>1, <4>2
    <3>5. ASSUME NEW j \in DOMAIN Queue, Queue[j].proc[1] = r.ppid, Queue[j].session = r.session
          PROVE  ExitPending(Queue[j].proc, last - 1) \/ Queue[j].gen < r.gen
      <4>1. Queue[j].proc \in DOMAIN alive \/ ExitPending(Queue[j].proc, last - 1)
        BY <1>7, <3>2, <3>5 DEF ExitIsReported, Placed
      <4>2. CASE Queue[j].proc \in DOMAIN alive
        <5> DEFINE q == Queue[j].proc
        <5>1. r.gen = alive[q].gen + 1
          BY <3>2, <3>5, <4>2, ParentsGeneration
        <5>2. Claim(q, alive[q].session, alive[q].gen) \in Claims
              /\ Claim(q, Queue[j].session, Queue[j].gen) \in Claims
          BY <4>2, Claimants
        <5>3. Queue[j].gen = alive[q].gen
          BY <5>2 DEF Consistent, Claim
        <5>4. alive[q].gen \in Nat
          BY <4>2, Typed
        <5> QED BY <5>1, <5>3, <5>4
      <4> QED BY <4>1, <4>2
    <3> QED BY <3>1, <3>3, <3>4, <3>5
  <2> QED BY <1>2, <2>1, <2>2
<1>13. HandIsSound'
  BY DEF HandIsSound, Placed, Good, Spoken
<1> QED BY <1>8, <1>9, <1>10, <1>11, <1>12, <1>13 DEF Placed

-----------------------------------------------------------------------------
(***************************************************************************)
(* A record is done with: passed over, or the tracker has learnt of it.    *)
(***************************************************************************)
Done ==
  /\ Popped
  /\ UNCHANGED <<alive, starts, tracked, displaced>>
  /\ \A s \in Sessions : sess'[s].st = sess[s].st
  /\ tracker'.roots = tracker.roots
  /\ \A p \in DOMAIN tracker'.procs :
       /\ p \in DOMAIN tracker.procs
       /\ tracker'.procs[p].session = tracker.procs[p].session
       /\ tracker'.procs[p].depth = tracker.procs[p].depth
  /\ \A p \in DOMAIN tracker.procs \ DOMAIN tracker'.procs :
       p = Queue[1].proc /\ Queue[1].kind = "exit"
  /\ Queue[1].kind = "exit" /\ Good(Queue[1].session) => Queue[1].proc \notin DOMAIN tracker'.procs
  /\ hand'.at # "enrich"

LEMMA DoneClaims ==
  ASSUME IsQueue, IsQueue', Done
  PROVE  /\ Claims' \subseteq Claims
         /\ Queue[1].kind = "exit" /\ ExitIsLast => \A c \in Claims' : c.proc # Queue[1].proc
<1>1. \A i \in DOMAIN Queue' : i + 1 \in DOMAIN Queue /\ Queue'[i] = Queue[i + 1]
  BY DEF Done, Popped
<1>2. Claims' \subseteq Claims
  BY <1>1 DEF Claims, Done
<1>3. ASSUME Queue[1].kind = "exit", ExitIsLast, NEW c \in Claims' PROVE c.proc # Queue[1].proc
  <2>1. 1 \in DOMAIN Queue
    BY DEF Done, Popped
  <2>2. \A p \in DOMAIN alive : p # Queue[1].proc
    BY <1>3, <2>1 DEF ExitIsLast
  <2>3. \A i \in DOMAIN Queue' : Queue'[i].proc # Queue[1].proc
    <3> SUFFICES ASSUME NEW i \in DOMAIN Queue' PROVE Queue'[i].proc # Queue[1].proc
      OBVIOUS
    <3>1. i \in Nat \ {0}
      <4>1. DOMAIN Queue' = 1..Len(Queue') /\ Len(Queue') \in Nat
        BY DEF IsQueue
      <4> QED BY ONLY <4>1, i \in DOMAIN Queue'
    <3>2. 1 < i + 1 /\ i + 1 \in DOMAIN Queue /\ Queue'[i] = Queue[i + 1]
      BY ONLY <1>1, <3>1, i \in DOMAIN Queue'
    <3> QED BY <1>3, <2>1, <3>2 DEF ExitIsLast
  <2> QED BY <2>2, <2>3 DEF Claims, Claim, Done
<1> QED BY <1>2, <1>3

LEMMA DoneBase ==
  ASSUME TypeOK, TypeOK', Lineage, Consistent, ExitIsLast, Done
  PROVE  Lineage' /\ Consistent' /\ ExitIsLast'
<1>q. IsQueue /\ IsQueue'
  BY QueueType, QueueTypeNext
<1>1. Claims' \subseteq Claims
  BY <1>q, DoneClaims
<1>2. Lineage'
  <2>1. \A c \in Claims' : sess'[c.session].st # "none"
    BY <1>1, Typed DEF Lineage, Done
  <2>2. \A p \in DOMAIN tracker'.procs : sess'[tracker'.procs[p].session].st # "none"
    BY Typed DEF Lineage, Done
  <2>3. \A i \in DOMAIN Queue' : Queue'[i].ppid # Queue'[i].proc[1]
    BY DEF Lineage, Done, Popped
  <2> QED BY <1>1, <2>1, <2>2, <2>3 DEF Lineage, Done
<1>3. Consistent'
  BY <1>1 DEF Consistent, Done
<1>4. ExitIsLast'
  <2> SUFFICES ASSUME NEW i \in DOMAIN Queue', Queue'[i].kind = "exit"
               PROVE  /\ Queue'[i].proc \notin DOMAIN alive
                      /\ \A j \in DOMAIN Queue' : i < j => Queue'[j].proc # Queue'[i].proc
    BY DEF ExitIsLast, Done
  <2>1. /\ i + 1 \in DOMAIN Queue /\ Queue'[i] = Queue[i + 1]
        /\ \A j \in DOMAIN Queue' : j + 1 \in DOMAIN Queue /\ Queue'[j] = Queue[j + 1]
        /\ \A j \in DOMAIN Queue' : j \in Nat
    BY <1>q DEF Done, Popped, IsQueue
  <2> QED BY <2>1 DEF ExitIsLast
<1> QED BY <1>2, <1>3, <1>4

LEMMA DonePlaced ==
  ASSUME TypeOK, TypeOK', Lineage, Consistent, ExitIsLast, Placed, Done,
         \A s : \A pid : RootRecord(s, pid, 1) /\ Good(s) => ~Awaited(s, pid),
         hand'.at = "deliver" => hand.at = "enrich" /\ hand'.rec = hand.rec
                                 /\ hand'.depth = hand.depth
  PROVE  Placed'
<1>q. IsQueue /\ IsQueue'
  BY QueueType, QueueTypeNext
<1>1. Claims' \subseteq Claims
  BY <1>q, DoneClaims
<1>2. /\ 1 \in DOMAIN Queue /\ Len(Queue') = Len(Queue) - 1
      /\ \A i \in DOMAIN Queue' : i + 1 \in DOMAIN Queue /\ Queue'[i] = Queue[i + 1] /\ i \in Nat
      /\ \A i \in DOMAIN Queue : i \in Nat /\ (i # 1 => i - 1 \in DOMAIN Queue'
                                                        /\ Queue'[i - 1] = Queue[i])
  BY <1>q DEF Done, Popped, IsQueue
<1>3. \A s \in Sessions : Good(s)' <=> Good(s)
  BY DEF Good, Done
<1>4. \A p \in DOMAIN tracker'.procs : tracker'.procs[p].session \in Sessions
  BY Typed DEF Done
<1>5. \A i \in DOMAIN Queue' : Queue'[i].session \in Sessions
  BY <1>2, Typed
<1>6. \A n \in Nat : \A q : ExitPending(q, n + 1) /\ n + 1 <= Len(Queue)
        => ExitPending(q, n)' \/ (q = Queue[1].proc /\ Queue[1].kind = "exit")
  <2> SUFFICES ASSUME NEW n \in Nat, NEW q, n + 1 <= Len(Queue), NEW k \in 1..(n + 1),
                      Queue[k].proc = q, Queue[k].kind = "exit", k # 1
               PROVE  ExitPending(q, n)'
    BY DEF ExitPending
  <2>1. k - 1 \in 1..n /\ Queue'[k - 1] = Queue[k]
    BY <1>q, <1>2 DEF IsQueue
  <2> QED BY <2>1 DEF ExitPending
<1>7. RootComesFirst'
  <2> SUFFICES ASSUME NEW pid \in DOMAIN tracker.roots, NEW s,
                      s = tracker.roots[pid], Good(s)
      PROVE
      /\ \A x \in DOMAIN tracker'.procs : x[1] = pid => tracker'.procs[x].session # s
      /\ \A i \in DOMAIN Queue' :
           Queue'[i].session = s /\ Queue'[i].proc[1] = pid /\ Queue'[i].kind # "garbled" =>
             \E j \in 1..i : RootRecord(s, pid, j)'
      /\ s \in tracked =>
           \/ \E j \in DOMAIN Queue' : RootRecord(s, pid, j)'
           \/ \E x \in DOMAIN alive :
                x[1] = pid /\ alive[x].session = s /\ alive[x].gen = 0
    BY <1>3, Typed DEF RootComesFirst, Done
  <2>1. ~RootRecord(s, pid, 1)
    BY DEF Awaited
  <2>2. \A j \in DOMAIN Queue : RootRecord(s, pid, j) =>
          j - 1 \in DOMAIN Queue' /\ RootRecord(s, pid, j - 1)'
    BY <1>2, <2>1 DEF RootRecord
  <2>3. \A x \in DOMAIN tracker'.procs : x[1] = pid => tracker'.procs[x].session # s
    BY DEF RootComesFirst, Placed, Done
  <2>4. s \in tracked =>
           \/ \E j \in DOMAIN Queue' : RootRecord(s, pid, j)'
           \/ \E x \in DOMAIN alive :
                x[1] = pid /\ alive[x].session = s /\ alive[x].gen = 0
    BY <2>2 DEF RootComesFirst, Placed
  <2>5. ASSUME NEW i \in DOMAIN Queue', Queue'[i].session = s, Queue'[i].proc[1] = pid,
               Queue'[i].kind # "garbled"
        PROVE  \E j \in 1..i : RootRecord(s, pid, j)'
    <3>0. /\ i + 1 \in DOMAIN Queue /\ Queue[i + 1].session = s /\ Queue[i + 1].proc[1] = pid
          /\ Queue[i + 1].kind # "garbled"
      BY <1>2, <2>5
    <3>1. \A n \in DOMAIN Queue :
            Queue[n].session = s /\ Queue[n].proc[1] = pid /\ Queue[n].kind # "garbled" =>
              \E j \in 1..n : RootRecord(s, pid, j)
      BY DEF RootComesFirst, Placed
    <3>2. PICK j \in 1..(i + 1) : RootRecord(s, pid, j)
      BY <3>0, <3>1
    <3>3. j \in DOMAIN Queue /\ j # 1 /\ i \in Nat
      BY <1>q, <1>2, <2>1, <3>2 DEF IsQueue
    <3>4. j - 1 \in 1..i /\ RootRecord(s, pid, j - 1)'
      BY <2>2, <3>2, <3>3
    <3> QED BY <3>4
  <2> QED BY <2>3, <2>4, <2>5
<1>8. RootIsPlaced'
  <2> SUFFICES ASSUME NEW c \in Claims', c.gen = 0, GoodNext(c.session)
               PROVE  (c.proc[1] \in DOMAIN tracker.roots /\ tracker.roots[c.proc[1]] = c.session)
                      \/ c.proc \in DOMAIN tracker'.procs
    BY DEF RootIsPlaced, Awaited, Good, GoodNext, Done
  <2>1. c \in Claims /\ Good(c.session)
    BY <1>1, Typed DEF Good, GoodNext, Done
  <2>2. Awaited(c.session, c.proc[1]) \/ c.proc \in DOMAIN tracker.procs
    BY <2>1 DEF RootIsPlaced, Placed
  <2>3. Queue[1].kind = "exit" => c.proc # Queue[1].proc
    BY <1>q, DoneClaims
  <2> QED BY <2>2, <2>3 DEF Awaited, Done
<1>9. PlacedSoundly'
  <2> SUFFICES ASSUME NEW c \in Claims', c.proc \in DOMAIN tracker'.procs, GoodNext(c.session)
               PROVE  Sound(tracker'.procs[c.proc].depth, c.gen)
    BY DEF PlacedSoundly, Good, GoodNext
  <2>1. c \in Claims /\ Good(c.session)
    BY <1>1, Typed DEF Good, GoodNext, Done
  <2> QED BY <2>1 DEF PlacedSoundly, Placed, Done
<1>10. ExitIsReported'
  <2>0. Len(Queue') \in Nat /\ Len(Queue') + 1 = Len(Queue)
    BY <1>q DEF Done, Popped, IsQueue
  <2>1. ASSUME NEW p \in DOMAIN tracker'.procs, GoodNext(tracker'.procs[p].session),
               tracker'.procs[p].session \in tracked
        PROVE  p \in DOMAIN alive \/ ExitPending(p, Len(Queue))'
    <3>1. /\ p \in DOMAIN tracker.procs /\ tracker'.procs[p].session = tracker.procs[p].session
          /\ Good(tracker.procs[p].session)
      BY <1>4, <2>1 DEF Done, Good, GoodNext
    <3>2. p \in DOMAIN alive \/ ExitPending(p, Len(Queue))
      BY <2>1, <3>1 DEF ExitIsReported, Placed
    <3>3. ~(p = Queue[1].proc /\ Queue[1].kind = "exit")
      <4> SUFFICES ASSUME p = Queue[1].proc, Queue[1].kind = "exit" PROVE FALSE
        OBVIOUS
      <4>1. Claim(Queue[1].proc, Queue[1].session, Queue[1].gen) \in Claims
        BY <1>2, Claimants
      <4>2. tracker.procs[p].session = Queue[1].session
        BY <3>1, <4>1 DEF Consistent, Claim
      <4> QED BY <3>1, <4>2 DEF Done
    <3>4. ExitPending(p, Len(Queue)) => ExitPending(p, Len(Queue))'
      <4>1. PICK n \in Nat : n = Len(Queue') /\ n + 1 = Len(Queue)
        BY <2>0
      <4>2. ExitPending(p, n + 1) /\ n + 1 <= Len(Queue) => ExitPending(p, n)'
        BY <1>6, <3>3
      <4> QED BY <4>1, <4>2 DEF ExitPending
    <3> QED BY <3>2, <3>4
  <2>2. ASSUME NEW i \in DOMAIN Queue', GoodNext(Queue'[i].session), Queue'[i].session \in tracked
        PROVE  Queue'[i].proc \in DOMAIN alive
               \/ \E k \in 1..Len(Queue') : Queue'[k].proc = Queue'[i].proc /\ Queue'[k].kind = "exit"
    <3>1. /\ i + 1 \in DOMAIN Queue /\ Queue'[i] = Queue[i + 1] /\ i \in Nat \ {0}
          /\ Good(Queue[i + 1].session)
      BY <1>q, <1>2, <1>5, <2>2 DEF Done, Good, GoodNext, IsQueue
    <3>2. Queue[i + 1].proc \in DOMAIN alive \/ ExitPending(Queue[i + 1].proc, Len(Queue))
      BY <2>2, <3>1 DEF ExitIsReported, Placed
    <3>a. 1 \in DOMAIN Queue /\ 1 < i + 1
      BY <1>2, <3>1
    <3>3. ~(Queue[i + 1].proc = Queue[1].proc /\ Queue[1].kind = "exit")
      BY <3>1, <3>a DEF ExitIsLast
    <3>4. ASSUME ExitPending(Queue[i + 1].proc, Len(Queue))
          PROVE  \E k \in 1..Len(Queue') : Queue'[k].proc = Queue'[i].proc /\ Queue'[k].kind = "exit"
      <4>1. PICK q : q = Queue[i + 1].proc
        OBVIOUS
      <4>2. PICK n \in Nat : n = Len(Queue') /\ n + 1 = Len(Queue)
        BY <2>0
      <4>3. ExitPending(q, n)'
        BY <1>6, <3>3, <3>4, <4>1, <4>2
      <4> QED BY <3>1, <4>1, <4>2, <4>3 DEF ExitPending
    <3> QED BY <3>1, <3>2, <3>4
  <2> QED BY <2>1, <2>2 DEF ExitIsReported, Good, GoodNext, Done, ExitPending
<1>11. ParentIsAbove'
  <2> SUFFICES ASSUME NEW i \in DOMAIN Queue', GoodNext(Queue'[i].session)
      PROVE
      /\ \A q \in DOMAIN tracker'.procs :
           q[1] = Queue'[i].ppid /\ tracker'.procs[q].session = Queue'[i].session =>
             ExitPending(q, i - 1)' \/ tracker'.procs[q].depth < Queue'[i].gen
      /\ \A j \in 1..(i - 1) :
           Queue'[j].proc[1] = Queue'[i].ppid /\ Queue'[j].session = Queue'[i].session =>
             ExitPending(Queue[j].proc, i - 1)' \/ Queue'[j].gen < Queue'[i].gen
    BY DEF ParentIsAbove, Good, GoodNext
  <2>1. /\ i + 1 \in DOMAIN Queue /\ Queue'[i] = Queue[i + 1] /\ i \in Nat \ {0}
        /\ Good(Queue[i + 1].session) /\ i + 1 <= Len(Queue) /\ (i + 1) - 1 = i
    BY <1>q, <1>2, <1>5 DEF Done, Good, GoodNext, IsQueue
  <2>2. ASSUME NEW q, ExitPending(q, i), ~(q = Queue[1].proc /\ Queue[1].kind = "exit")
        PROVE  ExitPending(q, i - 1)'
    <3>0. i - 1 \in Nat /\ i = (i - 1) + 1
      BY <2>1
    <3>1. PICK n \in Nat : i = n + 1
      BY <3>0
    <3>2. ExitPending(q, n + 1) /\ n + 1 <= Len(Queue) /\ n = i - 1
      BY <1>q, <2>1, <2>2, <3>1 DEF IsQueue
    <3> QED BY <1>6, <2>2, <3>2
  <2>3. ASSUME NEW q \in DOMAIN tracker'.procs, q[1] = Queue'[i].ppid,
               tracker'.procs[q].session = Queue'[i].session
        PROVE  ExitPending(q, i - 1)' \/ tracker'.procs[q].depth < Queue'[i].gen
    <3>1. /\ q \in DOMAIN tracker.procs /\ tracker.procs[q].session = Queue[i + 1].session
          /\ tracker'.procs[q].depth = tracker.procs[q].depth
      BY <2>1, <2>3 DEF Done
    <3>2. ExitPending(q, i) \/ tracker.procs[q].depth < Queue[i + 1].gen
      BY <2>1, <2>3, <3>1 DEF ParentIsAbove, Placed
    <3>3. ~(q = Queue[1].proc /\ Queue[1].kind = "exit")
      <4> SUFFICES ASSUME q = Queue[1].proc, Queue[1].kind = "exit" PROVE FALSE
        OBVIOUS
      <4>1. Claim(Queue[1].proc, Queue[1].session, Queue[1].gen) \in Claims
        BY <1>2, Claimants
      <4>2. tracker.procs[q].session = Queue[1].session
        BY <3>1, <4>1 DEF Consistent, Claim
      <4> QED BY <2>1, <3>1, <4>2 DEF Done
    <3> QED BY <2>1, <2>2, <3>1, <3>2, <3>3
  <2>4. ASSUME NEW j \in 1..(i - 1), Queue'[j].proc[1] = Queue'[i].ppid,
               Queue'[j].session = Queue'[i].session
        PROVE  (\E k \in 1..(i - 1) : Queue'[k].proc = Queue'[j].proc /\ Queue'[k].kind = "exit")
               \/ Queue'[j].gen < Queue'[i].gen
    <3>1. j \in DOMAIN Queue' /\ j + 1 \in 1..i /\ Queue'[j] = Queue[j + 1] /\ 1 < j + 1
          /\ j + 1 \in DOMAIN Queue
      BY <1>q, <1>2, <2>1 DEF IsQueue
    <3>2. ExitPending(Queue[j + 1].proc, i) \/ Queue[j + 1].gen < Queue[i + 1].gen
      BY <2>1, <2>4, <3>1 DEF ParentIsAbove, Placed
    <3>3. ~(Queue[j + 1].proc = Queue[1].proc /\ Queue[1].kind = "exit")
      BY <1>2, <3>1 DEF ExitIsLast
    <3>4. PICK q : q = Queue[j + 1].proc
      OBVIOUS
    <3>5. ExitPending(q, i) => ExitPending(q, i - 1)'
      BY <2>2, <3>3, <3>4
    <3> QED BY <2>1, <3>1, <3>2, <3>4, <3>5 DEF ExitPending
  <2> QED BY <2>3, <2>4 DEF ExitPending
<1>12. HandIsSound'
  <2> SUFFICES ASSUME hand'.at = "deliver", GoodNext(hand'.rec.session)
               PROVE  Sound(hand'.depth, hand'.rec.gen)
    BY DEF HandIsSound, Good, GoodNext, Done
  <2>1. hand.rec \in ProbeRecord
    BY DEF TypeOK, Hand, Idle
  <2>2. hand.rec.session \in Sessions
    BY <2>1 DEF ProbeRecord
  <2> QED BY <2>2 DEF HandIsSound, Placed, Good, GoodNext, Done
<1> QED BY <1>7, <1>8, <1>9, <1>10, <1>11, <1>12 DEF Placed

-----------------------------------------------------------------------------
(***************************************************************************)
(* The tracker places a process.                                           *)
(***************************************************************************)

\* What Observe leaves and what it enters.
LEMMA ObserveEnters ==
  ASSUME NEW t, TrackerType(t), NEW s \in Sessions, NEW p \in ProcID, NEW ppid,
         NEW u, u = Observe(t, s, p, ppid)
  PROVE  /\ DOMAIN u.procs = DOMAIN t.procs \cup {p}
         /\ \A q \in DOMAIN t.procs : /\ u.procs[q].session = t.procs[q].session
                                      /\ u.procs[q].depth = t.procs[q].depth
         /\ p \notin DOMAIN t.procs => /\ u.procs[p].session = s
                                       /\ u.procs[p].depth = ObservedDepth(t, s, p, ppid)
         /\ u.roots = IF ~Known(t, s, p) /\ PendingRoot(t, s, p)
                      THEN Without(t.roots, {p[1]}) ELSE t.roots
         /\ u.live = IF p \in DOMAIN t.procs THEN t.live ELSE With(t.live, p[1], p)
<1> DEFINE d == ObservedDepth(t, s, p, ppid)
           image == InheritedImage(t, s, p, ppid)
           e == TrackLocked(t, s, p, d)
           placed == IF PendingRoot(t, s, p)
                     THEN [e EXCEPT !.roots = Without(@, {p[1]})] ELSE e
<1>0. t = [procs |-> t.procs, live |-> t.live, roots |-> t.roots]
  BY DEF TrackerType
<1>1. u = IF Known(t, s, p) THEN t
          ELSE IF image = NoImage THEN placed ELSE [placed EXCEPT !.procs[p].image = image]
  BY DEF Observe
<1>2. /\ e.roots = t.roots
      /\ e.live = IF p \in DOMAIN t.procs THEN t.live ELSE With(t.live, p[1], p)
      /\ DOMAIN e.procs = DOMAIN t.procs \cup {p}
      /\ \A q \in DOMAIN t.procs : e.procs[q] = t.procs[q]
      /\ p \notin DOMAIN t.procs => e.procs[p] = [session |-> s, depth |-> d, image |-> NoImage]
      /\ e = [procs |-> e.procs, live |-> e.live, roots |-> e.roots]
  <2> HIDE DEF d
  <2>1. CASE p \in DOMAIN t.procs
    BY <1>0, <2>1 DEF TrackLocked
  <2>2. CASE p \notin DOMAIN t.procs
    <3>1. e = [procs |-> With(t.procs, p, [session |-> s, depth |-> d, image |-> NoImage]),
               live |-> With(t.live, p[1], p), roots |-> t.roots]
      BY <1>0, <2>2 DEF TrackLocked
    <3> HIDE DEF e
    <3> QED BY <2>2, <3>1 DEF With
  <2> QED BY <2>1, <2>2
<1>3. \A q \in DOMAIN e.procs : e.procs[q] = [session |-> e.procs[q].session,
                                  depth |-> e.procs[q].depth, image |-> e.procs[q].image]
  <2>1. \A q \in DOMAIN t.procs : t.procs[q] = [session |-> t.procs[q].session,
                                  depth |-> t.procs[q].depth, image |-> t.procs[q].image]
    BY DEF TrackerType
  <2> HIDE DEF e, d
  <2> QED BY <1>2, <2>1
<1> HIDE DEF e, d, image
<1>4. /\ placed.procs = e.procs /\ placed.live = e.live
      /\ placed.roots = IF PendingRoot(t, s, p) THEN Without(t.roots, {p[1]}) ELSE t.roots
      /\ placed = [procs |-> placed.procs, live |-> placed.live, roots |-> placed.roots]
  BY <1>2
<1> HIDE DEF placed
<1>5. CASE Known(t, s, p)
  BY <1>1, <1>5 DEF Known
<1>6. CASE ~Known(t, s, p) /\ image = NoImage
  BY <1>1, <1>2, <1>4, <1>6 DEF d
<1>7. CASE ~Known(t, s, p) /\ image # NoImage
  <2>1. /\ u.procs = [e.procs EXCEPT ![p].image = image]
        /\ u.live = e.live /\ u.roots = placed.roots
    BY <1>1, <1>4, <1>7
  <2>2. /\ DOMAIN u.procs = DOMAIN e.procs
        /\ \A q \in DOMAIN e.procs : /\ u.procs[q].session = e.procs[q].session
                                     /\ u.procs[q].depth = e.procs[q].depth
    BY <1>2, <1>3, <2>1
  <2> QED BY <1>2, <1>4, <1>7, <2>1, <2>2 DEF d
<1> QED BY <1>5, <1>6, <1>7

\* The depth it returns.
LEMMA ObservesSoundly ==
  ASSUME TypeOK, TrackerAgrees, Lineage, Consistent, Stages, Placed,
         hand.at = "observe", Good(hand.rec.session)
  PROVE  Sound(ObservedDepth(tracker, hand.rec.session, hand.rec.proc, hand.rec.ppid), hand.rec.gen)
<1> DEFINE r == hand.rec
           d == ObservedDepth(tracker, r.session, r.proc, r.ppid)
<1>1. /\ 1 \in DOMAIN Queue /\ Queue[1] = r /\ r.kind # "garbled"
      /\ r.gen \in Nat /\ r.session \in Sessions /\ r.proc \in ProcID
  BY QueueHead, Typed DEF Stages
<1>2. Claim(r.proc, r.session, r.gen) \in Claims
  BY <1>1, Claimants
<1> HIDE DEF r
<1>3. CASE Known(tracker, r.session, r.proc)
  <2>1. d = tracker.procs[r.proc].depth /\ r.proc \in DOMAIN tracker.procs
    BY <1>3 DEF ObservedDepth, Known
  <2> QED BY <1>2, <2>1 DEF PlacedSoundly, Placed, Claim, r
<1>4. CASE ~Known(tracker, r.session, r.proc) /\ PendingRoot(tracker, r.session, r.proc)
  <2>1. d = 0
    BY <1>4 DEF ObservedDepth
  <2>2. PICK pid \in DOMAIN tracker.roots : pid = r.proc[1] /\ tracker.roots[pid] = r.session
    BY <1>4 DEF PendingRoot
  <2>3. \E j \in 1..1 : RootRecord(r.session, pid, j)
    BY <1>1, <2>2 DEF RootComesFirst, Placed, r
  <2>4. r.gen = 0
    BY <1>1, <2>3 DEF RootRecord
  <2> QED BY <2>1, <2>4 DEF Sound, r
<1>5. ASSUME ~Known(tracker, r.session, r.proc), ~PendingRoot(tracker, r.session, r.proc)
      PROVE  r.gen # 0
  <2> SUFFICES ASSUME r.gen = 0 PROVE FALSE
    OBVIOUS
  <2>1. Awaited(r.session, r.proc[1]) \/ r.proc \in DOMAIN tracker.procs
    BY <1>2 DEF RootIsPlaced, Placed, Claim, r
  <2>2. r.proc \in DOMAIN tracker.procs => tracker.procs[r.proc].session = r.session
    BY <1>2 DEF Consistent, Claim
  <2> QED BY <1>5, <2>1, <2>2 DEF Awaited, PendingRoot, Known
<1>6. CASE /\ ~Known(tracker, r.session, r.proc) /\ ~PendingRoot(tracker, r.session, r.proc)
           /\ ParentTracked(tracker, r.session, r.ppid)
  <2>1. PICK q \in DOMAIN tracker.procs : q = tracker.live[r.ppid] /\ r.ppid \in DOMAIN tracker.live
                                          /\ tracker.procs[q].session = r.session
    BY <1>6 DEF ParentTracked, Known
  <2>2. d = tracker.procs[q].depth + 1
    BY <1>6, <2>1 DEF ObservedDepth
  <2>3. q[1] = r.ppid
    BY <2>1 DEF TrackerAgrees
  <2>4. ExitPending(q, 1 - 1) \/ tracker.procs[q].depth < r.gen
    BY <1>1, <2>1, <2>3 DEF ParentIsAbove, Placed, r
  <2>5. ~ExitPending(q, 1 - 1)
    BY DEF ExitPending
  <2>6. tracker.procs[q].depth \in Nat
    BY Typed
  <2>7. Sound(d, r.gen)
    <3> HIDE DEF d
    <3> QED BY <1>1, <2>2, <2>4, <2>5, <2>6 DEF Sound
  <2> QED BY <2>7 DEF r
<1>7. CASE /\ ~Known(tracker, r.session, r.proc) /\ ~PendingRoot(tracker, r.session, r.proc)
           /\ ~ParentTracked(tracker, r.session, r.ppid)
  <2>1. d = 1
    BY <1>7 DEF ObservedDepth
  <2>2. Sound(d, r.gen)
    BY <1>1, <1>5, <1>7, <2>1 DEF Sound
  <2> QED BY <2>2 DEF r
<1> QED BY <1>3, <1>4, <1>6, <1>7


\* Observe, in the collector's state.
LEMMA ObserveEffect ==
  ASSUME TypeOK, ObserveProcess, NEW r, r = hand.rec
  PROVE  /\ r \in ProbeRecord /\ Queue' = Queue /\ 1 \in DOMAIN Queue /\ Queue[1] = r
         /\ hand.at = "observe" /\ hand'.at = "enrich" /\ hand'.rec = r
         /\ hand'.depth = ObservedDepth(tracker, r.session, r.proc, r.ppid)
         /\ UNCHANGED <<alive, starts, tracked, drops, sess, displaced, loop>>
         /\ DOMAIN tracker'.procs = DOMAIN tracker.procs \cup {r.proc}
         /\ \A q \in DOMAIN tracker.procs :
              /\ tracker'.procs[q].session = tracker.procs[q].session
              /\ tracker'.procs[q].depth = tracker.procs[q].depth
         /\ r.proc \notin DOMAIN tracker.procs =>
              tracker'.procs[r.proc].session = r.session /\ tracker'.procs[r.proc].depth = hand'.depth
         /\ tracker'.live = IF r.proc \in DOMAIN tracker.procs THEN tracker.live
                            ELSE With(tracker.live, r.proc[1], r.proc)
         /\ DOMAIN tracker'.roots =
              IF ~Known(tracker, r.session, r.proc) /\ Awaited(r.session, r.proc[1])
              THEN DOMAIN tracker.roots \ {r.proc[1]} ELSE DOMAIN tracker.roots
         /\ \A pid \in DOMAIN tracker'.roots : tracker'.roots[pid] = tracker.roots[pid]
<1>1. hand.at = "observe" /\ r \in ProbeRecord
  BY DEF ObserveProcess, TypeOK, Hand, Idle
<1>2. /\ hand'.at = "enrich" /\ hand'.rec = r
      /\ hand'.depth = ObservedDepth(tracker, r.session, r.proc, r.ppid)
  <2>1. hand = [at |-> hand.at, rec |-> hand.rec, seq |-> hand.seq, depth |-> hand.depth,
                image |-> hand.image]
    BY <1>1 DEF TypeOK, Hand, Idle
  <2> QED BY <2>1 DEF ObserveProcess
<1>3. UNCHANGED <<alive, starts, tracked, ring, drops, sess, displaced, loop>>
  BY DEF ObserveProcess, kernel, consumer, history
<1>4. Queue' = Queue
  BY <1>1, <1>2, <1>3 DEF Queue
<1>5. 1 \in DOMAIN Queue /\ Queue[1] = r
  BY <1>1, QueueHead
<1>6. /\ r.session \in Sessions /\ r.proc \in ProcID /\ TrackerType(tracker)
      /\ tracker' = Observe(tracker, r.session, r.proc, r.ppid)
  BY <1>1 DEF ProbeRecord, TypeOK, ObserveProcess
<1> DEFINE p == r.proc
           s == r.session
<1>7. /\ DOMAIN tracker'.procs = DOMAIN tracker.procs \cup {p}
      /\ \A q \in DOMAIN tracker.procs : /\ tracker'.procs[q].session = tracker.procs[q].session
                                         /\ tracker'.procs[q].depth = tracker.procs[q].depth
      /\ p \notin DOMAIN tracker.procs =>
           /\ tracker'.procs[p].session = s
           /\ tracker'.procs[p].depth = ObservedDepth(tracker, s, p, r.ppid)
      /\ tracker'.roots = IF ~Known(tracker, s, p) /\ PendingRoot(tracker, s, p)
                          THEN Without(tracker.roots, {p[1]}) ELSE tracker.roots
      /\ tracker'.live = IF p \in DOMAIN tracker.procs THEN tracker.live
                         ELSE With(tracker.live, p[1], p)
  <2>1. PICK t : t = tracker
    OBVIOUS
  <2>2. PICK u : u = tracker'
    OBVIOUS
  <2>p. PICK ppid : ppid = r.ppid
    OBVIOUS
  <2>3. TrackerType(t) /\ s \in Sessions /\ p \in ProcID /\ u = Observe(t, s, p, ppid)
    BY <1>6, <2>1, <2>2, <2>p
  <2> HIDE DEF p, s
  <2>4. /\ DOMAIN u.procs = DOMAIN t.procs \cup {p}
        /\ \A q \in DOMAIN t.procs : /\ u.procs[q].session = t.procs[q].session
                                     /\ u.procs[q].depth = t.procs[q].depth
        /\ p \notin DOMAIN t.procs => /\ u.procs[p].session = s
                                     /\ u.procs[p].depth = ObservedDepth(t, s, p, ppid)
        /\ u.roots = IF ~Known(t, s, p) /\ PendingRoot(t, s, p)
                     THEN Without(t.roots, {p[1]}) ELSE t.roots
        /\ u.live = IF p \in DOMAIN t.procs THEN t.live ELSE With(t.live, p[1], p)
    BY <2>3, ObserveEnters
  <2> QED BY <2>1, <2>2, <2>p, <2>4
<1>8. PendingRoot(tracker, s, p) <=> Awaited(s, p[1])
  BY DEF PendingRoot, Awaited
<1>9. /\ DOMAIN tracker'.roots = IF ~Known(tracker, s, p) /\ Awaited(s, p[1])
                                 THEN DOMAIN tracker.roots \ {p[1]} ELSE DOMAIN tracker.roots
      /\ \A pid \in DOMAIN tracker'.roots : tracker'.roots[pid] = tracker.roots[pid]
  BY <1>7, <1>8 DEF Without
<1> QED BY <1>1, <1>2, <1>3, <1>4, <1>5, <1>7, <1>9

LEMMA ObserveBase ==
  ASSUME TypeOK, TypeOK', Lineage, Consistent, ExitIsLast, ObserveProcess
  PROVE  Lineage' /\ Consistent' /\ ExitIsLast'
<1>0. PICK r : r = hand.rec
  OBVIOUS
<1>1. /\ Queue' = Queue /\ 1 \in DOMAIN Queue /\ Queue[1] = r
      /\ UNCHANGED <<alive, starts, sess>>
      /\ DOMAIN tracker'.procs = DOMAIN tracker.procs \cup {r.proc}
      /\ \A q \in DOMAIN tracker.procs : tracker'.procs[q].session = tracker.procs[q].session
      /\ r.proc \notin DOMAIN tracker.procs => tracker'.procs[r.proc].session = r.session
  BY <1>0, ObserveEffect
<1>2. PICK c0 \in Claims : c0.proc = r.proc /\ c0.session = r.session /\ c0.gen = r.gen
  BY <1>1, Claimants DEF Claim
<1>3. Claims' = Claims
  BY <1>1 DEF Claims
<1>4. \A p \in DOMAIN tracker'.procs :
        /\ p[1] # Outside /\ p[2] <= starts
        /\ sess[tracker'.procs[p].session].st # "none"
  BY <1>1, <1>2 DEF Lineage
<1>5. Lineage'
  BY <1>1, <1>3, <1>4 DEF Lineage
<1>6. \A c \in Claims : c.proc \in DOMAIN tracker'.procs =>
        tracker'.procs[c.proc].session = c.session
  BY <1>1, <1>2 DEF Consistent
<1>7. Consistent'
  BY <1>3, <1>6 DEF Consistent
<1>8. ExitIsLast'
  BY <1>1 DEF ExitIsLast
<1> QED BY <1>5, <1>7, <1>8

LEMMA ObservePlaced ==
  ASSUME TypeOK, TypeOK', TrackerAgrees, Lineage, Consistent, Stages, Placed, ObserveProcess
  PROVE  Placed'
<1>q. IsQueue
  BY QueueType
<1>0. PICK r : r = hand.rec
  OBVIOUS
<1>1. /\ r \in ProbeRecord /\ Queue' = Queue /\ 1 \in DOMAIN Queue /\ Queue[1] = r
      /\ hand.at = "observe" /\ hand'.at = "enrich" /\ hand'.rec = r
      /\ hand'.depth = ObservedDepth(tracker, r.session, r.proc, r.ppid)
      /\ UNCHANGED <<alive, starts, tracked, sess, displaced>>
      /\ DOMAIN tracker'.procs = DOMAIN tracker.procs \cup {r.proc}
      /\ \A q \in DOMAIN tracker.procs : /\ tracker'.procs[q].session = tracker.procs[q].session
                                         /\ tracker'.procs[q].depth = tracker.procs[q].depth
      /\ r.proc \notin DOMAIN tracker.procs =>
           tracker'.procs[r.proc].session = r.session /\ tracker'.procs[r.proc].depth = hand'.depth
      /\ DOMAIN tracker'.roots =
           IF ~Known(tracker, r.session, r.proc) /\ Awaited(r.session, r.proc[1])
           THEN DOMAIN tracker.roots \ {r.proc[1]} ELSE DOMAIN tracker.roots
      /\ \A pid \in DOMAIN tracker'.roots : tracker'.roots[pid] = tracker.roots[pid]
  BY <1>0, ObserveEffect
<1>2. PICK c0 \in Claims : c0.proc = r.proc /\ c0.session = r.session /\ c0.gen = r.gen
  BY <1>1, Claimants DEF Claim
<1>3. Claims' = Claims
  BY <1>1 DEF Claims
<1>4. \A s : Good(s)' <=> Good(s)
  BY <1>1 DEF Good
<1>5. Good(r.session) => Sound(hand'.depth, r.gen)
  BY <1>0, <1>1, ObservesSoundly
<1>6. r.kind # "garbled" /\ r.gen \in Nat
  BY <1>0, <1>1 DEF Stages, ProbeRecord
<1>7. \A p, n : ExitPending(p, n)' <=> ExitPending(p, n)
  BY <1>1 DEF ExitPending
<1>8. \A s, pid, j : RootRecord(s, pid, j)' <=> RootRecord(s, pid, j)
  BY <1>1 DEF RootRecord
<1>9. RootComesFirst'
  <2> SUFFICES ASSUME NEW pid \in DOMAIN tracker'.roots, NEW s,
                      s = tracker'.roots[pid], Good(s)
      PROVE
      /\ \A p \in DOMAIN tracker'.procs : p[1] = pid => tracker'.procs[p].session # s
      /\ ~(r.session = s /\ r.proc[1] = pid)
      /\ \A i \in DOMAIN Queue :
           Queue[i].session = s /\ Queue[i].proc[1] = pid /\ Queue[i].kind # "garbled" =>
             \E j \in 1..i : RootRecord(s, pid, j)
      /\ s \in tracked =>
           \/ \E j \in DOMAIN Queue : RootRecord(s, pid, j)
           \/ \E p \in DOMAIN alive :
                p[1] = pid /\ alive[p].session = s /\ alive[p].gen = 0
    BY <1>1, <1>4, <1>8 DEF RootComesFirst
  <2>1. pid \in DOMAIN tracker.roots /\ s = tracker.roots[pid]
    BY <1>1
  <2>2. \A p \in DOMAIN tracker.procs : p[1] = pid => tracker.procs[p].session # s
    BY <2>1 DEF RootComesFirst, Placed
  <2>3. ~(r.session = s /\ r.proc[1] = pid)
    <3> SUFFICES ASSUME r.session = s, r.proc[1] = pid PROVE FALSE
      OBVIOUS
    <3>1. ~Known(tracker, r.session, r.proc)
      BY <2>2 DEF Known
    <3>2. Awaited(r.session, r.proc[1])
      BY <2>1 DEF Awaited
    <3> QED BY <1>1, <3>1, <3>2
  <2>4. \A p \in DOMAIN tracker'.procs : p[1] = pid => tracker'.procs[p].session # s
    BY <1>1, <2>2, <2>3
  <2> QED BY <2>1, <2>3, <2>4 DEF RootComesFirst, Placed
<1>10. RootIsPlaced'
  <2> SUFFICES ASSUME NEW c \in Claims, c.gen = 0, Good(c.session)
               PROVE  (c.proc[1] \in DOMAIN tracker'.roots /\ tracker'.roots[c.proc[1]] = c.session)
                      \/ c.proc \in DOMAIN tracker'.procs
    BY <1>3, <1>4 DEF RootIsPlaced, Awaited
  <2>1. CASE c.proc \in DOMAIN tracker.procs
    BY <1>1, <2>1
  <2>2. CASE Awaited(c.session, c.proc[1]) /\ c.proc[1] \in DOMAIN tracker'.roots
    BY <1>1, <2>2 DEF Awaited
  <2>3. CASE Awaited(c.session, c.proc[1]) /\ c.proc[1] \notin DOMAIN tracker'.roots
    <3>1. PICK pid \in DOMAIN tracker.roots :
            pid = r.proc[1] /\ tracker.roots[pid] = r.session /\ c.session = r.session
      BY <1>1, <2>3 DEF Awaited
    <3>a. Good(r.session)
      BY <3>1
    <3>b. \A i \in DOMAIN Queue :
            Queue[i].session = r.session /\ Queue[i].proc[1] = pid /\ Queue[i].kind # "garbled" =>
              \E j \in 1..i : RootRecord(r.session, pid, j)
      BY <3>1, <3>a DEF RootComesFirst, Placed
    <3>2. \E j \in 1..1 : RootRecord(r.session, pid, j)
      BY <1>1, <1>6, <3>1, <3>b
    <3>3. r.gen = 0
      BY <1>1, <3>2 DEF RootRecord
    <3>4. c = c0
      BY <1>2, <3>1, <3>3 DEF Consistent
    <3> QED BY <1>1, <1>2, <3>4
  <2> QED BY <2>1, <2>2, <2>3 DEF RootIsPlaced, Placed
<1>11. PlacedSoundly'
  <2> SUFFICES ASSUME NEW c \in Claims, c.proc \in DOMAIN tracker'.procs, Good(c.session)
               PROVE  Sound(tracker'.procs[c.proc].depth, c.gen)
    BY <1>3, <1>4 DEF PlacedSoundly
  <2>1. CASE c.proc \in DOMAIN tracker.procs
    BY <1>1, <2>1 DEF PlacedSoundly, Placed
  <2>2. CASE c.proc \notin DOMAIN tracker.procs
    <3>1. c.proc = r.proc /\ c = c0
      BY <1>1, <1>2, <2>2 DEF Consistent
    <3> QED BY <1>1, <1>2, <1>5, <2>2, <3>1
  <2> QED BY <2>1, <2>2
<1>12. ExitIsReported'
  <2>1. ASSUME NEW p \in DOMAIN tracker'.procs, Good(tracker'.procs[p].session),
               tracker'.procs[p].session \in tracked
        PROVE  p \in DOMAIN alive \/ ExitPending(p, Len(Queue))
    <3>1. CASE p \in DOMAIN tracker.procs
      BY <1>1, <2>1, <3>1 DEF ExitIsReported, Placed
    <3>2. CASE p \notin DOMAIN tracker.procs
      <4>1. p = r.proc /\ tracker'.procs[p].session = r.session
        BY <1>1, <3>2
      <4> QED BY <1>1, <2>1, <4>1 DEF ExitIsReported, Placed
    <3> QED BY <3>1, <3>2
  <2>2. \A i \in DOMAIN Queue :
          Good(Queue[i].session) /\ Queue[i].session \in tracked =>
            Queue[i].proc \in DOMAIN alive \/ ExitPending(Queue[i].proc, Len(Queue))
    BY DEF ExitIsReported, Placed
  <2> QED BY <1>1, <2>1, <2>2 DEF ExitIsReported, Good, ExitPending
<1>13. ParentIsAbove'
  <2> SUFFICES ASSUME NEW i \in DOMAIN Queue, Good(Queue[i].session),
                      NEW q \in DOMAIN tracker'.procs, q[1] = Queue[i].ppid,
                      tracker'.procs[q].session = Queue[i].session
               PROVE  ExitPending(q, i - 1) \/ tracker'.procs[q].depth < Queue[i].gen
    BY <1>1 DEF ParentIsAbove, Placed, Good, ExitPending
  <2>1. CASE q \in DOMAIN tracker.procs
    BY <1>1, <2>1 DEF ParentIsAbove, Placed
  <2>2. CASE q \notin DOMAIN tracker.procs
    <3>1. q = r.proc /\ r.session = Queue[i].session /\ tracker'.procs[q].depth = hand'.depth
      BY <1>1, <2>2
    <3>2. i # 1
      BY <1>1, <3>1 DEF Lineage
    <3>3. 1 \in 1..(i - 1)
      BY <1>q, <3>2 DEF IsQueue
    <3>4. ExitPending(r.proc, i - 1) \/ r.gen < Queue[i].gen
      BY <1>1, <3>1, <3>3 DEF ParentIsAbove, Placed
    <3>5. hand'.depth <= r.gen /\ hand'.depth \in Nat /\ Queue[i].gen \in Nat
      <4>a. hand' \in Hand
        BY DEF TypeOK
      <4>b. hand'.at = "enrich"
        BY <1>1
      <4>1. hand'.depth \in Nat
        BY <4>a, <4>b DEF Hand, Idle
      <4>2. Queue[i].gen \in Nat
        BY Typed
      <4> QED BY <1>5, <3>1, <4>1, <4>2 DEF Sound
    <3> QED BY <1>6, <3>1, <3>4, <3>5
  <2> QED BY <2>1, <2>2
<1>14. HandIsSound'
  BY <1>1, <1>4, <1>5 DEF HandIsSound, Good
<1> QED BY <1>9, <1>10, <1>11, <1>12, <1>13, <1>14 DEF Placed

-----------------------------------------------------------------------------
(***************************************************************************)
(* The tracker learns of an exec or an exit.                               *)
(***************************************************************************)
LiveAgrees(t) ==
  \A pid \in DOMAIN t.live : t.live[pid][1] = pid /\ t.live[pid] \in DOMAIN t.procs

\* What SetExecutable keeps.
LEMMA ExecutableKeeps ==
  ASSUME NEW t, TrackerType(t), NEW p, NEW image, NEW u, u = SetExecutable(t, p, image)
  PROVE  /\ u.roots = t.roots /\ u.live = t.live /\ DOMAIN u.procs = DOMAIN t.procs
         /\ \A q \in DOMAIN t.procs : /\ u.procs[q].session = t.procs[q].session
                                      /\ u.procs[q].depth = t.procs[q].depth
<1>0. t = [procs |-> t.procs, live |-> t.live, roots |-> t.roots]
  BY DEF TrackerType
<1>1. CASE p \notin DOMAIN t.procs
  BY <1>1 DEF SetExecutable
<1>2. CASE p \in DOMAIN t.procs
  <2>1. u = [procs |-> [t.procs EXCEPT ![p].image = image], live |-> t.live, roots |-> t.roots]
    BY <1>0, <1>2 DEF SetExecutable
  <2>2. t.procs[p] = [session |-> t.procs[p].session, depth |-> t.procs[p].depth,
                      image |-> t.procs[p].image]
    BY <1>2 DEF TrackerType
  <2> QED BY <1>2, <2>1, <2>2
<1> QED BY <1>1, <1>2

LEMMA UntrackAgrees ==
  ASSUME NEW t, LiveAgrees(t), NEW p
  PROVE  LiveAgrees(Untrack(t, p))
  BY DEF LiveAgrees, Untrack, Without

LEMMA ForgetAgrees ==
  ASSUME NEW t, LiveAgrees(t), NEW s
  PROVE  LiveAgrees(ForgetSession(t, s))
<1> DEFINE gone == Members(t, s)
           u == ForgetSession(t, s)
<1>1. /\ DOMAIN u.procs = DOMAIN t.procs \ gone
      /\ DOMAIN u.live = {pid \in DOMAIN t.live : t.live[pid] \notin gone}
      /\ \A pid \in DOMAIN u.live : u.live[pid] = t.live[pid]
  BY DEF ForgetSession, Without
<1> QED BY <1>1 DEF LiveAgrees

LEMMA EnrichEffect ==
  ASSUME TypeOK, Enrich, NEW r, r = hand.rec
  PROVE  /\ hand.at = "enrich" /\ hand'.at = "deliver" /\ hand'.rec = r /\ hand'.depth = hand.depth
         /\ Popped /\ Queue[1] = r
         /\ UNCHANGED <<alive, starts, tracked, drops, sess, displaced, loop>>
         /\ tracker'.roots = tracker.roots
         /\ DOMAIN tracker'.procs =
              IF r.kind = "exit" THEN DOMAIN tracker.procs \ {r.proc} ELSE DOMAIN tracker.procs
         /\ \A p \in DOMAIN tracker'.procs :
              /\ tracker'.procs[p].session = tracker.procs[p].session
              /\ tracker'.procs[p].depth = tracker.procs[p].depth
         /\ LiveAgrees(tracker) => LiveAgrees(tracker')
<1>1. hand.at = "enrich" /\ TrackerType(tracker)
  BY DEF Enrich, TypeOK
<1>2. hand = [at |-> hand.at, rec |-> hand.rec, seq |-> hand.seq, depth |-> hand.depth,
              image |-> hand.image]
  BY <1>1 DEF TypeOK, Hand, Idle
<1>3. hand'.at = "deliver" /\ hand'.rec = r /\ hand'.depth = hand.depth
  BY <1>2 DEF Enrich
<1>4. UNCHANGED <<alive, starts, tracked, ring, drops, sess, displaced, loop>>
  BY DEF Enrich, kernel, consumer, history
<1>5. Popped /\ Queue[1] = r
  BY <1>1, <1>3, <1>4, QueueRetired
<1>6. PICK image : tracker' = CASE r.kind = "exec" /\ image # NoImage
                                     -> SetExecutable(tracker, r.proc, image)
                                [] r.kind = "exit" -> Untrack(tracker, r.proc)
                                [] OTHER -> tracker
  BY DEF Enrich
<1>7. PICK t : t = tracker
  OBVIOUS
<1>8. PICK u : u = tracker'
  OBVIOUS
<1>9. PICK p : p = r.proc
  OBVIOUS
<1>10. CASE tracker' = SetExecutable(tracker, r.proc, image) /\ r.kind = "exec"
  <2>1. u = SetExecutable(t, p, image) /\ TrackerType(t)
    BY <1>1, <1>7, <1>8, <1>9, <1>10
  <2>2. /\ u.roots = t.roots /\ u.live = t.live /\ DOMAIN u.procs = DOMAIN t.procs
        /\ \A q \in DOMAIN t.procs : /\ u.procs[q].session = t.procs[q].session
                                     /\ u.procs[q].depth = t.procs[q].depth
    BY <2>1, ExecutableKeeps
  <2> QED BY <1>1, <1>3, <1>4, <1>5, <1>7, <1>8, <1>10, <2>2 DEF LiveAgrees
<1>11. CASE tracker' = Untrack(tracker, r.proc) /\ r.kind = "exit"
  <2>1. /\ tracker'.roots = tracker.roots /\ DOMAIN tracker'.procs = DOMAIN tracker.procs \ {r.proc}
        /\ \A q \in DOMAIN tracker'.procs : tracker'.procs[q] = tracker.procs[q]
    BY <1>11 DEF Untrack, Without
  <2>2. LiveAgrees(t) => LiveAgrees(u)
    BY <1>7, <1>8, <1>11, UntrackAgrees
  <2> QED BY <1>1, <1>3, <1>4, <1>5, <1>7, <1>8, <1>11, <2>1, <2>2
<1>12. CASE tracker' = tracker /\ r.kind # "exit"
  BY <1>1, <1>3, <1>4, <1>5, <1>12
<1> QED BY <1>6, <1>10, <1>11, <1>12

LEMMA EnrichDone ==
  ASSUME TypeOK, Stages, Enrich
  PROVE  /\ Done
         /\ Placed => \A s : \A pid : RootRecord(s, pid, 1) /\ Good(s) => ~Awaited(s, pid)
         /\ hand'.at = "deliver" => hand.at = "enrich" /\ hand'.rec = hand.rec
                                    /\ hand'.depth = hand.depth
<1>0. PICK r : r = hand.rec
  OBVIOUS
<1>1. /\ hand.at = "enrich" /\ hand'.at = "deliver" /\ hand'.rec = r /\ hand'.depth = hand.depth
      /\ Popped /\ Queue[1] = r
      /\ UNCHANGED <<alive, starts, tracked, sess, displaced>>
      /\ tracker'.roots = tracker.roots
      /\ DOMAIN tracker'.procs =
           IF r.kind = "exit" THEN DOMAIN tracker.procs \ {r.proc} ELSE DOMAIN tracker.procs
      /\ \A p \in DOMAIN tracker'.procs :
           /\ tracker'.procs[p].session = tracker.procs[p].session
           /\ tracker'.procs[p].depth = tracker.procs[p].depth
  BY <1>0, EnrichEffect
<1>2. Done
  BY <1>1 DEF Done
<1>3. ASSUME Placed, NEW s, NEW pid, RootRecord(s, pid, 1), Good(s), Awaited(s, pid) PROVE FALSE
  <2>1. hand.rec.session = s /\ hand.rec.proc[1] = pid
    BY <1>0, <1>1, <1>3 DEF RootRecord
  <2>2. pid \in DOMAIN tracker.roots /\ tracker.roots[pid] = s
    BY <1>3 DEF Awaited
  <2> QED BY <1>1, <1>3, <2>1, <2>2 DEF RootComesFirst, Placed
<1> QED BY <1>0, <1>1, <1>2, <1>3

-----------------------------------------------------------------------------
(***************************************************************************)
(* A record is taken from the ring.                                        *)
(***************************************************************************)
LEMMA AttributeEffect ==
  ASSUME TypeOK, TrackerAgrees, Attribute
  PROVE  /\ UNCHANGED <<alive, starts, tracked, drops, tracker, displaced, loop>>
         /\ \A s \in Sessions : sess'[s].st = sess[s].st
         /\ \/ /\ Queue' = Queue /\ hand'.at = "observe" /\ hand'.rec.kind # "garbled"
               /\ hand'.rec.session \in Sessions
               /\ sess[hand'.rec.session].st \in {"attached", "detached"}
            \/ /\ Done /\ hand' = hand /\ hand.at = "idle"
               /\ \A s : \A pid : RootRecord(s, pid, 1) /\ Good(s) => ~Awaited(s, pid)
<1>0. PICK r : r = Head(ring)
  OBVIOUS
<1>1. /\ hand = Idle /\ ring # <<>> /\ ring' = Tail(ring)
      /\ UNCHANGED <<alive, starts, tracked, drops, tracker, displaced, loop>>
  BY DEF Attribute, consumer, history
<1>2. /\ 1 \in DOMAIN Queue /\ Queue[1] = r
      /\ hand'.at = "observe" /\ hand'.rec = r => Queue' = Queue
      /\ hand' = hand => Popped
  BY <1>0, <1>1, QueueTaken
<1>3. r.session \in Sessions /\ sess \in [Sessions -> CollSession]
  BY <1>2, Typed DEF TypeOK
<1>4. CASE UNCHANGED <<sess, hand>> /\ (r.kind = "garbled" \/ sess[r.session].st \in {"none", "gone"})
  <2>1. r.kind = "exit" => ~Good(r.session)
    BY <1>4 DEF Good
  <2>2. Done
    BY <1>1, <1>2, <1>4, <2>1 DEF Done, Idle
  <2>3. \A s : \A pid : RootRecord(s, pid, 1) => ~Good(s)
    BY <1>2, <1>4 DEF RootRecord, Good
  <2> QED BY <1>1, <1>4, <2>2, <2>3 DEF Idle
<1>5. CASE /\ r.kind # "garbled" /\ sess[r.session].st \in {"attached", "detached"}
           /\ sess' = [sess EXCEPT ![r.session].seq = @ + 1]
           /\ hand' = [at |-> "observe", rec |-> r, seq |-> sess[r.session].seq + 1,
                       depth |-> 0, image |-> NoImage]
  <2>1. \A s \in Sessions : sess'[s].st = sess[s].st
    BY <1>3, <1>5 DEF CollSession
  <2>2. hand'.at = "observe" /\ hand'.rec = r
    BY <1>5
  <2> QED BY <1>1, <1>2, <1>3, <1>5, <2>1, <2>2
<1> QED BY <1>0, <1>4, <1>5 DEF Attribute

-----------------------------------------------------------------------------
(***************************************************************************)
(* Step by step.                                                           *)
(***************************************************************************)
LEMMA AncestryInit == Init => Ancestry
<1> SUFFICES ASSUME Init PROVE Ancestry
  OBVIOUS
<1>1. TypeOK
  BY InitInv DEF Inv
<1>2. ring = <<>> /\ hand = Idle /\ alive = <<>> /\ tracker = NoTracker /\ loop = Idle
  BY DEF Init
<1>3. Queue = <<>>
  BY <1>2 DEF Queue, Idle
<1>4. DOMAIN alive = {} /\ DOMAIN Queue = {} /\ Claims = {}
  BY <1>2, <1>3 DEF Claims
<1>5. DOMAIN tracker.procs = {} /\ DOMAIN tracker.live = {} /\ DOMAIN tracker.roots = {}
  BY <1>2 DEF NoTracker
<1>6. TrackerAgrees /\ Lineage /\ Consistent /\ ExitIsLast
  BY <1>4, <1>5 DEF TrackerAgrees, Lineage, Consistent, ExitIsLast
<1>7. Stages /\ HandIsSound
  BY <1>2 DEF Stages, HandIsSound, Idle
<1>8. Placed
  BY <1>4, <1>5, <1>7
  DEF Placed, RootComesFirst, RootIsPlaced, PlacedSoundly, ExitIsReported, ParentIsAbove
<1> QED BY <1>1, <1>6, <1>7, <1>8 DEF Ancestry

LEMMA EbbStep ==
  ASSUME Ancestry, TypeOK', Ebb, TrackerAgrees', Stages'
  PROVE  Ancestry'
<1>1. Lineage' /\ Consistent' /\ ExitIsLast'
  BY EbbBase DEF Ancestry
<1>2. drops' = 0 => Placed'
  BY EbbPlaced DEF Ancestry, Ebb
<1> QED BY <1>1, <1>2 DEF Ancestry

LEMMA TablesStay == ASSUME tracker' = tracker PROVE TablesShrink
  BY DEF TablesShrink

LEMMA LivesStay == ASSUME alive' = alive PROVE LivesKept
  BY DEF LivesKept

\* Neither the tables nor the sessions' states change, nor the loop's place.
LEMMA TablesAgreeStill ==
  ASSUME TypeOK, TrackerAgrees, tracker' = tracker, \A s \in Sessions : sess'[s].st = sess[s].st
  PROVE  TrackerAgrees'
  BY Typed DEF TrackerAgrees

LEMMA StagesStay ==
  ASSUME TypeOK, Stages, loop' = loop, tracked' \subseteq tracked,
         \A s \in Sessions : sess'[s].st = sess[s].st,
         hand' = hand \/ hand'.at \notin {"observe", "enrich", "deliver"}
  PROVE  Stages'
  BY HandType DEF Stages

\* The goroutine's steps that neither take a record from the queue nor place it.
LEMMA DrainAncestry ==
  ASSUME Ancestry, TypeOK', Deliver \/ PollReads \/ PollCharges \/ DrainEnds \/ Take \/ Close
  PROVE  Ancestry'
<1> USE DEF kernel, collector, consumer, history
<1>1. UNCHANGED <<alive, starts, drops, ring, tracker, displaced, loop>> /\ tracked' \subseteq tracked
  BY DEF Deliver, PollReads, PollCharges, DrainEnds, Take, Close
<1>2. \A s \in Sessions : sess'[s].st = sess[s].st
  <2>1. sess \in [Sessions -> CollSession]
    BY DEF Ancestry, TypeOK
  <2>2. CASE Deliver
    <3>1. sess' = sess \/ \E s, n : sess' = [sess EXCEPT ![s].pending = n]
      BY <2>2 DEF Deliver, Send, Overflow
    <3> QED BY <2>1, <3>1 DEF CollSession
  <2>3. CASE PollCharges
    <3>1. PICK d : sess' = [s \in Sessions |->
                     IF sess[s].st = "attached" THEN [sess[s] EXCEPT !.pending = @ + d] ELSE sess[s]]
      BY <2>3 DEF PollCharges
    <3> QED BY <2>1, <3>1 DEF CollSession
  <2>4. CASE PollReads \/ DrainEnds \/ Take \/ Close
    BY <2>4 DEF PollReads, DrainEnds, Take, Close
  <2> QED BY <2>2, <2>3, <2>4
<1>3. /\ hand' = hand \/ hand'.at \notin {"observe", "enrich", "deliver"}
      /\ Queue' = Queue
  <2>1. CASE Deliver \/ PollReads \/ PollCharges
    <3>1. hand.at \notin {"observe", "enrich"} /\ hand'.at \notin {"observe", "enrich", "deliver"}
      BY <2>1 DEF Deliver, PollReads, PollCharges, Idle
    <3> QED BY <1>1, <3>1 DEF Queue
  <2>2. CASE DrainEnds \/ Take \/ Close
    <3>1. hand' = hand
      BY <2>2 DEF DrainEnds, Take, Close
    <3> QED BY <1>1, <3>1 DEF Queue
  <2> QED BY <2>1, <2>2
<1>4. SessionsKept
  BY <1>1, <1>2 DEF SessionsKept, Good, GoodNext
<1>5. starts <= starts'
  BY <1>1 DEF Ancestry, TypeOK
<1>6. Ebb
  BY <1>1, <1>3, <1>4, <1>5, TablesStay, LivesStay DEF Ebb
<1>7. TrackerAgrees' /\ Stages'
  BY <1>1, <1>2, <1>3, TablesAgreeStill, StagesStay DEF Ancestry
<1> QED BY <1>6, <1>7, EbbStep

\* Nothing at all.
LEMMA StutterAncestry ==
  ASSUME Ancestry, TypeOK', UNCHANGED vars
  PROVE  Ancestry'
<1>1. UNCHANGED <<alive, starts, tracked, drops, ring, hand, sess, tracker, displaced, loop>>
  BY DEF vars, kernel, collector, consumer, history
<1>2. Queue' = Queue
  BY <1>1 DEF Queue
<1>3. SessionsKept
  BY <1>1 DEF SessionsKept, Good, GoodNext
<1>4. starts <= starts'
  BY <1>1 DEF Ancestry, TypeOK
<1>5. Ebb
  BY <1>1, <1>2, <1>3, <1>4, TablesStay, LivesStay DEF Ebb
<1>6. TrackerAgrees' /\ Stages'
  BY <1>1, TablesAgreeStill, StagesStay DEF Ancestry
<1> QED BY <1>5, <1>6, EbbStep

\* A probe's record goes into the ring or is lost.
LEMMA EmitAncestry ==
  ASSUME Ancestry, TypeOK', NEW p, NEW r, Spoken(p, r), Emit(r), loop' = loop
  PROVE  Ancestry'
<1>1. TypeOK /\ Lineage /\ Consistent /\ ExitIsLast /\ Stages /\ TrackerAgrees
  BY DEF Ancestry
<1>2. r \in ProbeRecord /\ UNCHANGED <<sess, hand, tracker, tracked>>
  BY DEF Spoken
<1>3. drops \in Nat
  BY <1>1 DEF TypeOK
<1>4. TrackerAgrees' /\ Stages'
  BY <1>1, <1>2, TablesAgreeStill, StagesStay
<1>5. CASE ring' = Append(ring, r) /\ drops' = drops
  <2>1. Pushed(r)
    BY <1>1, <1>2, <1>5, QueuePushed
  <2>2. Lineage' /\ Consistent' /\ ExitIsLast'
    BY <1>1, <2>1, SpokenBase
  <2>3. drops' = 0 => Placed'
    BY <1>1, <1>5, <2>1, SpokenPlaced DEF Ancestry
  <2> QED BY <1>4, <2>2, <2>3 DEF Ancestry
<1>6. CASE ring' = ring /\ drops' = drops + 1
  <2>1. Queue' = Queue
    BY <1>2, <1>6 DEF Queue
  <2>2. Lineage' /\ Consistent' /\ ExitIsLast'
    BY <1>1, <2>1, SpokenBase
  <2>3. drops' # 0
    BY <1>3, <1>6
  <2> QED BY <1>4, <2>2, <2>3 DEF Ancestry
<1> QED BY <1>5, <1>6 DEF Emit

LEMMA ProcessSpeaks ==
  ASSUME Ancestry, TypeOK', NEW p \in DOMAIN alive,
         \/ \E image \in Images : Exec(p, image)
         \/ \E kind \in {"other", "garbled"} : Act(p, kind)
         \/ Exit(p)
  PROVE  Ancestry'
<1> USE DEF collector, consumer
<1>0. TypeOK /\ alive[p] \in Process
  BY DEF Ancestry, TypeOK
<1>1. ASSUME NEW image \in Images, Exec(p, image) PROVE Ancestry'
  <2>1. PICK r : r = Record("exec", p, image)
    OBVIOUS
  <2>2. /\ r \in ProbeRecord /\ r.session = alive[p].session /\ r.proc = p
        /\ r.gen = alive[p].gen /\ r.ppid = Parent(p) /\ r.kind = "exec"
    BY <1>0, <2>1, RecordType DEF Record
  <2>3. DOMAIN alive' = DOMAIN alive /\ LivesKept
    BY <1>0, <1>1 DEF Exec, LivesKept, Process
  <2>4. Spoken(p, r) /\ Emit(r) /\ loop' = loop
    BY <1>1, <2>1, <2>2, <2>3 DEF Spoken, Exec, Observed, Emit
  <2> QED BY <2>4, EmitAncestry
<1>2. ASSUME NEW kind \in {"other", "garbled"}, Act(p, kind) PROVE Ancestry'
  <2>1. PICK r : r = Record(kind, p, alive[p].image)
    OBVIOUS
  <2>2. alive[p].image \in Images
    BY <1>0 DEF Process
  <2>3. /\ r \in ProbeRecord /\ r.session = alive[p].session /\ r.proc = p
        /\ r.gen = alive[p].gen /\ r.ppid = Parent(p) /\ r.kind = kind
    BY <1>0, <2>1, <2>2, RecordType DEF Record
  <2>4. Spoken(p, r) /\ Emit(r) /\ loop' = loop
    BY <1>2, <2>1, <2>3, LivesStay DEF Spoken, Act, Observed, Emit
  <2> QED BY <2>4, EmitAncestry
<1>3. ASSUME Exit(p) PROVE Ancestry'
  <2>1. PICK r : r = Record("exit", p, alive[p].image)
    OBVIOUS
  <2>2. alive[p].image \in Images
    BY <1>0 DEF Process
  <2>3. /\ r \in ProbeRecord /\ r.session = alive[p].session /\ r.proc = p
        /\ r.gen = alive[p].gen /\ r.ppid = Parent(p) /\ r.kind = "exit"
    BY <1>0, <2>1, <2>2, RecordType DEF Record
  <2>4. DOMAIN alive' = DOMAIN alive \ {p} /\ LivesKept
    BY <1>3 DEF Exit, LivesKept, Without
  <2>5. Spoken(p, r) /\ Emit(r) /\ loop' = loop
    BY <1>3, <2>1, <2>3, <2>4 DEF Spoken, Exit, Observed, Emit
  <2> QED BY <2>5, EmitAncestry
<1> QED BY <1>1, <1>2, <1>3

LEMMA ForkAncestry ==
  ASSUME Ancestry, TypeOK', NEW p \in DOMAIN alive, NEW pid \in PIDs, Fork(p, pid)
  PROVE  Ancestry'
<1> USE DEF collector, consumer, history
<1>1. TypeOK /\ Lineage /\ Consistent /\ ExitIsLast /\ Stages /\ TrackerAgrees
  BY DEF Ancestry
<1>2. UNCHANGED <<tracker, sess, displaced, hand, tracked, drops, ring, loop>>
  BY DEF Fork
<1>3. PICK n : n = <<pid, starts + 1>>
  OBVIOUS
<1>4. PICK g : g = alive[p].gen + 1
  OBVIOUS
<1>5. /\ n \in ProcID /\ p \in ProcID /\ starts \in Nat /\ alive[p] \in Process
      /\ alive[p].session \in Sessions /\ alive[p].gen \in Nat /\ g \in Nat \ {0}
  <2>1. alive[p] \in Process /\ p \in ProcID /\ starts \in Nat
    BY <1>1 DEF TypeOK
  <2>2. n \in ProcID
    BY <1>3, <2>1, PIDsPositive DEF ProcID
  <2>3. alive[p].session \in Sessions /\ alive[p].gen \in Nat
    BY <2>1 DEF Process
  <2> QED BY <1>4, <2>1, <2>2, <2>3
<1>6. PICK c \in Claims : c.proc = p /\ c.session = alive[p].session
  BY Claimants DEF Claim
<1>7. p[2] <= starts /\ sess[alive[p].session].st # "none"
  BY <1>1, <1>6 DEF Lineage
<1>8. alive' = With(alive, n, [session |-> alive[p].session, parent |-> p,
                               image |-> alive[p].image, gen |-> g])
  BY <1>3, <1>4 DEF Fork
<1>9. n[1] = pid /\ n[2] = starts + 1 /\ starts' = starts + 1 /\ Held(pid) = {}
  BY <1>3 DEF Fork
<1>10. /\ DOMAIN alive' = DOMAIN alive \cup {n}
       /\ alive'[n].session = alive[p].session /\ alive'[n].gen = g /\ alive'[n].parent = p
       /\ n \notin DOMAIN alive => \A q \in DOMAIN alive : alive'[q] = alive[q]
  BY <1>8 DEF With
<1>11. n \notin DOMAIN alive
  BY <1>9 DEF Held
<1>12. Queue' = Queue
  BY <1>2 DEF Queue
<1>13. PICK s : s = alive[p].session
  OBVIOUS
<1>14. Started(n, s, g, p)
  BY <1>2, <1>4, <1>5, <1>7, <1>9, <1>10, <1>11, <1>12, <1>13 DEF Started
<1>15. Lineage' /\ Consistent' /\ ExitIsLast'
  BY <1>1, <1>14, StartedBase
<1>16. drops' = 0 => Placed'
  BY <1>1, <1>2, <1>5, <1>14, ForkPlaced DEF Ancestry
<1>17. TrackerAgrees' /\ Stages'
  BY <1>1, <1>2, TablesAgreeStill, StagesStay
<1> QED BY <1>15, <1>16, <1>17 DEF Ancestry

LEMMA AttachAncestry ==
  ASSUME Ancestry, TypeOK', NEW s \in Sessions, NEW pid \in PIDs, Attach(s, pid)
  PROVE  Ancestry'
<1> USE DEF consumer
<1>1. TypeOK /\ Lineage /\ Consistent /\ ExitIsLast /\ Stages /\ TrackerAgrees
  BY DEF Ancestry
<1>2. /\ UNCHANGED <<hand, drops, ring, loop>> /\ sess[s].st = "none"
      /\ tracked' = tracked \cup {s} /\ tracker' = TrackRoot(tracker, s, pid)
      /\ displaced' = displaced \cup Displaces(s, pid)
  BY DEF Attach
<1>3. sess'[s].st = "attached" /\ \A q \in Sessions \ {s} : sess'[q].st = sess[q].st
  BY <1>1 DEF Attach, TypeOK, CollSession
<1>4. PICK n : n = <<pid, starts + 1>>
  OBVIOUS
<1>5. PICK par : par = <<Outside, 0>>
  OBVIOUS
<1>6. /\ n \in ProcID /\ par \in ProcID /\ starts \in Nat /\ par[1] = Outside /\ par[2] = 0
  <2>1. starts \in Nat /\ starts + 1 \in Nat /\ pid \in Nat
    BY <1>1, PIDsPositive DEF TypeOK
  <2> QED BY <1>4, <1>5, <2>1 DEF ProcID, Outside
<1>7. PICK image \in Images : alive' = With(alive, n, [session |-> s, parent |-> par,
                                                       image |-> image, gen |-> 0])
  BY <1>4, <1>5 DEF Attach
<1>8. n[1] = pid /\ n[2] = starts + 1 /\ starts' = starts + 1 /\ Held(pid) = {}
  BY <1>4 DEF Attach
<1>9. /\ DOMAIN alive' = DOMAIN alive \cup {n}
      /\ alive'[n].session = s /\ alive'[n].gen = 0 /\ alive'[n].parent = par
      /\ n \notin DOMAIN alive => \A q \in DOMAIN alive : alive'[q] = alive[q]
  BY <1>7 DEF With
<1>10. n \notin DOMAIN alive
  BY <1>8 DEF Held
<1>11. par \notin DOMAIN alive'
  <2>1. par # n
    BY <1>6, <1>8, PIDsPositive DEF Outside
  <2>2. par \notin DOMAIN alive
    <3> SUFFICES ASSUME par \in DOMAIN alive PROVE FALSE
      OBVIOUS
    <3>1. Claim(par, alive[par].session, alive[par].gen) \in Claims
      BY Claimants
    <3> QED BY <1>1, <1>6, <3>1 DEF Lineage, Claim
  <2> QED BY <1>9, <2>1, <2>2
<1>12. \A c \in Claims : c.session # s
  BY <1>1, <1>2 DEF Lineage
<1>13. Queue' = Queue /\ tracker'.procs = tracker.procs
  BY <1>1, <1>2 DEF Queue, TrackRoot, TypeOK, TrackerType
<1>14. Started(n, s, 0, par)
  BY <1>3, <1>6, <1>8, <1>9, <1>10, <1>11, <1>12, <1>13 DEF Started
<1>15. Lineage' /\ Consistent' /\ ExitIsLast'
  BY <1>1, <1>14, StartedBase
<1>16. drops' = 0 => Placed'
  BY <1>1, <1>2, <1>3, <1>5, <1>8, <1>14, AttachPlaced DEF Ancestry
<1>17. /\ tracker'.live = tracker.live /\ DOMAIN tracker'.roots = DOMAIN tracker.roots \cup {pid}
       /\ \A q \in DOMAIN tracker'.roots :
            tracker'.roots[q] = s \/ (q \in DOMAIN tracker.roots /\ tracker'.roots[q] = tracker.roots[q])
  BY <1>1, <1>2 DEF TrackRoot, With, TypeOK, TrackerType
<1>18. TrackerAgrees'
  <2>1. \A q \in DOMAIN tracker'.roots : sess'[tracker'.roots[q]].st \in {"attached", "detached"}
    BY <1>1, <1>3, <1>17, Typed DEF TrackerAgrees
  <2> QED BY <1>1, <1>13, <1>17, <2>1 DEF TrackerAgrees
<1>19. Stages'
  BY <1>1, <1>2, <1>3, HandType DEF Stages
<1> QED BY <1>15, <1>16, <1>18, <1>19 DEF Ancestry

LEMMA AttachFailsAncestry ==
  ASSUME Ancestry, TypeOK', NEW s \in Sessions, NEW pid \in PIDs, AttachFails(s, pid)
  PROVE  Ancestry'
<1> USE DEF consumer
<1>1. TypeOK /\ Lineage /\ Stages /\ TrackerAgrees
  BY DEF Ancestry
<1>2. /\ UNCHANGED <<alive, tracked, hand, drops, ring, loop>> /\ sess[s].st = "none"
      /\ displaced' = displaced \cup Displaces(s, pid) /\ starts' = starts + 1 /\ starts \in Nat
  BY <1>1 DEF AttachFails, TypeOK
<1>3. sess'[s].st = "gone" /\ \A q \in Sessions \ {s} : sess'[q].st = sess[q].st
  BY <1>1 DEF AttachFails, TypeOK, CollSession
<1>4. PICK t : t = TrackRoot(tracker, s, pid)
  OBVIOUS
<1>5. /\ t.procs = tracker.procs /\ t.live = tracker.live
      /\ DOMAIN t.roots = DOMAIN tracker.roots \cup {pid} /\ t.roots[pid] = s
      /\ \A q \in DOMAIN tracker.roots \ {pid} : t.roots[q] = tracker.roots[q]
  BY <1>1, <1>4 DEF TrackRoot, With, TypeOK, TrackerType
<1>6. Members(t, s) = {}
  BY <1>1, <1>2, <1>5 DEF Members, Lineage
<1>7. \A q \in DOMAIN tracker.roots : tracker.roots[q] # s
  BY <1>1, <1>2 DEF TrackerAgrees
<1>8. /\ DOMAIN tracker'.procs = DOMAIN tracker.procs
      /\ \A p \in DOMAIN tracker.procs : tracker'.procs[p] = tracker.procs[p]
      /\ DOMAIN tracker'.live = DOMAIN tracker.live
      /\ \A q \in DOMAIN tracker.live : tracker'.live[q] = tracker.live[q]
      /\ DOMAIN tracker'.roots = DOMAIN tracker.roots \ {pid}
      /\ \A q \in DOMAIN tracker'.roots : tracker'.roots[q] = tracker.roots[q]
  <2>1. tracker' = ForgetSession(t, s)
    BY <1>4 DEF AttachFails
  <2>2. tracker' = [procs |-> Without(t.procs, {}), live |-> Without(t.live, {}),
                    roots |-> Without(t.roots, {q \in DOMAIN t.roots : t.roots[q] = s})]
    <3>1. {q \in DOMAIN t.live : t.live[q] \in {}} = {}
      OBVIOUS
    <3> QED BY <1>6, <2>1, <3>1 DEF ForgetSession
  <2> QED BY <1>5, <1>7, <2>2 DEF Without
<1>9. pid \in DOMAIN tracker.roots => ~GoodNext(tracker.roots[pid])
  <2> SUFFICES ASSUME pid \in DOMAIN tracker.roots PROVE tracker.roots[pid] \in displaced'
    BY DEF GoodNext
  <2>1. tracker.roots[pid] \in Sessions \ {s}
    BY <1>1, <1>7, Typed
  <2>2. PendingRoot(tracker, tracker.roots[pid], <<pid, 0>>)
    BY DEF PendingRoot
  <2> QED BY <1>2, <2>1, <2>2 DEF Displaces
<1>10. TablesShrink
  BY <1>8, <1>9 DEF TablesShrink
<1>11. SessionsKept
  BY <1>2, <1>3 DEF SessionsKept, Good, GoodNext
<1>12. Queue' = Queue
  BY <1>2 DEF Queue
<1>13. Ebb
  BY <1>2, <1>10, <1>11, <1>12, LivesStay DEF Ebb
<1>14. TrackerAgrees'
  <2>1. \A q \in DOMAIN tracker'.roots : sess'[tracker'.roots[q]].st \in {"attached", "detached"}
    BY <1>1, <1>3, <1>7, <1>8, Typed DEF TrackerAgrees
  <2> QED BY <1>1, <1>8, <2>1 DEF TrackerAgrees
<1>15. Stages'
  BY <1>1, <1>2, <1>3, HandType DEF Stages
<1> QED BY <1>13, <1>14, <1>15, EbbStep

\* The goroutine takes a record, places its process, learns of its exit.
LEMMA AttributeAncestry ==
  ASSUME Ancestry, TypeOK', Attribute
  PROVE  Ancestry'
<1>1. TypeOK /\ Lineage /\ Consistent /\ ExitIsLast /\ Stages /\ TrackerAgrees
  BY DEF Ancestry
<1>2. /\ UNCHANGED <<alive, starts, tracked, drops, tracker, displaced, loop>>
      /\ \A s \in Sessions : sess'[s].st = sess[s].st
  BY <1>1, AttributeEffect
<1>3. TrackerAgrees'
  BY <1>1, <1>2, TablesAgreeStill
<1>4. CASE /\ Queue' = Queue /\ hand'.at = "observe" /\ hand'.rec.kind # "garbled"
           /\ hand'.rec.session \in Sessions
           /\ sess[hand'.rec.session].st \in {"attached", "detached"}
  <2>1. SessionsKept
    BY <1>2 DEF SessionsKept, Good, GoodNext
  <2>2. starts <= starts'
    BY <1>1, <1>2 DEF TypeOK
  <2>3. Ebb
    BY <1>2, <1>4, <2>1, <2>2, TablesStay, LivesStay DEF Ebb
  <2>4. Stages'
    BY <1>1, <1>2, <1>4, HandType DEF Stages
  <2> QED BY <1>3, <2>3, <2>4, EbbStep
<1>5. CASE /\ Done /\ hand' = hand /\ hand.at = "idle"
           /\ \A s : \A pid : RootRecord(s, pid, 1) /\ Good(s) => ~Awaited(s, pid)
  <2>1. Lineage' /\ Consistent' /\ ExitIsLast'
    BY <1>1, <1>5, DoneBase
  <2>2. hand'.at # "deliver"
    BY <1>5
  <2>3. drops' = 0 => Placed'
    BY <1>1, <1>2, <1>5, <2>2, DonePlaced DEF Ancestry
  <2>4. Stages'
    BY <1>1, <1>2, <1>5, StagesStay
  <2> QED BY <1>3, <2>1, <2>3, <2>4 DEF Ancestry
<1> QED BY <1>1, <1>4, <1>5, AttributeEffect

LEMMA ObserveAncestry ==
  ASSUME Ancestry, TypeOK', ObserveProcess
  PROVE  Ancestry'
<1>1. TypeOK /\ Lineage /\ Consistent /\ ExitIsLast /\ Stages /\ TrackerAgrees
  BY DEF Ancestry
<1>2. PICK r : r = hand.rec
  OBVIOUS
<1>3. /\ hand.at = "observe" /\ hand'.at = "enrich" /\ hand'.rec = r /\ r \in ProbeRecord
      /\ UNCHANGED <<tracked, drops, sess, loop>>
      /\ DOMAIN tracker'.procs = DOMAIN tracker.procs \cup {r.proc}
      /\ tracker'.live = IF r.proc \in DOMAIN tracker.procs THEN tracker.live
                         ELSE With(tracker.live, r.proc[1], r.proc)
      /\ DOMAIN tracker'.roots \subseteq DOMAIN tracker.roots
      /\ \A pid \in DOMAIN tracker'.roots : tracker'.roots[pid] = tracker.roots[pid]
  BY <1>1, <1>2, ObserveEffect
<1>4. Lineage' /\ Consistent' /\ ExitIsLast'
  BY <1>1, ObserveBase
<1>5. drops' = 0 => Placed'
  BY <1>1, <1>3, ObservePlaced DEF Ancestry
<1>6. \A pid \in DOMAIN tracker'.live :
        tracker'.live[pid][1] = pid /\ tracker'.live[pid] \in DOMAIN tracker'.procs
  BY <1>1, <1>3 DEF TrackerAgrees, With
<1>7. TrackerAgrees'
  BY <1>1, <1>3, <1>6 DEF TrackerAgrees
<1>8. Stages'
  BY <1>1, <1>2, <1>3 DEF Stages
<1> QED BY <1>4, <1>5, <1>7, <1>8 DEF Ancestry

LEMMA EnrichAncestry ==
  ASSUME Ancestry, TypeOK', Enrich
  PROVE  Ancestry'
<1>1. TypeOK /\ Lineage /\ Consistent /\ ExitIsLast /\ Stages /\ TrackerAgrees
  BY DEF Ancestry
<1>2. PICK r : r = hand.rec
  OBVIOUS
<1>3. /\ hand.at = "enrich" /\ hand'.at = "deliver" /\ hand'.rec = r
      /\ UNCHANGED <<tracked, drops, sess, loop>> /\ tracker'.roots = tracker.roots
      /\ LiveAgrees(tracker) => LiveAgrees(tracker')
  BY <1>1, <1>2, EnrichEffect
<1>4. /\ Done
      /\ Placed => \A s : \A pid : RootRecord(s, pid, 1) /\ Good(s) => ~Awaited(s, pid)
      /\ hand'.at = "deliver" => hand.at = "enrich" /\ hand'.rec = hand.rec
                                 /\ hand'.depth = hand.depth
  BY <1>1, EnrichDone
<1>5. Lineage' /\ Consistent' /\ ExitIsLast'
  BY <1>1, <1>4, DoneBase
<1>6. drops' = 0 => Placed'
  BY <1>1, <1>3, <1>4, DonePlaced DEF Ancestry
<1>7. TrackerAgrees'
  BY <1>1, <1>3 DEF TrackerAgrees, LiveAgrees
<1>8. Stages'
  BY <1>1, <1>2, <1>3 DEF Stages
<1> QED BY <1>5, <1>6, <1>7, <1>8 DEF Ancestry

\* The grace period of a session ends.
LEMMA GraceAncestry ==
  ASSUME Ancestry, TypeOK', NEW s \in Sessions, GraceExpires(s)
  PROVE  Ancestry'
<1> USE DEF kernel, consumer, history
<1>1. TypeOK /\ Stages /\ TrackerAgrees
  BY DEF Ancestry
<1>2. /\ UNCHANGED <<alive, starts, tracked, drops, ring, hand, loop, displaced>>
      /\ sess[s].st = "detached" /\ tracker' = ForgetSession(tracker, s)
  BY DEF GraceExpires
<1>3. sess'[s].st = "gone" /\ \A q \in Sessions \ {s} : sess'[q].st = sess[q].st
  BY <1>1 DEF GraceExpires, TypeOK, CollSession
<1>4. /\ DOMAIN tracker'.procs = DOMAIN tracker.procs \ Members(tracker, s)
      /\ \A p \in DOMAIN tracker'.procs : tracker'.procs[p] = tracker.procs[p]
      /\ DOMAIN tracker'.roots = {q \in DOMAIN tracker.roots : tracker.roots[q] # s}
      /\ \A q \in DOMAIN tracker'.roots : tracker'.roots[q] = tracker.roots[q]
  BY <1>2 DEF ForgetSession, Without
<1>5. TablesShrink
  BY <1>3, <1>4 DEF TablesShrink, Members, GoodNext
<1>6. SessionsKept
  BY <1>2, <1>3 DEF SessionsKept, Good, GoodNext
<1>7. Queue' = Queue /\ starts <= starts'
  BY <1>1, <1>2 DEF Queue, TypeOK
<1>8. Ebb
  BY <1>2, <1>5, <1>6, <1>7, LivesStay DEF Ebb
<1>9. TrackerAgrees'
  <2>1. PICK t : t = tracker
    OBVIOUS
  <2>2. LiveAgrees(tracker')
    <3>1. LiveAgrees(t)
      BY <1>1, <2>1 DEF TrackerAgrees, LiveAgrees
    <3> QED BY <1>2, <2>1, <3>1, ForgetAgrees
  <2>3. \A q \in DOMAIN tracker'.roots : sess'[tracker'.roots[q]].st \in {"attached", "detached"}
    BY <1>1, <1>3, <1>4, Typed DEF TrackerAgrees
  <2> QED BY <2>2, <2>3 DEF TrackerAgrees, LiveAgrees
<1>10. Stages'
  BY <1>1, <1>2, <1>3, HandType DEF Stages
<1> QED BY <1>8, <1>9, <1>10, EbbStep

\* The loop finishes a session.
LEMMA FinishAncestry ==
  ASSUME Ancestry, TypeOK',
         (\E s \in Sessions : FinishDetaches(s)) \/ FinishUntracks \/ FinishEnds
  PROVE  Ancestry'
<1> USE DEF kernel, collector, history
<1>1. TypeOK /\ Stages /\ TrackerAgrees /\ starts \in Nat
  BY DEF Ancestry, TypeOK
<1>2. ASSUME NEW s \in Sessions, FinishDetaches(s) PROVE Ancestry'
  <2>1. /\ UNCHANGED <<alive, starts, tracked, drops, ring, hand, tracker, displaced>>
        /\ sess[s].st = "attached" /\ loop'.at = "untrack" /\ loop'.session = s
    BY <1>2 DEF FinishDetaches
  <2>2. sess'[s].st = "detached" /\ \A q \in Sessions \ {s} : sess'[q].st = sess[q].st
    BY <1>1, <1>2 DEF FinishDetaches, TypeOK, CollSession
  <2>3. SessionsKept
    BY <2>1, <2>2 DEF SessionsKept, Good, GoodNext
  <2>4. Queue' = Queue /\ starts <= starts'
    BY <1>1, <2>1 DEF Queue
  <2>5. Ebb
    BY <2>1, <2>3, <2>4, TablesStay, LivesStay DEF Ebb
  <2>6. TrackerAgrees'
    BY <1>1, <2>1, <2>2, Typed DEF TrackerAgrees
  <2>7. Stages'
    BY <1>1, <2>1, <2>2, HandType DEF Stages
  <2> QED BY <2>5, <2>6, <2>7, EbbStep
<1>3. ASSUME FinishUntracks PROVE Ancestry'
  <2>1. /\ UNCHANGED <<alive, starts, drops, ring, hand, sess, tracker, displaced>>
        /\ loop.at = "untrack" /\ loop'.at = "outcome" /\ loop'.session = loop.session
        /\ tracked' = tracked \ {loop.session}
    BY <1>3 DEF FinishUntracks
  <2>2. SessionsKept
    BY <2>1 DEF SessionsKept, Good, GoodNext
  <2>3. Queue' = Queue /\ starts <= starts'
    BY <1>1, <2>1 DEF Queue
  <2>4. Ebb
    BY <2>1, <2>2, <2>3, TablesStay, LivesStay DEF Ebb
  <2>5. TrackerAgrees'
    BY <1>1, <2>1, TablesAgreeStill
  <2>6. Stages'
    BY <1>1, <2>1 DEF Stages
  <2> QED BY <2>4, <2>5, <2>6, EbbStep
<1>4. ASSUME FinishEnds PROVE Ancestry'
  <2>1. /\ UNCHANGED <<starts, tracked, drops, ring, hand, sess, tracker, displaced>>
        /\ loop.at = "outcome" /\ loop' = Idle
        /\ alive' = Without(alive, {p \in DOMAIN alive : alive[p].session = loop.session})
    BY <1>4 DEF FinishEnds
  <2>2. SessionsKept
    BY <2>1 DEF SessionsKept, Good, GoodNext
  <2>3. Queue' = Queue /\ starts <= starts'
    BY <1>1, <2>1 DEF Queue
  <2>4. /\ DOMAIN alive' = {p \in DOMAIN alive : alive[p].session # loop.session}
        /\ \A p \in DOMAIN alive' : alive'[p] = alive[p]
    BY <2>1 DEF Without
  <2>5. loop.session \notin tracked
    BY <1>1, <2>1 DEF Stages
  <2>6. Ebb
    BY <2>1, <2>2, <2>3, <2>4, <2>5, TablesStay DEF Ebb, LivesKept
  <2>7. TrackerAgrees'
    BY <1>1, <2>1, TablesAgreeStill
  <2>8. Stages'
    BY <1>1, <2>1 DEF Stages, Idle
  <2> QED BY <2>6, <2>7, <2>8, EbbStep
<1> QED BY <1>2, <1>3, <1>4

LEMMA AncestryStep == Inv /\ Ancestry /\ [Next]_vars => Ancestry'
<1> SUFFICES ASSUME Inv, Ancestry, [Next]_vars PROVE Ancestry'
  OBVIOUS
<1>1. TypeOK'
  BY TypeStep DEF Inv
<1>2. CASE Processes
  BY <1>1, <1>2, ForkAncestry, ProcessSpeaks DEF Processes
<1>3. CASE Drain
  BY <1>1, <1>3, AttributeAncestry, ObserveAncestry, EnrichAncestry, DrainAncestry DEF Drain
<1>4. CASE \E s \in Sessions : \E pid \in PIDs : Attach(s, pid) \/ AttachFails(s, pid)
  BY <1>1, <1>4, AttachAncestry, AttachFailsAncestry
<1>5. CASE \E s \in Sessions : GraceExpires(s) \/ FinishDetaches(s)
  BY <1>1, <1>5, GraceAncestry, FinishAncestry
<1>6. CASE Close \/ Take \/ FinishUntracks \/ FinishEnds
  BY <1>1, <1>6, DrainAncestry, FinishAncestry
<1>7. CASE UNCHANGED vars
  BY <1>1, <1>7, StutterAncestry
<1> QED BY <1>2, <1>3, <1>4, <1>5, <1>6, <1>7 DEF Next

\* In every reachable state, for any number of sessions, PIDs, processes and
\* records: the holder tracker.go keeps of a PID is an entry of its table with
\* that PID, and every root it awaits belongs to a session the collector is
\* still attributing records to.
THEOREM TrackerTablesAgree == Spec => []TrackerAgrees
<1>1. Ancestry => TrackerAgrees
  BY DEF Ancestry
<1> QED
  BY <1>1, AncestryInit, AncestryStep, InitInv, InvStep, PTL DEF Spec

\* In every reachable state: the AncestryDepth that Observe returned for the
\* record in hand is at most the number of forks that lie between its process
\* and the root of its session, and 0 for the root alone, whoever had its PID
\* and its parent's before; unless the kernel has lost a record, the grace
\* period is over, or another session's root displaced the awaited one.
THEOREM DepthsAreSound == Spec => []DepthIsSound
<1>1. Ancestry => DepthIsSound
  <2> SUFFICES ASSUME Ancestry, drops = 0, hand.at \in {"enrich", "deliver"},
                      sess[hand.rec.session].st # "gone", hand.rec.session \notin displaced
               PROVE  hand.depth <= hand.rec.gen /\ (hand.depth = 0 <=> hand.rec.gen = 0)
    BY DEF DepthIsSound
  <2>1. hand.rec.session \in Sessions /\ sess \in [Sessions -> CollSession]
    BY HandType DEF Ancestry, TypeOK
  <2>2. sess[hand.rec.session].st # "none"
    BY DEF Ancestry, Stages
  <2>3. Good(hand.rec.session)
    BY <2>1, <2>2 DEF Good, CollSession
  <2> QED BY <2>3 DEF Ancestry, Placed, HandIsSound, Sound
<1> QED
  BY <1>1, AncestryInit, AncestryStep, InitInv, InvStep, PTL DEF Spec
=============================================================================
