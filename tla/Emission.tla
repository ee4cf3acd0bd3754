------------------------------ MODULE Emission ------------------------------
\* What becomes of a decision and of a session record: the daemon's emit and
\* record (internal/daemon/daemon.go) over the audit log and the stream's hub.
\* emit runs on the dispatch goroutine: the record goes to the sink, then, even
\* when the write failed, to the hub. record is called from any goroutine.
EXTENDS AuditLog, DecisionHub

VARIABLE emitting \* the decision between its Emit and its publication; 0 is none

vars == <<auditVars, subs, emitting>>

Init == AuditInit /\ HubInit /\ emitting = 0

EmitDecision(kind, bytes) ==
  /\ emitting = 0
  /\ Emit(kind, bytes)
  /\ emitting' = next + 1
  /\ UNCHANGED subs

Record(bytes) == Emit("record", bytes) /\ UNCHANGED <<subs, emitting>>

\* Emit and EmitRecord after Close report ErrClosed and write nothing.
EmitClosed ==
  /\ At("closed") /\ next < MaxRecords
  /\ next' = next + 1
  /\ UNCHANGED <<sink, line, acked, forced, lost, faults, stops>> /\ UntouchedFiles
  /\ UNCHANGED <<subs, emitting>>

PublishEmitted ==
  /\ emitting # 0 /\ line.rec # emitting
  /\ \E accepting \in SUBSET Subscribers : Publish(accepting)
  /\ emitting' = 0
  /\ UNCHANGED auditVars

\* A stopped daemon takes its streams with it.
Ends(stop) ==
  /\ stop
  /\ emitting' = 0
  /\ subs' = [c \in Subscribers |-> IF subs[c].handler = "running" THEN Unsubscribed(c) ELSE subs[c]]

Next ==
  \/ \E b \in LineBytes : Record(b) \/ \E k \in {"routine", "notable"} : EmitDecision(k, b)
  \/ EmitClosed
  \/ PublishEmitted
  \/ /\ \/ RotateSync \/ RotateClear \/ RotateShift \/ RotateCreate
        \/ Write \/ Flush \/ Close
        \/ \E n \in FileLimits, sync, all \in BOOLEAN : Open(n, sync, all)
     /\ UNCHANGED <<subs, emitting>>
  \/ Ends(Stop) \/ Ends(PowerLoss)
  \/ /\ \/ \E c \in Subscribers : Subscribe(c) \/ Send(c) \/ HandlerReturns(c)
        \/ CloseAll
     /\ ~At("down")
     /\ UNCHANGED <<auditVars, emitting>>

Spec == Init /\ [][Next]_vars

-----------------------------------------------------------------------------
\* Types: what each variable may hold; a channel is closed at most once
\* (hub.go would panic on the second close).
TypeOK ==
  /\ names \in [Slots -> Nat] /\ \A n \in Slots : names[n] <= Len(disk)
  /\ disk \in Seq(Seq(Piece)) /\ synced \in Seq(Nat) /\ Len(synced) = Len(disk)
  /\ \A f \in DOMAIN disk : synced[f] <= Len(disk[f])
  /\ sink.at \in SinkAt /\ sink.file \in 0..Len(disk) /\ sink.n \in Slots
  /\ sink.size \in Nat /\ sink.limit \in Nat /\ sink.maxFiles \in FileLimits \cup {0}
  /\ line.rec \in 0..next /\ next \in 0..MaxRecords
  /\ acked \in SUBSET Records /\ forced \in SUBSET acked
  /\ removed \in SUBSET acked /\ lost \in SUBSET acked
  /\ stranded \in SUBSET (DOMAIN disk)
  /\ faults \in 0..MaxFaults /\ stops \in 0..MaxStops
  /\ \A c \in Subscribers :
       /\ Len(subs[c].queue) <= HubCap
       /\ subs[c].closes = IF subs[c].registered \/ subs[c].handler = "none" THEN 0 ELSE 1
  /\ emitting \in 0..next

\* Read from the highest rotated file down to the current one, the log gives
\* the records in the order they were emitted, wherever a rotation failed or
\* was interrupted and whatever max_files has been since (jsonl.go, rotate).
OrderIsKept ==
  \A m, n \in Slots : names[m] # 0 /\ names[n] # 0 =>
    /\ m < n => \A r \in RecordsIn(names[m]), k \in RecordsIn(names[n]) : k < r
    /\ \A i, j \in DOMAIN disk[names[n]] : i < j => disk[names[n]][i].rec < disk[names[n]][j].rec

\* A record whose Emit reported no error is in a file that has a name, unless a
\* power loss took it or rotation deleted its file to keep to max_files; and no
\* deleted record is as new as any of the current file (jsonl.go, Stats: when a
\* rotation could not complete "nothing was lost").
NothingLost ==
  /\ acked \subseteq OnDisk \cup removed \cup lost
  /\ names[0] # 0 => \A r \in removed, k \in RecordsIn(names[0]) : r < k

\* A power loss takes the newest acknowledged records and no older one, across
\* files and restarts too, and none whose Emit returned under sync_writes (jsonl.go,
\* rotate syncs a file before it leaves it): but for those of a file that was written
\* to under a rotated name, which no later rotation syncs.
PowerLossTakesTheTail ==
  [][/\ \A f \in Named \ stranded : \A r \in RecordsIn(f) \cap (lost' \ lost) :
          \A k \in acked \cap OnDisk' : k < r
     /\ lost' \cap forced = {}]_vars

\* A subscriber is sent, in order and without a gap, the decisions published for
\* it; one that falls behind is dropped with a channel it can still drain, never
\* skipped ahead (hub.go: "the stream drops, the pipeline does not").
StreamHasNoGap ==
  \A c \in Subscribers :
    LET s == subs[c] IN
    /\ \A i \in DOMAIN s.queue : s.queue[i] = s.sent + i
    /\ s.registered => s.sent + Len(s.queue) = s.offered
=============================================================================
