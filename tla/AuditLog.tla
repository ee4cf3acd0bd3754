------------------------------ MODULE AuditLog ------------------------------
\* The audit sink and the files it rotates (internal/audit/jsonl.go). Emit and
\* EmitRecord hold the sink's lock from the encoding to the write, so one record
\* is in hand at a time; rotation is a series of calls to the file system, each
\* of which can fail and between any two of which the daemon, or the machine,
\* can stop. A line is its record and its size in blocks of max_size_mb.
\*
\* The file system (external): a name holds at most one file, a removed file
\* that is still open keeps taking writes, renames survive a power loss in
\* order, and a power loss takes an unsynced tail of a file and nothing else.
EXTENDS Integers, Sequences, FiniteSets, SequencesExt

CONSTANTS
  MaxRecords,       \* bound: records offered to the sink, over all of the daemon's runs
  MaxBytes,         \* max_size_mb, in blocks; 0 turns rotation off
  LineBytes,        \* the sizes a line may have
  FileLimits,       \* the values of max_files the daemon is started with
  CreateFailsUnder, \* those among them under which a rotation's new file may not open
  StatFailsUnder,   \* those under which the Stat of a file that a rotation finds may fail
  MaxFaults,        \* bound: calls to the file system that fail
  MaxStops          \* bound: times the daemon stops, in order or not

ASSUME MaxRecordsAssumption == MaxRecords \in Nat
ASSUME MaxBytesAssumption == MaxBytes \in Nat
ASSUME LineBytesAssumption == LineBytes \subseteq Nat \ {0}
ASSUME FileLimitsAssumption == FileLimits \subseteq 0..MaxRecords
ASSUME FaultsAssumption == MaxFaults \in Nat /\ MaxStops \in Nat

VARIABLES
  names,   \* names[0] is the file at path, names[n] the one at path.n; 0 is none
  disk,    \* what each file holds: the pieces written to it, oldest first
  synced,  \* how many of each file's pieces a power loss cannot take
  sink,    \* the JSONLSink
  line,    \* the record in hand
  next,    \* the last record offered
  acked,   \* the records whose Emit returned nil after a write
  forced,  \* those among them that sync_writes made durable
  removed, \* the acknowledged records in files that rotation deleted to keep max_files
  lost,    \* the acknowledged records a power loss took
  stranded,\* the files that were written to after a rotation had renamed them
  faults, stops

auditVars ==
  <<names, disk, synced, sink, line, next, acked, forced, removed, lost, stranded, faults, stops>>

\* There is at most one file for each record, and one name more than they can take.
Slots == 0..(MaxRecords + 2)
Records == 1..MaxRecords
Piece == [rec : Records, bytes : Nat, whole : BOOLEAN]

\* The counters of Stats are left out. "down": no daemon; "closed": Close has run; "idle": the lock is free; the
\* others are the steps of rotate and the write that follows it.
SinkAt == {"down", "closed", "idle", "sync", "clear", "shift", "create", "write"}

Down == [at |-> "down", file |-> 0, size |-> 0, limit |-> 0, maxFiles |-> 0, n |-> 0,
         syncWrites |-> FALSE, recordAll |-> FALSE]

NoLine == [rec |-> 0, bytes |-> 0]

AuditInit ==
  /\ names = [n \in Slots |-> 0]
  /\ disk = <<>> /\ synced = <<>>
  /\ sink = Down /\ line = NoLine /\ next = 0
  /\ acked = {} /\ forced = {} /\ removed = {} /\ lost = {} /\ stranded = {}
  /\ faults = 0 /\ stops = 0

RecordsIn(f) == {disk[f][i].rec : i \in DOMAIN disk[f]}
Named == {f \in DOMAIN disk : \E n \in Slots : names[n] = f}
OnDisk == UNION {RecordsIn(f) : f \in Named}

Fault == faults < MaxFaults /\ faults' = faults + 1
At(step) == sink.at = step
Goto(step) == sink' = [sink EXCEPT !.at = step]
UntouchedFiles == UNCHANGED <<names, disk, synced, removed, stranded>>
UntouchedRecords == UNCHANGED <<next, acked, forced, lost, stops>>

-----------------------------------------------------------------------------
\* Open: append to what is there, never truncate it. A Stat that fails leaves
\* the size at 0.
Open(maxFiles, syncWrites, recordAll) ==
  LET new == names[0] = 0
      f == IF new THEN Len(disk) + 1 ELSE names[0]
      held == IF new THEN 0 ELSE SumFunction([i \in DOMAIN disk[f] |-> disk[f][i].bytes])
      opened == [Down EXCEPT !.at = "idle", !.file = f, !.limit = MaxBytes, !.maxFiles = maxFiles,
                   !.syncWrites = syncWrites, !.recordAll = recordAll]
  IN /\ At("down")
     /\ names' = [names EXCEPT ![0] = f]
     /\ disk' = IF new THEN Append(disk, <<>>) ELSE disk
     /\ synced' = IF new THEN Append(synced, 0) ELSE synced
     /\ \/ sink' = [opened EXCEPT !.size = held] /\ UNCHANGED faults
        \/ held > 0 /\ Fault /\ sink' = opened
     /\ UNCHANGED <<line, removed, stranded>> /\ UntouchedRecords

RotatesFor(bytes) == MaxBytes > 0 /\ sink.size > 0 /\ sink.size + bytes > sink.limit

\* Emit of a decision (kind "routine" or "notable") and EmitRecord (kind
\* "record"), up to the write: filtering, and whether to rotate first.
Emit(kind, bytes) ==
  /\ At("idle") /\ next < MaxRecords
  /\ next' = next + 1
  /\ IF kind = "routine" /\ ~sink.recordAll
     THEN UNCHANGED <<sink, line>>
     ELSE /\ line' = [rec |-> next + 1, bytes |-> bytes]
          /\ Goto(IF RotatesFor(bytes) THEN "sync" ELSE "write")
  /\ UntouchedFiles /\ UNCHANGED <<acked, forced, lost, faults, stops>>

-----------------------------------------------------------------------------
\* rotate

\* A rotation that could not complete is put off until the file has grown by
\* another max_size_mb, and the record goes to the file there is.
PutOff == sink' = [sink EXCEPT !.at = "write", !.limit = sink.size + MaxBytes]

GiveUp ==
  /\ Fault
  /\ PutOff
  /\ UntouchedFiles /\ UNCHANGED line

\* path.1 is taken to be free whatever is there.
One == 1

FirstFree == CHOOSE n \in Slots \ {0} : names[n] = 0 /\ \A m \in 1..(n - 1) : names[m] # 0

\* exists: a name whose Stat fails passes for a free one, whatever is there.
StatFails == sink.maxFiles \in StatFailsUnder /\ Fault

\* What becomes path.1 and up is shifted into a name taken for free, or what lies from
\* path.maxFiles up is deleted first.
MakesRoom ==
  \/ /\ sink.maxFiles = 0
     /\ \/ sink' = [sink EXCEPT !.at = "shift", !.n = FirstFree - 1] /\ UNCHANGED faults
        \/ StatFails /\ \E n \in 1..(FirstFree - 1) : sink' = [sink EXCEPT !.at = "shift", !.n = n - 1]
  \/ /\ sink.maxFiles # 0
     /\ sink' = [sink EXCEPT !.at = "clear", !.n = sink.maxFiles] /\ UNCHANGED faults

\* The file is left without being synced.
RotateUnsynced ==
  /\ At("sync")
  /\ MakesRoom
  /\ UntouchedFiles /\ UNCHANGED line
  /\ UntouchedRecords

RotateSync ==
  /\ At("sync")
  /\ \/ /\ synced' = [synced EXCEPT ![sink.file] = Len(disk[sink.file])]
        /\ MakesRoom
        /\ UNCHANGED <<names, disk, removed, stranded, line>>
     \/ GiveUp
  /\ UntouchedRecords

\* Everything from path.maxFiles up, until a name that holds nothing, or seems to.
RotateClear ==
  /\ At("clear")
  /\ \/ /\ names[sink.n] # 0
        /\ names' = [names EXCEPT ![sink.n] = 0]
        /\ removed' = removed \cup (RecordsIn(names[sink.n]) \cap acked)
        /\ sink' = [sink EXCEPT !.n = @ + 1]
        /\ UNCHANGED <<disk, synced, stranded, line, faults>>
     \/ names[sink.n] # 0 /\ GiveUp
     \/ /\ IF names[sink.n] = 0 THEN UNCHANGED faults ELSE StatFails
        /\ sink' = [sink EXCEPT !.at = "shift", !.n = sink.maxFiles - 1]
        /\ UntouchedFiles /\ UNCHANGED line
  /\ UntouchedRecords

\* What a rename onto path.n+1 deletes; max_files bids it go.
Replaced ==
  IF sink.maxFiles # 0 /\ names[sink.n + 1] # 0 THEN RecordsIn(names[sink.n + 1]) \cap acked ELSE {}

\* The current file takes the first free name, the others keep theirs.
RotateToFree ==
  /\ At("shift")
  /\ names[0] # 0
  /\ names' = [names EXCEPT ![FirstFree] = names[0], ![0] = 0]
  /\ sink' = [sink EXCEPT !.at = "create", !.n = 0]
  /\ UNCHANGED <<disk, synced, removed, stranded, line, faults>>
  /\ UntouchedRecords

\* path.n to path.n+1 for every n down to 1, a missing one passed over; then path
\* itself, which must be there, to path.1.  A rename replaces what has the new name.
RotateShift ==
  /\ At("shift")
  /\ \/ /\ names[sink.n] # 0
        /\ names' = [names EXCEPT ![sink.n + 1] = names[sink.n], ![sink.n] = 0]
        /\ removed' = removed \cup Replaced
        /\ sink' = IF sink.n = 0 THEN [sink EXCEPT !.at = "create"] ELSE [sink EXCEPT !.n = @ - 1]
        /\ UNCHANGED <<disk, synced, stranded, line, faults>>
     \/ /\ names[sink.n] = 0 /\ sink.n > 0
        /\ sink' = [sink EXCEPT !.n = @ - 1]
        /\ UntouchedFiles /\ UNCHANGED <<line, faults>>
     \/ names[sink.n] # 0 /\ GiveUp
     \/ /\ names[sink.n] = 0 /\ sink.n = 0
        /\ PutOff
        /\ UntouchedFiles /\ UNCHANGED <<line, faults>>
  /\ UntouchedRecords

RotateCreate ==
  /\ At("create")
  /\ \/ /\ disk' = Append(disk, <<>>) /\ synced' = Append(synced, 0)
        /\ names' = [names EXCEPT ![0] = Len(disk) + 1]
        /\ sink' = [sink EXCEPT !.at = "write", !.file = Len(disk) + 1, !.size = 0,
                      !.limit = MaxBytes]
        /\ UNCHANGED <<removed, stranded, line, faults>>
     \/ /\ sink.maxFiles \in CreateFailsUnder
        /\ Fault
        /\ PutOff
        /\ stranded' = stranded \cup {sink.file}
        /\ UNCHANGED <<names, disk, synced, removed, line>>
  /\ UntouchedRecords

-----------------------------------------------------------------------------
Put(bytes, whole) ==
  /\ disk' = [disk EXCEPT ![sink.file] = Append(@, [rec |-> line.rec, bytes |-> bytes, whole |-> whole])]
  /\ sink' = [sink EXCEPT !.at = "idle", !.size = @ + bytes]
  /\ line' = NoLine

\* One write for the line; with sync_writes, one fsync for the write.
Write ==
  /\ At("write")
  /\ \/ /\ Put(line.bytes, TRUE)
        /\ acked' = acked \cup {line.rec}
        /\ IF sink.syncWrites
           THEN /\ synced' = [synced EXCEPT ![sink.file] = Len(disk[sink.file]) + 1]
                /\ forced' = forced \cup {line.rec}
           ELSE UNCHANGED <<synced, forced>>
        /\ UNCHANGED faults
     \/ \* written, but the fsync fails: Emit reports an error
        /\ sink.syncWrites /\ Fault
        /\ Put(line.bytes, TRUE)
        /\ UNCHANGED <<synced, acked, forced>>
     \/ \* a short write: what reached the file stays
        /\ Fault
        /\ \E n \in 1..(line.bytes - 1) : Put(n, FALSE)
        /\ UNCHANGED <<synced, acked, forced>>
     \/ /\ Fault
        /\ Goto("idle") /\ line' = NoLine
        /\ UNCHANGED <<disk, synced, acked, forced>>
  /\ UNCHANGED <<names, removed, stranded, next, lost, stops>>

\* Flush, and the first half of Close; an fsync that fails is only reported.
Sync(then) ==
  /\ At("idle")
  /\ \/ synced' = [synced EXCEPT ![sink.file] = Len(disk[sink.file])] /\ UNCHANGED faults
     \/ Fault /\ UNCHANGED synced
  /\ Goto(then)
  /\ UNCHANGED <<names, disk, line, removed, stranded>> /\ UntouchedRecords

Flush == Sync("idle")
Close == Sync("closed")

\* The daemon's process ends: after Close, or killed anywhere. What it wrote is
\* in the operating system's hands.
Stop ==
  /\ ~At("down") /\ stops < MaxStops /\ stops' = stops + 1
  /\ sink' = Down /\ line' = NoLine
  /\ UntouchedFiles /\ UNCHANGED <<next, acked, forced, lost, faults>>

\* The machine loses power: every file keeps what was synced and some of the rest.
PowerLoss ==
  /\ stops < MaxStops /\ stops' = stops + 1
  /\ \E kept \in [DOMAIN disk -> 0..MaxRecords] :
       /\ \A f \in DOMAIN disk : kept[f] \in synced[f]..Len(disk[f])
       /\ disk' = [f \in DOMAIN disk |-> SubSeq(disk[f], 1, kept[f])]
       /\ synced' = kept
  /\ lost' = lost \cup {r \in acked \cap OnDisk : \A f \in Named : \A i \in DOMAIN disk'[f] : disk'[f][i].rec # r}
  /\ sink' = Down /\ line' = NoLine
  /\ UNCHANGED <<names, next, acked, forced, removed, stranded, faults>>
=============================================================================
