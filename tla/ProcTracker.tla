----------------------------- MODULE ProcTracker -----------------------------
(***************************************************************************)
(* The process tracker: internal/telemetry/tracker.go.                     *)
(*                                                                         *)
(* A process is its <<pid, start time>>.  The tracker is a value: procs is *)
(* its table of processes, live the holder of each PID as far as the event *)
(* stream tells, roots the PIDs registered before their start was known.   *)
(* Each method runs under the tracker's lock and is one operator here; the *)
(* collector's drain goroutine and the grace timers call them in turn.     *)
(***************************************************************************)
EXTENDS Integers

NoImage == "none" \* the empty executable

NoTracker == [procs |-> <<>>, live |-> <<>>, roots |-> <<>>]

With(f, k, v) == [x \in DOMAIN f \cup {k} |-> IF x = k THEN v ELSE f[x]]

Without(f, keys) == [k \in DOMAIN f \ keys |-> f[k]]

\* TrackRoot: the first observation of pid in the session is its depth 0.
TrackRoot(t, session, pid) == [t EXCEPT !.roots = With(@, pid, session)]

\* trackLocked: an entry that exists is kept, whoever holds it.
TrackLocked(t, session, proc, depth) ==
  IF proc \in DOMAIN t.procs
  THEN t
  ELSE [t EXCEPT
          !.procs = With(@, proc, [session |-> session, depth |-> depth, image |-> NoImage]),
          !.live = With(@, proc[1], proc)]

Known(t, session, proc) ==
  proc \in DOMAIN t.procs /\ t.procs[proc].session = session

PendingRoot(t, session, proc) ==
  proc[1] \in DOMAIN t.roots /\ t.roots[proc[1]] = session

\* The parent's entry, when the parent's PID is held by a process of the session.
ParentTracked(t, session, ppid) ==
  ppid \in DOMAIN t.live /\ Known(t, session, t.live[ppid])

DepthSharesParents(t, session, proc, ppid) ==
  IF Known(t, session, proc) THEN t.procs[proc].depth
  ELSE IF PendingRoot(t, session, proc) THEN 0
  ELSE IF ParentTracked(t, session, ppid) THEN t.procs[t.live[ppid]].depth
  ELSE 1

\* The depth Observe returns.
ObservedDepth(t, session, proc, ppid) ==
  IF Known(t, session, proc) THEN t.procs[proc].depth
  ELSE IF PendingRoot(t, session, proc) THEN 0
  ELSE IF ParentTracked(t, session, ppid) THEN t.procs[t.live[ppid]].depth + 1
  ELSE 1

InheritedImage(t, session, proc, ppid) ==
  IF PendingRoot(t, session, proc) \/ ~ParentTracked(t, session, ppid)
  THEN NoImage
  ELSE t.procs[t.live[ppid]].image

\* Observe: a process not known in the session is entered below its parent, and
\* starts with the image its parent has in the table at that moment.
Observe(t, session, proc, ppid) ==
  IF Known(t, session, proc) THEN t
  ELSE LET image == InheritedImage(t, session, proc, ppid)
           entered == TrackLocked(t, session, proc, ObservedDepth(t, session, proc, ppid))
           placed == IF PendingRoot(t, session, proc)
                     THEN [entered EXCEPT !.roots = Without(@, {proc[1]})]
                     ELSE entered
       IN IF image = NoImage THEN placed
                             ELSE [placed EXCEPT !.procs[proc].image = image]

SetExecutable(t, proc, image) ==
  IF proc \in DOMAIN t.procs THEN [t EXCEPT !.procs[proc].image = image] ELSE t

Executable(t, proc) ==
  IF proc \in DOMAIN t.procs THEN t.procs[proc].image ELSE NoImage

UntrackKeepsLive(t, proc) == [t EXCEPT !.procs = Without(@, {proc})]

\* Untrack: on exit.  The PID is released only by the process that holds it.
Untrack(t, proc) ==
  [procs |-> Without(t.procs, {proc}),
   live |-> IF proc[1] \in DOMAIN t.live /\ t.live[proc[1]] = proc
            THEN Without(t.live, {proc[1]}) ELSE t.live,
   roots |-> t.roots]

Members(t, session) == {p \in DOMAIN t.procs : t.procs[p].session = session}

\* ForgetSession: every process and every pending root of a session.
ForgetSession(t, session) ==
  LET gone == Members(t, session)
  IN [procs |-> Without(t.procs, gone),
      live |-> Without(t.live, {pid \in DOMAIN t.live : t.live[pid] \in gone}),
      roots |-> Without(t.roots, {pid \in DOMAIN t.roots : t.roots[pid] = session})]
=============================================================================
