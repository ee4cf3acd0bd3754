------------------------------ MODULE Admission ------------------------------
(***************************************************************************)
(* What a session is created from: createSession of                        *)
(* internal/daemon/rpc.go, over the telemetry the daemon started with, the *)
(* analysis of the prompt and the generated envelope.                      *)
(*                                                                         *)
(* A daemon is a record of its configuration (defaultMode, maxSessions,    *)
(* limits), the resolvers of the host, and how many sessions are live; a   *)
(* request of the prompt, the workspace and what it turned out to be, the  *)
(* mode asked for, the owner's home and the languages of the workspace.    *)
(***************************************************************************)
EXTENDS Loading, Generation, Decision

CONSTANTS
  Hosts,    \* hosts a daemon may start on: see Loading
  Named,    \* sets of families enabled by name; the empty one names none
  Daemons,
  Requests

\* A load that fails, fails with an error.
ASSUME HostsAssumption == \A host \in Hosts : host.failsAt # 0 => host.failsWith # ""

\* Generate gives an envelope without a life one of an hour, and the paths of a
\* request are clean.
ASSUME DaemonsAssumption == \A daemon \in Daemons : daemon.limits.ttl \in Nat \ {0}
ASSUME RequestsAssumption ==
  \A req \in Requests : IsSegments(req.ws) /\ IsSegments(req.home) /\ IsResolved(req.ws)

-----------------------------------------------------------------------------
\* ModeRank and config.Restrict: a request can tighten governance and never loosen it.
ModesByRank == <<"monitor", "warn", "interactive", "enforce">>

ModeRank(mode) ==
  IF mode \in Range(ModesByRank) THEN CHOOSE i \in DOMAIN ModesByRank : ModesByRank[i] = mode
  ELSE 0

Stricter(configured, requested) ==
  IF ModeRank(requested) > ModeRank(configured) THEN requested ELSE configured

\* What the answer says of degraded telemetry.
CoverageWarnings(coverage) ==
  LET gaps == DegradedEntryPoints(coverage)
      about(what, kind, calls) == IF calls = {} THEN {} ELSE {<<what, kind, calls>>}
  IN IF ~coverage.degraded THEN {}
     ELSE {<<"degraded", "">>} \cup {<<"unobservable", k>> : k \in coverage.unobservable}
          \cup (UNION {about("no records", g.kind, g.missing) : g \in gaps})
          \cup (UNION {about("successes only", g.kind, g.successOnly) : g \in gaps})

Refused(reason) == [ok |-> FALSE, reason |-> reason]

\* createSession, in its order, under this mode, from the prompt as it was cleaned,
\* what it was taken to ask for, and the envelope made of that.  There is a daemon
\* to answer only when it started.
Answer(daemon, started, req, mode, clean, an, made) ==
  IF ~started.ok THEN Refused(started.reason)
  ELSE IF req.prompt.words = 0 /\ ~req.prompt.hidden THEN Refused("no prompt")
  ELSE IF req.found # "directory" THEN Refused("no workspace")
  ELSE IF req.mode # "" /\ ModeRank(req.mode) = 0 THEN Refused("unknown mode")
  ELSE IF daemon.live >= daemon.maxSessions THEN Refused("too many sessions")
  ELSE IF mode = "enforce" /\ started.coverage.degraded THEN Refused("degraded telemetry")
  ELSE IF clean.prompt.words = 0 THEN Refused("analysis")
  ELSE IF ~made.ok THEN Refused(made.reason)
  ELSE IF ~Admissible(made.envelope) THEN Refused("seal")
  ELSE [ok |-> TRUE, reason |-> "", mode |-> mode, task |-> an.task,
        envelope |-> made.envelope, notes |-> an.ambiguities \cup clean.indicators,
        warnings |-> made.warnings
                     \cup (IF req.mode \in {"", mode} THEN {} ELSE {<<"weaker mode", req.mode>>})
                     \cup CoverageWarnings(started.coverage)]

AnswerFor(daemon, started, req, clean, an) ==
  Answer(daemon, started, req, Stricter(daemon.defaultMode, req.mode), clean, an,
         Generate(an, req.ws, req.home, daemon.resolvers, started.coverage.observable,
                  daemon.limits, daemon.limits.ttl))

CreateSession(daemon, started, req) ==
  LET clean == Sanitize(req.prompt)
  IN AnswerFor(daemon, started, req, clean, Analyze(clean.prompt, req.languages))

-----------------------------------------------------------------------------
\* What an agent's operation on a file is judged as, while nothing is spent.
Opening(path, access, creat) ==
  Decode([Cleared EXCEPT !.type = "file_open", !.name = path, !.found = path, !.access = access,
                         !.creat = creat, !.flags = {"info"}])
Linking(path) ==
  Decode([Cleared EXCEPT !.type = "file_link", !.name = path, !.flags = {"complete"}])

Unspent(envelope) ==
  [grantUses |-> [i \in DOMAIN envelope.grants |-> 0], writes |-> 0, processes |-> 0,
   bytesSent |-> 0, elapsed |-> 0]

Permits(envelope, e) ==
  Validate(envelope, e, Unspent(envelope), 1).verdict = "within_envelope"

-----------------------------------------------------------------------------
\* Properties.  A session is admitted before its first event, and no event changes
\* what it was admitted on: they are read while there is none.
Admitting == log = <<>>

\* Of the families the kernel refuses no more is left out than has to be, in no
\* more loads than a search by halves takes: the rest loads, any of those left out
\* would be refused with it, and a failure that is no refusal costs no family but
\* ends the daemon.
LoadIsMaximal ==
  Admitting => \A host \in Hosts :
    LET load == Load(host)
        refused(out) == \E together \in host.refuses : together \cap out = {}
        spurious == host.failsAt # 0 /\ IsRefusal(host.failsWith)
    IN IF load.ok
       THEN /\ load.out \cap FloorFamilies = {}
            /\ load.loads <= 1 + 6 * Cardinality(load.out)
            /\ ~spurious => /\ ~refused(load.out)
                            /\ \A f \in load.out : refused(load.out \ {f})
                            /\ host.failsAt \notin 1..load.loads
       ELSE \/ host.faults \cap Range(Preconditions) # {}
            \/ host.failsAt # 0
            \/ refused(Droppable)

\* The kinds a program's records decode to.
RecordOf(p, access, creat, family) ==
  [Cleared EXCEPT !.type = p.emits, !.op = p.op, !.access = access, !.creat = creat,
                  !.family = family]

RecordsOf(p) ==
  {RecordOf(p, a, c, f) :
     a \in {"rdonly", "wronly", "rdwr"}, c \in BOOLEAN, f \in {"inet", "unix"}}

EmittedKinds == [p \in AllProbes |-> {KindOfRecord(r) : r \in RecordsOf(p)} \ {""}]

\* Some program that runs reports the call as this kind: an exit half only what
\* its entry half saw, a hook behind the permission check only what was permitted.
Reported(running, kind, call, refused) ==
  \E p \in running :
    /\ kind \in EmittedKinds[p] /\ call \in p.calls
    /\ refused => ~p.successOnly
    /\ p.half = "exit" => \E q \in running : q.family = p.family /\ q.half = "enter"

ReportedKinds(running) == {k \in Kinds : \E c \in DeclaredCalls(k) : Reported(running, k, c, FALSE)}

\* What this build reports and these programs do not.
LostCalls(running, kind, refused) ==
  {c \in DeclaredCalls(kind) : Reported(AllProbes, kind, c, refused)
                               /\ ~Reported(running, kind, c, refused)}

\* Who came to be governed, and on what.
Started == {[host |-> host, as |-> Startup(host, named)] : host \in Hosts, named \in Named}

Created ==
  {a \in {[host |-> s.host, attached |-> s.as.attached, daemon |-> daemon, request |-> req,
           session |-> CreateSession(daemon, s.as, req)] :
            s \in Started, daemon \in Daemons, req \in Requests} :
     a.session.ok}

KindsOf(entries) == {entries[i].kind : i \in DOMAIN entries}
Naming(warnings, what) == {w \in warnings : w[1] = what}

\* Whoever creates a session is told what it will not see, and nothing else is
\* lost: program by program and call by call, what the whole build would report
\* and this one does not is in the answer; the envelope has no grant and no denial
\* that nothing observes, and the one grant this can cost, unless the operator
\* forbids it, is named; a session nobody watches loses nothing; and the refused
\* open of a file is reported by a program that was seen to run.
AdmissionIsHonest ==
  Admitting => \A a \in Created :
    LET s == a.session
        seen == ReportedKinds(a.attached)
        unseen == ReportedKinds(AllProbes) \ seen
        unreported(k) == LostCalls(a.attached, k, FALSE)
        weakened(k) == LostCalls(a.attached, k, TRUE) \ unreported(k)
    IN /\ Naming(s.warnings, "unobservable") = {<<"unobservable", k>> : k \in unseen}
       /\ Naming(s.warnings, "no records")
            = {<<"no records", k, unreported(k)>> : k \in {x \in seen : unreported(x) # {}}}
       /\ Naming(s.warnings, "successes only")
            = {<<"successes only", k, weakened(k)>> : k \in {x \in seen : weakened(x) # {}}}
       /\ KindsOf(s.envelope.grants) \cup KindsOf(s.envelope.denials) \subseteq seen
       /\ Naming(s.warnings, "grant dropped")
            = {<<"grant dropped", k>> : k \in {"fs.link"} \ (seen \cup a.daemon.limits.forbidden)}
       /\ s.mode = "enforce" => unseen = {} /\ \A k \in seen : LostCalls(a.attached, k, TRUE) = {}
       /\ Reported(a.attached \ a.host.silent, "fs.read", "openat", TRUE)

\* Every way to get at what a path holds, and every way to change it.
Openings(path) == {Opening(path, a, c) : a \in {"rdonly", "wronly", "rdwr"}, c \in BOOLEAN}
WaysToRead(path) ==
  {Linking(path)} \cup {e \in Openings(path) : e.flags.access # "wronly"}
WaysToChange(path) ==
  {Linking(path)} \cup {e \in Openings(path) : e.flags.access # "rdonly" \/ e.flags.creat}

\* The prompt is about git before anything else, and reaches a network.
ForGitRemote(prompt) ==
  /\ prompt.phrases \cap {"git commit", "git push"} # {}
  /\ prompt.phrases \cap {"git push", "download"} # {}
  /\ prompt.phrases \cap UNION {TaskRules[i].signals : i \in 1..3} = {}

\* What lies in a directory that its patterns name, and what an agent may be after
\* in the owner's home and in the workspace.
Held(dir, path) == IF dir = <<>> \/ ~Plain(dir) THEN {} ELSE {dir \o path}

Keys(home) == Held(home, <<".ssh", "id">>)
Stores(home) ==
  {<<"etc", "shadow">>} \cup Held(home, <<".aws", "token">>) \cup Held(home, <<".netrc">>)
Hooks(ws, home) ==
  Held(ws, <<".git", "hooks", "post">>)
  \cup Held(home, <<".bashrc">>) \cup Held(home, <<".ssh", "rc">>)
Workflows(ws) == Held(ws, <<".github", "workflows", "ci">>)

\* A workspace where an envelope is told to keep out, or one that patterns tell of
\* in another's stead.
Misplaced(ws, home) ==
  \/ ~Plain(ws) \/ ~Plain(home)
  \/ ws = <<"root">> /\ home # <<"root">>
  \/ \E dir \in Held(home, <<".aws">>) \cup Held(home, <<".ssh">>) : IsPrefix(dir, ws)

\* What the envelope of a task in this workspace keeps an agent of this user from,
\* and what it lets it do.
Confines(env, ws, home, task, forRemote) ==
  LET kept == Stores(home) \cup (IF forRemote THEN {} ELSE Keys(home))
      fixed == Hooks(ws, home) \cup Keys(home)
                 \cup (IF task = "git-operation" THEN {} ELSE Workflows(ws))
      work == ws \o <<"src">>
  IN /\ \A path \in kept : \A e \in WaysToRead(path) : ~Permits(env, e)
     /\ \A path \in fixed : \A e \in WaysToChange(path) : ~Permits(env, e)
     /\ \A e \in WaysToRead(work) \cup WaysToChange(work) :
          Permits(env, e) \/ Misplaced(ws, home) \/ e.kind \notin KindsOf(env.grants)

Admitted ==
  {[env |-> a.session.envelope, ws |-> a.request.ws, home |-> a.request.home,
    task |-> a.session.task, forRemote |-> ForGitRemote(a.request.prompt)] : a \in Created}

\* Whatever the task and wherever its workspace lies, in the user's home or at it,
\* an envelope lets no credential be read or linked and nothing be planted that
\* runs later, though broader grants cover both: but for the keys of a git task
\* that reaches a remote, the workflows of any git task, and what lies in a home or
\* a workspace whose path reads as a pattern, of other directories.  The work itself
\* is permitted, unless its workspace lies where it was told to keep out or either
\* path reads so.
CredentialsOutOfReach ==
  Admitting => \A a \in Admitted : Confines(a.env, a.ws, a.home, a.task, a.forRemote)
=============================================================================
