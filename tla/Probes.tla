------------------------------- MODULE Probes -------------------------------
(***************************************************************************)
(* What the programs of the kernel object observe, and what a set of them  *)
(* that attached can and cannot: internal/telemetry/probes.go.             *)
(*                                                                         *)
(* A family of programs loads, attaches and is lost together.  Two halves  *)
(* of a pair share a scratch map: the entry half emits nothing, and the    *)
(* exit half emits only what the entry half left there.                    *)
(***************************************************************************)
EXTENDS Decoding, SequencesExt

Program(family, half, emits, op, calls, successOnly) ==
  [family |-> family, half |-> half, emits |-> emits, op |-> op, calls |-> calls,
   successOnly |-> successOnly]

Single(family, emits, calls, successOnly) ==
  {Program(family, "only", emits, "unknown", calls, successOnly)}

Pair(family, emits, op, calls) ==
  {Program(family, "enter", "unknown", op, calls, FALSE),
   Program(family, "exit", emits, op, calls, FALSE)}

\* One pair for each credential call, which names the operation; the family is
\* called after the call.
PrivSyscalls ==
  <<"setuid", "setreuid", "setresuid", "setgid", "setregid", "setresgid", "setgroups",
    "capset", "unshare", "setns", "seccomp">>

OpenCalls == {"open", "openat", "openat2", "creat"}

\* The hook on opened files runs after the permission check, as does the one on
\* links: a refused attempt never reaches them.
AllProbes ==
  Single("proc_exec", "proc_exec", {"execve", "execveat"}, FALSE)
  \cup Single("proc_exit", "proc_exit", {"exit", "exit_group"}, FALSE)
  \cup Pair("openat", "file_open", "unknown", OpenCalls)
  \cup Pair("connect", "net_connect", "unknown", {"connect"})
  \cup Single("file_open", "file_open", OpenCalls \cup {"open_by_handle_at", "io_uring"}, TRUE)
  \cup Single("socket_connect", "net_connect", {"connect", "io_uring"}, FALSE)
  \cup Single("path_link", "file_link", {"link", "linkat", "io_uring"}, TRUE)
  \cup UNION {Pair(call, "priv_change", call, {call}) : call \in Range(PrivSyscalls)}

\* The families in the order they are declared.  Without the floor nothing can be
\* attributed to a session.
AllFamilies ==
  <<"proc_exec", "proc_exit", "openat", "connect", "file_open", "socket_connect", "path_link">>
  \o PrivSyscalls

FloorFamilies == {"proc_exec", "proc_exit"}

-----------------------------------------------------------------------------
\* CapabilitiesFor: every kind a record of a type can decode to.
CapabilitiesFor(type) ==
  CASE type = "file_open" -> {"fs.read", "fs.write", "fs.create"}
    [] type = "file_link" -> {"fs.link"}
    [] type = "proc_exec" -> {"process.exec"}
    [] type = "proc_exit" -> {"process.exit"}
    [] type = "net_connect" -> {"net.connect", "ipc.unixsocket"}
    [] type = "priv_change" -> {"priv.setuid", "priv.capset", "priv.namespace", "priv.seccomp"}
    [] OTHER -> {}

ByTypeAlone(program) == CapabilitiesFor(program.emits)

\* capabilitiesFor: a privilege program reports its own operation and no other.
Reports(program) ==
  IF program.emits = "priv_change" THEN {KindForPrivOp(program.op)}
  ELSE CapabilitiesFor(program.emits)

\* What each family amounts to.  It sees successes only when all that emit do.
Family ==
  [f \in Range(AllFamilies) |->
     LET programs == {p \in AllProbes : p.family = f}
         emitting == {p \in programs : p.emits # "unknown"}
     IN [programs |-> programs,
         kinds |-> UNION {Reports(p) : p \in programs},
         calls |-> UNION {p.calls : p \in programs},
         successOnly |-> emitting # {} /\ \A p \in emitting : p.successOnly]]

\* The kernel entry points that the catalog names for the kinds some family reports.
DeclaredCalls(kind) ==
  CASE kind = "fs.read" -> OpenCalls \cup {"open_by_handle_at", "io_uring", "read", "mmap"}
    [] kind = "fs.write" -> OpenCalls \cup {"open_by_handle_at", "io_uring", "write"}
    [] kind = "fs.create" -> OpenCalls \cup {"io_uring", "mkdir", "mknod"}
    [] kind = "fs.link" -> {"link", "linkat", "symlink", "symlinkat", "io_uring"}
    [] kind = "process.exec" -> {"execve", "execveat"}
    [] kind = "process.exit" -> {"exit", "exit_group"}
    [] kind = "net.connect" -> {"connect", "io_uring", "sendto", "sendmsg"}
    [] kind = "ipc.unixsocket" -> {"socket", "connect", "bind"}
    [] kind = "priv.setuid" -> Range(SubSeq(PrivSyscalls, 1, 7))
    [] kind = "priv.capset" -> {"capset"}
    [] kind = "priv.namespace" -> {"unshare", "setns", "clone", "clone3"}
    [] kind = "priv.seccomp" -> {"seccomp", "prctl"}
    [] OTHER -> {}

-----------------------------------------------------------------------------
\* Coverage.

\* The entry points of a kind that these families watch, and those of them where
\* a refused attempt is recorded too.
Watched(families, kind) ==
  UNION {Family[f].calls : f \in {g \in families : kind \in Family[g].kinds}}
FullyWatched(families, kind) ==
  Watched({f \in families : ~Family[f].successOnly}, kind)

EntryPoints(families, kind) ==
  LET watched == DeclaredCalls(kind) \cap Watched(families, kind)
  IN [kind |-> kind, missing |-> DeclaredCalls(kind) \ watched,
      successOnly |-> watched \ FullyWatched(families, kind)]

AnyGap(gaps) == {g \in gaps : g.missing # {} \/ g.successOnly # {}}

\* ComputeCoverage, of the programs that attached: half a family is none of it.
ComputeCoverage(attached) ==
  LET complete == {f \in Range(AllFamilies) : Family[f].programs \subseteq attached}
      observable == UNION {Family[f].kinds : f \in complete}
  IN [complete |-> complete,
      observable |-> observable,
      unobservable |-> (UNION {Family[f].kinds : f \in Range(AllFamilies)}) \ observable,
      floorIntact |-> FloorFamilies \subseteq complete,
      degraded |-> complete # Range(AllFamilies),
      entryPoints |-> AnyGap({EntryPoints(complete, k) : k \in observable})]

\* DegradedEntryPoints: the part of the gaps that a whole build would not have.
\* The rest is by design: a file is observed by the open that reached it.
DegradedEntryPoints(coverage) ==
  AnyGap({[kind |-> g.kind, missing |-> g.missing \cap Watched(Range(AllFamilies), g.kind),
           successOnly |-> g.successOnly \cap FullyWatched(Range(AllFamilies), g.kind)]
            : g \in coverage.entryPoints})

\* The kinds without which nothing is governed.
CoreKinds == {"fs.read", "fs.write", "fs.create", "net.connect"}
UnobservableCore(coverage) == CoreKinds \ coverage.observable
=============================================================================
