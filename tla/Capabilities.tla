----------------------------- MODULE Capabilities -----------------------------
(***************************************************************************)
(* The closed catalog of capabilities (pkg/capability), what an event      *)
(* exercised (pkg/event), and the observation an event is validated by     *)
(* (internal/telemetry/resolve).                                           *)
(*                                                                         *)
(* An event is a record of its kind, its payload and the fields of it that *)
(* decide anything; the fields of the payload it does not have are empty.  *)
(***************************************************************************)
EXTENDS Integers, Sequences, FiniteSets

FilesystemKinds ==
  {"fs.read", "fs.write", "fs.create", "fs.delete", "fs.rename", "fs.chmod", "fs.chown",
   "fs.truncate", "fs.link", "fs.mount"}
ProcessKinds ==
  {"process.exec", "process.fork", "process.exit", "process.signal", "process.ptrace"}
NetworkKinds ==
  {"net.connect", "net.bind", "net.listen", "net.accept", "net.send", "net.receive",
   "net.dns", "net.rawsocket"}
PrivilegeKinds ==
  {"priv.escalate", "priv.setuid", "priv.capset", "priv.namespace", "priv.seccomp"}
IPCKinds == {"ipc.pipe", "ipc.sharedmem", "ipc.unixsocket"}
KernelKinds == {"kernel.moduleload", "kernel.bpfload", "kernel.kallsyms"}

Kinds == FilesystemKinds \cup ProcessKinds \cup NetworkKinds \cup PrivilegeKinds
           \cup IPCKinds \cup KernelKinds

\* "" for a kind that is not in the catalog.
DomainOf(kind) ==
  CASE kind \in FilesystemKinds -> "filesystem" [] kind \in ProcessKinds -> "process"
    [] kind \in NetworkKinds -> "network"       [] kind \in PrivilegeKinds -> "privilege"
    [] kind \in IPCKinds -> "ipc"               [] kind \in KernelKinds -> "kernel"
    [] OTHER -> ""

\* Severities from info to critical, by rank.
Info == 0 Low == 1 Medium == 2 High == 3 Critical == 4

BaselineSeverity(kind) ==
  CASE kind \in {"process.fork", "process.exit"} -> Info
    [] kind \in {"fs.read", "net.dns", "ipc.pipe"} -> Low
    [] kind \in {"fs.delete", "fs.chmod", "fs.chown", "fs.truncate", "fs.link", "net.connect",
                 "net.send", "priv.seccomp"} -> High
    [] kind \in KernelKinds \cup (PrivilegeKinds \ {"priv.seccomp"})
                \cup {"fs.mount", "process.ptrace", "net.rawsocket"} -> Critical
    [] OTHER -> Medium

-----------------------------------------------------------------------------
\* ExercisedKinds: what an open's flags say it may do.  The access mode 3 names
\* none and counts as writing; O_CREAT without write access still writes.
Flags(access, creat) == [access |-> access, creat |-> creat]

OpenExercises(flags) ==
  LET reads == flags.access \in {"rdonly", "rdwr"}
      writes == flags.access \in {"wronly", "rdwr"}
  IN (IF reads THEN {"fs.read"} ELSE {})
     \cup (IF writes \/ flags.creat \/ ~reads THEN {"fs.write"} ELSE {})
     \cup (IF flags.creat THEN {"fs.create"} ELSE {})

\* exercisedObservations: the other kinds a denial is consulted for.  A hard link
\* is a second name to read and write by.
ExercisedBesides(e) ==
  LET kinds == IF e.kind = "fs.link" THEN {"fs.link", "fs.read", "fs.write"}
               ELSE OpenExercises(e.flags)
  IN IF e.payload # "file" \/ Cardinality(kinds) < 2 THEN {} ELSE kinds \ {e.kind}

-----------------------------------------------------------------------------
\* The target of what acted on nothing that is known.
NoTarget == <<"..">>

Unobservable == [kind |-> "", target |-> NoTarget, hosts |-> {}, port |-> 0, protocol |-> "",
                 argv |-> {}]

\* resolve.Observe: an event of an unknown kind, or without the payload its kind
\* needs, cannot be observed.  A truncated file name names nothing; a destination
\* is known by its name, where one was learnt, and by its address.
Observe(e) ==
  LET of == [Unobservable EXCEPT !.kind = e.kind]
      domain == DomainOf(e.kind)
  IN CASE domain = "" -> Unobservable
       [] domain = "filesystem" ->
            IF e.payload = "file" THEN [of EXCEPT !.target = e.path] ELSE Unobservable
       [] domain = "network" ->
            IF e.payload # "network" THEN Unobservable
            ELSE [of EXCEPT !.hosts = e.hosts, !.protocol = e.protocol,
                            !.port = IF e.kind = "net.dns" THEN 0 ELSE e.port]
       [] domain = "process" ->
            IF e.kind # "process.exec" THEN [of EXCEPT !.target = e.executable]
            ELSE IF e.payload # "exec" THEN Unobservable
            ELSE [of EXCEPT !.target = IF e.truncated THEN NoTarget ELSE e.path, !.argv = e.argv]
       [] OTHER -> [of EXCEPT !.target = IF e.payload = "file" THEN e.path ELSE NoTarget]
=============================================================================
