------------------------------ MODULE Decoding ------------------------------
(***************************************************************************)
(* From a record of the kernel's ring to the event that is judged:         *)
(* internal/telemetry/decode.go, and the part of enrich.go that decides    *)
(* whether a path may be resolved at all.  What a walk of the file system  *)
(* then finds is PathResolution's; here it is a field of the record.       *)
(*                                                                         *)
(* A record is one C struct: every field is there whatever its type, and   *)
(* only those its type defines mean anything.                              *)
(***************************************************************************)
EXTENDS Capabilities

ABIVersion == 7

\* A cleared record, as each type fills it.
Cleared ==
  [type |-> "unknown", version |-> ABIVersion, terminated |-> TRUE, ret |-> 0,
   unobserved |-> FALSE, own |-> {}, executable |-> NoTarget, dropped |-> 0,
   name |-> <<>>, absolute |-> TRUE, access |-> "rdonly", creat |-> FALSE, flags |-> {},
   walked |-> NoTarget, found |-> NoTarget, argv |-> {}, op |-> "unknown",
   family |-> "unspec", addr |-> <<>>, port |-> 0, protocol |-> "", bytes |-> 0]

\* kindForOpenFlags: creation, then the access mode; the mode that names none is
\* taken for a write.
KindForOpenFlags(r) ==
  IF r.creat THEN "fs.create" ELSE IF r.access = "rdonly" THEN "fs.read" ELSE "fs.write"

\* kindForPrivOp: no operation says that privilege was gained.
KindForPrivOp(op) ==
  CASE op \in {"setuid", "setreuid", "setresuid", "setgid", "setregid", "setresgid", "setgroups"}
         -> "priv.setuid"
    [] op = "capset" -> "priv.capset"
    [] op \in {"unshare", "setns"} -> "priv.namespace" [] op = "seccomp" -> "priv.seccomp"
    [] OTHER -> ""

\* kindForConnectFamily: a socket of the host's own is not a way out of it.
KindForConnectFamily(family) == IF family = "unix" THEN "ipc.unixsocket" ELSE "net.connect"

KindOfRecord(r) ==
  CASE r.type = "file_open" -> KindForOpenFlags(r) [] r.type = "file_write" -> "fs.write"
    [] r.type = "file_unlink" -> "fs.delete"       [] r.type = "file_rename" -> "fs.rename"
    [] r.type = "file_link" -> "fs.link"           [] r.type = "file_chmod" -> "fs.chmod"
    [] r.type = "proc_exec" -> "process.exec"      [] r.type = "proc_exit" -> "process.exit"
    [] r.type = "net_connect" -> KindForConnectFamily(r.family)
    [] r.type = "net_bind" -> "net.bind"           [] r.type = "net_send" -> "net.send"
    [] r.type = "ptrace" -> "process.ptrace"       [] r.type = "priv_change" -> KindForPrivOp(r.op)
    [] OTHER -> ""

PayloadOf(r) ==
  CASE r.type \in {"file_open", "file_write", "file_unlink", "file_rename", "file_link",
                   "file_chmod"} -> "file"
    [] r.type = "proc_exec" -> "exec"
    [] r.type \in {"net_connect", "net_bind", "net_send"} -> "network"
    [] OTHER -> ""

\* A record of another build, with a string that was cut short, or of a type or an
\* operation this build does not know, is refused.
Decodes(r) == r.version = ABIVersion /\ r.terminated /\ KindOfRecord(r) \in Kinds

-----------------------------------------------------------------------------
\* What is known of a path.

\* linkPayload: both names are the kernel's own, or nothing is known.
WalkedByKernel(r) == "complete" \in r.flags /\ r.flags \cap {"cut", "unavailable", "deleted"} = {}

IsTruncated(r) ==
  IF r.type = "file_link" THEN ~WalkedByKernel(r) \/ r.name = <<>>
  ELSE /\ PayloadOf(r) \in {"file", "exec"}
       /\ "info" \notin r.flags \/ r.flags \cap {"truncated", "unreadable"} # {}

\* decodeBaseDir: a relative name is joined to its directory only when the kernel
\* walked that to the root of its namespace.
DirStatus(r) ==
  IF r.absolute \/ r.name = <<>> THEN ""
  ELSE IF "deleted" \in r.flags THEN "deleted"
  ELSE IF "unavailable" \in r.flags \/ r.flags \cap {"cwd", "fd"} = {} THEN "unavailable"
  ELSE IF "cut" \in r.flags THEN "truncated"
  ELSE IF "complete" \in r.flags /\ r.walked # NoTarget THEN "complete"
  ELSE "unavailable"

IsKernelPath(r) == r.type = "file_link" \/ "kernel" \in r.flags

\* Enrich: what was cut short is never resolved, the kernel's own name of an open
\* file is taken as it stands, unless the file had been unlinked, and any other
\* is what the walk found.
Resolved(r) ==
  IF IsTruncated(r) \/ r.name = <<>> THEN NoTarget
  ELSE IF IsKernelPath(r) THEN IF r.absolute /\ "unlinked" \notin r.flags THEN r.name ELSE NoTarget
  ELSE IF DirStatus(r) \in {"", "complete"} THEN r.found ELSE NoTarget

\* What an agent produces when it pads a name, opens below a removed directory or
\* rewrites a name under the kernel; a file that was removed since is none of it.
Unverifiable(r) ==
  \/ IsTruncated(r)
  \/ PayloadOf(r) = "file" /\ "late" \in r.flags /\ Resolved(r) = NoTarget
  \/ PayloadOf(r) = "file" /\ DirStatus(r) \in {"truncated", "deleted", "unavailable"}

\* The name a program was started by is as it was given: one that is not absolute
\* is a target like any other, and no pattern can tell whether it covers it.
TargetPath(r) ==
  CASE PayloadOf(r) = "file" -> Resolved(r)
    [] PayloadOf(r) = "exec" ->
         IF r.name = <<>> THEN NoTarget ELSE IF r.absolute THEN r.name ELSE NoTarget \o r.name
    [] OTHER -> NoTarget

\* addressString, of the families whose bytes are understood.
AddressOf(r) ==
  IF PayloadOf(r) = "network" /\ r.family \in {"inet", "inet6"}
  THEN {[form |-> "ip", at |-> r.addr]} ELSE {}

\* netPayload: bytes have a direction in a send alone.
BytesSent(r) == IF r.type = "net_send" THEN r.bytes ELSE 0

\* resultOf: an outcome nothing observed counts as success.
Succeeded(r) == r.unobserved \/ r.ret >= 0

\* Decode and the enrichers.
Decode(r) ==
  [kind |-> KindOfRecord(r), payload |-> PayloadOf(r), path |-> TargetPath(r),
   flags |-> Flags(r.access, r.creat), hosts |-> AddressOf(r),
   port |-> IF PayloadOf(r) = "network" THEN r.port ELSE 0,
   protocol |-> IF PayloadOf(r) = "network" THEN r.protocol ELSE "",
   argv |-> IF PayloadOf(r) = "exec" THEN r.argv ELSE {},
   truncated |-> PayloadOf(r) = "exec" /\ IsTruncated(r),
   executable |-> r.executable, clock |-> 0, id |-> 0,
   succeeded |-> Succeeded(r), unverified |-> Unverifiable(r), own |-> r.own,
   bytes |-> BytesSent(r), dropped |-> r.dropped]

\* An event of a recording carries the time it was made at, and the name its
\* destination was known by.
Recorded(e, clock, names) == [e EXCEPT !.clock = clock, !.hosts = @ \cup names]
=============================================================================
