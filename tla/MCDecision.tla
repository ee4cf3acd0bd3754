------------------------------ MODULE MCDecision ------------------------------
(***************************************************************************)
(* Instances of Decision: records of the kernel and events of a recording, *)
(* envelopes and rule sets small enough to check, chosen so that each      *)
(* budget, each kind of denial and each rule of a set comes into play.     *)
(***************************************************************************)
EXTENDS Admission

Ws == <<"ws">>
Src == <<"ws", "a">>
Key == <<"home", ".netrc">>
Etc == <<"etc", "a">>

Whole == <<Deep>>
InWs == <<Lit("ws"), Deep>>
OneInWs == <<Lit("ws"), Glob({"a", "b"})>>

Addr(bits) == [form |-> "ip", at |-> bits]
Block(bits) == [form |-> "cidr", at |-> bits]
SubdomainsOf(labels) == [form |-> "wildcard", at |-> labels]

-----------------------------------------------------------------------------
\* Records.

Connected(bits) ==
  [Cleared EXCEPT !.type = "net_connect", !.family = "inet", !.addr = bits, !.port = 443,
                  !.protocol = "tcp"]

CreateInWs == Opening(Src, "wronly", TRUE)
ReadWriteKey == Opening(Key, "rdwr", FALSE)
Padded ==
  Decode([Cleared EXCEPT !.type = "file_open", !.name = Src, !.access = "wronly",
                         !.flags = {"info", "truncated"}])
LinkKey == Linking(Key)
WriteEtc ==
  Decode([Cleared EXCEPT !.type = "file_open", !.name = Etc, !.found = Etc, !.access = "rdwr",
                         !.flags = {"info"}, !.ret = -13])
Sent == Decode([Connected(<<"1", "1">>) EXCEPT !.type = "net_send", !.bytes = 2])
ConnectByName == Recorded(Decode(Connected(<<"0", "1">>)), 4, {HostName(<<"com", "x">>)})
ReadEarlier == Recorded(Opening(Src, "rdonly", FALSE), 1, {})
Run == Decode([Cleared EXCEPT !.type = "proc_exec", !.name = <<"bin", "sh">>, !.argv = {"-c"},
                              !.flags = {"info"}])
RunRelative ==
  Decode([Cleared EXCEPT !.type = "proc_exec", !.name = <<"sh">>, !.absolute = FALSE,
                         !.flags = {"info"}])
Setuid == Decode([Cleared EXCEPT !.type = "priv_change", !.op = "setuid"])

-----------------------------------------------------------------------------
\* Envelopes.

OfPaths(kind, patterns, max) ==
  Entry(kind, [NoSelector EXCEPT !.paths = patterns, !.max = max])
OfHosts(kind, patterns, max) ==
  Entry(kind, [NoSelector EXCEPT !.hosts = patterns, !.max = max])

Bare ==
  [grants |-> <<>>, denials |-> <<>>, expires |-> 0, root |-> Ws, maxDuration |-> 0,
   maxProcesses |-> 0, maxWrites |-> 0, maxBytes |-> 0, task |-> "build"]

\* Files: a narrow grant of few uses below a broad one, a denial of reading that
\* opens for writing and links must not get past, and budgets of writes and of time.
FilesEnvelope ==
  [Bare EXCEPT
     !.grants = <<OfPaths("fs.create", {InWs}, 2), OfPaths("fs.create", {OneInWs}, 1),
                  OfPaths("fs.write", {Whole}, 0), OfPaths("fs.link", {Whole}, 0),
                  OfPaths("fs.read", {<<Lit("ws"), Deep, Glob({"a"})>>}, 0)>>,
     !.denials = <<OfPaths("fs.read", {<<Deep, Lit(".netrc")>>}, 0)>>,
     !.maxWrites = 2, !.maxDuration = 1, !.expires = 3]

\* Network: a denial by name that an address may be, a block of addresses, and
\* budgets of bytes, of processes and of time.
NetworkEnvelope ==
  [Bare EXCEPT
     !.grants = <<OfHosts("net.connect", {Block(<<"0">>)}, 2),
                  OfHosts("net.send", {Addr(<<"1", "1">>)}, 0),
                  Entry("process.exec", ToPrograms({<<Lit("bin"), Deep>>})),
                  OfPaths("fs.read", {InWs}, 0)>>,
     !.denials = <<[OfHosts("net.connect", {SubdomainsOf(<<"com">>)}, 0) EXCEPT !.sel.ports = {80}],
                   OfPaths("fs.write", {<<Lit("etc"), Deep>>}, 0)>>,
     !.maxProcesses = 1, !.maxBytes = 2, !.maxDuration = 1]

-----------------------------------------------------------------------------
\* Rule sets.

Rule(priority, condition, action) ==
  [priority |-> priority, enabled |-> TRUE, modes |-> {}, match |-> condition, action |-> action,
   terminal |-> FALSE]

\* After the default rules: denials and changes of privilege, egress that nothing
\* covers, bands of risk that meet, and what is left over.
DefaultRules ==
  <<[Rule(990, [Anything EXCEPT !.kinds = {"priv.setuid", "priv.capset"},
                                !.verdicts = {"outside_envelope", "grant_exceeded"}], "block")
       EXCEPT !.terminal = TRUE],
    Rule(900, [Anything EXCEPT !.verdicts = {"explicitly_denied"}], "block"),
    Rule(850, [Anything EXCEPT !.domains = {"filesystem"}, !.minRisk = {70},
                               !.minConfidence = {6}], "request_approval"),
    Rule(840, [Anything EXCEPT !.kinds = {"net.connect"},
                               !.verdicts = {"outside_envelope", "grant_exceeded"}],
         "request_approval"),
    Rule(690, [Anything EXCEPT !.verdicts = {"indeterminate"}, !.minRisk = {50}],
         "request_approval"),
    Rule(680, [Anything EXCEPT !.verdicts = {"indeterminate"}, !.maxRisk = {50}], "warn"),
    Rule(100, [Anything EXCEPT !.verdicts = {"within_envelope"}], "allow")>>

\* Rules the linter has something to say about: shadowed by what is no wider in a
\* list or a bound, empty, of nothing but patterns that match nothing, of values it
\* does not know, or after a rule that takes everything.
FaultyRules ==
  <<Rule(500, [Anything EXCEPT !.kinds = {"net.connect", "net.send"}, !.maxRisk = {60}], "warn"),
    Rule(400, [Anything EXCEPT !.kinds = {"net.connect"}, !.maxRisk = {50}], "block"),
    Rule(400, [Anything EXCEPT !.kinds = {"net.send"}, !.maxRisk = {95}],
         "request_approval"),
    [Rule(390, [Anything EXCEPT !.hosts = {Addr(<<"1", "1">>)}], "block")
       EXCEPT !.modes = {"enforce"}],
    Rule(380, [Anything EXCEPT !.minRisk = {50}, !.maxRisk = {50}], "block"),
    Rule(370, [Anything EXCEPT !.kinds = {"fs.read"}, !.domains = {"network"}], "block"),
    Rule(360, [Anything EXCEPT !.paths = {<<Lit(Dots)>>}], "block"),
    Rule(350, [Anything EXCEPT !.paths = {<<Lit(Dots)>>, Whole}, !.minRisk = {30}],
         "request_approval"),
    Rule(340, [Anything EXCEPT !.paths = {Whole}], "warn"),
    Rule(330, [Anything EXCEPT !.verdicts = {"unheard_of"}], "block"),
    Rule(320, [Anything EXCEPT !.verdicts = {"unheard_of", "outside_envelope"}], "warn"),
    Rule(300, Anything, "allow"),
    Rule(290, [Anything EXCEPT !.kinds = {"unheard_of", "net.send"}], "block"),
    [Rule(900, Anything, "block") EXCEPT !.enabled = FALSE]>>

-----------------------------------------------------------------------------
Grades ==
  [paths |-> {[grade |-> Critical, patterns |-> {<<Deep, Lit(".netrc")>>}],
              [grade |-> Medium, patterns |-> {<<Lit("home"), Deep>>, <<Lit("etc"), Deep>>}]},
   hosts |-> {[grade |-> High, patterns |-> {Block(<<"1">>)}]}]

-----------------------------------------------------------------------------
\* Hosts, from one that has everything to one that governs nothing.

Sound ==
  [refuses |-> {}, failsAt |-> 0, failsWith |-> "", faults |-> {}, unattachable |-> {},
   silent |-> {}]

Refusing(families) == [Sound EXCEPT !.refuses = {{f} : f \in families}]
Half(family, half) == {p \in AllProbes : p.family = family /\ p.half = half}

NoLinks == Refusing({"path_link"})

\* The verifier refuses one family, several, the last of a kind, what only fails
\* beside another, the floor; or the load fails for another reason on the way.
LoadingHosts ==
  {Sound, NoLinks, Refusing({"capset", "setns", "seccomp"}), Refusing({"openat"}),
   Refusing({"file_open", "setgid"}), Refusing({"connect", "socket_connect"}),
   Refusing({"proc_exec"}), Refusing(Range(AllFamilies)),
   [Sound EXCEPT !.refuses = {{"openat", "setns"}, {"connect", "path_link"}, {"capset"}}],
   [NoLinks EXCEPT !.failsAt = 3, !.failsWith = "ENOMEM"],
   [NoLinks EXCEPT !.failsAt = 1, !.failsWith = "ENOMEM"],
   [NoLinks EXCEPT !.failsAt = 4, !.failsWith = "EPERM"],
   [NoLinks EXCEPT !.failsAt = 9, !.failsWith = "reopen"],
   [Sound EXCEPT !.failsAt = 1, !.failsWith = "EACCES"]}

\* What loads does not attach, in either half of a pair or in both, attaches and
\* does not run, or something else is missing.
AttachingHosts ==
  {[Sound EXCEPT !.unattachable = Half("connect", "exit")],
   [Sound EXCEPT !.unattachable = Half("setuid", "enter") \cup Half("socket_connect", "only")],
   [Sound EXCEPT !.unattachable = Half("openat", "enter")],
   [Sound EXCEPT !.silent = Half("openat", "enter")],
   [Sound EXCEPT !.silent = Half("openat", "exit") \cup Half("connect", "exit")],
   [Sound EXCEPT !.silent = Half("file_open", "only")],
   [Sound EXCEPT !.unattachable = Half("proc_exit", "only")]}
  \cup {[Sound EXCEPT !.faults = {f}] : f \in {"cgroup2", "ring", "adopt", "audit_log", "socket"}}

MCHosts == LoadingHosts \cup AttachingHosts
MCNamed == {{}, {"openat", "connect"}}

MCDaemons ==
  LET limits == [forbidden |-> {}, maxGrants |-> 8, minConfidence |-> 0, ttl |-> 3]
      daemon == [defaultMode |-> "interactive", maxSessions |-> 2, live |-> 1,
                 resolvers |-> {Addr(<<"0", "0">>)}, limits |-> limits]
  IN {daemon, [daemon EXCEPT !.defaultMode = "enforce", !.resolvers = {}],
      [daemon EXCEPT !.defaultMode = "monitor", !.limits.forbidden = {"fs.link", "net.connect"}],
      [daemon EXCEPT !.live = 2], [daemon EXCEPT !.limits.maxGrants = 7]}

\* A class of one name, the segment that spans any number of them, and a class that
\* is not closed.
MCGlobs ==
  [name \in {"[x]", "[u]", "**", "["} |->
     CASE name = "[x]" -> Glob({"x"}) [] name = "[u]" -> Glob({"u"}) [] name = "**" -> Deep
       [] OTHER -> Lit(Dots)]

\* Prompts that match one task, several or none, that speak to the governor, and
\* that consist of what cannot be seen.
Home == <<"home">>

MCPrompts ==
  {Prompt({"go build"}, {}, 4, FALSE), Prompt({"git commit", "the same"}, {}, 2, FALSE),
   Prompt({"git push", "~/"}, {HostName(<<"com", "x">>)}, 5, TRUE),
   Prompt({"upgrade the dependencies", "git push", "readme"}, {}, 6, FALSE),
   Prompt({"download", "ignore previous instructions", "remove"}, {}, 8, FALSE),
   Prompt({}, {}, 0, TRUE), Prompt({}, {}, 0, FALSE)}

MCRequests ==
  LET plain == [ws |-> Ws, found |-> "directory", mode |-> "", home |-> Home,
                languages |-> {"go", "python"}]
      shapes == {plain, [plain EXCEPT !.ws = <<"tmp", "[x]">>], [plain EXCEPT !.ws = <<"**">>],
                 [plain EXCEPT !.ws = Home \o <<"[", "a">>],
                 [plain EXCEPT !.ws = <<"home", "[u]", "a">>, !.home = <<"home", "[u]">>],
                 [plain EXCEPT !.ws = Home \o <<"a">>], [plain EXCEPT !.ws = Home],
                 [plain EXCEPT !.ws = <<"etc">>, !.home = <<>>, !.mode = "monitor"],
                 [plain EXCEPT !.ws = <<"root", "a">>, !.home = <<"root">>, !.mode = "enforce"],
                 [plain EXCEPT !.ws = <<"root">>, !.home = <<"root">>],
                 [plain EXCEPT !.ws = <<"root">>], [plain EXCEPT !.ws = Home \o <<".ssh">>],
                 [plain EXCEPT !.ws = <<>>], [plain EXCEPT !.mode = "unheard_of"],
                 [plain EXCEPT !.found = "missing"]}
  IN {[ws |-> s.ws, found |-> s.found, mode |-> s.mode, home |-> s.home,
       languages |-> s.languages, prompt |-> p] : s \in shapes, p \in MCPrompts}

\* The envelope of a build, on a host that observes no links.
GeneratedEnvelope ==
  LET daemon == CHOOSE d \in MCDaemons : /\ d.live = 1 /\ d.limits.maxGrants = 8
                                        /\ d.defaultMode = "interactive"
      req == CHOOSE r \in MCRequests : /\ r.ws = Ws /\ r.mode = "" /\ r.found = "directory"
                                       /\ "go build" \in r.prompt.phrases
  IN CreateSession(daemon, Startup(NoLinks, {}), req).envelope

-----------------------------------------------------------------------------
MCConfigs ==
  {[envelope |-> FilesEnvelope, rules |-> DefaultRules, defaultAction |-> "warn",
    mode |-> "interactive", oracle |-> Grades, hostClock |-> TRUE],
   [envelope |-> NetworkEnvelope, rules |-> FaultyRules, defaultAction |-> "block",
    mode |-> "monitor", oracle |-> Grades, hostClock |-> FALSE],
   [envelope |-> GeneratedEnvelope, rules |-> DefaultRules, defaultAction |-> "warn",
    mode |-> "enforce", oracle |-> Grades, hostClock |-> TRUE]}

MCEvents ==
  {CreateInWs, ReadWriteKey, Padded, LinkKey, WriteEtc, Sent, ConnectByName,
   ReadEarlier, Run, RunRelative, Setuid}
=============================================================================
