----------------------------- MODULE Generation -----------------------------
(***************************************************************************)
(* The envelope of a task: internal/envelope/generate.go.  A fixed base,   *)
(* what the task needs, the hosts it implies, and the denials that every   *)
(* task has; then what no probe observes is taken out and named.           *)
(***************************************************************************)
EXTENDS Selectors, Intent

CONSTANT Globs \* what each name with a *, a ? or a [ matches as a segment of a pattern:
               \* Lit(Dots) where it is no valid one

\* What the generator writes of its own has none.
ASSUME GlobsAssumption ==
  DOMAIN Globs \cap {"usr", "bin", "etc", "passwd", "shadow", "proc", "tmp", "dev", "null", "root",
                     ".gitconfig", ".cache", "go", "pkg", "toolchain", ".npm", ".aws", ".netrc",
                     ".ssh", ".bashrc", ".git", "hooks", ".github", "workflows"} = {}

NoSelector ==
  [paths |-> {}, executables |-> {}, hosts |-> {}, ports |-> {}, protocols |-> {}, args |-> {},
   max |-> 0]

ToPaths(patterns) == [NoSelector EXCEPT !.paths = patterns]
ToPrograms(patterns) == [NoSelector EXCEPT !.executables = patterns]

Entry(kind, sel) == [kind |-> kind, sel |-> sel]

\* A path becomes a pattern as it is spelled: a name that reads as a pattern is one.
AsSegment(name) == IF name \in DOMAIN Globs THEN Globs[name] ELSE Lit(name)
Plain(path) == \A i \in DOMAIN path : path[i] \notin DOMAIN Globs

\* The pattern of a path, and of everything below it.
Exactly(path) == [i \in DOMAIN path |-> AsSegment(path[i])]
Below(path) == Exactly(path) \o <<Deep>>

\* homePaths: none for a user without a home.
InHome(home, patterns) == IF home = <<>> THEN {} ELSE {Exactly(home) \o p : p \in patterns}

-----------------------------------------------------------------------------
\* sameDims, of grants that name no ports and no protocols.
SameDims(a, b) ==
  /\ (a.paths = {}) = (b.paths = {}) /\ (a.hosts = {}) = (b.hosts = {})
  /\ (a.executables = {}) = (b.executables = {})
  /\ a.ports \cup b.ports = {} /\ a.protocols \cup b.protocols = {}

\* union, of one selector and those that are merged into it.
Widened(sel, others) ==
  [sel EXCEPT !.paths = @ \cup (UNION {o.paths : o \in others}),
              !.hosts = @ \cup (UNION {o.hosts : o \in others}),
              !.executables = @ \cup (UNION {o.executables : o \in others})]

\* The entries at these places, in their order.
Chosen(entries, places) ==
  [n \in 1..Cardinality(places) |->
     entries[CHOOSE i \in places : Cardinality({j \in places : j <= i}) = n]]

\* add, of each in turn: a grant that differs in its values alone is merged into
\* the first like it, and any other stands for itself.
Merged(entries) ==
  LET alike(i, j) == /\ entries[i].kind = entries[j].kind
                     /\ SameDims(entries[i].sel, entries[j].sel)
      later(i) == {entries[j].sel : j \in {k \in DOMAIN entries : k > i /\ alike(i, k)}}
      joined == [i \in DOMAIN entries |->
                   Entry(entries[i].kind, Widened(entries[i].sel, later(i)))]
  IN Chosen(joined, {i \in DOMAIN entries : \A j \in 1..i - 1 : ~alike(j, i)})

\* What every toolchain reads, and the programs it runs.
SystemReads ==
  {Below(<<"usr">>), Exactly(<<"etc", "passwd">>), Below(<<"proc">>), Below(<<"tmp">>)}
SystemExecs == {Below(<<"usr", "bin">>), Below(<<"tmp">>)}

Base(ws, home) ==
  LET reads == {Below(ws)} \cup SystemReads
                 \cup InHome(home, {Exactly(<<".gitconfig">>), Below(<<".cache">>)})
      writes == {Below(ws), Below(<<"tmp">>), Exactly(<<"dev", "null">>)}
                  \cup InHome(home, {Below(<<".cache">>)})
      execs == {Below(ws)} \cup SystemExecs \cup InHome(home, {Below(<<"go", "bin">>)})
  IN <<Entry("fs.read", ToPaths(reads)), Entry("fs.write", ToPaths(writes)),
       Entry("fs.create", ToPaths(writes)), Entry("fs.link", ToPaths(writes)),
       Entry("process.exec", ToPrograms(execs)), Entry("process.exit", ToPrograms(execs))>>

\* Git over a network is the one task that reads keys.
ReachesGitRemote(an) == an.task = "git-operation" /\ an.network

Task(an, home) ==
  LET caches == InHome(home, {Below(<<"go">>), Below(<<".npm">>)})
      tools == InHome(home, {Below(<<"go", "pkg", "toolchain">>)})
  IN IF home = <<>> THEN <<>>
     ELSE IF an.task \in {"build", "test", "dependency-install"}
     THEN <<Entry("fs.read", ToPaths(caches)), Entry("fs.write", ToPaths(caches)),
            Entry("fs.create", ToPaths(caches)), Entry("process.exec", ToPrograms(tools)),
            Entry("process.exit", ToPrograms(tools))>>
     ELSE IF ReachesGitRemote(an)
     THEN <<Entry("fs.read", ToPaths(InHome(home, {Below(<<".ssh">>)})))>>
     ELSE <<>>

\* The hosts an index needs besides itself.
RegistryHosts(host) ==
  CASE host = GoProxy -> {GoProxy, GoSums} [] host = PyPI -> {PyPI, PyFiles} [] OTHER -> {host}

Network(an, resolvers) ==
  LET hosts == UNION {RegistryHosts(h) : h \in an.hosts}
      entry(holds, sel) == IF holds THEN <<Entry("net.connect", sel)>> ELSE <<>>
  IN IF ~an.network THEN <<>>
     ELSE entry(resolvers # {}, [NoSelector EXCEPT !.hosts = resolvers, !.ports = {53}])
          \o entry(hosts # {}, [NoSelector EXCEPT !.hosts = hosts])

\* Any git operation reads keys, as if none were local.
DenialsOfRemotes(an, ws, home) ==
  <<Entry("fs.read", ToPaths(
      InHome(home, {Below(<<".aws">>), Exactly(<<".netrc">>)}
                     \cup (IF an.task = "git-operation" THEN {} ELSE {Below(<<".ssh">>)}))
      \cup {Exactly(<<"etc", "shadow">>)}))>>

\* denials: credential stores, root's own home unless the task lives there, and
\* the places that run later: hooks, workflows and shell startup files.
Denials(an, ws, home) ==
  LET stores == {Below(<<".aws">>), Exactly(<<".netrc">>)}
                  \cup (IF ReachesGitRemote(an) THEN {} ELSE {Below(<<".ssh">>)})
      inRoot == home = <<"root">> \/ IsStrictPrefix(<<"root">>, ws)
      reads == InHome(home, stores) \cup {Exactly(<<"etc", "shadow">>)}
                 \cup (IF inRoot THEN {} ELSE {Below(<<"root">>)})
      persist == {Below(ws \o <<".git", "hooks">>)}
                   \cup InHome(home, {Below(<<".ssh">>), Exactly(<<".bashrc">>)})
                   \cup (IF an.task = "git-operation" THEN {}
                         ELSE {Below(ws \o <<".github", "workflows">>)})
  IN <<Entry("fs.read", ToPaths(reads)), Entry("fs.write", ToPaths(persist)),
       Entry("fs.create", ToPaths(persist))>>

-----------------------------------------------------------------------------
NamesHosts(entry) == \E h \in entry.sel.hosts : h.form \in {"name", "wildcard"}

NotGenerated(reason) == [ok |-> FALSE, reason |-> reason]

OfKinds(entries, kinds) == Chosen(entries, {i \in DOMAIN entries : entries[i].kind \in kinds})

\* Generate: refuses a workspace that is everything, and more grants than the
\* operator allows; a grant or a denial that nothing observes is dropped and named.
Generate(an, ws, home, resolvers, observable, limits, expires) ==
  LET wanted == Merged(Base(ws, home) \o Task(an, home) \o Network(an, resolvers))
      denied == Denials(an, ws, home)
      permitted == OfKinds(wanted, Kinds \ limits.forbidden)
      grants == OfKinds(permitted, observable)
      dropped(entries, what) ==
        {<<what, g.kind>> : g \in {x \in Range(entries) : x.kind \notin observable}}
      warn(holds, what) == IF holds THEN {<<what, "">>} ELSE {}
  IN IF ws = <<>> THEN NotGenerated("workspace")
     ELSE IF limits.maxGrants > 0 /\ Len(grants) > limits.maxGrants THEN NotGenerated("too_many")
     ELSE [ok |-> TRUE, reason |-> "",
           warnings |-> dropped(permitted, "grant dropped") \cup dropped(denied, "denial dropped")
                        \cup {<<"forbidden", g.kind>> : g \in Range(wanted) \ Range(permitted)}
                        \cup warn(\E g \in Range(grants) : NamesHosts(g), "names are not resolved")
                        \cup warn(an.confidence < limits.minConfidence, "low confidence"),
           envelope |->
             [grants |-> grants,
              denials |-> OfKinds(denied, observable),
              expires |-> expires, root |-> ws, maxDuration |-> limits.ttl, maxProcesses |-> 0,
              maxWrites |-> 0, maxBytes |-> 0, task |-> an.task]]
=============================================================================
