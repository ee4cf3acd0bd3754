------------------------------ MODULE Selectors ------------------------------
(***************************************************************************)
(* What a grant or a denial of an envelope covers, and which of several    *)
(* governs: internal/validator/path.go, network.go, matcher.go and         *)
(* precedence.go, as operators on values.                                  *)
(*                                                                         *)
(* A path is the sequence of its segments, a pattern the sequence of its   *)
(* pattern segments, and a pattern segment is known by its form and by the *)
(* segments it covers, whatever its spelling: a literal, a glob within one *)
(* segment, or the ** that spans any number of them.  A name is the        *)
(* sequence of its labels from the last to the first, an address the       *)
(* sequence of its bits.                                                   *)
(***************************************************************************)
EXTENDS Capabilities, SequencesExt

Dots == ".." \* a segment no resolved path has, as of a relative or truncated one

Lit(s) == [form |-> "literal", covers |-> {s}]
Glob(S) == [form |-> "glob", covers |-> S]
Deep == [form |-> "deep", covers |-> {}]

IsResolved(path) == \A i \in DOMAIN path : path[i] # Dots

\* ValidatePattern: a literal segment may not be relative.
ValidPattern(pattern) == Lit(Dots) \notin Range(pattern)

-----------------------------------------------------------------------------
\* matchSegments: where in the path each end of the pattern covers all that is
\* left.  A trailing ** covers whatever it is; elsewhere every split is tried.
MatchSegments(pattern, path) ==
  LET from[i \in 1..Len(pattern) + 1] ==
        {j \in 1..Len(path) + 1 :
           IF i > Len(pattern) THEN j > Len(path)
           ELSE IF pattern[i] = Deep
                THEN i = Len(pattern) \/ \E k \in j..Len(path) + 1 : k \in from[i + 1]
           ELSE j <= Len(path) /\ path[j] \in pattern[i].covers /\ j + 1 \in from[i + 1]}
  IN 1 \in from[1]

MatchPath(pattern, path) ==
  ValidPattern(pattern) /\ IsResolved(path) /\ MatchSegments(pattern, path)

\* WithinRoot, with no resolver: containment is by whole segments.
WithinRoot(root, path) ==
  IsResolved(root) /\ IsResolved(path) /\ IsPrefix(root, path)

-----------------------------------------------------------------------------
AddressBits == 2 \* an address is two bits long here

\* Hosts: a pattern is an address, a CIDR block, a name or a wildcard domain, or
\* none of these; what is observed is an address or a name.

MatchHost(pattern, host) ==
  \/ pattern.form = "ip" /\ host.form = "ip" /\ pattern.at = host.at
  \/ pattern.form = "cidr" /\ host.form = "ip" /\ IsPrefix(pattern.at, host.at)
  \/ pattern.form = "name" /\ host.form = "name" /\ pattern.at = host.at
  \/ /\ pattern.form = "wildcard" /\ host.form = "name"
     /\ IsPrefix(pattern.at, host.at) /\ Len(host.at) = Len(pattern.at) + 1

\* A name cannot be compared with an address, nor the other way round.
CorrelationMissing(pattern, host) ==
  \/ pattern.form \in {"name", "wildcard"} /\ host.form = "ip"
  \/ pattern.form \in {"ip", "cidr"} /\ host.form = "name"

-----------------------------------------------------------------------------
\* The matcher.  A dimension that is left empty covers everything; one that
\* could not be compared makes the answer "unevaluable", which is not "no".

Yes == "matched"
No == "mismatch"
Unclear == "unevaluable"

\* Dimensions in the order they are asked: the first that is not covered answers.
FirstNotCovered(answers) ==
  LET open == {i \in DOMAIN answers : answers[i] # Yes}
  IN IF open = {} THEN Yes ELSE answers[CHOOSE i \in open : \A j \in open : i <= j]

MatchPaths(patterns, target) ==
  IF patterns = {} THEN Yes
  ELSE IF ~IsResolved(target) THEN Unclear
  ELSE IF \E p \in patterns : MatchPath(p, target) THEN Yes ELSE No

\* Both the name, where one was learnt, and the address are tried.
MatchHosts(patterns, known) ==
  IF patterns = {} THEN Yes
  ELSE IF \E p \in patterns, h \in known : MatchHost(p, h) THEN Yes
  ELSE IF known = {} \/ \E p \in patterns : \A h \in known : CorrelationMissing(p, h)
       THEN Unclear
  ELSE No

MatchPorts(ports, port) ==
  IF ports = {} THEN Yes ELSE IF port = 0 THEN Unclear ELSE IF port \in ports THEN Yes ELSE No

MatchProtocols(protocols, protocol) ==
  IF protocols = {} THEN Yes
  ELSE IF protocol = "" THEN Unclear ELSE IF protocol \in protocols THEN Yes ELSE No

\* An argument pattern is the set of arguments it covers.
MatchArgs(patterns, argv) ==
  IF patterns = {} THEN Yes
  ELSE IF argv = {} THEN Unclear
  ELSE IF \E p \in patterns : p \cap argv # {} THEN Yes ELSE No

MatchNetwork(sel, obs) ==
  IF sel.hosts = {} /\ sel.ports = {} /\ sel.protocols = {} THEN Yes
  ELSE IF obs.hosts = {} THEN Unclear
  ELSE FirstNotCovered(<<MatchHosts(sel.hosts, obs.hosts), MatchPorts(sel.ports, obs.port),
                         MatchProtocols(sel.protocols, obs.protocol)>>)

\* Match: the catalog's domain decides, whatever the entry says its own is.
Match(entry, obs) ==
  IF entry.kind # obs.kind THEN No
  ELSE CASE DomainOf(obs.kind) = "filesystem" -> MatchPaths(entry.sel.paths, obs.target)
         [] DomainOf(obs.kind) = "network" -> MatchNetwork(entry.sel, obs)
         [] DomainOf(obs.kind) = "process" ->
              FirstNotCovered(<<MatchPaths(entry.sel.executables, obs.target),
                                MatchArgs(entry.sel.args, obs.argv)>>)
         [] OTHER -> MatchPaths(entry.sel.paths, obs.target)

-----------------------------------------------------------------------------
\* Precedence.

\* Lexicographic order of two measurements of equal length.
Narrower(a, b) ==
  \E i \in DOMAIN a : a[i] > b[i] /\ \A j \in 1..i - 1 : a[j] = b[j]

Bit(b) == IF b THEN 1 ELSE 0

\* scorePathPattern: how far the pattern is anchored, whether it is of fixed
\* depth, and how long it is.
ScorePath(pattern) ==
  LET wild == {i \in DOMAIN pattern : pattern[i].form # "literal"}
  IN <<IF wild = {} THEN Len(pattern) ELSE (CHOOSE i \in wild : \A j \in wild : i <= j) - 1,
       Bit(Deep \notin Range(pattern)), Len(pattern)>>

\* scoreHostPattern: one host, a wildcard domain by its labels, a block by its
\* bits.  A block of one address is that address.
ScoreHost(pattern) ==
  CASE pattern.form \in {"ip", "name"} -> <<3, 0>>
    [] pattern.form = "wildcard" -> <<2, Len(pattern.at)>>
    [] OTHER -> IF Len(pattern.at) = AddressBits THEN <<3, 0>> ELSE <<1, Len(pattern.at)>>

\* An entry is as broad as the broadest usable member of a list.
Broadest(scores, none) ==
  IF scores = {} THEN none ELSE CHOOSE s \in scores : \A r \in scores : ~Narrower(s, r)

\* A list left empty is the broadest; a longer list of values permits more.
ListScore(values) == <<Bit(values # {}), -Cardinality(values)>>

SpecificityOf(sel) ==
  Broadest({ScorePath(p) : p \in {q \in sel.paths : ValidPattern(q)}}, <<0, 0, 0>>)
  \o Broadest({ScorePath(p) : p \in {q \in sel.executables : ValidPattern(q)}}, <<0, 0, 0>>)
  \o Broadest({ScoreHost(p) : p \in {h \in sel.hosts : h.form # "invalid"}}, <<0, 0>>)
  \o ListScore(sel.ports) \o ListScore(sel.protocols)
  \o <<Bit(sel.args # {}), Bit(sel.max > 0), IF sel.max > 0 THEN -sel.max ELSE 0>>

\* mostSpecific: the narrowest of the entries at these positions, and the
\* earliest of equally narrow ones.
MostSpecific(entries, at) ==
  CHOOSE i \in at : \A j \in at \ {i} :
    \/ Narrower(SpecificityOf(entries[i].sel), SpecificityOf(entries[j].sel))
    \/ /\ ~Narrower(SpecificityOf(entries[j].sel), SpecificityOf(entries[i].sel))
       /\ i < j
=============================================================================
