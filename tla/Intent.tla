------------------------------- MODULE Intent -------------------------------
(***************************************************************************)
(* The deterministic analysis of a prompt: internal/intent/rules.go and    *)
(* sanitize.go.                                                            *)
(*                                                                         *)
(* A prompt is known by the phrases of the analyzer's tables that occur in *)
(* it, the hosts it names, its length in words, and whether characters     *)
(* were hidden in it; each table is represented by phrases that tell its   *)
(* entries apart, the ones that stand in several tables among them.        *)
(***************************************************************************)
EXTENDS Integers, Sequences, FiniteSets, SequencesExt

Prompt(phrases, hosts, words, hidden) ==
  [phrases |-> phrases, hosts |-> hosts, words |-> words, hidden |-> hidden]

HostName(labels) == [form |-> "name", at |-> labels]
GoProxy == HostName(<<"org", "golang", "proxy">>)
GoSums == HostName(<<"org", "golang", "sum">>)
PyPI == HostName(<<"org", "pypi">>)
PyFiles == HostName(<<"org", "pythonhosted", "files">>)

\* taskRules: the earlier a task stands, the more it takes precedence.
TaskRules ==
  <<[task |-> "dependency-install", signals |-> {"npm install", "upgrade the dependencies"}],
    [task |-> "test", signals |-> {"go test"}],
    [task |-> "build", signals |-> {"go build"}],
    [task |-> "git-operation", signals |-> {"git commit", "git push"}],
    [task |-> "refactor", signals |-> {"refactor"}],
    [task |-> "docs-edit", signals |-> {"readme"}]>>

NetworkSignals == {"npm install", "upgrade the dependencies", "git push", "download"}
InstallSignals == {"npm install", "upgrade the dependencies"}
DestructiveSignals == {"rm -rf"}
WeakDestructive == {"remove"}
EscapeSignals == {"~/", "/etc/"}
UnresolvedRefs == {"the same"}
GovernorPhrases == {"ignore previous instructions"}

\* The package index that a language installs from.
Registry(language) ==
  CASE language = "go" -> {GoProxy} [] language = "python" -> {PyPI} [] OTHER -> {}

Says(prompt, signals) == prompt.phrases \cap signals # {}

-----------------------------------------------------------------------------
\* Sanitize: hidden characters are removed, and what they split is read whole;
\* what speaks to the governor is left in and pointed out.
Sanitize(prompt) ==
  [prompt |-> Prompt(prompt.phrases, prompt.hosts, prompt.words, FALSE),
   indicators |-> (IF prompt.hidden THEN {"hidden characters"} ELSE {})
                    \cup (prompt.phrases \cap GovernorPhrases)]

Unmatched == [task |-> "unknown", confidence |-> 25, ambiguities |-> {"no task matched"}]

\* classify: confidence in hundredths.
Classify(prompt) ==
  LET matched == {i \in DOMAIN TaskRules : Says(prompt, TaskRules[i].signals)}
      first == TaskRules[CHOOSE i \in matched : \A j \in matched : i <= j]
  IN IF matched = {} THEN Unmatched
     ELSE IF Cardinality(matched) = 1
     THEN [task |-> first.task, confidence |-> 90, ambiguities |-> {}]
     ELSE [task |-> first.task, confidence |-> 60, ambiguities |-> {"several tasks"}]

\* networkHints: the hosts that are named, and the index of each language of the
\* workspace when something is installed.
NetworkHints(prompt, languages) ==
  prompt.hosts
  \cup (IF Says(prompt, InstallSignals) THEN UNION {Registry(l) : l \in languages} ELSE {})

NotBelow(n, floor) == IF n < floor THEN floor ELSE n

\* Analyze, of a prompt without earlier turns, as the daemon asks: an install
\* reaches the network though the prompt does not say so.
Analyze(prompt, languages) ==
  LET class == Classify(prompt)
      network == Says(prompt, NetworkSignals) \/ class.task = "dependency-install"
      hosts == NetworkHints(prompt, languages)
      destructive == Says(prompt, DestructiveSignals)
      workspaceOnly == ~Says(prompt, EscapeSignals)
      note(holds, what) == IF holds THEN {what} ELSE {}
      penalty(holds, cost) == IF holds THEN cost ELSE 0
  IN [task |-> class.task, network |-> network, hosts |-> hosts, destructive |-> destructive,
      workspaceOnly |-> workspaceOnly,
      confidence |-> NotBelow(class.confidence - penalty(Says(prompt, UnresolvedRefs), 15)
                                               - penalty(prompt.words < 3, 5), 0),
      ambiguities |->
        class.ambiguities
        \cup note(~destructive /\ Says(prompt, WeakDestructive), "removes something unnamed")
        \cup note(network /\ hosts = {}, "network without a host")
        \cup note(Says(prompt, UnresolvedRefs), "earlier turn")
        \cup note(prompt.words < 3, "too short")
        \cup note(~workspaceOnly, "outside the workspace")]
=============================================================================
