--------------------------- MODULE ToolingAdapters ---------------------------
(* The provider adapters of the tooling service (services/tooling/adapters/): what   *)
(* each can do to its CLI, what it finds installed, what it plans for a request and  *)
(* how it verifies what was done.  The parameters of ToolingOps are declared here.   *)
EXTENDS Naturals

CONSTANTS
    Adapters,       \* the registry of provider adapters
    Names,          \* skills and MCP servers
    Catalog,        \* those that the curated catalog can install
    Collections,    \* the pages, each with a cache entry
    Ops,            \* operations
    Readers,        \* the threads of GET requests and of POST /tooling/scan
    Slots,          \* MAX_CONCURRENCY
    Ring,           \* MAX_OPERATIONS
    Hosts,          \* what the CLIs may have to begin with
    Requests,       \* the requests that are made
    Faults,
    None

InstallOnly == {"kiro_cli", "copilot_cli", "opencode_cli"}
KnownAdapters == {"generic_skills", "claude_code", "codex", "antigravity_cli"} \cup InstallOnly
KnownCollections == {"extensions", "catalog", "adapters", "providers"}
\* A list that cannot be read, a command that reports success and does nothing, one
\* that closes its output and stays.
FaultKinds == {"blind", "noop", "mute"}

Actions == {"install", "remove", "update", "update_all", "install_cli"}
Request == [action : Actions, provider : Adapters, target : Names, catalog : BOOLEAN]
Look == [cli : BOOLEAN, items : SUBSET Names]

ASSUME ToolingAssumption ==
    /\ Adapters \subseteq KnownAdapters /\ Adapters # {} /\ Collections \subseteq KnownCollections
    /\ Catalog \subseteq Names /\ Ops \cap Readers = {}
    /\ Slots \in Nat \ {0} /\ Ring \in Nat \ {0} /\ Faults \subseteq FaultKinds
    /\ Hosts \subseteq [Adapters -> Look] /\ Requests \subseteq Request
    /\ None \notin Adapters \cup Names \cup Ops

-----------------------------------------------------------------------------
(* Capabilities and lists.                                                        *)

Nothing == [a \in Actions |-> FALSE]
InstallOnlyCan == [Nothing EXCEPT !["install_cli"] = TRUE]
ClaudeCan(h) ==
    [a \in Actions |-> \/ a = "install_cli"
                       \/ h.cli /\ a \in {"install", "remove", "update_all"}]
CodexCan(h) == ClaudeCan(h)
SkillsCan(h) == [a \in Actions |-> h.cli /\ a # "install_cli"]
AgyCan(h) == [Nothing EXCEPT !["update_all"] = h.cli]

Can(p, h) ==
    CASE p = "claude_code" -> ClaudeCan(h)
      [] p = "codex" -> CodexCan(h)
      [] p = "generic_skills" -> SkillsCan(h)
      [] p = "antigravity_cli" -> AgyCan(h)
      [] OTHER -> InstallOnlyCan

\* What list_installed() finds, if the CLI answers.
ClaudeListed(h, answers) == IF answers THEN h.items ELSE {}
CodexListed(h, answers) == h.items          \* else the config.toml that the CLI edits
SkillsListed(h, answers) == IF answers THEN h.items ELSE {}
AgyListed(h, answers) == h.items            \* the CLI is not asked

Listed(p, h, answers) ==
    CASE ~h.cli -> {}
      [] p = "claude_code" -> ClaudeListed(h, answers)
      [] p = "codex" -> CodexListed(h, answers)
      [] p = "generic_skills" -> SkillsListed(h, answers)
      [] p = "antigravity_cli" -> AgyListed(h, answers)
      [] OTHER -> {}

-----------------------------------------------------------------------------
(* Plans and verdicts.                                                            *)

\* The adapters that manage MCP servers remove by name, and add what the catalog gives.
ClaudePlans(r) ==
    \/ r.action \in {"remove", "update_all", "install_cli"} /\ ~r.catalog
    \/ r.action = "install" /\ r.catalog
CodexPlans(r) == ClaudePlans(r)
SkillsPlans(r) ==
    \/ r.action \in {"install", "remove", "update", "update_all"} /\ ~r.catalog
    \/ r.action = "install" /\ r.catalog
AgyPlans(r) == r.action = "update_all" /\ ~r.catalog
InstallOnlyPlans(r) == r.action = "install_cli" /\ ~r.catalog

Plans(r) ==
    CASE r.provider = "claude_code" -> ClaudePlans(r)
      [] r.provider = "codex" -> CodexPlans(r)
      [] r.provider = "generic_skills" -> SkillsPlans(r)
      [] r.provider = "antigravity_cli" -> AgyPlans(r)
      [] OTHER -> InstallOnlyPlans(r)

\* The verdict of verify() on what it saw.
ClaudeVerifies(r, look) ==
    CASE r.action = "update_all" -> TRUE
      [] r.action = "install_cli" -> look.cli
      [] r.action = "install" -> r.target \in look.items
      [] r.action = "remove" -> r.target \notin look.items
      [] OTHER -> FALSE
CodexVerifies(r, look) == ClaudeVerifies(r, look)
SkillsVerifies(r, look) ==
    CASE r.action = "update_all" -> TRUE
      [] r.action \in {"install", "update"} -> r.target \in look.items
      [] r.action = "remove" -> r.target \notin look.items
      [] OTHER -> FALSE
AgyVerifies(r, look) == r.action = "update_all"
InstallOnlyVerifies(r, look) == r.action = "install_cli" /\ look.cli

Verifies(r, look) ==
    CASE r.provider = "claude_code" -> ClaudeVerifies(r, look)
      [] r.provider = "codex" -> CodexVerifies(r, look)
      [] r.provider = "generic_skills" -> SkillsVerifies(r, look)
      [] r.provider = "antigravity_cli" -> AgyVerifies(r, look)
      [] OTHER -> InstallOnlyVerifies(r, look)

\* What a command does to its CLI.
Effect(r, h) ==
    CASE r.action = "install" -> [h EXCEPT !.items = @ \cup {r.target}]
      [] r.action = "remove" -> [h EXCEPT !.items = @ \ {r.target}]
      [] r.action = "install_cli" -> [h EXCEPT !.cli = TRUE]
      [] OTHER -> h
=============================================================================
