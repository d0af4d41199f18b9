--------------------------- MODULE CommandPolicy ---------------------------
(***************************************************************************)
(* The command policy compiled from an inventory (policy.rs).  One compiled *)
(* policy per device, all sharing one command mode, each with the defaults' *)
(* rules joined to the device's own.                                        *)
(*                                                                         *)
(* A command is a model value.  A rule is the set of commands its glob      *)
(* matches, its action and its number of literal characters; an allowlist   *)
(* entry is the set of commands whose tokens it prefixes.                   *)
(***************************************************************************)
EXTENDS Integers, FiniteSets

CONSTANTS
    Routers,        \* device names
    Commands,       \* operational and PFE commands
    PipesOf,        \* the stages after "|" of each command
    Unprintable,    \* commands with a character outside printable ASCII
    Addresses,      \* management addresses
    NoAddr          \* the address of a name that is not in the inventory

Domains == {"commands", "pfe_commands"}

\* RuleSpec, and the rule section of a device or of _blocklist_defaults.
Deny(S, n) == [action |-> "deny", matches |-> S, literals |-> n]
Allow(S, n) == [action |-> "allow", matches |-> S, literals |-> n]
NoRules == [commands |-> {}, config |-> {}, pfe_commands |-> {},
            allow |-> {}, allowed_pipes |-> {},
            pfe_allow |-> {}, pfe_allowed_pipes |-> {}]
RuleSpecs == [action : {"deny", "allow"}, matches : SUBSET Commands, literals : Nat]
BlocklistRules ==
    [commands : SUBSET RuleSpecs, config : SUBSET RuleSpecs, pfe_commands : SUBSET RuleSpecs,
     allow : SUBSET SUBSET Commands, allowed_pipes : SUBSET STRING,
     pfe_allow : SUBSET SUBSET Commands, pfe_allowed_pipes : SUBSET STRING]
HasRules(rules) == rules.commands # {} \/ rules.config # {} \/ rules.pfe_commands # {}

\* The content of an inventory file; parses, valid, compiles and extensible are what the
\* parser, the validation, the policy build and insert_device make of it.
DeviceEntries == [ip : Addresses \cup {NoAddr}, rules : BlocklistRules]
Contents ==
    [devices : [Routers -> DeviceEntries], mode : {"unset", "allowlist", "blocklist"},
     defaults : BlocklistRules, parses : BOOLEAN, valid : BOOLEAN, compiles : BOOLEAN,
     extensible : BOOLEAN]
Names(content) == {r \in Routers : content.devices[r].ip # NoAddr}

\* The mode is the file's, else it is chosen for the whole file by the
\* presence of any deny rule, in the defaults or at any device.
CommandMode(content) ==
    IF content.mode # "unset" THEN content.mode
    ELSE IF HasRules(content.defaults)
            \/ \E r \in Names(content) : HasRules(content.devices[r].rules)
         THEN "blocklist" ELSE "allowlist"

compile_rules(rules, source) ==
    {[action |-> rule.action, matches |-> rule.matches,
      literals |-> rule.literals, source |-> source] : rule \in rules}

\* compile_domain_rules and the merged allowlists, for one domain.
CompileDomain(defaults, own, domain) ==
    IF domain = "commands"
    THEN [rules |-> compile_rules(defaults.commands, "defaults")
                    \cup compile_rules(own.commands, "device"),
          allow |-> defaults.allow \cup own.allow,
          pipes |-> defaults.allowed_pipes \cup own.allowed_pipes]
    ELSE [rules |-> compile_rules(defaults.pfe_commands, "defaults")
                    \cup compile_rules(own.pfe_commands, "device"),
          allow |-> defaults.pfe_allow \cup own.pfe_allow,
          pipes |-> defaults.pfe_allowed_pipes \cup own.pfe_allowed_pipes]

DevicePolicy(defaults, own) == [d \in Domains |-> CompileDomain(defaults, own, d)]

Build(content) ==
    [command_mode |-> CommandMode(content),
     per_device |-> [r \in Names(content) |->
                        DevicePolicy(content.defaults, content.devices[r].rules)],
     default_policy |-> DevicePolicy(content.defaults, NoRules)]

policy_for(policy, r) ==
    IF r \in DOMAIN policy.per_device THEN policy.per_device[r] ELSE policy.default_policy

-----------------------------------------------------------------------------
\* mecmcp_policy::evaluate: the most specific matching rule, a device's rule
\* before a default one.
Rank(rule) == 2 * rule.literals + (IF rule.source = "device" THEN 1 ELSE 0)
evaluate(rules, cmd) ==
    LET hits == {rule \in rules : cmd \in rule.matches}
    IN {rule \in hits : \A other \in hits : Rank(other) <= Rank(rule)}
Denies(rules, cmd) == \E rule \in evaluate(rules, cmd) : rule.action = "deny"

\* mecmcp_policy::Policy::check_command: one of the two models, never both.
library_check(mode, domain, cmd) ==
    IF mode = "allowlist"
    THEN /\ \E entry \in domain.allow : cmd \in entry
         /\ PipesOf[cmd] \subseteq domain.pipes
    ELSE ~Denies(domain.rules, cmd)

deny_disallowed_character(mode, cmd) == mode = "allowlist" /\ cmd \in Unprintable

\* Mutant: an allow-list hides the device's own deny rules.
apply_allowlist_deny_carveout_Ignored(mode, domain, cmd, allowed) == allowed

apply_allowlist_deny_carveout(mode, domain, cmd, allowed) ==
    IF mode # "allowlist" \/ ~allowed THEN allowed ELSE ~Denies(domain.rules, cmd)

\* check_command and check_pfe_command differ in the domain only.
check_command(policy, domain, r, cmd) ==
    LET rules == policy_for(policy, r)[domain]
        mode  == policy.command_mode
    IN /\ ~deny_disallowed_character(mode, cmd)
       /\ apply_allowlist_deny_carveout(mode, rules, cmd, library_check(mode, rules, cmd))

-----------------------------------------------------------------------------
\* What the documentation promises of a file's rules, stated on the file: a
\* command runs on a device only if the rules written for it, those of the
\* defaults and its own, do not deny it, and, in allowlist mode, some entry
\* written for that device or for all covers the command and every pipe.
Sections(content, r) ==
    {content.defaults} \cup
    (IF r \in Names(content) THEN {content.devices[r].rules} ELSE {})
Written(content, r, field) == UNION {s[field] : s \in Sections(content, r)}

Permitted(content, domain, r, cmd) ==
    LET pfe    == domain = "pfe_commands"
        own    == IF r \in Names(content) THEN content.devices[r].rules[domain] ELSE {}
        hit    == {rule \in Written(content, r, domain) : cmd \in rule.matches}
        best   == {rule \in hit : \A other \in hit : other.literals <= rule.literals}
        winner == IF best \cap own # {} THEN best \cap own ELSE best
    IN /\ \A rule \in winner : rule.action = "allow"
       /\ CommandMode(content) = "allowlist" =>
            /\ cmd \notin Unprintable
            /\ cmd \in UNION Written(content, r, IF pfe THEN "pfe_allow" ELSE "allow")
            /\ PipesOf[cmd] \subseteq
                 Written(content, r, IF pfe THEN "pfe_allowed_pipes" ELSE "allowed_pipes")

=============================================================================
