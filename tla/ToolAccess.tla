----------------------------- MODULE ToolAccess -----------------------------
(***************************************************************************)
(* The allow-list of odoo_mcp_manager: which models the generic built-in   *)
(* tools may touch, who edits it, and what the tools do to the records.    *)
(*                                                                         *)
(* A tool runs in a REPEATABLE READ transaction: the gate looks at the     *)
(* rules, and the handler at the record, of its begin.  A record written   *)
(* by somebody else since then cannot be written: the tool fails.          *)
(***************************************************************************)
CONSTANTS
    Tables,     \* the Odoo models in the database
    Common,     \* those of _DEFAULT_READ_MODELS
    OPERATIONS,
    Runs,       \* tool calls under way
    Rights      \* the operations the callers' own access rights allow

ASSUME CommonAssumption == Common \subseteq Tables
ASSUME RightsAssumption == Rights \subseteq Tables \X OPERATIONS
ASSUME OperationsAssumption ==
    OPERATIONS \subseteq {"read", "create", "update", "delete", "unlink"}

VARIABLES
    rule,       \* ai.tool.access: there or not, and ai.tool.access.active
    allows,     \* its allow_ flags
    left,       \* the rules as an administrator left them
    seeded,     \* mcp_gateway.allowlist_seeded
    enforce,    \* mcp_gateway.enforce_allowlist, "True" where it is absent
    stored,     \* the record of a model the calls are about
    asked,      \* the operation and model a call is about
    gate,       \* whether the rules it can see let it pass
    found,      \* the record it can see
    let_in      \* history: open calls the rules allowed when they began

rules == <<rule, allows, left, seeded, enforce>>
pending == <<asked, gate, found>>
accessVars == <<rules, stored, pending, let_in>>

Rule == [state : {"none", "archived", "active"}, allows : SUBSET OPERATIONS]
Untouched == [state |-> "untouched", allows |-> {}]
Nothing == <<"none", "none">>

AccessTypeOK ==
    /\ rule \in [Tables -> {"none", "archived", "active"}]
    /\ allows \in [Tables -> SUBSET OPERATIONS]
    /\ left \in [Tables -> Rule \cup {Untouched}]
    /\ seeded \in BOOLEAN
    /\ enforce \in {"True", "False"}
    /\ stored \in [Tables -> {"none", "linked", "loose"}]
    /\ asked \in [Runs -> (Tables \X OPERATIONS) \cup {Nothing}]
    /\ gate \in [Runs -> BOOLEAN]
    /\ found \in [Runs -> {"none", "linked", "loose"}]
    /\ let_in \in SUBSET Runs

AccessInit ==
    /\ rule = [t \in Tables |-> "none"]
    /\ allows = [t \in Tables |-> {}]
    /\ left = [t \in Tables |-> Untouched]
    /\ seeded = FALSE /\ enforce = "True"
    /\ stored \in [Tables -> {"none", "linked", "loose"}]
    /\ asked = [c \in Runs |-> Nothing]
    /\ gate = [c \in Runs |-> FALSE]
    /\ found = [c \in Runs |-> "none"]
    /\ let_in = {}

OpenRuns == {c \in Runs : asked[c] # Nothing}
(* What the rules say of an operation: the allow-list is off, or there is  *)
(* a rule for the model in force that ticks it.                            *)
RulesAllow(t, o) == enforce = "False" \/ (rule[t] = "active" /\ o \in allows[t])
-----------------------------------------------------------------------------
(* The gate                                                                *)

(* Mutant: an archived rule counts.                                        *)
is_listed(t, o) == rule[t] # "none" /\ o \in allows[t]

is_allowed(t, o) == rule[t] = "active" /\ o \in allows[t]

_allowlist_enforced == enforce # "False"

_check_model_access(t, o) == _allowlist_enforced => is_allowed(t, o)
-----------------------------------------------------------------------------
(* Installation, upgrades, administrators                                  *)

(* Mutant: every upgrade seeds the rules that are missing.                 *)
SeedAgain ==
    LET missing == {t \in Common : rule[t] # "active"}
    IN /\ \A t \in missing : rule[t] = "none"
       /\ rule' = [t \in Tables |-> IF t \in missing THEN "active" ELSE rule[t]]
       /\ allows' = [t \in Tables |-> IF t \in missing THEN {"read"} \cap OPERATIONS
                                                       ELSE allows[t]]
       /\ seeded' = TRUE
       /\ UNCHANGED <<left, enforce, stored, pending, let_in>>

(* Once, every common model gets a read-only rule.  A rule that is only    *)
(* archived is not counted: creating it again fails, and so does all of    *)
(* the upgrade.                                                            *)
_seed_default_rules ==
    LET missing == {t \in Common : rule[t] # "active"}
    IN /\ ~seeded
       /\ \A t \in missing : rule[t] = "none"
       /\ rule' = [t \in Tables |-> IF t \in missing THEN "active" ELSE rule[t]]
       /\ allows' = [t \in Tables |-> IF t \in missing THEN {"read"} \cap OPERATIONS
                                                       ELSE allows[t]]
       /\ seeded' = TRUE
       /\ UNCHANGED <<left, enforce, stored, pending, let_in>>

Save(t, s, A) ==
    /\ rule' = [rule EXCEPT ![t] = s]
    /\ allows' = [allows EXCEPT ![t] = A]
    /\ left' = [left EXCEPT ![t] = [state |-> s, allows |-> A]]

(* Somebody creates, deletes or archives a rule, or ticks one of its flags.*)
EditRule(t) ==
    /\ seeded
    /\ \/ rule[t] = "none" /\ Save(t, "active", {"read"} \cap OPERATIONS)
       \/ rule[t] # "none" /\ Save(t, "none", {})
       \/ rule[t] # "none" /\ \E s \in {"active", "archived"} : Save(t, s, allows[t])
       \/ /\ rule[t] # "none"
          /\ \E o \in OPERATIONS : \E A \in {{}, {o}} :
                Save(t, rule[t], (allows[t] \ {o}) \cup A)
    /\ UNCHANGED <<seeded, enforce, stored, pending, let_in>>

(* The settings form writes "True", or removes the parameter when the box  *)
(* is not ticked, which counts as ticked; "False" is written by hand.      *)
SetEnforce ==
    /\ seeded
    /\ enforce' \in {"True", "False"} \ {enforce}
    /\ UNCHANGED <<rule, allows, left, seeded, stored, pending, let_in>>
-----------------------------------------------------------------------------
(* A tool call                                                             *)

_execute_builtin(c, t, o) ==
    /\ asked[c] = Nothing
    /\ asked' = [asked EXCEPT ![c] = <<t, o>>]
    /\ gate' = [gate EXCEPT ![c] = _check_model_access(t, o)]
    /\ found' = [found EXCEPT ![c] = stored[t]]
    /\ let_in' = IF RulesAllow(t, o) THEN let_in \cup {c} ELSE let_in
    /\ UNCHANGED <<rules, stored>>

(* MCP resources are read under the same gate.                             *)
resources_read(c, t) == "read" \in OPERATIONS /\ _execute_builtin(c, t, "read")

Close(c) ==
    /\ asked' = [asked EXCEPT ![c] = Nothing]
    /\ gate' = [gate EXCEPT ![c] = FALSE]
    /\ found' = [found EXCEPT ![c] = "none"]
    /\ let_in' = let_in \ {c}
    /\ UNCHANGED rules

Passes(c, t, o) == asked[c] = <<t, o>> /\ gate[c] /\ asked[c] \in Rights

(* The model of the tool is bound to the user: his own rights count too.   *)
Writes(c, t, o) == Passes(c, t, o) /\ found[c] = stored[t]

_builtin_search_records(c, t) == Passes(c, t, "read") /\ Close(c) /\ UNCHANGED stored

_builtin_create_record(c, t) ==
    /\ Writes(c, t, "create") /\ found[c] = "none"
    /\ \E v \in {"linked", "loose"} : stored' = [stored EXCEPT ![t] = v]
    /\ Close(c)

_builtin_update_record(c, t) ==
    /\ Writes(c, t, "update") /\ found[c] # "none"
    /\ \E v \in {"linked", "loose"} : stored' = [stored EXCEPT ![t] = v]
    /\ Close(c)

_builtin_delete_record(c, t) ==
    /\ Writes(c, t, "delete") /\ found[c] # "none"
    /\ stored' = [stored EXCEPT ![t] = "none"]
    /\ Close(c)

_builtin_unlink_record(c, t) ==
    /\ Writes(c, t, "unlink") /\ found[c] # "none"
    /\ stored' = [stored EXCEPT ![t] = "loose"]
    /\ Close(c)

(* Refused, not found, overtaken, or wrong parameters.                     *)
ToolFails(c) == c \in OpenRuns /\ Close(c) /\ UNCHANGED stored
-----------------------------------------------------------------------------
ToolRun(c, t) ==
    \/ \E o \in OPERATIONS : _execute_builtin(c, t, o)
    \/ resources_read(c, t)
    \/ _builtin_search_records(c, t) \/ _builtin_create_record(c, t)
    \/ _builtin_update_record(c, t) \/ _builtin_delete_record(c, t)
    \/ _builtin_unlink_record(c, t)

Configure == SetEnforce \/ \E t \in Tables : EditRule(t)

AccessStep ==
    \/ _seed_default_rules
    \/ \E c \in Runs : ToolFails(c) \/ \E t \in Tables : ToolRun(c, t)

AccessNext == Configure \/ AccessStep

AccessSpec == AccessInit /\ [][AccessNext]_accessVars
-----------------------------------------------------------------------------
(* Properties                                                              *)

(* Nothing but an administrator's edit changes a rule that one has edited, *)
(* however often the module is upgraded (_seed_default_rules).             *)
EditsSurvive ==
    \A t \in Tables : left[t] # Untouched =>
        left[t] = [state |-> rule[t], allows |-> allows[t]]

(* What an operation may do to a record.                                   *)
Does(o, old, new) ==
    \/ o = "create" /\ old = "none" /\ new # "none"
    \/ o = "update" /\ old # "none" /\ new # "none"
    \/ o = "delete" /\ old # "none" /\ new = "none"
    \/ o = "unlink" /\ old # "none" /\ new = "loose"

(* A record changes only by a tool call that ends with it, in the way of   *)
(* the operation it asked for, and only if the rules allowed that call     *)
(* that operation on that model when it began, whatever other calls are    *)
(* open and however the rules were edited since; one that began after a    *)
(* rule was taken away never writes (_check_model_access).                 *)
ObeysTheRules ==
    [][\A t \in Tables : stored'[t] # stored[t] =>
          \E c \in let_in, o \in OPERATIONS :
              /\ asked[c] = <<t, o>> /\ asked'[c] = Nothing
              /\ Does(o, stored[t], stored'[t])]_accessVars
=============================================================================
