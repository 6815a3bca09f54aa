---------------------------- MODULE AiProviders -----------------------------
(***************************************************************************)
(* The AI providers of odoo_mcp_manager: their credentials and connection  *)
(* status, their models, and a chat request that falls back from provider  *)
(* to provider.                                                            *)
(*                                                                         *)
(* Checking a connection and listing the models take seconds of HTTP       *)
(* inside one REPEATABLE READ transaction, and saving a model validates    *)
(* against the snapshot of its own: these have a begin and an end.  Who    *)
(* writes a row that was written since the begin clashes, and the web      *)
(* layer runs the request again.  The other operations are short.  A chat  *)
(* reads every record at its begin and then asks one API after the other.  *)
(***************************************************************************)
EXTENDS Integers, Sequences

CONSTANTS
    Providers,      \* ai.provider records
    Priority,       \* in the order of the model: priority, then name
    Fallbacks,      \* fallback_provider_ids
    Models,         \* ai.model records, there or not, and the names of models
    ProviderOf, UseOf,
    Builtin,        \* the model a service's handler takes when it is told none
    Serves,         \* the models the API of a provider serves
    Lists,          \* the providers whose API lists its models
    Keys,           \* values of the credentials: api_key, api_base, service
    RightKey,       \* the ones the API accepts
    ToolProvider,   \* default_provider_id and default_model_id of the AI tool
    ToolModel,
    Admins,         \* sessions of administrators
    Nobody          \* no provider, model or key

ASSUME OrderAssumption ==
    /\ Priority \in Seq(Providers)
    /\ \A p \in Providers : \E i \in DOMAIN Priority : Priority[i] = p
ASSUME FallbackAssumption == Fallbacks \in [Providers -> SUBSET Providers]
ASSUME ModelAssumption == ProviderOf \in [Models -> Providers]
ASSUME ToolAssumption ==
    /\ ToolProvider \in Providers \cup {Nobody} /\ ToolModel \in Models \cup {Nobody}
ASSUME KeyAssumption == RightKey \in [Providers -> Keys]
ASSUME NobodyAssumption == Nobody \notin Providers \cup Models \cup Keys \cup Admins

VARIABLES
    active,     \* ai.provider.active
    key,        \* its credentials
    status,     \* connection_status
    checked,    \* the credentials its API accepted last
    known,      \* whether an ai.model record is there, and active
    main,       \* ai.model.default
    up,         \* the APIs that can be reached
    doing,      \* the transaction an administrator has open
    on,         \* the record it is about
    took,       \* the credentials it read
    saw,        \* the active defaults it read
    late,       \* transactions whose record was written since they began
    chatting,   \* how far the chat request is
    plan,       \* the attempts left: provider, credentials and model
    could       \* fallbacks that could have answered all along

records == <<active, key, status, checked, known, main>>
desk == <<doing, on, took, saw, late>>
talk == <<chatting, plan, could>>
provVars == <<records, up, desk, talk>>

Attempt == [provider : Providers, key : Keys, model : Models \cup {Nobody}]

ProvTypeOK ==
    /\ active \in [Providers -> BOOLEAN]
    /\ key \in [Providers -> Keys]
    /\ status \in [Providers -> {"unchecked", "connected", "error"}]
    /\ checked \in [Providers -> Keys \cup {Nobody}]
    /\ known \in [Models -> {"no", "archived", "active"}]
    /\ main \in [Models -> BOOLEAN]
    /\ up \in SUBSET Providers
    /\ doing \in [Admins -> {"nothing", "check", "fetch", "import", "save"}]
    /\ on \in [Admins -> Providers \cup Models \cup {Nobody}]
    /\ took \in [Admins -> Keys \cup {Nobody}]
    /\ saw \in [Admins -> SUBSET Models]
    /\ late \in SUBSET Admins
    /\ chatting \in {"no", "asking", "answered", "failed"}
    /\ plan \in Seq(Attempt)
    /\ could \in SUBSET Providers
-----------------------------------------------------------------------------
(* Reading the records                                                     *)

ModelsOf(p) == {m \in Models : ProviderOf[m] = p}

Defaults == {m \in Models : known[m] = "active" /\ main[m]}

Rivals(m) == {n \in Models \ {m} : ProviderOf[n] = ProviderOf[m] /\ UseOf[n] = UseOf[m]}

ChatModels(p) == {m \in ModelsOf(p) : known[m] = "active" /\ UseOf[m] = "chat"}

_provider_has_active_models(p) == ChatModels(p) # {}

(* A configuration made before, its status not checked yet.                *)
ProvInit ==
    /\ active = [p \in Providers |-> TRUE]
    /\ key \in [Providers -> Keys]
    /\ status = [p \in Providers |-> "unchecked"]
    /\ checked = [p \in Providers |-> Nobody]
    /\ known \in [Models -> {"no", "archived", "active"}]
    /\ main \in [Models -> BOOLEAN]
    /\ \A m \in Models : main[m] => known[m] # "no"
    /\ \A m, n \in Models : {m, n} \subseteq Defaults => n \notin Rivals(m)
    /\ up = Providers
    /\ doing = [a \in Admins |-> "nothing"]
    /\ on = [a \in Admins |-> Nobody]
    /\ took = [a \in Admins |-> Nobody]
    /\ saw = [a \in Admins |-> {}]
    /\ late = {}
    /\ chatting = "no" /\ plan = << >> /\ could = {}

(* Whoever writes a record makes the open transactions on it late.         *)
Overtake(R, a) == late' = late \cup {b \in Admins \ {a} : doing[b] # "nothing" /\ on[b] \in R}

PutDown(a) ==
    /\ doing' = [doing EXCEPT ![a] = "nothing"]
    /\ on' = [on EXCEPT ![a] = Nobody]
    /\ took' = [took EXCEPT ![a] = Nobody]
    /\ saw' = [saw EXCEPT ![a] = {}]
-----------------------------------------------------------------------------
(* Credentials and activity of a provider                                  *)

write_connection_reset(p) == status' = [status EXCEPT ![p] = "unchecked"]

(* Mutant: new credentials, and the status is left as it is.               *)
NewKeyOnly(p, k) ==
    /\ key' = [key EXCEPT ![p] = k]
    /\ Overtake({p}, Nobody)
    /\ UNCHANGED <<active, status, checked, known, main, up, doing, on, took, saw, talk>>

NewKey(p, k) ==
    /\ key' = [key EXCEPT ![p] = k]
    /\ write_connection_reset(p)
    /\ Overtake({p}, Nobody)
    /\ UNCHANGED <<active, checked, known, main, up, doing, on, took, saw, talk>>

(* Mutant: the models follow, and nobody looks at their defaults.          *)
SetActiveUnchecked(p, b) ==
    /\ active' = [active EXCEPT ![p] = b]
    /\ known' = [m \in Models |->
                    IF m \in ModelsOf(p) /\ known[m] # "no"
                    THEN IF b THEN "active" ELSE "archived"
                    ELSE known[m]]
    /\ write_connection_reset(p)
    /\ Overtake({p} \cup ModelsOf(p), Nobody)
    /\ UNCHANGED <<key, checked, main, up, doing, on, took, saw, talk>>

(* All models follow the provider, also those that were archived before it.*)
(* Two of them may both be a default by now: then it stays archived.       *)
SetActive(p, b) ==
    /\ b => \A m \in ModelsOf(p) : known[m] # "no" /\ main[m] =>
                \A n \in Rivals(m) : ~(known[n] # "no" /\ main[n])
    /\ active' = [active EXCEPT ![p] = b]
    /\ known' = [m \in Models |->
                    IF m \in ModelsOf(p) /\ known[m] # "no"
                    THEN IF b THEN "active" ELSE "archived"
                    ELSE known[m]]
    /\ write_connection_reset(p)
    /\ Overtake({p} \cup ModelsOf(p), Nobody)
    /\ UNCHANGED <<key, checked, main, up, doing, on, took, saw, talk>>

write(p) == (\E k \in Keys : NewKey(p, k)) \/ SetActive(p, ~active[p])
-----------------------------------------------------------------------------
(* Asking the API                                                          *)

TakeUp(a, work, p) ==
    /\ doing[a] = "nothing"
    /\ doing' = [doing EXCEPT ![a] = work]
    /\ on' = [on EXCEPT ![a] = p]
    /\ took' = [took EXCEPT ![a] = key[p]]
    /\ UNCHANGED <<records, up, saw, late, talk>>

action_check_connection(a, p) == TakeUp(a, "check", p)
action_fetch(a, p) == TakeUp(a, "fetch", p)

(* Reached, and the credentials accepted.                                  *)
_ping_service(p, k) == p \in up /\ k = RightKey[p]

Connected(p, k) ==
    /\ status' = [status EXCEPT ![p] = "connected"]
    /\ checked' = [checked EXCEPT ![p] = k]

check_connection(a) ==
    /\ doing[a] = "check" /\ a \notin late
    /\ \/ _ping_service(on[a], took[a]) /\ Connected(on[a], took[a])
       \/ /\ ~_ping_service(on[a], took[a])
          /\ status' = [status EXCEPT ![on[a]] = "error"]
          /\ UNCHANGED checked
    /\ Overtake({on[a]}, a) /\ PutDown(a)
    /\ UNCHANGED <<active, key, known, main, up, talk>>

(* A failure is raised, and the error status written before is rolled back *)
(* with the rest.  The models found wait in the wizard.                    *)
fetch_available_models(a) ==
    /\ doing[a] = "fetch" /\ a \notin late
    /\ \/ /\ on[a] \in Lists /\ _ping_service(on[a], took[a])
          /\ Connected(on[a], took[a])
          /\ Overtake({on[a]}, a)
          /\ doing' = [doing EXCEPT ![a] = "import"]
          /\ UNCHANGED <<on, took, saw>>
       \/ /\ ~(on[a] \in Lists /\ _ping_service(on[a], took[a]))
          /\ PutDown(a)
          /\ UNCHANGED <<status, checked, late>>
    /\ UNCHANGED <<active, key, known, main, up, talk>>

Outdated(a) ==
    /\ doing[a] \in {"check", "fetch", "save"} /\ a \in late
    /\ late' = late \ {a} /\ PutDown(a)
    /\ UNCHANGED <<records, up, talk>>

(* Only active models are looked for: one that is archived is created      *)
(* again, violates the unique name, and nothing is imported.               *)
action_confirm(a) ==
    /\ doing[a] = "import"
    /\ \E found \in SUBSET (Serves[on[a]] \cap ModelsOf(on[a])) :
        known' = [m \in Models |->
                    IF m \in found /\ \A n \in found : known[n] # "archived"
                    THEN "active" ELSE known[m]]
    /\ late' = late \ {a} /\ PutDown(a)
    /\ UNCHANGED <<active, key, status, checked, main, up, talk>>
-----------------------------------------------------------------------------
(* Models                                                                  *)

OpenModel(a, m) ==
    /\ doing[a] = "nothing"
    /\ doing' = [doing EXCEPT ![a] = "save"]
    /\ on' = [on EXCEPT ![a] = m]
    /\ saw' = [saw EXCEPT ![a] = Defaults]
    /\ UNCHANGED <<records, up, took, late, talk>>

_check_unique_default(a, m, s, d) == s = "active" /\ d => saw[a] \cap Rivals(m) = {}

SaveModel(a) ==
    /\ doing[a] = "save" /\ a \notin late
    /\ \E s \in {"active", "archived"}, d \in BOOLEAN :
        /\ _check_unique_default(a, on[a], s, d)
        /\ known' = [known EXCEPT ![on[a]] = s]
        /\ main' = [main EXCEPT ![on[a]] = d]
    /\ Overtake({on[a]}, a) /\ PutDown(a)
    /\ UNCHANGED <<active, key, status, checked, up, talk>>
-----------------------------------------------------------------------------
(* A chat request                                                          *)

_get_default_model_name(p) ==
    IF ChatModels(p) \cap Defaults # {} THEN ChatModels(p) \cap Defaults ELSE ChatModels(p)

(* Those of S in the order of the model.                                   *)
First(S) ==
    LET upTo[n \in 0 .. Len(Priority)] ==
            IF n = 0 THEN << >>
            ELSE IF Priority[n] \in S THEN Append(upTo[n - 1], Priority[n]) ELSE upTo[n - 1]
    IN  upTo[Len(Priority)]

_resolve_by_priority(m) ==
    LET able == First({p \in Providers : active[p] /\ _provider_has_active_models(p)})
    IN IF able = << >> THEN {}
       ELSE {<<able[1], n>> : n \in IF m # Nobody THEN {m} ELSE _get_default_model_name(able[1])}

(* Provider and model of a request that names provider q and model m, or   *)
(* Nobody: its own, the tool's, or the first provider's with a chat model. *)
(* The tool's model goes with whatever provider the request names.         *)
_resolve_ai_provider(q, m) ==
    LET wanted == IF m # Nobody THEN m ELSE ToolModel
    IN IF q # Nobody /\ active[q]
       THEN {<<q, wanted>>}
       ELSE IF ToolProvider # Nobody /\ _provider_has_active_models(ToolProvider)
       THEN {<<ToolProvider, n>> : n \in IF wanted # Nobody THEN {wanted}
                                         ELSE _get_default_model_name(ToolProvider)}
       ELSE _resolve_by_priority(m)

(* Mutant: only the fallbacks the provider names are tried.                *)
NamedFallbacks(p, m) ==
    LET chosen == First({q \in Fallbacks[p] : active[q]})
    IN <<[provider |-> p, key |-> key[p], model |-> m]>>
         \o [i \in DOMAIN chosen |-> [provider |-> chosen[i], key |-> key[chosen[i]],
                                       model |-> Nobody]]

(* The provider itself, then the fallbacks it names, then every other with *)
(* a chat model.  Only the first is told the model.                        *)
_try_fallbacks(p, m) ==
    LET attempt(q, n) == [provider |-> q, key |-> key[q], model |-> n]
        chosen == First({q \in Fallbacks[p] : active[q]})
        tried == {p} \cup {chosen[i] : i \in DOMAIN chosen}
        others == First({q \in Providers \ tried : active[q] /\ _provider_has_active_models(q)})
    IN <<attempt(p, m)>> \o [i \in DOMAIN chosen |-> attempt(chosen[i], Nobody)]
                        \o [i \in DOMAIN others |-> attempt(others[i], Nobody)]

(* A fallback could answer with the model its handler takes by itself,     *)
(* which is not the one it is configured for.                              *)
Able(q) ==
    /\ active[q] /\ _provider_has_active_models(q) /\ _ping_service(q, key[q])
    /\ Builtin[q] \in Serves[q]

_builtin_ask_ai ==
    /\ chatting # "asking"
    /\ \E q \in Providers \cup {Nobody}, m \in Models \cup {Nobody} :
        \E r \in _resolve_ai_provider(q, m) :
            /\ plan' = _try_fallbacks(r[1], r[2])
            /\ could' = {p \in Providers \ {r[1]} : Able(p)}
    /\ chatting' = "asking"
    /\ UNCHANGED <<records, up, desk>>

(* A handler gives the answer of the API or raises.                        *)
Handles(t) ==
    /\ _ping_service(t.provider, t.key)
    /\ (IF t.model = Nobody THEN Builtin[t.provider] ELSE t.model) \in Serves[t.provider]

_dispatch ==
    /\ chatting = "asking"
    /\ \/ /\ plan # << >> /\ Handles(Head(plan))
          /\ chatting' = "answered" /\ plan' = << >> /\ could' = {}
       \/ /\ plan # << >> /\ ~Handles(Head(plan))
          /\ plan' = Tail(plan) /\ UNCHANGED <<chatting, could>>
       \/ /\ plan = << >>
          /\ chatting' = "failed" /\ UNCHANGED <<plan, could>>
    /\ UNCHANGED <<records, up, desk>>

(* An API goes down or comes back.                                         *)
Outage(p) ==
    /\ up' = IF p \in up THEN up \ {p} ELSE up \cup {p}
    /\ could' = could \ {p}
    /\ UNCHANGED <<records, desk, chatting, plan>>
-----------------------------------------------------------------------------
Administer(a) ==
    \/ \E p \in Providers : action_check_connection(a, p) \/ action_fetch(a, p)
    \/ \E m \in Models : OpenModel(a, m)

Finish(a) ==
    \/ check_connection(a) \/ fetch_available_models(a) \/ action_confirm(a)
    \/ SaveModel(a) \/ Outdated(a)

(* What people and networks start, and what the server makes of it.        *)
ProvMove ==
    \/ \E p \in Providers : write(p) \/ Outage(p)
    \/ \E a \in Admins : Administer(a)
    \/ _builtin_ask_ai

ProvStep == _dispatch \/ \E a \in Admins : Finish(a)

ProvNext == ProvMove \/ ProvStep

ProvSpec == ProvInit /\ [][ProvNext]_provVars
-----------------------------------------------------------------------------
(* Properties                                                              *)

(* A provider shown as connected has been reached with the credentials it  *)
(* has now, however long the check took and whoever edited the provider    *)
(* meanwhile (check_connection, fetch_available_models, write).            *)
ConnectedMeansChecked ==
    \A p \in Providers : status[p] = "connected" => checked[p] = key[p]

(* A request fails only if no other provider was there all along that      *)
(* could have answered it the way a fallback is asked, with the model its  *)
(* handler takes by itself (_dispatch, _try_fallbacks).                    *)
AnyProviderWillDo == chatting = "failed" => could = {}

(* A provider gets a second default model for one use only from somebody   *)
(* who could not see the first: no import, no archiving and unarchiving    *)
(* brings one about (_check_unique_default).                               *)
SecondDefault(m) ==
    /\ m \in Defaults' \ Defaults
    /\ Rivals(m) \cap Defaults' # {}

TwoDefaultsOverlapped ==
    [][\A m \in Models : SecondDefault(m) =>
          \E a \in Admins : on[a] = m /\ saw[a] \cap Rivals(m) = {}]_provVars
=============================================================================
