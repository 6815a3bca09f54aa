---------------------------- MODULE BotChannels -----------------------------
(***************************************************************************)
(* The bot channels of odoo_mcp_manager: connecting a bot registers a      *)
(* webhook with the platform that carries the server's secret, and the     *)
(* server lets in only deliveries that carry the secret it has now.        *)
(*                                                                         *)
(* The registration takes effect at the platform at once, the channel's    *)
(* status when the transaction commits, and the secret is the one the      *)
(* transaction saw when it began.  A channel's form, with its buttons, is  *)
(* used by one administrator at a time, and no two channels hold the token *)
(* of one bot.                                                             *)
(***************************************************************************)
EXTENDS Naturals

CONSTANTS
    Channels,   \* ai.bot.channel records
    MaxSecrets  \* how many secrets are generated

ASSUME SecretAssumption == MaxSecrets \in Nat

VARIABLES
    platform,   \* ai.bot.channel.platform
    secret,     \* bot_gateway.webhook_secret, 0 if there is none
    minted,     \* how many secrets were generated, committed or not
    shown,      \* ai.bot.channel.status
    hook,       \* the secret the channel's bot sends with a delivery, 0 if none
    step,       \* how far the transaction on a channel is
    knows,      \* the secret that transaction goes by
    made,       \* transactions that generated it themselves
    dated,      \* channels told an older secret, or whose transaction knows one
    cut,        \* channels whose disconnect broke off after the platform's part
    edited      \* channels given another platform or bot since they connected

chanVars == <<platform, secret, minted, shown, hook, step, knows, made, dated, cut, edited>>

Secrets == 0 .. MaxSecrets
Platforms == {"telegram", "whatsapp", "web", "discord"}

ChanTypeOK ==
    /\ platform \in [Channels -> Platforms]
    /\ secret \in Secrets /\ minted \in Secrets
    /\ shown \in [Channels -> {"draft", "active"}]
    /\ hook \in [Channels -> Secrets]
    /\ step \in [Channels -> {"rest", "connect", "hooked", "disconnect", "unhooked"}]
    /\ knows \in [Channels -> Secrets]
    /\ made \in SUBSET Channels
    /\ dated \in SUBSET Channels
    /\ cut \in SUBSET Channels
    /\ edited \in SUBSET Channels

ChanInit ==
    /\ platform \in [Channels -> Platforms]
    /\ secret = 0 /\ minted = 0
    /\ shown = [c \in Channels |-> "draft"]
    /\ hook = [c \in Channels |-> 0]
    /\ step = [c \in Channels |-> "rest"]
    /\ knows = [c \in Channels |-> 0]
    /\ made = {} /\ dated = {} /\ cut = {} /\ edited = {}
-----------------------------------------------------------------------------
Goto(c, s) == step' = [step EXCEPT ![c] = s]

(* The transaction ends, and what it knew is forgotten.                    *)
Rest(c) ==
    /\ Goto(c, "rest")
    /\ knows' = [knows EXCEPT ![c] = 0]
    /\ made' = made \ {c}

(* The secret that goes with a delivery is compared with the one in force. *)
validate_bot_api_key(c) == secret # 0 /\ hook[c] = secret
-----------------------------------------------------------------------------
(* The form's save: a platform or a token may be changed while the channel *)
(* is connected, and its status stays.  What the bot it now stands for     *)
(* sends, if anything, it was told before.                                 *)
SaveChannel(c) ==
    /\ step[c] = "rest"
    /\ \E p \in Platforms : platform' = [platform EXCEPT ![c] = p]
    /\ \E h \in 0 .. minted : hook' = [hook EXCEPT ![c] = h]
    /\ edited' = edited \cup {c}
    /\ UNCHANGED <<secret, minted, shown, step, knows, made, dated, cut>>
-----------------------------------------------------------------------------
(* Connecting                                                              *)

action_connect(c) ==
    /\ step[c] = "rest"
    /\ Goto(c, "connect")
    /\ knows' = [knows EXCEPT ![c] = secret]
    /\ UNCHANGED <<platform, secret, minted, shown, hook, made, dated, cut, edited>>

(* A token, an address or an answer is missing or wrong: the error status  *)
(* that was set is rolled back with the transaction.                       *)
_set_error(c) ==
    /\ step[c] \in {"connect", "hooked"} /\ Rest(c)
    /\ UNCHANGED <<platform, secret, minted, shown, hook, dated, cut, edited>>

(* The secret read, or one generated when there was none.                  *)
_ensure_webhook_secret(c, s) ==
    \/ knows[c] # 0 /\ s = knows[c] /\ UNCHANGED <<minted, made>>
    \/ /\ knows[c] = 0 /\ minted < MaxSecrets
       /\ s = minted + 1 /\ minted' = s
       /\ made' = made \cup {c}

_connect_telegram(c) ==
    /\ step[c] = "connect" /\ platform[c] = "telegram"
    /\ \E s \in Secrets :
        /\ _ensure_webhook_secret(c, s)
        /\ knows' = [knows EXCEPT ![c] = s]
        /\ hook' = [hook EXCEPT ![c] = s]
    /\ Goto(c, "hooked")
    /\ UNCHANGED <<platform, secret, shown, dated, cut, edited>>

(* The other platforms: the address is shown, somebody copies it.          *)
ShowAddress(c) ==
    /\ step[c] = "connect"
    /\ \E s \in Secrets :
        /\ _ensure_webhook_secret(c, s)
        /\ knows' = [knows EXCEPT ![c] = s]
    /\ Goto(c, "hooked")
    /\ UNCHANGED <<platform, secret, shown, hook, dated, cut, edited>>

_connect_whatsapp(c) == platform[c] = "whatsapp" /\ ShowAddress(c)
_connect_web(c) == platform[c] = "web" /\ ShowAddress(c)
_connect_discord(c) == platform[c] = "discord" /\ ShowAddress(c)

(* Mutant: of two first secrets the later one wins.                        *)
ConnectLast(c) ==
    /\ step[c] = "hooked"
    /\ secret' = IF c \in made THEN knows[c] ELSE secret
    /\ shown' = [shown EXCEPT ![c] = "active"]
    /\ dated' = IF knows[c] = secret' THEN dated \ {c} ELSE dated
    /\ cut' = cut \ {c}
    /\ edited' = edited \ {c}
    /\ Rest(c)
    /\ UNCHANGED <<platform, minted, hook>>

(* Of two first secrets the later one violates the unique key.             *)
Connect(c) ==
    /\ step[c] = "hooked"
    /\ c \in made => secret = 0
    /\ secret' = IF c \in made THEN knows[c] ELSE secret
    /\ shown' = [shown EXCEPT ![c] = "active"]
    /\ dated' = IF knows[c] = secret' THEN dated \ {c} ELSE dated
    /\ cut' = cut \ {c}
    /\ edited' = edited \ {c}
    /\ Rest(c)
    /\ UNCHANGED <<platform, minted, hook>>

(* The address is copied to the platform by hand.                          *)
_compute_urls(c) ==
    /\ platform[c] # "telegram" /\ secret # 0
    /\ platform[c] = "discord" => shown[c] = "active"
    /\ hook' = [hook EXCEPT ![c] = secret]
    /\ UNCHANGED <<platform, secret, minted, shown, step, knows, made, dated, cut, edited>>
-----------------------------------------------------------------------------
(* Disconnecting                                                           *)

action_disconnect(c) ==
    /\ step[c] = "rest"
    /\ Goto(c, "disconnect")
    /\ UNCHANGED <<platform, secret, minted, shown, hook, knows, made, dated, cut, edited>>

(* Telegram is asked to delete the webhook and may not hear it; nothing is *)
(* to be done with the others.                                             *)
_disconnect_telegram(c) ==
    /\ step[c] = "disconnect"
    /\ \E h \in {hook[c], 0} :
        /\ h # hook[c] => platform[c] = "telegram"
        /\ hook' = [hook EXCEPT ![c] = h]
    /\ Goto(c, "unhooked")
    /\ UNCHANGED <<platform, secret, minted, shown, knows, made, dated, cut, edited>>

Disconnect(c) ==
    /\ step[c] = "unhooked"
    /\ shown' = [shown EXCEPT ![c] = "draft"]
    /\ Rest(c)
    /\ UNCHANGED <<platform, secret, minted, hook, dated, cut, edited>>

(* The worker is killed.                                                   *)
BreakOff(c) ==
    /\ step[c] # "rest"
    /\ cut' = IF step[c] = "unhooked" THEN cut \cup {c} ELSE cut
    /\ Rest(c)
    /\ UNCHANGED <<platform, secret, minted, shown, hook, dated, edited>>
-----------------------------------------------------------------------------
(* A new secret in the settings: every channel that was told the old one   *)
(* must be connected again.                                                *)
action_generate_webhook_secret ==
    /\ minted < MaxSecrets
    /\ minted' = minted + 1 /\ secret' = minted + 1
    /\ dated' = {c \in Channels : shown[c] = "active" \/ step[c] # "rest"}
    /\ UNCHANGED <<platform, shown, hook, step, knows, made, cut, edited>>

ChanNext ==
    \/ \E c \in Channels :
        \/ SaveChannel(c) \/ action_connect(c) \/ _connect_telegram(c)
        \/ _connect_whatsapp(c) \/ _connect_web(c) \/ _connect_discord(c)
        \/ Connect(c) \/ _set_error(c) \/ _compute_urls(c)
        \/ action_disconnect(c) \/ _disconnect_telegram(c) \/ Disconnect(c)
        \/ BreakOff(c)
    \/ action_generate_webhook_secret

ChanSpec == ChanInit /\ [][ChanNext]_chanVars
-----------------------------------------------------------------------------
(* Properties                                                              *)

(* A Telegram bot that is shown as connected is heard: the server lets its *)
(* deliveries in.  Three things only can make it deaf: a new secret, a     *)
(* disconnect that broke off halfway, and another platform or token saved  *)
(* since it was connected (_connect_telegram, action_disconnect,           *)
(* action_generate_webhook_secret, the form's save).                       *)
ConnectedIsHeard ==
    \A c \in Channels \ (dated \cup cut \cup edited) :
        platform[c] = "telegram" /\ shown[c] = "active" /\ step[c] = "rest"
            => validate_bot_api_key(c)
=============================================================================
