-------------------------- MODULE AssistantProofs ---------------------------
(***************************************************************************)
(* Promises of the AI assistant's back office, for every number of         *)
(* channels, secrets, providers, models, administrators, rules and tool    *)
(* calls: a connected bot is heard, a connected provider was checked with  *)
(* the credentials it has, a chat falls back on every provider there is,   *)
(* only overlapping edits make two default models, and the allow-list is   *)
(* what administrators made it and is obeyed.                              *)
(***************************************************************************)
EXTENDS MCAssistant, McpGatewayProofs, FoldLemmas, TLAPS

-----------------------------------------------------------------------------
(* Bot channels                                                            *)

(* Shown as connected, and nothing happened that may make the bot deaf.    *)
Clean(c) == shown[c] = "active" /\ c \notin dated \cup cut \cup edited

(* What a connection under way knows is what it tells the platform; a      *)
(* clean channel's secret is in force, and no connection generates another.*)
HeardInv ==
    \A c \in Channels : platform[c] = "telegram" =>
        /\ Clean(c) => secret # 0 /\ c \notin made
        /\ Clean(c) /\ step[c] \in {"rest", "connect", "disconnect"} => hook[c] = secret
        /\ Clean(c) /\ step[c] \in {"connect", "hooked"} => knows[c] = secret
        /\ step[c] = "hooked" => hook[c] = knows[c] /\ knows[c] # 0
        /\ step[c] \in {"connect", "hooked"} /\ c \notin made \cup dated /\ knows[c] # 0
                => knows[c] = secret

LEMMA ChanTypeStep == ChanTypeOK /\ [ChanNext]_chanVars => ChanTypeOK'
<1> SUFFICES ASSUME ChanTypeOK, [ChanNext]_chanVars PROVE ChanTypeOK'
  OBVIOUS
<1> USE SecretAssumption
<1>1. ASSUME NEW c \in Channels,
             \/ action_connect(c) \/ Connect(c) \/ _set_error(c) \/ _compute_urls(c)
             \/ action_disconnect(c) \/ Disconnect(c) \/ BreakOff(c) \/ SaveChannel(c)
      PROVE  ChanTypeOK'
  BY <1>1 DEF ChanTypeOK, Secrets, Platforms, action_connect, Connect, _set_error, _compute_urls,
              action_disconnect, Disconnect, BreakOff, SaveChannel, Rest, Goto
<1>2. ASSUME NEW c \in Channels, _connect_telegram(c) \/ ShowAddress(c) PROVE ChanTypeOK'
  BY <1>2 DEF ChanTypeOK, Secrets, _connect_telegram, ShowAddress, _ensure_webhook_secret, Goto
<1>3. ASSUME NEW c \in Channels, _disconnect_telegram(c) PROVE ChanTypeOK'
  BY <1>3 DEF ChanTypeOK, Secrets, _disconnect_telegram, Goto
<1>4. CASE action_generate_webhook_secret
  BY <1>4 DEF ChanTypeOK, Secrets, action_generate_webhook_secret
<1>5. CASE UNCHANGED chanVars
  BY <1>5 DEF ChanTypeOK, chanVars
<1> QED
  BY <1>1, <1>2, <1>3, <1>4, <1>5
     DEF ChanNext, _connect_whatsapp, _connect_web, _connect_discord

LEMMA ChanTypeCorrect == ChanSpec => []ChanTypeOK
<1>1. ChanInit => ChanTypeOK
  BY SecretAssumption DEF ChanInit, ChanTypeOK, Secrets, Platforms
<1> QED
  BY <1>1, ChanTypeStep, PTL DEF ChanSpec

LEMMA HeardStep == ChanTypeOK /\ HeardInv /\ [ChanNext]_chanVars => HeardInv'
<1> SUFFICES ASSUME ChanTypeOK, HeardInv, [ChanNext]_chanVars PROVE HeardInv'
  OBVIOUS
<1> USE SecretAssumption DEF Clean, HeardInv, ChanTypeOK, Secrets, Goto, Rest
<1>1. ASSUME NEW d \in Channels, action_connect(d) PROVE HeardInv'
  BY <1>1 DEF action_connect
<1>2. ASSUME NEW d \in Channels, _connect_telegram(d) PROVE HeardInv'
  <2>1. PICK s \in Secrets : /\ _ensure_webhook_secret(d, s)
                             /\ knows' = [knows EXCEPT ![d] = s]
                             /\ hook' = [hook EXCEPT ![d] = s]
    BY <1>2 DEF _connect_telegram
  <2>2. /\ step[d] = "connect" /\ platform[d] = "telegram"
        /\ step' = [step EXCEPT ![d] = "hooked"]
        /\ UNCHANGED <<platform, secret, shown, dated, cut, edited>>
    BY <1>2 DEF _connect_telegram
  <2>3. s # 0 /\ (knows[d] # 0 => s = knows[d] /\ made' = made)
              /\ (knows[d] = 0 => made' = made \cup {d})
    BY <2>1 DEF _ensure_webhook_secret
  <2> QED
    BY <2>1, <2>2, <2>3
<1>3. ASSUME NEW d \in Channels, platform[d] # "telegram", ShowAddress(d) PROVE HeardInv'
  BY <1>3 DEF ShowAddress, _ensure_webhook_secret
<1>4. ASSUME NEW d \in Channels, Connect(d) PROVE HeardInv'
  <2>1. \A c \in Channels \ {d} :
          /\ shown'[c] = shown[c] /\ step'[c] = step[c] /\ knows'[c] = knows[c]
          /\ hook'[c] = hook[c] /\ platform'[c] = platform[c]
          /\ c \in dated' <=> c \in dated
          /\ c \in cut' <=> c \in cut
          /\ c \in edited' <=> c \in edited
          /\ c \in made' <=> c \in made
    BY <1>4 DEF Connect
  <2>2. secret' = secret \/ secret = 0
    BY <1>4 DEF Connect
  <2>3. /\ shown'[d] = "active" /\ step'[d] = "rest" /\ hook' = hook /\ platform' = platform
        /\ d \notin cut' /\ d \notin made' /\ step[d] = "hooked"
        /\ secret' = IF d \in made THEN knows[d] ELSE secret
        /\ dated' = IF knows[d] = secret' THEN dated \ {d} ELSE dated
    BY <1>4 DEF Connect
  <2>4. ASSUME platform[d] = "telegram", d \notin dated'
        PROVE  secret' # 0 /\ hook[d] = secret'
    BY <2>3, <2>4
  <2> QED
    BY <2>1, <2>2, <2>3, <2>4
<1>5. ASSUME NEW d \in Channels, _set_error(d) \/ BreakOff(d) PROVE HeardInv'
  BY <1>5 DEF _set_error, BreakOff
<1>6. ASSUME NEW d \in Channels, _compute_urls(d) PROVE HeardInv'
  BY <1>6 DEF _compute_urls
<1>7. ASSUME NEW d \in Channels, action_disconnect(d) \/ _disconnect_telegram(d) \/ Disconnect(d)
      PROVE  HeardInv'
  BY <1>7 DEF action_disconnect, _disconnect_telegram, Disconnect
<1>8. CASE action_generate_webhook_secret
  BY <1>8 DEF action_generate_webhook_secret
<1>9. ASSUME NEW d \in Channels, SaveChannel(d) PROVE HeardInv'
  BY <1>9 DEF SaveChannel
<1>10. CASE UNCHANGED chanVars
  BY <1>10 DEF chanVars
<1> QED
  BY <1>1, <1>2, <1>3, <1>4, <1>5, <1>6, <1>7, <1>8, <1>9, <1>10
     DEF ChanNext, _connect_whatsapp, _connect_web, _connect_discord

(* A Telegram bot that is shown as connected is let in, but after a new    *)
(* secret, a disconnect that broke off, or another platform or token saved *)
(* since.                                                                  *)
THEOREM BotIsHeard == ChanSpec => []ConnectedIsHeard
<1>1. ChanInit => HeardInv
  BY DEF ChanInit, HeardInv, Clean
<1>2. HeardInv => ConnectedIsHeard
  BY DEF HeardInv, Clean, ConnectedIsHeard, validate_bot_api_key
<1> QED
  BY <1>1, <1>2, ChanTypeCorrect, HeardStep, PTL DEF ChanSpec
-----------------------------------------------------------------------------
(* Providers in the order of the model                                     *)

(* g[n] is what First has picked among the first n providers.              *)
PicksUpTo(S, g) ==
    g = [n \in 0 .. Len(Priority) |->
            IF n = 0 THEN << >>
            ELSE IF Priority[n] \in S THEN Append(g[n - 1], Priority[n]) ELSE g[n - 1]]

Picked(S) == CHOOSE g : PicksUpTo(S, g)

LEMMA FirstUnfolds == ASSUME NEW S PROVE First(S) = Picked(S)[Len(Priority)]
BY DEF First, Picked, PicksUpTo

LEMMA PicksExist == ASSUME NEW S PROVE \E g : PicksUpTo(S, g)
<1> DEFINE N == Len(Priority)
           Next1(g, n) == IF n = 0 THEN << >>
                          ELSE IF Priority[n] \in S THEN Append(g[n - 1], Priority[n])
                          ELSE g[n - 1]
           T == {n \in Nat : \E g : g = [k \in 0 .. n |-> Next1(g, k)]}
<1>1. 0 \in T
  <2> DEFINE g == [k \in 0 .. 0 |-> << >>]
  <2>1. g = [k \in 0 .. 0 |-> Next1(g, k)]
    OBVIOUS
  <2> QED
    BY <2>1
<1>2. ASSUME NEW n \in Nat, n \in T PROVE n + 1 \in T
  <2>1. PICK g : g = [k \in 0 .. n |-> Next1(g, k)]
    BY <1>2
  <2> DEFINE h == [k \in 0 .. n + 1 |-> IF k = n + 1 THEN Next1(g, k) ELSE g[k]]
  <2>2. \A k \in 0 .. n : h[k] = g[k] /\ g[k] = Next1(g, k)
    <3>1. \A k \in 0 .. n : h[k] = g[k]
      OBVIOUS
    <3>2. \A k \in 0 .. n : g[k] = Next1(g, k)
      <4> HIDE DEF Next1
      <4> QED
        BY <2>1
    <3> QED
      BY <3>1, <3>2
  <2>3. ASSUME NEW k \in 0 .. n + 1 PROVE h[k] = Next1(h, k)
    <3>1. CASE k = n + 1
      <4>1. h[k] = Next1(g, k) /\ h[k - 1] = g[k - 1]
        BY <2>2, <3>1
      <4> HIDE DEF h
      <4> QED
        BY <4>1
    <3>2. CASE k \in 0 .. n
      <4>1. h[k] = Next1(g, k)
        BY <2>2, <3>2
      <4>2. k # 0 => h[k - 1] = g[k - 1]
        BY <2>2, <3>2
      <4> HIDE DEF h
      <4> QED
        BY <4>1, <4>2
    <3> QED
      BY <3>1, <3>2
  <2>4. h = [k \in 0 .. n + 1 |-> h[k]]
    OBVIOUS
  <2> HIDE DEF h
  <2>5. h = [k \in 0 .. n + 1 |-> Next1(h, k)]
    <3> HIDE DEF Next1
    <3> QED
      BY <2>3, <2>4
  <2> HIDE DEF Next1
  <2> QED
    BY <2>5, n + 1 \in Nat
<1>3. N \in Nat
  BY OrderAssumption
<1> HIDE DEF T
<1>4. N \in T
  BY <1>1, <1>2, <1>3, SetInduction
<1> QED
  BY <1>4 DEF T, PicksUpTo

(* First lists the members of a set of providers, each of them.            *)
LEMMA FirstFacts ==
    ASSUME NEW S \in SUBSET Providers
    PROVE  /\ First(S) \in Seq(S)
           /\ \A p \in S : \E i \in DOMAIN First(S) : First(S)[i] = p
<1> DEFINE N == Len(Priority)  g == Picked(S)
           Has(s, p) == \E i \in DOMAIN s : s[i] = p
           T == {n \in Nat : n <= N => /\ g[n] \in Seq(S)
                                       /\ \A k \in 1 .. n : Priority[k] \in S => Has(g[n], Priority[k])}
<1>1. N \in Nat /\ Priority \in Seq(Providers)
  BY OrderAssumption
<1>2. g = [n \in 0 .. N |-> IF n = 0 THEN << >>
                            ELSE IF Priority[n] \in S THEN Append(g[n - 1], Priority[n])
                            ELSE g[n - 1]]
  BY PicksExist DEF Picked, PicksUpTo
<1> HIDE DEF g
<1>3. 0 \in T
  BY <1>1, <1>2
<1>4. ASSUME NEW n \in Nat, n \in T PROVE n + 1 \in T
  <2> SUFFICES ASSUME n + 1 <= N
               PROVE  /\ g[n + 1] \in Seq(S)
                      /\ \A k \in 1 .. n + 1 : Priority[k] \in S => Has(g[n + 1], Priority[k])
    OBVIOUS
  <2>1. g[n] \in Seq(S) /\ \A k \in 1 .. n : Priority[k] \in S => Has(g[n], Priority[k])
    BY <1>1, <1>4
  <2>2. g[n + 1] = IF Priority[n + 1] \in S THEN Append(g[n], Priority[n + 1]) ELSE g[n]
    <3>1. n + 1 \in 0 .. N /\ n + 1 # 0 /\ (n + 1) - 1 = n
      BY <1>1
    <3> HIDE DEF N
    <3> QED
      BY <1>2, <3>1
  <2>3. CASE Priority[n + 1] \notin S
    BY <2>1, <2>2, <2>3
  <2>4. CASE Priority[n + 1] \in S
    <3> DEFINE s == g[n]  x == Priority[n + 1]
    <3>1. s \in Seq(S) /\ x \in S /\ g[n + 1] = Append(s, x)
      BY <2>1, <2>2, <2>4
    <3> HIDE DEF s, x
    <3>2. Has(Append(s, x), x) /\ \A p : Has(s, p) => Has(Append(s, x), p)
      BY <3>1
    <3> HIDE DEF Has
    <3>3. \A k \in 1 .. n : Priority[k] \in S => Has(g[n + 1], Priority[k])
      BY <2>1, <3>1, <3>2 DEF s
    <3>4. Has(g[n + 1], Priority[n + 1])
      BY <3>1, <3>2 DEF x
    <3>5. \A k \in 1 .. n + 1 : k \in 1 .. n \/ k = n + 1
      OBVIOUS
    <3>6. g[n + 1] \in Seq(S)
      BY <3>1
    <3> QED
      BY <3>3, <3>4, <3>5, <3>6
  <2> QED
    BY <2>3, <2>4
<1> HIDE DEF T
<1>5. N \in T
  BY <1>1, <1>3, <1>4, SetInduction
<1>6. First(S) = g[N]
  BY FirstUnfolds DEF g
<1>7. \A p \in S : \E k \in 1 .. N : Priority[k] = p
  <2>1. DOMAIN Priority = 1 .. N
    BY <1>1
  <2> QED
    BY <2>1, OrderAssumption
<1> QED
  BY <1>1, <1>5, <1>6, <1>7 DEF T
-----------------------------------------------------------------------------
(* A chat request                                                          *)

Holds(s, x) == \E i \in DOMAIN s : s[i] = x

(* What one of two sequences holds is in the two put together.             *)
LEMMA InEither ==
    ASSUME NEW T, NEW a \in Seq(T), NEW b \in Seq(T), NEW q,
           Holds(a, q) \/ Holds(b, q)
    PROVE  Holds(a \o b, q)
<1>1. /\ DOMAIN a = 1 .. Len(a) /\ DOMAIN b = 1 .. Len(b) /\ Len(a) \in Nat /\ Len(b) \in Nat
      /\ DOMAIN (a \o b) = 1 .. Len(a) + Len(b)
      /\ \A i \in 1 .. Len(a) : (a \o b)[i] = a[i]
      /\ \A i \in 1 .. Len(b) : (a \o b)[Len(a) + i] = b[i]
  OBVIOUS
<1>2. ASSUME NEW i \in DOMAIN a, a[i] = q PROVE \E j \in DOMAIN (a \o b) : (a \o b)[j] = q
  BY <1>1, <1>2
<1>3. ASSUME NEW i \in DOMAIN b, b[i] = q PROVE \E j \in DOMAIN (a \o b) : (a \o b)[j] = q
  <2>1. Len(a) + i \in DOMAIN (a \o b) /\ (a \o b)[Len(a) + i] = q
    BY <1>1, <1>3
  <2> QED
    BY <2>1
<1> QED
  BY <1>2, <1>3 DEF Holds

LEMMA ResolveType ==
    ASSUME NEW q \in Providers \cup {Nobody}, NEW m \in Models \cup {Nobody},
           NEW r \in _resolve_ai_provider(q, m)
    PROVE  r[1] \in Providers /\ r[2] \in Models \cup {Nobody}
<1>1. \A p \in Providers : _get_default_model_name(p) \subseteq Models
  BY DEF _get_default_model_name, ChatModels, Defaults, ModelsOf
<1>2. ASSUME r \in _resolve_by_priority(m) PROVE r[1] \in Providers /\ r[2] \in Models \cup {Nobody}
  <2> DEFINE S == {p \in Providers : active[p] /\ _provider_has_active_models(p)}
             able == First(S)
  <2>1. able \in Seq(S)
    BY FirstFacts
  <2>2. able # << >> /\ r \in {<<able[1], n>> : n \in IF m # Nobody THEN {m}
                                                     ELSE _get_default_model_name(able[1])}
    BY <1>2 DEF _resolve_by_priority
  <2> HIDE DEF able
  <2>3. able[1] \in Providers
    BY <2>1, <2>2
  <2> QED
    BY <1>1, <2>2, <2>3
<1>3. CASE q # Nobody /\ active[q]
  BY <1>3, ToolAssumption DEF _resolve_ai_provider
<1>4. CASE ~(q # Nobody /\ active[q])
  BY <1>1, <1>2, <1>4, ToolAssumption DEF _resolve_ai_provider
<1> QED
  BY <1>3, <1>4

(* The plan of a request asks every other provider with a chat model.      *)
LEMMA PlanFacts ==
    ASSUME NEW p \in Providers, NEW m \in Models \cup {Nobody}, key \in [Providers -> Keys]
    PROVE  /\ _try_fallbacks(p, m) \in Seq(Attempt)
           /\ \A q \in Providers \ {p} : active[q] /\ _provider_has_active_models(q) =>
                Holds(_try_fallbacks(p, m),
                      [provider |-> q, key |-> key[q], model |-> Nobody])
<1> DEFINE attempt(q, n) == [provider |-> q, key |-> key[q], model |-> n]
           C == {q \in Fallbacks[p] : active[q]}
           chosen == First(C)
           tried == {p} \cup {chosen[i] : i \in DOMAIN chosen}
           O == {q \in Providers \ tried : active[q] /\ _provider_has_active_models(q)}
           others == First(O)
           s1 == <<attempt(p, m)>>
           s2 == [i \in DOMAIN chosen |-> attempt(chosen[i], Nobody)]
           s3 == [i \in DOMAIN others |-> attempt(others[i], Nobody)]
<1>1. _try_fallbacks(p, m) = s1 \o s2 \o s3
  BY DEF _try_fallbacks
<1>2. C \in SUBSET Providers /\ O \in SUBSET Providers
  BY FallbackAssumption
<1>3. chosen \in Seq(Providers)
  <2>1. chosen \in Seq(C)
    BY <1>2, FirstFacts
  <2> QED
    BY <1>2, <2>1
<1>4. others \in Seq(Providers) /\ \A q \in O : \E i \in DOMAIN others : others[i] = q
  <2>1. others \in Seq(O)
    BY <1>2, FirstFacts
  <2>2. \A q \in O : \E i \in DOMAIN others : others[i] = q
    BY <1>2, FirstFacts
  <2> HIDE DEF O, others
  <2> QED
    BY <1>2, <2>1, <2>2
<1>5. \A q \in Providers, n \in Models \cup {Nobody} : attempt(q, n) \in Attempt
  BY DEF Attempt
<1>6. \A q \in Providers \ {p} : active[q] /\ _provider_has_active_models(q) =>
         (\E i \in DOMAIN chosen : chosen[i] = q) \/ (\E i \in DOMAIN others : others[i] = q)
  BY <1>4
<1> HIDE DEF C, O, chosen, others, tried
<1>7. s1 \in Seq(Attempt) /\ s2 \in Seq(Attempt) /\ s3 \in Seq(Attempt)
  <2> HIDE DEF attempt
  <2>1. s1 \in Seq(Attempt)
    BY <1>5
  <2>2. ASSUME NEW s \in Seq(Providers)
        PROVE  [i \in DOMAIN s |-> attempt(s[i], Nobody)] \in Seq(Attempt)
    <3>1. DOMAIN s = 1 .. Len(s) /\ Len(s) \in Nat /\ \A i \in 1 .. Len(s) : s[i] \in Providers
      OBVIOUS
    <3>2. [i \in 1 .. Len(s) |-> attempt(s[i], Nobody)] \in [1 .. Len(s) -> Attempt]
      BY <1>5, <3>1
    <3> QED
      BY <3>1, <3>2
  <2> QED
    BY <1>3, <1>4, <2>1, <2>2
<1>8. \A x : Holds(s2, x) \/ Holds(s3, x) => Holds(s1 \o s2 \o s3, x)
  <2> HIDE DEF s1, s2, s3
  <2> DEFINE s12 == s1 \o s2
  <2>1. s12 \in Seq(Attempt)
    BY <1>7
  <2>2. \A x : Holds(s2, x) => Holds(s12, x)
    BY <1>7, InEither
  <2> HIDE DEF s12
  <2>3. \A x : Holds(s12, x) \/ Holds(s3, x) => Holds(s12 \o s3, x)
    BY <1>7, <2>1, InEither
  <2> QED
    BY <2>2, <2>3 DEF s12
<1>9. \A q \in Providers \ {p} : active[q] /\ _provider_has_active_models(q) =>
         Holds(s2, attempt(q, Nobody)) \/ Holds(s3, attempt(q, Nobody))
  <2> HIDE DEF attempt
  <2> QED
    BY <1>6 DEF Holds
<1>10. s1 \o s2 \o s3 \in Seq(Attempt)
  BY <1>7
<1> HIDE DEF s1, s2, s3
<1> QED
  BY <1>1, <1>8, <1>9, <1>10

LEMMA ProvTypeStep == ProvTypeOK /\ [ProvNext]_provVars => ProvTypeOK'
<1> SUFFICES ASSUME ProvTypeOK, [ProvNext]_provVars PROVE ProvTypeOK'
  OBVIOUS
<1>1. ASSUME NEW p \in Providers, NEW k \in Keys, NewKey(p, k) PROVE ProvTypeOK'
  BY <1>1 DEF ProvTypeOK, NewKey, write_connection_reset, Overtake, talk
<1>2. ASSUME NEW p \in Providers, SetActive(p, ~active[p]) PROVE ProvTypeOK'
  BY <1>2 DEF ProvTypeOK, SetActive, write_connection_reset, Overtake, talk
<1>3. ASSUME NEW p \in Providers, Outage(p) PROVE ProvTypeOK'
  BY <1>3 DEF ProvTypeOK, Outage, records, desk
<1>4. ASSUME NEW a \in Admins, NEW p \in Providers,
             action_check_connection(a, p) \/ action_fetch(a, p)
      PROVE  ProvTypeOK'
  BY <1>4 DEF ProvTypeOK, action_check_connection, action_fetch, TakeUp, records, talk
<1>5. ASSUME NEW a \in Admins, NEW m \in Models, OpenModel(a, m) PROVE ProvTypeOK'
  BY <1>5 DEF ProvTypeOK, OpenModel, Defaults, records, talk
<1>6. CASE _builtin_ask_ai
  <2>1. PICK q \in Providers \cup {Nobody}, m \in Models \cup {Nobody} :
           \E r \in _resolve_ai_provider(q, m) :
              /\ plan' = _try_fallbacks(r[1], r[2])
              /\ could' = {p \in Providers \ {r[1]} : Able(p)}
    BY <1>6 DEF _builtin_ask_ai
  <2>2. PICK r \in _resolve_ai_provider(q, m) :
              /\ plan' = _try_fallbacks(r[1], r[2])
              /\ could' = {p \in Providers \ {r[1]} : Able(p)}
    BY <2>1
  <2>3. plan' \in Seq(Attempt)
    BY <2>2, ResolveType, PlanFacts DEF ProvTypeOK
  <2> QED
    BY <1>6, <2>2, <2>3 DEF ProvTypeOK, _builtin_ask_ai, records, desk
<1>7. CASE _dispatch
  <2>1. plan \in Seq(Attempt) /\ << >> \in Seq(Attempt)
        /\ (plan # << >> => Tail(plan) \in Seq(Attempt))
    BY DEF ProvTypeOK
  <2>2. plan' \in {<< >>, plan} \/ (plan # << >> /\ plan' = Tail(plan))
    BY <1>7 DEF _dispatch
  <2> QED
    BY <1>7, <2>1, <2>2 DEF ProvTypeOK, _dispatch, records, desk
<1>8. ASSUME NEW a \in Admins, check_connection(a) PROVE ProvTypeOK'
  <2>1. PICK s \in {"connected", "error"}, k \in Keys \cup {Nobody}, p \in Providers \cup Models \cup {Nobody} :
           /\ status' = [status EXCEPT ![p] = s]
           /\ checked' = [checked EXCEPT ![p] = k] \/ checked' = checked
    <3>1. on[a] \in Providers \cup Models \cup {Nobody} /\ took[a] \in Keys \cup {Nobody}
      BY DEF ProvTypeOK
    <3> QED
      BY <1>8, <3>1 DEF check_connection, Connected
  <2>2. status' \in [Providers -> {"unchecked", "connected", "error"}]
        /\ checked' \in [Providers -> Keys \cup {Nobody}]
    BY <2>1 DEF ProvTypeOK
  <2> QED
    BY <1>8, <2>2 DEF ProvTypeOK, check_connection, Overtake, PutDown, talk
<1>9. ASSUME NEW a \in Admins, fetch_available_models(a) PROVE ProvTypeOK'
  BY <1>9 DEF ProvTypeOK, fetch_available_models, Connected, Overtake, PutDown, talk
<1>10. ASSUME NEW a \in Admins, action_confirm(a) \/ Outdated(a) PROVE ProvTypeOK'
  BY <1>10 DEF ProvTypeOK, action_confirm, Outdated, PutDown, records, talk
<1>11. ASSUME NEW a \in Admins, SaveModel(a) PROVE ProvTypeOK'
  <2>1. PICK s \in {"active", "archived"}, d \in BOOLEAN :
           known' = [known EXCEPT ![on[a]] = s] /\ main' = [main EXCEPT ![on[a]] = d]
    BY <1>11 DEF SaveModel
  <2>2. known' \in [Models -> {"no", "archived", "active"}] /\ main' \in [Models -> BOOLEAN]
    BY <2>1 DEF ProvTypeOK
  <2> QED
    BY <1>11, <2>2 DEF ProvTypeOK, SaveModel, Overtake, PutDown, talk
<1>12. CASE UNCHANGED provVars
  BY <1>12 DEF ProvTypeOK, provVars, records, desk, talk
<1> QED
  BY <1>1, <1>2, <1>3, <1>4, <1>5, <1>6, <1>7, <1>8, <1>9, <1>10, <1>11, <1>12
     DEF ProvNext, ProvMove, ProvStep, write, Administer, Finish

LEMMA ProvTypeCorrect == ProvSpec => []ProvTypeOK
<1>1. ASSUME ProvInit PROVE ProvTypeOK
  BY <1>1 DEF ProvInit, ProvTypeOK
<1> QED
  BY <1>1, ProvTypeStep, PTL DEF ProvSpec
-----------------------------------------------------------------------------
(* Connections                                                             *)

(* Whoever asks the API without being late asks it with the credentials    *)
(* the provider has.                                                       *)
AskedWithCurrent ==
    \A a \in Admins : doing[a] \in {"check", "fetch"} =>
        on[a] \in Providers /\ (a \in late \/ took[a] = key[on[a]])

CheckInv == AskedWithCurrent /\ ConnectedMeansChecked

LEMMA CheckStep == ProvTypeOK /\ CheckInv /\ [ProvNext]_provVars => CheckInv'
<1> SUFFICES ASSUME ProvTypeOK, CheckInv, [ProvNext]_provVars PROVE CheckInv'
  OBVIOUS
<1> USE NobodyAssumption DEF ProvTypeOK, CheckInv, AskedWithCurrent, ConnectedMeansChecked
<1>1. ASSUME NEW p \in Providers, NEW k \in Keys, NewKey(p, k) PROVE CheckInv'
  BY <1>1 DEF NewKey, write_connection_reset, Overtake
<1>2. ASSUME NEW p \in Providers, SetActive(p, ~active[p]) PROVE CheckInv'
  BY <1>2 DEF SetActive, write_connection_reset, Overtake
<1>3. ASSUME NEW p \in Providers, Outage(p) PROVE CheckInv'
  BY <1>3 DEF Outage, records, desk
<1>4. ASSUME NEW a \in Admins, NEW p \in Providers,
             action_check_connection(a, p) \/ action_fetch(a, p)
      PROVE  CheckInv'
  BY <1>4 DEF action_check_connection, action_fetch, TakeUp, records
<1>5. ASSUME NEW a \in Admins, NEW m \in Models, OpenModel(a, m) PROVE CheckInv'
  BY <1>5 DEF OpenModel, records
<1>6. CASE _builtin_ask_ai \/ _dispatch \/ UNCHANGED provVars
  <2>1. UNCHANGED <<key, status, checked, doing, on, took, late>>
    BY <1>6 DEF _builtin_ask_ai, _dispatch, provVars, records, desk
  <2> QED
    BY <2>1
<1>7. ASSUME NEW a \in Admins, check_connection(a) PROVE CheckInv'
  <2>1. on[a] \in Providers /\ took[a] = key[on[a]] /\ key' = key
    BY <1>7 DEF check_connection
  <2>2. doing' = [doing EXCEPT ![a] = "nothing"] /\ on' = [on EXCEPT ![a] = Nobody]
        /\ took' = [took EXCEPT ![a] = Nobody] /\ late \subseteq late'
    BY <1>7 DEF check_connection, PutDown, Overtake
  <2>3. \/ status' = [status EXCEPT ![on[a]] = "connected"]
           /\ checked' = [checked EXCEPT ![on[a]] = took[a]]
        \/ status' = [status EXCEPT ![on[a]] = "error"] /\ checked' = checked
    BY <1>7 DEF check_connection, Connected
  <2> QED
    BY <2>1, <2>2, <2>3
<1>8. ASSUME NEW a \in Admins, fetch_available_models(a) PROVE CheckInv'
  <2>1. on[a] \in Providers /\ took[a] = key[on[a]] /\ key' = key
    BY <1>8 DEF fetch_available_models
  <2>2. CASE /\ Connected(on[a], took[a]) /\ Overtake({on[a]}, a)
             /\ doing' = [doing EXCEPT ![a] = "import"] /\ UNCHANGED <<on, took>>
    BY <2>1, <2>2 DEF Connected, Overtake
  <2>3. CASE PutDown(a) /\ UNCHANGED <<status, checked, late>>
    BY <2>1, <2>3 DEF PutDown
  <2> QED
    BY <1>8, <2>2, <2>3 DEF fetch_available_models
<1>9. ASSUME NEW a \in Admins, action_confirm(a) \/ SaveModel(a) \/ Outdated(a) PROVE CheckInv'
  <2>1. UNCHANGED <<key, status, checked>> /\ PutDown(a) /\ late \ {a} \subseteq late'
    BY <1>9 DEF action_confirm, SaveModel, Outdated, Overtake, records
  <2> QED
    BY <2>1 DEF PutDown
<1> QED
  BY <1>1, <1>2, <1>3, <1>4, <1>5, <1>6, <1>7, <1>8, <1>9
     DEF ProvNext, ProvMove, ProvStep, write, Administer, Finish

(* "Connected" is never the answer to credentials a provider had before,   *)
(* however checks, lists of models and edits overlap.                      *)
THEOREM CheckedIsCurrent == ProvSpec => []ConnectedMeansChecked
<1>1. ASSUME ProvInit PROVE CheckInv
  BY <1>1 DEF ProvInit, CheckInv, AskedWithCurrent, ConnectedMeansChecked
<1>2. CheckInv => ConnectedMeansChecked
  BY DEF CheckInv
<1> QED
  BY <1>1, <1>2, ProvTypeCorrect, CheckStep, PTL DEF ProvSpec
-----------------------------------------------------------------------------
(* The answer of a chat                                                    *)

(* How a fallback is asked when its credentials are right.                 *)
Asked(p) == [provider |-> p, key |-> RightKey[p], model |-> Nobody]

(* A provider that could have answered since the request began is reached, *)
(* and still in the plan.                                                  *)
AnswerInv ==
    /\ chatting = "failed" => could = {}
    /\ chatting = "asking" =>
          \A p \in could : p \in up /\ Builtin[p] \in Serves[p] /\ Holds(plan, Asked(p))

LEMMA AnswerStep == ProvTypeOK /\ AnswerInv /\ [ProvNext]_provVars => AnswerInv'
<1> SUFFICES ASSUME ProvTypeOK, AnswerInv, [ProvNext]_provVars PROVE AnswerInv'
  OBVIOUS
<1>1. ASSUME UNCHANGED <<talk, up>> PROVE AnswerInv'
  BY <1>1 DEF AnswerInv, talk
<1>2. ASSUME NEW p \in Providers, Outage(p) PROVE AnswerInv'
  BY <1>2 DEF Outage, AnswerInv
<1>3. CASE _builtin_ask_ai
  <2>1. PICK q \in Providers \cup {Nobody}, m \in Models \cup {Nobody} :
           \E r \in _resolve_ai_provider(q, m) :
              /\ plan' = _try_fallbacks(r[1], r[2])
              /\ could' = {p \in Providers \ {r[1]} : Able(p)}
    BY <1>3 DEF _builtin_ask_ai
  <2>2. PICK r \in _resolve_ai_provider(q, m) :
              /\ plan' = _try_fallbacks(r[1], r[2])
              /\ could' = {p \in Providers \ {r[1]} : Able(p)}
    BY <2>1
  <2>3. r[1] \in Providers /\ r[2] \in Models \cup {Nobody}
    BY ResolveType
  <2>4. key \in [Providers -> Keys]
    BY DEF ProvTypeOK
  <2>5. ASSUME NEW p \in could'
        PROVE  p \in up /\ Builtin[p] \in Serves[p] /\ Holds(plan', Asked(p))
    <3>1. p \in Providers \ {r[1]} /\ Able(p)
      BY <2>2, <2>5
    <3>2. /\ active[p] /\ _provider_has_active_models(p) /\ p \in up
          /\ key[p] = RightKey[p] /\ Builtin[p] \in Serves[p]
      BY <3>1 DEF Able, _ping_service
    <3>3. Holds(plan', [provider |-> p, key |-> key[p], model |-> Nobody])
      BY <2>2, <2>3, <2>4, <3>1, <3>2, PlanFacts
    <3> QED
      BY <3>2, <3>3 DEF Asked
  <2>6. chatting' = "asking" /\ up' = up
    BY <1>3 DEF _builtin_ask_ai
  <2> QED
    BY <2>5, <2>6 DEF AnswerInv
<1>4. CASE _dispatch
  <2>1. chatting = "asking" /\ up' = up
    BY <1>4 DEF _dispatch
  <2>2. CASE could' = {} /\ chatting' = "answered"
    BY <2>2 DEF AnswerInv
  <2>3. CASE plan # << >> /\ ~Handles(Head(plan)) /\ plan' = Tail(plan) /\ UNCHANGED <<chatting, could>>
    <3>1. ASSUME NEW p \in could PROVE Holds(Tail(plan), Asked(p))
      <4>1. p \in up /\ Builtin[p] \in Serves[p] /\ Holds(plan, Asked(p))
        BY <2>1, <3>1 DEF AnswerInv
      <4>2. Handles(Asked(p))
        BY <4>1 DEF Handles, Asked, _ping_service
      <4>3. Head(plan) # Asked(p)
        BY <2>3, <4>2
      <4>4. PICK i \in DOMAIN plan : plan[i] = Asked(p)
        BY <4>1 DEF Holds
      <4>5. plan \in Seq(Attempt)
        BY DEF ProvTypeOK
      <4>6. i # 1 /\ i \in 1 .. Len(plan) /\ Len(plan) \in Nat
        BY <2>3, <4>3, <4>4, <4>5
      <4>7. i - 1 \in DOMAIN Tail(plan) /\ Tail(plan)[i - 1] = plan[i]
        BY <2>3, <4>5, <4>6
      <4> QED
        BY <4>4, <4>7 DEF Holds
    <3> QED
      BY <2>1, <2>3, <3>1 DEF AnswerInv
  <2>4. CASE plan = << >> /\ chatting' = "failed" /\ UNCHANGED <<plan, could>>
    <3>1. \A x : ~Holds(<< >>, x)
      BY DEF Holds
    <3> QED
      BY <2>1, <2>4, <3>1 DEF AnswerInv
  <2> QED
    BY <1>4, <2>2, <2>3, <2>4 DEF _dispatch
<1>5. ASSUME NEW p \in Providers, write(p) PROVE UNCHANGED <<talk, up>>
  BY <1>5 DEF write, NewKey, SetActive
<1>6. ASSUME NEW a \in Admins, Administer(a) PROVE UNCHANGED <<talk, up>>
  BY <1>6 DEF Administer, action_check_connection, action_fetch, TakeUp, OpenModel
<1>7. ASSUME NEW a \in Admins, Finish(a) PROVE UNCHANGED <<talk, up>>
  BY <1>7 DEF Finish, check_connection, fetch_available_models, action_confirm, SaveModel, Outdated
<1>8. CASE UNCHANGED provVars
  BY <1>1, <1>8 DEF provVars
<1> QED
  BY <1>1, <1>2, <1>3, <1>4, <1>5, <1>6, <1>7, <1>8 DEF ProvNext, ProvMove, ProvStep

(* However the fallbacks are ordered and chosen, and whatever is edited or *)
(* goes down meanwhile: a request fails only if no other provider could    *)
(* have answered all along.                                                *)
THEOREM FallbacksSuffice == ProvSpec => []AnyProviderWillDo
<1>1. ProvInit => AnswerInv
  BY DEF ProvInit, AnswerInv
<1>2. AnswerInv => AnyProviderWillDo
  BY DEF AnswerInv, AnyProviderWillDo
<1> QED
  BY <1>1, <1>2, ProvTypeCorrect, AnswerStep, PTL DEF ProvSpec
-----------------------------------------------------------------------------
(* Default models                                                          *)

(* A model that is not there is nobody's default, and whoever saves a      *)
(* model has one in hand.                                                  *)
DefaultInv ==
    /\ \A m \in Models : main[m] => known[m] # "no"
    /\ \A a \in Admins : doing[a] = "save" => on[a] \in Models

LEMMA DefaultStep == ProvTypeOK /\ DefaultInv /\ [ProvNext]_provVars => DefaultInv'
<1> SUFFICES ASSUME ProvTypeOK, DefaultInv, [ProvNext]_provVars PROVE DefaultInv'
  OBVIOUS
<1> USE DEF DefaultInv, ProvTypeOK
<1>1. ASSUME NEW p \in Providers, SetActive(p, ~active[p]) PROVE DefaultInv'
  BY <1>1 DEF SetActive
<1>2. ASSUME NEW a \in Admins, action_confirm(a) PROVE DefaultInv'
  BY <1>2 DEF action_confirm, PutDown
<1>3. ASSUME NEW a \in Admins, SaveModel(a) PROVE DefaultInv'
  <2>1. PICK s \in {"active", "archived"}, d \in BOOLEAN :
           known' = [known EXCEPT ![on[a]] = s] /\ main' = [main EXCEPT ![on[a]] = d]
    BY <1>3 DEF SaveModel
  <2>2. PutDown(a)
    BY <1>3 DEF SaveModel
  <2> QED
    BY <2>1, <2>2 DEF PutDown
<1>4. ASSUME NEW a \in Admins, NEW m \in Models, OpenModel(a, m) PROVE DefaultInv'
  BY <1>4 DEF OpenModel, records
<1>5. ASSUME NEW a \in Admins, NEW p \in Providers,
             action_check_connection(a, p) \/ action_fetch(a, p)
      PROVE  DefaultInv'
  BY <1>5 DEF action_check_connection, action_fetch, TakeUp, records
<1>6. ASSUME NEW a \in Admins, check_connection(a) \/ fetch_available_models(a) \/ Outdated(a)
      PROVE  DefaultInv'
  BY <1>6 DEF check_connection, fetch_available_models, Outdated, PutDown, records
<1>7. CASE UNCHANGED <<known, main, doing, on>>
  BY <1>7
<1>8. ASSUME NEW p \in Providers, NEW k \in Keys, NewKey(p, k)
      PROVE  UNCHANGED <<known, main, doing, on>>
  BY <1>8 DEF NewKey
<1>9. ASSUME NEW p \in Providers, Outage(p) PROVE UNCHANGED <<known, main, doing, on>>
  BY <1>9 DEF Outage, records, desk
<1>10. CASE _builtin_ask_ai \/ _dispatch \/ UNCHANGED provVars
  BY <1>7, <1>10 DEF _builtin_ask_ai, _dispatch, provVars, records, desk
<1> QED
  BY <1>1, <1>2, <1>3, <1>4, <1>5, <1>6, <1>7, <1>8, <1>9, <1>10
     DEF ProvNext, ProvMove, ProvStep, write, Administer, Finish

LEMMA NewDefault ==
    ASSUME ProvTypeOK, DefaultInv, [ProvNext]_provVars, NEW m \in Models, SecondDefault(m)
    PROVE  \E a \in Admins : on[a] = m /\ saw[a] \cap Rivals(m) = {}
<1>1. PICK n \in Rivals(m) : n \in Defaults'
  BY DEF SecondDefault
<1>2. /\ known'[m] = "active" /\ main'[m] /\ ~(known[m] = "active" /\ main[m])
      /\ n \in Models \ {m} /\ ProviderOf[n] = ProviderOf[m] /\ known'[n] = "active" /\ main'[n]
  BY <1>1 DEF SecondDefault, Defaults, Rivals
<1>3. ASSUME NEW p \in Providers, SetActive(p, ~active[p]) PROVE FALSE
  <2>1. main' = main /\ known[m] # "active"
    BY <1>2, <1>3 DEF SetActive
  <2>2. known'[m] = IF m \in ModelsOf(p) /\ known[m] # "no"
                    THEN IF ~active[p] THEN "active" ELSE "archived" ELSE known[m]
    BY <1>3 DEF SetActive
  <2>3. m \in ModelsOf(p) /\ known[m] # "no" /\ ~active[p]
    BY <1>2, <2>1, <2>2
  <2>4. ~(known[n] # "no" /\ main[n])
    BY <1>1, <1>2, <1>3, <2>1, <2>3 DEF SetActive
  <2> QED
    BY <1>2, <2>1, <2>4 DEF ProvTypeOK, DefaultInv
<1>4. ASSUME NEW a \in Admins, action_confirm(a) PROVE FALSE
  <2>1. main' = main /\ known[m] # "active"
    BY <1>2, <1>4 DEF action_confirm
  <2>2. known[m] = "no"
    BY <1>2, <1>4, <2>1 DEF action_confirm, ProvTypeOK, DefaultInv
  <2> QED
    BY <1>2, <2>1, <2>2 DEF ProvTypeOK, DefaultInv
<1>5. ASSUME NEW a \in Admins, SaveModel(a) PROVE on[a] = m /\ saw[a] \cap Rivals(m) = {}
  <2>1. PICK s \in {"active", "archived"}, d \in BOOLEAN :
           /\ _check_unique_default(a, on[a], s, d)
           /\ known' = [known EXCEPT ![on[a]] = s] /\ main' = [main EXCEPT ![on[a]] = d]
    BY <1>5 DEF SaveModel
  <2>2. on[a] = m
    BY <1>2, <2>1 DEF ProvTypeOK, DefaultInv
  <2>3. s = "active" /\ d
    BY <1>2, <2>1, <2>2 DEF ProvTypeOK, DefaultInv
  <2> QED
    BY <2>1, <2>2, <2>3 DEF _check_unique_default
<1>6. ~UNCHANGED <<known, main>>
  BY <1>2
<1>7. ASSUME NEW p \in Providers, NEW k \in Keys, NewKey(p, k) PROVE UNCHANGED <<known, main>>
  BY <1>7 DEF NewKey
<1>8. ASSUME NEW p \in Providers, Outage(p) PROVE UNCHANGED <<known, main>>
  BY <1>8 DEF Outage, records
<1>9. ASSUME NEW a \in Admins, Administer(a) PROVE UNCHANGED <<known, main>>
  BY <1>9 DEF Administer, action_check_connection, action_fetch, TakeUp, OpenModel, records
<1>10. ASSUME NEW a \in Admins, check_connection(a) \/ fetch_available_models(a) \/ Outdated(a)
       PROVE  UNCHANGED <<known, main>>
  BY <1>10 DEF check_connection, fetch_available_models, Outdated, records
<1>11. CASE _builtin_ask_ai \/ _dispatch \/ UNCHANGED provVars
  BY <1>6, <1>11 DEF _builtin_ask_ai, _dispatch, provVars, records
<1> QED
  BY <1>3, <1>4, <1>5, <1>6, <1>7, <1>8, <1>9, <1>10, <1>11
     DEF ProvNext, ProvMove, ProvStep, write, Finish

(* Only overlapping edits give a provider two defaults for one use.        *)
THEOREM DefaultsOverlap == ProvSpec => TwoDefaultsOverlapped
<1>1. ProvInit => DefaultInv
  BY DEF ProvInit, DefaultInv
<1>2. ProvTypeOK /\ DefaultInv /\ [ProvNext]_provVars =>
         \A m \in Models : SecondDefault(m) =>
            \E a \in Admins : on[a] = m /\ saw[a] \cap Rivals(m) = {}
  BY NewDefault
<1> QED
  BY <1>1, <1>2, ProvTypeCorrect, DefaultStep, PTL DEF ProvSpec, TwoDefaultsOverlapped
-----------------------------------------------------------------------------
(* The allow-list                                                          *)

LEMMA AccessTypeStep == AccessTypeOK /\ [AccessNext]_accessVars => AccessTypeOK'
<1> SUFFICES ASSUME AccessTypeOK, [AccessNext]_accessVars PROVE AccessTypeOK'
  OBVIOUS
<1> USE DEF AccessTypeOK
<1>1. ASSUME NEW t \in Tables, NEW s \in {"none", "archived", "active"},
             NEW A \in SUBSET OPERATIONS, Save(t, s, A)
      PROVE  /\ rule' \in [Tables -> {"none", "archived", "active"}]
             /\ allows' \in [Tables -> SUBSET OPERATIONS]
             /\ left' \in [Tables -> Rule \cup {Untouched}]
  BY <1>1 DEF Save, Rule
<1>2. ASSUME NEW t \in Tables, EditRule(t) PROVE AccessTypeOK'
  <2>1. PICK s \in {"none", "archived", "active"}, A \in SUBSET OPERATIONS : Save(t, s, A)
    BY <1>2 DEF EditRule
  <2> QED
    BY <1>1, <1>2, <2>1 DEF EditRule, pending
<1>3. CASE SetEnforce
  BY <1>3 DEF SetEnforce, pending
<1>4. CASE _seed_default_rules
  BY <1>4 DEF _seed_default_rules, pending
<1>5. ASSUME NEW c \in Runs, NEW t \in Tables, NEW o \in OPERATIONS, _execute_builtin(c, t, o)
      PROVE  AccessTypeOK'
  <2>1. _check_model_access(t, o) \in BOOLEAN
    BY DEF _check_model_access, _allowlist_enforced, is_allowed
  <2> QED
    BY <1>5, <2>1 DEF _execute_builtin, rules
<1>6. ASSUME NEW c \in Runs, Close(c), stored' \in [Tables -> {"none", "linked", "loose"}]
      PROVE  AccessTypeOK'
  BY <1>6 DEF Close, rules
<1>7. ASSUME NEW c \in Runs, NEW t \in Tables, ToolRun(c, t) PROVE AccessTypeOK'
  BY <1>5, <1>6, <1>7 DEF ToolRun, resources_read, _builtin_search_records,
     _builtin_create_record, _builtin_update_record, _builtin_delete_record,
     _builtin_unlink_record
<1>8. ASSUME NEW c \in Runs, ToolFails(c) PROVE AccessTypeOK'
  BY <1>6, <1>8 DEF ToolFails
<1>9. CASE UNCHANGED accessVars
  BY <1>9 DEF accessVars, rules, pending
<1> QED
  BY <1>2, <1>3, <1>4, <1>7, <1>8, <1>9 DEF AccessNext, AccessStep, Configure

LEMMA AccessTypeCorrect == AccessSpec => []AccessTypeOK
<1>1. ASSUME AccessInit PROVE AccessTypeOK
  BY <1>1 DEF AccessInit, AccessTypeOK
<1> QED
  BY <1>1, AccessTypeStep, PTL DEF AccessSpec

(* Before the first installation has seeded the rules nobody edits them.   *)
EditsInv ==
    /\ EditsSurvive
    /\ ~seeded => \A t \in Tables : left[t] = Untouched

LEMMA EditsStep == AccessTypeOK /\ EditsInv /\ [AccessNext]_accessVars => EditsInv'
<1> SUFFICES ASSUME AccessTypeOK, EditsInv, [AccessNext]_accessVars PROVE EditsInv'
  OBVIOUS
<1> USE DEF AccessTypeOK
<1>1. CASE UNCHANGED rules
  BY <1>1 DEF rules, EditsInv, EditsSurvive
<1>2. ASSUME NEW t \in Tables, NEW s \in {"none", "archived", "active"},
             NEW A \in SUBSET OPERATIONS, seeded, seeded' = seeded, Save(t, s, A)
      PROVE  EditsInv'
  BY <1>2 DEF Save, EditsInv, EditsSurvive, Rule
<1>3. ASSUME NEW t \in Tables, EditRule(t) PROVE EditsInv'
  <2>1. seeded /\ seeded' = seeded
    BY <1>3 DEF EditRule
  <2>2. PICK s \in {"none", "archived", "active"}, A \in SUBSET OPERATIONS : Save(t, s, A)
    BY <1>3 DEF EditRule, EditsInv
  <2> QED
    BY <1>2, <2>1, <2>2
<1>4. CASE SetEnforce
  BY <1>4 DEF SetEnforce, EditsInv, EditsSurvive
<1>5. CASE _seed_default_rules
  BY <1>5 DEF _seed_default_rules, EditsInv, EditsSurvive
<1>6. ASSUME NEW c \in Runs, NEW t \in Tables, ToolFails(c) \/ ToolRun(c, t)
      PROVE  UNCHANGED rules
  BY <1>6 DEF ToolFails, ToolRun, _execute_builtin, resources_read, _builtin_search_records,
              _builtin_create_record, _builtin_update_record, _builtin_delete_record,
              _builtin_unlink_record, Close
<1>7. ASSUME NEW c \in Runs, ToolFails(c) PROVE UNCHANGED rules
  BY <1>7 DEF ToolFails, Close
<1>8. CASE UNCHANGED accessVars
  BY <1>1, <1>8 DEF accessVars
<1> QED
  BY <1>1, <1>3, <1>4, <1>5, <1>6, <1>7, <1>8 DEF AccessNext, AccessStep, Configure

(* What an administrator made of a rule outlasts every upgrade.            *)
THEOREM EditsStay == AccessSpec => []EditsSurvive
<1>1. ASSUME AccessInit PROVE EditsInv
  BY <1>1 DEF AccessInit, EditsInv, EditsSurvive
<1>2. EditsInv => EditsSurvive
  BY DEF EditsInv
<1> QED
  BY <1>1, <1>2, AccessTypeCorrect, EditsStep, PTL DEF AccessSpec

(* A call passes the gate only if the rules allowed it when it began.      *)
GateInv == \A c \in Runs : gate[c] => c \in let_in

LEMMA GateStep == AccessTypeOK /\ GateInv /\ [AccessNext]_accessVars => GateInv'
<1> SUFFICES ASSUME AccessTypeOK, GateInv, [AccessNext]_accessVars PROVE GateInv'
  OBVIOUS
<1> USE DEF AccessTypeOK, GateInv
<1>1. CASE (\E t \in Tables : EditRule(t)) \/ SetEnforce \/ _seed_default_rules
  BY <1>1 DEF EditRule, SetEnforce, _seed_default_rules, pending
<1>2. ASSUME NEW c \in Runs, NEW t \in Tables, NEW o \in OPERATIONS, _execute_builtin(c, t, o)
      PROVE  GateInv'
  <2>1. _check_model_access(t, o) => RulesAllow(t, o)
    BY DEF _check_model_access, _allowlist_enforced, is_allowed, RulesAllow
  <2>2. /\ gate' = [gate EXCEPT ![c] = _check_model_access(t, o)]
        /\ let_in' = IF RulesAllow(t, o) THEN let_in \cup {c} ELSE let_in
    BY <1>2 DEF _execute_builtin
  <2> QED
    BY <2>1, <2>2
<1>3. ASSUME NEW c \in Runs, Close(c) PROVE GateInv'
  BY <1>3 DEF Close
<1>4. ASSUME NEW c \in Runs, NEW t \in Tables, ToolRun(c, t) PROVE GateInv'
  BY <1>2, <1>3, <1>4 DEF ToolRun, resources_read, _builtin_search_records,
     _builtin_create_record, _builtin_update_record, _builtin_delete_record,
     _builtin_unlink_record
<1>5. ASSUME NEW c \in Runs, ToolFails(c) PROVE GateInv'
  BY <1>3, <1>5 DEF ToolFails
<1>6. CASE UNCHANGED accessVars
  BY <1>6 DEF accessVars, pending
<1> QED
  BY <1>1, <1>4, <1>5, <1>6 DEF AccessNext, AccessStep, Configure

Obeys(t) ==
    \E c \in let_in, o \in OPERATIONS :
        /\ asked[c] = <<t, o>> /\ asked'[c] = Nothing
        /\ Does(o, stored[t], stored'[t])

(* The call that writes is the one that ends, and passed its own gate.     *)
LEMMA WriteObeys ==
    ASSUME AccessTypeOK, GateInv, NEW c \in Runs, NEW t \in Tables, NEW o, NEW v,
           Writes(c, t, o), stored' = [stored EXCEPT ![t] = v], Close(c),
           Does(o, stored[t], v), NEW u \in Tables, stored'[u] # stored[u]
    PROVE  Obeys(u)
<1>1. u = t /\ stored'[t] = v
  BY DEF AccessTypeOK
<1>2. asked[c] = <<t, o>> /\ gate[c] /\ o \in OPERATIONS
  BY RightsAssumption DEF Writes, Passes
<1>3. asked'[c] = Nothing /\ c \in let_in
  BY <1>2 DEF Close, AccessTypeOK, GateInv
<1> QED
  BY <1>1, <1>2, <1>3 DEF Obeys

LEMMA ObeyStep ==
    ASSUME AccessTypeOK, GateInv, [AccessNext]_accessVars, NEW t \in Tables, stored'[t] # stored[t]
    PROVE  Obeys(t)
<1>1. ASSUME NEW c \in Runs, NEW r \in Tables, ToolRun(c, r) PROVE Obeys(t)
  <2>1. CASE _builtin_create_record(c, r)
    <3>1. PICK v \in {"linked", "loose"} : stored' = [stored EXCEPT ![r] = v]
      BY <2>1 DEF _builtin_create_record
    <3>2. Writes(c, r, "create") /\ Close(c) /\ Does("create", stored[r], v)
      BY <2>1, <3>1 DEF _builtin_create_record, Writes, Does
    <3> QED
      BY <3>1, <3>2, WriteObeys
  <2>2. CASE _builtin_update_record(c, r)
    <3>1. PICK v \in {"linked", "loose"} : stored' = [stored EXCEPT ![r] = v]
      BY <2>2 DEF _builtin_update_record
    <3>2. Writes(c, r, "update") /\ Close(c) /\ Does("update", stored[r], v)
      BY <2>2, <3>1 DEF _builtin_update_record, Writes, Does
    <3> QED
      BY <3>1, <3>2, WriteObeys
  <2>3. CASE _builtin_delete_record(c, r)
    <3>1. /\ Writes(c, r, "delete") /\ Close(c) /\ Does("delete", stored[r], "none")
          /\ stored' = [stored EXCEPT ![r] = "none"]
      BY <2>3 DEF _builtin_delete_record, Writes, Does
    <3> QED
      BY <3>1, WriteObeys
  <2>4. CASE _builtin_unlink_record(c, r)
    <3>1. /\ Writes(c, r, "unlink") /\ Close(c) /\ Does("unlink", stored[r], "loose")
          /\ stored' = [stored EXCEPT ![r] = "loose"]
      BY <2>4 DEF _builtin_unlink_record, Writes, Does
    <3> QED
      BY <3>1, WriteObeys
  <2>5. CASE stored' = stored
    BY <2>5
  <2> QED
    BY <1>1, <2>1, <2>2, <2>3, <2>4, <2>5
       DEF ToolRun, resources_read, _execute_builtin, _builtin_search_records
<1>2. CASE (\E r \in Tables : EditRule(r)) \/ SetEnforce \/ _seed_default_rules
           \/ (\E c \in Runs : ToolFails(c)) \/ UNCHANGED accessVars
  BY <1>2 DEF EditRule, SetEnforce, _seed_default_rules, ToolFails, accessVars
<1> QED
  BY <1>1, <1>2 DEF AccessNext, AccessStep, Configure

(* No tool writes but as the rules allowed that very call when it began.   *)
THEOREM RulesObeyed == AccessSpec => ObeysTheRules
<1>1. ASSUME AccessInit PROVE GateInv
  BY <1>1 DEF AccessInit, GateInv
<1>2. AccessTypeOK /\ GateInv /\ [AccessNext]_accessVars =>
         \A t \in Tables : stored'[t] # stored[t] => Obeys(t)
  BY ObeyStep
<1> QED
  BY <1>1, <1>2, AccessTypeCorrect, GateStep, PTL DEF AccessSpec, ObeysTheRules, Obeys

-----------------------------------------------------------------------------
(* The four parts together                                                 *)

LEMMA HubStep ==
    [HubNext]_hubVars => [McpNext]_mcpVars /\ [ChanNext]_chanVars /\ [ProvNext]_provVars
                           /\ [AccessNext]_accessVars
BY Zenon DEF HubNext, hubVars, ProvNext, AccessNext

(* Each part of the assistant behaves in the composition as it does alone: *)
(* what is proved of a part holds in the runs that check it.               *)
THEOREM PartsAreKept == HubSpec => McpSpec /\ ChanSpec /\ ProvSpec /\ AccessSpec
<1>1. HubInit => McpInit /\ ChanInit /\ ProvInit /\ AccessInit
  BY DEF HubInit
<1> QED
  BY <1>1, HubStep, PTL DEF HubSpec, McpSpec, ChanSpec, ProvSpec, AccessSpec

(* What sessions, bots, providers and rules store has its type.            *)
THEOREM HubTypeCorrect == HubSpec => []HubTypeOK
<1>1. McpTypeOK /\ ChanTypeOK /\ ProvTypeOK /\ AccessTypeOK => HubTypeOK
  BY DEF HubTypeOK
<1> QED
  BY <1>1, PartsAreKept, McpTypeCorrect, ChanTypeCorrect, ProvTypeCorrect, AccessTypeCorrect, PTL

(* Together the parts keep what each of them promises alone.               *)
COROLLARY AssistantKeeps ==
    HubSpec => /\ [](ConnectedIsHeard /\ ConnectedMeansChecked /\ AnyProviderWillDo /\ EditsSurvive)
               /\ OneRunPerGrant /\ TwinsOverlapped /\ TwoDefaultsOverlapped /\ ObeysTheRules
BY PartsAreKept, BotIsHeard, CheckedIsCurrent, FallbacksSuffice, EditsStay, ConsentIsSpent,
   TwinsOverlap, DefaultsOverlap, RulesObeyed, PTL
=============================================================================
