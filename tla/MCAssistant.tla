---------------------------- MODULE MCAssistant -----------------------------
(***************************************************************************)
(* Four parts of the AI assistant for TLC: the MCP endpoint, the bot       *)
(* channels, the providers and the allow-list.  They share no state, and   *)
(* no property here relates one to another: checking them one at a time    *)
(* loses nothing, and the states of the parts add up instead of            *)
(* multiplying.  Which part moves is chosen at the start.                  *)
(***************************************************************************)
EXTENDS AiProviders, BotChannels, McpGateway, ToolAccess, TLC

CONSTANTS
    p1, p2, m1, m2, m3,     \* two providers; p2 has two models
    MaxMoves                \* bound on what people and networks start

VARIABLES
    part,
    moves

hubVars == <<part, moves, mcpVars, chanVars, provVars, accessVars>>

InOrder == <<p1, p2>>
Names == p1 :> {p1} @@ p2 :> {}
Owner == m1 :> p1 @@ m2 :> p2 @@ m3 :> p2
AllChat == [m \in Models |-> "chat"]
Preset == p1 :> m1 @@ p2 :> m2
Served == p1 :> {m1} @@ p2 :> {m2, m3}
RightKeys == [p \in Providers |-> CHOOSE k \in Keys : TRUE]
AllRights == Tables \X OPERATIONS

Alike == Permutations(Admins) \cup Permutations(Channels) \cup Permutations(Runs)

HubInit ==
    /\ part \in {"endpoint", "channels", "providers", "allowlist"}
    /\ moves = 0
    /\ McpInit /\ ChanInit /\ ProvInit /\ AccessInit
    /\ key = RightKey
    /\ part # "channels" => platform = [c \in Channels |-> "web"]
    /\ part # "providers" => known = [m \in Models |-> "no"]
    /\ part # "allowlist" => stored = [t \in Tables |-> "none"]

HubNext ==
    /\ UNCHANGED part
    /\ \/ /\ part = "endpoint" /\ McpNext
          /\ UNCHANGED <<moves, chanVars, provVars, accessVars>>
       \/ /\ part = "channels" /\ ChanNext
          /\ UNCHANGED <<moves, mcpVars, provVars, accessVars>>
       \/ /\ part = "allowlist"
          /\ \/ Configure /\ moves < MaxMoves /\ moves' = moves + 1
             \/ AccessStep /\ UNCHANGED moves
          /\ UNCHANGED <<mcpVars, chanVars, provVars>>
       \/ /\ part = "providers"
          /\ \/ ProvMove /\ moves < MaxMoves /\ moves' = moves + 1
             \/ ProvStep /\ UNCHANGED moves
          /\ UNCHANGED <<mcpVars, chanVars, accessVars>>

HubSpec == HubInit /\ [][HubNext]_hubVars

(* What each part stores has its type.                                     *)
HubTypeOK == McpTypeOK /\ ChanTypeOK /\ ProvTypeOK /\ AccessTypeOK
=============================================================================
