---------------------------- MODULE MCBotGateway ----------------------------
(***************************************************************************)
(* A small server for TLC.  Two messages of one conversation and two       *)
(* calls, or three messages, enough to run one of them again until the     *)
(* server gives up, and one call: what is not used was turned away before  *)
(* the run begins.                                                         *)
(***************************************************************************)
EXTENDS BotGateway, TLC

CONSTANTS j1, j2, j3

OneChat == [j \in Jobs |-> CHOOSE h \in Chats : TRUE]

Pair ==
    /\ McpInit /\ NothingSaid
    /\ stage = [j \in Jobs |-> IF j = j3 THEN "done" ELSE "new"]
    /\ via \in {j1 :> "telegram" @@ j2 :> "discord" @@ j3 :> "web",
                j1 :> "whatsapp" @@ j2 :> "web" @@ j3 :> "web"}

FirstWith(a, b) == [c \in Calls |-> IF c = 1 THEN a ELSE b]

Crowd ==
    /\ NoTraces /\ BotInit
    /\ phase = FirstWith("answered", "idle")
    /\ user = FirstWith(BotUser, None)
    /\ what \in {FirstWith(t, None) : t \in Tools}
    /\ outcome = FirstWith("refused", "none")
    /\ via = j1 :> "web" @@ j2 :> "discord" @@ j3 :> "telegram"

ServerInit == Pair \/ Crowd

ServerSpec == ServerInit /\ [][Next]_vars /\ Fairness
=============================================================================
