----------------------------- MODULE BotGateway -----------------------------
(***************************************************************************)
(* The chat bots of odoo_mcp_manager on top of the MCP endpoint: a webhook *)
(* delivery is one transaction that reads the conversation, lets the model *)
(* choose a tool, calls the endpoint of the same server over HTTP, and     *)
(* writes question and answer to the conversation.                         *)
(*                                                                         *)
(* A Telegram, WhatsApp or web delivery (and every MCP call) occupies an   *)
(* HTTP worker until it ends; the web layer runs it again when its         *)
(* transaction clashes.  A Discord delivery is answered at once and worked *)
(* off by a pool of threads, where nothing is run again.  Telegram and     *)
(* WhatsApp are sent the reply before the commit, the web client gets it   *)
(* with the HTTP response after it, Discord after the commit.  Telegram    *)
(* also obeys an HTTP response that carries the reply.                     *)
(***************************************************************************)
EXTENDS McpGateway, Sequences

CONSTANTS
    Jobs,       \* webhook deliveries; a platform may deliver a message twice
    Chats,      \* conversations: platform and user
    ChatOf,     \* the conversation of a delivery
    BotUser,    \* the owner of the bot's API key
    Workers,    \* HTTP workers of the server
    Threads     \* threads of the Discord pool

ASSUME ChatAssumption == ChatOf \in [Jobs -> Chats]
ASSUME JobAssumption == None \notin Jobs
ASSUME BotAssumption == BotUser \in Users
ASSUME PoolAssumption == Workers \in Nat /\ Threads \in Nat

VARIABLES
    via,        \* the platform of a delivery
    stage,      \* how far a delivery is
    answers,    \* the MCP call that will answer it, 0 if there is none
    reply,      \* the text it is going to give
    told,       \* the texts the user was sent
    runs,       \* how often it was begun
    history,    \* how many turns of the conversation it read
    behind,     \* open deliveries whose conversation was written since
    memory      \* the turns of a conversation: who None before the start

bot == <<via, stage, answers, reply, told, runs, history, behind, memory>>
vars == <<mcpVars, bot>>

Discord == {j \in Jobs : via[j] = "discord"}

Active == {"blocked", "call", "send", "commit"}

Texts == {"result", "error", "timeout", "sorry", "hint"}

BotTypeOK ==
    /\ via \in [Jobs -> {"telegram", "whatsapp", "web", "discord"}]
    /\ stage \in [Jobs -> Active \cup {"new", "queued", "again", "done", "dead"}]
    /\ answers \in [Jobs -> 0 .. MaxCalls]
    /\ reply \in [Jobs -> Texts \cup {"none"}]
    /\ told \in [Jobs -> SUBSET Texts]
    /\ runs \in [Jobs -> 0 .. MaxTries]
    /\ history \in [Jobs -> Nat]
    /\ behind \in SUBSET Jobs
    /\ memory \in [Chats -> Seq(Jobs \cup {None})]

TypeOK == McpTypeOK /\ BotTypeOK

(* A delivery that was turned down changes none of this.                   *)
NothingSaid ==
    /\ via \in [Jobs -> {"telegram", "whatsapp", "web", "discord"}]
    /\ answers = [j \in Jobs |-> 0]
    /\ reply = [j \in Jobs |-> "none"]
    /\ told = [j \in Jobs |-> {}]
    /\ runs = [j \in Jobs |-> 0]
    /\ history = [j \in Jobs |-> 0]
    /\ behind = {}
    /\ memory \in [Chats -> {<< >>, <<None>>}]     \* new, or talked to before

BotInit == stage = [j \in Jobs |-> "new"] /\ NothingSaid

Init == McpInit /\ BotInit
-----------------------------------------------------------------------------
(* Workers and threads                                                     *)

OpenCalls == {c \in Calls : phase[c] \in Open}
OpenJobs == {j \in Jobs : stage[j] \in Active}

FreeWorker == Cardinality(OpenCalls) + Cardinality(OpenJobs \ Discord) < Workers

FreeThread == Cardinality(OpenJobs \cap Discord) < Threads
-----------------------------------------------------------------------------
(* A delivery is taken up                                                  *)

(* What the worker or thread held is gone with it.                         *)
Leave(j, s) ==
    /\ Set(stage, j, s)
    /\ Set(reply, j, "none") /\ Set(answers, j, 0) /\ Set(runs, j, 0)
    /\ UNCHANGED <<mcpVars, via, history>>

(* Too many requests, a body too large, a wrong secret or signature, no    *)
(* JSON, Discord's ping.                                                   *)
TurnDown(j) == Leave(j, "done") /\ UNCHANGED <<told, behind, memory>>

(* Discord is answered "deferred" at once.                                 *)
discord(j) ==
    /\ j \in Discord /\ stage[j] = "new" /\ FreeWorker
    /\ \/ TurnDown(j)
       \/ /\ Set(stage, j, "queued")
          /\ UNCHANGED <<mcpVars, via, answers, reply, told, runs, history, behind, memory>>

(* The first message of a user creates the conversation and holds its      *)
(* unique key until the transaction ends; another one waits for it.        *)
Holders(j) ==
    {i \in Jobs \ {j} : /\ ChatOf[i] = ChatOf[j]
                        /\ history[i] = 0
                        /\ stage[i] \in Active \ {"blocked"}
                        /\ reply[i] \notin {"hint", "sorry"}}

(* A delivery in which the adapter finds no text, a picture or a receipt,  *)
(* is answered with a hint and not remembered.                             *)
process(j) ==
    /\ Set(runs, j, runs[j] + 1)
    /\ Set(history, j, Len(memory[ChatOf[j]]))
    /\ Set(answers, j, 0)
    /\ \/ Set(stage, j, "send") /\ Set(reply, j, "hint")
       \/ /\ memory[ChatOf[j]] = << >> /\ Holders(j) # {}
          /\ Set(stage, j, "blocked") /\ Set(reply, j, "none")
       \/ /\ memory[ChatOf[j]] = << >> => Holders(j) = {}
          /\ Set(stage, j, "call") /\ Set(reply, j, "none")
    /\ UNCHANGED <<mcpVars, via, told, behind, memory>>

_handle(j) ==
    /\ j \notin Discord /\ stage[j] \in {"new", "again"} /\ FreeWorker
    /\ TurnDown(j) \/ process(j)

_process_discord_reply(j) == stage[j] = "queued" /\ FreeThread /\ process(j)

(* The one it waited for has ended: its row is there, and creating it      *)
(* again fails with an apology, or it is not.                              *)
get_or_create(j) ==
    /\ stage[j] = "blocked" /\ Holders(j) = {}
    /\ \/ /\ memory[ChatOf[j]] # << >>
          /\ Set(stage, j, "send") /\ Set(reply, j, "sorry")
       \/ /\ memory[ChatOf[j]] = << >>
          /\ Set(stage, j, "call") /\ UNCHANGED reply
    /\ UNCHANGED <<mcpVars, via, answers, told, runs, history, behind, memory>>
-----------------------------------------------------------------------------
(* The call over loopback HTTP                                             *)

Waiting(j) == stage[j] = "call" /\ answers[j] = 0

(* The model chooses any tool; when it cannot be asked, or its choice not  *)
(* be read, the choice is ask_ai, a tool as any other here.                *)
route == Tools

(* A free worker takes the request up.  One that is taken up when nobody   *)
(* waits for it any more is a call from outside.                           *)
Loopback(j, c) ==
    /\ Waiting(j) /\ FreeWorker
    /\ phase[c] = "idle"
    /\ \E t \in route : Begin(c, BotUser, t) \/ TurnAway(c, BotUser, t)
    /\ Set(answers, j, c)
    /\ UNCHANGED <<via, stage, reply, told, runs, history, behind, memory>>

(* An HTTP error, a JSON-RPC error and a lost connection all read as an    *)
(* error message.                                                          *)
TextOf(o) == IF o = "result" THEN "result" ELSE "error"

(* Mutant: a call counts as answered when its tool has run.                *)
ToolHasRun(j) ==
    answers[j] # 0 /\ phase[answers[j]] \in {"end", "answered"}

Answered(j) == answers[j] # 0 /\ phase[answers[j]] = "answered"

(* The answer is turned into a text, by ask_ai unless it is one already.   *)
call_tool(j) ==
    /\ stage[j] = "call" /\ Answered(j)
    /\ Set(reply, j, TextOf(outcome[answers[j]]))
    /\ Set(stage, j, "send")
    /\ UNCHANGED <<mcpVars, via, answers, told, runs, history, behind, memory>>

(* Mutant: the connector waits for ever.                                   *)
WaitOn(j) == FALSE /\ UNCHANGED vars

(* After 120 seconds the connector gives up; the call may still be made.   *)
Timeout(j) ==
    /\ stage[j] = "call" /\ ~Answered(j)
    /\ Set(reply, j, "timeout")
    /\ Set(stage, j, "send")
    /\ UNCHANGED <<mcpVars, via, answers, told, runs, history, behind, memory>>
-----------------------------------------------------------------------------
(* The answer                                                              *)

Tell(j, text) == told' = [told EXCEPT ![j] = @ \cup {text}]

(* The platform's API takes the reply or does not.                         *)
send_reply_telegram(j) == via[j] = "telegram" /\ (Tell(j, reply[j]) \/ UNCHANGED told)
send_reply_whatsapp(j) == via[j] = "whatsapp" /\ (Tell(j, reply[j]) \/ UNCHANGED told)

(* The others are answered when the transaction has ended.                 *)
send_reply(j) == via[j] \in {"web", "discord"} /\ UNCHANGED told

Reply(j) ==
    /\ stage[j] = "send"
    /\ Set(stage, j, "commit")
    /\ send_reply_telegram(j) \/ send_reply_whatsapp(j) \/ send_reply(j)
    /\ UNCHANGED <<mcpVars, via, answers, reply, runs, history, behind, memory>>

Followers(j) ==
    {i \in Jobs \ {j} : /\ ChatOf[i] = ChatOf[j]
                        /\ history[i] > 0
                        /\ stage[i] \in Active
                        /\ reply[i] # "hint"}

(* Mutant: the conversation's row is not written, and nothing clashes.     *)
AppendOnly(j) ==
    /\ memory' = [memory EXCEPT ![ChatOf[j]] = Append(@, j)]
    /\ UNCHANGED behind

(* Question and answer are added to the conversation, and its date set.    *)
add_message(j) ==
    /\ memory' = [memory EXCEPT ![ChatOf[j]] = Append(@, j)]
    /\ behind' = behind \cup Followers(j)

(* The transaction ends.  An apology is for a transaction that is dead     *)
(* already.  The HTTP response of a WhatsApp delivery is not looked at.    *)
EndJob(j) ==
    /\ stage[j] = "commit" /\ j \notin behind
    /\ IF reply[j] \in {"sorry", "hint"} THEN UNCHANGED <<memory, behind>> ELSE add_message(j)
    /\ IF via[j] = "whatsapp" THEN UNCHANGED told ELSE Tell(j, reply[j])
    /\ Leave(j, "done")

(* Another message of the conversation was remembered in the meantime.     *)
Rerun(j) ==
    /\ stage[j] = "commit" /\ j \in behind \ Discord
    /\ behind' = behind \ {j}
    /\ \/ /\ runs[j] < MaxTries
          /\ Set(stage, j, "again")
          /\ UNCHANGED <<mcpVars, via, answers, reply, runs, history>>
       \/ runs[j] = MaxTries /\ Leave(j, "done")
    /\ UNCHANGED <<told, memory>>

Apologize(j) ==
    /\ stage[j] = "commit" /\ j \in behind \cap Discord
    /\ behind' = behind \ {j}
    /\ Tell(j, "sorry") /\ Leave(j, "done")
    /\ UNCHANGED memory

(* The worker is killed, or the server restarted: the pool's queue is lost *)
(* with its threads.                                                       *)
Kill(j) ==
    /\ stage[j] \in Active \cup {"queued"}
    /\ Leave(j, "dead")
    /\ behind' = behind \ {j}
    /\ UNCHANGED <<told, memory>>
-----------------------------------------------------------------------------
Work(j) ==
    \/ discord(j) \/ _handle(j) \/ _process_discord_reply(j) \/ get_or_create(j)
    \/ (\E c \in Calls : Loopback(j, c)) \/ call_tool(j) \/ Timeout(j)
    \/ Reply(j) \/ EndJob(j) \/ Rerun(j) \/ Apologize(j)

ServeCall(c) == Serve(c) /\ (phase[c] = "again" => FreeWorker) /\ UNCHANGED bot

Outside ==
    \E c \in Calls :
        /\ (FreeWorker /\ Arrive(c)) \/ Crash(c) \/ BackOffice(c)
        /\ UNCHANGED bot

Next ==
    \/ \E j \in Jobs : Work(j) \/ Kill(j)
    \/ \E c \in Calls : ServeCall(c)
    \/ Outside

(* The server's own steps are fair: its threads are scheduled, a timeout   *)
(* runs out, a free worker takes up what waits.                            *)
Fairness ==
    /\ \A j \in Jobs : WF_vars(Work(j))
    /\ \A c \in Calls : WF_vars(ServeCall(c))

Spec == Init /\ [][Next]_vars /\ Fairness
-----------------------------------------------------------------------------
(* Properties                                                              *)

(* A conversation reads as if its messages had come one after the other:   *)
(* what was answered was answered from the conversation as it stands above *)
(* it, as far back as the model is shown it (get_recent_messages at the    *)
(* begin, add_message at the end).                                         *)
AnsweredInContext ==
    \A h \in Chats : \A i \in 1 .. Len(memory[h]) :
        memory[h][i] \in Jobs => history[memory[h][i]] = i - 1

(* A user who is shown the result of a tool can rely on it: the call is    *)
(* committed by then, with all of its work (call_tool, mcp_endpoint).      *)
ShownIsKept(j) ==
    "result" \in told'[j] \ told[j] => effect[answers[j]] = "all"

ResultsAreKept == [][\A j \in Jobs : ShownIsKept(j)]_vars

(* Every delivery the server takes up ends, also when the deliveries hold  *)
(* all the workers their own calls wait for (call_tool's timeout).         *)
EveryDeliveryEnds ==
    \A j \in Jobs : stage[j] \in Active \cup {"queued"} ~> stage[j] \in {"done", "dead"}
=============================================================================
