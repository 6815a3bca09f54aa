-------------------------- MODULE BotGatewayProofs --------------------------
(***************************************************************************)
(* The chat bots on the MCP endpoint, for every number of deliveries,      *)
(* conversations, workers, threads, calls and attempts.  A bot's step is a *)
(* step of the endpoint or does not touch it, so that what is proved of    *)
(* the endpoint holds under the bots; on top of that, a result that is     *)
(* shown is kept, and a conversation reads as it was answered.             *)
(***************************************************************************)
EXTENDS BotGateway, McpGatewayProofs

(* A bot asks the endpoint as any other client of its user does.           *)
LEMMA BotStepIsMcpStep == [Next]_vars => [McpNext]_mcpVars
<1> SUFFICES ASSUME [Next]_vars PROVE [McpNext]_mcpVars
  OBVIOUS
<1>1. ASSUME NEW j \in Jobs, NEW c \in Calls, Loopback(j, c) PROVE McpNext
  <2>1. PICK t \in Tools : Begin(c, BotUser, t) \/ TurnAway(c, BotUser, t)
    BY <1>1 DEF Loopback, route
  <2>2. phase[c] = "idle" /\ BotUser \in Users /\ t \in Tools \cup Clients
    BY <1>1, BotAssumption DEF Loopback
  <2>3. Arrive(c)
    BY <2>1, <2>2 DEF Arrive
  <2> QED
    BY <2>3 DEF McpNext
<1>2. ASSUME NEW j \in Jobs, discord(j) \/ _handle(j) \/ _process_discord_reply(j) PROVE UNCHANGED mcpVars
  BY <1>2 DEF discord, _handle, _process_discord_reply, TurnDown, Leave, process
<1>3. ASSUME NEW j \in Jobs, get_or_create(j) \/ call_tool(j) \/ Timeout(j) \/ Reply(j)
      PROVE  UNCHANGED mcpVars
  BY <1>3 DEF get_or_create, call_tool, Timeout, Reply
<1>4. ASSUME NEW j \in Jobs, EndJob(j) \/ Rerun(j) \/ Apologize(j) \/ Kill(j) PROVE UNCHANGED mcpVars
  BY <1>4 DEF EndJob, Rerun, Apologize, Kill, Leave
<1>5. ASSUME NEW c \in Calls, ServeCall(c) PROVE McpNext
  BY <1>5 DEF ServeCall, McpNext
<1>6. ASSUME Outside PROVE McpNext
  BY <1>6 DEF Outside, McpNext
<1>7. CASE UNCHANGED vars
  BY <1>7 DEF vars
<1> QED
  BY <1>1, <1>2, <1>3, <1>4, <1>5, <1>6, <1>7 DEF Next, Work

(* The bots implement the endpoint: consents, sessions and logs behave     *)
(* under their calls as under those of any client.                         *)
THEOREM BotsAreClients == Spec => McpSpec
<1>1. Init => McpInit
  BY DEF Init
<1> QED
  BY <1>1, BotStepIsMcpStep, PTL DEF Spec, McpSpec

(* Under the bots too every approval pays for one run, and twins come from *)
(* calls that overlapped.                                                  *)
COROLLARY BotsPayForRuns == Spec => OneRunPerGrant /\ TwinsOverlapped
BY BotsAreClients, ConsentIsSpent, TwinsOverlap, PTL
-----------------------------------------------------------------------------
(* Types                                                                   *)

(* A delivery is counted before it is begun again, and has a text when it  *)
(* is going to send one.                                                   *)
Counted ==
    \A j \in Jobs :
        /\ stage[j] \in {"new", "queued"} => runs[j] = 0
        /\ stage[j] = "again" => runs[j] < MaxTries
        /\ stage[j] \in {"send", "commit"} => reply[j] \in Texts

BotTypeInv == BotTypeOK /\ Counted

LEMMA BotTypeInit == Init => BotTypeInv
<1> SUFFICES ASSUME Init PROVE BotTypeInv
  OBVIOUS
<1>1. memory \in [Chats -> Seq(Jobs \cup {None})]
  <2>1. {<< >>, <<None>>} \subseteq Seq(Jobs \cup {None})
    OBVIOUS
  <2> QED
    BY <2>1 DEF Init, BotInit, NothingSaid
<1>2. /\ stage = [j \in Jobs |-> "new"] /\ answers = [j \in Jobs |-> 0]
      /\ reply = [j \in Jobs |-> "none"] /\ told = [j \in Jobs |-> {}]
      /\ runs = [j \in Jobs |-> 0] /\ history = [j \in Jobs |-> 0] /\ behind = {}
      /\ via \in [Jobs -> {"telegram", "whatsapp", "web", "discord"}]
  BY DEF Init, BotInit, NothingSaid
<1> QED
  BY <1>1, <1>2, MaxAssumption DEF BotTypeInv, BotTypeOK, Counted

LEMMA TellType ==
    ASSUME BotTypeInv, NEW j \in Jobs, NEW text \in Texts, Tell(j, text)
    PROVE  told' \in [Jobs -> SUBSET Texts]
<1>1. told \in [Jobs -> SUBSET Texts] /\ told[j] \cup {text} \in SUBSET Texts
  BY DEF BotTypeInv, BotTypeOK
<1> QED
  BY <1>1 DEF Tell

(* The end of a delivery's work, whatever its end.                         *)
LEMMA LeaveType ==
    ASSUME BotTypeInv, NEW j \in Jobs, NEW s \in {"done", "dead"}, Leave(j, s),
           told' \in [Jobs -> SUBSET Texts], behind' \in SUBSET Jobs,
           memory' \in [Chats -> Seq(Jobs \cup {None})]
    PROVE  BotTypeInv'
<1>1. /\ stage' = [stage EXCEPT ![j] = s] /\ reply' = [reply EXCEPT ![j] = "none"]
      /\ answers' = [answers EXCEPT ![j] = 0] /\ runs' = [runs EXCEPT ![j] = 0]
      /\ UNCHANGED <<via, history>>
  BY DEF Leave, Set
<1>2. s \in Active \cup {"new", "queued", "again", "done", "dead"} /\ 0 \in 0 .. MaxCalls /\ 0 \in 0 .. MaxTries
  BY MaxAssumption
<1>3. BotTypeOK'
  BY <1>1, <1>2 DEF BotTypeInv, BotTypeOK
<1>4. Counted'
  BY <1>1 DEF BotTypeInv, BotTypeOK, Counted
<1> QED
  BY <1>3, <1>4 DEF BotTypeInv

LEMMA ProcessType ==
    ASSUME BotTypeInv, NEW j \in Jobs, runs[j] < MaxTries, process(j)
    PROVE  BotTypeInv'
<1> USE MaxAssumption DEF BotTypeInv, BotTypeOK, Counted, Set
<1>1. memory[ChatOf[j]] \in Seq(Jobs \cup {None})
  BY ChatAssumption
<1>2. Len(memory[ChatOf[j]]) \in Nat /\ runs[j] + 1 \in 0 .. MaxTries
  BY <1>1
<1>3. /\ Set(runs, j, runs[j] + 1) /\ Set(history, j, Len(memory[ChatOf[j]])) /\ Set(answers, j, 0)
      /\ \E p \in {"send", "blocked", "call"}, t \in {"hint", "none"} :
            Set(stage, j, p) /\ Set(reply, j, t) /\ (p = "send" => t = "hint")
      /\ UNCHANGED <<via, told, behind, memory>>
  BY DEF process
<1>4. PICK p \in {"send", "blocked", "call"}, t \in {"hint", "none"} :
         Set(stage, j, p) /\ Set(reply, j, t) /\ (p = "send" => t = "hint")
  BY <1>3
<1>5. BotTypeOK'
  BY <1>2, <1>3, <1>4 DEF Active, Texts
<1>6. Counted'
  BY <1>3, <1>4 DEF Texts
<1> QED
  BY <1>5, <1>6

LEMMA BotTypeStep == BotTypeInv /\ [Next]_vars => BotTypeInv'
<1> SUFFICES ASSUME BotTypeInv, [Next]_vars PROVE BotTypeInv'
  OBVIOUS
<1>0. MaxTries \in Nat \ {0} /\ \A c \in Calls : c \in 0 .. MaxCalls
  BY MaxAssumption, RowsAreCalls
<1>1. ASSUME NEW j \in Jobs, TurnDown(j) PROVE BotTypeInv'
  BY <1>1, LeaveType DEF TurnDown, BotTypeInv, BotTypeOK
<1>2. ASSUME NEW j \in Jobs, discord(j) PROVE BotTypeInv'
  <2>1. CASE TurnDown(j)
    BY <1>1, <2>1
  <2>2. CASE ~TurnDown(j)
    BY <1>2, <2>2 DEF discord, Set, BotTypeInv, BotTypeOK, Counted
  <2> QED
    BY <2>1, <2>2
<1>3. ASSUME NEW j \in Jobs, _handle(j) \/ _process_discord_reply(j) PROVE BotTypeInv'
  <2>1. runs[j] < MaxTries
    BY <1>0, <1>3 DEF _handle, _process_discord_reply, BotTypeInv, Counted
  <2> QED
    BY <1>1, <1>3, <2>1, ProcessType DEF _handle, _process_discord_reply
<1>4. ASSUME NEW j \in Jobs, get_or_create(j) PROVE BotTypeInv'
  BY <1>4 DEF get_or_create, Set, BotTypeInv, BotTypeOK, Counted, Texts, Active
<1>5. ASSUME NEW j \in Jobs, NEW c \in Calls, Loopback(j, c) PROVE BotTypeInv'
  BY <1>0, <1>5 DEF Loopback, Set, BotTypeInv, BotTypeOK, Counted
<1>6. ASSUME NEW j \in Jobs, call_tool(j) \/ Timeout(j) PROVE BotTypeInv'
  <2>1. PICK t \in Texts : Set(reply, j, t) /\ Set(stage, j, "send")
                          /\ UNCHANGED <<via, answers, told, runs, history, behind, memory>>
    BY <1>6 DEF call_tool, Timeout, TextOf, Texts
  <2> QED
    BY <2>1 DEF Set, BotTypeInv, BotTypeOK, Counted, Active
<1>7. ASSUME NEW j \in Jobs, Reply(j) PROVE BotTypeInv'
  <2>1. reply[j] \in Texts
    BY <1>7 DEF Reply, BotTypeInv, Counted
  <2>2. told' \in [Jobs -> SUBSET Texts]
    BY <1>7, <2>1, TellType DEF Reply, send_reply_telegram, send_reply_whatsapp, send_reply,
                                BotTypeInv, BotTypeOK
  <2> QED
    BY <1>7, <2>2 DEF Reply, Set, BotTypeInv, BotTypeOK, Counted, Active
<1>8. ASSUME NEW j \in Jobs, EndJob(j) PROVE BotTypeInv'
  <2>1. reply[j] \in Texts /\ Leave(j, "done")
    BY <1>8 DEF EndJob, BotTypeInv, Counted
  <2>2. told' \in [Jobs -> SUBSET Texts]
    BY <1>8, <2>1, TellType DEF EndJob, BotTypeInv, BotTypeOK
  <2>3. Followers(j) \subseteq Jobs /\ ChatOf[j] \in Chats
    BY ChatAssumption DEF Followers
  <2>4. behind' \in SUBSET Jobs /\ memory' \in [Chats -> Seq(Jobs \cup {None})]
    <3>1. CASE UNCHANGED <<memory, behind>>
      BY <3>1 DEF BotTypeInv, BotTypeOK
    <3>2. CASE add_message(j)
      <4>1. memory[ChatOf[j]] \in Seq(Jobs \cup {None})
        BY <2>3 DEF BotTypeInv, BotTypeOK
      <4>2. Append(memory[ChatOf[j]], j) \in Seq(Jobs \cup {None})
        BY <4>1
      <4> QED
        BY <2>3, <3>2, <4>2 DEF add_message, BotTypeInv, BotTypeOK
    <3> QED
      BY <1>8, <3>1, <3>2 DEF EndJob
  <2> QED
    BY <2>1, <2>2, <2>4, LeaveType
<1>9. ASSUME NEW j \in Jobs, Rerun(j) PROVE BotTypeInv'
  <2>1. behind' \in SUBSET Jobs
    BY <1>9 DEF Rerun, BotTypeInv, BotTypeOK
  <2>2. CASE Leave(j, "done")
    BY <1>9, <2>1, <2>2, LeaveType DEF Rerun, BotTypeInv, BotTypeOK
  <2>3. CASE ~Leave(j, "done")
    BY <1>9, <2>1, <2>3 DEF Rerun, Set, BotTypeInv, BotTypeOK, Counted, Active
  <2> QED
    BY <2>2, <2>3
<1>10. ASSUME NEW j \in Jobs, Apologize(j) \/ Kill(j) PROVE BotTypeInv'
  <2>1. told' \in [Jobs -> SUBSET Texts] /\ behind' \in SUBSET Jobs /\ UNCHANGED memory
    BY <1>10, TellType DEF Apologize, Kill, Texts, BotTypeInv, BotTypeOK
  <2> QED
    BY <1>10, <2>1, LeaveType DEF Apologize, Kill, BotTypeInv, BotTypeOK
<1>11. CASE UNCHANGED bot
  BY <1>11 DEF bot, BotTypeInv, BotTypeOK, Counted
<1> QED
  BY <1>2, <1>3, <1>4, <1>5, <1>6, <1>7, <1>8, <1>9, <1>10, <1>11
     DEF Next, Work, ServeCall, Outside, vars

LEMMA BotTypeInvariant == Spec => []BotTypeInv
BY BotTypeInit, BotTypeStep, PTL DEF Spec

(* Deliveries, conversations and the endpoint below keep their types.      *)
THEOREM TypeCorrect == Spec => []TypeOK
<1>1. BotTypeInv => BotTypeOK
  BY DEF BotTypeInv
<1> QED
  BY <1>1, BotTypeInvariant, BotsAreClients, McpTypeCorrect, PTL DEF TypeOK
-----------------------------------------------------------------------------
(* Results                                                                 *)

(* The tool of an answered call has done what its answer says, and the     *)
(* commit has kept it.                                                     *)
WorkDone ==
    \A c \in Calls : what[c] \in Tools /\ outcome[c] = "result" =>
        /\ phase[c] = "end" => work[c] = "all"
        /\ phase[c] = "answered" => effect[c] = "all"
        /\ phase[c] \in {"end", "answered"}

(* The call a delivery waits for, or has waited for, is a tool's.          *)
Asked ==
    \A j \in Jobs : answers[j] # 0 => phase[answers[j]] # "idle" /\ what[answers[j]] \in Tools

(* A result that is going to be shown is that of an answered call.         *)
Backed ==
    \A j \in Jobs : stage[j] \in {"send", "commit"} /\ reply[j] = "result" =>
        /\ answers[j] # 0
        /\ phase[answers[j]] = "answered" /\ outcome[answers[j]] = "result"

KeptInv == TypeInv /\ BotTypeInv /\ WorkDone /\ Asked /\ Backed

LEMMA WorkDoneBegin ==
    ASSUME McpTypeOK, WorkDone, NEW c \in Calls, NEW u, NEW w, Begin(c, u, w)
    PROVE  /\ WorkDone' /\ phase'[c] # "idle" /\ what'[c] = w
           /\ \A d \in Calls \ {c} : phase'[d] = phase[d] /\ what'[d] = what[d] /\ outcome'[d] = outcome[d]
           /\ UNCHANGED effect
<1> USE DEF McpTypeOK, Set
<1>1. /\ Set(user, c, u) /\ Set(what, c, w) /\ UNCHANGED <<work, effect>>
      /\ _mcp_tools_call(c, u, w) \/ _mcp_initialize(c, u, w)
  BY DEF Begin, books
<1>2. \E p \in {"run", "end"}, o \in {"none", "refused", "result"} :
         Set(phase, c, p) /\ Set(outcome, c, o) /\ (o = "result" => w \notin Tools)
  BY <1>1, KindAssumption DEF _mcp_tools_call, _check_or_request_consent, _mcp_initialize
<1> QED
  BY <1>1, <1>2 DEF WorkDone

LEMMA WorkDoneStep == McpTypeOK /\ WorkDone /\ [McpNext]_mcpVars => WorkDone'
<1> SUFFICES ASSUME McpTypeOK, WorkDone, [McpNext]_mcpVars PROVE WorkDone'
  OBVIOUS
<1> USE DEF McpTypeOK, Set
<1>1. ASSUME NEW c \in Calls, Arrive(c) PROVE WorkDone'
  <2>1. ASSUME NEW u, NEW w, TurnAway(c, u, w) PROVE WorkDone'
    BY <2>1 DEF TurnAway, books, WorkDone
  <2> QED
    BY <1>1, <2>1, WorkDoneBegin DEF Arrive
<1>2. ASSUME NEW c \in Calls, Begin(c, user[c], what[c]) PROVE WorkDone'
  BY <1>2, WorkDoneBegin
<1>3. ASSUME NEW c \in Calls, execute(c) PROVE WorkDone'
  BY <1>3 DEF execute, request, books, WorkDone
<1>4. ASSUME NEW c \in Calls, ClashInTool(c) PROVE WorkDone'
  BY <1>4 DEF ClashInTool, request, books, WorkDone
<1>5. ASSUME NEW c \in Calls, Commit(c) PROVE WorkDone'
  BY <1>5 DEF Commit, WorkDone
<1>6. ASSUME NEW c \in Calls, Clash(c) PROVE WorkDone'
  BY <1>6 DEF Clash, books, WorkDone
<1>7. ASSUME NEW c \in Calls, ClashInLog(c) PROVE WorkDone'
  BY <1>7, KindAssumption DEF ClashInLog, books, WorkDone
<1>8. ASSUME NEW c \in Calls, Crash(c) PROVE WorkDone'
  BY <1>8 DEF Crash, books, WorkDone
<1>9. ASSUME NEW c \in Calls, BackOffice(c) PROVE WorkDone'
  BY <1>9 DEF BackOffice, action_grant, action_deny, Decide, terminate, request, WorkDone
<1>10. CASE UNCHANGED mcpVars
  BY <1>10 DEF mcpVars, request, books, WorkDone
<1> QED
  BY <1>1, <1>2, <1>3, <1>4, <1>5, <1>6, <1>7, <1>8, <1>9, <1>10 DEF McpNext, Serve

(* A call stays what it is, and an answer is final.                        *)
LEMMA AnswersAreFinal ==
    ASSUME McpTypeOK, WorkDone, [McpNext]_mcpVars, NEW c \in Calls
    PROVE  /\ phase[c] # "idle" => phase'[c] # "idle" /\ what'[c] = what[c]
           /\ phase[c] = "answered" => phase'[c] = "answered" /\ outcome'[c] = outcome[c]
<1> DEFINE Goal == /\ phase[c] # "idle" => phase'[c] # "idle" /\ what'[c] = what[c]
                   /\ phase[c] = "answered" => phase'[c] = "answered" /\ outcome'[c] = outcome[c]
<1> USE DEF McpTypeOK, Set
<1>1. ASSUME NEW d \in Calls, Arrive(d) PROVE Goal
  <2>1. ASSUME NEW u, NEW w, phase[d] = "idle", Begin(d, u, w) PROVE Goal
    BY <2>1, WorkDoneBegin
  <2>2. ASSUME NEW u, NEW w, phase[d] = "idle", TurnAway(d, u, w) PROVE Goal
    BY <2>2 DEF TurnAway
  <2> QED
    BY <1>1, <2>1, <2>2 DEF Arrive
<1>2. ASSUME NEW d \in Calls, phase[d] = "again", Begin(d, user[d], what[d]) PROVE Goal
  <2>1. PICK u, w : u = user[d] /\ w = what[d] /\ Begin(d, u, w)
    BY <1>2 DEF Begin, _mcp_tools_call, _check_or_request_consent, _mcp_initialize
  <2> QED
    BY <1>2, <2>1, WorkDoneBegin
<1>3. ASSUME NEW d \in Calls, execute(d) \/ ClashInTool(d) PROVE Goal
  BY <1>3 DEF execute, ClashInTool, request
<1>4. ASSUME NEW d \in Calls, Commit(d) PROVE Goal
  BY <1>4 DEF Commit
<1>5. ASSUME NEW d \in Calls, Clash(d) \/ ClashInLog(d) PROVE Goal
  BY <1>5 DEF Clash, ClashInLog
<1>6. ASSUME NEW d \in Calls, Crash(d) PROVE Goal
  BY <1>6 DEF Crash, Open
<1>7. ASSUME NEW d \in Calls, BackOffice(d) PROVE Goal
  BY <1>7 DEF BackOffice, action_grant, action_deny, Decide, terminate, request
<1>8. CASE UNCHANGED mcpVars
  BY <1>8 DEF mcpVars, request
<1> QED
  BY <1>1, <1>2, <1>3, <1>4, <1>5, <1>6, <1>7, <1>8 DEF McpNext, Serve

(* What a step of delivery j leaves of the others, and of itself: a text   *)
(* is the one it had or that of the answer, a question is a tool's.        *)
JobStep(j) ==
    /\ \A i \in Jobs \ {j} : /\ stage'[i] = stage[i] /\ reply'[i] = reply[i]
                            /\ answers'[i] = answers[i]
    /\ \/ answers'[j] = 0 \/ answers'[j] = answers[j]
       \/ stage[j] = "call" /\ answers'[j] \in Calls /\ phase'[answers'[j]] # "idle"
          /\ what'[answers'[j]] \in Tools
    /\ stage'[j] \in {"send", "commit"} /\ reply'[j] = "result" =>
          /\ answers'[j] = answers[j]
          /\ \/ stage[j] \in {"send", "commit"} /\ reply[j] = "result"
             \/ Answered(j) /\ outcome[answers[j]] = "result"

LEMMA JobSteps ==
    ASSUME BotTypeInv, McpTypeOK, WorkDone, NEW j \in Jobs, Work(j) \/ Kill(j)
    PROVE  JobStep(j)
<1> USE DEF BotTypeInv, BotTypeOK, Set, JobStep
<1>1. ASSUME NEW s, Leave(j, s), s \in {"done", "dead"} PROVE JobStep(j)
  BY <1>1 DEF Leave
<1>2. ASSUME process(j) PROVE JobStep(j)
  BY <1>2 DEF process
<1>3. CASE discord(j)
  BY <1>1, <1>3 DEF discord, TurnDown
<1>4. CASE _handle(j) \/ _process_discord_reply(j)
  BY <1>1, <1>2, <1>4 DEF _handle, _process_discord_reply, TurnDown
<1>5. CASE get_or_create(j)
  BY <1>5 DEF get_or_create
<1>6. ASSUME NEW c \in Calls, Loopback(j, c) PROVE JobStep(j)
  <2>1. PICK t \in Tools : Begin(c, BotUser, t) \/ TurnAway(c, BotUser, t)
    BY <1>6 DEF Loopback, route
  <2>2. phase'[c] # "idle" /\ what'[c] = t
    BY <2>1, WorkDoneBegin DEF TurnAway, McpTypeOK
  <2>3. answers' = [answers EXCEPT ![j] = c] /\ stage[j] = "call" /\ UNCHANGED <<stage, reply>>
    BY <1>6 DEF Loopback, Waiting
  <2> QED
    BY <2>2, <2>3
<1>7. CASE call_tool(j)
  BY <1>7 DEF call_tool, TextOf
<1>8. CASE Timeout(j)
  BY <1>8 DEF Timeout
<1>9. CASE Reply(j)
  BY <1>9 DEF Reply
<1>10. CASE EndJob(j) \/ Apologize(j) \/ Kill(j)
  BY <1>1, <1>10 DEF EndJob, Apologize, Kill
<1>11. CASE Rerun(j)
  BY <1>1, <1>11 DEF Rerun
<1> QED
  BY <1>3, <1>4, <1>5, <1>6, <1>7, <1>8, <1>9, <1>10, <1>11 DEF Work

LEMMA KeptStep == KeptInv /\ [Next]_vars => KeptInv'
<1> SUFFICES ASSUME KeptInv, [Next]_vars PROVE KeptInv'
  OBVIOUS
<1>0. [McpNext]_mcpVars /\ McpTypeOK
  BY BotStepIsMcpStep DEF KeptInv, TypeInv
<1>1. BotTypeInv /\ McpTypeOK /\ WorkDone /\ [McpNext]_mcpVars /\ BotTypeInv' /\ WorkDone' /\ TypeInv'
  BY <1>0, BotTypeStep, McpTypeStep, WorkDoneStep DEF KeptInv
<1>2. ASSUME NEW c \in Calls
      PROVE  /\ phase[c] # "idle" => phase'[c] # "idle" /\ what'[c] = what[c]
             /\ phase[c] = "answered" => phase'[c] = "answered" /\ outcome'[c] = outcome[c]
  BY <1>1, AnswersAreFinal
<1>3. \A j \in Jobs : answers[j] # 0 => answers[j] \in Calls
  BY <1>1, MaxAssumption DEF BotTypeInv, BotTypeOK, Calls
<1>4. ASSUME NEW j \in Jobs, JobStep(j) PROVE Asked' /\ Backed'
  <2>1. Asked'
    BY <1>2, <1>3, <1>4 DEF KeptInv, Asked, JobStep
  <2>2. Backed'
    BY <1>2, <1>3, <1>4 DEF KeptInv, Backed, JobStep, Answered
  <2> QED
    BY <2>1, <2>2
<1>5. ASSUME UNCHANGED bot PROVE Asked' /\ Backed'
  BY <1>2, <1>3, <1>5 DEF KeptInv, Asked, Backed, bot
<1>6. Asked' /\ Backed'
  BY <1>1, <1>4, <1>5, JobSteps DEF Next, ServeCall, Outside, vars
<1> QED
  BY <1>1, <1>6 DEF KeptInv

(* Only the text a delivery has is told, or an apology.                    *)
LEMMA ToldIsReply ==
    ASSUME BotTypeInv, [Next]_vars, NEW j \in Jobs, "result" \in told'[j] \ told[j]
    PROVE  stage[j] \in {"send", "commit"} /\ reply[j] = "result"
<1> DEFINE Goal == stage[j] \in {"send", "commit"} /\ reply[j] = "result"
<1>1. told \in [Jobs -> SUBSET Texts]
  BY DEF BotTypeInv, BotTypeOK
<1>2. told' # told
  OBVIOUS
<1>3. ASSUME NEW i \in Jobs, NEW text, Tell(i, text) PROVE i = j /\ text = "result"
  BY <1>1, <1>3 DEF Tell
<1>4. ASSUME NEW i \in Jobs, Reply(i) PROVE Goal
  <2>1. Tell(i, reply[i]) /\ stage[i] = "send"
    BY <1>2, <1>4 DEF Reply, send_reply_telegram, send_reply_whatsapp, send_reply
  <2> QED
    BY <1>3, <2>1
<1>5. ASSUME NEW i \in Jobs, EndJob(i) PROVE Goal
  <2>1. Tell(i, reply[i]) /\ stage[i] = "commit"
    BY <1>2, <1>5 DEF EndJob
  <2> QED
    BY <1>3, <2>1
<1>6. ASSUME NEW i \in Jobs PROVE ~Apologize(i)
  BY <1>3 DEF Apologize
<1>7. ASSUME NEW i \in Jobs, Work(i) \/ Kill(i), ~Reply(i), ~EndJob(i) PROVE told' = told
  BY <1>6, <1>7 DEF Work, Kill, discord, TurnDown, _handle, _process_discord_reply, process,
                    get_or_create, Loopback, call_tool, Timeout, Rerun
<1>8. ASSUME UNCHANGED bot PROVE told' = told
  BY <1>8 DEF bot
<1> QED
  BY <1>2, <1>4, <1>5, <1>7, <1>8 DEF Next, ServeCall, Outside, vars

LEMMA KeptShown == KeptInv /\ [Next]_vars => \A j \in Jobs : ShownIsKept(j)
<1> SUFFICES ASSUME KeptInv, [Next]_vars, NEW j \in Jobs, "result" \in told'[j] \ told[j]
             PROVE  effect[answers[j]] = "all"
  BY DEF ShownIsKept
<1>1. /\ answers[j] # 0 /\ phase[answers[j]] = "answered" /\ outcome[answers[j]] = "result"
      /\ what[answers[j]] \in Tools
  BY ToldIsReply DEF KeptInv, Backed, Asked
<1>2. answers[j] \in Calls
  BY <1>1, MaxAssumption DEF KeptInv, BotTypeInv, BotTypeOK, Calls
<1> QED
  BY <1>1, <1>2 DEF KeptInv, WorkDone

(* Whatever times out, clashes, is run again or is killed: a user who is   *)
(* shown the result of a tool is shown one that is committed and complete. *)
THEOREM ShownResultsAreKept == Spec => ResultsAreKept
<1>1. Init => KeptInv
  <2>1. Init => /\ BotTypeInv /\ TypeInv
    BY BotTypeInit, MaxAssumption DEF Init, McpInit, NoTraces, TypeInv, McpTypeOK, TriesLeft
  <2>2. Init => WorkDone
    BY DEF Init, McpInit, WorkDone
  <2>3. Init => Asked /\ Backed
    BY DEF Init, BotInit, NothingSaid, Asked, Backed
  <2> QED
    BY <2>1, <2>2, <2>3 DEF KeptInv
<1> QED
  BY <1>1, KeptStep, KeptShown, PTL DEF Spec, ResultsAreKept
-----------------------------------------------------------------------------
(* Conversations                                                           *)

(* What is remembered was said by a delivery that is over.                 *)
Remembered ==
    \A h \in Chats : \A i \in 1 .. Len(memory[h]) :
        memory[h][i] \in Jobs => stage[memory[h][i]] = "done"

(* A delivery that is going to be remembered, and was not overtaken, has   *)
(* read the conversation as it stands.                                     *)
Writing(j) == stage[j] \in Active \ {"blocked"} /\ reply[j] \notin {"hint", "sorry"}

UpToDate ==
    \A j \in Jobs : Writing(j) /\ j \notin behind => history[j] = Len(memory[ChatOf[j]])

(* One delivery at a time creates a conversation; the others wait.         *)
OneCreates ==
    \A i, j \in Jobs :
        i # j /\ ChatOf[i] = ChatOf[j] /\ Writing(i) /\ Writing(j) => history[i] > 0 \/ history[j] > 0

BlockedFirst ==
    \A j \in Jobs :
        /\ stage[j] = "blocked" => history[j] = 0
        /\ stage[j] \in {"blocked", "call"} => reply[j] = "none"

ContextInv == BotTypeInv /\ Remembered /\ UpToDate /\ OneCreates /\ BlockedFirst /\ AnsweredInContext

(* A step of delivery j that adds nothing to a conversation: if j is going *)
(* to, it was before or has just read the conversation, and no other one   *)
(* creates it.                                                             *)
Quiet(j) ==
    /\ UNCHANGED memory /\ stage[j] # "done"
    /\ \A i \in Jobs \ {j} : /\ stage'[i] = stage[i] /\ reply'[i] = reply[i]
                            /\ history'[i] = history[i]
    /\ \/ behind' = behind
       \/ behind' = behind \ {j} /\ stage'[j] \notin Active
    /\ Writing(j)' =>
          \/ Writing(j) /\ history'[j] = history[j]
          \/ /\ history'[j] = Len(memory[ChatOf[j]])
             /\ history'[j] = 0 => Holders(j) = {}
    /\ stage'[j] = "blocked" => history'[j] = 0
    /\ stage'[j] \in {"blocked", "call"} => reply'[j] = "none"

LEMMA QuietSteps ==
    ASSUME ContextInv, NEW j \in Jobs, Work(j) \/ Kill(j)
    PROVE  Quiet(j) \/ (EndJob(j) /\ add_message(j))
<1> USE DEF ContextInv, BotTypeInv, BotTypeOK, Set
<1>0. memory[ChatOf[j]] \in Seq(Jobs \cup {None})
  BY ChatAssumption
<1>1. ASSUME NEW s \in {"done", "dead"}, Leave(j, s), UNCHANGED memory, stage[j] # "done",
             behind' = behind \/ behind' = behind \ {j}
      PROVE  Quiet(j)
  <2>1. /\ stage'[j] = s /\ UNCHANGED history
        /\ \A i \in Jobs \ {j} : stage'[i] = stage[i] /\ reply'[i] = reply[i]
    BY <1>1 DEF Leave
  <2> QED
    BY <1>1, <2>1 DEF Quiet, Writing, Active
<1>2. ASSUME process(j), stage[j] # "done" PROVE Quiet(j)
  <2>1. /\ history'[j] = Len(memory[ChatOf[j]]) /\ UNCHANGED <<behind, memory>>
        /\ \A i \in Jobs \ {j} : stage'[i] = stage[i] /\ reply'[i] = reply[i] /\ history'[i] = history[i]
    BY <1>2 DEF process
  <2>2. \/ stage'[j] = "send" /\ reply'[j] = "hint"
        \/ stage'[j] = "blocked" /\ reply'[j] = "none" /\ memory[ChatOf[j]] = << >>
        \/ stage'[j] = "call" /\ reply'[j] = "none" /\ (memory[ChatOf[j]] = << >> => Holders(j) = {})
    BY <1>2 DEF process
  <2>3. memory[ChatOf[j]] = << >> <=> Len(memory[ChatOf[j]]) = 0
    BY <1>0
  <2> QED
    BY <1>2, <2>1, <2>2, <2>3 DEF Quiet, Writing
<1>3. CASE discord(j)
  <2>1. CASE TurnDown(j)
    BY <1>1, <1>3, <2>1 DEF discord, TurnDown
  <2>2. CASE ~TurnDown(j)
    BY <1>3, <2>2 DEF discord, Quiet, Writing, Active
  <2> QED
    BY <2>1, <2>2
<1>4. CASE _handle(j) \/ _process_discord_reply(j)
  BY <1>1, <1>2, <1>4 DEF _handle, _process_discord_reply, TurnDown
<1>5. CASE get_or_create(j)
  <2>1. /\ history[j] = 0 /\ reply[j] = "none" /\ stage[j] = "blocked" /\ Holders(j) = {}
        /\ UNCHANGED <<history, behind, memory>>
        /\ \A i \in Jobs \ {j} : stage'[i] = stage[i] /\ reply'[i] = reply[i]
    BY <1>5 DEF get_or_create, BlockedFirst
  <2>2. \/ stage'[j] = "send" /\ reply'[j] = "sorry"
        \/ stage'[j] = "call" /\ reply'[j] = "none" /\ memory[ChatOf[j]] = << >>
    BY <1>5, <2>1 DEF get_or_create
  <2> QED
    BY <2>1, <2>2 DEF Quiet, Writing
<1>6. ASSUME NEW c \in Calls, Loopback(j, c) PROVE Quiet(j)
  BY <1>6 DEF Loopback, Waiting, Quiet, Writing, BlockedFirst
<1>7. CASE call_tool(j) \/ Timeout(j)
  <2>1. /\ stage[j] = "call" /\ stage'[j] = "send" /\ UNCHANGED <<history, behind, memory>>
        /\ \A i \in Jobs \ {j} : stage'[i] = stage[i] /\ reply'[i] = reply[i]
    BY <1>7 DEF call_tool, Timeout
  <2>2. Writing(j)
    BY <2>1 DEF Writing, Active, BlockedFirst
  <2> QED
    BY <2>1, <2>2 DEF Quiet
<1>8. CASE Reply(j)
  BY <1>8 DEF Reply, Quiet, Writing, Active
<1>9. CASE EndJob(j)
  <2>1. CASE add_message(j)
    BY <1>9, <2>1
  <2>2. CASE UNCHANGED <<memory, behind>>
    BY <1>1, <1>9, <2>2 DEF EndJob
  <2> QED
    BY <1>9, <2>1, <2>2 DEF EndJob
<1>10. CASE Apologize(j) \/ Kill(j)
  BY <1>1, <1>10 DEF Apologize, Kill, Active
<1>11. CASE Rerun(j)
  <2>1. CASE Leave(j, "done")
    BY <1>1, <1>11, <2>1 DEF Rerun
  <2>2. CASE ~Leave(j, "done")
    BY <1>11, <2>2 DEF Rerun, Quiet, Writing, Active
  <2> QED
    BY <2>1, <2>2
<1> QED
  BY <1>3, <1>4, <1>5, <1>6, <1>7, <1>8, <1>9, <1>10, <1>11 DEF Work


LEMMA QuietKeeps ==
    ASSUME ContextInv, BotTypeInv', NEW j \in Jobs, Quiet(j) PROVE ContextInv'
<1> USE DEF ContextInv, Quiet
<1>1. memory' = memory /\ stage[j] # "done"
  OBVIOUS
<1>2. ASSUME NEW h \in Chats, NEW i \in 1 .. Len(memory[h]), memory[h][i] \in Jobs
      PROVE  stage'[memory[h][i]] = "done" /\ history'[memory[h][i]] = i - 1
  <2>1. stage[memory[h][i]] = "done" /\ history[memory[h][i]] = i - 1
    BY <1>2 DEF Remembered, AnsweredInContext
  <2> QED
    BY <1>1, <1>2, <2>1
<1>3. Remembered' /\ AnsweredInContext'
  BY <1>1, <1>2 DEF Remembered, AnsweredInContext
<1>4. \A i \in Jobs \ {j} : Writing(i)' <=> Writing(i)
  BY DEF Writing
<1>5. ASSUME NEW i \in Jobs, Writing(i)', i \notin behind' PROVE history'[i] = Len(memory[ChatOf[i]])
  <2>1. CASE i # j
    <3>1. Writing(i) /\ i \notin behind /\ history'[i] = history[i]
      BY <1>4, <1>5, <2>1
    <3> QED
      BY <3>1 DEF UpToDate
  <2>2. CASE i = j
    BY <1>5, <2>2 DEF UpToDate, Writing
  <2> QED
    BY <2>1, <2>2
<1>6. UpToDate'
  BY <1>1, <1>5 DEF UpToDate
<1>7. ASSUME NEW i \in Jobs, i # j, ChatOf[i] = ChatOf[j], Writing(i)', Writing(j)',
             history'[i] = 0, history'[j] = 0
      PROVE  FALSE
  <2>1. Writing(i) /\ history[i] = 0
    BY <1>4, <1>7
  <2>2. i \in Holders(j)
    BY <1>7, <2>1 DEF Writing, Holders
  <2>3. Writing(j) /\ history[j] = 0
    BY <1>7, <2>2
  <2> QED
    BY <1>7, <2>1, <2>3 DEF OneCreates
<1>8. \A i \in Jobs : history'[i] \in Nat
  BY DEF BotTypeInv, BotTypeOK
<1>9. OneCreates'
  <2> SUFFICES ASSUME NEW i \in Jobs, NEW k \in Jobs, i # k, ChatOf[i] = ChatOf[k],
                      Writing(i)', Writing(k)', history'[i] = 0, history'[k] = 0
               PROVE  FALSE
    BY <1>8 DEF OneCreates
  <2>1. CASE i = j
    BY <1>7, <2>1
  <2>2. CASE k = j
    BY <1>7, <2>2
  <2>3. CASE i # j /\ k # j
    BY <1>4, <2>3 DEF OneCreates
  <2> QED
    BY <2>1, <2>2, <2>3
<1>10. BlockedFirst'
  BY DEF BlockedFirst
<1> QED
  BY <1>3, <1>6, <1>9, <1>10

(* A delivery that was not overtaken is remembered right below what it     *)
(* read; those that read it with it are overtaken now.                     *)
LEMMA RememberKeeps ==
    ASSUME ContextInv, BotTypeInv', NEW j \in Jobs, EndJob(j), add_message(j),
           reply[j] \notin {"sorry", "hint"}
    PROVE  ContextInv'
<1> DEFINE h == ChatOf[j]
<1>1. /\ h \in Chats /\ memory \in [Chats -> Seq(Jobs \cup {None})] /\ memory[h] \in Seq(Jobs \cup {None})
      /\ history \in [Jobs -> Nat] /\ stage' = [stage EXCEPT ![j] = "done"]
      /\ reply' = [reply EXCEPT ![j] = "none"] /\ history' = history
      /\ DOMAIN stage = Jobs /\ DOMAIN reply = Jobs
  BY ChatAssumption DEF ContextInv, BotTypeInv, BotTypeOK, EndJob, Leave, Set
<1>2. memory' = [memory EXCEPT ![h] = Append(@, j)] /\ behind' = behind \cup Followers(j)
  BY DEF add_message
<1> HIDE DEF h
<1>3. /\ Len(memory'[h]) = Len(memory[h]) + 1 /\ Len(memory[h]) \in Nat
      /\ memory'[h][Len(memory[h]) + 1] = j
      /\ \A i \in 1 .. Len(memory[h]) : memory'[h][i] = memory[h][i]
      /\ \A g \in Chats \ {h} : memory'[g] = memory[g]
  <2>1. memory'[h] = Append(memory[h], j) /\ \A g \in Chats \ {h} : memory'[g] = memory[g]
    BY <1>1, <1>2
  <2> QED
    BY <1>1, <2>1
<1>4. Writing(j) /\ history[j] = Len(memory[h])
  BY DEF EndJob, Writing, Active, ContextInv, UpToDate, h
<1>5. ASSUME NEW g \in Chats, NEW i \in 1 .. Len(memory'[g]), memory'[g][i] \in Jobs
      PROVE  stage'[memory'[g][i]] = "done" /\ history'[memory'[g][i]] = i - 1
  <2>1. CASE g = h /\ i = Len(memory[h]) + 1
    BY <1>1, <1>3, <1>4, <2>1
  <2>2. CASE ~(g = h /\ i = Len(memory[h]) + 1)
    <3>1. i \in 1 .. Len(memory[g]) /\ memory'[g][i] = memory[g][i]
      BY <1>3, <2>2
    <3>2. stage[memory[g][i]] = "done" /\ history[memory[g][i]] = i - 1
      BY <1>5, <3>1 DEF ContextInv, Remembered, AnsweredInContext
    <3> QED
      BY <1>1, <1>5, <3>1, <3>2
  <2> QED
    BY <2>1, <2>2
<1>6. Remembered' /\ AnsweredInContext'
  BY <1>5 DEF Remembered, AnsweredInContext
<1>7. ~Writing(j)' /\ \A i \in Jobs \ {j} : Writing(i)' <=> Writing(i)
  BY <1>1 DEF Writing, Active
<1>8. ASSUME NEW i \in Jobs, Writing(i)', i \notin behind' PROVE history'[i] = Len(memory'[ChatOf[i]])
  <2>1. i # j /\ Writing(i) /\ i \notin behind
    BY <1>2, <1>7, <1>8
  <2>2. history[i] = Len(memory[ChatOf[i]])
    BY <2>1 DEF ContextInv, UpToDate
  <2>3. CASE ChatOf[i] # h
    BY <1>1, <1>3, <2>2, <2>3, ChatAssumption
  <2>4. CASE ChatOf[i] = h
    <3>1. i \notin Followers(j)
      BY <1>2, <1>8
    <3>2. history[i] = 0
      BY <1>1, <2>1, <2>4, <3>1 DEF Followers, Writing, h
    <3>3. history[j] = 0
      BY <1>4, <2>2, <2>4, <3>2
    <3> QED
      BY <1>4, <2>1, <2>4, <3>2, <3>3 DEF ContextInv, OneCreates, h
  <2> QED
    BY <2>3, <2>4
<1>9. UpToDate'
  BY <1>8 DEF UpToDate
<1>10. OneCreates'
  BY <1>1, <1>7 DEF ContextInv, OneCreates
<1>11. BlockedFirst'
  BY <1>1 DEF ContextInv, BlockedFirst
<1> QED
  BY <1>6, <1>9, <1>10, <1>11 DEF ContextInv

LEMMA ContextStep == ContextInv /\ [Next]_vars => ContextInv'
<1> SUFFICES ASSUME ContextInv, [Next]_vars PROVE ContextInv'
  OBVIOUS
<1>1. BotTypeInv'
  BY BotTypeStep DEF ContextInv
<1>2. ASSUME NEW j \in Jobs, EndJob(j), add_message(j) PROVE Quiet(j) \/ reply[j] \notin {"sorry", "hint"}
  <2>1. ASSUME reply[j] \in {"sorry", "hint"} PROVE FALSE
    <3>1. memory' = memory /\ memory' = [memory EXCEPT ![ChatOf[j]] = Append(@, j)]
      BY <1>2, <2>1 DEF EndJob, add_message
    <3>2. memory[ChatOf[j]] \in Seq(Jobs \cup {None}) /\ memory[ChatOf[j]] = Append(memory[ChatOf[j]], j)
      BY <3>1, ChatAssumption DEF ContextInv, BotTypeInv, BotTypeOK
    <3>3. Len(memory[ChatOf[j]]) = Len(memory[ChatOf[j]]) + 1 /\ Len(memory[ChatOf[j]]) \in Nat
      BY <3>2
    <3> QED
      BY <3>3
  <2> QED
    BY <2>1
<1>3. ASSUME NEW j \in Jobs, Work(j) \/ Kill(j) PROVE ContextInv'
  BY <1>1, <1>2, <1>3, QuietSteps, QuietKeeps, RememberKeeps
<1>4. CASE UNCHANGED bot
  BY <1>4 DEF bot, ContextInv, BotTypeInv, BotTypeOK, Counted, Remembered, UpToDate, Writing,
              OneCreates, BlockedFirst, AnsweredInContext
<1> QED
  BY <1>3, <1>4 DEF Next, ServeCall, Outside, vars

(* Deliveries of one conversation run side by side, wait for each other,   *)
(* are run again or killed: what is remembered still reads as if each had  *)
(* been answered after the one above it.                                   *)
THEOREM ConversationsReadInOrder == Spec => []AnsweredInContext
<1>1. ASSUME Init PROVE ContextInv
  <2>1. /\ stage = [j \in Jobs |-> "new"] /\ history = [j \in Jobs |-> 0]
        /\ \A h \in Chats : memory[h] = << >> \/ memory[h] = <<None>>
    BY <1>1 DEF Init, BotInit, NothingSaid
  <2>2. \A h \in Chats : \A i \in 1 .. Len(memory[h]) : memory[h][i] = None
    BY <2>1
  <2>3. Remembered /\ AnsweredInContext
    BY <2>2, JobAssumption DEF Remembered, AnsweredInContext
  <2>4. UpToDate /\ OneCreates /\ BlockedFirst
    BY <2>1 DEF UpToDate, OneCreates, BlockedFirst, Writing, Active
  <2> QED
    BY <1>1, <2>3, <2>4, BotTypeInit DEF ContextInv
<1>2. ContextInv => AnsweredInContext
  BY DEF ContextInv
<1> QED
  BY <1>1, <1>2, ContextStep, PTL DEF Spec
=============================================================================
