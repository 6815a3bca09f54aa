-------------------------- MODULE McpGatewayProofs --------------------------
(***************************************************************************)
(* The MCP endpoint for every number of calls, users, tools, clients and   *)
(* attempts: its variables keep their types, it implements the ledger of   *)
(* consents, and twins come from calls that overlapped.                    *)
(***************************************************************************)
EXTENDS McpGateway, TLAPS

(* The row a call may rewrite.                                             *)
LEMMA RowsAreCalls == 0 \in 0 .. MaxCalls /\ Calls \subseteq 0 .. MaxCalls /\ 0 \notin Calls
BY MaxAssumption DEF Calls

(* A call is counted before it is begun again.                             *)
TriesLeft ==
    \A c \in Calls :
        /\ phase[c] = "idle" => tries[c] = 0
        /\ phase[c] = "again" => tries[c] < MaxTries

TypeInv == McpTypeOK /\ TriesLeft

LEMMA TypeBegin ==
    ASSUME TypeInv, NEW c \in Calls, NEW u \in Users \cup {None},
           NEW w \in Tools \cup Clients \cup {None},
           Begin(c, u, w)
    PROVE  TypeInv'
<1> USE MaxAssumption DEF TypeInv, McpTypeOK, TriesLeft
<1>1. /\ Set(user, c, u) /\ Set(what, c, w) /\ Set(tries, c, tries[c] + 1)
      /\ Set(seen, c, Rows)
      /\ UNCHANGED <<work, stale, books>> /\ _log_mcp_call(c, outcome'[c])
  BY DEF Begin
<1>0. tries[c] + 1 \in 0 .. MaxTries
  BY DEF Begin, IsNext
<1>2. Rows \in SUBSET Calls
  BY DEF Rows
<1>3. \E r \in 0 .. MaxCalls, p \in {"run", "end"}, o \in {"none", "refused", "result"} :
          Set(row, c, r) /\ Set(phase, c, p) /\ Set(outcome, c, o)
  BY RowsAreCalls DEF Begin, _mcp_tools_call, _check_or_request_consent, _mcp_initialize, Consents,
         Sessions, SessionsOf
<1>4. log' \in [Calls -> SUBSET {"success", "error"}]
  <2>1. \A o \in {"none", "refused", "result"} :
           (CASE o = "refused" -> {"error"} [] o = "result" -> {"success"} [] OTHER -> {})
              \in SUBSET {"success", "error"}
    OBVIOUS
  <2>2. outcome'[c] \in {"none", "refused", "result"}
    BY <1>3 DEF Set
  <2> QED
    BY <1>1, <2>1, <2>2 DEF _log_mcp_call
<1>5. /\ Set(user, c, u) /\ Set(what, c, w) /\ Set(tries, c, tries[c] + 1)
      /\ Set(seen, c, Rows) /\ UNCHANGED <<work, stale, books>>
  BY <1>1
<1> QED
  BY <1>0, <1>2, <1>3, <1>4, <1>5 DEF Set, books

LEMMA McpTypeStep == TypeInv /\ [McpNext]_mcpVars => TypeInv'
<1> SUFFICES ASSUME TypeInv, [McpNext]_mcpVars PROVE TypeInv'
  OBVIOUS
<1> USE MaxAssumption, RowsAreCalls DEF TypeInv, McpTypeOK, TriesLeft, Set
<1>1. ASSUME NEW c \in Calls, Arrive(c) PROVE TypeInv'
  <2>1. PICK u \in Users, w \in Tools \cup Clients :
           phase[c] = "idle" /\ (Begin(c, u, w) \/ TurnAway(c, u, w))
    BY <1>1 DEF Arrive
  <2>2. CASE Begin(c, u, w)
    BY <2>2, TypeBegin
  <2>3. CASE TurnAway(c, u, w)
    BY <2>3 DEF TurnAway, books
  <2> QED
    BY <2>1, <2>2, <2>3
<1>2. ASSUME NEW c \in Calls, phase[c] = "again", Begin(c, user[c], what[c]) PROVE TypeInv'
  BY <1>2, TypeBegin
<1>3. ASSUME NEW c \in Calls, execute(c) PROVE TypeInv'
  BY <1>3 DEF execute, _write_execution_log, request, books
<1>4. ASSUME NEW c \in Calls, ClashInTool(c) PROVE TypeInv'
  BY <1>4 DEF ClashInTool, _write_execution_log, request, books
<1>5. ASSUME NEW c \in Calls, Commit(c) PROVE TypeInv'
  <2>1. /\ Set(effect, c, work[c]) /\ Set(work, c, "none") /\ Set(row, c, 0) /\ Set(seen, c, {})
        /\ Set(phase, c, "answered") /\ UNCHANGED <<user, what, tries, outcome, log>>
    BY <1>5 DEF Commit
  <2>2. CASE UNCHANGED <<consent, session, spent, stale>>
    BY <2>1, <2>2
  <2>3. CASE row[c] # 0 /\ WriteRow(c)
    <3>1. row[c] \in Calls
      BY <2>3 DEF Calls
    <3>2. Rewriters(row[c]) \subseteq Calls
      BY DEF Rewriters
    <3> QED
      BY <2>1, <2>3, <3>1, <3>2 DEF WriteRow
  <2> QED
    BY <1>5, <2>2, <2>3 DEF Commit
<1>6. ASSUME NEW c \in Calls, Clash(c) PROVE TypeInv'
  BY <1>6 DEF Clash, books
<1>7. ASSUME NEW c \in Calls, ClashInLog(c) \/ Crash(c) PROVE TypeInv'
  <2>1. CASE ClashInLog(c)
    BY <2>1 DEF ClashInLog, books
  <2>2. CASE Crash(c)
    BY <2>2 DEF Crash, books
  <2> QED
    BY <1>7, <2>1, <2>2
<1>8. ASSUME NEW c \in Calls, BackOffice(c) PROVE TypeInv'
  <2>1. Rewriters(c) \subseteq Calls
    BY DEF Rewriters
  <2>2. ASSUME NEW s \in {"granted", "denied"}, Decide(c, s) PROVE TypeInv'
    BY <2>1, <2>2 DEF Decide, request
  <2>3. CASE terminate(c)
    BY <2>1, <2>3 DEF terminate, request
  <2> QED
    BY <1>8, <2>2, <2>3 DEF BackOffice, action_grant, action_deny
<1>9. CASE UNCHANGED mcpVars
  BY <1>9 DEF mcpVars, request, books
<1> QED
  BY <1>1, <1>2, <1>3, <1>4, <1>5, <1>6, <1>7, <1>8, <1>9 DEF McpNext, Serve

(* Every variable of the endpoint keeps its type; no call is begun more    *)
(* than MaxTries times.                                                    *)
THEOREM McpTypeCorrect == McpSpec => []McpTypeOK
<1>1. ASSUME McpInit PROVE TypeInv
  BY <1>1, MaxAssumption, RowsAreCalls DEF McpInit, NoTraces, TypeInv, McpTypeOK, TriesLeft
<1>2. TypeInv => McpTypeOK
  BY DEF TypeInv
<1> QED
  BY <1>1, <1>2, McpTypeStep, PTL DEF McpSpec
-----------------------------------------------------------------------------
(* The ledger of consents                                                  *)

(* A call that has not ended has created no row.                           *)
Unborn == \A c \in Calls : phase[c] # "answered" => consent[c] = "none" /\ session[c] = "none"

(* Only a tool leaves work behind, and it writes no row of its own call.   *)
ToolsWork ==
    \A c \in Calls : phase[c] = "run" \/ work[c] # "none" =>
        phase[c] \in Open /\ what[c] \in Tools /\ row[c] # c

(* A call that will disarm a consent, and was not overtaken, rests on one  *)
(* that is granted still.                                                  *)
StillGranted ==
    \A c \in Calls :
        phase[c] \in Open /\ c \notin stale /\ what[c] \in Tools /\ row[c] \notin {0, c}
            => consent[row[c]] = "granted"

(* The row of another call is the row of a call that has ended.            *)
RowsThere ==
    \A c \in Calls : phase[c] \in Open /\ row[c] \notin {0, c} => phase[row[c]] = "answered"

LedgerInv == McpTypeOK /\ Unborn /\ RowsThere /\ ToolsWork /\ StillGranted

(* How a call begins, as far as the ledger is concerned.                   *)
LEMMA BeginsWith ==
    ASSUME LedgerInv, NEW c \in Calls, NEW u \in Users \cup {None},
           NEW w \in Tools \cup Clients \cup {None}, Begin(c, u, w)
    PROVE  \E r \in 0 .. MaxCalls, p \in Open :
              /\ phase[c] \in {"idle", "again"}
              /\ Set(phase, c, p) /\ Set(row, c, r) /\ Set(what, c, w)
              /\ UNCHANGED <<work, stale, consent, session, spent>>
              /\ p = "run" => w \in Tools /\ r # c
              /\ r \notin {0, c} => phase[r] = "answered" /\ (w \in Tools => consent[r] = "granted")
<1>1. /\ phase[c] \in {"idle", "again"} /\ Set(what, c, w)
      /\ UNCHANGED <<work, stale, consent, session, spent>>
  BY DEF Begin, IsNext, books
<1>2. consent[c] = "none"
  BY <1>1 DEF LedgerInv, Unborn
<1>3. CASE _mcp_tools_call(c, u, w)
  BY <1>1, <1>2, <1>3, RowsAreCalls, GuardedAssumption
     DEF _mcp_tools_call, _check_or_request_consent, Consents, Open, LedgerInv, Unborn
<1>4. CASE _mcp_initialize(c, u, w)
  BY <1>1, <1>4, RowsAreCalls, KindAssumption
     DEF _mcp_initialize, Sessions, Open, LedgerInv, Unborn
<1> QED
  BY <1>3, <1>4 DEF Begin

LEMMA LedgerBegin ==
    ASSUME LedgerInv, NEW c \in Calls, NEW u \in Users \cup {None},
           NEW w \in Tools \cup Clients \cup {None}, Begin(c, u, w), McpTypeOK'
    PROVE  LedgerInv'
<1>1. PICK r \in 0 .. MaxCalls, p \in Open :
              /\ phase[c] \in {"idle", "again"}
              /\ Set(phase, c, p) /\ Set(row, c, r) /\ Set(what, c, w)
              /\ UNCHANGED <<work, stale, consent, session, spent>>
              /\ p = "run" => w \in Tools /\ r # c
              /\ r \notin {0, c} => phase[r] = "answered" /\ (w \in Tools => consent[r] = "granted")
  BY BeginsWith
<1>2. work[c] = "none"
  BY <1>1 DEF LedgerInv, ToolsWork, Open
<1> QED
  BY <1>1, <1>2 DEF LedgerInv, McpTypeOK, Unborn, RowsThere, ToolsWork, StillGranted, Set, Open

(* Whoever rewrites r leaves the others that would as overtaken.           *)
LEMMA Overtaken ==
    ASSUME LedgerInv, NEW r, NEW c \in Calls,
           phase[c] \in Open, row[c] = r
    PROVE  c \in Rewriters(r)
BY DEF Rewriters

LEMMA LedgerCommit ==
    ASSUME LedgerInv, NEW c \in Calls, Commit(c), McpTypeOK'
    PROVE  LedgerInv'
<1> USE RowsAreCalls, KindAssumption DEF LedgerInv, McpTypeOK, Set
<1>1. /\ phase[c] = "end" /\ c \notin stale
      /\ phase' = [phase EXCEPT ![c] = "answered"] /\ row' = [row EXCEPT ![c] = 0]
      /\ work' = [work EXCEPT ![c] = "none"] /\ what' = what
  BY DEF Commit
<1>2. RowsThere' /\ ToolsWork'
  BY <1>1 DEF RowsThere, ToolsWork, Open
<1>3. CASE UNCHANGED <<consent, session, spent, stale>>
  BY <1>1, <1>2, <1>3 DEF Unborn, StillGranted, Open
<1>4. CASE row[c] # 0 /\ WriteRow(c)
  <2> DEFINE r == row[c]
  <2>1. r \in Calls
    BY <1>4 DEF Calls
  <2>2. /\ \A d \in Calls \ {r} : consent'[d] = consent[d] /\ session'[d] = session[d]
        /\ stale' = stale \cup (Rewriters(r) \ {c})
    BY <1>4, <2>1 DEF WriteRow
  <2>3. phase'[r] = "answered"
    BY <1>1, <1>4, <2>1 DEF RowsThere, Open
  <2>4. Unborn'
    BY <1>1, <2>1, <2>2, <2>3 DEF Unborn
  <2>5. StillGranted'
    <3> SUFFICES ASSUME NEW d \in Calls, phase'[d] \in Open, d \notin stale',
                        what[d] \in Tools, row'[d] \notin {0, d}
                 PROVE  consent'[row'[d]] = "granted"
      BY <1>1 DEF StillGranted
    <3>1. d # c /\ phase[d] \in Open /\ row'[d] = row[d]
      BY <1>1 DEF Open
    <3>2. d \notin stale /\ row[d] # r
      BY <2>2, <3>1 DEF Rewriters
    <3>3. row[d] \in Calls
      BY <3>1 DEF Calls
    <3> QED
      BY <2>2, <3>1, <3>2, <3>3 DEF StillGranted
  <2> QED
    BY <1>2, <2>4, <2>5
<1> QED
  BY <1>3, <1>4 DEF Commit

LEMMA LedgerBackOffice ==
    ASSUME LedgerInv, NEW r \in Calls, BackOffice(r), McpTypeOK'
    PROVE  LedgerInv'
<1> USE DEF LedgerInv, McpTypeOK, Set
<1>1. /\ UNCHANGED <<phase, what, row, work>> /\ stale' = stale \cup Rewriters(r)
      /\ \A d \in Calls \ {r} : consent'[d] = consent[d] /\ session'[d] = session[d]
      /\ consent[r] # "none" \/ session[r] # "none"
  BY DEF BackOffice, action_grant, action_deny, Decide, terminate, request
<1>2. phase[r] = "answered"
  BY <1>1 DEF Unborn
<1>3. Unborn' /\ RowsThere' /\ ToolsWork'
  BY <1>1, <1>2 DEF Unborn, RowsThere, ToolsWork
<1>4. StillGranted'
  <2> SUFFICES ASSUME NEW d \in Calls, phase[d] \in Open, d \notin stale',
                      what[d] \in Tools, row[d] \notin {0, d}
               PROVE  consent'[row[d]] = "granted"
    BY <1>1 DEF StillGranted
  <2>1. d \notin stale /\ row[d] # r /\ row[d] \in Calls
    BY <1>1 DEF Rewriters, Calls
  <2> QED
    BY <1>1, <2>1 DEF StillGranted
<1> QED
  BY <1>3, <1>4

LEMMA LedgerStep == LedgerInv /\ McpTypeOK' /\ [McpNext]_mcpVars => LedgerInv'
<1> SUFFICES ASSUME LedgerInv, McpTypeOK', [McpNext]_mcpVars PROVE LedgerInv'
  OBVIOUS
<1>1. ASSUME NEW c \in Calls, Arrive(c) PROVE LedgerInv'
  <2>1. PICK u \in Users, w \in Tools \cup Clients :
           phase[c] = "idle" /\ (Begin(c, u, w) \/ TurnAway(c, u, w))
    BY <1>1 DEF Arrive
  <2>2. CASE Begin(c, u, w)
    BY <2>2, LedgerBegin
  <2>3. CASE TurnAway(c, u, w)
    BY <2>1, <2>3 DEF TurnAway, books, LedgerInv, McpTypeOK, Unborn, RowsThere, ToolsWork,
                      StillGranted, Set, Open
  <2> QED
    BY <2>1, <2>2, <2>3
<1>2. ASSUME NEW c \in Calls, phase[c] = "again", Begin(c, user[c], what[c]) PROVE LedgerInv'
  <2>1. user[c] \in Users \cup {None} /\ what[c] \in Tools \cup Clients \cup {None}
    BY DEF LedgerInv, McpTypeOK
  <2>2. PICK u \in Users \cup {None}, w \in Tools \cup Clients \cup {None} :
           u = user[c] /\ w = what[c]
    BY <2>1
  <2>3. Begin(c, u, w)
    BY <1>2, <2>2 DEF Begin, _mcp_tools_call, _check_or_request_consent, _mcp_initialize
  <2> QED
    BY <2>3, LedgerBegin
<1>3. ASSUME NEW c \in Calls, phase[c] \in Open,
             phase'[c] \in {"end", "again", "answered"},
             \A d \in Calls \ {c} : phase'[d] = phase[d] /\ row'[d] = row[d] /\ work'[d] = work[d],
             UNCHANGED <<what, consent, session>>,
             stale' \in {stale, stale \ {c}},
             \/ stale' = stale /\ row'[c] = row[c] /\ phase'[c] = "end"
             \/ row'[c] = 0,
             work'[c] # "none" => phase'[c] = "end" /\ (phase[c] = "run" \/ work[c] # "none")
      PROVE  LedgerInv'
  <2>1. phase'[c] # "run" /\ phase[c] # "answered"
    BY <1>3 DEF Open
  <2>2. Unborn'
    BY <1>3, <2>1 DEF LedgerInv, Unborn
  <2>3. RowsThere'
    <3> SUFFICES ASSUME NEW d \in Calls, phase'[d] \in Open, row'[d] \notin {0, d}
                 PROVE  phase'[row'[d]] = "answered"
      BY DEF RowsThere
    <3>1. phase[d] \in Open /\ row'[d] = row[d]
      BY <1>3
    <3>2. phase[row[d]] = "answered" /\ row[d] \in Calls
      BY <3>1, RowsAreCalls DEF LedgerInv, RowsThere, McpTypeOK, Calls
    <3>3. row[d] # c
      BY <2>1, <3>2
    <3> QED
      BY <1>3, <3>1, <3>2, <3>3
  <2>4. ToolsWork'
    <3> SUFFICES ASSUME NEW d \in Calls, phase'[d] = "run" \/ work'[d] # "none"
                 PROVE  phase'[d] \in Open /\ what[d] \in Tools /\ row'[d] # d
      BY <1>3 DEF ToolsWork
    <3>1. CASE d # c
      BY <1>3, <3>1 DEF LedgerInv, ToolsWork
    <3>2. CASE d = c
      BY <1>3, <2>1, <3>2, RowsAreCalls DEF LedgerInv, ToolsWork, Open
    <3> QED
      BY <3>1, <3>2
  <2>5. StillGranted'
    BY <1>3, <2>1, RowsAreCalls DEF LedgerInv, McpTypeOK, StillGranted, Open
  <2> QED
    BY <1>3, <2>2, <2>3, <2>4, <2>5 DEF LedgerInv
<1>4. ASSUME NEW c \in Calls, execute(c) PROVE LedgerInv'
  BY <1>3, <1>4 DEF execute, books, request, LedgerInv, McpTypeOK, Set, Open
<1>5. ASSUME NEW c \in Calls, ClashInTool(c) PROVE LedgerInv'
  BY <1>3, <1>5 DEF ClashInTool, books, request, LedgerInv, McpTypeOK, Set, Open
<1>6. ASSUME NEW c \in Calls, Clash(c) PROVE LedgerInv'
  BY <1>3, <1>6 DEF Clash, books, LedgerInv, McpTypeOK, Set, Open
<1>7. ASSUME NEW c \in Calls, ClashInLog(c) PROVE LedgerInv'
  <2>1. work[c] = "none"
    BY <1>7, KindAssumption DEF ClashInLog, LedgerInv, ToolsWork
  <2> QED
    BY <1>3, <1>7, <2>1 DEF ClashInLog, books, LedgerInv, McpTypeOK, Set, Open
<1>8. ASSUME NEW c \in Calls, Crash(c) PROVE LedgerInv'
  BY <1>3, <1>8 DEF Crash, books, LedgerInv, McpTypeOK, Set, Open
<1>9. CASE UNCHANGED mcpVars
  BY <1>9 DEF mcpVars, request, books, LedgerInv, Unborn, RowsThere, ToolsWork, StillGranted
<1> QED
  BY <1>1, <1>2, <1>4, <1>5, <1>6, <1>7, <1>8, <1>9, LedgerCommit, LedgerBackOffice
     DEF McpNext, Serve

LEMMA LedgerInvariant == McpSpec => []LedgerInv
<1>1. ASSUME McpInit PROVE LedgerInv
  BY <1>1, MaxAssumption, RowsAreCalls
     DEF McpInit, NoTraces, LedgerInv, McpTypeOK, Unborn, RowsThere, ToolsWork, StillGranted, Open
<1> QED
  BY <1>1, LedgerStep, McpTypeCorrect, PTL DEF McpSpec
-----------------------------------------------------------------------------
(* What the approver sees of a step                                        *)

Granted == {r \in Calls : consent[r] = "granted"}

LEMMA PaysForRun ==
    ASSUME LedgerInv, NEW c \in Calls, Commit(c)
    PROVE  Ledger!Next \/ UNCHANGED Ledger!vars
<1> USE DEF Set
<1>1. CASE UNCHANGED <<consent, spent>>
  BY <1>1 DEF Ledger!vars
<1>2. CASE row[c] # 0 /\ WriteRow(c)
  <2> DEFINE r == row[c]
  <2>1. r \in Calls /\ c \notin stale /\ phase[c] = "end"
    BY <1>2 DEF Calls, LedgerInv, McpTypeOK, Commit
  <2>2. CASE what[c] \notin Tools
    <3>1. work[c] = "none"
      BY <2>2 DEF LedgerInv, ToolsWork
    <3> QED
      BY <1>1, <1>2, <2>1, <2>2, <3>1 DEF WriteRow, LedgerInv, McpTypeOK
  <2>3. CASE what[c] \in Tools
    <3>1. consent' = [consent EXCEPT ![r] = "pending"]
      BY <1>2, <2>3 DEF WriteRow
    <3>2. Granted' = Granted \ {r}
      BY <2>1, <3>1 DEF Granted, LedgerInv, McpTypeOK
    <3>3. CASE work[c] = "none"
      <4>1. spent' = spent
        BY <1>2, <2>1, <3>3 DEF WriteRow, LedgerInv, McpTypeOK
      <4> QED
        BY <2>1, <3>2, <4>1 DEF Ledger!Next, Ledger!Refuse, Granted
    <3>4. CASE work[c] # "none"
      <4>1. r # c
        BY <3>4 DEF LedgerInv, ToolsWork
      <4>2. consent[r] = "granted"
        BY <1>2, <2>1, <2>3, <4>1 DEF LedgerInv, StillGranted, Open
      <4>3. r \in Granted /\ spent' = [spent EXCEPT ![r] = @ \cup {c}]
        BY <1>2, <2>1, <3>4, <4>2 DEF WriteRow, Granted
      <4>4. Ledger!Run(r, c)
        BY <3>2, <4>3 DEF Ledger!Run, Granted
      <4> QED
        BY <2>1, <4>4 DEF Ledger!Next
    <3> QED
      BY <3>3, <3>4
  <2> QED
    BY <2>2, <2>3
<1> QED
  BY <1>1, <1>2 DEF Commit

LEMMA LedgerMoves == LedgerInv /\ [McpNext]_mcpVars => [Ledger!Next]_(Ledger!vars)
<1> SUFFICES ASSUME LedgerInv, [McpNext]_mcpVars
             PROVE  Ledger!Next \/ UNCHANGED Ledger!vars
  OBVIOUS
<1>1. CASE UNCHANGED <<consent, spent>>
  BY <1>1 DEF Ledger!vars
<1>2. ASSUME NEW r \in Calls, Decide(r, "granted") PROVE Ledger!Next
  <2>1. consent' = [consent EXCEPT ![r] = "granted"] /\ spent' = spent
    BY <1>2 DEF Decide, Set
  <2>2. Granted' = Granted \cup {r}
    BY <2>1 DEF Granted, LedgerInv, McpTypeOK
  <2> QED
    BY <2>1, <2>2 DEF Granted, Ledger!Next, Ledger!Approve
<1>3. ASSUME NEW r \in Calls, Decide(r, "denied") PROVE Ledger!Next
  <2>1. consent' = [consent EXCEPT ![r] = "denied"] /\ spent' = spent
    BY <1>3 DEF Decide, Set
  <2>2. Granted' = Granted \ {r}
    BY <2>1 DEF Granted, LedgerInv, McpTypeOK
  <2> QED
    BY <2>1, <2>2 DEF Granted, Ledger!Next, Ledger!Refuse
<1>4. ASSUME NEW r \in Calls, terminate(r) PROVE UNCHANGED <<consent, spent>>
  BY <1>4 DEF terminate
<1>5. ASSUME NEW c \in Calls, NEW u, NEW w, Begin(c, u, w) \/ TurnAway(c, u, w)
      PROVE  UNCHANGED <<consent, spent>>
  BY <1>5 DEF Begin, TurnAway, books
<1>6. ASSUME NEW c \in Calls,
             execute(c) \/ ClashInTool(c) \/ Clash(c) \/ ClashInLog(c) \/ Crash(c)
      PROVE  UNCHANGED <<consent, spent>>
  BY <1>6 DEF execute, ClashInTool, Clash, ClashInLog, Crash, books
<1>7. CASE UNCHANGED mcpVars
  BY <1>1, <1>7 DEF mcpVars, books
<1>8. ASSUME NEW c \in Calls, Arrive(c) \/ Serve(c) \/ Crash(c) \/ BackOffice(c)
      PROVE  Ledger!Next \/ UNCHANGED Ledger!vars
  <2>1. CASE Arrive(c)
    BY <1>1, <1>5, <2>1 DEF Arrive
  <2>2. CASE Serve(c)
    <3>1. ASSUME Begin(c, user[c], what[c]) PROVE UNCHANGED <<consent, spent>>
      BY <3>1 DEF Begin, books
    <3> QED
      BY <1>1, <1>6, <2>2, <3>1, PaysForRun DEF Serve
  <2>3. CASE BackOffice(c)
    BY <1>1, <1>2, <1>3, <1>4, <2>3 DEF BackOffice, action_grant, action_deny
  <2>4. CASE Crash(c)
    BY <1>1, <1>6, <2>4
  <2> QED
    BY <1>8, <2>1, <2>2, <2>3, <2>4
<1> QED
  BY <1>7, <1>8 DEF McpNext

(* Every approval pays for one run at most, however the calls overlap, are *)
(* begun again or break off: the endpoint implements ConsentLedger.        *)
THEOREM ConsentIsSpent == McpSpec => OneRunPerGrant
<1>1. ASSUME McpInit PROVE Ledger!Init
  BY <1>1 DEF McpInit, NoTraces, Ledger!Init
<1> QED
  BY <1>1, LedgerInvariant, LedgerMoves, PTL DEF McpSpec, OneRunPerGrant, Ledger!Spec
-----------------------------------------------------------------------------
(* Twins                                                                   *)

(* What a call could read has ended.                                       *)
SeenEnded == \A c, r \in Calls : r \in seen[c] => phase[r] = "answered"

(* An introduction that was not overtaken rests on a session that is live. *)
StillLive ==
    \A c \in Calls :
        phase[c] \in Open /\ c \notin stale /\ what[c] \in Clients /\ row[c] \notin {0, c}
            => session[row[c]] = "initialized"

(* Whoever is about to create a row could see none of its kind.            *)
Alone ==
    \A c \in Calls : phase[c] \in Open /\ row[c] = c =>
        /\ what[c] \in Tools => Consents(user[c], what[c]) \cap seen[c] = {}
        /\ what[c] \in Clients => SessionsOf(user[c], what[c]) \cap seen[c] = {}

TwinInv == LedgerInv /\ SeenEnded /\ StillLive /\ Alone

(* A call that has ended keeps its name, and neither asks for consent nor  *)
(* is its session resumed, unless it is live.                              *)
Settled(r) ==
    /\ phase'[r] = "answered" /\ user'[r] = user[r] /\ what'[r] = what[r]
    /\ consent[r] = "none" => consent'[r] = "none"
    /\ session'[r] = "initialized" => session[r] = "initialized"

LEMMA EndedSettled ==
    ASSUME TwinInv, [McpNext]_mcpVars, NEW r \in Calls, phase[r] = "answered"
    PROVE  Settled(r)
<1> USE DEF TwinInv, LedgerInv, McpTypeOK, Set, Settled
<1>1. ASSUME NEW c \in Calls, c # r, NEW u, NEW w, Begin(c, u, w) \/ TurnAway(c, u, w)
      PROVE  Settled(r)
  <2>1. CASE Begin(c, u, w)
    <3>1. UNCHANGED <<consent, session>> /\ phase'[r] = phase[r]
          /\ user'[r] = user[r] /\ what'[r] = what[r]
      BY <1>1, <2>1 DEF Begin, books, _mcp_tools_call, _check_or_request_consent, _mcp_initialize
    <3> QED
      BY <3>1
  <2>2. CASE TurnAway(c, u, w)
    BY <1>1, <2>2 DEF TurnAway, books
  <2> QED
    BY <1>1, <2>1, <2>2
<1>2. ASSUME NEW c \in Calls, Arrive(c) PROVE Settled(r)
  BY <1>1, <1>2 DEF Arrive
<1>3. ASSUME NEW c \in Calls, phase[c] = "again", Begin(c, user[c], what[c]) PROVE Settled(r)
  <2>1. UNCHANGED <<consent, session>> /\ phase'[r] = phase[r]
        /\ user'[r] = user[r] /\ what'[r] = what[r]
    BY <1>3 DEF Begin, books, _mcp_tools_call, _check_or_request_consent, _mcp_initialize
  <2> QED
    BY <2>1
<1>4. ASSUME NEW c \in Calls,
             execute(c) \/ ClashInTool(c) \/ Clash(c) \/ ClashInLog(c) \/ Crash(c)
      PROVE  Settled(r)
  <2>1. UNCHANGED <<user, what, consent, session>> /\ phase[c] # "answered"
    BY <1>4 DEF execute, ClashInTool, Clash, ClashInLog, Crash, books, request, Open
  <2>2. phase'[r] = phase[r]
    BY <1>4, <2>1 DEF execute, ClashInTool, Clash, ClashInLog, Crash
  <2> QED
    BY <2>1, <2>2
<1>5. ASSUME NEW c \in Calls, Commit(c) PROVE Settled(r)
  <2>1. /\ phase[c] = "end" /\ c \notin stale /\ r # c
        /\ phase'[r] = "answered" /\ user' = user /\ what' = what
    BY <1>5 DEF Commit
  <2>2. CASE UNCHANGED <<consent, session>>
    BY <2>1, <2>2
  <2>3. CASE row[c] = r /\ WriteRow(c)
    <3>1. what[c] \in Tools => consent[r] = "granted"
      BY <2>1, <2>3, RowsAreCalls DEF StillGranted, Open
    <3>2. what[c] \in Clients => session[r] = "initialized"
      BY <2>1, <2>3, RowsAreCalls DEF StillLive, Open
    <3> QED
      BY <2>1, <2>3, <3>1, <3>2 DEF WriteRow
  <2>4. CASE row[c] # r /\ WriteRow(c)
    BY <2>1, <2>4 DEF WriteRow
  <2> QED
    BY <1>5, <2>2, <2>3, <2>4 DEF Commit
<1>6. ASSUME NEW c \in Calls, BackOffice(c) PROVE Settled(r)
  BY <1>6 DEF BackOffice, action_grant, action_deny, Decide, terminate, request
<1>7. CASE UNCHANGED mcpVars
  BY <1>7 DEF mcpVars, request, books
<1> QED
  BY <1>2, <1>3, <1>4, <1>5, <1>6, <1>7 DEF McpNext, Serve

(* A call begins, or keeps its row and what it saw until it ends.          *)
Keeps(c) ==
    /\ seen'[c] \in {{}, seen[c]}
    /\ phase'[c] \in Open =>
          /\ phase[c] \in Open /\ row'[c] \in {0, row[c]} /\ seen'[c] = seen[c]
          /\ user'[c] = user[c] /\ what'[c] = what[c]
          /\ row'[c] # 0 /\ c \notin stale' => c \notin stale

BeginsAnew(c) ==
    \E u \in Users \cup {None}, w \in Tools \cup Clients \cup {None} : Begin(c, u, w)

LEMMA BegunOrKept ==
    ASSUME TwinInv, [McpNext]_mcpVars, NEW c \in Calls
    PROVE  BeginsAnew(c) \/ Keeps(c)
<1> USE DEF TwinInv, LedgerInv, McpTypeOK, Set, Keeps
<1>1. ASSUME NEW d \in Calls, d # c, NEW u, NEW w, Begin(d, u, w) PROVE Keeps(c)
  <2>1. /\ stale' = stale /\ seen'[c] = seen[c] /\ phase'[c] = phase[c]
        /\ user'[c] = user[c] /\ what'[c] = what[c] /\ row'[c] = row[c]
    BY <1>1 DEF Begin, _mcp_tools_call, _check_or_request_consent, _mcp_initialize
  <2> QED
    BY <2>1
<1>2. ASSUME NEW d \in Calls, NEW u, NEW w, TurnAway(d, u, w) PROVE Keeps(c)
  BY <1>2 DEF TurnAway, Open
<1>3. ASSUME NEW d \in Calls, Arrive(d) PROVE BeginsAnew(c) \/ Keeps(c)
  BY <1>1, <1>2, <1>3 DEF Arrive, BeginsAnew
<1>4. ASSUME NEW d \in Calls, phase[d] = "again", Begin(d, user[d], what[d])
      PROVE  BeginsAnew(c) \/ Keeps(c)
  <2>1. PICK u \in Users \cup {None}, w \in Tools \cup Clients \cup {None} :
           u = user[d] /\ w = what[d]
    OBVIOUS
  <2>2. Begin(d, u, w)
    BY <1>4, <2>1 DEF Begin, _mcp_tools_call, _check_or_request_consent, _mcp_initialize
  <2> QED
    BY <1>1, <2>2 DEF BeginsAnew
<1>5. ASSUME NEW d \in Calls, execute(d) PROVE Keeps(c)
  BY <1>5 DEF execute, request, Open
<1>6. ASSUME NEW d \in Calls, ClashInTool(d) PROVE Keeps(c)
  BY <1>6 DEF ClashInTool, request, Open
<1>7. ASSUME NEW d \in Calls, Clash(d) \/ ClashInLog(d) PROVE Keeps(c)
  BY <1>7 DEF Clash, ClashInLog, Open
<1>8. ASSUME NEW d \in Calls, Crash(d) PROVE Keeps(c)
  BY <1>8 DEF Crash, Open
<1>9. ASSUME NEW d \in Calls, Commit(d) PROVE Keeps(c)
  <2>1. /\ phase' = [phase EXCEPT ![d] = "answered"] /\ seen' = [seen EXCEPT ![d] = {}]
        /\ row' = [row EXCEPT ![d] = 0] /\ user' = user /\ what' = what
        /\ stale \subseteq stale'
    BY <1>9 DEF Commit, WriteRow
  <2> QED
    BY <2>1 DEF Open
<1>10. ASSUME NEW d \in Calls, BackOffice(d) PROVE Keeps(c)
  BY <1>10 DEF BackOffice, action_grant, action_deny, Decide, terminate, request
<1>11. CASE UNCHANGED mcpVars
  BY <1>11 DEF mcpVars, request
<1> QED
  BY <1>3, <1>4, <1>5, <1>6, <1>7, <1>8, <1>9, <1>10, <1>11 DEF McpNext, Serve

(* What a call finds when it begins.                                       *)
LEMMA BeginsAlone ==
    ASSUME TwinInv, NEW c \in Calls, BeginsAnew(c)
    PROVE  /\ seen'[c] = Rows /\ UNCHANGED <<consent, session>>
           /\ \A r \in Rows : phase[r] = "answered" /\ phase[c] # "answered"
           /\ \A r \in Calls \ {c} : user'[r] = user[r] /\ what'[r] = what[r]
           /\ row'[c] \notin {0, c} /\ what'[c] \in Clients => session[row'[c]] = "initialized"
           /\ row'[c] = c /\ what'[c] \in Tools => Consents(user'[c], what'[c]) = {}
           /\ row'[c] = c /\ what'[c] \in Clients => SessionsOf(user'[c], what'[c]) = {}
<1> USE DEF TwinInv, LedgerInv, McpTypeOK, Set
<1>1. PICK u \in Users \cup {None}, w \in Tools \cup Clients \cup {None} : Begin(c, u, w)
  BY DEF BeginsAnew
<1>2. /\ phase[c] # "answered" /\ seen'[c] = Rows /\ UNCHANGED <<consent, session>>
      /\ user' = [user EXCEPT ![c] = u] /\ what' = [what EXCEPT ![c] = w]
  BY <1>1 DEF Begin, IsNext, books
<1>3. \A r \in Rows : phase[r] = "answered"
  BY DEF Rows, Unborn
<1>4. consent[c] = "none" /\ session[c] = "none" /\ user'[c] = u /\ what'[c] = w
  BY <1>2 DEF Unborn
<1>5. CASE _mcp_tools_call(c, u, w)
  <2>1. w \notin Clients /\ w \in Tools
    BY <1>5, GuardedAssumption, KindAssumption DEF _mcp_tools_call
  <2>2. row'[c] = c => Consents(u, w) = {}
    BY <1>4, <1>5, RowsAreCalls DEF _mcp_tools_call, _check_or_request_consent, Consents
  <2> QED
    BY <1>2, <1>3, <1>4, <2>1, <2>2 DEF Consents
<1>6. CASE _mcp_initialize(c, u, w)
  <2>1. w \in Clients /\ w \notin Tools
    BY <1>6, KindAssumption DEF _mcp_initialize
  <2>2. /\ row'[c] \notin {0, c} => session[row'[c]] = "initialized"
        /\ row'[c] = c => SessionsOf(u, w) = {}
    BY <1>4, <1>6, RowsAreCalls DEF _mcp_initialize, Sessions
  <2> QED
    BY <1>2, <1>3, <1>4, <2>1, <2>2 DEF SessionsOf, Sessions
<1> QED
  BY <1>1, <1>5, <1>6 DEF Begin

LEMMA TwinStep == TwinInv /\ LedgerInv' /\ [McpNext]_mcpVars => TwinInv'
<1> SUFFICES ASSUME TwinInv, LedgerInv', [McpNext]_mcpVars PROVE TwinInv'
  OBVIOUS
<1>1. SeenEnded'
  <2> SUFFICES ASSUME NEW c \in Calls, NEW r \in Calls, r \in seen'[c]
               PROVE  phase'[r] = "answered"
    BY DEF SeenEnded
  <2>1. phase[r] = "answered"
    BY BegunOrKept, BeginsAlone DEF Keeps, TwinInv, SeenEnded
  <2> QED
    BY <2>1, EndedSettled DEF Settled
<1>2. StillLive'
  <2> SUFFICES ASSUME NEW c \in Calls, phase'[c] \in Open, c \notin stale',
                      what'[c] \in Clients, row'[c] \notin {0, c}
               PROVE  session'[row'[c]] = "initialized"
    BY DEF StillLive
  <2>1. CASE BeginsAnew(c)
    BY <2>1, BeginsAlone
  <2>2. CASE Keeps(c)
    <3> DEFINE r == row[c]
    <3>1. phase[c] \in Open /\ row'[c] = r /\ c \notin stale /\ what[c] \in Clients
      BY <2>2 DEF Keeps
    <3>2. session[r] = "initialized" /\ r \in Calls
      BY <3>1, RowsAreCalls DEF TwinInv, StillLive, LedgerInv, McpTypeOK, Calls
    <3>3. ASSUME NEW d \in Calls, terminate(d) PROVE d # r
      BY <3>1, <3>3 DEF terminate, Rewriters
    <3>4. session'[r] = "initialized"
      <4>1. ASSUME NEW d \in Calls, Commit(d) PROVE session'[r] = "initialized"
        BY <3>2, <4>1 DEF Commit, WriteRow, TwinInv, LedgerInv, McpTypeOK
      <4>2. ASSUME NEW d \in Calls, BackOffice(d) PROVE session'[r] = "initialized"
        BY <3>2, <3>3, <4>2 DEF BackOffice, action_grant, action_deny, Decide, terminate, Set,
                                TwinInv, LedgerInv, McpTypeOK
      <4>3. ASSUME NEW d \in Calls, Arrive(d) \/ Serve(d) \/ Crash(d), ~Commit(d)
            PROVE  session' = session
        <5>1. ASSUME NEW u, NEW w, Begin(d, u, w) \/ TurnAway(d, u, w) PROVE session' = session
          BY <5>1 DEF Begin, TurnAway, books
        <5>2. ASSUME Begin(d, user[d], what[d]) PROVE session' = session
          BY <5>2 DEF Begin, books
        <5> QED
          BY <4>3, <5>1, <5>2 DEF Arrive, Serve, execute, ClashInTool, Clash, ClashInLog, Crash,
                                  books
      <4>4. CASE UNCHANGED mcpVars
        BY <3>2, <4>4 DEF mcpVars, books
      <4> QED
        BY <3>2, <4>1, <4>2, <4>3, <4>4 DEF McpNext
    <3> QED
      BY <3>1, <3>4
  <2> QED
    BY <2>1, <2>2, BegunOrKept
<1>3. Alone'
  <2> SUFFICES ASSUME NEW c \in Calls, phase'[c] \in Open, row'[c] = c, NEW r \in seen'[c],
                      r \in Calls, user'[r] = user'[c], what'[r] = what'[c]
               PROVE  /\ what'[c] \in Tools => consent'[r] = "none"
                      /\ what'[c] \in Clients => session'[r] # "initialized"
    BY DEF Alone, Consents, SessionsOf, Sessions
  <2>1. CASE BeginsAnew(c)
    <3>1. r \in Rows /\ r # c
      BY <2>1, BeginsAlone
    <3>2. user[r] = user'[r] /\ what[r] = what'[r]
      BY <2>1, <3>1, BeginsAlone
    <3>3. what'[c] \in Tools => r \notin Consents(user'[c], what'[c])
      BY <2>1, BeginsAlone
    <3>4. what'[c] \in Clients => r \notin SessionsOf(user'[c], what'[c])
      BY <2>1, BeginsAlone
    <3>5. UNCHANGED <<consent, session>>
      BY <2>1, BeginsAlone
    <3> QED
      BY <3>2, <3>3, <3>4, <3>5 DEF Consents, SessionsOf, Sessions
  <2>2. CASE Keeps(c)
    <3>1. /\ phase[c] \in Open /\ row[c] = c /\ seen'[c] = seen[c]
          /\ user'[c] = user[c] /\ what'[c] = what[c]
      BY <2>2, RowsAreCalls DEF Keeps
    <3>2. Settled(r)
      BY <3>1, EndedSettled DEF TwinInv, SeenEnded
    <3>3. user[r] = user[c] /\ what[r] = what[c]
      BY <3>1, <3>2 DEF Settled
    <3>4. what[c] \in Tools => consent[r] = "none"
      BY <3>1, <3>3 DEF TwinInv, Alone, Consents
    <3>5. what[c] \in Clients => session[r] # "initialized"
      BY <3>1, <3>3 DEF TwinInv, Alone, SessionsOf, Sessions
    <3> QED
      BY <3>1, <3>2, <3>4, <3>5 DEF Settled
  <2> QED
    BY <2>1, <2>2, BegunOrKept
<1> QED
  BY <1>1, <1>2, <1>3 DEF TwinInv

(* Only its own call, about to create it, makes a row of one that was not. *)
LEMMA CreatorOfRow ==
    ASSUME TwinInv, [McpNext]_mcpVars, NEW c \in Calls PROVE NoTwin(c)
<1> USE DEF TwinInv, LedgerInv, McpTypeOK
<1>1. CASE UNCHANGED <<consent, session>>
  BY <1>1 DEF NoTwin
<1>2. ASSUME NEW d \in Calls, Commit(d) PROVE NoTwin(c)
  <2>1. CASE UNCHANGED <<consent, session>>
    BY <1>1, <2>1
  <2>2. CASE row[d] # 0 /\ WriteRow(d)
    <3>1. phase[d] \in Open /\ d \notin stale
      BY <1>2 DEF Commit, Open
    <3>2. ASSUME consent[c] = "none", consent'[c] = "pending"
          PROVE  Consents(user[c], what[c]) \cap seen[c] = {}
      <4>1. row[d] = c /\ what[d] \in Tools
        BY <2>2, <3>2 DEF WriteRow
      <4>2. d = c
        BY <3>1, <3>2, <4>1, RowsAreCalls DEF StillGranted
      <4> QED
        BY <3>1, <4>1, <4>2 DEF Alone
    <3>3. ASSUME session[c] = "none", session'[c] = "initialized"
          PROVE  SessionsOf(user[c], what[c]) \cap seen[c] = {}
      <4>1. row[d] = c /\ what[d] \in Clients
        BY <2>2, <3>3 DEF WriteRow
      <4>2. d = c
        BY <3>1, <3>3, <4>1, RowsAreCalls DEF StillLive
      <4> QED
        BY <3>1, <4>1, <4>2 DEF Alone
    <3> QED
      BY <3>2, <3>3 DEF NoTwin
  <2> QED
    BY <1>2, <2>1, <2>2 DEF Commit
<1>3. ASSUME NEW d \in Calls, BackOffice(d) PROVE NoTwin(c)
  BY <1>3 DEF BackOffice, action_grant, action_deny, Decide, terminate, Set, NoTwin
<1>4. ASSUME NEW d \in Calls, NEW u, NEW w, Begin(d, u, w) \/ TurnAway(d, u, w) PROVE NoTwin(c)
  BY <1>1, <1>4 DEF Begin, TurnAway, books
<1>5. ASSUME NEW d \in Calls, Begin(d, user[d], what[d]) PROVE NoTwin(c)
  BY <1>1, <1>5 DEF Begin, books
<1>6. ASSUME NEW d \in Calls,
             execute(d) \/ ClashInTool(d) \/ Clash(d) \/ ClashInLog(d) \/ Crash(d)
      PROVE  NoTwin(c)
  BY <1>1, <1>6 DEF execute, ClashInTool, Clash, ClashInLog, Crash, books
<1>7. CASE UNCHANGED mcpVars
  BY <1>1, <1>7 DEF mcpVars, books
<1>8. ASSUME NEW d \in Calls, Arrive(d) \/ Serve(d) \/ Crash(d) \/ BackOffice(d)
      PROVE  NoTwin(c)
  <2>1. CASE Arrive(d)
    BY <1>4, <2>1 DEF Arrive
  <2>2. CASE Serve(d)
    BY <1>2, <1>5, <1>6, <2>2 DEF Serve
  <2> QED
    BY <1>3, <1>6, <1>8, <2>1, <2>2
<1> QED
  BY <1>7, <1>8 DEF McpNext

(* A second request for consent, a second session of one client: only from *)
(* calls none of which could read the other's row.                         *)
THEOREM TwinsOverlap == McpSpec => TwinsOverlapped
<1>1. ASSUME McpInit PROVE SeenEnded /\ StillLive /\ Alone
  BY <1>1 DEF McpInit, NoTraces, SeenEnded, StillLive, Alone, Open
<1>2. TwinInv /\ [McpNext]_mcpVars => \A c \in Calls : NoTwin(c)
  BY CreatorOfRow
<1>3. McpInit /\ LedgerInv => TwinInv
  BY <1>1 DEF TwinInv
<1>4. TwinInv /\ LedgerInv' /\ [McpNext]_mcpVars => TwinInv'
  BY TwinStep
<1>5. McpSpec => []TwinInv
  BY <1>3, <1>4, LedgerInvariant, PTL DEF McpSpec
<1> QED
  BY <1>2, <1>5, PTL DEF McpSpec, TwinsOverlapped
=============================================================================
