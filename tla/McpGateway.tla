----------------------------- MODULE McpGateway -----------------------------
(***************************************************************************)
(* The MCP endpoint of odoo_mcp_manager: tool calls with their consent     *)
(* gate and their logs, and the initialize handshake with its sessions.    *)
(*                                                                         *)
(* An HTTP call is one database transaction under REPEATABLE READ: what it *)
(* reads is the state at its begin, what it writes is flushed at its end.  *)
(* Of two open calls that rewrite one row the later to commit clashes and  *)
(* the web layer runs it again, up to MaxTries times in all.  A log goes   *)
(* through a cursor of its own and survives a clash or a crash.  The       *)
(* endpoint catches every exception of a tool and answers with an error:   *)
(* what the tool wrote before it failed is committed all the same.         *)
(*                                                                         *)
(* Calls are numbered in the order they begin, the order of create_date.   *)
(* A consent or a session has the number of the call that created it.      *)
(***************************************************************************)
EXTENDS Integers, FiniteSets

CONSTANTS
    MaxCalls,   \* how many HTTP calls are made
    Users,      \* owners of the API keys
    Tools,      \* active ai.tool records
    Guarded,    \* those with requires_user_consent
    Clients,    \* (mcp_source, client_name) pairs, the name normalised
    MaxTries,   \* how often the web layer runs a call before it gives up
    None        \* no user, tool or client

ASSUME MaxAssumption == MaxCalls \in Nat /\ MaxTries \in Nat \ {0}
ASSUME GuardedAssumption == Guarded \subseteq Tools
ASSUME NoneAssumption == None \notin Users \cup Tools \cup Clients
ASSUME KindAssumption == Tools \cap Clients = {}

VARIABLES
    phase,      \* how far a call is
    user,       \* on whose behalf it is made
    what,       \* the tool it calls or the client that introduces itself
    row,        \* the row it will rewrite, itself if it creates one, or 0
    outcome,    \* what it is going to answer, or has answered
    work,       \* how much of its work the tool did in the open transaction
    tries,      \* how often it was begun
    seen,       \* the rows it could read
    stale,      \* open calls whose row was rewritten since they began
    consent,    \* ai.consent.state
    spent,      \* calls that left something behind on the strength of a consent
    session,    \* ai.session.state
    effect,     \* how much of its work a call left in the database
    log         \* ai.tool.log: the status of the entries written for a call

request == <<user, what, tries, seen>>
books == <<consent, spent, session, effect>>
mcpVars == <<phase, request, row, outcome, work, stale, books, log>>

Calls == 1 .. MaxCalls
Open == {"run", "end"}

McpTypeOK ==
    /\ phase \in [Calls -> {"idle", "run", "end", "again", "answered"}]
    /\ user \in [Calls -> Users \cup {None}]
    /\ what \in [Calls -> Tools \cup Clients \cup {None}]
    /\ row \in [Calls -> 0 .. MaxCalls]
    /\ outcome \in [Calls -> {"none", "refused", "error", "result", "lost"}]
    /\ work \in [Calls -> {"none", "half", "all"}]
    /\ tries \in [Calls -> 0 .. MaxTries]
    /\ seen \in [Calls -> SUBSET Calls]
    /\ stale \in SUBSET Calls
    /\ consent \in [Calls -> {"none", "pending", "granted", "denied"}]
    /\ spent \in [Calls -> SUBSET Calls]
    /\ session \in [Calls -> {"none", "initialized", "terminated"}]
    /\ effect \in [Calls -> {"none", "half", "all"}]
    /\ log \in [Calls -> SUBSET {"success", "error"}]

(* A call that was turned away leaves none either.                         *)
NoTraces ==
    /\ row = [c \in Calls |-> 0]
    /\ work = [c \in Calls |-> "none"]
    /\ tries = [c \in Calls |-> 0]
    /\ seen = [c \in Calls |-> {}]
    /\ stale = {}
    /\ consent = [c \in Calls |-> "none"]
    /\ spent = [c \in Calls |-> {}]
    /\ session = [c \in Calls |-> "none"]
    /\ effect = [c \in Calls |-> "none"]
    /\ log = [c \in Calls |-> {}]

McpInit ==
    /\ phase = [c \in Calls |-> "idle"]
    /\ user = [c \in Calls |-> None]
    /\ what = [c \in Calls |-> None]
    /\ outcome = [c \in Calls |-> "none"]
    /\ NoTraces
-----------------------------------------------------------------------------
(* Rows                                                                    *)

Consents(u, t) == {r \in Calls : consent[r] # "none" /\ user[r] = u /\ what[r] = t}

Sessions(u) == {r \in Calls : session[r] = "initialized" /\ user[r] = u}

SessionsOf(u, k) == {r \in Sessions(u) : what[r] = k}

Rows == {r \in Calls : consent[r] # "none" \/ session[r] # "none"}

(* Mutant: calls that rewrite one row do not clash.                        *)
NoRewriters(r) == {}

(* Whoever rewrites r makes the other open calls that will rewrite it      *)
(* clash.                                                                  *)
Rewriters(r) == {c \in Calls : phase[c] \in Open /\ row[c] = r}
-----------------------------------------------------------------------------
(* A call begins                                                           *)

Set(f, c, v) == f' = [f EXCEPT ![c] = v]

(* Mutant: a denied consent is asked for again.                            *)
AskAfterDenial(c, u, t) ==
    \/ /\ \A r \in Consents(u, t) : consent[r] = "denied"
       /\ Set(row, c, c) /\ Set(phase, c, "end") /\ Set(outcome, c, "refused")
    \/ \E r \in Consents(u, t) :
        /\ consent[r] = "granted"
        /\ Set(row, c, r) /\ Set(phase, c, "run") /\ Set(outcome, c, "none")

(* The gate of a guarded tool looks at the newest consent of the tool and  *)
(* the user, whatever it was asked for.  A granted one is about to become  *)
(* pending again.                                                          *)
_check_or_request_consent(c, u, t) ==
    \/ /\ Consents(u, t) = {}
       /\ Set(row, c, c) /\ Set(phase, c, "end") /\ Set(outcome, c, "refused")
    \/ \E r \in Consents(u, t) :
        /\ \A q \in Consents(u, t) : q <= r
        /\ \/ /\ consent[r] = "granted"
              /\ Set(row, c, r) /\ Set(phase, c, "run") /\ Set(outcome, c, "none")
           \/ /\ consent[r] \in {"pending", "denied"}
              /\ Set(row, c, 0) /\ Set(phase, c, "end") /\ Set(outcome, c, "refused")

_mcp_tools_call(c, u, t) ==
    \/ t \in Guarded /\ _check_or_request_consent(c, u, t)
    \/ /\ t \in Tools \ Guarded
       /\ Set(row, c, 0) /\ Set(phase, c, "run") /\ Set(outcome, c, "none")

(* A client that sends the id of a live session of its user gets that      *)
(* session back, one that does not gets a session of its client name, new  *)
(* if there is none.                                                       *)
_mcp_initialize(c, u, k) ==
    /\ k \in Clients
    /\ \/ \E r \in Sessions(u) : Set(row, c, r)
       \/ SessionsOf(u, k) = {} /\ Set(row, c, c)
    /\ Set(phase, c, "end")
    /\ Set(outcome, c, "result")

(* The endpoint logs the refusals and the handshakes; a run's log is       *)
(* written by the tool.                                                    *)
_log_mcp_call(c, answer) ==
    log' = [log EXCEPT ![c] = @ \cup (CASE answer = "refused" -> {"error"}
                                        [] answer = "result" -> {"success"}
                                        [] OTHER -> {})]

IsNext(c) == phase[c] = "idle" /\ \A d \in 1 .. c - 1 : phase[d] # "idle"

(* A request is authenticated and handed to its handler.                   *)
Begin(c, u, w) ==
    /\ \/ IsNext(c)
       \/ phase[c] = "again" /\ user[c] = u /\ what[c] = w
    /\ Set(user, c, u) /\ Set(what, c, w)
    /\ Set(tries, c, tries[c] + 1)
    /\ Set(seen, c, Rows)
    /\ _mcp_tools_call(c, u, w) \/ _mcp_initialize(c, u, w)
    /\ _log_mcp_call(c, outcome'[c])
    /\ UNCHANGED <<work, stale, books>>

(* Turned away before any handler: too many requests, a body too large, no *)
(* JSON, a wrong key.                                                      *)
TurnAway(c, u, w) ==
    /\ IsNext(c)
    /\ Set(user, c, u) /\ Set(what, c, w)
    /\ Set(phase, c, "answered") /\ Set(outcome, c, "refused")
    /\ UNCHANGED <<row, work, tries, seen, stale, books, log>>
-----------------------------------------------------------------------------
(* The tool runs.  Its log is written whatever happens, an error is handed *)
(* on to the endpoint.                                                     *)

_write_execution_log(c, status) == log' = [log EXCEPT ![c] = @ \cup {status}]

execute(c) ==
    /\ phase[c] = "run"
    /\ Set(phase, c, "end")
    /\ \/ Set(work, c, "all") /\ Set(outcome, c, "result") /\ _write_execution_log(c, "success")
       \/ /\ \E w \in {"none", "half"} : Set(work, c, w)
          /\ Set(outcome, c, "error") /\ _write_execution_log(c, "error")
    /\ UNCHANGED <<request, row, stale, books>>

(* The tool flushes what is pending and the clash over the consent row     *)
(* shows there: it is caught and answered as a failure of the tool, and    *)
(* the dead transaction keeps nothing.                                     *)
ClashInTool(c) ==
    /\ phase[c] = "run" /\ c \in stale
    /\ Set(phase, c, "end") /\ Set(row, c, 0) /\ Set(outcome, c, "error")
    /\ _write_execution_log(c, "error")
    /\ stale' = stale \ {c}
    /\ UNCHANGED <<request, work, books>>
-----------------------------------------------------------------------------
(* The call ends                                                           *)

WriteRow(c) ==
    /\ consent' = [consent EXCEPT ![row[c]] = IF what[c] \in Tools THEN "pending" ELSE @]
    /\ session' = [session EXCEPT ![row[c]] = IF what[c] \in Clients THEN "initialized" ELSE @]
    /\ spent' = [spent EXCEPT ![row[c]] = IF work[c] # "none" THEN @ \cup {c} ELSE @]
    /\ stale' = stale \cup (Rewriters(row[c]) \ {c})

(* The answer leaves after the commit.                                     *)
Commit(c) ==
    /\ phase[c] = "end" /\ c \notin stale
    /\ \/ row[c] # 0 /\ WriteRow(c)
       \/ row[c] = 0 /\ UNCHANGED <<consent, session, spent, stale>>
    /\ Set(effect, c, work[c])
    /\ Set(work, c, "none") /\ Set(row, c, 0) /\ Set(seen, c, {})
    /\ Set(phase, c, "answered")
    /\ UNCHANGED <<user, what, tries, outcome, log>>

(* Mutant: the call is run again once too often.                           *)
ClashOnceMore(c) ==
    /\ phase[c] = "end" /\ (c \in stale \/ work[c] # "none")
    /\ stale' = stale \ {c}
    /\ Set(work, c, "none") /\ Set(row, c, 0) /\ Set(seen, c, {})
    /\ tries[c] <= MaxTries
    /\ Set(phase, c, "again") /\ Set(outcome, c, "none")
    /\ UNCHANGED <<user, what, tries, books, log>>

(* Nothing of the transaction is kept; the call is run again.  What a tool *)
(* wrote may clash with any other user of the database.                    *)
Clash(c) ==
    /\ phase[c] = "end" /\ (c \in stale \/ work[c] # "none")
    /\ stale' = stale \ {c}
    /\ Set(work, c, "none") /\ Set(row, c, 0) /\ Set(seen, c, {})
    /\ \/ /\ tries[c] < MaxTries
          /\ Set(phase, c, "again") /\ Set(outcome, c, "none")
       \/ /\ tries[c] = MaxTries
          /\ Set(phase, c, "answered") /\ Set(outcome, c, "error")
    /\ UNCHANGED <<user, what, tries, books, log>>

(* The log of an initialize looks for the session and flushes its row: a   *)
(* clash there is swallowed, the answer is given and nothing is written.   *)
ClashInLog(c) ==
    /\ phase[c] = "end" /\ c \in stale /\ what[c] \in Clients
    /\ stale' = stale \ {c}
    /\ Set(row, c, 0) /\ Set(seen, c, {})
    /\ Set(phase, c, "answered")
    /\ UNCHANGED <<user, what, tries, outcome, work, books, log>>

(* The worker is killed: the transaction is rolled back, the client loses  *)
(* its connection.                                                         *)
Crash(c) ==
    /\ phase[c] \in Open
    /\ stale' = stale \ {c}
    /\ Set(work, c, "none") /\ Set(row, c, 0) /\ Set(seen, c, {})
    /\ Set(phase, c, "answered") /\ Set(outcome, c, "lost")
    /\ UNCHANGED <<user, what, tries, books, log>>
-----------------------------------------------------------------------------
(* The back office.  A form may be stale: its buttons were shown for a     *)
(* pending consent, a live session.                                        *)

Decide(r, s) ==
    /\ consent[r] # "none"
    /\ Set(consent, r, s)
    /\ stale' = stale \cup Rewriters(r)
    /\ UNCHANGED <<phase, request, row, outcome, work, spent, session, effect, log>>

action_grant(r) == Decide(r, "granted")
action_deny(r) == Decide(r, "denied")

terminate(r) ==
    /\ session[r] = "initialized"
    /\ Set(session, r, "terminated")
    /\ stale' = stale \cup Rewriters(r)
    /\ UNCHANGED <<phase, request, row, outcome, work, consent, spent, effect, log>>
-----------------------------------------------------------------------------
Serve(c) ==
    \/ phase[c] = "again" /\ Begin(c, user[c], what[c])
    \/ execute(c) \/ ClashInTool(c)
    \/ Commit(c) \/ Clash(c) \/ ClashInLog(c)

Arrive(c) ==
    \E u \in Users, w \in Tools \cup Clients :
        phase[c] = "idle" /\ (Begin(c, u, w) \/ TurnAway(c, u, w))

BackOffice(r) == action_grant(r) \/ action_deny(r) \/ terminate(r)

McpNext == \E c \in Calls : Arrive(c) \/ Serve(c) \/ Crash(c) \/ BackOffice(c)

McpSpec == McpInit /\ [][McpNext]_mcpVars
-----------------------------------------------------------------------------
(* Properties                                                              *)

(* Every approval pays for one run: however calls overlap, are run again   *)
(* or crash, no call leaves a trace under a consent that was not granted   *)
(* anew since the last one that did (_check_or_request_consent).           *)
Ledger == INSTANCE ConsentLedger WITH
    Requests <- Calls,
    Runs <- Calls,
    armed <- {r \in Calls : consent[r] = "granted"},
    spent <- spent

OneRunPerGrant == Ledger!Spec

(* A user asks for consent to a tool twice, or has two sessions for one    *)
(* client, only if the two calls overlapped: neither could read the        *)
(* other's row (_check_or_request_consent, _mcp_initialize).               *)
NoTwin(c) ==
    /\ consent[c] = "none" /\ consent'[c] = "pending"
        => Consents(user[c], what[c]) \cap seen[c] = {}
    /\ session[c] = "none" /\ session'[c] = "initialized"
        => SessionsOf(user[c], what[c]) \cap seen[c] = {}

TwinsOverlapped == [][\A c \in Calls : NoTwin(c)]_mcpVars
=============================================================================
