--------------------------- MODULE ConsentLedger ----------------------------
(***************************************************************************)
(* What a Consent Approver is promised of a tool that asks for consent:    *)
(* "explicit approval before each run".  A request for consent is armed by *)
(* an approver, disarmed by a denial, and a run that leaves anything in    *)
(* the database uses the approval up.  No HTTP call, transaction or retry  *)
(* appears here; McpGateway shows that the endpoint keeps the promise.     *)
(***************************************************************************)
CONSTANTS Requests, Runs

VARIABLES
    armed,      \* the requests that stand approved
    spent       \* the runs each request has paid for

vars == <<armed, spent>>

Init ==
    /\ armed = {}
    /\ spent = [r \in Requests |-> {}]

Approve(r) == armed' = armed \cup {r} /\ UNCHANGED spent

Refuse(r) == armed' = armed \ {r} /\ UNCHANGED spent

(* One approval, one run.                                                  *)
Run(r, c) ==
    /\ r \in armed
    /\ armed' = armed \ {r}
    /\ spent' = [spent EXCEPT ![r] = @ \cup {c}]

Next ==
    \E r \in Requests : Approve(r) \/ Refuse(r) \/ \E c \in Runs : Run(r, c)

Spec == Init /\ [][Next]_vars
=============================================================================
