-------------------------- MODULE ServiceRequests ---------------------------
(***************************************************************************)
(* Cleaning and maintenance requests of hotel_management_odoo.  As with    *)
(* the folio, the methods write the state without looking at it, and the   *)
(* form decides from the values it last loaded which buttons and fields    *)
(* are there.  What a field holds does not matter here, only whether it is *)
(* filled in.                                                              *)
(***************************************************************************)
EXTENDS Naturals

CONSTANTS
    Cleanings,  \* cleaning.request records
    Repairs,    \* maintenance.request records, made or yet to be made
    Staff,      \* one open form each
    NoRequest

Requests == Cleanings \cup Repairs

ASSUME RequestAssumption == Cleanings \cap Repairs = {} /\ NoRequest \notin Requests

VARIABLES
    stage,      \* their state
    filled,     \* the fields that are filled in
    page,       \* request and state the form of a member of the staff shows
    been,       \* the states a request has been in
    bypassed    \* requests that were written from a form that was out of date

serviceVars == <<stage, filled, page, been, bypassed>>

Stages == {"none", "draft", "team_leader_approve", "pending", "assign", "ongoing",
           "support", "verify", "done"}

(* "details" is what the request's type asks for, filled in.               *)
Fields == {"details", "vehicle", "team", "user", "remarks", "reason", "support"}

ServiceTypeOK ==
    /\ stage \in [Requests -> Stages]
    /\ filled \in [Requests -> SUBSET Fields]
    /\ page \in [Staff -> (Requests \cup {NoRequest}) \X Stages]
    /\ been \in [Requests -> SUBSET Stages]
    /\ bypassed \in SUBSET Requests

(* A cleaning request needs a team; it is in draft.                        *)
ServiceInit ==
    /\ stage = [r \in Requests |-> IF r \in Cleanings THEN "draft" ELSE "none"]
    /\ filled = [r \in Requests |-> IF r \in Cleanings THEN {"team"} ELSE {}]
    /\ page = [u \in Staff |-> <<NoRequest, "none">>]
    /\ been = [r \in Requests |-> {}]
    /\ bypassed = {}
-----------------------------------------------------------------------------
(* Forms                                                                   *)

OpenRequest(u, r) ==
    /\ stage[r] # "none"
    /\ page' = [page EXCEPT ![u] = <<r, stage[r]>>]
    /\ UNCHANGED <<stage, filled, been, bypassed>>

(* Mutant: the assignee's field stays on a repair's form.                  *)
AllRepairFields(s) ==
    {"details", "vehicle", "team", "user"} \cup (CASE s = "ongoing" -> {"remarks", "reason"}
                                         [] s = "support" -> {"support"}
                                         [] OTHER -> {})

(* The fields the form of a repair shows, and that of a cleaning.          *)
RepairFields(s) ==
    {"details", "vehicle", "team"} \cup (CASE s = "team_leader_approve" -> {"user"}
                                [] s = "ongoing" -> {"remarks", "reason"}
                                [] s = "support" -> {"support"}
                                [] OTHER -> {})

CleaningFields(s) ==
    {"details", "user"} \cup (CASE s = "ongoing" -> {"reason"}
                                [] s = "support" -> {"support"}
                                [] OTHER -> {})

(* Whoever writes a request from a form that shows another state of it.    *)
Written(u, r) ==
    bypassed' = IF page[u] = <<r, stage[r]>> THEN bypassed ELSE bypassed \cup {r}

SaveField(u, r) ==
    /\ page[u][1] = r
    /\ \E f \in IF r \in Repairs THEN RepairFields(page[u][2]) ELSE CleaningFields(page[u][2]) :
        filled' = [filled EXCEPT ![r] = IF f \in @ THEN @ \ {f} ELSE @ \cup {f}]
    /\ page' = [page EXCEPT ![u] = <<r, stage[r]>>]
    /\ Written(u, r)
    /\ UNCHANGED <<stage, been>>

(* A button the form shows in state s, that wants these fields filled in.  *)
Shown(u, r, s) == page[u] = <<r, s>>

Move(u, r, needs, s) ==
    /\ needs \subseteq filled[r]
    /\ stage' = [stage EXCEPT ![r] = s]
    /\ been' = [been EXCEPT ![r] = @ \cup {s}]
    /\ page' = [page EXCEPT ![u] = <<r, s>>]
    /\ Written(u, r)
    /\ UNCHANGED filled
-----------------------------------------------------------------------------
(* Maintenance                                                             *)

action_assign_team(u, r) ==
    Shown(u, r, "draft") /\ Move(u, r, {"details", "team"}, "team_leader_approve")

action_assign_user(u, r) ==
    Shown(u, r, "team_leader_approve") /\ Move(u, r, {"user"}, "pending")

action_start(u, r) == Shown(u, r, "pending") /\ Move(u, r, {}, "ongoing")

(* Mutant: a key that is not in the field's selection.                     *)
SupportWrongKey(u, r) == Shown(u, r, "ongoing") /\ Move(u, r, {"reason"}, "supported")

action_support(u, r) == Shown(u, r, "ongoing") /\ Move(u, r, {"reason"}, "support")

action_assign_support(u, r) == Shown(u, r, "support") /\ Move(u, r, {"support"}, "ongoing")

(* Mutant: complete closes the request.                                    *)
CompleteToDone(u, r) == Shown(u, r, "ongoing") /\ Move(u, r, {"remarks"}, "done")

action_complete(u, r) == Shown(u, r, "ongoing") /\ Move(u, r, {"remarks"}, "verify")

(* The vehicle is to become available too.  It has no such field: the      *)
(* request of one cannot be verified.                                      *)
action_verify(u, r) ==
    Shown(u, r, "verify") /\ "vehicle" \notin filled[r] /\ Move(u, r, {}, "done")

Create(r, F) ==
    /\ stage[r] = "none"
    /\ stage' = [stage EXCEPT ![r] = "draft"]
    /\ filled' = [filled EXCEPT ![r] = F]
    /\ UNCHANGED <<page, been, bypassed>>

(* Made by hand, or by a folio with its rooms.                             *)
create(r) == Create(r, {}) \/ Create(r, {"details"}) \/ Create(r, {"details", "vehicle"})
-----------------------------------------------------------------------------
(* Cleaning                                                                *)

action_assign_cleaning(u, r) ==
    Shown(u, r, "draft") /\ Move(u, r, {"user", "details"}, "assign")

action_start_cleaning(u, r) == Shown(u, r, "assign") /\ Move(u, r, {}, "ongoing")

action_done_cleaning(u, r) == Shown(u, r, "ongoing") /\ Move(u, r, {}, "done")

action_assign_support_cleaning(u, r) ==
    Shown(u, r, "ongoing") /\ Move(u, r, {"reason"}, "support")

action_assign_assign_support(u, r) ==
    Shown(u, r, "support") /\ Move(u, r, {"support"}, "ongoing")

(* Something is broken: a maintenance request for what is being cleaned.   *)
(* The button stays.                                                       *)
action_maintain_request(u, r) ==
    /\ Shown(u, r, "ongoing")
    /\ \E m \in Repairs, V \in {{}, {"vehicle"}} :
        /\ V # {} => "details" \in filled[r]
        /\ Create(m, (filled[r] \cap {"details"}) \cup V)
-----------------------------------------------------------------------------
RepairStep(u, r) ==
    \/ OpenRequest(u, r) \/ SaveField(u, r)
    \/ action_assign_team(u, r) \/ action_assign_user(u, r) \/ action_start(u, r)
    \/ action_support(u, r) \/ action_assign_support(u, r)
    \/ action_complete(u, r) \/ action_verify(u, r)

CleaningStep(u, r) ==
    \/ OpenRequest(u, r) \/ SaveField(u, r)
    \/ action_assign_cleaning(u, r) \/ action_start_cleaning(u, r)
    \/ action_done_cleaning(u, r) \/ action_maintain_request(u, r)
    \/ action_assign_support_cleaning(u, r) \/ action_assign_assign_support(u, r)

ServiceNext ==
    \/ \E u \in Staff, r \in Cleanings : CleaningStep(u, r)
    \/ \E u \in Staff, r \in Repairs : RepairStep(u, r)
    \/ \E r \in Repairs : create(r)

ServiceSpec == ServiceInit /\ [][ServiceNext]_serviceVars
-----------------------------------------------------------------------------
(* Properties                                                              *)

(* However old the forms are, no request skips a step on its way: one that *)
(* is done was assigned, accepted, worked on and, if it is for             *)
(* maintenance, completed before (the buttons' conditions).                *)
Way(r) ==
    IF r \in Repairs THEN <<"team_leader_approve", "pending", "ongoing", "verify", "done">>
                     ELSE <<"assign", "ongoing", "done">>

NoStepSkipped ==
    \A r \in Requests : \A i, j \in DOMAIN Way(r) :
        i < j /\ Way(r)[j] \in been[r] => Way(r)[i] \in been[r]

(* Somebody is assigned to every maintenance request under way, unless it  *)
(* was ever written from a form that was out of date: after the            *)
(* assignment the field is no more on the form (action_assign_user).       *)
SomebodyIsOnIt ==
    \A r \in Repairs \ bypassed :
        stage[r] \in {"pending", "ongoing", "support", "verify", "done"} => "user" \in filled[r]
=============================================================================
