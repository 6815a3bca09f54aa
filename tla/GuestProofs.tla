---------------------------- MODULE GuestProofs -----------------------------
(***************************************************************************)
(* Requests for service, room charges and orders from the app, for every   *)
(* number of requests, members of the staff, tills, orders, folios, cards  *)
(* and carts: no request skips a step, a repair under way has somebody on  *)
(* it, an order charged to a room is on the bill of its folio, and stays   *)
(* there, and no point of a customer's cards is lost or spent twice.       *)
(***************************************************************************)
EXTENDS MCGuestServices, FoldLemmas, TLAPS

-----------------------------------------------------------------------------
(* Steps of a request                                                      *)

(* Every state but the first is reached from one the request was in.       *)
RepairWay(B) ==
    /\ "pending" \in B => "team_leader_approve" \in B
    /\ "ongoing" \in B => "pending" \in B
    /\ "support" \in B => "ongoing" \in B
    /\ "verify" \in B => "ongoing" \in B
    /\ "done" \in B => "verify" \in B

CleaningWay(B) ==
    /\ "ongoing" \in B => "assign" \in B
    /\ "support" \in B => "ongoing" \in B
    /\ "done" \in B => "ongoing" \in B

(* What a form shows, the request once was.                                *)
ShownWasReal ==
    \A u \in Staff : page[u][1] \in Requests =>
        /\ stage[page[u][1]] # "none"
        /\ page[u][2] = "draft" \/ page[u][2] \in been[page[u][1]]

StateWasReal == \A r \in Requests : stage[r] \in {"none", "draft"} \cup been[r]

WayInv ==
    /\ ServiceTypeOK /\ ShownWasReal /\ StateWasReal
    /\ \A r \in Repairs : RepairWay(been[r])
    /\ \A r \in Cleanings : CleaningWay(been[r])

LEMMA ServiceTypeStep == ServiceTypeOK /\ [ServiceNext]_serviceVars => ServiceTypeOK'
<1> SUFFICES ASSUME ServiceTypeOK, [ServiceNext]_serviceVars PROVE ServiceTypeOK'
  OBVIOUS
<1> USE DEF ServiceTypeOK
<1>1. ASSUME NEW u \in Staff, NEW r \in Requests, NEW F, NEW s \in Stages, Move(u, r, F, s)
      PROVE  ServiceTypeOK'
  BY <1>1 DEF Move, Written
<1>2. ASSUME NEW u \in Staff, NEW r \in Requests, OpenRequest(u, r) PROVE ServiceTypeOK'
  BY <1>2 DEF OpenRequest
<1>3. ASSUME NEW u \in Staff, NEW r \in Requests, SaveField(u, r) PROVE ServiceTypeOK'
  <2>1. PICK f \in Fields :
           filled' = [filled EXCEPT ![r] = IF f \in @ THEN @ \ {f} ELSE @ \cup {f}]
    <3>1. RepairFields(page[u][2]) \subseteq Fields /\ CleaningFields(page[u][2]) \subseteq Fields
      BY DEF RepairFields, CleaningFields, Fields
    <3> QED
      BY <1>3, <3>1 DEF SaveField
  <2> QED
    BY <1>3, <2>1 DEF SaveField, Written
<1>4. ASSUME NEW r \in Repairs, NEW F \in SUBSET Fields, Create(r, F) PROVE ServiceTypeOK'
  BY <1>4 DEF Create, Requests, Stages
<1>5. CASE UNCHANGED serviceVars
  BY <1>5 DEF serviceVars
<1>6. ASSUME NEW u \in Staff, NEW r \in Repairs, RepairStep(u, r) PROVE ServiceTypeOK'
  BY <1>1, <1>2, <1>3, <1>6
     DEF RepairStep, action_assign_team, action_assign_user, action_start, action_support,
         action_assign_support, action_complete, action_verify, Stages, Requests
<1>7. ASSUME NEW u \in Staff, NEW r \in Cleanings, CleaningStep(u, r) PROVE ServiceTypeOK'
  <2>1. ASSUME action_maintain_request(u, r) PROVE ServiceTypeOK'
    <3>1. PICK m \in Repairs, V \in {{}, {"vehicle"}} :
             Create(m, (filled[r] \cap {"details"}) \cup V)
      BY <2>1 DEF action_maintain_request
    <3>2. (filled[r] \cap {"details"}) \cup V \in SUBSET Fields
      BY DEF Fields
    <3> QED
      BY <1>4, <3>1, <3>2
  <2> QED
    BY <1>1, <1>2, <1>3, <1>7, <2>1
       DEF CleaningStep, action_assign_cleaning, action_start_cleaning, action_done_cleaning,
           action_assign_support_cleaning, action_assign_assign_support, Stages, Requests
<1>8. ASSUME NEW r \in Repairs, create(r) PROVE ServiceTypeOK'
  <2>1. /\ {} \in SUBSET Fields /\ {"details"} \in SUBSET Fields
        /\ {"details", "vehicle"} \in SUBSET Fields
    BY DEF Fields
  <2> QED
    BY <1>4, <1>8, <2>1 DEF create
<1> QED
  BY <1>5, <1>6, <1>7, <1>8 DEF ServiceNext

LEMMA ServiceTypeStart == ServiceInit => ServiceTypeOK
BY RequestAssumption DEF ServiceInit, ServiceTypeOK, Requests, Stages, Fields

RepairMove(from, s) ==
    \/ from = "draft" /\ s = "team_leader_approve"
    \/ from = "team_leader_approve" /\ s = "pending"
    \/ from = "pending" /\ s = "ongoing"
    \/ from = "ongoing" /\ s \in {"support", "verify"}
    \/ from = "support" /\ s = "ongoing"
    \/ from = "verify" /\ s = "done"

CleaningMove(from, s) ==
    \/ from = "draft" /\ s = "assign"
    \/ from = "assign" /\ s = "ongoing"
    \/ from = "ongoing" /\ s \in {"support", "done"}
    \/ from = "support" /\ s = "ongoing"

(* A button moves the request to s from the state that the form shows.     *)
LEMMA MoveOnWay ==
    ASSUME WayInv, ServiceTypeOK', NEW u \in Staff, NEW r \in Requests, NEW F,
           NEW s \in Stages \ {"none"}, NEW from \in Stages, Shown(u, r, from), Move(u, r, F, s),
           (r \in Repairs /\ RepairMove(from, s)) \/ (r \in Cleanings /\ CleaningMove(from, s))
    PROVE  WayInv'
<1> USE DEF WayInv, ServiceTypeOK
<1>1. /\ been' = [been EXCEPT ![r] = @ \cup {s}] /\ stage' = [stage EXCEPT ![r] = s]
      /\ page' = [page EXCEPT ![u] = <<r, s>>]
  BY DEF Move
<1>2. from = "draft" \/ from \in been[r]
  <2>1. page[u][1] = r /\ page[u][2] = from
    BY DEF Shown
  <2> QED
    BY <2>1 DEF ShownWasReal
<1>3. ShownWasReal'
  BY <1>1 DEF ShownWasReal
<1>4. StateWasReal'
  BY <1>1 DEF StateWasReal
<1>5. \A q \in Repairs : RepairWay(been'[q])
  <2> SUFFICES ASSUME r \in Repairs PROVE RepairWay(been[r] \cup {s})
    BY <1>1
  <2>0. RepairMove(from, s)
    BY RequestAssumption
  <2>1. RepairWay(been[r])
    OBVIOUS
  <2> QED
    BY <1>2, <2>0, <2>1 DEF RepairWay, RepairMove
<1>6. \A q \in Cleanings : CleaningWay(been'[q])
  <2> SUFFICES ASSUME r \in Cleanings PROVE CleaningWay(been[r] \cup {s})
    BY <1>1
  <2>0. CleaningMove(from, s)
    BY RequestAssumption
  <2>1. CleaningWay(been[r])
    OBVIOUS
  <2> QED
    BY <1>2, <2>0, <2>1 DEF CleaningWay, CleaningMove
<1> QED
  BY <1>3, <1>4, <1>5, <1>6

LEMMA WayStep == WayInv /\ [ServiceNext]_serviceVars => WayInv'
<1> SUFFICES ASSUME WayInv, [ServiceNext]_serviceVars PROVE WayInv'
  OBVIOUS
<1>1. ServiceTypeOK'
  BY ServiceTypeStep DEF WayInv
<1>2. ASSUME NEW u \in Staff, NEW r \in Requests, OpenRequest(u, r) \/ SaveField(u, r)
      PROVE  WayInv'
  <2>1. been' = been /\ stage' = stage /\ page' = [page EXCEPT ![u] = <<r, stage[r]>>]
        /\ stage[r] # "none"
    BY <1>2 DEF OpenRequest, SaveField, WayInv, ShownWasReal
  <2>2. ShownWasReal'
    BY <2>1 DEF ShownWasReal, StateWasReal, WayInv, ServiceTypeOK
  <2>3. StateWasReal'
    BY <2>1 DEF WayInv, StateWasReal
  <2> QED
    BY <1>1, <2>1, <2>2, <2>3 DEF WayInv
<1>3. ASSUME NEW r \in Repairs, NEW F, Create(r, F) PROVE WayInv'
  BY <1>1, <1>3 DEF Create, WayInv, ShownWasReal, StateWasReal, ServiceTypeOK, Requests
<1>4. CASE UNCHANGED serviceVars
  BY <1>1, <1>4 DEF serviceVars, WayInv, ShownWasReal, StateWasReal
<1>5. ASSUME NEW u \in Staff, NEW r \in Repairs, RepairStep(u, r) PROVE WayInv'
  <2>1. r \in Requests /\ r \notin Cleanings
    BY RequestAssumption DEF Requests
  <2>2. ASSUME NEW F, NEW from \in Stages, NEW s \in Stages \ {"none"},
               Shown(u, r, from), Move(u, r, F, s), RepairMove(from, s)
        PROVE  WayInv'
    BY <1>1, <2>1, <2>2, MoveOnWay
  <2>3. {"draft", "team_leader_approve", "pending", "ongoing", "support", "verify", "done"}
           \subseteq Stages \ {"none"}
    BY DEF Stages
  <2>4. CASE action_assign_team(u, r) \/ action_assign_user(u, r) \/ action_start(u, r)
    BY <2>2, <2>3, <2>4 DEF RepairMove, CleaningMove, action_assign_team, action_assign_user, action_start
  <2>5. CASE action_support(u, r) \/ action_assign_support(u, r)
    BY <2>2, <2>3, <2>5 DEF RepairMove, CleaningMove, action_support, action_assign_support
  <2>6. CASE action_complete(u, r) \/ action_verify(u, r)
    BY <2>2, <2>3, <2>6 DEF RepairMove, CleaningMove, action_complete, action_verify
  <2> QED
    BY <1>2, <1>5, <2>1, <2>4, <2>5, <2>6 DEF RepairStep
<1>6. ASSUME NEW u \in Staff, NEW r \in Cleanings, CleaningStep(u, r) PROVE WayInv'
  <2>1. r \in Requests /\ r \notin Repairs
    BY RequestAssumption DEF Requests
  <2>2. ASSUME NEW F, NEW from \in Stages, NEW s \in Stages \ {"none"},
               Shown(u, r, from), Move(u, r, F, s), CleaningMove(from, s)
        PROVE  WayInv'
    BY <1>1, <2>1, <2>2, MoveOnWay
  <2>3. {"draft", "assign", "ongoing", "support", "done"} \subseteq Stages \ {"none"}
    BY DEF Stages
  <2>4. CASE action_assign_cleaning(u, r) \/ action_start_cleaning(u, r)
             \/ action_done_cleaning(u, r)
    BY <2>2, <2>3, <2>4 DEF RepairMove, CleaningMove, action_assign_cleaning, action_start_cleaning, action_done_cleaning
  <2>5. CASE action_assign_support_cleaning(u, r) \/ action_assign_assign_support(u, r)
    BY <2>2, <2>3, <2>5 DEF RepairMove, CleaningMove, action_assign_support_cleaning, action_assign_assign_support
  <2>6. CASE action_maintain_request(u, r)
    BY <1>3, <2>6 DEF action_maintain_request
  <2> QED
    BY <1>2, <1>6, <2>1, <2>4, <2>5, <2>6 DEF CleaningStep
<1> QED
  BY <1>3, <1>4, <1>5, <1>6 DEF ServiceNext, create

(* No request is done that was not assigned, worked on and, for repairs,   *)
(* verified before, whatever forms are out of date.                        *)
THEOREM NoneSkips == ServiceSpec => []NoStepSkipped
<1>1. ASSUME ServiceInit PROVE WayInv
  BY <1>1, RequestAssumption
     DEF ServiceInit, WayInv, ServiceTypeOK, ShownWasReal, StateWasReal, RepairWay, CleaningWay,
         Requests, Stages, Fields
<1>2. ASSUME WayInv PROVE NoStepSkipped
  <2> SUFFICES ASSUME NEW r \in Requests, NEW i \in DOMAIN Way(r), NEW j \in DOMAIN Way(r),
                      i < j, Way(r)[j] \in been[r]
               PROVE  Way(r)[i] \in been[r]
    BY DEF NoStepSkipped
  <2>1. CASE r \in Repairs
    <3>1. Way(r) = <<"team_leader_approve", "pending", "ongoing", "verify", "done">>
      BY <2>1 DEF Way
    <3>2. i \in 1 .. 5 /\ j \in 1 .. 5
      BY <3>1
    <3> QED
      BY <1>2, <2>1, <3>1, <3>2 DEF WayInv, RepairWay
  <2>2. CASE r \notin Repairs
    <3>1. Way(r) = <<"assign", "ongoing", "done">> /\ r \in Cleanings
      BY <2>2 DEF Way, Requests
    <3>2. i \in 1 .. 3 /\ j \in 1 .. 3
      BY <3>1
    <3> QED
      BY <1>2, <3>1, <3>2 DEF WayInv, CleaningWay
  <2> QED
    BY <2>1, <2>2
<1> QED
  BY <1>1, <1>2, WayStep, PTL DEF ServiceSpec
-----------------------------------------------------------------------------
(* Somebody on every repair                                                *)

UnderWay == {"pending", "ongoing", "support", "verify", "done"}

LEMMA NoUserField == ASSUME NEW s \in UnderWay PROVE "user" \notin RepairFields(s)
<1>1. CASE s = "ongoing"
  BY <1>1 DEF RepairFields
<1>2. CASE s = "support"
  BY <1>2 DEF RepairFields
<1>3. CASE s = "pending" \/ s = "verify" \/ s = "done"
  BY <1>3 DEF RepairFields
<1> QED
  BY <1>1, <1>2, <1>3 DEF UnderWay

(* A button that wants the assignee, or is there while one is required,    *)
(* keeps somebody on the request.                                          *)
LEMMA MoveKeepsUser ==
    ASSUME ServiceTypeOK, SomebodyIsOnIt, NEW u \in Staff, NEW q \in Requests, NEW F,
           NEW from \in Stages, NEW s, Shown(u, q, from), Move(u, q, F, s),
           s \in UnderWay => "user" \in F \/ from \in UnderWay
    PROVE  SomebodyIsOnIt'
<1> USE DEF ServiceTypeOK
<1>1. /\ F \subseteq filled[q] /\ filled' = filled /\ stage' = [stage EXCEPT ![q] = s]
      /\ page[u] = <<q, from>>
  BY DEF Move, Shown
<1>2. /\ bypassed \subseteq bypassed'
      /\ q \notin bypassed' => from = stage[q]
  BY <1>1 DEF Move, Written
<1> SUFFICES ASSUME NEW r \in Repairs, r \notin bypassed', stage'[r] \in UnderWay
             PROVE  "user" \in filled[r]
  BY <1>1 DEF SomebodyIsOnIt, UnderWay
<1>3. r \notin bypassed /\ r \in Requests
  BY <1>2 DEF Requests
<1>4. CASE r # q
  BY <1>1, <1>3, <1>4 DEF SomebodyIsOnIt, UnderWay
<1>5. CASE r = q
  <2>1. s \in UnderWay /\ from = stage[r]
    BY <1>1, <1>2, <1>3, <1>5
  <2> QED
    BY <1>1, <1>3, <1>5, <2>1 DEF SomebodyIsOnIt, UnderWay
<1> QED
  BY <1>4, <1>5

LEMMA UserStep ==
    ServiceTypeOK /\ SomebodyIsOnIt /\ [ServiceNext]_serviceVars => SomebodyIsOnIt'
<1> SUFFICES ASSUME ServiceTypeOK, SomebodyIsOnIt, [ServiceNext]_serviceVars
             PROVE  SomebodyIsOnIt'
  OBVIOUS
<1>1. ASSUME NEW u \in Staff, NEW q \in Requests, OpenRequest(u, q) PROVE SomebodyIsOnIt'
  BY <1>1 DEF OpenRequest, SomebodyIsOnIt
<1>2. ASSUME NEW q \in Repairs, NEW F, Create(q, F) PROVE SomebodyIsOnIt'
  BY <1>2 DEF Create, SomebodyIsOnIt, ServiceTypeOK, Requests
<1>3. ASSUME NEW u \in Staff, NEW q \in Requests, SaveField(u, q) PROVE SomebodyIsOnIt'
  <2> SUFFICES ASSUME NEW r \in Repairs, r \notin bypassed', stage[r] \in UnderWay
               PROVE  "user" \in filled'[r]
    BY <1>3 DEF SaveField, SomebodyIsOnIt, UnderWay
  <2>1. r \notin bypassed /\ r \in Requests /\ (r = q => page[u] = <<q, stage[q]>>)
    BY <1>3 DEF SaveField, Written, Requests
  <2>2. "user" \in filled[r]
    BY <2>1 DEF SomebodyIsOnIt, UnderWay
  <2>3. CASE r # q
    BY <1>3, <2>1, <2>2, <2>3 DEF SaveField, ServiceTypeOK
  <2>4. CASE r = q
    <3>1. PICK f \in RepairFields(stage[q]) :
             filled' = [filled EXCEPT ![q] = IF f \in @ THEN @ \ {f} ELSE @ \cup {f}]
      <4>1. page[u] = <<q, stage[q]>> /\ q \in Repairs
        BY <2>1, <2>4
      <4>2. page[u][2] = stage[q]
        BY <4>1
      <4> QED
        BY <1>3, <4>1, <4>2 DEF SaveField
    <3>2. f # "user"
      BY <2>4, NoUserField, <3>1
    <3> QED
      BY <2>1, <2>2, <2>4, <3>1, <3>2 DEF ServiceTypeOK
  <2> QED
    BY <2>3, <2>4
<1>4. CASE UNCHANGED serviceVars
  BY <1>4 DEF serviceVars, SomebodyIsOnIt
<1>5. ASSUME NEW u \in Staff, NEW q \in Repairs, RepairStep(u, q) PROVE SomebodyIsOnIt'
  <2>1. q \in Requests
    BY DEF Requests
  <2>2. CASE action_assign_team(u, q) \/ action_assign_user(u, q) \/ action_start(u, q)
    BY <2>1, <2>2, MoveKeepsUser
       DEF action_assign_team, action_assign_user, action_start, UnderWay, Stages
  <2>3. CASE action_support(u, q) \/ action_assign_support(u, q)
    BY <2>1, <2>3, MoveKeepsUser DEF action_support, action_assign_support, UnderWay, Stages
  <2>4. CASE action_complete(u, q) \/ action_verify(u, q)
    BY <2>1, <2>4, MoveKeepsUser DEF action_complete, action_verify, UnderWay, Stages
  <2> QED
    BY <1>1, <1>3, <1>5, <2>1, <2>2, <2>3, <2>4 DEF RepairStep
<1>6. ASSUME NEW u \in Staff, NEW q \in Cleanings, CleaningStep(u, q) PROVE SomebodyIsOnIt'
  <2>1. q \in Requests /\ q \notin Repairs
    BY RequestAssumption DEF Requests
  <2>2. ASSUME NEW F, NEW s, Move(u, q, F, s) PROVE SomebodyIsOnIt'
    BY <2>1, <2>2 DEF Move, Written, SomebodyIsOnIt, ServiceTypeOK
  <2>3. CASE action_maintain_request(u, q)
    BY <1>2, <2>3 DEF action_maintain_request
  <2> QED
    BY <1>1, <1>3, <1>6, <2>1, <2>2, <2>3
       DEF CleaningStep, action_assign_cleaning, action_start_cleaning, action_done_cleaning,
           action_assign_support_cleaning, action_assign_assign_support
<1> QED
  BY <1>2, <1>4, <1>5, <1>6 DEF ServiceNext, create

(* A repair that was never written from an old form has somebody assigned  *)
(* from the assignment on: the field is not on its form any more.          *)
THEOREM SomebodyOnRepairs == ServiceSpec => []SomebodyIsOnIt
<1>1. ServiceInit => ServiceTypeOK /\ SomebodyIsOnIt
  BY RequestAssumption
     DEF ServiceInit, ServiceTypeOK, SomebodyIsOnIt, Requests, Stages, Fields
<1> QED
  BY <1>1, ServiceTypeStep, UserStep, PTL DEF ServiceSpec

-----------------------------------------------------------------------------
(* Room charges                                                            *)

(* A till that has taken a room charge has the room and the invoice, an    *)
(* order that is not paid has no invoice yet, and one that was paid with a *)
(* charge is linked to a folio, the one it names if it names any, and its  *)
(* invoice is the guest's to settle.                                       *)
TillAsked ==
    \A t \in Tills, o \in Orders :
        LET c == copy[t][o] IN
          c.done /\ posted[o].state # "paid" /\ "hotel" \in c.pays =>
              c.room \in Folios /\ c.toInvoice

InvoiceIsLate == \A o \in Orders : posted[o].state # "paid" => invoice[o] = "none"

ChargeLinked ==
    \A o \in Orders : posted[o].state = "paid" /\ "hotel" \in posted[o].pays =>
        /\ linked[o] \in Folios /\ posted[o].room \in {linked[o], NoRoom}
        /\ o \notin stray => posted[o].room # NoRoom
        /\ invoice[o] \in {"not_paid", "settled"}

BillInv == PosTypeOK /\ TillAsked /\ InvoiceIsLate /\ ChargeLinked

(* What only changes a till's copy.                                        *)
LEMMA TillStep ==
    ASSUME BillInv, NEW t \in Tills, NEW o \in Orders,
           copy' \in [Tills -> [Orders -> Copies]],
           \A u \in Tills, p \in Orders : u # t \/ p # o => copy'[u][p] = copy[u][p],
           copy'[t][o].done /\ posted[o].state # "paid" /\ "hotel" \in copy'[t][o].pays =>
               copy'[t][o].room \in Folios /\ copy'[t][o].toInvoice,
           popup' \in [Tills -> SUBSET Folios], UNCHANGED <<posted, linked, invoice, stay, office>>
    PROVE  BillInv'
<1> USE DEF BillInv, office
<1>1. PosTypeOK'
  BY DEF PosTypeOK
<1>2. TillAsked'
  <2> SUFFICES ASSUME NEW u \in Tills, NEW p \in Orders,
                      copy'[u][p].done, posted[p].state # "paid", "hotel" \in copy'[u][p].pays
               PROVE  copy'[u][p].room \in Folios /\ copy'[u][p].toInvoice
    BY DEF TillAsked
  <2>1. CASE u = t /\ p = o
    BY <2>1
  <2>2. CASE u # t \/ p # o
    BY <2>2 DEF TillAsked
  <2> QED
    BY <2>1, <2>2
<1>3. InvoiceIsLate' /\ ChargeLinked'
  BY DEF InvoiceIsLate, ChargeLinked
<1> QED
  BY <1>1, <1>2, <1>3

LEMMA TillActions ==
    ASSUME BillInv, NEW t \in Tills, NEW o \in Orders,
           \/ NewOrder(t, o) \/ SwitchInvoice(t, o) \/ validateOrder(t, o) \/ Load(t, o)
           \/ \E m \in Methods : addNewPaymentLine(t, o, m) \/ TakeBack(t, o, m)
    PROVE  BillInv'
<1>0. /\ popup \in [Tills -> SUBSET Folios]
      /\ copy \in [Tills -> [Orders -> Copies]] /\ copy[t][o] \in Copies
      /\ posted[o].pays \in SUBSET Methods /\ posted[o].toInvoice \in BOOLEAN
      /\ copy[t][o].done /\ posted[o].state # "paid" /\ "hotel" \in copy[t][o].pays =>
             copy[t][o].room \in Folios /\ copy[t][o].toInvoice
  BY DEF BillInv, PosTypeOK, TillAsked
<1>1. ASSUME NEW c \in Copies, copy' = [copy EXCEPT ![t] = [@ EXCEPT ![o] = c]],
             c.done /\ posted[o].state # "paid" /\ "hotel" \in c.pays =>
                 c.room \in Folios /\ c.toInvoice,
             UNCHANGED <<popup, posted, linked, invoice, stay, office>>
      PROVE  BillInv'
  <2>1. /\ copy' \in [Tills -> [Orders -> Copies]] /\ copy'[t][o] = c
        /\ \A u \in Tills, p \in Orders : u # t \/ p # o => copy'[u][p] = copy[u][p]
    BY <1>0, <1>1
  <2> QED
    BY <1>0, <1>1, <2>1, TillStep
<1>2. CASE NewOrder(t, o)
  <2> DEFINE c == [copy[t][o] EXCEPT !.here = TRUE]
  <2>1. c \in Copies /\ c.done = copy[t][o].done /\ c.pays = copy[t][o].pays
        /\ c.room = copy[t][o].room /\ c.toInvoice = copy[t][o].toInvoice
    BY <1>0 DEF Copies
  <2>2. copy' = [copy EXCEPT ![t] = [@ EXCEPT ![o] = c]]
    BY <1>0, <1>2 DEF NewOrder
  <2> HIDE DEF c
  <2> QED
    BY <1>0, <1>1, <1>2, <2>1, <2>2 DEF NewOrder
<1>3. CASE SwitchInvoice(t, o)
  <2> DEFINE c == [copy[t][o] EXCEPT !.toInvoice = ~@]
  <2>1. c \in Copies /\ ~c.done
    BY <1>0, <1>3 DEF Copies, SwitchInvoice, Open
  <2>2. copy' = [copy EXCEPT ![t] = [@ EXCEPT ![o] = c]]
    BY <1>0, <1>3 DEF SwitchInvoice
  <2> HIDE DEF c
  <2> QED
    BY <1>1, <1>3, <2>1, <2>2 DEF SwitchInvoice
<1>4. CASE validateOrder(t, o)
  <2> DEFINE c == [copy[t][o] EXCEPT !.done = TRUE]
  <2>1. c \in Copies /\ ("hotel" \in c.pays => c.room \in Folios /\ c.toInvoice)
    BY <1>0, <1>4 DEF Copies, validateOrder, Rooms
  <2>2. copy' = [copy EXCEPT ![t] = [@ EXCEPT ![o] = c]]
    BY <1>0, <1>4 DEF validateOrder
  <2> HIDE DEF c
  <2> QED
    BY <1>1, <1>4, <2>1, <2>2 DEF validateOrder
<1>5. CASE Load(t, o)
  <2> DEFINE c == [copy[t][o] EXCEPT !.here = TRUE, !.pays = posted[o].pays,
                                     !.toInvoice = posted[o].toInvoice,
                                     !.done = posted[o].state = "paid"]
  <2>1. c \in Copies /\ (c.done => posted[o].state = "paid")
    BY <1>0 DEF Copies
  <2>2. copy' = [copy EXCEPT ![t] = [@ EXCEPT ![o] = c]]
    BY <1>0, <1>5 DEF Load
  <2> HIDE DEF c
  <2> QED
    BY <1>1, <1>5, <2>1, <2>2 DEF Load
<1>6. ASSUME NEW m \in Methods, addNewPaymentLine(t, o, m) PROVE BillInv'
  <2> DEFINE c == [copy[t][o] EXCEPT !.pays = @ \cup {m}, !.toInvoice = @ \/ m = "hotel"]
  <2>1. c \in Copies /\ ~c.done
    BY <1>0, <1>6 DEF Copies, addNewPaymentLine, Open
  <2>2. copy' = [copy EXCEPT ![t] = [@ EXCEPT ![o] = c]]
    BY <1>0, <1>6 DEF addNewPaymentLine
  <2> HIDE DEF c
  <2> QED
    BY <1>1, <1>6, <2>1, <2>2 DEF addNewPaymentLine
<1>7. ASSUME NEW m \in Methods, TakeBack(t, o, m) PROVE BillInv'
  <2> DEFINE c == [copy[t][o] EXCEPT !.pays = @ \ {m}]
  <2>1. c \in Copies /\ ~c.done
    BY <1>0, <1>7 DEF Copies, TakeBack, Open
  <2>2. copy' = [copy EXCEPT ![t] = [@ EXCEPT ![o] = c]]
    BY <1>0, <1>7 DEF TakeBack
  <2> HIDE DEF c
  <2> QED
    BY <1>1, <1>7, <2>1, <2>2 DEF TakeBack
<1> QED
  BY <1>2, <1>3, <1>4, <1>5, <1>6, <1>7

LEMMA ServerActions ==
    ASSUME BillInv, NEW o \in Orders,
           \/ \E t \in Tills : _process_order(t, o)
           \/ \E room \in Rooms : write(o, room)
           \/ RegisterPayment(o) \/ OpenForm(o)
    PROVE  BillInv'
<1> USE DEF BillInv, office
<1>1. ASSUME NEW t \in Tills, _process_order(t, o) PROVE BillInv'
  <2> DEFINE new == serializeForORM(copy[t][o])
  <2>1. /\ copy[t][o] \in Copies /\ posted[o].state # "paid"
        /\ posted' = [posted EXCEPT ![o] = new] /\ UNCHANGED <<copy, popup, stay, office>>
        /\ _ensure_hotel_pos_line(o, new.room) /\ _generate_pos_order_invoice(o, new)
    BY <1>1 DEF _process_order, PosTypeOK
  <2>2. /\ new \in [room : Rooms, pays : SUBSET Methods, toInvoice : BOOLEAN,
                     state : {"none", "draft", "paid"}]
        /\ new.state # "none" /\ (new.state = "paid" => copy[t][o].done)
        /\ new.room = copy[t][o].room /\ new.pays = copy[t][o].pays
        /\ new.toInvoice = copy[t][o].toInvoice
    BY <2>1 DEF serializeForORM, Copies
  <2>3. new.state = "paid" /\ "hotel" \in new.pays => new.room \in Folios /\ new.toInvoice
    BY <2>1, <2>2 DEF TillAsked
  <2> HIDE DEF new
  <2>4. /\ invoice' \in [Orders -> {"none", "not_paid", "reconciled", "settled"}]
        /\ \A p \in Orders \ {o} : invoice'[p] = invoice[p]
        /\ new.state # "paid" => invoice'[o] = "none"
        /\ new.state = "paid" /\ "hotel" \in new.pays => invoice'[o] = "not_paid"
    BY <2>1, <2>2, <2>3 DEF _generate_pos_order_invoice, PosTypeOK, InvoiceIsLate
  <2>5. /\ linked' \in [Orders -> Rooms] /\ \A p \in Orders \ {o} : linked'[p] = linked[p]
        /\ new.room \in Folios => linked'[o] = new.room
    BY <2>1, <2>2, HotelPosAssumption DEF _ensure_hotel_pos_line, PosTypeOK, Rooms
  <2>6. PosTypeOK'
    BY <2>1, <2>2, <2>4, <2>5 DEF PosTypeOK
  <2>7. /\ posted'[o] = new /\ \A p \in Orders \ {o} : posted'[p] = posted[p]
    BY <2>1 DEF PosTypeOK
  <2>8. TillAsked'
    BY <2>1, <2>7 DEF TillAsked
  <2>9. InvoiceIsLate'
    BY <2>4, <2>7 DEF InvoiceIsLate
  <2>10. ChargeLinked'
    <3> SUFFICES ASSUME NEW p \in Orders, posted'[p].state = "paid",
                        "hotel" \in posted'[p].pays
                 PROVE  /\ linked'[p] \in Folios /\ posted'[p].room \in {linked'[p], NoRoom}
                        /\ p \notin stray' => posted'[p].room # NoRoom
                        /\ invoice'[p] \in {"not_paid", "settled"}
      BY DEF ChargeLinked
    <3>1. CASE p = o
      BY <2>3, <2>4, <2>5, <2>7, <3>1, HotelPosAssumption
    <3>2. CASE p # o
      BY <2>1, <2>4, <2>5, <2>7, <3>2 DEF ChargeLinked
    <3> QED
      BY <3>1, <3>2
  <2> QED
    BY <2>6, <2>8, <2>9, <2>10
<1>2. ASSUME NEW room \in Rooms, write(o, room) PROVE BillInv'
  <2>1. /\ posted'[o] = [posted[o] EXCEPT !.room = room]
        /\ linked'[o] = IF room = NoRoom THEN linked[o] ELSE room
        /\ \A p \in Orders \ {o} : posted'[p] = posted[p] /\ linked'[p] = linked[p]
        /\ posted[o].state # "draft" => o \in stray'
        /\ stray \subseteq stray' /\ UNCHANGED <<copy, popup, invoice, stay>>
    BY <1>2 DEF write, Write, _ensure_hotel_pos_line, PosTypeOK
  <2>2. PosTypeOK'
    BY <1>2 DEF write, Write, Reload, _ensure_hotel_pos_line, PosTypeOK
  <2>3. /\ posted'[o].state = posted[o].state /\ posted'[o].pays = posted[o].pays
        /\ posted'[o].room = room
    BY <2>1 DEF PosTypeOK
  <2>4. \A p \in Orders : posted'[p].state = posted[p].state
    BY <2>1, <2>3
  <2>5. TillAsked' /\ InvoiceIsLate'
    BY <2>1, <2>4 DEF TillAsked, InvoiceIsLate
  <2>6. ChargeLinked'
    <3> SUFFICES ASSUME NEW p \in Orders, posted'[p].state = "paid",
                        "hotel" \in posted'[p].pays
                 PROVE  /\ linked'[p] \in Folios /\ posted'[p].room \in {linked'[p], NoRoom}
                        /\ p \notin stray' => posted'[p].room # NoRoom
                        /\ invoice'[p] \in {"not_paid", "settled"}
      BY DEF ChargeLinked
    <3>1. CASE p = o
      BY <2>1, <2>3, <3>1 DEF ChargeLinked, Rooms
    <3>2. CASE p # o
      BY <2>1, <3>2 DEF ChargeLinked
    <3> QED
      BY <3>1, <3>2
  <2> QED
    BY <2>2, <2>5, <2>6
<1>3. CASE RegisterPayment(o)
  <2>1. posted[o].state = "paid"
    BY <1>3 DEF RegisterPayment, InvoiceIsLate
  <2> QED
    BY <1>3, <2>1 DEF RegisterPayment, PosTypeOK, TillAsked, InvoiceIsLate, ChargeLinked
<1>4. CASE OpenForm(o)
  BY <1>4 DEF OpenForm, Reload, PosTypeOK, TillAsked, InvoiceIsLate, ChargeLinked
<1> QED
  BY <1>1, <1>2, <1>3, <1>4

LEMMA BillStep == BillInv /\ [PosNext]_posVars => BillInv'
<1> SUFFICES ASSUME BillInv, [PosNext]_posVars PROVE BillInv'
  OBVIOUS
<1>1. ASSUME NEW t \in Tills, onClickAddRoom(t) PROVE BillInv'
  BY <1>1 DEF onClickAddRoom, office, BillInv, PosTypeOK, TillAsked, InvoiceIsLate, ChargeLinked
<1>2. ASSUME NEW t \in Tills, setBooking(t) PROVE BillInv'
  <2>1. popup' \in [Tills -> SUBSET Folios] /\ UNCHANGED <<posted, linked, invoice, stay, office>>
    BY <1>2 DEF setBooking, BillInv, PosTypeOK
  <2>2. CASE UNCHANGED copy
    BY <2>1, <2>2 DEF office, BillInv, PosTypeOK, TillAsked, InvoiceIsLate, ChargeLinked
  <2>3. ASSUME NEW o \in Orders, NEW f \in popup[t], copy' = [copy EXCEPT ![t][o].room = f]
        PROVE  BillInv'
    <3> DEFINE c == [copy[t][o] EXCEPT !.room = f]
    <3>1. /\ copy \in [Tills -> [Orders -> Copies]] /\ copy[t][o] \in Copies /\ f \in Folios
      BY DEF BillInv, PosTypeOK
    <3>2. /\ c \in Copies /\ c.done = copy[t][o].done /\ c.pays = copy[t][o].pays
          /\ c.room \in Folios /\ c.toInvoice = copy[t][o].toInvoice
      BY <3>1 DEF Copies, Rooms
    <3>3. copy' = [copy EXCEPT ![t] = [@ EXCEPT ![o] = c]]
      BY <2>3, <3>1
    <3> HIDE DEF c
    <3>4. /\ copy' \in [Tills -> [Orders -> Copies]] /\ copy'[t][o] = c
          /\ \A u \in Tills, p \in Orders : u # t \/ p # o => copy'[u][p] = copy[u][p]
      BY <3>1, <3>2, <3>3
    <3>5. c.done /\ posted[o].state # "paid" /\ "hotel" \in c.pays =>
             c.room \in Folios /\ c.toInvoice
      BY <3>2 DEF BillInv, TillAsked
    <3> QED
      BY <2>1, <3>4, <3>5, TillStep
  <2> QED
    BY <1>2, <2>2, <2>3 DEF setBooking
<1>3. ASSUME NEW f \in Folios, LeaveRoom(f) PROVE BillInv'
  BY <1>3 DEF LeaveRoom, office, BillInv, PosTypeOK, TillAsked, InvoiceIsLate, ChargeLinked
<1>4. CASE UNCHANGED posVars
  BY <1>4 DEF posVars, office, BillInv, PosTypeOK, TillAsked, InvoiceIsLate, ChargeLinked
<1> QED
  BY <1>1, <1>2, <1>3, <1>4, TillActions, ServerActions DEF PosNext

LEMMA BillStart == PosInit => BillInv
BY HotelPosAssumption
   DEF PosInit, BillInv, PosTypeOK, TillAsked, InvoiceIsLate, ChargeLinked, Copies, Rooms,
       Methods, initState

(* Through whatever tills it went, an order paid with a room charge is on  *)
(* the bill of a folio and its invoice is left to the guest.  The folio is *)
(* the one it names; only a form that was out of date can leave it none.   *)
THEOREM ChargeOnBill == PosSpec => []ChargedIsBilled
<1>1. BillInv => ChargedIsBilled
  BY DEF BillInv, ChargeLinked, ChargedIsBilled, _compute_pos_invoice_count, _calculate_amounts
<1> QED
  BY <1>1, BillStart, BillStep, PTL DEF PosSpec

(* Nothing that comes after the payment moves the order to another bill,   *)
(* but a form that was loaded before it.                                   *)
THEOREM PaidIsFixed == PosSpec => PaidStaysBilled
<1> DEFINE Fixed == \A o \in Orders \ stray' : posted[o].state = "paid" =>
                        linked'[o] = linked[o] /\ posted'[o] = posted[o]
<1>1. PosTypeOK /\ [PosNext]_posVars => [Fixed]_posVars
  <2> SUFFICES ASSUME PosTypeOK, [PosNext]_posVars, NEW o \in Orders \ stray',
                      posted[o].state = "paid"
               PROVE  linked'[o] = linked[o] /\ posted'[o] = posted[o]
    OBVIOUS
  <2>1. ASSUME NEW t \in Tills, NEW p \in Orders, _process_order(t, p)
        PROVE  linked'[o] = linked[o] /\ posted'[o] = posted[o]
    BY <2>1 DEF _process_order, _ensure_hotel_pos_line, PosTypeOK
  <2>2. ASSUME NEW p \in Orders, NEW room \in Rooms, write(p, room)
        PROVE  linked'[o] = linked[o] /\ posted'[o] = posted[o]
    BY <2>2 DEF write, Write, _ensure_hotel_pos_line, PosTypeOK
  <2>3. ASSUME UNCHANGED <<posted, linked>>
        PROVE  linked'[o] = linked[o] /\ posted'[o] = posted[o]
    BY <2>3
  <2>4. ASSUME NEW t \in Tills, NEW p \in Orders, NEW m \in Methods,
               \/ NewOrder(t, p) \/ SwitchInvoice(t, p) \/ validateOrder(t, p) \/ Load(t, p)
               \/ addNewPaymentLine(t, p, m) \/ TakeBack(t, p, m)
        PROVE  UNCHANGED <<posted, linked>>
    BY <2>4 DEF NewOrder, SwitchInvoice, validateOrder, Load, addNewPaymentLine, TakeBack
  <2>5. ASSUME NEW t \in Tills, onClickAddRoom(t) \/ setBooking(t)
        PROVE  UNCHANGED <<posted, linked>>
    BY <2>5 DEF onClickAddRoom, setBooking
  <2>6. ASSUME NEW p \in Orders, RegisterPayment(p) \/ OpenForm(p)
        PROVE  UNCHANGED <<posted, linked>>
    BY <2>6 DEF RegisterPayment, OpenForm
  <2>7. ASSUME NEW f \in Folios, LeaveRoom(f) PROVE UNCHANGED <<posted, linked>>
    BY <2>7 DEF LeaveRoom
  <2>8. CASE UNCHANGED posVars
    BY <2>3, <2>8 DEF posVars
  <2>9. "cash" \in Methods
    BY DEF Methods
  <2> QED
    BY <2>1, <2>2, <2>3, <2>4, <2>5, <2>6, <2>7, <2>8, <2>9 DEF PosNext
<1>2. BillInv => PosTypeOK
  BY DEF BillInv
<1> QED
  BY <1>1, <1>2, BillStart, BillStep, PTL DEF PosSpec, PaidStaysBilled
-----------------------------------------------------------------------------
(* Orders from the customer app                                            *)

LEMMA BalanceIsSum == ASSUME NEW f PROVE Balance(f) = SumOf(f)
BY DEF Balance, SumOf

LEMMA TotalIsSum == ASSUME NEW s PROVE Total(s) = SumOf(s)
BY SeqSum DEF Total

LEMMA SmallerFacts ==
    ASSUME NEW x \in Int, NEW y \in Int
    PROVE  /\ Smaller(x, y) \in Int /\ Smaller(x, y) <= x /\ Smaller(x, y) <= y
           /\ x >= 0 /\ y >= 0 => Smaller(x, y) >= 0
BY DEF Smaller

(* What an order comes to before the wallet pays is a number, which its    *)
(* lines add up to; without a negative line it is not below nothing, for a *)
(* coupon takes off no more than the total.                                *)
LEMMA OrderTotal ==
    ASSUME NEW want \in Wants
    PROVE  /\ DiscountLines(want) \in Seq(Int) /\ AfterCoupon(want) \in Int
           /\ Total(DiscountLines(want)) = AfterCoupon(want)
           /\ want.cart \in Seq(Nat) => AfterCoupon(want) >= 0
<1> DEFINE items == want.cart  lines == Delivery(want)  total == BeforeCoupon(want)
           off == Reward(want)  less == Discount(want)
<1>1. /\ items \in Seq(Int) /\ want.fee \in Int /\ want.coupon.discount \in Int
      /\ want.coupon.mode \in {"percent", "per_order", "none"}
  <2>1. want.cart \in Carts /\ want.fee \in Fees /\ want.coupon \in Coupons \cup {NoCoupon}
    BY DEF Wants
  <2>2. Carts \subseteq Seq(Int) /\ Fees \subseteq Int
        /\ Coupons \subseteq [mode : {"percent", "per_order", "none"}, discount : Int]
    BY CartAssumption
  <2>3. NoCoupon \in [mode : {"percent", "per_order", "none"}, discount : Int]
    BY DEF NoCoupon
  <2> QED
    BY <2>1, <2>2, <2>3
<1>2. SumOf(items) \in Int /\ (items \in Seq(Nat) => SumOf(items) \in Nat)
  <2>1. SumOf(items) \in Int
    BY <1>1, SeqSumType
  <2>2. ASSUME items \in Seq(Nat) PROVE SumOf(items) \in Nat
    <3>1. items \in [1 .. Len(items) -> Nat] /\ Len(items) \in Nat
      BY <2>2
    <3>2. IsFiniteSet(1 .. Len(items))
      BY <3>1, FS_Interval
    <3> QED
      BY <3>1, <3>2, SumNat
  <2> QED
    BY <2>1, <2>2
<1>3. /\ lines \in Seq(Int) /\ total \in Int /\ SumOf(lines) = total
      /\ items \in Seq(Nat) => total >= 0
  <2>1. lines = items \o (IF want.fee > 0 THEN <<want.fee>> ELSE <<>>)
        /\ total = SumOf(items) + (IF want.fee > 0 THEN want.fee ELSE 0)
    BY TotalIsSum DEF Delivery, BeforeCoupon, Items
  <2> HIDE DEF lines, total, items
  <2>2. CASE want.fee > 0
    <3>1. lines = items \o <<want.fee>> /\ total = SumOf(items) + want.fee
      BY <2>1, <2>2
    <3>2. SumOf(items \o <<want.fee>>) = SumOf(items) + want.fee
      BY <1>1, SeqSumAppend
    <3> QED
      BY <1>1, <1>2, <2>2, <3>1, <3>2
  <2>3. CASE ~(want.fee > 0)
    <3>1. lines = items /\ total = SumOf(items)
      BY <1>1, <1>2, <2>1, <2>3
    <3> QED
      BY <1>1, <1>2, <3>1
  <2> QED
    BY <2>2, <2>3
<1>4. off \in Int
  <2>1. off = CASE want.coupon.mode = "percent" -> (total * want.coupon.discount) \div 100
                [] want.coupon.mode = "per_order" -> want.coupon.discount
                [] want.coupon.mode = "none" -> 0
    BY DEF Reward
  <2> HIDE DEF off, total
  <2> QED
    BY <1>1, <1>3, <2>1
<1>5. /\ less = (IF off > 0 THEN Smaller(off, total) ELSE 0)
      /\ AfterCoupon(want) = total - less
      /\ DiscountLines(want) = lines \o (IF off > 0 THEN <<-less>> ELSE <<>>)
  BY DEF Discount, AfterCoupon, DiscountLines
<1> HIDE DEF items, lines, total, off, less
<1>6. CASE off > 0
  <2>1. less \in Int /\ less <= total
    BY <1>3, <1>4, <1>5, <1>6, SmallerFacts
  <2>2. DiscountLines(want) = lines \o <<-less>> /\ -less \in Int
    BY <1>5, <1>6, <2>1
  <2>3. SumOf(lines \o <<-less>>) = SumOf(lines) + (-less)
    BY <1>3, <2>2, SeqSumAppend
  <2>4. DiscountLines(want) \in Seq(Int)
    BY <1>3, <2>2
  <2> QED
    BY <1>3, <1>5, <2>1, <2>2, <2>3, <2>4, TotalIsSum
<1>7. CASE ~(off > 0)
  <2>1. DiscountLines(want) = lines /\ less = 0
    BY <1>3, <1>5, <1>7
  <2>2. AfterCoupon(want) = total
    <3>1. AfterCoupon(want) = total - less /\ total \in Int
      BY <1>3, <1>5
    <3> QED
      BY <2>1, <3>1
  <2>3. Total(DiscountLines(want)) = total
    BY <1>3, <2>1, TotalIsSum
  <2> QED
    BY <1>3, <2>1, <2>2, <2>3 DEF items
<1> QED
  BY <1>6, <1>7

(* The wallet pays no more than the cards hold, and no more than is asked. *)
LEMMA WalletWithin ==
    ASSUME NEW want \in Wants, NEW base \in [Cards -> Int]
    PROVE  /\ Balance(base) \in Int
           /\ WalletUsed(want, base) \in Int
           /\ AfterCoupon(want) >= 0 => WalletUsed(want, base) <= AfterCoupon(want)
           /\ WalletPays(want, base) => WalletUsed(want, base) <= Balance(base)
           /\ ~WalletPays(want, base) => WalletUsed(want, base) = 0
<1>1. Balance(base) \in Int
  BY CartAssumption, BalanceIsSum, SumType
<1>2. AfterCoupon(want) \in Int
  BY OrderTotal
<1>3. CASE WalletPays(want, base)
  <2>1. WalletUsed(want, base) = Smaller(Balance(base), AfterCoupon(want))
    BY <1>3 DEF WalletUsed
  <2> QED
    BY <1>1, <1>2, <1>3, <2>1, SmallerFacts
<1>4. CASE ~WalletPays(want, base)
  <2>1. WalletUsed(want, base) = 0
    BY <1>4 DEF WalletUsed
  <2> QED
    BY <1>1, <1>2, <1>4, <2>1
<1> QED
  BY <1>3, <1>4

(* The lines add up to the amount, and the wallet's is the last of them.   *)
LEMMA LinesTotal ==
    ASSUME NEW want \in Wants, NEW base \in [Cards -> Int]
    PROVE  /\ Total(OrderLines(want, base)) = AmountTotal(want, base)
           /\ want.cart \in Seq(Nat) => AmountTotal(want, base) >= 0
           /\ WalletPays(want, base) =>
                 Last(OrderLines(want, base)) = -WalletUsed(want, base)
<1> DEFINE lines == DiscountLines(want)  used == WalletUsed(want, base)
           asked == AfterCoupon(want)  whole == want.cart \in Seq(Nat)
<1>1. lines \in Seq(Int) /\ asked \in Int /\ Total(lines) = asked /\ (whole => asked >= 0)
  BY OrderTotal
<1>2. used \in Int /\ (asked >= 0 => used <= asked) /\ (~WalletPays(want, base) => used = 0)
  BY WalletWithin
<1>3. AmountTotal(want, base) = asked - used
  BY DEF AmountTotal
<1>4. OrderLines(want, base) = lines \o (IF WalletPays(want, base) THEN <<-used>> ELSE <<>>)
  BY DEF OrderLines
<1> HIDE DEF lines, used, asked, whole
<1>5. CASE WalletPays(want, base)
  <2>1. OrderLines(want, base) = lines \o <<-used>> /\ -used \in Int
    BY <1>2, <1>4, <1>5
  <2>2. SumOf(lines \o <<-used>>) = SumOf(lines) + (-used)
    BY <1>1, <2>1, SeqSumAppend
  <2>3. Last(lines \o <<-used>>) = -used
    <3>1. lines \o <<-used>> \in Seq(Int) /\ Len(lines \o <<-used>>) = Len(lines) + 1
          /\ (lines \o <<-used>>)[Len(lines) + 1] = -used
      BY <1>1, <2>1
    <3> QED
      BY <3>1 DEF Last
  <2>4. Total(OrderLines(want, base)) = asked + (-used)
    BY <1>1, <2>1, <2>2, TotalIsSum
  <2>5. whole => asked - used >= 0
    BY <1>1, <1>2
  <2> QED
    BY <1>1, <1>2, <1>3, <2>1, <2>3, <2>4, <2>5 DEF used, whole
<1>6. CASE ~WalletPays(want, base)
  <2>1. OrderLines(want, base) = lines
    BY <1>1, <1>4, <1>6
  <2> QED
    BY <1>1, <1>2, <1>3, <1>6, <2>1 DEF whole
<1> QED
  BY <1>5, <1>6
-----------------------------------------------------------------------------
(* What the phases of a request have, and how a request moves on.          *)
LEMMA RequestFacts ==
    ASSUME NEW r \in Request
    PROVE  /\ r.phase \in {"new", "refused", "topup", "added", "order", "placed", "failed"}
           /\ r.phase \in {"topup", "added", "order", "placed", "failed"} =>
                 r.base \in [Cards -> Int]
           /\ r.phase \in {"order", "placed", "failed"} => r.want \in Wants
           /\ r.phase \in {"topup", "added"} => r.amount \in TopUps
           /\ r.phase = "order" => \A end \in {"placed", "failed"} :
                 /\ [r EXCEPT !.phase = end] \in Request
                 /\ [r EXCEPT !.phase = end].phase = end
                 /\ [r EXCEPT !.phase = end].want = r.want
                 /\ [r EXCEPT !.phase = end].base = r.base
           /\ r.phase = "topup" =>
                 [r EXCEPT !.phase = "added"] \in Request
                 /\ [r EXCEPT !.phase = "added"].phase = "added"
                 /\ [r EXCEPT !.phase = "added"].amount = r.amount
           /\ r.phase \in {"topup", "order"} => \A b \in [Cards -> Int] :
                 /\ [r EXCEPT !.base = b] \in Request
                 /\ [r EXCEPT !.base = b].phase = r.phase
                 /\ [r EXCEPT !.base = b].base = b
BY DEF Request, Asleep

(* A step of a request is one of these.                                    *)
LEMMA RequestStep ==
    ASSUME CartTypeOK, NEW a \in Apps,
           \/ \E want \in Wants : place_pos_order(a, want)
           \/ \E amount \in TopUps : test_add_wallet_balance(a, amount)
           \/ Refuse(a)
    PROVE  \E r \in Request :
              /\ ask' = [ask EXCEPT ![a] = r] /\ UNCHANGED <<points, register>>
              /\ ask[a].phase \in {"new", "topup", "order"}
              /\ r.phase \in {"refused", "topup", "order"}
              /\ r.phase = "order" => r.base = points
<1> USE DEF CartTypeOK
<1>0. ask[a] \in Request
  OBVIOUS
<1>1. ASSUME NEW want \in Wants, place_pos_order(a, want)
      PROVE  \E r \in Request :
              /\ ask' = [ask EXCEPT ![a] = r] /\ UNCHANGED <<points, register>>
              /\ ask[a].phase \in {"new", "topup", "order"}
              /\ r.phase \in {"refused", "topup", "order"}
              /\ r.phase = "order" => r.base = points
  <2>1. [phase |-> "refused"] \in Request
    BY DEF Request
  <2> DEFINE r == [phase |-> "order", want |-> want, base |-> points]
  <2>2. r \in Request /\ r.phase = "order" /\ r.base = points
    BY DEF Request
  <2>3. /\ \/ ask' = [ask EXCEPT ![a] = [phase |-> "refused"]]
           \/ ask' = [ask EXCEPT ![a] = r]
        /\ ask[a].phase = "new" /\ UNCHANGED <<points, register>>
    BY <1>1 DEF place_pos_order
  <2> HIDE DEF r
  <2> QED
    BY <2>1, <2>2, <2>3
<1>2. ASSUME NEW amount \in TopUps, test_add_wallet_balance(a, amount)
      PROVE  \E r \in Request :
              /\ ask' = [ask EXCEPT ![a] = r] /\ UNCHANGED <<points, register>>
              /\ ask[a].phase \in {"new", "topup", "order"}
              /\ r.phase \in {"refused", "topup", "order"}
              /\ r.phase = "order" => r.base = points
  <2> DEFINE r == [phase |-> "topup", amount |-> amount, base |-> points]
  <2>1. r \in Request /\ r.phase = "topup"
    BY DEF Request
  <2>2. ask' = [ask EXCEPT ![a] = r] /\ ask[a].phase = "new" /\ UNCHANGED <<points, register>>
    BY <1>2 DEF test_add_wallet_balance
  <2> HIDE DEF r
  <2> QED
    BY <2>1, <2>2
<1>3. CASE Refuse(a)
  <2>1. ask[a].phase \in {"topup", "order"}
    BY <1>3 DEF Refuse
  <2>2. [phase |-> "refused"] \in Request
    BY DEF Request
  <2>3. CASE ask' = [ask EXCEPT ![a].base = points]
    <3> DEFINE r == [ask[a] EXCEPT !.base = points]
    <3>1. r \in Request /\ r.phase = ask[a].phase /\ r.base = points
      <4>1. PICK q \in Request : q = ask[a]
        BY <1>0
      <4>2. \A b \in [Cards -> Int] :
               /\ [q EXCEPT !.base = b] \in Request
               /\ [q EXCEPT !.base = b].phase = q.phase
               /\ [q EXCEPT !.base = b].base = b
        BY <2>1, <4>1, RequestFacts
      <4>3. points \in [Cards -> Int] /\ r = [q EXCEPT !.base = points]
        BY <4>1
      <4> QED
        BY <4>1, <4>2, <4>3
    <3>2. ask' = [ask EXCEPT ![a] = r]
      BY <2>3
    <3> HIDE DEF r
    <3> QED
      BY <1>3, <2>1, <3>1, <3>2 DEF Refuse
  <2>4. CASE ask' = [ask EXCEPT ![a] = [phase |-> "refused"]]
    BY <1>3, <2>1, <2>2, <2>4 DEF Refuse
  <2> QED
    BY <1>3, <2>3, <2>4 DEF Refuse
<1> QED
  BY <1>1, <1>2, <1>3

(* What the order and the top-up do.                                       *)
LEMMA OrderStep ==
    ASSUME CartTypeOK, NEW a \in Apps, CreateOrder(a)
    PROVE  \E r \in Request :
              /\ ask[a].phase = "order" /\ ask[a].base \in [Cards -> Int]
              /\ ask[a].want \in Wants
              /\ ask' = [ask EXCEPT ![a] = r] /\ register' = register
              /\ r.phase \in {"placed", "failed"}
              /\ r.want = ask[a].want /\ r.base = ask[a].base
              /\ points' = [points EXCEPT ![FirstCard] =
                                @ - WalletUsed(ask[a].want, ask[a].base)]
              /\ points' \in [Cards -> Int]
<1>1. ask[a] \in Request /\ ask[a].phase = "order" /\ FirstCard \in Cards
  BY CartAssumption DEF CartTypeOK, CreateOrder
<1>2. ask[a].base \in [Cards -> Int] /\ ask[a].want \in Wants
  BY <1>1, RequestFacts
<1>3. PICK end \in {"placed", "failed"} : ask' = [ask EXCEPT ![a].phase = end]
  BY DEF CreateOrder
<1> DEFINE r == [ask[a] EXCEPT !.phase = end]  used == WalletUsed(ask[a].want, ask[a].base)
<1>4. r \in Request /\ r.phase = end /\ r.want = ask[a].want /\ r.base = ask[a].base
  <2>1. PICK q \in Request : q = ask[a]
    BY <1>1
  <2>2. \A e \in {"placed", "failed"} :
           /\ [q EXCEPT !.phase = e] \in Request
           /\ [q EXCEPT !.phase = e].phase = e
           /\ [q EXCEPT !.phase = e].want = q.want
           /\ [q EXCEPT !.phase = e].base = q.base
    BY <1>1, <2>1, RequestFacts
  <2>3. r = [q EXCEPT !.phase = end]
    BY <2>1
  <2> QED
    BY <2>1, <2>2, <2>3
<1>5. ask' = [ask EXCEPT ![a] = r]
  BY <1>3 DEF CartTypeOK
<1>6. used \in Int /\ (~WalletPays(ask[a].want, ask[a].base) => used = 0)
  BY <1>2, WalletWithin
<1>7. points \in [Cards -> Int] /\ register' = register /\ Charge(a)
  BY DEF CartTypeOK, CreateOrder
<1>8. points' = [points EXCEPT ![FirstCard] = @ - used]
  <2>1. CASE WalletPays(ask[a].want, ask[a].base)
    <3>1. points[FirstCard] = ask[a].base[FirstCard]
      BY <1>1, <2>1 DEF CreateOrder, CardChanged, Writes
    <3>2. points' = [points EXCEPT ![FirstCard] = ask[a].base[FirstCard] + (-used)]
      BY <1>7, <2>1 DEF Charge, Put
    <3>3. points[FirstCard] + (-used) = points[FirstCard] - used
      BY <1>1, <1>6, <1>7
    <3> QED
      BY <1>7, <3>1, <3>2, <3>3
  <2>2. CASE ~WalletPays(ask[a].want, ask[a].base)
    <3>1. points' = points /\ used = 0
      BY <1>6, <1>7, <2>2 DEF Charge
    <3> QED
      BY <1>1, <1>7, <3>1
  <2> QED
    BY <2>1, <2>2
<1>9. points' \in [Cards -> Int]
  BY <1>1, <1>6, <1>7, <1>8
<1> HIDE DEF r
<1> QED
  BY <1>1, <1>2, <1>4, <1>5, <1>7, <1>8, <1>9

LEMMA FundsStep ==
    ASSUME CartTypeOK, NEW a \in Apps, AddFunds(a)
    PROVE  \E r \in Request :
              /\ ask[a].phase = "topup" /\ r.phase = "added" /\ r.amount \in Int
              /\ ask' = [ask EXCEPT ![a] = r] /\ register' = register
              /\ points' = [points EXCEPT ![TopUpCard] = @ + r.amount]
              /\ points' \in [Cards -> Int]
<1>1. /\ ask[a] \in Request /\ ask[a].phase = "topup" /\ TopUpCard \in Cards
      /\ TopUps \subseteq Int /\ points \in [Cards -> Int]
  BY CartAssumption DEF CartTypeOK, AddFunds
<1> DEFINE r == [ask[a] EXCEPT !.phase = "added"]
<1>2. r \in Request /\ r.phase = "added" /\ r.amount = ask[a].amount /\ r.amount \in Int
  <2>1. PICK q \in Request : q = ask[a]
    BY <1>1
  <2>2. /\ [q EXCEPT !.phase = "added"] \in Request /\ q.amount \in TopUps
        /\ [q EXCEPT !.phase = "added"].phase = "added"
        /\ [q EXCEPT !.phase = "added"].amount = q.amount
    BY <1>1, <2>1, RequestFacts
  <2> QED
    BY <1>1, <2>1, <2>2
<1>3. ask' = [ask EXCEPT ![a] = r]
  BY DEF CartTypeOK, AddFunds
<1>4. points' = [points EXCEPT ![TopUpCard] = @ + r.amount] /\ register' = register
  <2>1. points[TopUpCard] = ask[a].base[TopUpCard]
    BY <1>1 DEF AddFunds, CardChanged, Writes
  <2>2. points' = [points EXCEPT ![TopUpCard] = ask[a].base[TopUpCard] + ask[a].amount]
        /\ register' = register
    BY DEF AddFunds, Put
  <2> QED
    BY <1>1, <1>2, <2>1, <2>2
<1>5. points' \in [Cards -> Int]
  BY <1>1, <1>2, <1>4
<1> HIDE DEF r
<1> QED
  BY <1>1, <1>2, <1>3, <1>4, <1>5

LEMMA CartTypeStep == CartTypeOK /\ [CartNext]_cartVars => CartTypeOK'
<1> SUFFICES ASSUME CartTypeOK, [CartNext]_cartVars PROVE CartTypeOK'
  OBVIOUS
<1>1. ASSUME NEW a \in Apps, \/ \E want \in Wants : place_pos_order(a, want)
                             \/ \E amount \in TopUps : test_add_wallet_balance(a, amount)
                             \/ Refuse(a)
      PROVE  CartTypeOK'
  BY <1>1, RequestStep DEF CartTypeOK
<1>2. ASSUME NEW a \in Apps, CreateOrder(a) PROVE CartTypeOK'
  BY <1>2, OrderStep DEF CartTypeOK
<1>3. ASSUME NEW a \in Apps, AddFunds(a) PROVE CartTypeOK'
  BY <1>3, FundsStep DEF CartTypeOK
<1>4. CASE TurnRegister \/ UNCHANGED cartVars
  BY <1>4 DEF CartTypeOK, TurnRegister, cartVars
<1> QED
  BY <1>1, <1>2, <1>3, <1>4 DEF CartNext

LEMMA CartTypeStart == CartInit => CartTypeOK
BY CartAssumption DEF CartInit, CartTypeOK, Request

(* The lines of every order add up to the total that is computed beside    *)
(* them, whatever the app sent, and nobody is paid for an order that has   *)
(* no negative line, whatever the coupon and the fee.                      *)
THEOREM OrdersAddUp == CartSpec => []LinesAddUp
<1>1. CartTypeOK => LinesAddUp
  <2> SUFFICES ASSUME CartTypeOK, NEW a \in Ended("placed")
               PROVE  /\ Total(OrderLines(ask[a].want, ask[a].base))
                            = AmountTotal(ask[a].want, ask[a].base)
                      /\ ask[a].want.cart \in Seq(Nat) =>
                            AmountTotal(ask[a].want, ask[a].base) >= 0
    BY DEF LinesAddUp
  <2>1. ask[a] \in Request /\ ask[a].phase = "placed"
    BY DEF CartTypeOK, Ended
  <2>2. ask[a].want \in Wants /\ ask[a].base \in [Cards -> Int]
    BY <2>1, RequestFacts
  <2> QED
    BY <2>2, LinesTotal
<1> QED
  BY <1>1, CartTypeStart, CartTypeStep, PTL DEF CartSpec
-----------------------------------------------------------------------------
(* The books: what the requests that are through spent and brought in.     *)

Through(q, phase) == {a \in Apps : q[a].phase = phase}

Spent(q, phase) == [a \in Through(q, phase) |-> WalletUsed(q[a].want, q[a].base)]

Gained(q) == [a \in Through(q, "added") |-> q[a].amount]

(* What came off the cards by adding a negative amount.                    *)
Lost(q) == [a \in Through(q, "added") |-> Smaller(q[a].amount, 0)]

Booked(pts, q) ==
    SumOf(pts) + SumOf(Spent(q, "placed")) + SumOf(Spent(q, "failed"))
        = SumOf(Opening) + SumOf(Gained(q))

LEMMA BooksType ==
    ASSUME NEW q \in [Apps -> Request]
    PROVE  /\ \A phase \in {"placed", "failed"} :
                 Spent(q, phase) \in [Through(q, phase) -> Int]
           /\ Gained(q) \in [Through(q, "added") -> Int]
           /\ Lost(q) \in [Through(q, "added") -> Int]
           /\ \A phase : IsFiniteSet(Through(q, phase))
<1>1. ASSUME NEW phase \in {"placed", "failed"}, NEW a \in Through(q, phase)
      PROVE  WalletUsed(q[a].want, q[a].base) \in Int
  <2>1. q[a] \in Request /\ q[a].phase = phase
    BY <1>1 DEF Through
  <2>2. PICK r \in Request : r = q[a]
    BY <2>1
  <2>3. r.want \in Wants /\ r.base \in [Cards -> Int]
    BY <2>1, <2>2, RequestFacts
  <2> QED
    BY <2>2, <2>3, WalletWithin
<1>2. ASSUME NEW phase PROVE IsFiniteSet(Through(q, phase))
  BY CartAssumption, FS_Subset DEF Through
<1>3. ASSUME NEW a \in Through(q, "added")
      PROVE  q[a].amount \in Int /\ Smaller(q[a].amount, 0) \in Int
  <2>1. PICK r \in Request : r = q[a] /\ r.phase = "added"
    BY <1>3 DEF Through
  <2>2. r.amount \in Int
    BY <2>1, RequestFacts, CartAssumption
  <2>3. Smaller(r.amount, 0) \in Int
    BY <2>2 DEF Smaller
  <2> QED
    BY <2>1, <2>2, <2>3
<1> QED
  BY <1>1, <1>2, <1>3 DEF Spent, Gained, Lost

(* A request that is not through, and still is not, leaves the books; one  *)
(* that gets through is entered once.                                      *)
LEMMA BooksStep ==
    ASSUME NEW q \in [Apps -> Request], NEW p \in [Apps -> Request], NEW a \in Apps,
           NEW r \in Request, p[a] = r, \A b \in Apps \ {a} : p[b] = q[b],
           q[a].phase \in {"new", "topup", "order"}
    PROVE  /\ \A phase \in {"placed", "failed"} :
                 SumOf(Spent(p, phase)) = SumOf(Spent(q, phase))
                     + (IF r.phase = phase THEN WalletUsed(r.want, r.base) ELSE 0)
           /\ SumOf(Gained(p)) = SumOf(Gained(q)) + (IF r.phase = "added" THEN r.amount ELSE 0)
           /\ SumOf(Lost(p)) = SumOf(Lost(q))
                  + (IF r.phase = "added" THEN Smaller(r.amount, 0) ELSE 0)
<1>1. ASSUME NEW phase \in {"placed", "failed", "added"}, r.phase # phase
      PROVE  /\ Through(p, phase) = Through(q, phase)
             /\ Spent(p, phase) = Spent(q, phase)
  <2>1. a \notin Through(q, phase) /\ a \notin Through(p, phase)
    BY <1>1 DEF Through
  <2>2. Through(p, phase) = Through(q, phase)
    BY <2>1 DEF Through
  <2>3. \A b \in Through(q, phase) : p[b] = q[b]
    BY <2>1 DEF Through
  <2>4. \A b \in Through(q, phase) :
           WalletUsed(p[b].want, p[b].base) = WalletUsed(q[b].want, q[b].base)
    BY <2>3
  <2>5. Spent(p, phase) = Spent(q, phase)
    BY <2>2, <2>4 DEF Spent
  <2> QED
    BY <2>2, <2>5
<1>2. ASSUME r.phase # "added" PROVE Gained(p) = Gained(q) /\ Lost(p) = Lost(q)
  <2>1. a \notin Through(q, "added") /\ Through(p, "added") = Through(q, "added")
    BY <1>1, <1>2 DEF Through
  <2>2. \A b \in Through(q, "added") : p[b] = q[b]
    BY <2>1 DEF Through
  <2> QED
    BY <2>1, <2>2 DEF Gained, Lost
<1>3. ASSUME NEW phase \in {"placed", "failed", "added"}, r.phase = phase
      PROVE  /\ a \in Through(p, phase) /\ Through(q, phase) = Through(p, phase) \ {a}
             /\ p[a] = r /\ \A b \in Through(q, phase) : p[b] = q[b]
  BY <1>3 DEF Through
<1>4. ASSUME NEW phase \in {"placed", "failed"}, r.phase = phase
      PROVE  SumOf(Spent(p, phase)) = SumOf(Spent(q, phase)) + WalletUsed(r.want, r.base)
  <2> DEFINE S == Through(p, phase)  R == Through(q, phase)
             g == Spent(p, phase)  f == Spent(q, phase)
  <2>1. /\ a \in S /\ R = S \ {a} /\ p[a] = r /\ \A b \in R : p[b] = q[b]
    BY <1>3, <1>4
  <2>2. IsFiniteSet(S) /\ g \in [S -> Int] /\ f \in [R -> Int]
    BY BooksType
  <2>3. \A b \in R : f[b] = g[b]
    BY <2>1 DEF Spent
  <2>4. g[a] = WalletUsed(r.want, r.base)
    BY <2>1 DEF Spent
  <2> HIDE DEF S, R, g, f
  <2>5. SumOf(g) = SumOf(f) + g[a]
    BY <2>1, <2>2, <2>3, SumRemove
  <2> QED
    BY <2>4, <2>5 DEF f, g
<1>5. ASSUME r.phase = "added"
      PROVE  /\ SumOf(Gained(p)) = SumOf(Gained(q)) + r.amount
             /\ SumOf(Lost(p)) = SumOf(Lost(q)) + Smaller(r.amount, 0)
  <2> DEFINE S == Through(p, "added")  R == Through(q, "added")
             g == Gained(p)  f == Gained(q)  l == Lost(p)  k == Lost(q)
  <2>1. /\ a \in S /\ R = S \ {a} /\ p[a] = r /\ \A b \in R : p[b] = q[b]
    BY <1>3, <1>5
  <2>2. /\ IsFiniteSet(S) /\ g \in [S -> Int] /\ f \in [R -> Int]
        /\ l \in [S -> Int] /\ k \in [R -> Int]
    BY BooksType
  <2>3. (\A b \in R : f[b] = g[b]) /\ g[a] = r.amount
    BY <2>1 DEF Gained
  <2>4. (\A b \in R : k[b] = l[b]) /\ l[a] = Smaller(r.amount, 0)
    BY <2>1 DEF Lost
  <2> HIDE DEF S, R, g, f, l, k
  <2>5. a \in S /\ R = S \ {a} /\ IsFiniteSet(S)
    BY <2>1, <2>2
  <2>6. SumOf(g) = SumOf(f) + g[a]
    <3>1. g \in [S -> Int] /\ f \in [R -> Int] /\ \A b \in R : f[b] = g[b]
      BY <2>2, <2>3
    <3> QED
      BY <2>5, <3>1, SumRemove
  <2>7. SumOf(l) = SumOf(k) + l[a]
    <3>1. l \in [S -> Int] /\ k \in [R -> Int] /\ \A b \in R : k[b] = l[b]
      BY <2>2, <2>4
    <3> QED
      BY <2>5, <3>1, SumRemove
  <2> QED
    BY <2>3, <2>4, <2>6, <2>7 DEF f, g, k, l
<1>6. /\ SumOf(Gained(q)) \in Int /\ SumOf(Lost(q)) \in Int
      /\ \A phase \in {"placed", "failed"} : SumOf(Spent(q, phase)) \in Int
  BY BooksType, SumType
<1>7. ASSUME NEW phase \in {"placed", "failed"}
      PROVE  SumOf(Spent(p, phase)) = SumOf(Spent(q, phase))
                 + (IF r.phase = phase THEN WalletUsed(r.want, r.base) ELSE 0)
  BY <1>1, <1>4, <1>6
<1>8. SumOf(Gained(p)) = SumOf(Gained(q)) + (IF r.phase = "added" THEN r.amount ELSE 0)
  BY <1>2, <1>5, <1>6
<1>9. SumOf(Lost(p)) = SumOf(Lost(q)) + (IF r.phase = "added" THEN Smaller(r.amount, 0) ELSE 0)
  BY <1>2, <1>5, <1>6
<1> QED
  BY <1>7, <1>8, <1>9

(* What changes one card's points changes their sum by as much.            *)
LEMMA CardMoves ==
    ASSUME NEW f \in [Cards -> Int], NEW g \in [Cards -> Int], NEW c \in Cards, NEW d \in Int,
           \A b \in Cards \ {c} : g[b] = f[b], g[c] = f[c] + d
    PROVE  SumOf(g) = SumOf(f) + d
<1>1. IsFiniteSet(Cards)
  BY CartAssumption
<1>2. SumOf(g) = SumOf(f) - f[c] + g[c]
  BY <1>1, SumChange
<1>3. SumOf(f) \in Int /\ f[c] \in Int
  BY <1>1, SumType
<1> QED
  BY <1>2, <1>3

(* The same of the points of a card that a request has written.            *)
LEMMA PointsMove ==
    ASSUME points \in [Cards -> Int], points' \in [Cards -> Int], NEW c \in Cards, NEW d \in Int
    PROVE  points' = [points EXCEPT ![c] = @ + d] => SumOf(points') = SumOf(points) + d
<1>1. ASSUME points' = [points EXCEPT ![c] = @ + d] PROVE SumOf(points') = SumOf(points) + d
  <2>1. PICK g \in [Cards -> Int] : g = points'
    OBVIOUS
  <2>2. PICK f \in [Cards -> Int] : f = points
    OBVIOUS
  <2>3. (\A b \in Cards \ {c} : g[b] = f[b]) /\ g[c] = f[c] + d
    BY <1>1, <2>1, <2>2
  <2>4. SumOf(g) = SumOf(f) + d
    BY <2>3, CardMoves
  <2> QED
    BY <2>1, <2>2, <2>4
<1> QED
  BY <1>1

LEMMA BooksKept == CartTypeOK /\ Booked(points, ask) /\ [CartNext]_cartVars => Booked(points, ask)'
<1> SUFFICES ASSUME CartTypeOK, Booked(points, ask), [CartNext]_cartVars
             PROVE  Booked(points', ask')
  BY DEF Booked, Spent, Gained, Through
<1>t. /\ points \in [Cards -> Int] /\ ask \in [Apps -> Request]
      /\ points' \in [Cards -> Int] /\ ask' \in [Apps -> Request]
  BY CartTypeStep DEF CartTypeOK
<1>f. /\ IsFiniteSet(Cards) /\ FirstCard \in Cards /\ TopUpCard \in Cards
      /\ Opening \in [Cards -> Int]
  BY CartAssumption
<1>p. PICK q : q = ask'
  OBVIOUS
<1>s. /\ SumOf(points) \in Int /\ SumOf(Opening) \in Int /\ SumOf(Gained(ask)) \in Int
      /\ SumOf(Spent(ask, "placed")) \in Int /\ SumOf(Spent(ask, "failed")) \in Int
  BY <1>t, <1>f, BooksType, SumType
(* What it enters in the books is what it takes from the cards.            *)
<1>e. ASSUME NEW a \in Apps, NEW r \in Request, q = [ask EXCEPT ![a] = r],
             ask[a].phase \in {"new", "topup", "order"}, NEW d \in Int,
             SumOf(points') = SumOf(points) + d,
             d = IF r.phase = "added" THEN r.amount
                 ELSE IF r.phase \in {"placed", "failed"} THEN -WalletUsed(r.want, r.base) ELSE 0,
             r.phase \in {"placed", "failed"} => WalletUsed(r.want, r.base) \in Int
      PROVE  Booked(points', ask')
  <2>1. ask \in [Apps -> Request] /\ q \in [Apps -> Request]
    BY <1>t, <1>p
  <2>0. q[a] = r /\ \A b \in Apps \ {a} : q[b] = ask[b]
    BY <1>e, <2>1
  <2>2. /\ \A phase \in {"placed", "failed"} :
              SumOf(Spent(q, phase)) = SumOf(Spent(ask, phase))
                  + (IF r.phase = phase THEN WalletUsed(r.want, r.base) ELSE 0)
        /\ SumOf(Gained(q)) = SumOf(Gained(ask)) + (IF r.phase = "added" THEN r.amount ELSE 0)
    <3>1. a \in Apps /\ r \in Request
      OBVIOUS
    <3>2. ask[a].phase \in {"new", "topup", "order"}
      BY <1>e
    <3>3. SumOf(Gained(q)) = SumOf(Gained(ask)) + (IF r.phase = "added" THEN r.amount ELSE 0)
      BY <2>0, <2>1, <3>1, <3>2, BooksStep
    <3>4. ASSUME NEW phase \in {"placed", "failed"}
          PROVE SumOf(Spent(q, phase)) = SumOf(Spent(ask, phase))
                  + (IF r.phase = phase THEN WalletUsed(r.want, r.base) ELSE 0)
      BY <2>0, <2>1, <3>1, <3>2, BooksStep
    <3> QED
      BY <3>3, <3>4
  <2>3. Booked(points', q)
    BY <1>e, <1>f, <1>s, <2>2 DEF Booked
  <2> QED
    BY <1>p, <2>3
<1>1. ASSUME NEW a \in Apps, \/ \E want \in Wants : place_pos_order(a, want)
                             \/ \E amount \in TopUps : test_add_wallet_balance(a, amount)
                             \/ Refuse(a)
      PROVE  Booked(points', ask')
  <2>1. PICK r \in Request :
           /\ q = [ask EXCEPT ![a] = r] /\ points' = points
           /\ ask[a].phase \in {"new", "topup", "order"}
           /\ r.phase \in {"refused", "topup", "order"}
    BY <1>1, <1>p, RequestStep
  <2>2. SumOf(points') = SumOf(points) + 0
    BY <1>s, <2>1
  <2>3. r.phase # "added" /\ r.phase # "placed" /\ r.phase # "failed"
    BY <2>1
  <2>4. 0 = IF r.phase = "added" THEN r.amount
            ELSE IF r.phase \in {"placed", "failed"} THEN -WalletUsed(r.want, r.base) ELSE 0
    BY <2>3
  <2>5. 0 \in Int /\ ~(r.phase \in {"placed", "failed"})
    BY <2>3
  <2> QED
    BY <1>e, <2>1, <2>2, <2>4, <2>5
<1>2. ASSUME NEW a \in Apps, CreateOrder(a) PROVE Booked(points', ask')
  <2>1. PICK r \in Request :
           /\ ask[a].phase = "order" /\ ask[a].base \in [Cards -> Int]
           /\ ask[a].want \in Wants
           /\ q = [ask EXCEPT ![a] = r] /\ r.phase \in {"placed", "failed"}
           /\ r.want = ask[a].want /\ r.base = ask[a].base
           /\ points' = [points EXCEPT ![FirstCard] = @ - WalletUsed(ask[a].want, ask[a].base)]
    BY <1>2, <1>p, OrderStep
  <2> DEFINE used == WalletUsed(r.want, r.base)
  <2>2. used \in Int /\ points' = [points EXCEPT ![FirstCard] = @ - used]
    BY <2>1, WalletWithin
  <2> HIDE DEF used
  <2>3. -used \in Int /\ points[FirstCard] - used = points[FirstCard] + (-used)
    BY <1>t, <1>f, <2>2
  <2>4. points' = [points EXCEPT ![FirstCard] = @ + (-used)]
    BY <2>2, <2>3
  <2>5. SumOf(points') = SumOf(points) + (-used)
    BY <1>t, <1>f, <2>3, <2>4, PointsMove
  <2> QED
    BY <1>e, <2>1, <2>2, <2>3, <2>5 DEF used
<1>3. ASSUME NEW a \in Apps, AddFunds(a) PROVE Booked(points', ask')
  <2>1. PICK r \in Request :
           /\ ask[a].phase = "topup" /\ r.phase = "added" /\ r.amount \in Int
           /\ q = [ask EXCEPT ![a] = r]
           /\ points' = [points EXCEPT ![TopUpCard] = @ + r.amount]
    BY <1>3, <1>p, FundsStep
  <2>2. SumOf(points') = SumOf(points) + r.amount
    BY <1>t, <1>f, <2>1, PointsMove
  <2> QED
    BY <1>e, <2>1, <2>2
<1>4. CASE TurnRegister \/ UNCHANGED cartVars
  <2>1. points' = points /\ ask' = ask
    BY <1>4 DEF TurnRegister, cartVars
  <2> QED
    BY <2>1
<1> QED
  BY <1>1, <1>2, <1>3, <1>4 DEF CartNext

(* No point is lost or spent twice, however requests overlap: what is      *)
(* missing on the cards is what the orders' wallet lines say, what went    *)
(* with orders that failed, and what was not added.                        *)
THEOREM EveryPointAccounted == CartSpec => []PointsAccounted
<1>1. ASSUME CartInit PROVE Booked(points, ask)
  <2>1. \A phase \in {"placed", "failed", "added"} : Through(ask, phase) = {}
    BY <1>1 DEF CartInit, Through, Asleep
  <2>2. /\ Spent(ask, "placed") \in [{} -> Int] /\ Spent(ask, "failed") \in [{} -> Int]
        /\ Gained(ask) \in [{} -> Int]
    BY <2>1 DEF Spent, Gained
  <2>3. SumOf(Spent(ask, "placed")) = 0 /\ SumOf(Spent(ask, "failed")) = 0
        /\ SumOf(Gained(ask)) = 0
    BY <2>2, SumEmpty
  <2>4. points = Opening /\ SumOf(Opening) \in Nat
    BY <1>1, CartAssumption, SumNat DEF CartInit
  <2> QED
    BY <2>3, <2>4 DEF Booked
<1>2. CartTypeOK /\ Booked(points, ask) => PointsAccounted
  <2> SUFFICES ASSUME CartTypeOK, Booked(points, ask) PROVE PointsAccounted
    OBVIOUS
  <2>1. ASSUME NEW a \in Ended("placed")
        PROVE  WalletLine(a) = WalletUsed(ask[a].want, ask[a].base)
    <3>1. PICK r \in Request : r = ask[a] /\ r.phase = "placed"
      BY DEF CartTypeOK, Ended
    <3>2. r.want \in Wants /\ r.base \in [Cards -> Int]
      BY <3>1, RequestFacts
    <3>3. /\ WalletUsed(r.want, r.base) \in Int
          /\ ~WalletPays(r.want, r.base) => WalletUsed(r.want, r.base) = 0
          /\ WalletPays(r.want, r.base) =>
                Last(OrderLines(r.want, r.base)) = -WalletUsed(r.want, r.base)
      BY <3>2, WalletWithin, LinesTotal
    <3> QED
      BY <3>1, <3>3 DEF WalletLine
  <2>2. [a \in Ended("placed") |-> WalletLine(a)] = Spent(ask, "placed")
    BY <2>1 DEF Spent, Through, Ended
  <2>3. [a \in Ended("failed") |-> WalletUsed(ask[a].want, ask[a].base)] = Spent(ask, "failed")
        /\ [a \in Ended("added") |-> ask[a].amount] = Gained(ask)
    BY DEF Spent, Gained, Through, Ended
  <2>4. /\ ask \in [Apps -> Request] /\ points \in [Cards -> Int] /\ Opening \in [Cards -> Int]
        /\ IsFiniteSet(Cards)
    BY CartAssumption DEF CartTypeOK
  <2>5. /\ SumOf(points) \in Int /\ SumOf(Opening) \in Int /\ SumOf(Gained(ask)) \in Int
        /\ SumOf(Spent(ask, "placed")) \in Int /\ SumOf(Spent(ask, "failed")) \in Int
    BY <2>4, BooksType, SumType
  <2> QED
    BY <2>2, <2>3, <2>5, BalanceIsSum DEF PointsAccounted, Booked
<1> QED
  BY <1>1, <1>2, BooksKept, CartTypeStart, CartTypeStep, PTL DEF CartSpec
-----------------------------------------------------------------------------
(* What a request's snapshot says of all cards but the first still holds,  *)
(* but for what came off by negative amounts: orders take from the first   *)
(* card only, and what is added moves any other card by no less.           *)
Rest(f) == SumOf(f) - f[FirstCard]

OthersKept ==
    \A a \in Apps : ask[a].phase = "order" =>
        Rest(ask[a].base) + SumOf(Lost(ask)) <= Rest(points)

SpendInv ==
    /\ CartTypeOK /\ OthersKept
    /\ SumOf(Lost(ask)) <= 0 /\ SumOf(Lost(ask)) <= SumOf(points)

LEMMA RestFacts ==
    ASSUME NEW f \in [Cards -> Int]
    PROVE  Rest(f) \in Int /\ SumOf(f) \in Int /\ SumOf(f) = Rest(f) + f[FirstCard]
<1>1. IsFiniteSet(Cards) /\ f[FirstCard] \in Int
  BY CartAssumption
<1>2. SumOf(f) \in Int
  BY <1>1, SumType
<1> QED
  BY <1>1, <1>2 DEF Rest

(* The step of one request, in terms of the sums.                          *)
LEMMA SpendByOne ==
    ASSUME SpendInv, CartTypeOK', NEW a \in Apps, NEW r \in Request, ask' = [ask EXCEPT ![a] = r],
           ask[a].phase \in {"new", "topup", "order"},
           NEW lost \in Int, lost <= 0,
           lost = (IF r.phase = "added" THEN Smaller(r.amount, 0) ELSE 0),
           r.phase = "order" => r.base = points /\ points' = points,
           Rest(points) + lost <= Rest(points'),
           SumOf(Lost(ask)) + lost <= SumOf(points')
    PROVE  SpendInv'
<1>t. /\ points \in [Cards -> Int] /\ ask \in [Apps -> Request]
      /\ points' \in [Cards -> Int] /\ ask' \in [Apps -> Request]
  BY DEF SpendInv, CartTypeOK
<1>1. PICK q \in [Apps -> Request] : q = ask'
  BY <1>t
<1>2. q[a] = r /\ \A b \in Apps \ {a} : q[b] = ask[b]
  BY <1>t, <1>1
<1>3. SumOf(Lost(q)) = SumOf(Lost(ask)) + lost
  <2>1. SumOf(Lost(q)) = SumOf(Lost(ask))
                            + (IF r.phase = "added" THEN Smaller(r.amount, 0) ELSE 0)
    BY <1>t, <1>2, BooksStep
  <2> QED
    BY <2>1
<1>4. SumOf(Lost(ask)) \in Int /\ Rest(points) \in Int /\ SumOf(points) \in Int
  BY <1>t, BooksType, SumType, RestFacts
<1>5. PICK pts \in [Cards -> Int] : pts = points'
  BY <1>t
<1>6. Rest(pts) \in Int /\ SumOf(pts) \in Int
  BY RestFacts
<1>7. ASSUME NEW b \in Apps, q[b].phase = "order"
      PROVE  Rest(q[b].base) + SumOf(Lost(q)) <= Rest(pts)
  <2>1. CASE b = a
    <3>1. q[b].base = points /\ pts = points
      BY <1>2, <1>5, <1>7, <2>1
    <3>2. SumOf(Lost(q)) <= 0 /\ SumOf(Lost(q)) \in Int
      BY <1>3, <1>4 DEF SpendInv
    <3> QED
      BY <1>4, <3>1, <3>2
  <2>2. CASE b # a
    <3>1. q[b] = ask[b] /\ ask[b].phase = "order"
      BY <1>2, <1>7, <2>2
    <3>2. Rest(ask[b].base) + SumOf(Lost(ask)) <= Rest(points)
      BY <3>1 DEF SpendInv, OthersKept
    <3>3. Rest(ask[b].base) \in Int
      <4>1. PICK x \in Request : x = ask[b]
        BY <1>t
      <4>2. x.base \in [Cards -> Int]
        BY <3>1, <4>1, RequestFacts
      <4> QED
        BY <4>1, <4>2, RestFacts
    <3>4. Rest(points) + lost <= Rest(pts)
      BY <1>5
    <3> QED
      BY <1>3, <1>4, <1>6, <3>1, <3>2, <3>3, <3>4
  <2> QED
    BY <2>1, <2>2
<1>8. SumOf(Lost(q)) <= 0 /\ SumOf(Lost(q)) <= SumOf(pts)
  BY <1>3, <1>4, <1>5 DEF SpendInv
<1>9. OthersKept'
  BY <1>1, <1>5, <1>7 DEF OthersKept
<1> QED
  BY <1>1, <1>5, <1>8, <1>9 DEF SpendInv

LEMMA SpendStep == SpendInv /\ [CartNext]_cartVars => SpendInv'
<1> SUFFICES ASSUME SpendInv, [CartNext]_cartVars PROVE SpendInv'
  OBVIOUS
<1>0. CartTypeOK /\ CartTypeOK' /\ OthersKept
  BY CartTypeStep DEF SpendInv
<1>t. /\ points \in [Cards -> Int] /\ ask \in [Apps -> Request]
      /\ points' \in [Cards -> Int] /\ ask' \in [Apps -> Request]
  BY <1>0 DEF CartTypeOK
<1>f. FirstCard \in Cards /\ TopUpCard \in Cards
  BY CartAssumption
<1>l. /\ SumOf(Lost(ask)) \in Int /\ SumOf(Lost(ask)) <= 0 /\ SumOf(Lost(ask)) <= SumOf(points)
      /\ Rest(points) \in Int /\ SumOf(points) \in Int
      /\ SumOf(points) = Rest(points) + points[FirstCard]
  BY <1>t, BooksType, SumType, RestFacts DEF SpendInv
<1>1. ASSUME NEW a \in Apps, \/ \E want \in Wants : place_pos_order(a, want)
                             \/ \E amount \in TopUps : test_add_wallet_balance(a, amount)
                             \/ Refuse(a)
      PROVE  SpendInv'
  <2>1. PICK r \in Request :
           /\ ask' = [ask EXCEPT ![a] = r] /\ UNCHANGED <<points, register>>
           /\ ask[a].phase \in {"new", "topup", "order"}
           /\ r.phase \in {"refused", "topup", "order"}
           /\ r.phase = "order" => r.base = points
    BY <1>0, <1>1, RequestStep
  <2>2. /\ Rest(points) + 0 <= Rest(points') /\ SumOf(Lost(ask)) + 0 <= SumOf(points')
        /\ 0 = (IF r.phase = "added" THEN Smaller(r.amount, 0) ELSE 0)
    BY <1>l, <2>1
  <2>3. 0 \in Int /\ 0 <= 0 /\ (r.phase = "order" => r.base = points /\ points' = points)
    BY <2>1
  <2> HIDE DEF SpendInv
  <2> QED
    BY <1>0, <2>1, <2>2, <2>3, SpendByOne
<1>2. ASSUME NEW a \in Apps, CreateOrder(a) PROVE SpendInv'
  <2>1. PICK r \in Request :
           /\ ask[a].phase = "order" /\ ask[a].base \in [Cards -> Int]
           /\ ask[a].want \in Wants /\ ask' = [ask EXCEPT ![a] = r]
           /\ r.phase \in {"placed", "failed"}
           /\ points' = [points EXCEPT ![FirstCard] = @ - WalletUsed(ask[a].want, ask[a].base)]
           /\ WalletPays(ask[a].want, ask[a].base) => points[FirstCard] = ask[a].base[FirstCard]
    <3>1. WalletPays(ask[a].want, ask[a].base) => points[FirstCard] = ask[a].base[FirstCard]
      BY <1>2 DEF CreateOrder, CardChanged, Writes
    <3> QED
      BY <1>0, <1>2, <3>1, OrderStep
  <2> DEFINE base == ask[a].base  want == ask[a].want  used == WalletUsed(want, base)
  <2>2. /\ used \in Int /\ (WalletPays(want, base) => used <= SumOf(base))
        /\ ~WalletPays(want, base) => used = 0
    BY <2>1, WalletWithin, BalanceIsSum
  <2>3. /\ Rest(base) \in Int /\ SumOf(base) = Rest(base) + base[FirstCard]
        /\ base[FirstCard] \in Int
    BY <1>f, <2>1, RestFacts
  <2>4. Rest(base) + SumOf(Lost(ask)) <= Rest(points)
    BY <1>0, <2>1 DEF OthersKept
  <2>5. /\ points' = [points EXCEPT ![FirstCard] = @ + (-used)] /\ -used \in Int
        /\ points'[FirstCard] = points[FirstCard] + (-used) /\ points[FirstCard] \in Int
    <3>1. points' = [points EXCEPT ![FirstCard] = @ - used]
      BY <2>1
    <3>2. used \in Int
      BY <2>2
    <3> HIDE DEF used
    <3>3. points[FirstCard] \in Int /\ points[FirstCard] - used = points[FirstCard] + (-used)
      BY <1>t, <1>f, <3>2
    <3>4. points' = [points EXCEPT ![FirstCard] = @ + (-used)]
      BY <3>1, <3>3
    <3>5. points'[FirstCard] = points[FirstCard] + (-used)
      BY <1>t, <1>f, <3>4
    <3>6. -used \in Int
      BY <3>2
    <3> QED
      BY <3>3, <3>4, <3>5, <3>6
  <2>6. WalletPays(want, base) => points[FirstCard] = base[FirstCard]
    BY <2>1
  <2> HIDE DEF base, want, used
  <2>7. SumOf(points') = SumOf(points) + (-used)
    BY <1>t, <1>f, <2>5, PointsMove
  <2>8. Rest(points') = Rest(points)
    BY <1>l, <2>5, <2>7 DEF Rest
  <2>9. SumOf(Lost(ask)) <= SumOf(points')
    BY <1>l, <2>2, <2>3, <2>4, <2>5, <2>6, <2>7
  <2>10. /\ Rest(points) + 0 <= Rest(points') /\ SumOf(Lost(ask)) + 0 <= SumOf(points')
         /\ 0 = (IF r.phase = "added" THEN Smaller(r.amount, 0) ELSE 0)
    BY <1>l, <2>1, <2>8, <2>9
  <2>11. /\ 0 \in Int /\ 0 <= 0 /\ (r.phase = "order" => r.base = points /\ points' = points)
         /\ ask[a].phase \in {"new", "topup", "order"}
    BY <2>1
  <2>12. ask' = [ask EXCEPT ![a] = r]
    BY <2>1
  <2> QED
    BY <1>0, <2>10, <2>11, <2>12, SpendByOne
<1>3. ASSUME NEW a \in Apps, AddFunds(a) PROVE SpendInv'
  <2>1. PICK r \in Request :
           /\ ask[a].phase = "topup" /\ r.phase = "added" /\ r.amount \in Int
           /\ ask' = [ask EXCEPT ![a] = r]
           /\ points' = [points EXCEPT ![TopUpCard] = @ + r.amount]
    BY <1>0, <1>3, FundsStep
  <2> DEFINE lost == Smaller(r.amount, 0)
  <2>2. lost \in Int /\ lost <= 0 /\ lost <= r.amount
    BY <2>1 DEF Smaller
  <2>3. SumOf(points') = SumOf(points) + r.amount
    BY <1>t, <1>f, <2>1, PointsMove
  <2>4. /\ points'[FirstCard] = (IF FirstCard = TopUpCard THEN points[FirstCard] + r.amount
                                ELSE points[FirstCard])
        /\ points[FirstCard] \in Int
    BY <1>t, <1>f, <2>1
  <2>5. lost = (IF r.phase = "added" THEN Smaller(r.amount, 0) ELSE 0)
    BY <2>1
  <2> HIDE DEF lost
  <2>6. Rest(points) + lost <= Rest(points') /\ SumOf(Lost(ask)) + lost <= SumOf(points')
    BY <1>l, <2>1, <2>2, <2>3, <2>4 DEF Rest
  <2>7. /\ r.phase = "order" => r.base = points /\ points' = points
        /\ ask[a].phase \in {"new", "topup", "order"} /\ ask' = [ask EXCEPT ![a] = r]
    BY <2>1
  <2> QED
    BY <1>0, <2>2, <2>5, <2>6, <2>7, SpendByOne
<1>4. CASE TurnRegister \/ UNCHANGED cartVars
  <2>1. points' = points /\ ask' = ask
    BY <1>4 DEF TurnRegister, cartVars
  <2> QED
    BY <1>0, <2>1 DEF SpendInv, OthersKept
<1> QED
  BY <1>1, <1>2, <1>3, <1>4 DEF CartNext

(* However many orders overlap, and whatever card the wallet takes from,   *)
(* they take no more than the cards hold together: below zero the cards    *)
(* are by no more than negative amounts took off them.                     *)
THEOREM CardsCover == CartSpec => []NeverOverdrawn
<1>1. ASSUME CartInit PROVE SpendInv
  <2>1. OthersKept /\ Through(ask, "added") = {}
    BY <1>1 DEF CartInit, OthersKept, Asleep, Through
  <2>2. Lost(ask) \in [{} -> Int]
    BY <2>1 DEF Lost
  <2>3. SumOf(Lost(ask)) = 0
    BY <2>2, SumEmpty
  <2>4. points = Opening /\ SumOf(Opening) \in Nat
    BY <1>1, CartAssumption, SumNat DEF CartInit
  <2> QED
    BY <1>1, <2>1, <2>3, <2>4, CartTypeStart DEF SpendInv
<1>2. SpendInv => NeverOverdrawn
  <2>1. [a \in Ended("added") |-> Smaller(ask[a].amount, 0)] = Lost(ask)
    BY DEF Lost, Through, Ended
  <2>2. SpendInv => SumOf(Lost(ask)) \in Int /\ SumOf(points) \in Int
    BY BooksType, SumType, RestFacts DEF SpendInv, CartTypeOK
  <2> QED
    BY <2>1, <2>2, BalanceIsSum DEF SpendInv, NeverOverdrawn
<1> QED
  BY <1>1, <1>2, SpendStep, PTL DEF CartSpec
-----------------------------------------------------------------------------
(* The three services side by side                                         *)

LEMMA GuestStep ==
    GuestNext => [ServiceNext]_serviceVars /\ [PosNext]_posVars /\ [CartNext]_cartVars
BY DEF GuestNext, ServiceNext

(* Each service behaves beside the others as it does alone: what is proved *)
(* of it holds in the run that checks them.                                *)
THEOREM ServicesAreKept == GuestSpec => ServiceSpec /\ PosSpec /\ CartSpec
<1>1. GuestInit => ServiceInit /\ PosInit /\ CartInit
  BY DEF GuestInit
<1>2. [GuestNext]_guestVars =>
         [ServiceNext]_serviceVars /\ [PosNext]_posVars /\ [CartNext]_cartVars
  BY GuestStep DEF guestVars
<1> QED
  BY <1>1, <1>2, PTL DEF GuestSpec, ServiceSpec, PosSpec, CartSpec

(* Together they keep what each of them promises alone.                    *)
COROLLARY ServicesKeep ==
    GuestSpec => /\ [](NoStepSkipped /\ SomebodyIsOnIt /\ ChargedIsBilled)
                 /\ [](NeverOverdrawn /\ LinesAddUp /\ PointsAccounted)
                 /\ PaidStaysBilled
BY ServicesAreKept, NoneSkips, SomebodyOnRepairs, ChargeOnBill, CardsCover, OrdersAddUp,
   EveryPointAccounted, PaidIsFixed, PTL

(* What each service stores has its type.                                  *)
THEOREM TypeCorrect == GuestSpec => []GuestTypeOK
<1> DEFINE Inv == ServiceTypeOK /\ BillInv /\ CartTypeOK
<1>1. GuestInit => Inv
  BY ServiceTypeStart, BillStart, CartTypeStart DEF GuestInit
<1>2. Inv /\ [GuestNext]_guestVars => Inv'
  <2> SUFFICES ASSUME Inv, [GuestNext]_guestVars PROVE Inv'
    OBVIOUS
  <2>1. [ServiceNext]_serviceVars /\ [PosNext]_posVars /\ [CartNext]_cartVars
    BY GuestStep DEF guestVars
  <2> QED
    BY <2>1, ServiceTypeStep, BillStep, CartTypeStep
<1>3. Inv => GuestTypeOK
  BY DEF BillInv, GuestTypeOK
<1> QED
  BY <1>1, <1>2, <1>3, PTL DEF GuestSpec
=============================================================================
