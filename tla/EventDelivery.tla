--------------------------- MODULE EventDelivery ----------------------------
(***************************************************************************)
(* One outbound event: its row in `outbound_event_deliveries`, the request *)
(* that publishes it, and the requests that retry it                       *)
(* (app/services/event_delivery.py).                                       *)
(*                                                                         *)
(* The POST lies between two statements of a session, and the status is    *)
(* settled from the row object that the session read before it.  Nothing   *)
(* retries by itself: every retry is a request, and requests overlap.  A   *)
(* request that is refused (an unknown target, a missing delivery, a       *)
(* delivered one) changes nothing.                                         *)
(***************************************************************************)
EXTENDS Naturals, FiniteSets, Orm

CONSTANTS
  Senders,       (* requests that publish or retry the event               *)
  MaxAttempts    (* max_attempts of the row, at least 1 (PublishEventIn)   *)

ASSUME MaxAttemptsAssumption == MaxAttempts \in Nat \ {0}

VARIABLES
  delivery,      (* the committed row, if there is one                     *)
  sender,        (* what each request has in hand                          *)
  taken,         (* history: the target has accepted a POST                *)
  late           (* history: the requests that were under way when the     *)
                 (* row was settled as delivered                           *)

deliveryVars == <<delivery, sender, taken, late>>
-----------------------------------------------------------------------------
DeliveryStatus == {"pending", "retry_wait", "delivered", "failed"}
Delivery == [status : DeliveryStatus, attempts : 0 .. MaxAttempts]
NewDelivery == [status |-> "pending", attempts |-> 0]

(* mark: the row was read; post: the row is pending; settle: answered.     *)
Away == [at |-> "away"]
Sender ==
  {Away} \cup [at : {"mark", "post"}, row : Delivery]
         \cup [at : {"settle"}, row : Delivery, ok : BOOLEAN]
UnderWay == {s \in Senders : sender[s] # Away}

DeliveryInit ==
  /\ delivery = {}
  /\ sender = [s \in Senders |-> Away]
  /\ taken = FALSE
  /\ late = {}
-----------------------------------------------------------------------------
(* publish_event: create_delivery commits the row, deliver goes on.        *)
PublishEvent(s) ==
  /\ delivery = {}
  /\ delivery' = {NewDelivery}
  /\ sender' = [sender EXCEPT ![s] = [at |-> "post", row |-> NewDelivery]]
  /\ UNCHANGED <<taken, late>>

(* retry_delivery reads the row and refuses a delivered one.               *)
RetryDelivery(s) ==
  /\ sender[s] = Away
  /\ \E row \in delivery :
       /\ row.status # "delivered"
       /\ sender' = [sender EXCEPT ![s] = [at |-> "mark", row |-> row]]
  /\ UNCHANGED <<delivery, taken, late>>

(* Its first commit.  Attempts that are used up start again; only the      *)
(* columns that differ from what was read are written.                     *)
MarkedUnreset(row) == [row EXCEPT !.status = "pending"]

Marked(row) ==
  [status |-> "pending", attempts |-> IF row.attempts >= MaxAttempts THEN 0 ELSE row.attempts]

MarkPending(s) ==
  LET mine == sender[s].row IN
    /\ sender[s].at = "mark"
    /\ delivery' = {[c \in {"status", "attempts"} |-> Written(row[c], mine[c], Marked(mine)[c])] :
                     row \in delivery}
    /\ sender' = [sender EXCEPT ![s] = [at |-> "post", row |-> Marked(mine)]]
    /\ UNCHANGED <<taken, late>>

(* deliver: the attempt is counted in memory and the event is posted.  A   *)
(* time-out or a lost answer is an exception, whatever the target did.     *)
Post(s) ==
  /\ sender[s].at = "post"
  /\ \E accepted, answered \in BOOLEAN :
       /\ taken' = (taken \/ accepted)
       /\ sender' = [sender EXCEPT ![s] =
                      [at |-> "settle", ok |-> accepted /\ answered,
                       row |-> [sender[s].row EXCEPT !.attempts = @ + 1]]]
  /\ UNCHANGED <<delivery, late>>

(* The last commit of deliver.  The row object was pending and counted one *)
(* attempt less, so both columns are always written.                       *)
OutcomeUnchecked(s) == IF sender[s].row.attempts >= MaxAttempts THEN "failed" ELSE "delivered"

Outcome(s) ==
  CASE sender[s].ok -> "delivered"
    [] ~ sender[s].ok /\ sender[s].row.attempts >= MaxAttempts -> "failed"
    [] OTHER -> "retry_wait"

Settle(s) ==
  /\ sender[s].at = "settle"
  /\ delivery' = {[status |-> Outcome(s), attempts |-> sender[s].row.attempts]}
  /\ sender' = [sender EXCEPT ![s] = Away]
  /\ late' = IF Outcome(s) = "delivered" THEN UnderWay \ {s} ELSE late \ {s}
  /\ UNCHANGED taken

(* The process dies, or the request times out, at any await.               *)
LoseSender(s) ==
  /\ sender[s] # Away
  /\ sender' = [sender EXCEPT ![s] = Away]
  /\ late' = late \ {s}
  /\ UNCHANGED <<delivery, taken>>

DeliveryNext ==
  \E s \in Senders :
    \/ PublishEvent(s) \/ RetryDelivery(s) \/ MarkPending(s)
    \/ Post(s) \/ Settle(s) \/ LoseSender(s)

DeliverySpec == DeliveryInit /\ [][DeliveryNext]_deliveryVars
-----------------------------------------------------------------------------
(***************************************************************************)
(* Properties.                                                             *)
(***************************************************************************)
(* The row and the requests keep their types; in particular the attempts   *)
(* never exceed max_attempts, whoever resets them next to whom.            *)
DeliveryTypeOK ==
  /\ delivery \in {{}} \cup {{row} : row \in Delivery}
  /\ sender \in [Senders -> Sender]
  /\ taken \in BOOLEAN
  /\ late \subseteq UnderWay
  /\ delivery = {} => UnderWay = {} /\ ~ taken

(* A delivery that says `delivered` was accepted by its target, although   *)
(* the status was settled from a row read before the POST and others       *)
(* posted meanwhile.  (The converse fails: the answer may be lost.)        *)
DeliveredWasTaken == \A row \in delivery : row.status = "delivered" => taken

(* A delivered event leaves that status only through a request that was    *)
(* already under way when it was delivered: no later retry touches it      *)
(* ("delivery already succeeded", event_delivery.py:87).                   *)
OnlyLateSendersUndeliver ==
  [][\A row \in delivery :
       row.status = "delivered" /\ delivery' # delivery =>
         \E s \in late : sender'[s] # sender[s]]_deliveryVars
=============================================================================
