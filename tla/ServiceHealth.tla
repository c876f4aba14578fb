--------------------------- MODULE ServiceHealth ----------------------------
(***************************************************************************)
(* One service: the polls that probe it (app/services/health_poller.py),   *)
(* its incidents (incidents.py, and routing.py for the incident that a     *)
(* correlated event opens), its alerts (alerting.py), and the operators    *)
(* who signal troubles, and acknowledge, resolve and escalate the alerts.  *)
(*                                                                         *)
(* A poll is one session and several commits.  Whatever a commit raises    *)
(* ends the poll, and gather swallows it; an error while the services are  *)
(* listed ends the loop itself, which nobody restarts but the next         *)
(* process.  There is one incident, and one alert of the policy, for each  *)
(* trouble (`dedupe_key` is unique); a healthy poll closes every open      *)
(* incident of the service, the one that an event opened included.         *)
(***************************************************************************)
EXTENDS Naturals, FiniteSets, Orm

CONSTANTS
  Pollers,       (* processes that run the poll loop                       *)
  Operators,     (* requests on the alerts                                 *)
  Troubles,      (* the probe's "degraded" and "offline"                   *)
  EventTrouble   (* the correlated event of a rule that creates incidents  *)

ASSUME HealthAssumption == EventTrouble \notin Troubles /\ "healthy" \notin Troubles

VARIABLES
  condition,     (* what a probe of the service finds                      *)
  reliable,      (* nothing fails: database, processes                     *)
  covered,       (* the troubles that the policy alerts on                 *)
  incidents,     (* status of each incident, "none" before the first       *)
  alerts,        (* status of each alert, and whether it was escalated     *)
  poll,          (* what each poll has in hand                             *)
  desk,          (* what each operator has in hand                         *)
  clear          (* history: a healthy poll has ended, and no poll, event  *)
                 (* or signal has found any trouble since it began         *)

healthVars ==
  <<condition, reliable, covered, incidents, alerts, poll, desk, clear>>
-----------------------------------------------------------------------------
Kinds == Troubles \cup {EventTrouble}
Findings == Troubles \cup {"healthy"}
AlertRow ==
  [status : {"none", "open", "acknowledged", "resolved"}, escalated : BOOLEAN]
NoAlert == [status |-> "none", escalated |-> FALSE]
Active(t) == alerts[t].status \in {"open", "acknowledged"}

(* `sole` is history: of a healthy poll, nobody has found a trouble since   *)
(* it began.                                                               *)
NoPoll == [at |-> "idle"]
NoLoop == [at |-> "dead"]
Poll ==
  {NoPoll, NoLoop}
    \cup [at : {"found"}, sole : BOOLEAN, found : Findings]
    \cup [at : {"incidents"}, sole : BOOLEAN, found : Findings, open : SUBSET Kinds,
          known : BOOLEAN]
    \cup [at : {"evaluate"}, sole : BOOLEAN, found : Findings]
    \cup [at : {"alerts"}, sole : BOOLEAN, found : Findings, rows : SUBSET Troubles, row : AlertRow]

NoWork == [at |-> "away"]
Work ==
  {NoWork} \cup [at : {"write", "signal"}, alert : Troubles, loaded : AlertRow, wants : AlertRow]

HealthInit ==
  /\ condition \in Findings
  /\ reliable = FALSE
  /\ covered \in SUBSET Troubles
  /\ incidents = [k \in Kinds |-> "none"]
  /\ alerts = [t \in Troubles |-> NoAlert]
  /\ poll = [p \in Pollers |-> NoPoll]
  /\ desk = [o \in Operators |-> NoWork]
  /\ clear = FALSE
-----------------------------------------------------------------------------
(* The surroundings.                                                       *)
ServiceChanges ==
  /\ condition' \in Findings \ {condition}
  /\ UNCHANGED <<reliable, covered, incidents, alerts, poll, desk, clear>>

Failures ==
  /\ reliable' = ~ reliable
  /\ UNCHANGED <<condition, covered, incidents, alerts, poll, desk, clear>>

(* upsert_policy: enabled, trigger_states and minimum_severity together    *)
(* decide which troubles of the service raise an alert.                    *)
UpsertPolicy ==
  /\ covered' \in SUBSET Troubles \ {covered}
  /\ UNCHANGED <<condition, reliable, incidents, alerts, poll, desk, clear>>
-----------------------------------------------------------------------------
(* The poll.  Poller p finds the condition; a trouble that is found ends   *)
(* the claim of every other poll to be the only one.                       *)
Polls(q) == poll[q] \notin {NoPoll, NoLoop}
Finds(trouble, p, next) ==
  IF trouble
  THEN /\ poll' = [q \in Pollers |->
                     IF q = p THEN next
                     ELSE IF Polls(q) THEN [poll[q] EXCEPT !.sole = FALSE] ELSE poll[q]]
       /\ clear' = FALSE
  ELSE poll' = [poll EXCEPT ![p] = next] /\ UNCHANGED clear

Sick(q) == Polls(q) /\ poll[q].found # "healthy"
Signalling == \E o \in Operators : desk[o].at = "signal"

(* poll_service up to the session, and the heartbeat and the sample that   *)
(* it commits first.                                                       *)
PollBegins(p) ==
  /\ poll[p] = NoPoll
  /\ Finds(condition # "healthy", p,
           [at |-> "found", found |-> condition,
            sole |-> condition = "healthy" /\ ~ Signalling /\ \A q \in Pollers : ~ Sick(q)])
  /\ UNCHANGED <<condition, reliable, covered, incidents, alerts, desk>>

(* The SELECT of resolve_service_incidents or open_or_update_incident.     *)
ReadIncidents(p) ==
  LET found == poll[p].found
      sought == IF found = "healthy" THEN Kinds ELSE {found} IN
    /\ poll[p].at = "found"
    /\ poll' = [poll EXCEPT ![p] =
         [at |-> "incidents", found |-> found, sole |-> poll[p].sole,
          open |-> {k \in sought : incidents[k] = "open"},
          known |-> found \in Troubles /\ incidents[found] # "none"]]
    /\ UNCHANGED <<condition, reliable, covered, incidents, alerts, desk, clear>>

(* The commit.  A row that was read open is written only by a healthy      *)
(* poll.  The INSERT of an incident that another poll has inserted         *)
(* meanwhile is refused, and ends the poll (RefusedIncident).              *)
ResolvesOwnTroubles(p) ==
  [k \in Kinds |-> IF k \in poll[p].open /\ k # EventTrouble THEN "resolved" ELSE incidents[k]]

Resolves(p) == [k \in Kinds |-> IF k \in poll[p].open THEN "resolved" ELSE incidents[k]]

Opens(p) ==
  IF poll[p].found \in poll[p].open THEN incidents
  ELSE [incidents EXCEPT ![poll[p].found] = "open"]

CommitIncidents(p) ==
  /\ poll[p].at = "incidents"
  /\ IF poll[p].found = "healthy" THEN incidents' = Resolves(p)
     ELSE (poll[p].known \/ incidents[poll[p].found] = "none") /\ incidents' = Opens(p)
  /\ poll' = [poll EXCEPT ![p] =
                [at |-> "evaluate", found |-> poll[p].found, sole |-> poll[p].sole]]
  /\ UNCHANGED <<condition, reliable, covered, alerts, desk, clear>>

RefusedIncident(p) ==
  /\ poll[p].at = "incidents"
  /\ poll[p].found \in Troubles /\ ~ poll[p].known /\ incidents[poll[p].found] # "none"
  /\ poll' = [poll EXCEPT ![p] = NoPoll]
  /\ UNCHANGED <<condition, reliable, covered, incidents, alerts, desk, clear>>

(* resolve_service_alerts takes every alert that is not resolved, and      *)
(* evaluate_signal the alert of the trouble when the policy covers it.     *)
ReadAlerts(p) ==
  LET found == poll[p].found
      rows == IF found = "healthy" THEN {t \in Troubles : Active(t)} ELSE covered \cap {found} IN
    /\ poll[p].at = "evaluate"
    /\ poll' = [poll EXCEPT ![p] =
         [at |-> "alerts", found |-> found, sole |-> poll[p].sole, rows |-> rows,
          row |-> IF found \in rows THEN alerts[found] ELSE NoAlert]]
    /\ UNCHANGED <<condition, reliable, covered, incidents, alerts, desk, clear>>

(* The last commit of the poll.  A resolved alert is reopened; its         *)
(* escalation is reset only if it was escalated when it was read.          *)
Resolved(p) ==
  [t \in Troubles |->
     IF t \in poll[p].rows THEN [alerts[t] EXCEPT !.status = "resolved"] ELSE alerts[t]]

RaisedWhenNew(p) ==
  [t \in Troubles |->
     IF t \in poll[p].rows /\ poll[p].row.status = "none"
     THEN [alerts[t] EXCEPT !.status = "open"] ELSE alerts[t]]

Raised(p) ==
  LET row == poll[p].row IN
    [t \in Troubles |->
       CASE t \in poll[p].rows /\ row.status = "none" -> [NoAlert EXCEPT !.status = "open"]
         [] t \in poll[p].rows /\ row.status = "resolved" ->
              [status |-> "open", escalated |-> Written(alerts[t].escalated, row.escalated, FALSE)]
         [] OTHER -> alerts[t]]

CommitAlerts(p) ==
  /\ poll[p].at = "alerts"
  /\ IF poll[p].found = "healthy" THEN alerts' = Resolved(p)
     ELSE /\ \A t \in poll[p].rows : poll[p].row = NoAlert => alerts[t] = NoAlert
          /\ alerts' = Raised(p)
  /\ clear' = (clear \/ poll[p].sole)
  /\ poll' = [poll EXCEPT ![p] = NoPoll]
  /\ UNCHANGED <<condition, reliable, covered, incidents, desk>>

RefusedAlert(p) ==
  /\ poll[p].at = "alerts"
  /\ \E t \in poll[p].rows \cap {poll[p].found} : poll[p].row = NoAlert /\ alerts[t] # NoAlert
  /\ poll' = [poll EXCEPT ![p] = NoPoll]
  /\ UNCHANGED <<condition, reliable, covered, incidents, alerts, desk, clear>>

(* A failing commit ends the poll; a failing list_services ends the loop;  *)
(* a process that restarts has a new loop.                                 *)
PollFails(p) ==
  /\ ~ reliable
  /\ poll' = [poll EXCEPT ![p] = IF @ = NoPoll THEN NoLoop ELSE NoPoll]
  /\ UNCHANGED <<condition, reliable, covered, incidents, alerts, desk, clear>>
-----------------------------------------------------------------------------
(* correlate_and_route of an event whose rule creates an incident.  Only   *)
(* an open incident is looked for: when it is closed, the INSERT is        *)
(* refused by the unique dedupe_key.                                       *)
RouteEvent ==
  /\ incidents[EventTrouble] = "none"
  /\ incidents' = [incidents EXCEPT ![EventTrouble] = "open"]
  /\ Finds(TRUE, EventTrouble, NoPoll)
  /\ UNCHANGED <<condition, reliable, covered, alerts, desk>>
-----------------------------------------------------------------------------
(* Operators: acknowledge_alert and resolve_alert take any alert,          *)
(* advance_escalations those that are open and due (time is abstracted).   *)
Takes(o, t, wants) ==
  /\ desk[o] = NoWork
  /\ alerts[t] # NoAlert
  /\ desk' = [desk EXCEPT ![o] =
                [at |-> "write", alert |-> t, loaded |-> alerts[t], wants |-> wants]]
  /\ UNCHANGED <<condition, reliable, covered, incidents, alerts, poll, clear>>

Acknowledge(o, t) == Takes(o, t, [alerts[t] EXCEPT !.status = "acknowledged"])
Resolve(o, t) == Takes(o, t, [alerts[t] EXCEPT !.status = "resolved"])
Escalate(o, t) ==
  /\ alerts[t] = [status |-> "open", escalated |-> FALSE]
  /\ Takes(o, t, [alerts[t] EXCEPT !.escalated = TRUE])

(* POST /v1/alerting/evaluate: evaluate_signal by an operator, who has     *)
(* found the trouble himself.  Its severity is his, so that `covered` does *)
(* not tell whether the policy alerts on it.                               *)
Signalled(row) ==
  IF row.status \in {"none", "resolved"} THEN [status |-> "open", escalated |-> FALSE] ELSE row

Signal(o, t) ==
  /\ desk[o] = NoWork
  /\ Finds(TRUE, o, NoPoll)
  /\ desk' = [desk EXCEPT ![o] = [at |-> "signal", alert |-> t, loaded |-> alerts[t],
                                 wants |-> Signalled(alerts[t])]]
  /\ UNCHANGED <<condition, reliable, covered, incidents, alerts>>

(* The commit writes the columns that were changed; an INSERT is refused   *)
(* when the alert is there by now.                                         *)
DeskWrites(o) ==
  LET work == desk[o] IN
    /\ work # NoWork
    /\ work.loaded = NoAlert => alerts[work.alert] = NoAlert
    /\ alerts' = [alerts EXCEPT ![work.alert] =
         [c \in {"status", "escalated"} |-> Written(@[c], work.loaded[c], work.wants[c])]]
    /\ desk' = [desk EXCEPT ![o] = NoWork]
    /\ UNCHANGED <<condition, reliable, covered, incidents, poll, clear>>

RefusedSignal(o) ==
  /\ desk[o].at = "signal"
  /\ desk[o].loaded = NoAlert /\ alerts[desk[o].alert] # NoAlert
  /\ desk' = [desk EXCEPT ![o] = NoWork]
  /\ UNCHANGED <<condition, reliable, covered, incidents, alerts, poll, clear>>

DeskFails(o) ==
  /\ ~ reliable
  /\ desk[o] # NoWork
  /\ desk' = [desk EXCEPT ![o] = NoWork]
  /\ UNCHANGED <<condition, reliable, covered, incidents, alerts, poll, clear>>
-----------------------------------------------------------------------------
PollStep(p) ==
  \/ PollBegins(p) \/ ReadIncidents(p) \/ CommitIncidents(p) \/ RefusedIncident(p)
  \/ ReadAlerts(p) \/ CommitAlerts(p) \/ RefusedAlert(p)

HealthNext ==
  \/ ServiceChanges \/ Failures \/ UpsertPolicy \/ RouteEvent
  \/ \E p \in Pollers : PollStep(p) \/ PollFails(p)
  \/ \E o \in Operators :
       \/ DeskWrites(o) \/ RefusedSignal(o) \/ DeskFails(o)
       \/ \E t \in Troubles : Signal(o, t) \/ Acknowledge(o, t) \/ Resolve(o, t) \/ Escalate(o, t)

HealthSpec == HealthInit /\ [][HealthNext]_healthVars

(* The loop sleeps and polls again, for ever.                              *)
HealthFairness == \A p \in Pollers : WF_healthVars(PollStep(p))
-----------------------------------------------------------------------------
(***************************************************************************)
(* Properties.                                                             *)
(***************************************************************************)
(* The rows, the polls and the desks keep their types.                     *)
HealthTypeOK ==
  /\ condition \in Findings
  /\ reliable \in BOOLEAN
  /\ covered \subseteq Troubles
  /\ incidents \in [Kinds -> {"none", "open", "resolved"}]
  /\ alerts \in [Troubles -> AlertRow]
  /\ poll \in [Pollers -> Poll]
  /\ desk \in [Operators -> Work]
  /\ clear \in BOOLEAN

(* The all-clear is real.  After a healthy poll during which nobody found  *)
(* or signalled a trouble, and until a poll, an event or a signal finds    *)
(* one, no incident of the service and none of its alerts is open,         *)
(* whatever other polls and operators still write.                         *)
AllClearIsQuiet ==
  clear => /\ \A k \in Kinds : incidents[k] # "open"
           /\ \A t \in Troubles : alerts[t].status # "open"

(* From a service that stays healthy, with loops that stay alive, every    *)
(* incident is closed in the end, and each alert time and again: an        *)
(* operator may acknowledge a closed one or signal a trouble.              *)
Quietly(finding) == reliable /\ condition = finding /\ \A p \in Pollers : poll[p] # NoLoop
HealthyCloses ==
  <>[]Quietly("healthy") =>
    /\ <>[](\A k \in Kinds : incidents[k] # "open")
    /\ \A t \in Troubles : []<>(~ Active(t))

(* A trouble that lasts has an open incident in the end, and an active     *)
(* alert, time and again, when the policy covers it.                       *)
TroubleIsReported ==
  \A t \in Troubles :
    <>[]Quietly(t) =>
      /\ <>[](incidents[t] = "open")
      /\ <>[](t \in covered) => []<>Active(t)

PollsSettle == HealthyCloses /\ TroubleIsReported
=============================================================================
