------------------------------- MODULE Flows -------------------------------
(***************************************************************************)
(* What flows through the foundation runtime: events through the bounded   *)
(* queues of the bus (app/services/event_bus.py, one topic) and requests   *)
(* of one service identity through the rate limit of the policy engine     *)
(* (app/services/api_policy.py; identity, size and role are decided before *)
(* and without it).  Time is counted in parts of the minute.               *)
(***************************************************************************)
EXTENDS Integers, Sequences, FiniteSets

CONSTANTS
  Subscribers,   (* queues handed out by subscribe                         *)
  MaxQueue,      (* max_queue                                              *)
  MaxEvents,     (* bound: events published                                *)
  PerMinute,     (* requests_per_minute                                    *)
  Minute,        (* the length of the minute                               *)
  MaxTime        (* bound: the clock                                       *)

ASSUME FlowsAssumption ==
  /\ IsFiniteSet(Subscribers)
  /\ MaxQueue \in Nat \ {0} /\ MaxEvents \in Nat
  /\ PerMinute \in Nat /\ Minute \in Nat /\ MaxTime \in Nat

VARIABLES
  subscribed,    (* _subscribers[topic]                                    *)
  sequence,      (* _sequence                                              *)
  inbox,         (* the queue of a subscriber                              *)
  droppedEvents, (* dropped_events                                         *)
  received,      (* history: what a subscriber got from its queue          *)
  owed,          (* history: deliveries that were due, <<subscriber,       *)
                 (* event>>                                                *)
  now,           (* time.time(), which does not go back                    *)
  allowed,       (* when each request was that has been allowed            *)
  bucket         (* _buckets[service_identity]: which of those times it    *)
                 (* holds, two of which may be the same                    *)

busVars == <<subscribed, sequence, inbox, droppedEvents, received, owed>>
policyVars == <<now, bucket, allowed>>
flowVars == <<busVars, policyVars>>

FlowInit ==
  /\ subscribed = {} /\ sequence = 0 /\ droppedEvents = 0 /\ owed = {}
  /\ inbox = [s \in Subscribers |-> <<>>]
  /\ received = [s \in Subscribers |-> <<>>]
  /\ now = 0 /\ bucket = {} /\ allowed = <<>>
-----------------------------------------------------------------------------
(***************************************************************************)
(* The event bus.                                                          *)
(***************************************************************************)

(* Each subscription is a new queue: it is not subscribed twice.           *)
Subscribe(s) ==
  /\ s \notin subscribed
  /\ inbox[s] = <<>> /\ received[s] = <<>>
  /\ subscribed' = subscribed \cup {s}
  /\ UNCHANGED <<sequence, inbox, droppedEvents, received, owed>>

(* What is in the queue stays with its reader.                             *)
Unsubscribe(s) ==
  /\ subscribed' = subscribed \ {s}
  /\ UNCHANGED <<sequence, inbox, droppedEvents, received, owed>>

Full == {s \in subscribed : Len(inbox[s]) >= MaxQueue}

(* publish_nowait                                                          *)
PublishNowait ==
  /\ sequence < MaxEvents
  /\ sequence' = sequence + 1
  /\ inbox' = [s \in Subscribers |->
                 IF s \in subscribed \ Full THEN Append(inbox[s], sequence + 1) ELSE inbox[s]]
  /\ droppedEvents' = droppedEvents + Cardinality(Full)
  /\ owed' = owed \cup (subscribed \X {sequence + 1})
  /\ UNCHANGED <<subscribed, received>>

(* A reader takes the next event from its queue.                           *)
Take(s) ==
  /\ inbox[s] # <<>>
  /\ received' = [received EXCEPT ![s] = Append(@, Head(inbox[s]))]
  /\ inbox' = [inbox EXCEPT ![s] = Tail(@)]
  /\ UNCHANGED <<subscribed, sequence, droppedEvents, owed>>

BusNext ==
  \/ PublishNowait
  \/ \E s \in Subscribers : Subscribe(s) \/ Unsubscribe(s) \/ Take(s)
-----------------------------------------------------------------------------
(***************************************************************************)
(* The rate limit.                                                         *)
(***************************************************************************)

(* evaluate keeps what is not older than a minute.                         *)
RecentStrictly(S) == {i \in S : allowed[i] > now - Minute}
Recent(S) == {i \in S : allowed[i] >= now - Minute}

Evaluate ==
  /\ IF Cardinality(Recent(bucket)) >= PerMinute
     THEN bucket' = Recent(bucket) /\ UNCHANGED allowed
     ELSE /\ allowed' = Append(allowed, now)
          /\ bucket' = Recent(bucket) \cup {Len(allowed) + 1}
  /\ UNCHANGED now

TimePasses ==
  /\ now < MaxTime
  /\ now' = now + 1
  /\ UNCHANGED <<bucket, allowed>>

FlowNext ==
  \/ BusNext /\ UNCHANGED policyVars
  \/ (Evaluate \/ TimePasses) /\ UNCHANGED busVars

FlowSpec == FlowInit /\ [][FlowNext]_flowVars
-----------------------------------------------------------------------------
(* The bus and the engine hold what their fields may hold.                 *)
FlowTypeOK ==
  /\ subscribed \subseteq Subscribers
  /\ sequence \in 0..MaxEvents
  /\ \A s \in Subscribers : Len(inbox[s]) <= MaxQueue
  /\ now \in 0..MaxTime

(* Of the deliveries that were due, each was taken, waits in its queue or  *)
(* is counted as dropped, and a reader sees events in the order they were  *)
(* published, each once, whoever comes and goes and whichever queue is     *)
(* full.  No minute, wherever it begins, holds more than the permitted     *)
(* requests.                                                               *)
Seen(s) == received[s] \o inbox[s]
Reached == UNION {{<<s, Seen(s)[i]>> : i \in 1 .. Len(Seen(s))} : s \in Subscribers}
Within(t) == {i \in 1 .. Len(allowed) : t <= allowed[i] /\ allowed[i] <= t + Minute}

FlowsAreAccounted ==
  /\ Reached \subseteq owed /\ droppedEvents = Cardinality(owed \ Reached)
  /\ \A s \in Subscribers :
       \A i, j \in 1 .. Len(Seen(s)) : i < j => Seen(s)[i] < Seen(s)[j]
  /\ \A t \in 0 .. now : Cardinality(Within(t)) <= PerMinute
=============================================================================
