-------------------------- MODULE OperationsProofs --------------------------
(***************************************************************************)
(* What the rows of the control plane guarantee, for any number of         *)
(* overlapping requests, polls and starting processes, and what the        *)
(* composition of the components guarantees.                               *)
(***************************************************************************)
EXTENDS MCOperations, FoundationProofs

-----------------------------------------------------------------------------
(***************************************************************************)
(* Outbound events.                                                        *)
(***************************************************************************)
(* A request with attempts left posts; one with an accepted answer was     *)
(* taken; and once the row is delivered every request under way is late.   *)
Posting ==
  \A s \in Senders :
    /\ sender[s].at = "post" => sender[s].row.attempts < MaxAttempts
    /\ sender[s].at = "settle" /\ sender[s].ok => taken

Overtaken == \A row \in delivery : row.status = "delivered" => UnderWay \subseteq late

DeliveryInv == DeliveryTypeOK /\ Posting /\ DeliveredWasTaken /\ Overtaken

LEMMA MarkedTyped ==
  ASSUME NEW row \in Delivery
  PROVE  Marked(row) \in Delivery /\ Marked(row).attempts < MaxAttempts
BY MaxAttemptsAssumption DEF Delivery, Marked, DeliveryStatus

LEMMA NewDeliveryTyped == NewDelivery \in Delivery /\ NewDelivery.attempts < MaxAttempts
BY MaxAttemptsAssumption DEF Delivery, NewDelivery, DeliveryStatus

LEMMA SenderTyped ==
  ASSUME DeliveryTypeOK, NEW s \in Senders
  PROVE  /\ sender[s].at \in {"away", "mark", "post", "settle"}
         /\ sender[s].at = "away" <=> sender[s] = Away
         /\ sender[s].at # "away" => sender[s].row \in Delivery
         /\ sender[s].at = "settle" => sender[s].ok \in BOOLEAN
BY DEF DeliveryTypeOK, Sender, Away

LEMMA DeliveryInitInv == DeliveryInit => DeliveryInv
<1>1. SUFFICES ASSUME DeliveryInit PROVE DeliveryInv
  OBVIOUS
<1>2. UnderWay = {}
  BY <1>1 DEF DeliveryInit, UnderWay
<1>3. DeliveryTypeOK
  BY <1>1, <1>2 DEF DeliveryInit, DeliveryTypeOK, Sender
<1> QED BY <1>1, <1>3 DEF DeliveryInit, DeliveryInv, Posting, DeliveredWasTaken, Overtaken, Away

LEMMA PublishStep ==
  ASSUME DeliveryInv, NEW s \in Senders, PublishEvent(s) PROVE DeliveryInv'
<1>1. /\ delivery = {} /\ delivery' = {NewDelivery}
      /\ UnderWay = {} /\ late = {} /\ late' = late /\ taken' = taken
      /\ sender' = [sender EXCEPT ![s] = [at |-> "post", row |-> NewDelivery]]
  BY DEF PublishEvent, DeliveryInv, DeliveryTypeOK
<1>2. DeliveryTypeOK'
  BY <1>1, NewDeliveryTyped DEF DeliveryInv, DeliveryTypeOK, Sender, UnderWay
<1>3. Posting'
  BY <1>1, NewDeliveryTyped DEF DeliveryInv, DeliveryTypeOK, Posting
<1>4. DeliveredWasTaken' /\ Overtaken'
  BY <1>1 DEF DeliveredWasTaken, Overtaken, NewDelivery
<1> QED BY <1>2, <1>3, <1>4 DEF DeliveryInv

LEMMA RetryStep ==
  ASSUME DeliveryInv, NEW s \in Senders, RetryDelivery(s) PROVE DeliveryInv'
<1>1. PICK row \in delivery :
        /\ row.status # "delivered"
        /\ sender' = [sender EXCEPT ![s] = [at |-> "mark", row |-> row]]
  BY DEF RetryDelivery
<1>2. delivery = {row} /\ row \in Delivery /\ UNCHANGED <<delivery, taken, late>>
  BY <1>1 DEF RetryDelivery, DeliveryInv, DeliveryTypeOK
<1>3. DeliveryTypeOK'
  BY <1>1, <1>2 DEF DeliveryInv, DeliveryTypeOK, Sender, UnderWay, Away
<1>4. Posting'
  BY <1>1, <1>2 DEF DeliveryInv, DeliveryTypeOK, Posting
<1>5. DeliveredWasTaken' /\ Overtaken'
  BY <1>1, <1>2 DEF DeliveredWasTaken, Overtaken
<1> QED BY <1>3, <1>4, <1>5 DEF DeliveryInv

LEMMA MarkStep ==
  ASSUME DeliveryInv, NEW s \in Senders, MarkPending(s) PROVE DeliveryInv'
<1>1. PICK mine \in Delivery : mine = sender[s].row
  BY SenderTyped DEF MarkPending, DeliveryInv
<1>2. /\ sender[s].at = "mark"
      /\ delivery' = {[c \in {"status", "attempts"} |-> Written(row[c], mine[c], Marked(mine)[c])] :
                       row \in delivery}
      /\ sender' = [sender EXCEPT ![s] = [at |-> "post", row |-> Marked(mine)]]
      /\ UNCHANGED <<taken, late>>
  BY <1>1 DEF MarkPending
<1>3. ASSUME NEW row \in Delivery, NEW new,
             new = [c \in {"status", "attempts"} |-> Written(row[c], mine[c], Marked(mine)[c])]
      PROVE  new \in Delivery /\ new.status \in {row.status, "pending"}
  <2> DEFINE status == Written(row.status, mine.status, Marked(mine).status)
             attempts == Written(row.attempts, mine.attempts, Marked(mine).attempts)
  <2>1. status \in {row.status, "pending"} /\ status \in DeliveryStatus
    BY MarkedTyped DEF Written, Marked, Delivery, DeliveryStatus
  <2>2. attempts \in 0 .. MaxAttempts
    BY MarkedTyped DEF Written, Delivery
  <2>3. new = [status |-> status, attempts |-> attempts]
    BY <1>3
  <2> HIDE DEF status, attempts
  <2>4. [status |-> status, attempts |-> attempts] \in Delivery
    BY <2>1, <2>2 DEF Delivery
  <2>5. new.status = status
    BY <2>3
  <2> QED BY <2>1, <2>3, <2>4, <2>5
<1>4. /\ delivery' \in {{}} \cup {{row} : row \in Delivery}
      /\ delivery' = {} <=> delivery = {}
      /\ \A new \in delivery' : new.status = "delivered" =>
           \E row \in delivery : row.status = "delivered"
  <2>1. CASE delivery = {}
    BY <1>2, <2>1
  <2>2. ASSUME NEW row \in Delivery, delivery = {row}
        PROVE  /\ delivery' \in {{}} \cup {{r} : r \in Delivery}
               /\ delivery' = {} <=> delivery = {}
               /\ \A new \in delivery' : new.status = "delivered" =>
                    \E r \in delivery : r.status = "delivered"
    <3>1. PICK new :
            new = [c \in {"status", "attempts"} |-> Written(row[c], mine[c], Marked(mine)[c])]
      OBVIOUS
    <3>2. delivery' = {new}
      BY <1>2, <2>2, <3>1, Zenon
    <3>3. new \in Delivery /\ new.status \in {row.status, "pending"}
      BY <1>3, <3>1
    <3> QED BY <2>2, <3>2, <3>3
  <2> QED BY <2>1, <2>2 DEF DeliveryInv, DeliveryTypeOK
<1>5. UnderWay' = UnderWay
  BY <1>2 DEF UnderWay, DeliveryInv, DeliveryTypeOK, Away
<1>6. DeliveryTypeOK'
  BY <1>1, <1>2, <1>4, <1>5, MarkedTyped DEF DeliveryInv, DeliveryTypeOK, Sender
<1>7. Posting'
  BY <1>1, <1>2, MarkedTyped DEF DeliveryInv, DeliveryTypeOK, Posting
<1>8. DeliveredWasTaken' /\ Overtaken'
  BY <1>2, <1>4, <1>5 DEF DeliveryInv, DeliveredWasTaken, Overtaken
<1> QED BY <1>6, <1>7, <1>8 DEF DeliveryInv

LEMMA PostStep ==
  ASSUME DeliveryInv, NEW s \in Senders, Post(s) PROVE DeliveryInv'
<1>1. PICK mine \in Delivery : mine = sender[s].row
  BY SenderTyped DEF Post, DeliveryInv
<1>2. PICK accepted \in BOOLEAN, answered \in BOOLEAN :
        /\ taken' = (taken \/ accepted)
        /\ sender' = [sender EXCEPT ![s] =
                       [at |-> "settle", ok |-> accepted /\ answered,
                        row |-> [mine EXCEPT !.attempts = @ + 1]]]
  BY <1>1 DEF Post
<1>3. sender[s].at = "post" /\ UNCHANGED <<delivery, late>> /\ mine.attempts < MaxAttempts
  BY <1>1 DEF Post, DeliveryInv, Posting
<1>4. [mine EXCEPT !.attempts = @ + 1] \in Delivery
  BY <1>3, MaxAttemptsAssumption DEF Delivery
<1>5. UnderWay' = UnderWay
  BY <1>2, <1>3 DEF UnderWay, DeliveryInv, DeliveryTypeOK, Away
<1>6. (accepted /\ answered) \in BOOLEAN /\ taken' \in BOOLEAN /\ (taken => taken')
      /\ (accepted /\ answered => taken')
  BY <1>2 DEF DeliveryInv, DeliveryTypeOK
<1>7. PICK ok \in BOOLEAN : ok = (accepted /\ answered)
  BY <1>6
<1>8. sender' = [sender EXCEPT ![s] =
                  [at |-> "settle", ok |-> ok, row |-> [mine EXCEPT !.attempts = @ + 1]]]
  BY <1>2, <1>7
<1>9. delivery # {}
  BY <1>3 DEF DeliveryInv, DeliveryTypeOK, UnderWay, Away
<1>10. DeliveryTypeOK'
  BY <1>3, <1>4, <1>5, <1>6, <1>8, <1>9 DEF DeliveryInv, DeliveryTypeOK, Sender
<1>11. Posting'
  BY <1>6, <1>7, <1>8 DEF DeliveryInv, DeliveryTypeOK, Posting
<1>12. DeliveredWasTaken' /\ Overtaken'
  BY <1>3, <1>5, <1>6 DEF DeliveryInv, DeliveredWasTaken, Overtaken
<1> QED BY <1>10, <1>11, <1>12 DEF DeliveryInv

(* A request that ends leaves the others as they are.                      *)
LEMMA AwayStep ==
  ASSUME DeliveryTypeOK, NEW s \in Senders, sender' = [sender EXCEPT ![s] = Away]
  PROVE  /\ sender' \in [Senders -> Sender]
         /\ UnderWay' = UnderWay \ {s}
         /\ \A u \in Senders : sender'[u].at \in {"post", "settle"} => sender'[u] = sender[u]
BY DEF DeliveryTypeOK, Sender, UnderWay, Away

LEMMA SettleStep ==
  ASSUME DeliveryInv, NEW s \in Senders, Settle(s) PROVE DeliveryInv'
<1>1. PICK outcome : outcome = Outcome(s)
  OBVIOUS
<1>2. /\ sender[s].at = "settle" /\ sender[s].row \in Delivery /\ sender[s].ok \in BOOLEAN
      /\ delivery' = {[status |-> outcome, attempts |-> sender[s].row.attempts]}
      /\ sender' = [sender EXCEPT ![s] = Away]
      /\ late' = IF outcome = "delivered" THEN UnderWay \ {s} ELSE late \ {s}
      /\ taken' = taken
  BY <1>1, SenderTyped DEF Settle, DeliveryInv
<1>3. outcome \in DeliveryStatus /\ (outcome = "delivered" => taken)
  BY <1>1, <1>2 DEF Outcome, DeliveryStatus, DeliveryInv, Posting
<1>4. [status |-> outcome, attempts |-> sender[s].row.attempts] \in Delivery
  BY <1>2, <1>3 DEF Delivery
<1>5. /\ sender' \in [Senders -> Sender]
      /\ UnderWay' = UnderWay \ {s}
      /\ \A u \in Senders : sender'[u].at \in {"post", "settle"} => sender'[u] = sender[u]
  BY <1>2, AwayStep DEF DeliveryInv
<1>6. DeliveryTypeOK'
  BY <1>2, <1>4, <1>5 DEF DeliveryInv, DeliveryTypeOK
<1>7. Posting'
  BY <1>2, <1>5 DEF DeliveryInv, Posting
<1>8. DeliveredWasTaken' /\ Overtaken'
  BY <1>2, <1>3, <1>5 DEF DeliveredWasTaken, Overtaken
<1> QED BY <1>6, <1>7, <1>8 DEF DeliveryInv

LEMMA LoseSenderStep ==
  ASSUME DeliveryInv, NEW s \in Senders, LoseSender(s) PROVE DeliveryInv'
<1>1. /\ sender' = [sender EXCEPT ![s] = Away]
      /\ late' = late \ {s} /\ UNCHANGED <<delivery, taken>>
  BY DEF LoseSender
<1>2. /\ sender' \in [Senders -> Sender]
      /\ UnderWay' = UnderWay \ {s}
      /\ \A u \in Senders : sender'[u].at \in {"post", "settle"} => sender'[u] = sender[u]
  BY <1>1, AwayStep DEF DeliveryInv
<1>3. DeliveryTypeOK'
  BY <1>1, <1>2 DEF DeliveryInv, DeliveryTypeOK
<1>4. Posting' /\ DeliveredWasTaken' /\ Overtaken'
  BY <1>1, <1>2 DEF DeliveryInv, Posting, DeliveredWasTaken, Overtaken
<1> QED BY <1>3, <1>4 DEF DeliveryInv

LEMMA DeliveryStepInv == DeliveryInv /\ [DeliveryNext]_deliveryVars => DeliveryInv'
<1> SUFFICES ASSUME DeliveryInv, [DeliveryNext]_deliveryVars PROVE DeliveryInv'
  OBVIOUS
<1>1. CASE UNCHANGED deliveryVars
  BY <1>1 DEF deliveryVars, DeliveryInv, DeliveryTypeOK, Posting, DeliveredWasTaken, Overtaken,
              UnderWay
<1> QED BY <1>1, PublishStep, RetryStep, MarkStep, PostStep, SettleStep, LoseSenderStep
        DEF DeliveryNext

LEMMA DeliveryInvariance == DeliverySpec => []DeliveryInv
BY DeliveryInitInv, DeliveryStepInv, PTL DEF DeliverySpec

(* A delivery that says `delivered` was accepted by its target, and the    *)
(* attempts never exceed their maximum, for any number of requests.        *)
THEOREM DeliveryIsReal == DeliverySpec => [](DeliveryTypeOK /\ DeliveredWasTaken)
BY DeliveryInvariance, PTL DEF DeliveryInv

(* A delivered event is touched only by a request that was under way when  *)
(* it was delivered.                                                       *)
THEOREM DeliveryLasts == DeliverySpec => OnlyLateSendersUndeliver
<1> DEFINE Undone ==
      \A row \in delivery :
        row.status = "delivered" /\ delivery' # delivery =>
          \E s \in late : sender'[s] # sender[s]
<1>1. DeliveryInv /\ [DeliveryNext]_deliveryVars => [Undone]_deliveryVars
  <2> SUFFICES ASSUME DeliveryInv, DeliveryNext, NEW row \in delivery,
                      row.status = "delivered", delivery' # delivery
               PROVE  \E s \in late : sender'[s] # sender[s]
    BY DEF deliveryVars
  <2>1. PICK s \in Senders : MarkPending(s) \/ Settle(s)
    BY DEF DeliveryNext, PublishEvent, RetryDelivery, Post, LoseSender
  <2>2. s \in UnderWay
    BY <2>1 DEF MarkPending, Settle, UnderWay, Away
  <2>3. sender'[s] # sender[s]
    BY <2>1 DEF MarkPending, Settle, Away, DeliveryInv, DeliveryTypeOK
  <2> QED BY <2>2, <2>3 DEF DeliveryInv, Overtaken
<1> QED BY <1>1, DeliveryInvariance, PTL DEF DeliverySpec, OnlyLateSendersUndeliver
-----------------------------------------------------------------------------
(***************************************************************************)
(* Configuration and its history.                                          *)
(***************************************************************************)
(* The session that keeps the row is one that changes it, about to commit; *)
(* a row that was loaded is there to stay.                                 *)
Keeping ==
  /\ \A e \in Editors : edit[e].at = "commit" /\ Changes(e) <=> e \in keeps
  /\ \A e \in Editors : edit[e] # NoEdit /\ edit[e].loaded # {} => config # {}

ConfigInv == ConfigTypeOK /\ Keeping /\ ValueInForceIsRecorded /\ KeeperHasItsNumber

LEMMA EditTyped ==
  ASSUME ConfigTypeOK, NEW e \in Editors
  PROVE  /\ edit[e].at \in {"idle", "flush", "commit"}
         /\ edit[e].at = "idle" <=> edit[e] = NoEdit
         /\ edit[e].at # "idle" => edit[e].wants \in Config /\ edit[e].loaded \in ConfigRows
         /\ edit[e].at = "commit" => edit[e].version \in 1 .. MaxVersions
BY DEF ConfigTypeOK, Edit, NoEdit

(* A session that stops changes neither the row nor the others.            *)
LEMMA StopStep ==
  ASSUME ConfigInv, NEW e \in Editors, StopsEditing(e), Releases(e), UNCHANGED <<config, versions>>
  PROVE  ConfigInv'
<1>1. edit' = [edit EXCEPT ![e] = NoEdit] /\ keeps' = keeps \ {e} /\ NoEdit.at = "idle"
  BY DEF StopsEditing, Releases, NoEdit
<1>2. ConfigTypeOK'
  BY <1>1 DEF ConfigInv, ConfigTypeOK, Edit
<1>3. \A f \in Editors : f # e => edit'[f] = edit[f]
  BY <1>1 DEF ConfigInv, ConfigTypeOK
<1>4. edit'[e] = NoEdit
  BY <1>1 DEF ConfigInv, ConfigTypeOK
<1>5. Keeping'
  BY <1>1, <1>3, <1>4 DEF ConfigInv, Keeping, Changes
<1>6. KeeperHasItsNumber'
  <2>1. \A f \in keeps' : f \in keeps /\ f \in Editors /\ f # e
    BY <1>1 DEF ConfigInv, ConfigTypeOK
  <2> QED BY <1>3, <2>1 DEF ConfigInv, KeeperHasItsNumber
<1> QED BY <1>2, <1>5, <1>6 DEF ConfigInv, ValueInForceIsRecorded, LastSet

LEMMA ReadStep ==
  ASSUME ConfigInv, NEW e \in Editors, NEW wants \in Config, edit[e] = NoEdit,
         edit' = [edit EXCEPT ![e] = [at |-> "flush", wants |-> wants, loaded |-> config]],
         UNCHANGED <<config, versions, keeps>>
  PROVE  ConfigInv'
<1>1. ConfigTypeOK'
  BY DEF ConfigInv, ConfigTypeOK, Edit
<1>2. e \notin keeps
  BY DEF ConfigInv, Keeping, NoEdit
<1>3. \A f \in Editors : f # e => edit'[f] = edit[f]
  BY DEF ConfigInv, ConfigTypeOK
<1>4. edit'[e] = [at |-> "flush", wants |-> wants, loaded |-> config]
  BY DEF ConfigInv, ConfigTypeOK
<1>5. Keeping'
  BY <1>2, <1>3, <1>4 DEF ConfigInv, Keeping, Changes
<1>6. KeeperHasItsNumber'
  <2>1. \A f \in keeps' : f \in keeps /\ f \in Editors /\ f # e
    BY <1>2 DEF ConfigInv, ConfigTypeOK
  <2> QED BY <1>3, <2>1 DEF ConfigInv, KeeperHasItsNumber
<1> QED BY <1>1, <1>5, <1>6 DEF ConfigInv, ValueInForceIsRecorded, LastSet

LEMMA NumberStep ==
  ASSUME ConfigInv, NEW e \in Editors, NextConfigVersion(e) PROVE ConfigInv'
<1>1. PICK wants \in Config, loaded \in ConfigRows :
        wants = edit[e].wants /\ loaded = edit[e].loaded
  BY EditTyped DEF NextConfigVersion, ConfigInv
<1>2. /\ edit[e].at = "flush"
      /\ edit' = [edit EXCEPT ![e] = [at |-> "commit", wants |-> wants, loaded |-> loaded,
                                      version |-> Len(versions) + 1]]
      /\ keeps' = IF Changes(e) THEN {e} ELSE keeps
      /\ Changes(e) => keeps = {}
      /\ UNCHANGED <<config, versions>>
      /\ Len(versions) \in Nat /\ Len(versions) < MaxVersions
  BY <1>1 DEF NextConfigVersion, ConfigInv, ConfigTypeOK
<1>3. ConfigTypeOK'
  <2>1. Len(versions) + 1 \in 1 .. MaxVersions
    BY <1>2, BoundAssumption
  <2> QED BY <1>2, <2>1 DEF ConfigInv, ConfigTypeOK, Edit
<1>4. \A f \in Editors : f # e => edit'[f] = edit[f]
  BY <1>2 DEF ConfigInv, ConfigTypeOK
<1>5. edit'[e] = [at |-> "commit", wants |-> wants, loaded |-> loaded,
                  version |-> Len(versions) + 1]
  BY <1>2 DEF ConfigInv, ConfigTypeOK
<1>6. e \notin keeps /\ (loaded # {} => config # {})
  BY <1>1, <1>2 DEF ConfigInv, Keeping, NoEdit
<1>7. Changes(e)' <=> Changes(e)
  BY <1>1, <1>5 DEF Changes
<1>8. Keeping'
  <2>1. \A f \in Editors : f # e => (f \in keeps' <=> f \in keeps)
    BY <1>2
  <2>2. e \in keeps' <=> Changes(e)'
    BY <1>2, <1>6, <1>7
  <2> QED BY <1>2, <1>4, <1>5, <1>6, <2>1, <2>2 DEF ConfigInv, Keeping, Changes
<1>9. KeeperHasItsNumber'
  <2> SUFFICES ASSUME NEW f \in keeps', NEW n \in edit'[f].version .. Len(versions)
               PROVE  ~ versions[n].kept
    BY <1>2 DEF KeeperHasItsNumber
  <2>1. CASE f = e
    BY <1>2, <1>5, <2>1
  <2>2. CASE f # e
    <3>1. f \in keeps /\ f \in Editors
      BY <1>2, <2>2 DEF ConfigInv, ConfigTypeOK
    <3> QED BY <1>4, <2>2, <3>1 DEF ConfigInv, KeeperHasItsNumber
  <2> QED BY <2>1, <2>2
<1> QED BY <1>2, <1>3, <1>8, <1>9 DEF ConfigInv, ValueInForceIsRecorded, LastSet

(* What a commit leaves in the row: the value it sets, or the one that was *)
(* there.                                                                  *)
LEMMA EditedRow ==
  ASSUME ConfigInv, NEW e \in Editors, edit[e].at = "commit"
  PROVE  /\ Edited(e) \in ConfigRows /\ Edited(e) # {}
         /\ \A row \in Edited(e) :
              IF SetsValue(e) THEN row.value = edit[e].wants.value
              ELSE \E old \in config : row.value = old.value
<1>1. PICK wants \in Config, loaded \in ConfigRows :
        wants = edit[e].wants /\ loaded = edit[e].loaded
  BY EditTyped DEF ConfigInv
<1>2. CASE loaded = {}
  BY <1>1, <1>2 DEF Edited, SetsValue, ConfigRows
<1>3. ASSUME NEW mine \in Config, loaded = {mine}
      PROVE  /\ Edited(e) \in ConfigRows /\ Edited(e) # {}
             /\ \A row \in Edited(e) :
                  IF SetsValue(e) THEN row.value = wants.value
                  ELSE \E old \in config : row.value = old.value
  <2>1. config # {}
    BY <1>1, <1>3, EditTyped DEF ConfigInv, Keeping, NoEdit
  <2>2. PICK row \in Config : config = {row}
    BY <2>1 DEF ConfigInv, ConfigTypeOK, ConfigRows
  <2> DEFINE value == Written(row.value, mine.value, wants.value)
             secret == Written(row.secret, mine.secret, wants.secret)
             by == Written(row.by, mine.by, wants.by)
  <2>3. Edited(e) = {[value |-> value, secret |-> secret, by |-> by]}
    BY <1>1, <1>3, <2>2 DEF Edited
  <2>4. value \in Values /\ secret \in BOOLEAN /\ by \in Authors
    BY DEF Written, Config
  <2>5. value = IF mine.value # wants.value THEN wants.value ELSE row.value
    BY DEF Written
  <2>6. SetsValue(e) <=> mine.value # wants.value
    BY <1>1, <1>3 DEF SetsValue
  <2> HIDE DEF value, secret, by
  <2>7. [value |-> value, secret |-> secret, by |-> by] \in Config
    BY <2>4 DEF Config
  <2> QED BY <2>2, <2>3, <2>5, <2>6, <2>7 DEF ConfigRows
<1> QED BY <1>1, <1>2, <1>3 DEF ConfigRows

LEMMA CommitStep ==
  ASSUME ConfigInv, NEW e \in Editors, CommitConfiguration(e) PROVE ConfigInv'
<1>1. PICK wants \in Config, sets \in BOOLEAN, changes \in BOOLEAN, size \in Nat :
        wants = edit[e].wants /\ sets = SetsValue(e) /\ changes = Changes(e) /\ size = Len(versions)
  <2>1. edit[e].wants \in Config /\ Len(versions) \in Nat
    BY EditTyped DEF CommitConfiguration, ConfigInv, ConfigTypeOK
  <2>2. SetsValue(e) \in BOOLEAN /\ Changes(e) \in BOOLEAN
    BY DEF SetsValue, Changes
  <2> QED BY <2>1, <2>2
<1>2. PICK entry \in ConfigVersion :
        entry = [value |-> wants.value, by |-> wants.by, set |-> sets, kept |-> changes]
  BY DEF ConfigVersion, Config
<1>3. /\ edit[e].at = "commit" /\ edit[e].version = size + 1
      /\ versions' = Append(versions, entry)
      /\ config' = Edited(e)
      /\ edit' = [edit EXCEPT ![e] = NoEdit] /\ keeps' = keeps \ {e}
  BY <1>1, <1>2 DEF CommitConfiguration, StopsEditing, Releases
<1>4. /\ versions' \in Seq(ConfigVersion) /\ Len(versions') = size + 1
      /\ versions'[size + 1] = entry
      /\ \A n \in 1 .. size : versions'[n] = versions[n]
      /\ versions \in Seq(ConfigVersion)
  BY <1>1, <1>3 DEF ConfigInv, ConfigTypeOK
<1>5. /\ config' \in ConfigRows /\ config' # {}
      /\ \A row \in config' : IF sets THEN row.value = wants.value
                              ELSE \E old \in config : row.value = old.value
  BY <1>1, <1>3, EditedRow
<1>6. ConfigTypeOK'
  <2>1. size + 1 <= MaxVersions
    BY <1>3, EditTyped, BoundAssumption DEF ConfigInv
  <2>2. versions' # <<>>
    BY <1>4
  <2>3. edit' \in [Editors -> Edit] /\ keeps' \in {{}} \cup {{f} : f \in Editors}
    BY <1>3 DEF ConfigInv, ConfigTypeOK, Edit
  <2> QED BY <1>4, <1>5, <2>1, <2>2, <2>3 DEF ConfigTypeOK
<1>7. \A f \in Editors : f # e => edit'[f] = edit[f]
  BY <1>3 DEF ConfigInv, ConfigTypeOK
<1>8. edit'[e] = NoEdit /\ NoEdit.at = "idle"
  BY <1>3 DEF ConfigInv, ConfigTypeOK, NoEdit
<1>9. Keeping'
  BY <1>3, <1>5, <1>7, <1>8 DEF ConfigInv, Keeping, Changes
<1>10. ValueInForceIsRecorded'
  <2> SUFFICES ASSUME NEW row \in config'
               PROVE  \E n \in 1 .. size + 1 :
                        /\ versions'[n].set
                        /\ \A later \in n + 1 .. size + 1 : ~ versions'[later].set
                        /\ row.value = versions'[n].value
    BY <1>4 DEF ValueInForceIsRecorded, LastSet
  <2>1. CASE sets
    BY <1>2, <1>4, <1>5, <2>1
  <2>2. CASE ~ sets
    <3>1. PICK old \in config : row.value = old.value
      BY <1>5, <2>2
    <3>2. PICK n \in 1 .. size :
            /\ versions[n].set /\ old.value = versions[n].value
            /\ \A later \in n + 1 .. size : ~ versions[later].set
      BY <1>1, <1>4, <3>1 DEF ConfigInv, ValueInForceIsRecorded, LastSet
    <3>3. \A later \in n + 1 .. size + 1 : ~ versions'[later].set
      BY <1>2, <1>4, <2>2, <3>2
    <3> QED BY <1>4, <3>1, <3>2, <3>3
  <2> QED BY <2>1, <2>2
<1>11. KeeperHasItsNumber'
  <2> SUFFICES ASSUME NEW f \in keeps', NEW n \in edit'[f].version .. size + 1
               PROVE  ~ versions'[n].kept
    BY <1>4 DEF KeeperHasItsNumber
  <2>1. f \in keeps /\ f # e /\ f \in Editors /\ e \notin keeps
    BY <1>3 DEF ConfigInv, ConfigTypeOK
  <2>2. edit[f].at = "commit" /\ edit[f].version \in 1 .. MaxVersions /\ edit'[f] = edit[f]
    BY <1>7, <2>1, EditTyped DEF ConfigInv, Keeping
  <2>3. ~ changes
    BY <1>1, <1>3, <2>1 DEF ConfigInv, Keeping
  <2>4. CASE n = size + 1
    BY <1>2, <1>4, <2>3, <2>4
  <2>5. CASE n # size + 1
    <3>1. n \in edit[f].version .. size /\ n \in 1 .. size
      BY <2>2, <2>5, BoundAssumption
    <3> QED BY <1>1, <1>4, <2>1, <3>1 DEF ConfigInv, KeeperHasItsNumber
  <2> QED BY <2>4, <2>5
<1> QED BY <1>6, <1>9, <1>10, <1>11 DEF ConfigInv

LEMMA ConfigStepInv == ConfigInv /\ [ConfigNext]_configVars => ConfigInv'
<1> SUFFICES ASSUME ConfigInv, [ConfigNext]_configVars PROVE ConfigInv'
  OBVIOUS
<1>1. ASSUME NEW e \in Editors, SetConfiguration(e) PROVE ConfigInv'
  BY <1>1, ReadStep DEF SetConfiguration
<1>2. ASSUME NEW e \in Editors, RollbackConfiguration(e) PROVE ConfigInv'
  <2>1. PICK v \in DOMAIN versions, row \in config, by \in Authors :
          edit' = [edit EXCEPT ![e] = [at |-> "flush", loaded |-> config,
                                       wants |-> [value |-> versions[v].value,
                                                  secret |-> row.secret, by |-> by]]]
    BY <1>2 DEF RollbackConfiguration
  <2>2. versions[v] \in ConfigVersion /\ row \in Config
    BY DEF ConfigInv, ConfigTypeOK, ConfigRows
  <2>3. [value |-> versions[v].value, secret |-> row.secret, by |-> by] \in Config
    BY <2>2 DEF ConfigVersion, Config
  <2> QED BY <1>2, <2>1, <2>3, ReadStep DEF RollbackConfiguration
<1>3. ASSUME NEW e \in Editors, NextConfigVersion(e) \/ CommitConfiguration(e) PROVE ConfigInv'
  BY <1>3, NumberStep, CommitStep
<1>4. ASSUME NEW e \in Editors, RefusedRow(e) PROVE ConfigInv'
  <2>1. keeps' = keeps \ {e}
    BY <1>4 DEF RefusedRow, ConfigInv, Keeping
  <2> QED BY <1>4, <2>1, StopStep DEF RefusedRow, Releases
<1>5. ASSUME NEW e \in Editors, RefusedVersion(e) \/ AbandonEdit(e) PROVE ConfigInv'
  BY <1>5, StopStep DEF RefusedVersion, AbandonEdit
<1>6. CASE UNCHANGED configVars
  BY <1>6 DEF configVars, ConfigInv, ConfigTypeOK, Keeping, Changes, ValueInForceIsRecorded,
              LastSet, KeeperHasItsNumber
<1> QED BY <1>1, <1>2, <1>3, <1>4, <1>5, <1>6 DEF ConfigNext

LEMMA ConfigInvariance == ConfigSpec => [](ConfigTypeOK /\ ConfigInv)
<1>1. ConfigInit => ConfigInv
  <2> SUFFICES ASSUME ConfigInit PROVE ConfigInv
    OBVIOUS
  <2>1. ConfigTypeOK
    BY BoundAssumption DEF ConfigInit, ConfigTypeOK, ConfigRows, Edit
  <2> QED BY <2>1 DEF ConfigInit, ConfigInv, Keeping, NoEdit, ValueInForceIsRecorded,
                      KeeperHasItsNumber
<1> QED BY <1>1, ConfigStepInv, PTL DEF ConfigSpec, ConfigInv

(* The value in force is that of the newest version whose edit set it, for *)
(* any number of sessions, values and versions.                            *)
THEOREM HistoryExplainsTheValue == ConfigSpec => [](ConfigTypeOK /\ ValueInForceIsRecorded)
BY ConfigInvariance, PTL DEF ConfigInv

(* An edit that keeps the row is refused its number only by edits that     *)
(* changed nothing: for any number of sessions, values and versions.       *)
THEOREM KeepersAreNumbered == ConfigSpec => []KeeperHasItsNumber
BY ConfigInvariance, PTL DEF ConfigInv
-----------------------------------------------------------------------------
(***************************************************************************)
(* The registries and the bootstrap.                                       *)
(***************************************************************************)
(* What was read as written is written, and so is what a host has done; a  *)
(* host that is up has done all of it and writes nothing, and one that is  *)
(* starting writes a key that nothing left to do comes before.             *)
Whole ==
  /\ \A a \in Hosts \cup Registrars :
       upsert[a] # Free /\ upsert[a].loaded # "nobody" => catalog[upsert[a].key] # "nobody"
  /\ \A h \in Hosts : \A k \in host[h].done : catalog[k] # "nobody"
  /\ \A h \in Hosts : host[h].up => host[h].done = Payload
  /\ \A h \in Hosts : upsert[h] # Free =>
       /\ ~ host[h].up
       /\ Strict => Valid
       /\ upsert[h].key \in NextKeys(host[h].done)

CatalogInv == CatalogTypeOK /\ Whole /\ BootstrapNeverDangles

LEMMA UpsertTyped ==
  ASSUME CatalogTypeOK, NEW a \in Hosts \cup Registrars
  PROVE  /\ upsert[a].at \in {"free", "write"}
         /\ upsert[a].at = "free" <=> upsert[a] = Free
         /\ upsert[a].at = "write" => upsert[a].key \in Keys /\ upsert[a].loaded \in Writers
BY DEF CatalogTypeOK, Upsert, Free

(* Writing a key leaves every row that is there, and adds its own.         *)
LEMMA WritesAdd ==
  ASSUME CatalogInv, NEW a \in Hosts \cup Registrars, upsert[a].at = "write",
         NEW writer \in {"bootstrap", "operator"}, Writes(a, writer)
  PROVE  /\ catalog' \in [Keys -> Writers]
         /\ \A k \in Keys : catalog[k] # "nobody" => catalog'[k] # "nobody"
         /\ catalog'[upsert[a].key] # "nobody"
         /\ \A k \in Keys : catalog'[k] # catalog[k] => k = upsert[a].key /\ catalog'[k] = writer
<1>1. PICK key \in Keys, loaded \in Writers : key = upsert[a].key /\ loaded = upsert[a].loaded
  BY UpsertTyped DEF CatalogInv
<1>2. loaded # "nobody" => catalog[key] # "nobody"
  BY <1>1, UpsertTyped DEF CatalogInv, Whole, Free
<1>3. PICK new \in Writers :
        new = IF loaded = "nobody" THEN writer ELSE Written(catalog[key], loaded, writer)
  BY <1>1 DEF CatalogInv, CatalogTypeOK, Written, Writers
<1>4. catalog' = [catalog EXCEPT ![key] = new]
  BY <1>1, <1>3 DEF Writes, CatalogInv, CatalogTypeOK
<1>5. new # "nobody" /\ (new # catalog[key] => new = writer)
  BY <1>2, <1>3 DEF Written
<1> QED BY <1>1, <1>4, <1>5 DEF CatalogInv, CatalogTypeOK

(* The rows only grow; who they are of may change for one that is          *)
(* registered and no dependency that dangles.                              *)
LEMMA StaysWhole ==
  ASSUME CatalogInv,
         catalog' \in [Keys -> Writers],
         \A k \in Keys : catalog[k] # "nobody" => catalog'[k] # "nobody",
         Strict => \A s, t \in Systems :
           catalog'[<<s, t>>] = "bootstrap" /\ catalog[<<s, t>>] # "bootstrap" =>
             catalog[s] # "nobody" /\ catalog[t] # "nobody"
  PROVE  BootstrapNeverDangles'
BY DEF CatalogInv, BootstrapNeverDangles, Keys

(* A dependency is the last thing that a host writes of its payload.       *)
LEMMA DependenciesComeLast ==
  ASSUME CatalogInv, NEW h \in Hosts, upsert[h] # Free, Strict,
         NEW s \in Systems, NEW t \in Systems, upsert[h].key = <<s, t>>
  PROVE  catalog[s] # "nobody" /\ catalog[t] # "nobody"
<1>1. Valid /\ <<s, t>> \in NextKeys(host[h].done)
  BY DEF CatalogInv, Whole
<1>2. {s, t} \subseteq Payload /\ <<s, t>> \in Payload
  BY <1>1 DEF Valid, NextKeys
<1>3. Rank(<<s, t>>) = 3
  <2>1. <<s, t>> \notin Organizations \cup Systems
    BY CatalogAssumption
  <2> QED BY <2>1 DEF Rank
<1>4. Rank(s) \in 1 .. 2 /\ Rank(t) \in 1 .. 2
  BY DEF Rank
<1>5. \A j \in Payload \ host[h].done : 3 <= Rank(j)
  BY <1>1, <1>3 DEF NextKeys
<1>6. s \in host[h].done
  BY <1>2, <1>4, <1>5
<1>7. t \in host[h].done
  BY <1>2, <1>4, <1>5
<1> QED BY <1>6, <1>7 DEF CatalogInv, Whole

LEMMA RegisterStep ==
  ASSUME CatalogInv, NEW r \in Registrars, RegisterWrites(r) PROVE CatalogInv'
<1>1. r \notin Hosts /\ upsert[r].at = "write" /\ UNCHANGED <<host, crashes>>
  BY CatalogAssumption DEF RegisterWrites
<1>2. /\ catalog' \in [Keys -> Writers]
      /\ \A k \in Keys : catalog[k] # "nobody" => catalog'[k] # "nobody"
      /\ \A k \in Keys : catalog'[k] = "bootstrap" => catalog[k] = "bootstrap"
  <2>1. CASE Accepted(r)
    BY <1>1, <2>1, WritesAdd DEF RegisterWrites
  <2>2. CASE ~ Accepted(r)
    BY <2>2 DEF RegisterWrites, CatalogInv, CatalogTypeOK
  <2> QED BY <2>1, <2>2
<1>3. upsert' = [upsert EXCEPT ![r] = Free]
  BY DEF RegisterWrites, Ends
<1>4. \A a \in Hosts \cup Registrars : upsert'[a] # Free =>
        upsert'[a] = upsert[a] /\ upsert[a].key \in Keys
  BY <1>3, UpsertTyped DEF CatalogInv, CatalogTypeOK
<1>5. CatalogTypeOK'
  BY <1>1, <1>2, <1>3, <1>4 DEF CatalogInv, CatalogTypeOK, Upsert
<1>6. Whole'
  <2>1. \A h \in Hosts : host[h].done \subseteq Keys
    BY CatalogAssumption DEF CatalogInv, CatalogTypeOK
  <2> QED BY <1>1, <1>2, <1>4, <2>1 DEF CatalogInv, Whole, Valid, NextKeys
<1>7. BootstrapNeverDangles'
  BY <1>2, StaysWhole DEF Keys
<1> QED BY <1>5, <1>6, <1>7 DEF CatalogInv

LEMMA ReadsStep ==
  ASSUME CatalogInv, NEW a \in Hosts \cup Registrars, NEW key \in Keys, Reads(a, key),
         UNCHANGED <<catalog, host, crashes>>,
         a \in Hosts => ~ host[a].up /\ (Strict => Valid) /\ key \in NextKeys(host[a].done)
  PROVE  CatalogInv'
<1>1. PICK loaded \in Writers : loaded = catalog[key]
  BY DEF CatalogInv, CatalogTypeOK
<1>2. upsert' = [upsert EXCEPT ![a] = [at |-> "write", key |-> key, loaded |-> loaded]]
  BY <1>1 DEF Reads
<1>3. /\ \A b \in Hosts \cup Registrars : b # a => upsert'[b] = upsert[b]
      /\ upsert'[a] = [at |-> "write", key |-> key, loaded |-> loaded]
  BY <1>2 DEF CatalogInv, CatalogTypeOK
<1>4. CatalogTypeOK'
  <2>1. [at |-> "write", key |-> key, loaded |-> loaded] \in Upsert
    BY DEF Upsert
  <2> QED BY <1>2, <1>3, <2>1 DEF CatalogInv, CatalogTypeOK, NextKeys
<1>5. Whole'
  BY <1>1, <1>3 DEF CatalogInv, Whole, Valid, NextKeys
<1> QED BY <1>4, <1>5 DEF CatalogInv, BootstrapNeverDangles

LEMMA BootStepWhole ==
  ASSUME CatalogInv, NEW h \in Hosts, BootWrites(h), Accepted(h) PROVE CatalogInv'
<1>1. PICK key \in Keys : key = upsert[h].key
  BY UpsertTyped DEF CatalogInv, BootWrites
<1>2. /\ upsert[h].at = "write" /\ upsert[h] # Free /\ Writes(h, "bootstrap")
      /\ host' = [host EXCEPT ![h].done = @ \cup {key}]
      /\ upsert' = [upsert EXCEPT ![h] = Free] /\ UNCHANGED crashes
  BY <1>1 DEF BootWrites, Ends, Free
<1>3. /\ catalog' \in [Keys -> Writers]
      /\ \A k \in Keys : catalog[k] # "nobody" => catalog'[k] # "nobody"
      /\ catalog'[key] # "nobody"
      /\ \A k \in Keys : catalog'[k] # catalog[k] => k = key
  BY <1>1, <1>2, WritesAdd
<1>4. \A a \in Hosts \cup Registrars :
        upsert'[a] # Free => upsert'[a] = upsert[a] /\ a # h /\ upsert[a].key \in Keys
  BY <1>2, UpsertTyped DEF CatalogInv, CatalogTypeOK
<1>5. /\ \A g \in Hosts : g # h => host'[g] = host[g]
      /\ host'[h].up = host[h].up /\ host'[h].done = host[h].done \cup {key}
      /\ ~ host[h].up /\ key \in Payload
      /\ host' \in [Hosts -> [up : BOOLEAN, done : SUBSET Payload]]
  BY <1>1, <1>2 DEF CatalogInv, CatalogTypeOK, Whole
<1>6. CatalogTypeOK'
  <2>1. upsert' \in [Hosts \cup Registrars -> Upsert]
    BY <1>2 DEF CatalogInv, CatalogTypeOK, Upsert
  <2>2. \A g \in Hosts : upsert'[g] # Free => upsert'[g].key \in Payload \ host'[g].done
    BY <1>4, <1>5 DEF CatalogInv, CatalogTypeOK
  <2> QED BY <1>2, <1>3, <1>5, <2>1, <2>2 DEF CatalogInv, CatalogTypeOK
<1>7. Whole'
  <2>1. \A g \in Hosts : host[g].done \subseteq Keys
    BY CatalogAssumption DEF CatalogInv, CatalogTypeOK
  <2>2. \A g \in Hosts : \A k \in host'[g].done : catalog'[k] # "nobody"
    BY <1>3, <1>5, <2>1 DEF CatalogInv, Whole
  <2>3. \A g \in Hosts : upsert'[g] # Free => g # h /\ upsert'[g] = upsert[g] /\ host'[g] = host[g]
    BY <1>4, <1>5
  <2> QED BY <1>3, <1>4, <1>5, <2>2, <2>3 DEF CatalogInv, Whole, Valid, NextKeys
<1>8. BootstrapNeverDangles'
  BY <1>1, <1>2, <1>3, DependenciesComeLast, StaysWhole DEF Keys
<1> QED BY <1>6, <1>7, <1>8 DEF CatalogInv

(* A start that fails, and a crash.                                        *)
LEMMA DownStep ==
  ASSUME CatalogInv, NEW h \in Hosts, host' = [host EXCEPT ![h] = Down], Ends(h),
         UNCHANGED catalog, crashes' \in 0 .. MaxCrashes
  PROVE  CatalogInv'
<1>1. upsert' = [upsert EXCEPT ![h] = Free]
  BY DEF Ends
<1>2. \A a \in Hosts \cup Registrars : upsert'[a] # Free => upsert'[a] = upsert[a] /\ a # h
  BY <1>1 DEF CatalogInv, CatalogTypeOK
<1>3. host'[h] = Down /\ \A g \in Hosts : g # h => host'[g] = host[g]
  BY DEF CatalogInv, CatalogTypeOK
<1>4. CatalogTypeOK'
  <2>1. Down \in [up : BOOLEAN, done : SUBSET Payload]
    BY DEF Down
  <2> QED BY <1>1, <1>2, <1>3, <2>1 DEF CatalogInv, CatalogTypeOK, Upsert
<1>5. Whole'
  BY <1>2, <1>3 DEF CatalogInv, Whole, Valid, NextKeys, Down
<1> QED BY <1>4, <1>5 DEF CatalogInv, BootstrapNeverDangles

LEMMA CatalogStepInv == CatalogInv /\ [CatalogNext]_catalogVars => CatalogInv'
<1> SUFFICES ASSUME CatalogInv, [CatalogNext]_catalogVars PROVE CatalogInv'
  OBVIOUS
<1>1. ASSUME NEW h \in Hosts, BootReads(h) PROVE CatalogInv'
  <2>1. PICK k \in NextKeys(host[h].done) : Reads(h, k)
    BY <1>1 DEF BootReads
  <2>2. k \in Keys
    BY CatalogAssumption DEF NextKeys
  <2> QED BY <1>1, <2>1, <2>2, ReadsStep DEF BootReads
<1>2. ASSUME NEW h \in Hosts, BootWrites(h) PROVE CatalogInv'
  <2>1. CASE Accepted(h)
    BY <1>2, <2>1, BootStepWhole
  <2>2. CASE ~ Accepted(h)
    BY <1>2, <2>2, DownStep DEF BootWrites, CatalogInv, CatalogTypeOK
  <2> QED BY <2>1, <2>2
<1>3. ASSUME NEW h \in Hosts, BootEnds(h) PROVE CatalogInv'
  <2>1. /\ host' \in [Hosts -> [up : BOOLEAN, done : SUBSET Payload]]
        /\ \A g \in Hosts : host'[g].done = host[g].done /\ (g # h => host'[g] = host[g])
        /\ upsert[h] = Free /\ host[h].done = Payload /\ UNCHANGED <<catalog, upsert, crashes>>
    BY <1>3 DEF BootEnds, CatalogInv, CatalogTypeOK
  <2>2. CatalogTypeOK'
    BY <2>1 DEF CatalogInv, CatalogTypeOK
  <2>3. Whole'
    BY <2>1 DEF CatalogInv, Whole, Valid, NextKeys
  <2> QED BY <2>1, <2>2, <2>3 DEF CatalogInv, BootstrapNeverDangles
<1>4. ASSUME NEW h \in Hosts, Crash(h) PROVE CatalogInv'
  <2>1. crashes' \in 0 .. MaxCrashes
    BY <1>4, CatalogAssumption DEF Crash, CatalogInv, CatalogTypeOK
  <2> QED BY <1>4, <2>1, DownStep DEF Crash
<1>5. ASSUME NEW r \in Registrars, RegisterWrites(r) PROVE CatalogInv'
  BY <1>5, RegisterStep
<1>6. ASSUME NEW r \in Registrars, NEW k \in Keys, Register(r, k) PROVE CatalogInv'
  <2>1. r \notin Hosts
    BY CatalogAssumption
  <2> QED BY <1>6, <2>1, ReadsStep DEF Register
<1>7. CASE UNCHANGED catalogVars
  BY <1>7 DEF catalogVars, CatalogInv, CatalogTypeOK, Whole, Valid, NextKeys,
              BootstrapNeverDangles
<1> QED BY <1>1, <1>2, <1>3, <1>4, <1>5, <1>6, <1>7 DEF CatalogNext, BootStep

(* A process that is up has its whole payload registered, and under strict *)
(* validation no dependency that the bootstrap wrote last dangles: for any *)
(* number of hosts, operators and crashes.                                 *)
THEOREM BootLeavesWholeAlways == CatalogSpec => [](CatalogTypeOK /\ BootLeavesWhole)
<1>1. CatalogInit => CatalogInv
  <2> SUFFICES ASSUME CatalogInit PROVE CatalogInv
    OBVIOUS
  <2>1. CatalogTypeOK
    BY CatalogAssumption DEF CatalogInit, CatalogTypeOK, Upsert, Writers, Down
  <2>2. BootstrapNeverDangles
    BY DEF CatalogInit, BootstrapNeverDangles, Keys
  <2> QED BY <2>1, <2>2 DEF CatalogInit, CatalogInv, Whole, Down
<1>2. CatalogInv => BootLeavesWhole
  BY DEF CatalogInv, Whole, BootLeavesWhole, UpHasPayload
<1> QED BY <1>1, <1>2, CatalogStepInv, PTL DEF CatalogSpec, CatalogInv
-----------------------------------------------------------------------------
(***************************************************************************)
(* Jobs, outputs and commands.                                             *)
(***************************************************************************)
(* A request that is not tardy has read the record as it is, and wants of  *)
(* a final state what is there; jobs and outputs have no result.           *)
ReadLast ==
  \A r \in Requests :
    request[r] # NoRequest /\ r \notin tardy[request[r].kind] =>
      /\ request[r].loaded = record[request[r].kind]
      /\ MayChange(request[r].kind, request[r].loaded, request[r].wants)

WithoutResult == \A k \in {"job", "output"} : record[k].result = "empty"

RecordsInv == RecordsTypeOK /\ ReadLast /\ WithoutResult

LEMMA WantedTyped ==
  /\ \A k \in RecordKinds : \A w \in Wanted(k) : w \in Record
  /\ \A k \in {"job", "output"} : \A w \in Wanted(k) : w.result = "empty"
BY DEF RecordKinds, Wanted, Record, JobStates, ReportStates, Completions

LEMMA RequestTyped ==
  ASSUME RecordsTypeOK, NEW r \in Requests, request[r] # NoRequest
  PROVE  /\ request[r].at = "write" /\ request[r].kind \in RecordKinds
         /\ request[r].loaded \in Record /\ request[r].wants \in Wanted(request[r].kind)
<1>1. PICK k \in RecordKinds : request[r] \in InHand(k)
  BY DEF RecordsTypeOK
<1> QED BY <1>1 DEF InHand

LEMMA ReadRecordStep ==
  ASSUME RecordsInv, NEW r \in Requests, NEW k \in RecordKinds, ReadRecord(r, k)
  PROVE  RecordsInv'
<1>1. PICK wants \in Wanted(k), loaded \in Record :
        /\ loaded = record[k] /\ MayChange(k, loaded, wants)
        /\ request' = [request EXCEPT ![r] = [at |-> "write", kind |-> k,
                                              loaded |-> loaded, wants |-> wants]]
  BY DEF ReadRecord, RecordsInv, RecordsTypeOK
<1>2. /\ request[r] = NoRequest /\ UNCHANGED <<record, tardy>>
      /\ request'[r] = [at |-> "write", kind |-> k, loaded |-> loaded, wants |-> wants]
      /\ \A q \in Requests : q # r => request'[q] = request[q]
  BY <1>1 DEF ReadRecord, RecordsInv, RecordsTypeOK
<1>3. RecordsTypeOK'
  <2>1. [at |-> "write", kind |-> k, loaded |-> loaded, wants |-> wants] \in InHand(k)
    BY DEF InHand
  <2>2. request' \in [Requests -> {NoRequest} \cup UNION {InHand(j) : j \in RecordKinds}]
    BY <1>1, <2>1 DEF RecordsInv, RecordsTypeOK
  <2>3. \A j \in RecordKinds : tardy'[j] \subseteq Of(j)'
    BY <1>2 DEF RecordsInv, RecordsTypeOK, Of
  <2> QED BY <1>2, <2>2, <2>3 DEF RecordsInv, RecordsTypeOK
<1>4. ReadLast'
  BY <1>1, <1>2 DEF RecordsInv, ReadLast, MayChange
<1> QED BY <1>2, <1>3, <1>4 DEF RecordsInv, WithoutResult

LEMMA WriteRecordStep ==
  ASSUME RecordsInv, NEW r \in Requests, WriteRecord(r) PROVE RecordsInv'
<1>1. request[r] # NoRequest
  BY DEF WriteRecord, NoRequest
<1>2. PICK k \in RecordKinds : \E l \in Record, w \in Wanted(k) :
        k = request[r].kind /\ l = request[r].loaded /\ w = request[r].wants
  BY <1>1, RequestTyped DEF RecordsInv
<1>3. PICK loaded \in Record, wants \in Wanted(k) :
        k = request[r].kind /\ loaded = request[r].loaded /\ wants = request[r].wants
  BY <1>2
<1>4. PICK new \in Record : new = Rewritten(record[k], loaded, wants)
  <2>1. wants \in Record /\ record[k] \in Record
    BY WantedTyped DEF RecordsInv, RecordsTypeOK
  <2> QED BY <2>1 DEF Rewritten, Written, Record
<1>5. /\ record' = [record EXCEPT ![k] = new]
      /\ tardy' = [tardy EXCEPT ![k] = Of(k) \ {r}]
      /\ request' = [request EXCEPT ![r] = NoRequest]
  BY <1>3, <1>4 DEF WriteRecord, Answered, RecordsInv, RecordsTypeOK
<1>6. /\ request'[r] = NoRequest
      /\ \A q \in Requests : q # r => request'[q] = request[q]
      /\ \A j \in RecordKinds : j # k => record'[j] = record[j]
  BY <1>5 DEF RecordsInv, RecordsTypeOK
<1>7. /\ tardy' \in [RecordKinds -> SUBSET Requests] /\ tardy'[k] = Of(k) \ {r}
      /\ \A j \in RecordKinds : j # k => tardy'[j] = tardy[j]
  <2>1. Of(k) \ {r} \in SUBSET Requests
    BY DEF Of
  <2> QED BY <1>5, <2>1 DEF RecordsInv, RecordsTypeOK
<1>8. RecordsTypeOK'
  <2>1. \A j \in RecordKinds : tardy'[j] \subseteq Of(j) \ {r}
    BY <1>2, <1>3, <1>7 DEF RecordsInv, RecordsTypeOK, Of
  <2>2. \A j \in RecordKinds : Of(j)' = Of(j) \ {r}
    BY <1>6, <2>1 DEF Of
  <2>3. record' \in [RecordKinds -> Record]
    BY <1>5 DEF RecordsInv, RecordsTypeOK
  <2>4. request' \in [Requests -> {NoRequest} \cup UNION {InHand(j) : j \in RecordKinds}]
    BY <1>5 DEF RecordsInv, RecordsTypeOK
  <2> QED BY <1>7, <2>1, <2>2, <2>3, <2>4 DEF RecordsTypeOK
<1>9. ReadLast'
  <2> SUFFICES ASSUME NEW q \in Requests, request'[q] # NoRequest,
                      q \notin tardy'[request'[q].kind]
               PROVE  /\ request'[q].loaded = record'[request'[q].kind]
                      /\ MayChange(request'[q].kind, request'[q].loaded, request'[q].wants)
    BY DEF ReadLast, MayChange
  <2>1. q # r /\ request'[q] = request[q]
    BY <1>6
  <2>2. request[q].kind # k /\ request[q].kind \in RecordKinds
    BY <1>7, <2>1, RequestTyped DEF Of, RecordsInv
  <2> QED BY <1>6, <1>7, <2>1, <2>2 DEF RecordsInv, ReadLast
<1>10. WithoutResult'
  <2>1. k \in {"job", "output"} => new.result = "empty"
    BY <1>4, WantedTyped DEF RecordsInv, WithoutResult, Rewritten, Written
  <2>2. record'[k] = new
    BY <1>5 DEF RecordsInv, RecordsTypeOK
  <2> QED BY <1>6, <2>1, <2>2 DEF RecordsInv, WithoutResult, RecordKinds
<1> QED BY <1>8, <1>9, <1>10 DEF RecordsInv

LEMMA LoseRequestStep ==
  ASSUME RecordsInv, NEW r \in Requests, LoseRequest(r) PROVE RecordsInv'
<1>1. /\ request' = [request EXCEPT ![r] = NoRequest]
      /\ tardy' = [k \in RecordKinds |-> tardy[k] \ {r}]
      /\ UNCHANGED record
  BY DEF LoseRequest, Answered
<1>2. /\ request'[r] = NoRequest
      /\ \A q \in Requests : q # r => request'[q] = request[q]
      /\ \A k \in RecordKinds : tardy'[k] = tardy[k] \ {r}
  BY <1>1 DEF RecordsInv, RecordsTypeOK
<1>3. RecordsTypeOK'
  <2>1. \A k \in RecordKinds : tardy'[k] \subseteq Of(k)'
    BY <1>2 DEF RecordsInv, RecordsTypeOK, Of
  <2>2. tardy' \in [RecordKinds -> SUBSET Requests]
    BY <1>1 DEF RecordsInv, RecordsTypeOK
  <2> QED BY <1>1, <2>1, <2>2 DEF RecordsInv, RecordsTypeOK
<1>4. ReadLast'
  <2> SUFFICES ASSUME NEW q \in Requests, request'[q] # NoRequest,
                      q \notin tardy'[request'[q].kind]
               PROVE  /\ request'[q].loaded = record'[request'[q].kind]
                      /\ MayChange(request'[q].kind, request'[q].loaded, request'[q].wants)
    BY DEF ReadLast, MayChange
  <2>1. q # r /\ request'[q] = request[q] /\ request[q].kind \in RecordKinds
    BY <1>2, RequestTyped DEF RecordsInv
  <2>2. q \notin tardy[request[q].kind]
    BY <1>2, <2>1
  <2> QED BY <1>1, <2>1, <2>2 DEF RecordsInv, ReadLast
<1> QED BY <1>1, <1>3, <1>4 DEF RecordsInv, WithoutResult

LEMMA RecordsStepInv == RecordsInv /\ [RecordsNext]_recordVars => RecordsInv'
<1> SUFFICES ASSUME RecordsInv, [RecordsNext]_recordVars PROVE RecordsInv'
  OBVIOUS
<1>1. CASE UNCHANGED recordVars
  BY <1>1 DEF recordVars, RecordsInv, RecordsTypeOK, ReadLast, WithoutResult, Of
<1> QED BY <1>1, ReadRecordStep, WriteRecordStep, LoseRequestStep DEF RecordsNext

LEMMA RecordsInvariance == RecordsSpec => []RecordsInv
<1>1. RecordsInit => RecordsInv
  <2> SUFFICES ASSUME RecordsInit PROVE RecordsInv
    OBVIOUS
  <2>1. record \in [RecordKinds -> Record]
    BY DEF RecordsInit, RecordKinds, Record, JobStates
  <2> QED BY <2>1 DEF RecordsInit, RecordsInv, RecordsTypeOK, ReadLast, WithoutResult,
                      RecordKinds
<1> QED BY <1>1, RecordsStepInv, PTL DEF RecordsSpec

(* A job or an output leaves its final state only through a request that   *)
(* had read it before: for any number of requests.                         *)
THEOREM FinalUnlessTardy == RecordsSpec => OnlyTardyRequestsReopen
<1>1. ASSUME RecordsInv, [RecordsNext]_recordVars, NEW k \in RecordKinds,
             record[k].status \in Terminal(k), record'[k] # record[k]
      PROVE  \E r \in tardy[k] : request'[r] = NoRequest
  <2>1. PICK r \in Requests : WriteRecord(r)
    BY <1>1 DEF RecordsNext, recordVars, ReadRecord, LoseRequest
  <2>2. request[r] # NoRequest
    BY <2>1 DEF WriteRecord, NoRequest
  <2>3. PICK kind \in RecordKinds, loaded \in Record :
          kind = request[r].kind /\ loaded = request[r].loaded
    BY <1>1, <2>2, RequestTyped DEF RecordsInv
  <2>4. PICK wants \in Wanted(kind) : wants = request[r].wants
    BY <1>1, <2>2, <2>3, RequestTyped DEF RecordsInv
  <2>5. /\ record' = [record EXCEPT ![kind] = Rewritten(record[kind], loaded, wants)]
        /\ request'[r] = NoRequest
    BY <1>1, <2>1, <2>3, <2>4 DEF WriteRecord, Answered, RecordsInv, RecordsTypeOK
  <2>6. kind = k /\ record'[k] = Rewritten(record[k], loaded, wants)
    BY <1>1, <2>5 DEF RecordsInv, RecordsTypeOK
  <2>7. ASSUME r \notin tardy[k] PROVE FALSE
    <3>1. loaded = record[k] /\ MayChange(k, loaded, wants)
      BY <1>1, <2>2, <2>3, <2>4, <2>6, <2>7 DEF RecordsInv, ReadLast
    <3>2. wants.status = loaded.status
      BY <1>1, <3>1 DEF MayChange
    <3>3. k \in {"job", "output"}
      BY <1>1 DEF Terminal, RecordKinds
    <3>4. wants.result = "empty" /\ record[k].result = "empty"
      BY <1>1, <2>4, <2>6, <3>3, WantedTyped DEF RecordsInv, WithoutResult
    <3>5. Rewritten(record[k], loaded, wants)
            = [status |-> record[k].status, result |-> record[k].result]
      BY <3>1, <3>2, <3>4 DEF Rewritten, Written
    <3>6. record[k] \in Record
      BY <1>1 DEF RecordsInv, RecordsTypeOK
    <3> QED BY <1>1, <2>6, <3>5, <3>6 DEF Record
  <2> QED BY <2>5, <2>7
<1>2. RecordsInv /\ [RecordsNext]_recordVars =>
        [\A k \in RecordKinds :
           record[k].status \in Terminal(k) /\ record'[k] # record[k] =>
             \E r \in tardy[k] : request'[r] = NoRequest]_recordVars
  BY <1>1
<1> QED BY <1>2, RecordsInvariance, PTL DEF RecordsSpec, OnlyTardyRequestsReopen
-----------------------------------------------------------------------------
(***************************************************************************)
(* The health of a service.                                                *)
(***************************************************************************)
Sole(q) == Polls(q) /\ poll[q].sole

(* No operator opens an alert but by a signal: the flush writes a status   *)
(* only when it changes it, and none is changed to open.                   *)
OpensNothing(work) ==
  work # NoWork => \/ work.at = "signal"
                   \/ work.wants.status \in {"acknowledged", "resolved", work.loaded.status}
DesksOpenNothing == \A o \in Operators : OpensNothing(desk[o])

(* While a poll can claim to be the only one, or the all-clear stands,     *)
(* nobody is about to report a trouble.                                    *)
NobodySick ==
  (clear \/ \E q \in Pollers : Sole(q)) => ~ Signalling /\ \A q \in Pollers : ~ Sick(q)

(* What such a poll has read is all that there is to close.                *)
SoleSeesAll ==
  \A q \in Pollers : Sole(q) =>
    /\ poll[q].at = "incidents" => \A k \in Kinds : incidents[k] = "open" => k \in poll[q].open
    /\ poll[q].at \in {"evaluate", "alerts"} => \A k \in Kinds : incidents[k] # "open"
    /\ poll[q].at = "alerts" =>
         \A t \in Troubles : alerts[t].status = "open" => t \in poll[q].rows

HealthInv == HealthTypeOK /\ DesksOpenNothing /\ NobodySick /\ SoleSeesAll /\ AllClearIsQuiet

LEMMA HealthInitInv == HealthInit => HealthInv
<1> SUFFICES ASSUME HealthInit PROVE HealthInv
  OBVIOUS
<1>1. HealthTypeOK
  BY DEF HealthInit, HealthTypeOK, Findings, AlertRow, NoAlert, Poll, NoPoll, Work
<1>2. DesksOpenNothing /\ NobodySick /\ SoleSeesAll /\ AllClearIsQuiet
  BY DEF HealthInit, DesksOpenNothing, OpensNothing, NobodySick, SoleSeesAll, AllClearIsQuiet,
         Sole, Polls
<1> QED BY <1>1, <1>2 DEF HealthInv

(* A poll that goes on without a new finding, and writes nothing.          *)
LEMMA PollMoves ==
  ASSUME HealthInv, NEW p \in Pollers, NEW next \in Poll, poll' = [poll EXCEPT ![p] = next],
         UNCHANGED <<condition, reliable, covered, incidents, alerts, desk, clear>>,
         \/ next \in {NoPoll, NoLoop}
         \/ /\ poll[p] \notin {NoPoll, NoLoop}
            /\ next.found = poll[p].found /\ next.sole = poll[p].sole
            /\ next.sole =>
                 /\ next.at = "incidents" =>
                      \A k \in Kinds : incidents[k] = "open" => k \in next.open
                 /\ next.at \in {"evaluate", "alerts"} => \A k \in Kinds : incidents[k] # "open"
                 /\ next.at = "alerts" =>
                      \A t \in Troubles : alerts[t].status = "open" => t \in next.rows
  PROVE  HealthInv'
<1>1. poll' \in [Pollers -> Poll] /\ poll'[p] = next /\ \A q \in Pollers \ {p} : poll'[q] = poll[q]
  BY DEF HealthInv, HealthTypeOK
<1>2. HealthTypeOK'
  BY <1>1 DEF HealthInv, HealthTypeOK
<1>3. DesksOpenNothing' /\ AllClearIsQuiet'
  BY DEF HealthInv, DesksOpenNothing, AllClearIsQuiet
<1>4. \A q \in Pollers : /\ Sole(q)' => Sole(q)
                         /\ Sick(q)' => Sick(q)
  BY <1>1 DEF Sole, Sick, Polls
<1>5. NobodySick'
  BY <1>4 DEF HealthInv, NobodySick, Signalling
<1>6. SoleSeesAll'
  BY <1>1 DEF HealthInv, SoleSeesAll, Sole, Polls
<1> QED BY <1>2, <1>3, <1>5, <1>6 DEF HealthInv

(* A trouble is found: every claim ends.                                   *)
LEMMA TroubleFound ==
  ASSUME HealthInv, NEW p, NEW next \in Poll, next \in {NoPoll} \/ ~ next.sole,
         Finds(TRUE, p, next), UNCHANGED <<condition, reliable, covered, alerts>>,
         incidents' \in [Kinds -> {"none", "open", "resolved"}],
         desk' \in [Operators -> Work], DesksOpenNothing'
  PROVE  HealthInv'
<1>1. /\ \A q \in Pollers : poll'[q] =
           IF q = p THEN next ELSE IF Polls(q) THEN [poll[q] EXCEPT !.sole = FALSE] ELSE poll[q]
      /\ poll' = [q \in Pollers |-> poll'[q]] /\ clear' = FALSE
  BY DEF Finds
<1>2. ASSUME NEW q \in Pollers
      PROVE  poll'[q] \in Poll /\ ~ Sole(q)'
  <2>1. CASE q # p /\ Polls(q)
    <3>1. poll'[q] = [poll[q] EXCEPT !.sole = FALSE]
      BY <1>1, <2>1
    <3>2. poll[q] \in Poll /\ poll[q] \notin {NoPoll, NoLoop}
      BY <2>1 DEF HealthInv, HealthTypeOK, Polls
    <3>3. poll'[q] \in Poll /\ poll'[q].sole = FALSE
      BY <3>1, <3>2 DEF Poll
    <3> QED BY <3>3 DEF Sole
  <2>2. CASE q # p /\ ~ Polls(q)
    BY <1>1, <2>2 DEF HealthInv, HealthTypeOK, Sole, Polls
  <2>3. CASE q = p
    BY <1>1, <2>3 DEF Sole, Polls
  <2> QED BY <2>1, <2>2, <2>3
<1>3. HealthTypeOK'
  BY <1>1, <1>2 DEF HealthInv, HealthTypeOK
<1>4. NobodySick' /\ SoleSeesAll' /\ AllClearIsQuiet'
  BY <1>1, <1>2 DEF NobodySick, SoleSeesAll, AllClearIsQuiet
<1> QED BY <1>3, <1>4 DEF HealthInv

LEMMA PollBeginsStep ==
  ASSUME HealthInv, NEW p \in Pollers, PollBegins(p)
  PROVE  HealthInv'
<1> DEFINE sole == condition = "healthy" /\ ~ Signalling /\ \A q \in Pollers : ~ Sick(q)
           next == [at |-> "found", found |-> condition, sole |-> sole]
<1>1. condition \in Findings /\ sole \in BOOLEAN
  BY DEF HealthInv, HealthTypeOK
<1>2. next \in Poll /\ next.found = condition /\ next.sole = sole /\ next.at = "found"
  BY <1>1 DEF Poll
<1>3. poll[p] = NoPoll /\ UNCHANGED <<condition, reliable, covered, incidents, alerts, desk>>
  BY DEF PollBegins
<1>4. Finds(condition # "healthy", p, next)
  BY DEF PollBegins
<1>5. CASE condition # "healthy"
  <2>1. Finds(TRUE, p, next)
    BY <1>4, <1>5 DEF Finds
  <2>2. ~ next.sole
    BY <1>2, <1>5
  <2>3. DesksOpenNothing' /\ desk' \in [Operators -> Work]
    BY <1>3 DEF HealthInv, HealthTypeOK, DesksOpenNothing
  <2> HIDE DEF next, sole
  <2> QED BY <1>2, <1>3, <2>1, <2>2, <2>3, TroubleFound DEF HealthInv, HealthTypeOK
<1>6. CASE condition = "healthy"
  <2>1. poll' = [poll EXCEPT ![p] = next] /\ clear' = clear
    BY <1>4, <1>6 DEF Finds
  <2>2. next.sole => ~ Signalling /\ \A q \in Pollers : ~ Sick(q)
    BY <1>2
  <2> HIDE DEF next, sole
  <2>3. /\ poll' \in [Pollers -> Poll] /\ poll'[p] = next
        /\ \A q \in Pollers \ {p} : poll'[q] = poll[q]
    BY <1>2, <2>1 DEF HealthInv, HealthTypeOK
  <2>4. HealthTypeOK' /\ DesksOpenNothing' /\ AllClearIsQuiet'
    BY <1>3, <2>1, <2>3 DEF HealthInv, HealthTypeOK, DesksOpenNothing, AllClearIsQuiet
  <2>5. NobodySick'
    <3>1. \A q \in Pollers : Sick(q)' => Sick(q)
      BY <1>2, <1>6, <2>3 DEF Sick, Polls
    <3>2. \A q \in Pollers : Sole(q)' => Sole(q) \/ next.sole
      BY <2>3 DEF Sole, Polls
    <3>3. Signalling' = Signalling
      BY <1>3 DEF Signalling
    <3> QED BY <2>1, <2>2, <3>1, <3>2, <3>3 DEF HealthInv, NobodySick
  <2>6. SoleSeesAll'
    BY <1>2, <1>3, <2>3 DEF HealthInv, SoleSeesAll, Sole, Polls
  <2> QED BY <2>4, <2>5, <2>6 DEF HealthInv
<1> QED BY <1>5, <1>6

(* What a poll has in hand before each of its statements.                  *)
LEMMA PollFacts ==
  ASSUME HealthInv, NEW p \in Pollers,
         poll[p].at \in {"found", "incidents", "evaluate", "alerts"}
  PROVE  /\ Polls(p) /\ poll[p].found \in Findings /\ poll[p].sole \in BOOLEAN
         /\ poll[p].at = "incidents" => poll[p].open \in SUBSET Kinds /\ poll[p].known \in BOOLEAN
         /\ poll[p].at = "alerts" => poll[p].rows \in SUBSET Troubles /\ poll[p].row \in AlertRow
         /\ poll[p].sole => poll[p].found = "healthy" /\ Sole(p)
<1>1. poll[p] \in Poll /\ poll[p] \notin {NoPoll, NoLoop}
  BY DEF HealthInv, HealthTypeOK, NoPoll, NoLoop
<1>2. /\ poll[p].found \in Findings /\ poll[p].sole \in BOOLEAN
      /\ poll[p].at = "incidents" => poll[p].open \in SUBSET Kinds /\ poll[p].known \in BOOLEAN
      /\ poll[p].at = "alerts" => poll[p].rows \in SUBSET Troubles /\ poll[p].row \in AlertRow
  BY <1>1 DEF Poll
<1>3. poll[p].sole => poll[p].found = "healthy" /\ Sole(p)
  BY <1>1 DEF HealthInv, NobodySick, Sole, Sick, Polls
<1> QED BY <1>1, <1>2, <1>3 DEF Polls

LEMMA ReadIncidentsStep ==
  ASSUME HealthInv, NEW p \in Pollers, ReadIncidents(p)
  PROVE  HealthInv'
<1> DEFINE found == poll[p].found
           sought == IF found = "healthy" THEN Kinds ELSE {found}
           open == {k \in sought : incidents[k] = "open"}
           known == found \in Troubles /\ incidents[found] # "none"
           next == [at |-> "incidents", found |-> found, sole |-> poll[p].sole,
                    open |-> open, known |-> known]
<1>1. /\ poll[p].at = "found" /\ poll' = [poll EXCEPT ![p] = next]
      /\ UNCHANGED <<condition, reliable, covered, incidents, alerts, desk, clear>>
  BY DEF ReadIncidents
<1>2. /\ Polls(p) /\ found \in Findings /\ poll[p].sole \in BOOLEAN
      /\ poll[p].sole => found = "healthy"
  BY <1>1, PollFacts
<1>3. open \in SUBSET Kinds /\ known \in BOOLEAN
  BY <1>2 DEF Findings, Kinds
<1>4. poll[p].sole => \A k \in Kinds : incidents[k] = "open" => k \in open
  BY <1>2
<1> HIDE DEF found, open, known
<1>5. /\ next \in Poll /\ next.at = "incidents" /\ next.open = open
      /\ next.found = found /\ next.sole = poll[p].sole
  BY <1>2, <1>3 DEF Poll
<1> HIDE DEF next
<1> QED BY <1>1, <1>2, <1>4, <1>5, PollMoves DEF Polls, found

LEMMA ReadAlertsStep ==
  ASSUME HealthInv, NEW p \in Pollers, ReadAlerts(p)
  PROVE  HealthInv'
<1> DEFINE found == poll[p].found
           rows == IF found = "healthy" THEN {t \in Troubles : Active(t)} ELSE covered \cap {found}
           row == IF found \in rows THEN alerts[found] ELSE NoAlert
           next == [at |-> "alerts", found |-> found, sole |-> poll[p].sole,
                    rows |-> rows, row |-> row]
<1>1. /\ poll[p].at = "evaluate" /\ poll' = [poll EXCEPT ![p] = next]
      /\ UNCHANGED <<condition, reliable, covered, incidents, alerts, desk, clear>>
  BY DEF ReadAlerts
<1>2. /\ Polls(p) /\ found \in Findings /\ poll[p].sole \in BOOLEAN
      /\ poll[p].sole => found = "healthy" /\ Sole(p)
  BY <1>1, PollFacts
<1>3. rows \in SUBSET Troubles /\ row \in AlertRow
  BY DEF HealthInv, HealthTypeOK, AlertRow, NoAlert
<1>4. poll[p].sole => /\ \A k \in Kinds : incidents[k] # "open"
                      /\ \A t \in Troubles : alerts[t].status = "open" => t \in rows
  BY <1>1, <1>2 DEF HealthInv, SoleSeesAll, Active
<1> HIDE DEF found, rows, row
<1>5. /\ next \in Poll /\ next.at = "alerts" /\ next.rows = rows
      /\ next.found = found /\ next.sole = poll[p].sole
  BY <1>2, <1>3 DEF Poll
<1> HIDE DEF next
<1> QED BY <1>1, <1>2, <1>4, <1>5, PollMoves DEF Polls, found

(* A poll that commits.  What a healthy one writes is closed.              *)
LEMMA CommitIncidentsStep ==
  ASSUME HealthInv, NEW p \in Pollers, CommitIncidents(p)
  PROVE  HealthInv'
<1> DEFINE next == [at |-> "evaluate", found |-> poll[p].found, sole |-> poll[p].sole]
<1>1. /\ poll[p].at = "incidents" /\ poll' = [poll EXCEPT ![p] = next]
      /\ UNCHANGED <<condition, reliable, covered, alerts, desk, clear>>
  BY DEF CommitIncidents
<1>2. /\ Polls(p) /\ poll[p].found \in Findings /\ poll[p].sole \in BOOLEAN
      /\ poll[p].sole => poll[p].found = "healthy" /\ Sole(p)
  BY <1>1, PollFacts
<1>3. /\ next \in Poll /\ next.at = "evaluate"
      /\ next.found = poll[p].found /\ next.sole = poll[p].sole
  BY <1>2 DEF Poll
<1> HIDE DEF next
<1>4. /\ poll' \in [Pollers -> Poll] /\ poll'[p] = next
      /\ \A q \in Pollers \ {p} : poll'[q] = poll[q]
  BY <1>1, <1>3 DEF HealthInv, HealthTypeOK
<1>5. /\ incidents' \in [Kinds -> {"none", "open", "resolved"}]
      /\ poll[p].found = "healthy" => \A k \in Kinds :
           incidents'[k] = IF k \in poll[p].open THEN "resolved" ELSE incidents[k]
  BY DEF CommitIncidents, Resolves, Opens, HealthInv, HealthTypeOK
<1>6. HealthTypeOK' /\ DesksOpenNothing'
  BY <1>1, <1>4, <1>5 DEF HealthInv, HealthTypeOK, DesksOpenNothing
<1>7. \A q \in Pollers : (Sole(q)' => Sole(q)) /\ (Sick(q)' <=> Sick(q))
  BY <1>2, <1>3, <1>4 DEF Sole, Sick, Polls, NoPoll, NoLoop
<1>8. NobodySick'
  BY <1>1, <1>7 DEF HealthInv, NobodySick, Signalling
<1>9. CASE poll[p].found = "healthy"
  <2>1. \A k \in Kinds : incidents'[k] = "open" => incidents[k] = "open"
    BY <1>5, <1>9
  <2>2. AllClearIsQuiet'
    BY <1>1, <2>1 DEF HealthInv, AllClearIsQuiet
  <2>3. next.sole => \A k \in Kinds : incidents'[k] # "open"
    BY <1>1, <1>2, <1>3, <1>5, <1>9 DEF HealthInv, SoleSeesAll
  <2>4. SoleSeesAll'
    BY <1>1, <1>3, <1>4, <1>7, <2>1, <2>3 DEF HealthInv, SoleSeesAll, Sole
  <2> QED BY <1>6, <1>8, <2>2, <2>4 DEF HealthInv
<1>10. CASE poll[p].found # "healthy"
  <2>1. Sick(p)
    BY <1>2, <1>10 DEF Sick
  <2>2. ~ clear /\ \A q \in Pollers : ~ Sole(q)
    BY <2>1 DEF HealthInv, NobodySick
  <2>3. AllClearIsQuiet' /\ SoleSeesAll'
    BY <1>1, <1>7, <2>2 DEF AllClearIsQuiet, SoleSeesAll
  <2> QED BY <1>6, <1>8, <2>3 DEF HealthInv
<1> QED BY <1>9, <1>10

LEMMA CommitAlertsStep ==
  ASSUME HealthInv, NEW p \in Pollers, CommitAlerts(p)
  PROVE  HealthInv'
<1>1. /\ poll[p].at = "alerts" /\ poll' = [poll EXCEPT ![p] = NoPoll]
      /\ clear' = (clear \/ poll[p].sole)
      /\ UNCHANGED <<condition, reliable, covered, incidents, desk>>
  BY DEF CommitAlerts
<1>2. /\ Polls(p) /\ poll[p].found \in Findings /\ poll[p].sole \in BOOLEAN
      /\ poll[p].rows \in SUBSET Troubles /\ poll[p].row \in AlertRow
      /\ poll[p].sole => poll[p].found = "healthy" /\ Sole(p)
  BY <1>1, PollFacts
<1>3. /\ poll' \in [Pollers -> Poll] /\ poll'[p] = NoPoll
      /\ \A q \in Pollers \ {p} : poll'[q] = poll[q]
  BY <1>1 DEF HealthInv, HealthTypeOK, Poll
<1>4. /\ alerts' \in [Troubles -> AlertRow]
      /\ poll[p].found = "healthy" => \A t \in Troubles :
           alerts'[t].status = IF t \in poll[p].rows THEN "resolved" ELSE alerts[t].status
  <2>1. alerts \in [Troubles -> AlertRow]
    BY DEF HealthInv, HealthTypeOK
  <2>2. CASE poll[p].found = "healthy"
    BY <2>1, <2>2 DEF CommitAlerts, Resolved, AlertRow
  <2>3. CASE poll[p].found # "healthy"
    <3>1. alerts' = Raised(p)
      BY <2>3 DEF CommitAlerts
    <3> QED BY <1>2, <2>1, <2>3, <3>1 DEF Raised, NoAlert, Written, AlertRow
  <2> QED BY <2>2, <2>3
<1>5. HealthTypeOK' /\ DesksOpenNothing'
  BY <1>1, <1>2, <1>3, <1>4 DEF HealthInv, HealthTypeOK, DesksOpenNothing
<1>6. \A q \in Pollers : (Sole(q)' => Sole(q)) /\ (Sick(q)' => Sick(q))
  BY <1>3 DEF Sole, Sick, Polls
<1>7. NobodySick'
  BY <1>1, <1>2, <1>6 DEF HealthInv, NobodySick, Signalling
<1>8. CASE poll[p].found = "healthy"
  <2>1. \A t \in Troubles : alerts'[t].status = "open" => alerts[t].status = "open"
    BY <1>4, <1>8
  <2>2. poll[p].sole => /\ \A k \in Kinds : incidents[k] # "open"
                        /\ \A t \in Troubles : alerts'[t].status # "open"
    BY <1>1, <1>2, <1>4, <1>8 DEF HealthInv, SoleSeesAll
  <2>3. AllClearIsQuiet'
    BY <1>1, <2>1, <2>2 DEF HealthInv, AllClearIsQuiet
  <2>4. SoleSeesAll'
    BY <1>1, <1>3, <1>6, <2>1 DEF HealthInv, SoleSeesAll, NoPoll
  <2> QED BY <1>5, <1>7, <2>3, <2>4 DEF HealthInv
<1>9. CASE poll[p].found # "healthy"
  <2>1. Sick(p)
    BY <1>2, <1>9 DEF Sick
  <2>2. ~ clear /\ \A q \in Pollers : ~ Sole(q)
    BY <2>1 DEF HealthInv, NobodySick
  <2>3. AllClearIsQuiet' /\ SoleSeesAll'
    BY <1>1, <1>2, <1>6, <1>9, <2>2 DEF AllClearIsQuiet, SoleSeesAll
  <2> QED BY <1>5, <1>7, <2>3 DEF HealthInv
<1> QED BY <1>8, <1>9

(* The polls that are refused or fail.                                     *)
LEMMA PollEndsStep ==
  ASSUME HealthInv, NEW p \in Pollers, RefusedIncident(p) \/ RefusedAlert(p) \/ PollFails(p)
  PROVE  HealthInv'
<1>1. PICK next \in {NoPoll, NoLoop} : poll' = [poll EXCEPT ![p] = next]
  BY DEF RefusedIncident, RefusedAlert, PollFails, HealthInv, HealthTypeOK
<1>2. next \in Poll
  BY DEF Poll
<1> QED BY <1>1, <1>2, PollMoves DEF RefusedIncident, RefusedAlert, PollFails

LEMMA RouteEventStep == ASSUME HealthInv, RouteEvent PROVE HealthInv'
<1>1. NoPoll \in Poll
  BY DEF Poll
<1>2. incidents' \in [Kinds -> {"none", "open", "resolved"}]
  BY DEF RouteEvent, HealthInv, HealthTypeOK
<1>3. DesksOpenNothing' /\ desk' \in [Operators -> Work]
  BY DEF RouteEvent, HealthInv, HealthTypeOK, DesksOpenNothing
<1> QED BY <1>1, <1>2, <1>3, TroubleFound DEF RouteEvent

(* The operators.                                                          *)
LEMMA DeskStep ==
  ASSUME HealthInv, NEW o \in Operators, NEW work \in Work, desk' = [desk EXCEPT ![o] = work],
         OpensNothing(work), work.at # "signal",
         UNCHANGED <<condition, reliable, covered, incidents, poll, clear>>,
         alerts' \in [Troubles -> AlertRow],
         \A t \in Troubles : alerts'[t].status = "open" => alerts[t].status = "open"
  PROVE  HealthInv'
<1>1. /\ desk' \in [Operators -> Work] /\ desk'[o] = work
      /\ \A x \in Operators \ {o} : desk'[x] = desk[x]
  BY DEF HealthInv, HealthTypeOK
<1>2. HealthTypeOK' /\ DesksOpenNothing'
  BY <1>1 DEF HealthInv, HealthTypeOK, DesksOpenNothing
<1>3. Signalling' => Signalling
  BY <1>1 DEF Signalling
<1>4. NobodySick' /\ SoleSeesAll' /\ AllClearIsQuiet'
  BY <1>3 DEF HealthInv, NobodySick, SoleSeesAll, AllClearIsQuiet, Sole, Sick, Polls
<1> QED BY <1>2, <1>4 DEF HealthInv

(* Who signals a trouble has found it.                                     *)
LEMMA SignalStep ==
  ASSUME HealthInv, NEW o \in Operators, NEW t \in Troubles, Signal(o, t)
  PROVE  HealthInv'
<1> DEFINE work == [at |-> "signal", alert |-> t, loaded |-> alerts[t],
                    wants |-> Signalled(alerts[t])]
<1>1. alerts[t] \in AlertRow /\ Signalled(alerts[t]) \in AlertRow
  BY DEF HealthInv, HealthTypeOK, AlertRow, Signalled
<1>2. work \in Work /\ work.at = "signal"
  BY <1>1 DEF Work
<1>3. desk' = [desk EXCEPT ![o] = work]
  BY DEF Signal
<1> HIDE DEF work
<1>4. desk' \in [Operators -> Work] /\ DesksOpenNothing'
  BY <1>2, <1>3 DEF HealthInv, HealthTypeOK, DesksOpenNothing, OpensNothing
<1>5. NoPoll \in Poll
  BY DEF Poll
<1>6. incidents' \in [Kinds -> {"none", "open", "resolved"}]
  BY DEF Signal, HealthInv, HealthTypeOK
<1> QED BY <1>4, <1>5, <1>6, TroubleFound DEF Signal

LEMMA TakesStep ==
  ASSUME HealthInv, NEW o \in Operators, NEW t \in Troubles,
         Acknowledge(o, t) \/ Resolve(o, t) \/ Escalate(o, t)
  PROVE  HealthInv'
<1>1. alerts \in [Troubles -> AlertRow] /\ alerts[t] \in AlertRow
  BY DEF HealthInv, HealthTypeOK
<1>2. PICK wants \in AlertRow :
        Takes(o, t, wants) /\ wants.status \in {"acknowledged", "resolved", alerts[t].status}
  <2>1. /\ [alerts[t] EXCEPT !.status = "acknowledged"] \in AlertRow
        /\ [alerts[t] EXCEPT !.status = "resolved"] \in AlertRow
        /\ [alerts[t] EXCEPT !.escalated = TRUE] \in AlertRow
        /\ [alerts[t] EXCEPT !.status = "acknowledged"].status = "acknowledged"
        /\ [alerts[t] EXCEPT !.status = "resolved"].status = "resolved"
        /\ [alerts[t] EXCEPT !.escalated = TRUE].status = alerts[t].status
    BY <1>1 DEF AlertRow
  <2> QED BY <2>1 DEF Acknowledge, Resolve, Escalate
<1> DEFINE work == [at |-> "write", alert |-> t, loaded |-> alerts[t], wants |-> wants]
<1>3. /\ work \in Work /\ work.wants = wants /\ work.loaded = alerts[t]
      /\ work.at = "write"
  BY <1>1 DEF Work
<1>4. desk' = [desk EXCEPT ![o] = work]
  BY <1>2 DEF Takes
<1> HIDE DEF work
<1>5. OpensNothing(work)
  BY <1>2, <1>3 DEF OpensNothing
<1> QED BY <1>1, <1>2, <1>3, <1>4, <1>5, DeskStep DEF Takes

(* What is written is a row; it opens an alert only while somebody         *)
(* signals, and then there is neither a claim nor an all-clear.            *)
LEMMA DeskWritesStep ==
  ASSUME HealthInv, NEW o \in Operators, DeskWrites(o) \/ RefusedSignal(o) \/ DeskFails(o)
  PROVE  HealthInv'
<1>1. /\ NoWork \in Work /\ desk' = [desk EXCEPT ![o] = NoWork]
      /\ OpensNothing(NoWork) /\ NoWork.at # "signal"
  BY DEF Work, DeskWrites, RefusedSignal, DeskFails, OpensNothing, NoWork
<1>2. CASE RefusedSignal(o) \/ DeskFails(o)
  BY <1>1, <1>2, DeskStep DEF RefusedSignal, DeskFails, HealthInv, HealthTypeOK
<1>3. CASE DeskWrites(o)
  <2> DEFINE work == desk[o]
             t == work.alert
             flushed == [c \in {"status", "escalated"} |->
                           Written(alerts[t][c], work.loaded[c], work.wants[c])]
  <2>1. work \in Work /\ work # NoWork /\ alerts \in [Troubles -> AlertRow]
    BY <1>3 DEF DeskWrites, HealthInv, HealthTypeOK
  <2>2. t \in Troubles /\ work.loaded \in AlertRow /\ work.wants \in AlertRow
    BY <2>1 DEF Work
  <2>3. \/ work.at = "signal"
        \/ work.wants.status \in {"acknowledged", "resolved", work.loaded.status}
    BY <2>1 DEF HealthInv, DesksOpenNothing, OpensNothing
  <2>4. alerts' = [alerts EXCEPT ![t] = flushed]
    BY <1>3 DEF DeskWrites
  <2>5. /\ flushed = [status |-> flushed.status, escalated |-> flushed.escalated]
        /\ flushed.status = Written(alerts[t].status, work.loaded.status, work.wants.status)
        /\ flushed.escalated
             = Written(alerts[t].escalated, work.loaded.escalated, work.wants.escalated)
    OBVIOUS
  <2>6. work.at = "signal" => Signalling
    BY DEF Signalling
  <2>7. /\ flushed \in AlertRow
        /\ work.at # "signal" => (flushed.status = "open" => alerts[t].status = "open")
    <3>1. alerts[t] \in AlertRow
      BY <2>1, <2>2
    <3> HIDE DEF work, t, flushed
    <3>2. flushed.status \in {"none", "open", "acknowledged", "resolved"}
      BY <2>2, <2>5, <3>1 DEF Written, AlertRow
    <3>3. flushed.escalated \in BOOLEAN
      BY <2>2, <2>5, <3>1 DEF Written, AlertRow
    <3>4. work.at # "signal" => (flushed.status = "open" => alerts[t].status = "open")
      BY <2>3, <2>5 DEF Written
    <3> QED BY <2>5, <3>2, <3>3, <3>4 DEF AlertRow
  <2> HIDE DEF flushed, t, work
  <2>8. alerts' \in [Troubles -> AlertRow]
    BY <2>1, <2>2, <2>4, <2>7
  <2>9. CASE work.at # "signal"
    <3>1. \A u \in Troubles : alerts'[u].status = "open" => alerts[u].status = "open"
      BY <2>1, <2>2, <2>4, <2>7, <2>9
    <3> QED BY <1>1, <1>3, <2>8, <3>1, DeskStep DEF DeskWrites
  <2>10. CASE work.at = "signal"
    <3>1. ~ clear /\ \A q \in Pollers : ~ Sole(q)
      BY <2>6, <2>10 DEF HealthInv, NobodySick
    <3>2. NobodySick' /\ SoleSeesAll' /\ AllClearIsQuiet'
      BY <1>3, <3>1 DEF DeskWrites, NobodySick, SoleSeesAll, AllClearIsQuiet, Sole, Polls
    <3>3. HealthTypeOK' /\ DesksOpenNothing'
      BY <1>1, <1>3, <2>8 DEF DeskWrites, HealthInv, HealthTypeOK, DesksOpenNothing
    <3> QED BY <3>2, <3>3 DEF HealthInv
  <2> QED BY <2>9, <2>10
<1> QED BY <1>2, <1>3

LEMMA HealthStepInv == HealthInv /\ [HealthNext]_healthVars => HealthInv'
<1> SUFFICES ASSUME HealthInv, [HealthNext]_healthVars PROVE HealthInv'
  OBVIOUS
<1>1. CASE ServiceChanges \/ Failures \/ UpsertPolicy \/ UNCHANGED healthVars
  <2>1. UNCHANGED <<incidents, alerts, poll, desk, clear>>
    BY <1>1 DEF ServiceChanges, Failures, UpsertPolicy, healthVars
  <2>2. condition' \in Findings /\ covered' \subseteq Troubles /\ reliable' \in BOOLEAN
    BY <1>1 DEF ServiceChanges, Failures, UpsertPolicy, healthVars, HealthInv, HealthTypeOK
  <2>3. HealthTypeOK'
    BY <2>1, <2>2 DEF HealthInv, HealthTypeOK
  <2>4. DesksOpenNothing' /\ NobodySick' /\ SoleSeesAll' /\ AllClearIsQuiet'
    BY <2>1 DEF HealthInv, DesksOpenNothing, NobodySick, SoleSeesAll, AllClearIsQuiet,
         Sole, Sick, Polls, Signalling
  <2> QED BY <2>3, <2>4 DEF HealthInv
<1>2. ASSUME NEW p \in Pollers, PollStep(p) \/ PollFails(p)
      PROVE  HealthInv'
  BY <1>2, PollBeginsStep, ReadIncidentsStep, CommitIncidentsStep, ReadAlertsStep,
     CommitAlertsStep, PollEndsStep DEF PollStep
<1>3. ASSUME NEW o \in Operators, NEW t \in Troubles,
             Signal(o, t) \/ Acknowledge(o, t) \/ Resolve(o, t) \/ Escalate(o, t)
      PROVE  HealthInv'
  BY <1>3, SignalStep, TakesStep
<1>4. ASSUME NEW o \in Operators, DeskWrites(o) \/ RefusedSignal(o) \/ DeskFails(o)
      PROVE  HealthInv'
  BY <1>4, DeskWritesStep
<1> QED BY <1>1, <1>2, <1>3, <1>4, RouteEventStep DEF HealthNext

LEMMA HealthInvariance == HealthSpec => []HealthInv
BY HealthInitInv, HealthStepInv, PTL DEF HealthSpec

(* The rows, the polls and the desks keep their types.                     *)
THEOREM HealthTypeCorrect == HealthSpec => []HealthTypeOK
<1>1. HealthInv => HealthTypeOK
  BY DEF HealthInv
<1> QED BY <1>1, HealthInvariance, PTL

(* The all-clear is real, whatever number of polls overlap, fail and       *)
(* restart and whatever operators still write: once a healthy poll has     *)
(* ended during which nobody found or signalled a trouble, nothing of the  *)
(* service is open until somebody finds or signals one.                    *)
THEOREM AllClearAlwaysQuiet == HealthSpec => []AllClearIsQuiet
<1>1. HealthInv => AllClearIsQuiet
  BY DEF HealthInv
<1> QED BY <1>1, HealthInvariance, PTL
-----------------------------------------------------------------------------
(***************************************************************************)
(* The composition.                                                        *)
(***************************************************************************)

(* A step of the composition is a step of the component that is followed,  *)
(* and the others stutter.                                                 *)
LEMMA OperationsImplement ==
  Spec => /\ ConfigSpec /\ DeliverySpec /\ HealthSpec /\ CatalogSpec /\ ImpactSpec
          /\ RecordsSpec /\ MissionSpec /\ ReleaseSpec /\ FlowSpec
<1>1. Init => /\ ConfigInit /\ DeliveryInit /\ HealthInit /\ CatalogInit /\ ImpactInit
              /\ RecordsInit /\ MissionInit /\ ReleaseInit /\ FlowInit
  BY DEF Init
<1> DEFINE allVars ==
      <<focus, configVars, deliveryVars, healthVars, catalogVars, impactVars, recordVars,
        missionVars, releaseVars, flowVars>>
<1>2. [Next]_allVars =>
        /\ [ConfigNext]_configVars /\ [DeliveryNext]_deliveryVars /\ [HealthNext]_healthVars
        /\ [CatalogNext]_catalogVars /\ [ImpactNext]_impactVars /\ [RecordsNext]_recordVars
        /\ [MissionNext]_missionVars
        /\ [ReleaseNext]_releaseVars /\ [FlowNext]_flowVars
  BY DEF Next
<1> QED BY <1>1, <1>2, PTL DEF Spec, ConfigSpec, DeliverySpec, HealthSpec, CatalogSpec,
         ImpactSpec, RecordsSpec, MissionSpec, ReleaseSpec, FlowSpec

(* Whatever the others do, every component keeps its types and bounds.     *)
THEOREM OperationsTypeCorrect == Spec => []OperationsTypeOK
<1>1. RecordsInv => RecordsTypeOK
  BY DEF RecordsInv
<1>2. ASSUME ConfigTypeOK, DeliveryTypeOK, HealthTypeOK, CatalogTypeOK, ImpactTypeOK,
             RecordsTypeOK, MissionTypeOK, ReleaseTypeOK, FlowTypeOK
      PROVE  OperationsTypeOK
  BY <1>2 DEF OperationsTypeOK
<1> QED BY <1>1, <1>2, OperationsImplement, HistoryExplainsTheValue, DeliveryIsReal,
           HealthTypeCorrect, BootLeavesWholeAlways, WalkFindsTheImpact, RecordsInvariance,
           MissionsOnSolidGround, ReleasesAreWhatTheySeem, FlowTypeCorrect, PTL

(* No request undoes what was settled but one that acted on what it had    *)
(* read before.                                                            *)
THEOREM OnlyTheLateUndoAnything == Spec => OnlyTheLateUndo
BY OperationsImplement, DeliveryLasts, FinalUnlessTardy, PTL DEF OnlyTheLateUndo

(* One statement for the whole: in any behaviour of the composition, the   *)
(* value in force and its number are in the history, what was delivered    *)
(* was taken, the all-clear is quiet, a boot leaves whole rows, the impact *)
(* is exact, missions begin on completed work, what runs was released and  *)
(* every due event is accounted for.                                       *)
THEOREM OperationsAreSafe ==
  Spec => [](/\ ValueInForceIsRecorded /\ KeeperHasItsNumber /\ DeliveredWasTaken
             /\ AllClearIsQuiet /\ BootLeavesWhole /\ ImpactIsLeastClosed
             /\ BegunOnCompletedWork /\ WhatRunsWasReleased
             /\ FlowsAreAccounted)
BY OperationsImplement, HistoryExplainsTheValue, KeepersAreNumbered, DeliveryIsReal,
   AllClearAlwaysQuiet, BootLeavesWholeAlways, WalkFindsTheImpact,
   MissionsOnSolidGround, ReleasesAreWhatTheySeem, FlowsAlwaysAccounted, PTL
=============================================================================
