----------------------------- MODULE ReportProofs -----------------------------
(*****************************************************************************)
(* What the platform tells others about its jobs, proved: its alerts         *)
(* (Alerts) and its callbacks (CallbackDelivery), each for every value of    *)
(* its constants.  The two do not interact: each theorem is about one of the *)
(* two specifications.                                                       *)
(*                                                                           *)
(* Alerts. A message is paid for when the key is claimed, not when it is     *)
(* sent: the messages sent and the callers about to send are within the      *)
(* windows that were opened (Budgeted), and an item opens one window only    *)
(* (OnceAsked). The error rate is read from rows that a retry puts back to   *)
(* live, while an alarm that was due stays due: the runs that raised it      *)
(* are in the history (Real, Alarmed).                                       *)
(*                                                                           *)
(* Callbacks. Three facts make the properties inductive: an entry that       *)
(* waits and that no worker stopped under has tries left (Unexhausted); a    *)
(* payload whose delivery is about to be recorded has arrived, and a         *)
(* recorded delivery is over (Arrived); and, while the row stands ended,     *)
(* some entry still owes it - or paid, or gave up (Owed).                    *)
(*****************************************************************************)
EXTENDS Alerts, CallbackDelivery, FiniteSetTheorems, TLAPS

(* The callers that hold a window of key k and have yet to send. *)
Holding(k) == {c \in Callers : KeyOf(c) = k /\ at[c] \in {"look", "send"}}

(* What was sent, and may still be, is within the windows that were          *)
(* opened.                                                                   *)
Budgeted ==
  \A k \in Keys, h \in Channels : sent[k][h] + Cardinality(Holding(k)) <= windows[k]

(* A work item opens its one window when its key is claimed. *)
OnceAsked ==
  \A i \in Items : windows[i] <= (IF at[i] \in {"look", "send", "done"} THEN 1 ELSE 0)

(* The history holds the runs the rows show. *)
Real ==
  \A j \in Jobs : /\ status[j] \in {"succeeded", "failed"} => j \in counted
                  /\ status[j] = "failed" => j \in broken

(* Enough runs failed for an alarm, ever. *)
Enough == Cardinality(counted) >= MinSample /\ 2 * Cardinality(broken) >= MinSample

(* An alarm raised, or on its way, was due. *)
Alarmed ==
  windows["error_rate"] > 0 \/ (\E j \in Jobs : at[j] \in {"claim", "look", "send"}) => Enough

(* The inductive invariant of the alerts. *)
AlertsInv == TypeOK /\ Budgeted /\ OnceAsked /\ Real /\ Alarmed

(* The key of a caller tells jobs from items. *)
LEMMA KeysOfCallers ==
  ASSUME AlertsAssumption
  PROVE  /\ IsFiniteSet(Jobs) /\ IsFiniteSet(Callers)
         /\ \A c \in Callers : KeyOf(c) \in Keys
         /\ \A j \in Jobs : KeyOf(j) = "error_rate" /\ j \notin Items
         /\ \A i \in Items : KeyOf(i) = i /\ i # "error_rate"
         /\ \A i \in Items, c \in Callers : KeyOf(c) = i => c = i
<1>1. LastJob \in Nat /\ IsFiniteSet(Items) BY DEF AlertsAssumption
<1>2. IsFiniteSet(Jobs) BY <1>1, FS_Interval DEF Jobs
<1>3. IsFiniteSet(Callers) BY <1>1, <1>2, FS_Union DEF Callers
<1>4. Items \cap Jobs = {} /\ "error_rate" \notin Items BY DEF AlertsAssumption
<1> QED BY <1>2, <1>3, <1>4 DEF Callers, Keys, KeyOf

(* The callers of a key can be counted. *)
LEMMA HoldingFinite ==
  ASSUME AlertsAssumption, NEW k
  PROVE  IsFiniteSet(Holding(k)) /\ Cardinality(Holding(k)) \in Nat
<1>1. Holding(k) \in SUBSET Callers BY DEF Holding
<1> QED BY <1>1, KeysOfCallers, FS_Subset, FS_CardinalityType

(* The history is finite, and what it counts grows with it. *)
LEMMA HistoryGrows ==
  ASSUME AlertsAssumption, Enough, counted \subseteq counted', broken \subseteq broken',
         counted' \subseteq Jobs, broken' \subseteq Jobs
  PROVE  Enough'
<1>1. IsFiniteSet(Jobs) BY KeysOfCallers
<1>2. IsFiniteSet(counted') /\ IsFiniteSet(broken') BY <1>1, FS_Subset
<1>3. Cardinality(counted) <= Cardinality(counted') BY <1>2, FS_Subset
<1>4. Cardinality(broken) <= Cardinality(broken') BY <1>2, FS_Subset
<1>5. IsFiniteSet(counted) /\ IsFiniteSet(broken) BY <1>2, FS_Subset
<1>6. /\ Cardinality(counted) \in Nat /\ Cardinality(counted') \in Nat
      /\ Cardinality(broken) \in Nat /\ Cardinality(broken') \in Nat
  BY <1>2, <1>5, FS_CardinalityType
<1>7. MinSample \in Nat BY DEF AlertsAssumption
<1> QED BY <1>3, <1>4, <1>6, <1>7 DEF Enough

(* A high error rate is the history's. *)
LEMMA RateIsReal ==
  ASSUME AlertsAssumption, AlertsInv, ErrorRate
  PROVE  Enough
<1> DEFINE recent == Newest(Counted)
<1>1. Cardinality(recent) >= MinSample /\ 2 * Cardinality(Failed(recent)) >= Cardinality(recent)
  BY DEF ErrorRate
<1>2. recent \subseteq counted /\ Failed(recent) \subseteq broken
  BY DEF AlertsInv, TypeOK, Real, Newest, Counted, Failed
<1>3. counted \subseteq Jobs /\ broken \subseteq Jobs BY DEF AlertsInv, TypeOK
<1>4. IsFiniteSet(counted) /\ IsFiniteSet(broken) BY <1>3, KeysOfCallers, FS_Subset
<1> HIDE DEF recent
<1>5. IsFiniteSet(recent) /\ Cardinality(recent) <= Cardinality(counted) BY <1>2, <1>4, FS_Subset
<1>6. /\ IsFiniteSet(Failed(recent))
      /\ Cardinality(Failed(recent)) <= Cardinality(broken)
  BY <1>2, <1>4, FS_Subset
<1>7. /\ Cardinality(counted) \in Nat /\ Cardinality(broken) \in Nat
      /\ Cardinality(recent) \in Nat /\ Cardinality(Failed(recent)) \in Nat
  BY <1>4, <1>5, <1>6, FS_CardinalityType
<1>8. MinSample \in Nat BY DEF AlertsAssumption
<1> QED BY <1>1, <1>5, <1>6, <1>7, <1>8 DEF Enough

(* At the beginning nobody calls and nothing was sent. *)
LEMMA AlertsInit == ASSUME AlertsAssumption, Init PROVE AlertsInv
<1>1. TypeOK
  <2>1. \A h \in Channels : (IF h \in Founders THEN Events ELSE {}) \in SUBSET Events OBVIOUS
  <2>2. events \in [Channels -> SUBSET Events] BY <2>1 DEF Init
  <2>3. edits \in 0 .. MaxEdits BY DEF AlertsAssumption, Init
  <2>4. urls \in [Callers -> SUBSET Channels] /\ at \in [Callers -> {"idle", "done"} \cup Calling]
    BY DEF Init
  <2>5. sent \in [Keys -> [Channels -> Nat]] /\ windows \in [Keys -> Nat] BY DEF Init
  <2> QED BY <2>2, <2>3, <2>4, <2>5 DEF Init, TypeOK
<1>2. \A k : Holding(k) = {} BY DEF Init, Holding
<1>3. Budgeted BY <1>2, FS_EmptySet DEF Init, Budgeted
<1>4. OnceAsked BY KeysOfCallers DEF Init, OnceAsked, Keys, Callers
<1>5. Real BY DEF Init, Real
<1>6. Alarmed BY DEF Init, Alarmed, Keys, Callers
<1> QED BY <1>1, <1>3, <1>4, <1>5, <1>6 DEF AlertsInv

-------------------------------------------------------------------------------
(* Caller c moves to x: who holds windows then. *)
LEMMA Held ==
  ASSUME AlertsAssumption, AlertsInv, NEW c \in Callers, NEW x, NEW k \in Keys,
         at' = [at EXCEPT ![c] = x]
  PROVE  /\ x \notin {"look", "send"} => Holding(k)' = Holding(k) \ {c}
         /\ x \in {"look", "send"} /\ KeyOf(c) = k => Holding(k)' = Holding(k) \cup {c}
         /\ KeyOf(c) # k => Holding(k)' = Holding(k)
<1>1. \A e \in Callers : at'[e] = IF e = c THEN x ELSE at[e] BY DEF AlertsInv, TypeOK
<1> QED BY <1>1 DEF Holding

(* The steps that neither take a window nor spend one. *)
LEMMA Unheld ==
  ASSUME AlertsAssumption, AlertsInv, NEW c \in Callers,
         NEW x \in {"idle", "check", "claim"}, at[c] \in {"idle", "check"},
         at' \in {at, [at EXCEPT ![c] = x]},
         status' \in [Jobs -> {"none", "live", "succeeded", "failed", "refused"}],
         counted \subseteq counted', broken \subseteq broken', counted' \subseteq Jobs,
         broken' \subseteq counted',
         Real',
         x = "claim" => c \in Items \/ ErrorRate,
         UNCHANGED <<claimed, events, urls, sent, windows, lost, edits>>
  PROVE  AlertsInv'
<1>1. at \in [Callers -> {"idle", "done"} \cup Calling] BY DEF AlertsInv, TypeOK
<1>2. \A e \in Callers : at'[e] = at[e] \/ (e = c /\ at'[e] = x) BY <1>1
<1>3. TypeOK' BY <1>1 DEF AlertsInv, TypeOK, Calling
<1>4. \A k : Holding(k)' = Holding(k) BY <1>2 DEF Holding
<1>5. Budgeted' BY <1>4 DEF AlertsInv, Budgeted
<1>6. OnceAsked' BY <1>2, KeysOfCallers DEF AlertsInv, OnceAsked, Callers
<1>7. Alarmed'
  <2>1. Enough => Enough' BY HistoryGrows, <1>3 DEF TypeOK
  <2>2. ErrorRate => Enough BY RateIsReal
  <2>3. \A j \in Jobs : j \in Callers /\ j \notin Items BY KeysOfCallers DEF Callers
  <2> QED BY <1>2, <2>1, <2>2, <2>3 DEF AlertsInv, Alarmed
<1> QED BY <1>3, <1>5, <1>6, <1>7 DEF AlertsInv

(* Jobs that are submitted, end, are asked to run again and read the error   *)
(* rate.                                                                     *)
LEMMA JobsStep ==
  ASSUME AlertsAssumption, AlertsInv, NEW j \in Jobs,
         Submit(j) \/ Retry(j) \/ Check(j)
           \/ \E outcome \in {"succeeded", "failed", "refused"} : Finalize(j, outcome)
  PROVE  AlertsInv'
<1>1. j \in Callers BY DEF Callers
<1>2. /\ status \in [Jobs -> {"none", "live", "succeeded", "failed", "refused"}]
      /\ counted \subseteq Jobs /\ broken \subseteq counted
  BY DEF AlertsInv, TypeOK
<1>3. CASE Submit(j) \/ Retry(j)
  <2>1. /\ status' \in {[status EXCEPT ![j] = "live"]}
        /\ UNCHANGED <<at, claimed, events, urls, sent, windows, counted, broken, lost, edits>>
    BY <1>3 DEF Submit, Retry, history
  <2>2. Real' BY <1>2, <2>1 DEF AlertsInv, Real
  <2>3. TypeOK' BY <1>2, <2>1 DEF AlertsInv, TypeOK
  <2>4. Budgeted' BY <2>1 DEF AlertsInv, Budgeted, Holding
  <2>5. OnceAsked' BY <2>1 DEF AlertsInv, OnceAsked
  <2>6. Alarmed' BY <2>1 DEF AlertsInv, Alarmed, Enough
  <2> QED BY <2>2, <2>3, <2>4, <2>5, <2>6 DEF AlertsInv
<1>4. ASSUME NEW outcome \in {"succeeded", "failed", "refused"}, Finalize(j, outcome)
      PROVE  AlertsInv'
  <2>1. /\ at[j] = "idle" /\ at' \in {at, [at EXCEPT ![j] = "check"]}
        /\ status' = [status EXCEPT ![j] = outcome]
        /\ counted' = IF outcome # "refused" THEN counted \cup {j} ELSE counted
        /\ broken' = IF outcome = "failed" THEN broken \cup {j} ELSE broken
        /\ UNCHANGED <<claimed, events, urls, sent, windows, lost, edits>>
    BY <1>4 DEF Finalize
  <2>2. Real' BY <1>2, <2>1 DEF AlertsInv, Real
  <2>3. /\ status' \in [Jobs -> {"none", "live", "succeeded", "failed", "refused"}]
        /\ counted \subseteq counted' /\ broken \subseteq broken' /\ counted' \subseteq Jobs
        /\ broken' \subseteq counted'
    BY <1>2, <2>1
  <2> QED BY <1>1, <2>1, <2>2, <2>3, Unheld
<1>5. CASE Check(j)
  <2>1. /\ at[j] = "check" /\ UNCHANGED <<status, claimed, events, urls, sent, windows, lost, edits>>
        /\ UNCHANGED <<counted, broken>>
    BY <1>5 DEF Check, history
  <2>2. Real' BY <2>1 DEF AlertsInv, Real
  <2>3. CASE ErrorRate
    <3>1. at' = [at EXCEPT ![j] = "claim"] BY <1>5, <2>3 DEF Check
    <3> QED BY <1>1, <1>2, <2>1, <2>2, <2>3, <3>1, Unheld
  <2>4. CASE ~ErrorRate
    <3>1. at' = [at EXCEPT ![j] = "idle"] BY <1>5, <2>4 DEF Check
    <3> QED BY <1>1, <1>2, <2>1, <2>2, <3>1, Unheld
  <2> QED BY <2>3, <2>4
<1> QED BY <1>3, <1>4, <1>5

(* An item is asked about: its caller begins. *)
LEMMA AskStep == ASSUME AlertsAssumption, AlertsInv, NEW i \in Items, Ask(i) PROVE AlertsInv'
<1>1. /\ at[i] = "idle" /\ at' = [at EXCEPT ![i] = "claim"]
      /\ UNCHANGED <<status, claimed, events, urls, sent, windows, counted, broken, lost, edits>>
  BY DEF Ask, history
<1>2. /\ status' \in [Jobs -> {"none", "live", "succeeded", "failed", "refused"}]
      /\ counted' \subseteq Jobs /\ broken' \subseteq counted'
  BY <1>1 DEF AlertsInv, TypeOK
<1>3. Real' BY <1>1 DEF AlertsInv, Real
<1> QED BY <1>1, <1>2, <1>3, Unheld DEF Callers

-------------------------------------------------------------------------------
(* A call of notify: what is left of its invariant once the types, the     *)
(* windows and the item are seen to.                                       *)
LEMMA CallInv ==
  ASSUME AlertsAssumption, AlertsInv, NEW c \in Callers, TypeOK', Budgeted', OnceAsked',
         at[c] \in Calling, UNCHANGED <<status, counted, broken>>,
         \A e \in Callers : e # c => at'[e] = at[e],
         c \in Jobs /\ at[c] = "check" => at'[c] \notin {"claim", "look", "send"},
         windows'["error_rate"] # windows["error_rate"] => c \in Jobs /\ at[c] = "claim"
  PROVE  AlertsInv'
<1>1. Real' BY DEF AlertsInv, Real
<1>2. \A j \in Jobs : j \in Callers BY DEF Callers
<1>3. Alarmed' BY <1>2 DEF AlertsInv, Alarmed, Enough, Calling
<1> QED BY <1>1, <1>3 DEF AlertsInv

(* A call that ends keeps the types. *)
LEMMA OverTyped ==
  ASSUME AlertsAssumption, NEW c \in Callers
  PROVE  /\ Over(c) \in {"idle", "done"}
         /\ c \in Items => Over(c) = "done"
BY DEF Over

(* The look-up and the send of a caller. *)
LEMMA SpendStep ==
  ASSUME AlertsAssumption, AlertsInv, NEW c \in Callers, NEW x \in {Over(c), "send"},
         at[c] \in Calling, at' = [at EXCEPT ![c] = x],
         x = "send" => at[c] = "look" /\ UNCHANGED sent,
         sent' \in [Keys -> [Channels -> Nat]],
         \A k \in Keys, h \in Channels :
           sent'[k][h] = sent[k][h] \/ (sent'[k][h] = sent[k][h] + 1 /\ k = KeyOf(c) /\ at[c] = "send"),
         urls' \in [Callers -> SUBSET Channels], lost' \in BOOLEAN,
         UNCHANGED <<status, claimed, events, windows, counted, broken, edits>>
  PROVE  AlertsInv'
<1>1. /\ at \in [Callers -> {"idle", "done"} \cup Calling]
      /\ sent \in [Keys -> [Channels -> Nat]] /\ windows \in [Keys -> Nat]
  BY DEF AlertsInv, TypeOK
<1>2. x \in {"idle", "done", "send"} BY OverTyped
<1>3. at'[c] = x /\ \A e \in Callers : e # c => at'[e] = at[e] BY <1>1
<1>4. TypeOK' BY <1>1, <1>2 DEF AlertsInv, TypeOK, Calling
<1>5. Budgeted'
  <2>1. SUFFICES ASSUME NEW k \in Keys, NEW h \in Channels
                 PROVE  sent'[k][h] + Cardinality(Holding(k)') <= windows[k]
    BY DEF Budgeted
  <2>2. /\ sent[k][h] + Cardinality(Holding(k)) <= windows[k]
        /\ sent[k][h] \in Nat /\ windows[k] \in Nat
    BY <1>1 DEF AlertsInv, Budgeted
  <2>3. IsFiniteSet(Holding(k)) /\ Cardinality(Holding(k)) \in Nat BY HoldingFinite
  <2>4. CASE x = "send"
    <3>1. Holding(k)' = Holding(k) BY <1>3, <2>4 DEF Holding
    <3> QED BY <2>2, <2>4, <3>1
  <2>5. CASE x # "send"
    <3>1. Holding(k)' = Holding(k) \ {c} BY <1>2, <2>5, Held
    <3>2. Cardinality(Holding(k)') = IF c \in Holding(k) THEN Cardinality(Holding(k)) - 1
                                     ELSE Cardinality(Holding(k))
      BY <2>3, <3>1, FS_RemoveElement
    <3>3. k = KeyOf(c) /\ at[c] = "send" => c \in Holding(k) BY DEF Holding
    <3> QED BY <2>2, <2>3, <3>2, <3>3
  <2> QED BY <2>4, <2>5
<1>6. OnceAsked' BY <1>1, <1>2, <1>3, OverTyped DEF AlertsInv, OnceAsked, Keys, Callers
<1> QED BY <1>2, <1>3, <1>4, <1>5, <1>6, CallInv

(* The claim of a key, with its outcome for the item. *)
LEMMA OpenStep ==
  ASSUME AlertsAssumption, AlertsInv, NEW c \in Callers, at[c] = "claim",
         at' = [at EXCEPT ![c] = "look"],
         claimed' = claimed \cup {KeyOf(c)}, windows' = [windows EXCEPT ![KeyOf(c)] = @ + 1],
         UNCHANGED <<status, events, urls, sent, counted, broken, lost, edits>>
  PROVE  AlertsInv'
<1>1. /\ at \in [Callers -> {"idle", "done"} \cup Calling]
      /\ sent \in [Keys -> [Channels -> Nat]] /\ windows \in [Keys -> Nat]
  BY DEF AlertsInv, TypeOK
<1>2. KeyOf(c) \in Keys BY KeysOfCallers
<1>3. at'[c] = "look" /\ \A e \in Callers : e # c => at'[e] = at[e] BY <1>1
<1>4. \A k \in Keys : windows'[k] = IF k = KeyOf(c) THEN windows[k] + 1 ELSE windows[k] BY <1>1
<1>5. TypeOK' BY <1>1, <1>2 DEF AlertsInv, TypeOK, Calling
<1>6. Budgeted'
  <2>1. SUFFICES ASSUME NEW k \in Keys, NEW h \in Channels
                 PROVE  sent[k][h] + Cardinality(Holding(k)') <= windows'[k]
    BY DEF Budgeted
  <2>2. /\ sent[k][h] + Cardinality(Holding(k)) <= windows[k]
        /\ sent[k][h] \in Nat /\ windows[k] \in Nat
    BY <1>1 DEF AlertsInv, Budgeted
  <2>3. IsFiniteSet(Holding(k)) /\ Cardinality(Holding(k)) \in Nat BY HoldingFinite
  <2>4. CASE KeyOf(c) = k
    <3>1. Holding(k)' = Holding(k) \cup {c} BY <2>4, Held
    <3>2. Cardinality(Holding(k)') = IF c \in Holding(k) THEN Cardinality(Holding(k))
                                     ELSE Cardinality(Holding(k)) + 1
      BY <2>3, <3>1, FS_AddElement
    <3> QED BY <1>4, <2>2, <2>3, <2>4, <3>2
  <2>5. CASE KeyOf(c) # k
    <3>1. Holding(k)' = Holding(k) BY <2>5, Held
    <3> QED BY <1>4, <2>2, <2>5, <3>1
  <2> QED BY <2>4, <2>5
<1>7. OnceAsked'
  <2>1. SUFFICES ASSUME NEW i \in Items
                 PROVE  windows'[i] <= (IF at'[i] \in {"look", "send", "done"} THEN 1 ELSE 0)
    BY DEF OnceAsked
  <2>2. i \in Keys /\ i \in Callers BY DEF Keys, Callers
  <2>3. windows[i] \in Nat /\ windows[i] <= (IF at[i] \in {"look", "send", "done"} THEN 1 ELSE 0)
    BY <1>1, <2>2 DEF AlertsInv, OnceAsked
  <2>4. CASE i = c
    <3>1. KeyOf(c) = i BY <2>4, KeysOfCallers
    <3> QED BY <1>3, <1>4, <2>2, <2>3, <2>4, <3>1
  <2>5. CASE i # c
    <3>1. KeyOf(c) # i BY <2>5, KeysOfCallers
    <3> QED BY <1>3, <1>4, <2>2, <2>3, <2>5, <3>1
  <2> QED BY <2>4, <2>5
<1>8. windows'["error_rate"] # windows["error_rate"] => c \in Jobs
  BY <1>4, KeysOfCallers DEF Keys, Callers
<1> QED BY <1>3, <1>5, <1>6, <1>7, <1>8, CallInv DEF Calling

(* Every step of a call to notify. *)
LEMMA CallsStep ==
  ASSUME AlertsAssumption, AlertsInv, NEW c \in Callers, Claim(c) \/ Look(c) \/ Send(c) \/ Lose(c)
  PROVE  AlertsInv'
<1>1. /\ sent \in [Keys -> [Channels -> Nat]] /\ urls \in [Callers -> SUBSET Channels]
      /\ lost \in BOOLEAN
  BY DEF AlertsInv, TypeOK
<1>2. CASE Claim(c)
  <2>1. CASE KeyOf(c) \in claimed
    <3>1. /\ at[c] = "claim" /\ at' = [at EXCEPT ![c] = Over(c)]
          /\ UNCHANGED <<claimed, windows, status, events, urls, sent, counted, broken, lost, edits>>
      BY <1>2, <2>1 DEF Claim, history
    <3> QED BY <1>1, <3>1, SpendStep, OverTyped DEF Calling
  <2>2. CASE KeyOf(c) \notin claimed
    BY <1>2, <2>2, OpenStep DEF Claim, history
  <2> QED BY <2>1, <2>2
<1>3. CASE Look(c)
  <2> DEFINE found == Subscribed(EventOf(c)) \ Refused
  <2>1. /\ at[c] = "look"
        /\ UNCHANGED <<status, claimed, events, sent, windows, counted, broken, lost, edits>>
    BY <1>3 DEF Look, history
  <2>2. CASE found = {}
    <3>1. at' = [at EXCEPT ![c] = Over(c)] /\ UNCHANGED urls BY <1>3, <2>2 DEF Look
    <3> QED BY <1>1, <2>1, <3>1, SpendStep, OverTyped DEF Calling
  <2>3. CASE found # {}
    <3>1. at' = [at EXCEPT ![c] = "send"] /\ urls' = [urls EXCEPT ![c] = found]
      BY <1>3, <2>3 DEF Look
    <3>2. found \in SUBSET Channels BY DEF Subscribed
    <3>3. urls' \in [Callers -> SUBSET Channels] BY <1>1, <3>1, <3>2
    <3> QED BY <1>1, <2>1, <3>1, <3>3, SpendStep DEF Calling
  <2> QED BY <2>2, <2>3
<1>4. CASE Send(c)
  <2>1. PICK reached \in SUBSET urls[c] :
          /\ sent' = [sent EXCEPT ![KeyOf(c)] =
                        [h \in Channels |-> IF h \in reached THEN @[h] + 1 ELSE @[h]]]
          /\ lost' = (lost \/ reached # urls[c])
    BY <1>4 DEF Send
  <2>2. /\ at[c] = "send" /\ at' = [at EXCEPT ![c] = Over(c)] /\ urls' = [urls EXCEPT ![c] = {}]
        /\ UNCHANGED <<status, claimed, events, windows, counted, broken, edits>>
    BY <1>4 DEF Send, history
  <2>3. KeyOf(c) \in Keys BY KeysOfCallers
  <2>4. /\ \A k \in Keys : k # KeyOf(c) => sent'[k] = sent[k]
        /\ sent'[KeyOf(c)] = [h \in Channels |-> IF h \in reached THEN sent[KeyOf(c)][h] + 1
                                                 ELSE sent[KeyOf(c)][h]]
    BY <1>1, <2>1, <2>3
  <2>5. [h \in Channels |-> IF h \in reached THEN sent[KeyOf(c)][h] + 1 ELSE sent[KeyOf(c)][h]]
          \in [Channels -> Nat]
    BY <1>1, <2>3
  <2>6. sent' \in [Keys -> [Channels -> Nat]] BY <1>1, <2>1, <2>3, <2>5
  <2>7. urls' \in [Callers -> SUBSET Channels] /\ lost' \in BOOLEAN BY <1>1, <2>1, <2>2
  <2>8. \A k \in Keys, h \in Channels :
          sent'[k][h] = sent[k][h] \/ (sent'[k][h] = sent[k][h] + 1 /\ k = KeyOf(c) /\ at[c] = "send")
    BY <2>2, <2>4
  <2>9. Over(c) # "send" BY OverTyped
  <2> QED BY <2>2, <2>6, <2>7, <2>8, <2>9, SpendStep DEF Calling
<1>5. CASE Lose(c)
  <2>1. /\ at[c] \in Calling /\ at' = [at EXCEPT ![c] = Over(c)] /\ urls' = [urls EXCEPT ![c] = {}]
        /\ lost' = TRUE
        /\ UNCHANGED <<status, claimed, events, sent, windows, counted, broken, edits>>
    BY <1>5 DEF Lose, history
  <2>2. urls' \in [Callers -> SUBSET Channels] BY <1>1, <2>1
  <2> QED BY <1>1, <2>1, <2>2, SpendStep, OverTyped
<1> QED BY <1>2, <1>3, <1>4, <1>5

-------------------------------------------------------------------------------

(* Channels are created and deleted: what was sent to them stays counted. *)
LEMMA EditStep ==
  ASSUME AlertsAssumption, AlertsInv, NEW h \in Channels, NEW chosen \in SUBSET Events, Edit(h, chosen)
  PROVE  AlertsInv'
<1>1. edits \in 0 .. MaxEdits /\ MaxEdits \in Nat BY DEF AlertsInv, TypeOK, AlertsAssumption
<1>2. /\ edits' = edits + 1 /\ edits < MaxEdits /\ events' = [events EXCEPT ![h] = chosen]
      /\ UNCHANGED <<status, at, claimed, urls, sent, windows, counted, broken, lost>>
  BY DEF Edit, history
<1>3. TypeOK' BY <1>1, <1>2 DEF AlertsInv, TypeOK
<1>4. Budgeted' BY <1>2 DEF AlertsInv, Budgeted, Holding
<1>5. OnceAsked' /\ Real' /\ Alarmed' BY <1>2 DEF AlertsInv, OnceAsked, Real, Alarmed, Enough
<1> QED BY <1>3, <1>4, <1>5 DEF AlertsInv

(* Every step keeps the invariant. *)
LEMMA AlertsNext == ASSUME AlertsAssumption, AlertsInv, [Next]_vars PROVE AlertsInv'
<1>1. CASE UNCHANGED vars
  <2>1. UNCHANGED <<status, at, claimed, events, urls, sent, windows, counted, broken, lost, edits>>
    BY <1>1 DEF vars
  <2>2. TypeOK' BY <2>1 DEF AlertsInv, TypeOK
  <2>3. Budgeted' BY <2>1 DEF AlertsInv, Budgeted, Holding
  <2>4. OnceAsked' /\ Real' /\ Alarmed' BY <2>1 DEF AlertsInv, OnceAsked, Real, Alarmed, Enough
  <2> QED BY <2>2, <2>3, <2>4 DEF AlertsInv
<1>2. ASSUME NEW j \in Jobs,
             Submit(j) \/ Retry(j)
               \/ \E outcome \in {"succeeded", "failed", "refused"} : Finalize(j, outcome)
      PROVE  AlertsInv'
  BY <1>2, JobsStep
<1>3. CASE \E i \in Items : Ask(i) BY <1>3, AskStep
<1>4. ASSUME NEW c \in Callers, CallStep(c) \/ Lose(c) PROVE AlertsInv'
  BY <1>4, CallsStep, JobsStep DEF CallStep
<1>5. ASSUME NEW k \in Keys, Expire(k) PROVE AlertsInv'
  <2>1. /\ claimed' = claimed \ {k}
        /\ UNCHANGED <<status, at, events, urls, sent, windows, counted, broken, lost, edits>>
    BY <1>5 DEF Expire, history
  <2>2. TypeOK' BY <2>1 DEF AlertsInv, TypeOK
  <2>3. Budgeted' BY <2>1 DEF AlertsInv, Budgeted, Holding
  <2>4. OnceAsked' /\ Real' /\ Alarmed' BY <2>1 DEF AlertsInv, OnceAsked, Real, Alarmed, Enough
  <2> QED BY <2>2, <2>3, <2>4 DEF AlertsInv
<1>6. ASSUME NEW h \in Channels, NEW asked \in SUBSET (Events \cup {"unknown"}),
             create_channel(h, asked) \/ ChannelForm(h, asked)
      PROVE  AlertsInv'
  BY <1>6, EditStep DEF create_channel, ChannelForm
<1>7. ASSUME NEW h \in Channels, delete_channel(h) \/ DeleteForm(h) PROVE AlertsInv'
  <2>1. Edit(h, {}) BY <1>7 DEF delete_channel, DeleteForm
  <2> QED BY <2>1, EditStep
<1>8. CASE Rest BY <1>1, <1>8 DEF Rest
<1> QED BY <1>1, <1>2, <1>3, <1>4, <1>5, <1>6, <1>7, <1>8 DEF Next

(* The invariant of the alerts holds for every number of jobs, items and     *)
(* channels, every window and smallest sample.                               *)
THEOREM AlertsInvariance == Spec => []AlertsInv
<1>1. Init => AlertsInv BY AlertsInit, AlertsAssumption
<1>2. AlertsInv /\ [Next]_vars => AlertsInv' BY AlertsNext, AlertsAssumption
<1> QED BY <1>1, <1>2, PTL DEF Spec

(* Every variable keeps its type. *)
THEOREM AlertsTyped == Spec => []TypeOK
<1>1. AlertsInv => TypeOK BY DEF AlertsInv
<1> QED BY <1>1, AlertsInvariance, PTL

(* A channel gets at most one message for each window of a key, and one    *)
(* for a work item (notify.py, SET NX EX).                                 *)
THEOREM NeverRepeated == Spec => []NoRepeat
<1>1. AlertsInv => NoRepeat
  <2>1. SUFFICES ASSUME AlertsInv, NEW k \in Keys, NEW h \in Channels
                 PROVE  sent[k][h] <= windows[k] /\ (k \in Items => sent[k][h] <= 1)
    BY DEF NoRepeat
  <2>2. sent[k][h] + Cardinality(Holding(k)) <= windows[k] BY <2>1 DEF AlertsInv, Budgeted
  <2>3. Cardinality(Holding(k)) \in Nat BY HoldingFinite, AlertsAssumption
  <2>4. sent[k][h] \in Nat /\ windows[k] \in Nat BY <2>1 DEF AlertsInv, TypeOK
  <2>5. k \in Items => windows[k] <= 1 BY <2>1, <2>4 DEF AlertsInv, OnceAsked
  <2> QED BY <2>2, <2>3, <2>4, <2>5
<1> QED BY <1>1, AlertsInvariance, PTL

(* No error-rate alert is raised on too few failures (notify.py,           *)
(* check_error_rate).                                                      *)
THEOREM AlwaysJustified == Spec => []AlarmJustified
<1>1. AlertsInv => AlarmJustified BY DEF AlertsInv, Alarmed, Enough, AlarmJustified
<1> QED BY <1>1, AlertsInvariance, PTL

-------------------------------------------------------------------------------

(* An entry that waits and that no worker stopped under has tries left. *)
Unexhausted ==
  \A d \in Deliveries : place[d] \in {"none", "ready"} /\ d \notin stopped => tries[d] < MaxTries

(* A payload whose delivery is about to be recorded has arrived; a           *)
(* recorded delivery is over.                                                *)
Arrived ==
  \A d \in Deliveries : /\ place[d] = "record" => carries[d] \in received
                        /\ d \in delivered => place[d] = "done"

(* Entry d will report the row as it is, or end with an event of its own. *)
Owes(d) ==
  \/ place[d] \in {"ready", "read", "abandon"}
  \/ place[d] \in {"post", "record", "failed"} /\ carries[d] = job

(* While the row stands ended, some entry owes it, or it arrived, or an      *)
(* entry gave up with an event.                                              *)
Owed ==
  job.ended =>
    \/ \E d \in Deliveries : Owes(d)
    \/ job \in received
    \/ abandoned \cup dropped # {}

(* The inductive invariant of the callbacks. *)
CallbackInv ==
  /\ CallbackTypeOK /\ Accounted /\ NoSilentDrop
  /\ Unexhausted /\ Arrived /\ Owed

(* At the beginning the job has not ended and no entry exists. *)
LEMMA CallbackStarts == ASSUME CallbackAssumption, CallbackInit PROVE CallbackInv
<1>1. CallbackTypeOK
  BY
     DEF CallbackAssumption, CallbackInit, CallbackTypeOK, JobRows,
         NoRow
<1>2. Accounted /\ NoSilentDrop
  BY DEF CallbackInit, Accounted, NoSilentDrop
<1>3. Unexhausted /\ Arrived BY DEF CallbackAssumption, CallbackInit, Unexhausted, Arrived
<1>4. Owed BY DEF CallbackInit, Owed, NoRow
<1> QED BY <1>1, <1>2, <1>3, <1>4 DEF CallbackInv

(* The row ends, or goes back to live. *)
LEMMA JobMoves ==
  ASSUME CallbackAssumption, CallbackInv,
         Requeue \/ \E d \in Deliveries : Finish(d)
  PROVE  CallbackInv'
<1>1. CASE Requeue
  <2>1. job' = [run |-> job.run + 1, ended |-> FALSE] /\ job.run < MaxRuns
    BY <1>1 DEF Requeue
  <2>2. UNCHANGED <<place, tries, carries, received, delivered, abandoned, dropped, stopped>>
    BY <1>1 DEF Requeue
  <2>3. job' \in JobRows /\ ~job'.ended
    BY <2>1 DEF CallbackInv, CallbackTypeOK, JobRows, CallbackAssumption
  <2> QED
    BY <2>2, <2>3
    DEF CallbackInv, CallbackTypeOK, Accounted, NoSilentDrop, Unexhausted,
        Arrived, Owed
<1>2. ASSUME NEW d \in Deliveries, Finish(d) PROVE CallbackInv'
  <2>1. /\ place[d] = "none" /\ place' = [place EXCEPT ![d] = "ready"]
        /\ job' = [job EXCEPT !.ended = TRUE]
        /\ UNCHANGED <<tries, carries, received, delivered, abandoned, dropped, stopped>>
    BY <1>2 DEF Finish, Goto
  <2>2. job' \in JobRows BY <2>1 DEF CallbackInv, CallbackTypeOK, JobRows
  <2>3. place' \in [Deliveries -> Active \cup {"none", "ready", "done"}]
    BY <2>1 DEF CallbackInv, CallbackTypeOK
  <2>4. place'[d] = "ready" /\ \A e \in Deliveries : e # d => place'[e] = place[e]
    BY <2>1 DEF CallbackInv, CallbackTypeOK
  <2>5. CallbackTypeOK' BY <2>1, <2>2, <2>3 DEF CallbackInv, CallbackTypeOK
  <2>6. Accounted' /\ NoSilentDrop'
    BY <2>1, <2>4 DEF CallbackInv, Accounted, NoSilentDrop
  <2>7. Unexhausted' /\ Arrived' BY <2>1, <2>4 DEF CallbackInv, Unexhausted, Arrived
  <2>8. Owed' BY <2>4 DEF Owed, Owes
  <2> QED BY <2>5, <2>6, <2>7, <2>8 DEF CallbackInv
<1> QED BY <1>1, <1>2

(* A step of an entry, or a worker stopping under it. *)
LEMMA EntryInv ==
  ASSUME CallbackAssumption, CallbackInv, NEW d \in Deliveries,
         EntryStep(d) \/ Stop(d)
  PROVE  CallbackInv'
<1>1. /\ job \in JobRows
      /\ place \in [Deliveries -> Active \cup {"none", "ready", "done"}]
      /\ tries \in [Deliveries -> 0 .. ArqMaxTries]
      /\ carries \in [Deliveries -> JobRows]
      /\ received \subseteq JobRows
      /\ MaxTries \in Nat /\ ArqMaxTries \in Nat /\ MaxTries <= ArqMaxTries
  BY DEF CallbackInv, CallbackTypeOK, CallbackAssumption
<1>2. UNCHANGED job /\ received \subseteq received' /\ abandoned \subseteq abandoned'
      /\ dropped \subseteq dropped'
  BY
     DEF EntryStep, Deliver, DropExhausted, ReadRow,
         Rejected, Post, Record, Backoff, GiveUp,
         Abandon, Stop
<1>3. \A e \in Deliveries : e # d => /\ place'[e] = place[e]
                                     /\ tries'[e] = tries[e]
                                     /\ carries'[e] = carries[e]
                                     /\ e \in delivered' <=> e \in delivered
                                     /\ e \in dropped' <=> e \in dropped
                                     /\ e \in stopped' <=> e \in stopped
                                     /\ e \in abandoned' <=> e \in abandoned
  BY <1>1
  DEF EntryStep, Deliver, DropExhausted, ReadRow,
      Rejected, Post, Record, Backoff, GiveUp,
      Abandon, Stop, Goto
<1>4. CallbackTypeOK'
  <2>1. CASE Deliver(d)
    BY <1>1, <2>1
       DEF Deliver, MayTry, Goto, CallbackInv, CallbackTypeOK,
           Active
  <2>2. CASE DropExhausted(d)
    BY <1>1, <2>2 DEF DropExhausted, Goto, CallbackInv, CallbackTypeOK
  <2>3. CASE ReadRow(d)
    BY <1>1, <2>3 DEF ReadRow, Goto, CallbackInv, CallbackTypeOK, Active
  <2>4. CASE Rejected(d)
    BY <1>1, <2>4
       DEF Rejected, Goto, CallbackInv, CallbackTypeOK, Active
  <2>5. CASE Post(d)
    BY <1>1, <2>5 DEF Post, Goto, CallbackInv, CallbackTypeOK, Active
  <2>6. CASE Record(d)
    BY <1>1, <2>6 DEF Record, Goto, CallbackInv, CallbackTypeOK
  <2>7. CASE Backoff(d)
    BY <1>1, <2>7 DEF Backoff, Goto, CallbackInv, CallbackTypeOK
  <2>8. CASE GiveUp(d)
    BY <1>1, <2>8 DEF GiveUp, Goto, CallbackInv, CallbackTypeOK, Active
  <2>9. CASE Abandon(d)
    BY <1>1, <2>9 DEF Abandon, Goto, CallbackInv, CallbackTypeOK
  <2>10. CASE Stop(d) BY <1>1, <2>10 DEF Stop, CallbackInv, CallbackTypeOK
  <2> QED
    BY <2>1, <2>2, <2>3, <2>4, <2>5, <2>6, <2>7, <2>8, <2>9, <2>10 DEF EntryStep
<1>5. /\ place'[d] = "done" => d \in delivered' \cup abandoned' \cup dropped'
      /\ d \in delivered' => carries'[d] \in received' /\ place'[d] = "done"
      /\ d \in dropped' => d \in stopped'
      /\ place'[d] \in {"none", "ready"} /\ d \notin stopped' => tries'[d] < MaxTries
      /\ place'[d] = "record" => carries'[d] \in received'
      /\ Owes(d) => Owes(d)' \/ job \in received' \/ abandoned' \cup dropped' # {}
  <2> USE <1>1 DEF Goto, Owes
  <2>0. /\ d \in delivered => place[d] = "done" /\ carries[d] \in received
        /\ d \in dropped => d \in stopped
        /\ place[d] \in {"none", "ready"} /\ d \notin stopped => tries[d] < MaxTries
        /\ place[d] = "record" => carries[d] \in received
        /\ place[d] = "done" => d \in delivered \cup abandoned \cup dropped
    BY DEF CallbackInv, Accounted, NoSilentDrop, Unexhausted, Arrived
  <2>1. CASE Deliver(d) BY <2>0, <2>1 DEF Deliver, MayTry
  <2>2. CASE DropExhausted(d) BY <2>0, <2>2 DEF DropExhausted, MayTry
  <2>3. CASE ReadRow(d) BY <2>0, <2>3 DEF ReadRow
  <2>4. CASE Rejected(d) BY <2>0, <2>4 DEF Rejected
  <2>5. CASE Post(d) BY <2>0, <2>5 DEF Post
  <2>6. CASE Record(d) BY <2>0, <2>6 DEF Record
  <2>7. CASE Backoff(d) BY <2>0, <2>7 DEF Backoff
  <2>8. CASE GiveUp(d) BY <2>0, <2>8 DEF GiveUp
  <2>9. CASE Abandon(d) BY <2>0, <2>9 DEF Abandon
  <2>10. CASE Stop(d) BY <2>0, <2>10 DEF Stop, Active
  <2> QED
    BY <2>1, <2>2, <2>3, <2>4, <2>5, <2>6, <2>7, <2>8, <2>9, <2>10 DEF EntryStep
<1>6. Accounted' /\ NoSilentDrop'
  <2>1. dropped' \subseteq Deliveries BY <1>4 DEF CallbackTypeOK
  <2> QED BY <1>2, <1>3, <1>5, <2>1 DEF CallbackInv, Accounted, NoSilentDrop
<1>7. Unexhausted' /\ Arrived' BY <1>2, <1>3, <1>5 DEF CallbackInv, Unexhausted, Arrived
<1>8. Owed'
  <2>1. SUFFICES ASSUME job.ended, ~(job \in received), abandoned \cup dropped = {}
                 PROVE  \/ \E e \in Deliveries : Owes(e)'
                        \/ job \in received' \/ abandoned' \cup dropped' # {}
    BY <1>2 DEF Owed
  <2>2. PICK e \in Deliveries : Owes(e) BY <2>1 DEF CallbackInv, Owed
  <2>3. CASE e = d BY <1>5, <2>2, <2>3
  <2>4. CASE e # d
    <3>1. Owes(e)' BY <1>2, <1>3, <2>2, <2>4 DEF Owes
    <3> QED BY <3>1
  <2> QED BY <2>3, <2>4
<1> QED BY <1>4, <1>6, <1>7, <1>8 DEF CallbackInv

(* Every step keeps the invariant. *)
LEMMA CallbackKeeps ==
  ASSUME CallbackAssumption, CallbackInv, [CallbackNext]_callbackVars
  PROVE  CallbackInv'
<1>1. CASE UNCHANGED callbackVars
  BY <1>1
  DEF callbackVars, CallbackInv, CallbackTypeOK, Accounted, NoSilentDrop,
      Unexhausted, Arrived, Owed, Owes
<1>2. CASE Requeue BY <1>2, JobMoves
<1>3. CASE \E d \in Deliveries : Finish(d) BY <1>3, JobMoves
<1>4. CASE \E d \in Deliveries : EntryStep(d) \/ Stop(d) BY <1>4, EntryInv
<1> QED BY <1>1, <1>2, <1>3, <1>4 DEF CallbackNext, CallbackRest

(* The invariant of the callbacks holds for every number of deliveries,      *)
(* runs and tries.                                                           *)
THEOREM CallbackInvariance == CallbackSpec => []CallbackInv
<1>1. CallbackInit => CallbackInv BY CallbackStarts, CallbackAssumption
<1>2. CallbackInv /\ [CallbackNext]_callbackVars => CallbackInv'
  BY CallbackKeeps, CallbackAssumption
<1> QED BY <1>1, <1>2, PTL DEF CallbackSpec

(* Every variable keeps its type. *)
THEOREM CallbackTyped == CallbackSpec => []CallbackTypeOK
<1>1. CallbackInv => CallbackTypeOK BY DEF CallbackInv
<1> QED BY <1>1, CallbackInvariance, PTL

(* An entry that is over left a trace (worker.py, deliver_callback). *)
THEOREM AlwaysAccounted == CallbackSpec => []Accounted
<1>1. CallbackInv => Accounted BY DEF CallbackInv
<1> QED BY <1>1, CallbackInvariance, PTL

(* arq drops no delivery at its own limit, but those that workers stopped  *)
(* under (WorkerSettings.max_tries).                                       *)
THEOREM NeverDroppedSilently == CallbackSpec => []NoSilentDrop
<1>1. CallbackInv => NoSilentDrop BY DEF CallbackInv
<1> QED BY <1>1, CallbackInvariance, PTL

(* When nothing is in flight the newest result was received, or given up   *)
(* with an event: whatever retries of the job and stops came in between.   *)
THEOREM NewestAlwaysReported == CallbackSpec => []NewestReported
<1>1. CallbackInv => NewestReported BY DEF CallbackInv, Owed, Owes, NewestReported
<1> QED BY <1>1, CallbackInvariance, PTL
===============================================================================
