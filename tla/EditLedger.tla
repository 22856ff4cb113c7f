----------------------------- MODULE EditLedger ------------------------------
(***************************************************************************)
(* What the write-behind buffer promises the user, whatever the order of   *)
(* timers, requests, failures and retries: an edit stays unsaved, with the *)
(* value typed last, until exactly that value is acknowledged, or the user *)
(* cancels it or gives it up.  A refused request changes nothing.          *)
(*                                                                         *)
(* The state alone does not say why an edit left it.  TaskPatches says     *)
(* which of its steps may be which of these (EachStepInTheLedger).         *)
(***************************************************************************)
CONSTANTS Task, Field, Value, Absent, Nothing

Edits == [Field -> Value \cup {Absent}]
NoEdits == [f \in Field |-> Absent]

VARIABLES
  unsaved,  \* the latest value typed and not yet acknowledged, per field
  sent      \* the snapshot of `unsaved' a request carries, or Nothing

vars == <<unsaved, sent>>

Onto(values, edits) == [f \in Field |-> IF edits[f] # Absent THEN edits[f] ELSE values[f]]

Init ==
  /\ unsaved = [t \in Task |-> NoEdits]
  /\ sent = [t \in Task |-> Nothing]

Edit(t, edits) ==
  /\ unsaved' = [unsaved EXCEPT ![t] = Onto(@, edits)]
  /\ UNCHANGED sent

Cancel(t, fields) ==
  /\ unsaved' = [unsaved EXCEPT ![t] = [f \in Field |-> IF f \in fields THEN Absent ELSE @[f]]]
  /\ UNCHANGED sent

\* Requests leave for idle tasks, each with all the task's unsaved edits.
Send(tasks) ==
  /\ \A t \in tasks : sent[t] = Nothing
  /\ sent' = [t \in Task |-> IF t \in tasks THEN unsaved[t] ELSE sent[t]]
  /\ UNCHANGED unsaved

\* An edit leaves the ledger only with the value that was sent and stored.
Acknowledge(t) ==
  /\ sent[t] # Nothing
  /\ sent' = [sent EXCEPT ![t] = Nothing]
  /\ \E settled \in SUBSET {f \in Field : unsaved[t][f] = sent[t][f]} :
       unsaved' = [unsaved EXCEPT ![t] = [f \in Field |-> IF f \in settled THEN Absent ELSE @[f]]]

\* A refused or lost request leaves every edit unsaved.
Refuse(t) ==
  /\ sent[t] # Nothing
  /\ sent' = [sent EXCEPT ![t] = Nothing]
  /\ UNCHANGED unsaved

\* The user gives up edits no request carries.
Discard(tasks) ==
  /\ \A t \in tasks : sent[t] = Nothing
  /\ unsaved' = [t \in Task |-> IF t \in tasks THEN NoEdits ELSE unsaved[t]]
  /\ UNCHANGED sent

\* The page goes away with everything unsaved.
Close ==
  /\ unsaved' = [t \in Task |-> NoEdits]
  /\ UNCHANGED sent

Next ==
  \/ \E t \in Task : \/ \E edits \in Edits : Edit(t, edits)
                     \/ \E fields \in SUBSET Field : Cancel(t, fields)
                     \/ Acknowledge(t)
                     \/ Refuse(t)
  \/ \E tasks \in SUBSET Task : Send(tasks) \/ Discard(tasks)
  \/ Close

Spec == Init /\ [][Next]_vars
=============================================================================
