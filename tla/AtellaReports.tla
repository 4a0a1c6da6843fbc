----------------------------- MODULE AtellaReports -----------------------------
(***************************************************************************)
(* What the report mechanism promises, whatever happens to the daemon: a   *)
(* report that has been accepted stays pending until it has been handed to *)
(* its channel at least once, and only a pending report is handed over.    *)
(***************************************************************************)
EXTENDS Naturals

CONSTANTS
  Reports,      \* the reports that may be made
  Deliverable   \* those addressed to a channel that is configured

VARIABLES
  status,       \* "new", "pending" or "done" for each report
  delivered     \* how often it was handed over: 0, 1, or 2 for more

rvars == <<status, delivered>>

More(n) == IF n = 0 THEN 1 ELSE 2

Init ==
  /\ status = [r \in Reports |-> "new"]
  /\ delivered = [r \in Reports |-> 0]

Accept(r) ==
  /\ status[r] = "new"
  /\ status' = [status EXCEPT ![r] = "pending"]
  /\ UNCHANGED delivered

Deliver(r) ==
  /\ status[r] = "pending"
  /\ delivered' = [delivered EXCEPT ![r] = More(@)]
  /\ UNCHANGED status

Drop(r) ==
  /\ status[r] = "pending"
  /\ r \in Deliverable => delivered[r] > 0
  /\ status' = [status EXCEPT ![r] = "done"]
  /\ UNCHANGED delivered

Next == \E r \in Reports : Accept(r) \/ Deliver(r) \/ Drop(r)

Spec == Init /\ [][Next]_rvars

=============================================================================
