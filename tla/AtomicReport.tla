---------------------------- MODULE AtomicReport ----------------------------
(***************************************************************************)
(* What `write_private` (src/src/report.rs) promises to everybody who      *)
(* reads a report path: the path holds the previous report or one complete *)
(* new report, it changes in a single step, a call that returned an error  *)
(* never changes it, and a power loss takes it back to a report that was   *)
(* there before.  PrivateWrite is shown to implement this module.          *)
(***************************************************************************)
CONSTANTS Writers,   \* calls of write_private, one report each
          Old,       \* the report that was there before all of them
          None       \* no report at the path

VARIABLES report,    \* what a reader of the path gets now
          stable,    \* what a reader would get after a power loss
          status     \* how far each call is

vars == <<report, stable, status>>

Init ==
  /\ report \in {None, Old}
  /\ stable = report
  /\ status = [p \in Writers |-> "idle"]

Begin(p) ==
  /\ status[p] = "idle"
  /\ status' = [status EXCEPT ![p] = "busy"]
  /\ UNCHANGED <<report, stable>>

Commit(p) ==
  /\ status[p] = "busy"
  /\ report' = p
  /\ status' = [status EXCEPT ![p] = "done"]
  /\ UNCHANGED stable

Abort(p) ==
  /\ status[p] \in {"idle", "busy"}
  /\ status' = [status EXCEPT ![p] = "failed"]
  /\ UNCHANGED <<report, stable>>

Die(p) ==
  /\ status[p] = "busy"
  /\ status' = [status EXCEPT ![p] = "dead"]
  /\ UNCHANGED <<report, stable>>

Settle ==
  /\ stable' = report
  /\ UNCHANGED <<report, status>>

Outage ==
  /\ report' = stable
  /\ status' = [p \in Writers |-> IF status[p] = "busy" THEN "dead" ELSE status[p]]
  /\ UNCHANGED stable

Next ==
  \/ \E p \in Writers : Begin(p) \/ Commit(p) \/ Abort(p) \/ Die(p)
  \/ Settle
  \/ Outage

Spec == Init /\ [][Next]_vars

=============================================================================
