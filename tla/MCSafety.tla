------------------------------ MODULE MCSafety ------------------------------
(***************************************************************************)
(* The output of a pane and the Provider's recovery for TLC, side by side  *)
(* in one run: "subject" says from the initial state on which of the two   *)
(* takes steps.  The goroutines that handle the requests of the Provider   *)
(* are interchangeable, and so are the attachments of the pane.            *)
(***************************************************************************)
EXTENDS PaneOutput, WorkspaceRecovery, TLC

VARIABLE subject

BothInit ==
    /\ Init /\ RecoveryInit
    /\ subject = "recovery" \/ (subject = "pane" /\ epoch = 0)

BothNext ==
    /\ UNCHANGED subject
    /\ \/ subject = "pane" /\ Next /\ UNCHANGED recoveryVars
       \/ subject = "recovery" /\ RecoveryNext /\ UNCHANGED vars

BothSpec == BothInit /\ [][BothNext]_<<vars, recoveryVars, subject>>

Symmetry == Permutations(Clients) \cup Permutations(Requests)
=============================================================================
