--------------------------- MODULE MCHumanApproval ---------------------------
(* Small instances of HumanApproval for TLC. *)
EXTENDS HumanApproval, TLC

CONSTANTS r1, r2, r3, t1, m1

MCReqs  == {r1, r2, r3}
MCTabs  == {t1}
MCEdits == {m1}
=============================================================================
