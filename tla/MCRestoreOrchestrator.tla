------------------------ MODULE MCRestoreOrchestrator ------------------------
(* Instantiation of RestoreOrchestrator for TLC: three restore ids.       *)
EXTENDS RestoreOrchestrator

CONSTANTS r1, r2, r3

MCRestoreIds == {r1, r2, r3}
MCTwoIds == {r1, r2}
====
