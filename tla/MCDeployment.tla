----------------------------- MODULE MCDeployment -----------------------------
(* Instances of Deployment for TLC.                                        *)
EXTENDS Deployment

CONSTANTS a1, s1, w1

OneAsync == {a1}
OneSync == {s1}
NoSync == {}
OneWorker == {w1}
=============================================================================
