-------------------------- MODULE MCWebhookRequests --------------------------
(* Instances of WebhookRequests for TLC.                                   *)
EXTENDS WebhookRequests, TLC

CONSTANTS a1, s1, w1, w2

OneAsync == {a1}
OneSync  == {s1}
NoSync   == {}
NoAsync  == {}
OneWorker == {w1}
TwoWorkers == {w1, w2}

WorkerSymmetry == Permutations({w1, w2})
=============================================================================
