---------------------------- MODULE MCWorkerPool ----------------------------
(* Two workers, two clients, three tasks, one spurious wake-up.            *)
EXTENDS WorkerPool, TLC

CONSTANTS w1, w2, c1, c2, t1, t2, t3

MCWorker == {w1, w2}
MCClient == {c1, c2}
MCTask   == {t1, t2, t3}
=============================================================================
