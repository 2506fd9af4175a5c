----------------------------- MODULE MCWorkerJobs -----------------------------
(* Instances checked by WorkerJobs.cfg, where workers are interchangeable, and *)
(* by WorkerBots.cfg.                                                          *)
EXTENDS WorkerJobs

SameWorkers == Permutations(Workers)
=============================================================================
