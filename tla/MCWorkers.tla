----------------------------- MODULE MCWorkers -----------------------------
(***************************************************************************)
(* Small instances of BackgroundWorkers: three blocks, of which two are    *)
(* hot, in an index with distinct stamps and in one whose stamps tie, with *)
(* both workers on or one of them off.                                     *)
(***************************************************************************)
EXTENDS BackgroundWorkers

Entry(stamp, seq, digest) == [stamp |-> stamp, seq |-> seq, digest |-> digest, bytes |-> 1]
MCHome == [h \in WkBlocks |-> "n"]
MCHomeOther == [h \in WkBlocks |-> IF h = 1 THEN "other" ELSE "n"]
MCIndexes == {<<Entry(0, 0, "zero"), Entry(1, 1, "m"), Entry(3, 2, "zero")>>,
              <<Entry(0, 1, "zero"), Entry(0, 0, "m"), Entry(0, 2, "m")>>}
MCEnv(interval, dry, budget, fingerprint) ==
    [interval |-> interval, dry |-> dry, budget |-> budget, fingerprint |-> fingerprint]
MCEnvs == {MCEnv("unset", FALSE, 2, "m"), MCEnv("n", FALSE, 0, "malformed"),
           MCEnv("n", TRUE, 0, "m"), MCEnv("0", FALSE, 2, "unset")}

MCSpec == WorkersInit /\ [][WorkersNext]_workerVars /\ WorkersFairness

=============================================================================
