---------------------------- MODULE MCTransport ----------------------------
(***************************************************************************)
(* Small instances of the three transports: a shared-memory session, the   *)
(* dispatch pool of the TCP transport and an HTTP connection. They share   *)
(* no state; part is the one that runs in a behaviour, the others stay     *)
(* where they begin.                                                       *)
(***************************************************************************)
EXTENDS ShmSession, DispatchPool, HttpConnection

VARIABLE part

MCConnOf == [t \in Callers |-> IF t = "t3" THEN "c2" ELSE "c1"]

RequestKind(route, length, body, decodes, keepAlive) ==
    [route |-> route, length |-> length, body |-> body, decodes |-> decodes, keepAlive |-> keepAlive]
MCKinds ==
    {RequestKind("rpc", "ok", TRUE, decodes, TRUE) : decodes \in BOOLEAN}
    \cup {RequestKind("rpc", "ok", TRUE, TRUE, FALSE),
          RequestKind("rpc", "none", FALSE, TRUE, TRUE),
          RequestKind("rpc", "huge", TRUE, TRUE, TRUE),
          RequestKind("ping", "none", FALSE, TRUE, TRUE),
          RequestKind("other", "none", FALSE, TRUE, TRUE),
          RequestKind("other", "ok", TRUE, TRUE, TRUE)}

MCInit ==
    /\ part \in {"shm", "pool", "http"}
    /\ ShmInit /\ PoolInit /\ HttpInit

MCNext ==
    \/ part = "shm" /\ ShmNext /\ UNCHANGED <<part, poolVars, httpVars>>
    \/ part = "pool" /\ PoolNext /\ UNCHANGED <<part, shmVars, httpVars>>
    \/ part = "http" /\ HttpNext /\ UNCHANGED <<part, shmVars, poolVars>>

\* The fairness of the part that runs. Those that rest have no step of theirs
\* to take but the shared-memory session's clock and daemon.
MCFairness ==
    /\ WF_shmVars(part = "shm" /\ DaemonStep) /\ WF_shmVars(part = "shm" /\ Tick)
    /\ \A h \in Handles : WF_shmVars(part = "shm" /\ ClientStep(h))
    /\ PoolFairness /\ HttpFairness

MCSpec == MCInit /\ [][MCNext]_<<part, shmVars, poolVars, httpVars>> /\ MCFairness

=============================================================================
