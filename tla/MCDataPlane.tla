---------------------------- MODULE MCDataPlane ----------------------------
(***************************************************************************)
(* Small instances of what carries the requests of an engine: the put and  *)
(* get service of the daemon, its arena, the C interface, and the          *)
(* operations over each transport with their codecs. They share no state;  *)
(* part is the one that runs in a behaviour, the others stay where they    *)
(* begin.                                                                  *)
(***************************************************************************)
EXTENDS KvService, Arena, CabiHandle, WireOps

CONSTANTS e1, e2, L1, L2, s1, s2, b1, b2

VARIABLE part

-----------------------------------------------------------------------------
\* The service: large values on request threads, small ones asynchronously.
MCModes == {[async |-> FALSE, remote |-> FALSE, values |-> {L1, L2}],
            [async |-> TRUE, remote |-> FALSE, values |-> {s1, s2}]}

\* The arena takes values of two and three units.
MCSizeOf == [small |-> 1, big |-> 2, bigger |-> 3]

\* The C interface: a chain of two blocks, with and without a remote.
MCChains == {<<b1, b2>>}
MCSettings == {{}, {"prefix", "tcp"}}

\* The wire: values that fit a frame, that are chunked, that go to the arena.
Value(id, n) == [i \in 1..n |-> id]
MCSetups == {[arena |-> FALSE, transports |-> {"shm", "tcp", "http"}, values |-> {Value(1, 1), Value(2, 8)}],
             [arena |-> FALSE, transports |-> {"shm"}, values |-> {Value(1, 1), Value(2, 10)}],
             [arena |-> TRUE, transports |-> {"shm"}, values |-> {Value(1, 8), Value(2, 10)}]}
MCSetupsArena == {[arena |-> TRUE, transports |-> {"shm", "tcp"}, values |-> {Value(2, 8)}]}
MCWireSpaces == {<<7>>}
MCWireKeys == {<<1>>, <<2>>}

\* Batches of none, empty, short and long items.
MCCodecItems == {<<>>, << <<>> >>, << <<1>>, <<>> >>, << <<1, 2>> >>, << <<2>>, <<0, 1, 3>> >>,
                 << <<>>, <<1>>, <<0>> >>}

-----------------------------------------------------------------------------
MCInit ==
    /\ part \in {"service", "arena", "cabi", "wire", "codec"}
    /\ KvInit /\ ArenaInit /\ CabiInit /\ WireInit /\ CodecInit
    /\ part # "service" => ~mode.async
    /\ part # "cabi" => settings = {}
    /\ part # "wire" => setup = CHOOSE x \in Setups : TRUE
    /\ part # "codec" => format = "keys" /\ original = <<>>

MCNext ==
    \/ /\ part = "service" /\ KvNext
       /\ UNCHANGED <<part, arenaVars, cabiVars, wireVars, codecVars>>
    \/ /\ part = "arena" /\ ArenaNext
       /\ UNCHANGED <<part, kvVars, cabiVars, wireVars, codecVars>>
    \/ /\ part = "cabi" /\ CabiNext
       /\ UNCHANGED <<part, kvVars, arenaVars, wireVars, codecVars>>
    \/ /\ part = "wire" /\ WireNext
       /\ UNCHANGED <<part, kvVars, arenaVars, cabiVars, codecVars>>
    \/ /\ part = "codec" /\ CodecNext
       /\ UNCHANGED <<part, kvVars, arenaVars, cabiVars, wireVars>>

MCSpec == MCInit /\ [][MCNext]_<<part, kvVars, arenaVars, cabiVars, wireVars, codecVars>>

=============================================================================
