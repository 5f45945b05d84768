-------------------------- MODULE BlockNodeProofs --------------------------
(***************************************************************************)
(* BlockNode, for every set of blocks, chains and threads, every budget    *)
(* and every choice of modes and faults: its types; that every index entry *)
(* has its object; and, without eviction, that what a lookup matched is    *)
(* served. IndexBacked on its own is not inductive: a put that has stored  *)
(* its objects is going to index them, so they have to be held as well.    *)
(*                                                                         *)
(* Then what a daemon takes out of its index and what it keeps. Eviction   *)
(* takes the least recent entry: the cycle works from a snapshot that may  *)
(* be stale, and the invariant is that an entry it may still take is never *)
(* younger than one that changed since. The index names published blocks   *)
(* only, whatever the faults. And what a daemon acknowledged is matched    *)
(* across crashes (without eviction, and as long as SlateDB opens and      *)
(* writes).                                                                *)
(***************************************************************************)
EXTENDS BlockNode, TLAPS

\* A leaf that names no prover is left to Zenon.
USE ZenonT(30)

\* The part of TypeOK that is about the request threads.
ThreadsOK ==
    /\ pc \in [Threads -> {"idle", "put", "l0", "l1", "get", "dead"}]
    /\ chain \in [Threads -> Seq(Blocks)]
    /\ at \in [Threads -> Nat]
    /\ \A t \in Threads :
        /\ at[t] <= Len(chain[t])
        /\ at[t] > 0 <=> pc[t] \in {"l0", "l1", "dead"}
        /\ chain[t] = <<>> <=> pc[t] = "idle"
    /\ stage \in [Threads -> [Blocks -> Stages]]
    /\ matched \in [Threads -> BOOLEAN]

\* The rest of TypeOK.
RestOK ==
    /\ s3 \subseteq Blocks /\ flat \subseteq Blocks /\ foyer \subseteq Blocks
    /\ l0 \in [Blocks -> Meta] /\ l1 \in [Blocks -> Meta]
    /\ l1open \in BOOLEAN /\ mode \in Modes
    /\ clock \in Nat /\ restarts \in Nat
    /\ ev \in Eviction
    /\ acked \subseteq Blocks /\ published \subseteq Blocks /\ undercut \subseteq Blocks

\* The two halves make up TypeOK.
LEMMA TypeSplit == TypeOK <=> ThreadsOK /\ RestOK
  BY DEF TypeOK, ThreadsOK, RestOK

\* The blocks of a list of blocks are blocks.
LEMMA NamesAreBlocks == \A c \in Seq(Blocks) : Names(c) \subseteq Blocks
  BY SMTT(30) DEF Names

\* Dropping entries leaves an index an index.
LEMMA WithoutType == \A idx \in [Blocks -> Meta] : \A S : Without(idx, S) \in [Blocks -> Meta]
  BY DEF Without, Meta, NoMeta

\* The worker's idle state has its type.
LEMMA EvIdleType == EvIdle \in Eviction
  BY DEF EvIdle, Eviction, Meta, NoMeta

\* Starting a request keeps the types of the thread state.
LEMMA FanoutType ==
  ASSUME ThreadsOK, NEW t \in Threads, NEW c \in Seq(Blocks) \ {<<>>},
         NEW p \in {"put", "get"}, pc[t] = "idle", Fanout(t, c, p), UNCHANGED at,
         matched' \in [Threads -> BOOLEAN]
  PROVE  ThreadsOK'
  <1>1. pc' \in [Threads -> {"idle", "put", "l0", "l1", "get", "dead"}]
        /\ chain' \in [Threads -> Seq(Blocks)]
    BY DEF ThreadsOK, Fanout
  <1>2. stage' \in [Threads -> [Blocks -> Stages]]
    BY DEF ThreadsOK, Fanout, Stages, PutStages, GetStages
  <1>3. ASSUME NEW u \in Threads
        PROVE  /\ at'[u] <= Len(chain'[u])
               /\ at'[u] > 0 <=> pc'[u] \in {"l0", "l1", "dead"}
               /\ chain'[u] = <<>> <=> pc'[u] = "idle"
    <2>1. CASE u = t
      <3>1. at'[u] = 0 /\ chain'[u] = c /\ pc'[u] = p
        BY <2>1, SMTT(30) DEF ThreadsOK, Fanout
      <3>2. Len(c) \in Nat
        BY SMTT(30)
      <3> QED BY <3>1, <3>2, SMTT(30)
    <2>2. CASE u # t
      BY <2>2 DEF ThreadsOK, Fanout
    <2> QED BY <2>1, <2>2
  <1> QED BY <1>1, <1>2, <1>3 DEF ThreadsOK

\* Answering a request keeps the types of the thread state.
LEMMA ReplyType ==
  ASSUME ThreadsOK, NEW t \in Threads, Reply(t)
  PROVE  ThreadsOK'
  BY SMTT(30) DEF ThreadsOK, Reply, Stages, PutStages, GetStages

\* So does a subthread that reaches its next stage.
LEMMA MoveStageType ==
  ASSUME ThreadsOK, NEW t \in Threads, NEW h \in Blocks, NEW from, NEW to \in Stages,
         MoveStage(t, h, from, to), UNCHANGED <<pc, chain, at, matched>>
  PROVE  ThreadsOK'
  BY DEF ThreadsOK, MoveStage

\* So does the step to the next block of the index loop, or the final reply.
LEMMA NextBlockType ==
  ASSUME ThreadsOK, acked \subseteq Blocks, NEW t \in Threads, NEW idx,
         pc[t] \in {"l0", "l1"}, NextBlock(t, idx)
  PROVE  ThreadsOK' /\ acked' \subseteq Blocks
  <1>1. CASE at[t] < Len(chain[t])
    <2>1. /\ at' = [at EXCEPT ![t] = @ + 1]
          /\ pc' = [pc EXCEPT ![t] = "l0"]
          /\ UNCHANGED <<chain, stage, matched, acked>>
      BY <1>1, SMTT(30) DEF ThreadsOK, NextBlock
    <2>2. at[t] \in Nat /\ Len(chain[t]) \in Nat
      BY SMTT(30) DEF ThreadsOK
    <2> QED BY <1>1, <2>1, <2>2, SMTT(30) DEF ThreadsOK
  <1>2. CASE at[t] >= Len(chain[t])
    <2>1. Reply(t) /\ acked' = acked \cup {h \in Names(chain[t]) : Present(idx[h])}
      BY <1>2, SMTT(30) DEF NextBlock, ThreadsOK
    <2>2. ThreadsOK'
      BY <2>1, ReplyType
    <2>3. Names(chain[t]) \subseteq Blocks
      BY NamesAreBlocks DEF ThreadsOK
    <2> QED BY <2>1, <2>2, <2>3
  <1> QED BY <1>1, <1>2, SMTT(30) DEF ThreadsOK

\* The initial state has its types.
LEMMA InitType == Init => TypeOK
  BY BlocksAssumption, EvIdleType, SMTT(30)
  DEF Init, TypeOK, Meta, NoMeta, Stages, PutStages, GetStages

\* Every step of a put keeps the types.
LEMMA PutType ==
  ASSUME TypeOK, NEW t \in Writers,
         (\E c \in Chains : PutBlocks(t, c)) \/ Put(t)
  PROVE  TypeOK'
  <1> t \in Threads BY DEF Threads
  <1> ThreadsOK /\ RestOK BY TypeSplit
  <1> USE DEF storeVars, indexVars, procVars, threadVars, historyVars
  <1>1. ASSUME NEW c \in Chains, PutBlocks(t, c) PROVE TypeOK'
    <2>1. ThreadsOK'
      <3>1. c \in Seq(Blocks) \ {<<>>} BY BlocksAssumption
      <3>2. pc[t] = "idle" /\ Fanout(t, c, "put") /\ UNCHANGED <<at, matched>>
        BY <1>1 DEF PutBlocks
      <3>3. matched' \in [Threads -> BOOLEAN] BY <3>2 DEF ThreadsOK
      <3> QED BY <3>1, <3>2, <3>3, FanoutType
    <2>2. RestOK' BY <1>1 DEF PutBlocks, RestOK
    <2> QED BY <2>1, <2>2 DEF TypeOK, ThreadsOK, RestOK
  <1>2. ASSUME NEW h \in Blocks, PutCaches(t, h) PROVE TypeOK'
    <2>1. ThreadsOK' BY <1>2, MoveStageType DEF PutCaches, Stages, PutStages
    <2>2. RestOK' BY <1>2 DEF PutCaches, FlatPut, RestOK
    <2> QED BY <2>1, <2>2 DEF TypeOK, ThreadsOK, RestOK
  <1>3. ASSUME NEW h \in Blocks, PutObject(t, h) PROVE TypeOK'
    <2>1. ThreadsOK' BY <1>3, MoveStageType DEF PutObject, Stages, PutStages
    <2>2. RestOK' BY <1>3 DEF PutObject, RestOK
    <2> QED BY <2>1, <2>2 DEF TypeOK, ThreadsOK, RestOK
  <1>4. CASE PutJoin(t)
    <2>1. ThreadsOK'
      <3>1. CASE Reply(t) BY <3>1, ReplyType
      <3>2. CASE /\ pc' = [pc EXCEPT ![t] = "l0"]
                 /\ at' = [at EXCEPT ![t] = 1]
                 /\ UNCHANGED <<chain, stage, matched>>
        <4>1. Len(chain[t]) >= 1
          <5>1. chain[t] \in Seq(Blocks) /\ chain[t] # <<>>
            BY <1>4 DEF ThreadsOK, PutJoin
          <5> QED BY <5>1, SMTT(30)
        <4> QED BY <3>2, <4>1, SMTT(30) DEF ThreadsOK
      <3> QED BY <1>4, <3>1, <3>2 DEF PutJoin
    <2>2. Names(chain[t]) \subseteq Blocks BY NamesAreBlocks DEF ThreadsOK
    <2>3. RestOK' BY <1>4, <2>2 DEF PutJoin, RestOK
    <2> QED BY <2>1, <2>3 DEF TypeOK, ThreadsOK, RestOK
  <1>5. CASE IndexL0(t)
    <2>1. chain[t][at[t]] \in Blocks /\ pc[t] = "l0"
      BY <1>5, SMTT(30) DEF ThreadsOK, IndexL0
    <2>2. ThreadsOK' /\ acked' \subseteq Blocks
      <3>1. CASE NextBlock(t, l0') BY <2>1, <3>1, NextBlockType, SMTT(30) DEF RestOK
      <3>2. CASE /\ pc' = [pc EXCEPT ![t] = "l1"]
                 /\ UNCHANGED <<chain, at, stage, matched, acked>>
        BY <2>1, <3>2 DEF ThreadsOK, RestOK
      <3> QED BY <1>5, <3>1, <3>2 DEF IndexL0
    <2>3. clock' \in Nat /\ l0' \in [Blocks -> Meta]
      <3>1. [stamp |-> clock + 1, bytes |-> SizeOf[chain[t][at[t]]]] \in Meta
        BY <2>1, BlocksAssumption, SMTT(30) DEF RestOK, Meta
      <3> QED BY <1>5, <2>1, <3>1, SMTT(30) DEF IndexL0, RestOK
    <2>4. RestOK' BY <1>5, <2>2, <2>3 DEF IndexL0, RestOK
    <2> QED BY <2>2, <2>4 DEF TypeOK, ThreadsOK, RestOK
  <1>6. CASE IndexL1(t)
    <2>1. chain[t][at[t]] \in Blocks /\ pc[t] = "l1"
      BY <1>6, SMTT(30) DEF ThreadsOK, IndexL1
    <2>2. ThreadsOK' /\ acked' \subseteq Blocks
      <3>1. CASE NextBlock(t, l0) BY <2>1, <3>1, NextBlockType, SMTT(30) DEF RestOK
      <3>2. CASE /\ pc' = [pc EXCEPT ![t] = "dead"]
                 /\ UNCHANGED <<chain, at, stage, matched, acked>>
        BY <2>1, <3>2 DEF ThreadsOK, RestOK
      <3> QED BY <1>6, <3>1, <3>2 DEF IndexL1
    <2>3. l1' \in [Blocks -> Meta]
      <3>1. [stamp |-> clock, bytes |-> SizeOf[chain[t][at[t]]]] \in Meta
        BY <2>1, BlocksAssumption DEF RestOK, Meta
      <3> QED BY <1>6, <2>1, <3>1 DEF IndexL1, RestOK
    <2>4. RestOK' BY <1>6, <2>2, <2>3 DEF IndexL1, RestOK
    <2> QED BY <2>2, <2>4 DEF TypeOK, ThreadsOK, RestOK
  <1> QED BY <1>1, <1>2, <1>3, <1>4, <1>5, <1>6 DEF Put

\* Every step of a lookup and a get keeps the types.
LEMMA GetType ==
  ASSUME TypeOK, NEW t \in Readers,
         (\E c \in Chains : LookupBlockPrefix(t, c) \/ GetBlocks(t, c)) \/ Get(t)
  PROVE  TypeOK'
  <1> t \in Threads BY DEF Threads
  <1> ThreadsOK /\ RestOK BY TypeSplit
  <1> USE DEF storeVars, indexVars, procVars, threadVars, historyVars
  <1>1. ASSUME NEW c \in Chains, LookupBlockPrefix(t, c) PROVE TypeOK'
    <2>1. PICK k \in 1..Len(c) : Fanout(t, SubSeq(c, 1, k), "get")
      BY <1>1 DEF LookupBlockPrefix
    <2>2. SubSeq(c, 1, k) \in Seq(Blocks) \ {<<>>}
      BY BlocksAssumption, SMTT(30)
    <2>3. matched' \in [Threads -> BOOLEAN] /\ pc[t] = "idle" /\ UNCHANGED at
      BY <1>1 DEF LookupBlockPrefix, ThreadsOK
    <2>4. ThreadsOK' BY <2>1, <2>2, <2>3, FanoutType
    <2>5. RestOK' BY <1>1 DEF LookupBlockPrefix, RestOK
    <2> QED BY <2>4, <2>5 DEF TypeOK, ThreadsOK, RestOK
  <1>2. ASSUME NEW c \in Chains, GetBlocks(t, c) PROVE TypeOK'
    <2>1. c \in Seq(Blocks) \ {<<>>} BY BlocksAssumption
    <2>2. matched' \in [Threads -> BOOLEAN] BY <1>2 DEF GetBlocks, ThreadsOK
    <2>3. ThreadsOK' BY <1>2, <2>1, <2>2, FanoutType DEF GetBlocks
    <2>4. RestOK' BY <1>2 DEF GetBlocks, RestOK
    <2> QED BY <2>3, <2>4 DEF TypeOK, ThreadsOK, RestOK
  <1>3. ASSUME NEW h \in Blocks,
               GetFlat(t, h) \/ GetFoyer(t, h) \/ GetObject(t, h) \/ GetFill(t, h)
                  \/ GetGiveUp(t, h)
        PROVE  TypeOK'
    <2>1. UNCHANGED <<pc, chain, at, matched>>
      BY <1>3 DEF GetFlat, GetFoyer, GetObject, GetFill, GetGiveUp
    <2>2. \E from \in Stages, to \in Stages : MoveStage(t, h, from, to)
      BY <1>3 DEF GetFlat, GetFoyer, GetObject, GetFill, GetGiveUp, Stages, PutStages, GetStages
    <2>3. ThreadsOK' BY <2>1, <2>2, MoveStageType
    <2>4. RestOK'
      BY <1>3 DEF GetFlat, GetFoyer, GetObject, GetFill, GetGiveUp, FlatPut, RestOK
    <2> QED BY <2>3, <2>4 DEF TypeOK, ThreadsOK, RestOK
  <1>4. CASE GetJoin(t)
    <2>1. ThreadsOK' BY <1>4, ReplyType DEF GetJoin
    <2>2. RestOK' BY <1>4 DEF GetJoin, RestOK
    <2> QED BY <2>1, <2>2 DEF TypeOK, ThreadsOK, RestOK
  <1> QED BY <1>1, <1>2, <1>3, <1>4 DEF Get

\* Every step of the eviction worker keeps the types.
LEMMA EvictType ==
  ASSUME TypeOK, Evict
  PROVE  TypeOK'
  <1> ThreadsOK /\ RestOK BY TypeSplit
  <1> USE DEF storeVars, indexVars, procVars, threadVars, historyVars
  <1>1. ThreadsOK'
    BY DEF Evict, EvScan, EvTake, EvRemoveL1, EvRemoveFlat, EvDeleteObject, EvEnd, ThreadsOK
  <1>2. CASE EvScan BY <1>1, <1>2 DEF EvScan, RestOK, TypeOK, ThreadsOK, Eviction, Indexed
  <1>3. ASSUME NEW h \in Blocks, EvTake(h) PROVE TypeOK'
    <2>1. l0' \in [Blocks -> Meta] BY <1>3, WithoutType, SMTT(30) DEF EvTake, RestOK
    <2>2. ev' \in Eviction
      <3>1. [ev EXCEPT !.left = @ \ {h}] \in Eviction BY DEF RestOK, Eviction
      <3>2. [ev EXCEPT !.pc = "l1", !.left = @ \ {h}, !.victim = {h}] \in Eviction
        BY DEF RestOK, Eviction
      <3> QED BY <1>3, <3>1, <3>2 DEF EvTake
    <2>3. RestOK' BY <1>3, <2>1, <2>2 DEF EvTake, RestOK
    <2> QED BY <1>1, <2>3 DEF TypeOK, ThreadsOK, RestOK
  <1>4. CASE EvRemoveL1
    <2>1. l1' \in [Blocks -> Meta] BY <1>4, WithoutType, SMTT(30) DEF EvRemoveL1, RestOK
    <2>2. ev' \in Eviction
      <3>1. [EvIdle EXCEPT !.pc = "dead"] \in Eviction BY EvIdleType DEF Eviction
      <3>2. [ev EXCEPT !.pc = "flat"] \in Eviction BY DEF RestOK, Eviction
      <3> QED BY <1>4, <3>1, <3>2 DEF EvRemoveL1
    <2>3. RestOK' BY <1>4, <2>1, <2>2 DEF EvRemoveL1, RestOK
    <2> QED BY <1>1, <2>3 DEF TypeOK, ThreadsOK, RestOK
  <1>5. CASE EvRemoveFlat BY <1>1, <1>5 DEF EvRemoveFlat, RestOK, TypeOK, ThreadsOK, Eviction
  <1>6. CASE EvDeleteObject
    <2>1. ev.victim \subseteq Blocks /\ ev.freed \subseteq Blocks BY DEF RestOK, Eviction
    <2>2. ev' \in Eviction BY <1>6, <2>1 DEF EvDeleteObject, RestOK, Eviction
    <2>3. RestOK' BY <1>6, <2>1, <2>2 DEF EvDeleteObject, RestOK
    <2> QED BY <1>1, <2>3 DEF TypeOK, ThreadsOK, RestOK
  <1>7. CASE EvEnd BY <1>1, <1>7, EvIdleType DEF EvEnd, RestOK, TypeOK, ThreadsOK
  <1> QED BY <1>2, <1>3, <1>4, <1>5, <1>6, <1>7 DEF Evict

\* A restart keeps the types.
LEMMA CrashRestartType ==
  ASSUME TypeOK, CrashRestart
  PROVE  TypeOK'
  <1> ThreadsOK /\ RestOK BY TypeSplit
  <1> USE DEF storeVars, historyVars
  <1>1. ThreadsOK'
    BY SMTT(30) DEF CrashRestart, ThreadsOK, Stages, PutStages, GetStages
  <1>2. PICK m \in Modes, opened \in BOOLEAN, listed \in BOOLEAN :
          mode' = m /\ l1open' = opened /\ l0' = Bootstrap(m, opened, listed) /\ clock' = clock + 1
    BY DEF CrashRestart
  <1>3. l0' \in [Blocks -> Meta] BY <1>2, SMTT(30) DEF Bootstrap, RestOK, Meta, NoMeta
  <1>4. RestOK' BY <1>2, <1>3, EvIdleType, SMTT(30) DEF CrashRestart, RestOK
  <1> QED BY <1>1, <1>4 DEF TypeOK, ThreadsOK, RestOK

\* Every step keeps the types.
LEMMA NextType == TypeOK /\ [Next]_vars => TypeOK'
  <1> SUFFICES ASSUME TypeOK, [Next]_vars PROVE TypeOK'
    OBVIOUS
  <1> USE DEF storeVars, indexVars, procVars, threadVars, historyVars
  <1>1. CASE \E h \in Blocks : FoyerAge(h) BY <1>1 DEF FoyerAge, TypeOK
  <1>2. CASE ClearFoyer BY <1>2 DEF ClearFoyer, TypeOK
  <1>3. CASE RestoreFromS3 BY <1>3 DEF RestoreFromS3, TypeOK
  <1>4. CASE UNCHANGED vars BY <1>4 DEF vars, TypeOK
  <1> QED BY <1>1, <1>2, <1>3, <1>4, PutType, GetType, EvictType, CrashRestartType DEF Next

\* The variables keep their types, and the index loop of a put never leaves
\* the block list of its request.
THEOREM TypeCorrect == Spec => []TypeOK
  BY InitType, NextType, PTL DEF Spec

-----------------------------------------------------------------------------
\* The bucket holds h, or eviction undercut it.
Held == s3 \cup undercut

\* What a running put has stored is held.
StoredHeld ==
    \A t \in Writers, h \in Blocks :
        pc[t] \in {"put", "l0", "l1"} /\ stage[t][h] = "stored" => h \in Held

\* A put reaches its index loop with every object stored.
AllStored ==
    \A t \in Writers : pc[t] \in {"l0", "l1"} =>
        \A h \in Names(chain[t]) : stage[t][h] = "stored"

\* The inductive invariant.
BackedInv == TypeOK /\ IndexBacked /\ StoredHeld /\ AllStored

\* The block the index loop is at was stored, so it is held.
LEMMA CurrentHeld ==
  ASSUME BackedInv, NEW t \in Writers, pc[t] \in {"l0", "l1"}
  PROVE  chain[t][at[t]] \in Blocks /\ chain[t][at[t]] \in Held
  <1>1. t \in Threads BY DEF Threads
  <1>2. at[t] \in 1..Len(chain[t]) /\ chain[t] \in Seq(Blocks)
    BY <1>1, SMTT(30) DEF BackedInv, TypeOK
  <1>3. chain[t][at[t]] \in Blocks /\ chain[t][at[t]] \in Names(chain[t])
    BY <1>2, SMTT(30) DEF Names
  <1> QED BY <1>3 DEF BackedInv, AllStored, StoredHeld

\* A step that answers a request, or only moves a thread inside its put, and
\* keeps what is held keeps the facts about running puts.
LEMMA NextBlockBacked ==
  ASSUME BackedInv, NEW t \in Writers, NEW idx, pc[t] \in {"l0", "l1"}, NextBlock(t, idx),
         UNCHANGED <<s3, undercut>>
  PROVE  StoredHeld' /\ AllStored'
  <1> t \in Threads BY DEF Threads
  <1> DEFINE Move == /\ pc' = [pc EXCEPT ![t] = "l0"]
                     /\ UNCHANGED <<chain, stage>>
  <1>1. CASE Move
    BY <1>1 DEF BackedInv, TypeOK, StoredHeld, AllStored, Held, Threads
  <1>2. CASE Reply(t)
    BY <1>2 DEF BackedInv, TypeOK, StoredHeld, AllStored, Held, Threads, Reply
  <1> QED BY <1>1, <1>2 DEF NextBlock

\* Every step of a put preserves the invariant.
LEMMA PutBacked ==
  ASSUME BackedInv, TypeOK', NEW t \in Writers,
         (\E c \in Chains : PutBlocks(t, c)) \/ Put(t)
  PROVE  BackedInv'
  <1> USE DEF storeVars, indexVars, procVars, threadVars, historyVars, BackedInv
  <1> t \in Threads /\ Writers \subseteq Threads BY DEF Threads
  <1>1. ASSUME NEW c \in Chains, PutBlocks(t, c) PROVE BackedInv'
    <2>1. IndexBacked' BY <1>1 DEF PutBlocks, IndexBacked
    <2>2. StoredHeld' BY <1>1 DEF PutBlocks, Fanout, StoredHeld, Held, TypeOK
    <2>3. AllStored' BY <1>1, SMTT(30) DEF PutBlocks, Fanout, AllStored, TypeOK
    <2> QED BY <2>1, <2>2, <2>3
  <1>2. ASSUME NEW h \in Blocks, PutCaches(t, h) PROVE BackedInv'
    <2>1. IndexBacked' BY <1>2 DEF PutCaches, IndexBacked
    <2>2. StoredHeld' BY <1>2 DEF PutCaches, MoveStage, StoredHeld, Held, TypeOK
    <2>3. AllStored' BY <1>2 DEF PutCaches, MoveStage, AllStored, TypeOK
    <2> QED BY <2>1, <2>2, <2>3
  <1>3. ASSUME NEW h \in Blocks, PutObject(t, h) PROVE BackedInv'
    <2>1. Held \subseteq Held' BY <1>3 DEF PutObject, Held
    <2>2. IndexBacked' BY <1>3, <2>1 DEF PutObject, IndexBacked, Held
    <2>3. ASSUME NEW u \in Writers, NEW g \in Blocks, pc'[u] \in {"put", "l0", "l1"},
                 stage'[u][g] = "stored"
          PROVE  g \in Held'
      <3>1. CASE u = t /\ g = h
        <4>1. CASE MoveStage(t, h, "cached", "stored") /\ s3' = s3 \cup {h}
          BY <3>1, <4>1 DEF Held
        <4>2. CASE MoveStage(t, h, "cached", "failed")
          BY <3>1, <4>2, <2>3 DEF MoveStage, TypeOK
        <4> QED BY <1>3, <4>1, <4>2 DEF PutObject
      <3>2. CASE ~(u = t /\ g = h)
        <4>1. stage'[u][g] = stage[u][g] /\ pc'[u] = pc[u]
          BY <1>3, <3>2, SMTT(30) DEF PutObject, MoveStage, TypeOK
        <4> QED BY <2>1, <2>3, <4>1 DEF StoredHeld
      <3> QED BY <3>1, <3>2
    <2>4. StoredHeld' BY <2>3 DEF StoredHeld
    <2>5. ASSUME NEW u \in Writers, pc'[u] \in {"l0", "l1"}
          PROVE  \A g \in Names(chain'[u]) : stage'[u][g] = "stored"
      <3>1. pc' = pc /\ chain' = chain /\ u # t BY <1>3, <2>5 DEF PutObject
      <3>2. stage'[u] = stage[u] BY <1>3, <3>1 DEF PutObject, MoveStage, TypeOK
      <3> QED BY <2>5, <3>1, <3>2 DEF AllStored
    <2>6. AllStored' BY <2>5 DEF AllStored
    <2> QED BY <2>2, <2>4, <2>6
  <1>4. CASE PutJoin(t)
    <2>1. IndexBacked' BY <1>4 DEF PutJoin, IndexBacked
    <2>2. CASE Reply(t)
      <3>1. StoredHeld' BY <1>4, <2>2 DEF PutJoin, Reply, StoredHeld, Held, TypeOK
      <3>2. AllStored' BY <1>4, <2>2, SMTT(30) DEF PutJoin, Reply, AllStored, TypeOK
      <3> QED BY <2>1, <3>1, <3>2
    <2>3. CASE /\ \A h \in Names(chain[t]) : stage[t][h] = "stored"
               /\ pc' = [pc EXCEPT ![t] = "l0"]
               /\ UNCHANGED <<chain, stage, matched>>
      <3>1. StoredHeld'
        <4>1. stage' = stage /\ Held' = Held BY <1>4, <2>3 DEF PutJoin, Held
        <4>2. \A u \in Writers : pc'[u] \in {"put", "l0", "l1"} => pc[u] \in {"put", "l0", "l1"}
          BY <1>4, <2>3 DEF PutJoin, TypeOK
        <4> QED BY <4>1, <4>2 DEF StoredHeld
      <3>2. AllStored' BY <1>4, <2>3, SMTT(30) DEF PutJoin, AllStored, TypeOK
      <3> QED BY <2>1, <3>1, <3>2
    <2> QED BY <1>4, <2>2, <2>3 DEF PutJoin
  <1>5. CASE IndexL0(t)
    <2>1. pc[t] = "l0" /\ UNCHANGED <<s3, undercut, l1>> BY <1>5 DEF IndexL0
    <2>2. IndexBacked'
      <3>1. \A h \in Blocks : h # chain[t][at[t]] => l0'[h] = l0[h]
        BY <1>5 DEF IndexL0, TypeOK
      <3>2. chain[t][at[t]] \in Held BY <2>1, CurrentHeld
      <3>3. ASSUME NEW h \in Blocks, Present(l0'[h]) \/ Present(l1'[h])
            PROVE  h \in Held
        <4>1. CASE h = chain[t][at[t]] BY <3>2, <4>1
        <4>2. CASE h # chain[t][at[t]]
          <5>1. Present(l0[h]) \/ Present(l1[h]) BY <2>1, <3>1, <3>3, <4>2
          <5> QED BY <5>1 DEF IndexBacked, Held
        <4> QED BY <4>1, <4>2
      <3> QED BY <2>1, <3>3 DEF IndexBacked, Held
    <2>3. StoredHeld' /\ AllStored'
      <3>1. CASE NextBlock(t, l0') BY <2>1, <3>1, NextBlockBacked, SMTT(30)
      <3>2. CASE pc' = [pc EXCEPT ![t] = "l1"] /\ UNCHANGED <<chain, stage>>
        BY <2>1, <3>2, SMTT(30) DEF StoredHeld, AllStored, Held, TypeOK
      <3> QED BY <1>5, <3>1, <3>2 DEF IndexL0
    <2> QED BY <2>2, <2>3
  <1>6. CASE IndexL1(t)
    <2>1. pc[t] = "l1" /\ UNCHANGED <<s3, undercut, l0>> BY <1>6 DEF IndexL1
    <2>2. IndexBacked'
      <3>1. \A h \in Blocks : h # chain[t][at[t]] => l1'[h] = l1[h]
        BY <1>6 DEF IndexL1, TypeOK
      <3>2. chain[t][at[t]] \in Held BY <2>1, CurrentHeld
      <3> QED BY <2>1, <3>1, <3>2 DEF IndexBacked, Held
    <2>3. StoredHeld' /\ AllStored'
      <3>1. CASE NextBlock(t, l0) BY <2>1, <3>1, NextBlockBacked, SMTT(30)
      <3>2. CASE pc' = [pc EXCEPT ![t] = "dead"] /\ UNCHANGED <<chain, stage>>
        BY <2>1, <3>2, SMTT(30) DEF StoredHeld, AllStored, Held, TypeOK
      <3> QED BY <1>6, <3>1, <3>2 DEF IndexL1
    <2> QED BY <2>2, <2>3
  <1> QED BY <1>1, <1>2, <1>3, <1>4, <1>5, <1>6 DEF Put

\* A step that leaves the writers, the index and what is held alone preserves
\* the invariant.
LEMMA OtherBacked ==
  ASSUME BackedInv, TypeOK', UNCHANGED <<s3, undercut, l0, l1>>,
         \A t \in Writers : pc'[t] = pc[t] /\ chain'[t] = chain[t] /\ stage'[t] = stage[t]
  PROVE  BackedInv'
  BY DEF BackedInv, IndexBacked, StoredHeld, AllStored, Held

\* The steps of a reader leave the bucket, the index, the process and the history alone.
LEMMA GetFrame ==
  ASSUME NEW t \in Readers,
         (\E c \in Chains : LookupBlockPrefix(t, c) \/ GetBlocks(t, c)) \/ Get(t)
  PROVE  UNCHANGED <<s3, indexVars, procVars, ev, historyVars>>
  <1> USE DEF storeVars
  <1>1. CASE \E c \in Chains : LookupBlockPrefix(t, c) BY <1>1 DEF LookupBlockPrefix
  <1>2. CASE \E c \in Chains : GetBlocks(t, c) BY <1>2 DEF GetBlocks
  <1>3. CASE \E h \in Blocks : GetFlat(t, h) BY <1>3 DEF GetFlat
  <1>4. CASE \E h \in Blocks : GetFoyer(t, h) BY <1>4 DEF GetFoyer
  <1>5. CASE \E h \in Blocks : GetObject(t, h) BY <1>5 DEF GetObject
  <1>6. CASE \E h \in Blocks : GetFill(t, h) BY <1>6 DEF GetFill
  <1>7. CASE \E h \in Blocks : GetGiveUp(t, h) BY <1>7 DEF GetGiveUp
  <1>8. CASE GetJoin(t) BY <1>8 DEF GetJoin
  <1> QED BY <1>1, <1>2, <1>3, <1>4, <1>5, <1>6, <1>7, <1>8 DEF Get

\* Up to its index loop a put leaves the index and the acknowledgements alone.
LEMMA PutFrame ==
  ASSUME NEW t \in Writers, (\E c \in Chains : PutBlocks(t, c)) \/ Put(t),
         ~IndexL0(t), ~IndexL1(t)
  PROVE  UNCHANGED <<indexVars, procVars, ev, acked>> /\ published \subseteq published'
  <1> USE DEF storeVars, historyVars
  <1>1. CASE \E c \in Chains : PutBlocks(t, c) BY <1>1 DEF PutBlocks
  <1>2. CASE \E h \in Blocks : PutCaches(t, h) BY <1>2 DEF PutCaches
  <1>3. CASE \E h \in Blocks : PutObject(t, h) BY <1>3 DEF PutObject
  <1>4. CASE PutJoin(t) BY <1>4 DEF PutJoin
  <1> QED BY <1>1, <1>2, <1>3, <1>4 DEF Put

\* The steps of readers are of that kind.
LEMMA GetBacked ==
  ASSUME BackedInv, TypeOK', NEW t \in Readers,
         (\E c \in Chains : LookupBlockPrefix(t, c) \/ GetBlocks(t, c)) \/ Get(t)
  PROVE  BackedInv'
  <1>1. \A u \in Writers : u # t BY BlocksAssumption
  <1>2. UNCHANGED <<s3, undercut, l0, l1>>
    BY GetFrame DEF indexVars, historyVars
  <1>3. \A u \in Writers : pc'[u] = pc[u] /\ chain'[u] = chain[u] /\ stage'[u] = stage[u]
    <2> \A u \in Writers : u \in Threads BY DEF Threads
    <2>1. CASE \E c, p : Fanout(t, c, p)
      BY <1>1, <2>1 DEF Fanout, BackedInv, TypeOK
    <2>2. CASE Reply(t)
      BY <1>1, <2>2 DEF Reply, BackedInv, TypeOK
    <2>3. CASE UNCHANGED <<pc, chain>> /\ \E h, from, to : MoveStage(t, h, from, to)
      BY <1>1, <2>3 DEF MoveStage, BackedInv, TypeOK
    <2>4. ASSUME NEW c \in Chains, LookupBlockPrefix(t, c) \/ GetBlocks(t, c)
          PROVE \E d, p : Fanout(t, d, p)
      BY <2>4 DEF LookupBlockPrefix, GetBlocks
    <2>5. ASSUME NEW h \in Blocks,
                 GetFlat(t, h) \/ GetFoyer(t, h) \/ GetObject(t, h) \/ GetFill(t, h)
                    \/ GetGiveUp(t, h)
          PROVE  UNCHANGED <<pc, chain>> /\ \E g, from, to : MoveStage(t, g, from, to)
      BY <2>5 DEF GetFlat, GetFoyer, GetObject, GetFill, GetGiveUp
    <2>6. GetJoin(t) => Reply(t) BY DEF GetJoin
    <2> QED BY <2>1, <2>2, <2>3, <2>4, <2>5, <2>6 DEF Get
  <1> QED BY <1>2, <1>3, OtherBacked

\* Every step of the eviction worker preserves the invariant.
LEMMA EvictBacked ==
  ASSUME BackedInv, TypeOK', Evict
  PROVE  BackedInv'
  <1> USE DEF storeVars, indexVars, procVars, threadVars, historyVars
  <1>1. UNCHANGED threadVars
    BY DEF Evict, EvScan, EvTake, EvRemoveL1, EvRemoveFlat, EvDeleteObject, EvEnd
  <1>2. ASSUME UNCHANGED <<s3, undercut>>,
               \A h \in Blocks : /\ l0'[h] = l0[h] \/ l0'[h] = NoMeta
                                 /\ l1'[h] = l1[h] \/ l1'[h] = NoMeta
        PROVE  BackedInv'
    <2> ~Present(NoMeta) BY SMTT(30) DEF Present, NoMeta
    <2>1. \A h \in Blocks : (Present(l0'[h]) => Present(l0[h])) /\ (Present(l1'[h]) => Present(l1[h]))
      BY <1>2
    <2>2. IndexBacked' BY <1>2, <2>1 DEF BackedInv, IndexBacked
    <2>3. StoredHeld' BY <1>1, <1>2 DEF BackedInv, StoredHeld, Held
    <2>4. AllStored' BY <1>1 DEF BackedInv, AllStored
    <2> QED BY <2>2, <2>3, <2>4 DEF BackedInv
  <1>3. CASE EvScan \/ EvRemoveFlat \/ EvEnd
    BY <1>2, <1>3 DEF EvScan, EvRemoveFlat, EvEnd
  <1>4. ASSUME NEW h \in Blocks, EvTake(h) PROVE BackedInv'
    BY <1>2, <1>4 DEF EvTake, Without
  <1>5. CASE EvRemoveL1
    BY <1>2, <1>5 DEF EvRemoveL1, Without
  <1>6. CASE EvDeleteObject
    <2>1. CASE UNCHANGED <<s3, undercut>>
      BY <1>2, <1>6, <2>1 DEF EvDeleteObject
    <2>2. CASE s3' = s3 \ ev.victim /\ undercut' = undercut \cup {h \in ev.victim : Referenced(h)}
      <3>1. \A h \in Held : Referenced(h) => h \in Held' BY <2>2 DEF Held
      <3>2. UNCHANGED <<l0, l1>> BY <1>6 DEF EvDeleteObject
      <3>3. IndexBacked' BY <3>1, <3>2 DEF BackedInv, IndexBacked, Referenced, Held
      <3>4. StoredHeld' BY <1>1, <3>1 DEF BackedInv, StoredHeld, Referenced
      <3>5. AllStored' BY <1>1 DEF BackedInv, AllStored
      <3> QED BY <3>3, <3>4, <3>5 DEF BackedInv
    <2> QED BY <1>6, <2>1, <2>2 DEF EvDeleteObject
  <1> QED BY <1>3, <1>4, <1>5, <1>6 DEF Evict

\* A restart preserves the invariant: L0 is rebuilt from L1, which was backed,
\* and from the listing of the bucket.
LEMMA CrashRestartBacked ==
  ASSUME BackedInv, TypeOK', CrashRestart
  PROVE  BackedInv'
  <1> USE DEF storeVars, historyVars
  <1>1. PICK m, opened, listed : l0' = Bootstrap(m, opened, listed)
    BY DEF CrashRestart
  <1>2. UNCHANGED <<s3, undercut, l1>> BY DEF CrashRestart
  <1>3. \A h \in Blocks : l0'[h] = l1[h] \/ l0'[h] = NoMeta \/ h \in s3
    BY <1>1 DEF Bootstrap
  <1>4. IndexBacked' BY <1>2, <1>3, SMTT(30) DEF BackedInv, IndexBacked, Present, NoMeta
  <1>5. StoredHeld' /\ AllStored'
    BY DEF CrashRestart, StoredHeld, AllStored, Threads
  <1> QED BY <1>4, <1>5 DEF BackedInv

\* BackedInv is inductive.
LEMMA BackedInductive == BackedInv /\ [Next]_vars => BackedInv'
  <1> SUFFICES ASSUME BackedInv, [Next]_vars PROVE BackedInv'
    OBVIOUS
  <1>1. TypeOK' BY NextType DEF BackedInv
  <1>2. CASE (\E h \in Blocks : FoyerAge(h)) \/ ClearFoyer \/ RestoreFromS3 \/ UNCHANGED vars
    <2>1. UNCHANGED <<s3, undercut, l0, l1, pc, chain, stage>>
      BY <1>2 DEF FoyerAge, ClearFoyer, RestoreFromS3, vars, storeVars, indexVars, threadVars,
                  historyVars
    <2> QED BY <1>1, <2>1, OtherBacked
  <1> QED BY <1>1, <1>2, PutBacked, GetBacked, EvictBacked, CrashRestartBacked DEF Next

\* Initially nothing is indexed and no put runs.
LEMMA InitBacked == Init => BackedInv
  <1> SUFFICES ASSUME Init PROVE BackedInv
    OBVIOUS
  <1>1. TypeOK BY InitType
  <1>2. IndexBacked BY SMTT(30) DEF Init, IndexBacked, Present, NoMeta
  <1>3. StoredHeld /\ AllStored BY DEF Init, StoredHeld, AllStored, Threads
  <1> QED BY <1>1, <1>2, <1>3 DEF BackedInv

\* Whatever interleaving of puts, gets, eviction, faults and restarts, a block
\* that L0 or L1 names is in the bucket, unless the eviction worker deleted the
\* object while the index or a running put still relied on it.
THEOREM IndexBackedSafe == Spec => []IndexBacked
  <1>1. BackedInv => IndexBacked BY DEF BackedInv
  <1> QED BY <1>1, InitBacked, BackedInductive, PTL DEF Spec

-----------------------------------------------------------------------------
\* Without eviction no object is ever deleted, so what a matched get is at
\* work on has been in the bucket since the lookup.
MatchedHeld ==
    \A t \in Readers : matched[t] =>
        /\ pc[t] = "get"
        /\ \A h \in Blocks : stage[t][h] # "none" => h \in s3 /\ stage[t][h] # "miss"

\* The inductive invariant.
ServedInv == BackedInv /\ ev.pc = "idle" /\ undercut = {} /\ MatchedHeld

\* A reader whose request ends is not in a matched get.
LEMMA ReplyServed ==
  ASSUME TypeOK, MatchedHeld, NEW t \in Threads, Reply(t), s3 \subseteq s3'
  PROVE  MatchedHeld'
  <1>1. /\ matched'[t] = FALSE
        /\ \A u \in Readers \ {t} : /\ matched'[u] = matched[u] /\ pc'[u] = pc[u]
                                    /\ stage'[u] = stage[u]
    BY DEF Reply, TypeOK, Threads
  <1> QED BY <1>1, SMTT(30) DEF MatchedHeld

\* A step that only adds objects and leaves the readers alone keeps them.
LEMMA OtherServed ==
  ASSUME MatchedHeld, s3 \subseteq s3',
         \A t \in Readers : /\ matched'[t] = matched[t] /\ pc'[t] = pc[t]
                            /\ stage'[t] = stage[t]
  PROVE  MatchedHeld'
  BY SMTT(30) DEF MatchedHeld

\* A step of one reader keeps the others'.
LEMMA ReaderServed ==
  ASSUME MatchedHeld, s3 \subseteq s3', NEW t \in Readers,
         \A u \in Readers \ {t} : /\ matched'[u] = matched[u] /\ pc'[u] = pc[u]
                                  /\ stage'[u] = stage[u],
         matched'[t] =>
            /\ pc'[t] = "get"
            /\ \A h \in Blocks : stage'[t][h] # "none" => h \in s3' /\ stage'[t][h] # "miss"
  PROVE  MatchedHeld'
  <1> SUFFICES ASSUME NEW u \in Readers, matched'[u]
               PROVE  /\ pc'[u] = "get"
                      /\ \A h \in Blocks : stage'[u][h] # "none" => h \in s3' /\ stage'[u][h] # "miss"
    BY DEF MatchedHeld
  <1>1. CASE u = t BY <1>1
  <1>2. CASE u # t BY <1>2, SMTT(30) DEF MatchedHeld
  <1> QED BY <1>1, <1>2

\* A writer's step is of that kind.
LEMMA PutServed ==
  ASSUME TypeOK, MatchedHeld, NEW t \in Writers,
         (\E c \in Chains : PutBlocks(t, c)) \/ Put(t)
  PROVE  MatchedHeld'
  <1> USE DEF storeVars, indexVars, procVars, threadVars, historyVars
  <1>1. t \in Threads /\ \A u \in Readers : u \in Threads /\ u # t
    BY BlocksAssumption DEF Threads
  <1>2. ASSUME NEW c \in Chains, PutBlocks(t, c) PROVE MatchedHeld'
    BY <1>1, <1>2, OtherServed DEF PutBlocks, Fanout, TypeOK
  <1>3. ASSUME NEW h \in Blocks, PutCaches(t, h) \/ PutObject(t, h) PROVE MatchedHeld'
    <2>1. s3 \subseteq s3' /\ UNCHANGED <<pc, matched>> /\ \E from, to : MoveStage(t, h, from, to)
      BY <1>3 DEF PutCaches, PutObject
    <2> QED BY <1>1, <2>1, OtherServed DEF MoveStage, TypeOK
  <1>4. CASE Reply(t) /\ UNCHANGED s3
    BY <1>1, <1>4, ReplyServed
  <1>5. CASE /\ UNCHANGED <<stage, matched, s3>> /\ \E p : pc' = [pc EXCEPT ![t] = p]
    BY <1>1, <1>5, OtherServed DEF TypeOK
  <1>6. CASE PutJoin(t) \/ IndexL0(t) \/ IndexL1(t)
    BY <1>4, <1>5, <1>6 DEF PutJoin, IndexL0, IndexL1, NextBlock
  <1> QED BY <1>2, <1>3, <1>6 DEF Put

\* A lookup matches blocks the index names, which are in the bucket, and a
\* subthread finds there what no cache has.
LEMMA GetServed ==
  ASSUME ServedInv, NEW t \in Readers,
         (\E c \in Chains : LookupBlockPrefix(t, c) \/ GetBlocks(t, c)) \/ Get(t)
  PROVE  MatchedHeld'
  <1> USE DEF storeVars, indexVars, procVars, threadVars, historyVars, ServedInv, BackedInv
  <1>1. t \in Threads /\ \A u \in Readers : u \in Threads
    BY DEF Threads
  <1>2. ASSUME NEW c \in Chains, LookupBlockPrefix(t, c) PROVE MatchedHeld'
    <2>1. PICK k \in 1..Len(c) : LongestPrefix(c, k) /\ Fanout(t, SubSeq(c, 1, k), "get")
      BY <1>2 DEF LookupBlockPrefix
    <2>2. c \in Seq(Blocks)
      BY BlocksAssumption
    <2>3. ASSUME NEW h \in Names(SubSeq(c, 1, k)) PROVE h \in s3
      <3>0. DOMAIN SubSeq(c, 1, k) = 1..k /\ \A i \in 1..k : SubSeq(c, 1, k)[i] = c[i] /\ c[i] \in Blocks
        BY <2>2, SMTT(30)
      <3>1. PICK i \in 1..k : h = c[i] /\ h \in Blocks
        BY <2>3, <3>0 DEF Names
      <3> QED BY <2>1, <3>1 DEF LongestPrefix, IndexBacked
    <2>4. /\ pc'[t] = "get" /\ UNCHANGED s3
          /\ \A h \in Blocks : stage'[t][h] =
                IF h \in Names(SubSeq(c, 1, k)) THEN "todo" ELSE "none"
      BY <1>1, <1>2, <2>1 DEF LookupBlockPrefix, Fanout, TypeOK
    <2>5. \A u \in Readers \ {t} : /\ matched'[u] = matched[u] /\ pc'[u] = pc[u]
                                   /\ stage'[u] = stage[u]
      BY <1>1, <1>2, <2>1 DEF LookupBlockPrefix, Fanout, TypeOK
    <2> QED BY <2>3, <2>4, <2>5, ReaderServed
  <1>3. ASSUME NEW c \in Chains, GetBlocks(t, c) PROVE MatchedHeld'
    <2>1. /\ ~matched[t] /\ UNCHANGED <<matched, s3>>
          /\ \A u \in Readers \ {t} : pc'[u] = pc[u] /\ stage'[u] = stage[u]
      BY <1>1, <1>3 DEF GetBlocks, Fanout, TypeOK, MatchedHeld
    <2> QED BY <2>1, ReaderServed
  <1>4. ASSUME NEW h \in Blocks,
               GetFlat(t, h) \/ GetFoyer(t, h) \/ GetObject(t, h) \/ GetFill(t, h) \/ GetGiveUp(t, h)
        PROVE  MatchedHeld'
    <2>1. PICK from \in Stages \ {"none"}, to \in Stages :
             MoveStage(t, h, from, to) /\ (to = "miss" => h \notin s3)
      <3> USE DEF Stages, PutStages, GetStages
      <3>1. CASE GetFlat(t, h)
        <4>1. CASE h \in flat BY <3>1, <4>1, SMTT(30) DEF GetFlat
        <4>2. CASE h \notin flat BY <3>1, <4>2, SMTT(30) DEF GetFlat
        <4> QED BY <4>1, <4>2
      <3>2. CASE GetFoyer(t, h) BY <3>2, SMTT(30) DEF GetFoyer
      <3>3. CASE GetObject(t, h)
        <4>1. CASE h \in s3 BY <3>3, <4>1, SMTT(30) DEF GetObject
        <4>2. CASE h \notin s3 BY <3>3, <4>2 DEF GetObject
        <4> QED BY <4>1, <4>2
      <3>4. CASE GetFill(t, h) BY <3>4, SMTT(30) DEF GetFill
      <3>5. CASE GetGiveUp(t, h) BY <3>5, SMTT(30) DEF GetGiveUp
      <3> QED BY <1>4, <3>1, <3>2, <3>3, <3>4, <3>5
    <2>2. UNCHANGED <<pc, matched, s3>>
      BY <1>4 DEF GetFlat, GetFoyer, GetObject, GetFill, GetGiveUp
    <2>3. /\ stage[t][h] = from /\ stage'[t][h] = to
          /\ \A g \in Blocks \ {h} : stage'[t][g] = stage[t][g]
          /\ \A u \in Readers \ {t} : stage'[u] = stage[u]
      BY <1>1, <2>1 DEF MoveStage, TypeOK
    <2>4. matched[t] => h \in s3
      BY <2>1, <2>3 DEF MatchedHeld
    <2>5. matched'[t] => /\ pc'[t] = "get"
                         /\ \A g \in Blocks : stage'[t][g] # "none" => g \in s3' /\ stage'[t][g] # "miss"
      BY <2>1, <2>2, <2>3, <2>4 DEF MatchedHeld
    <2> QED BY <2>2, <2>3, <2>5, ReaderServed
  <1>5. CASE GetJoin(t)
    BY <1>1, <1>5, ReplyServed DEF GetJoin
  <1> QED BY <1>2, <1>3, <1>4, <1>5 DEF Get

\* ServedInv is inductive when eviction is off.
LEMMA ServedInductive ==
  ASSUME Budget = 0
  PROVE  ServedInv /\ [Next]_vars => ServedInv'
  <1> SUFFICES ASSUME ServedInv, [Next]_vars PROVE ServedInv'
    OBVIOUS
  <1> USE DEF storeVars, indexVars, procVars, threadVars, historyVars
  <1>1. BackedInv' /\ TypeOK
    BY BackedInductive DEF ServedInv, BackedInv
  <1>2. ~Evict
    BY SMTT(30) DEF Evict, EvScan, EvTake, EvRemoveL1, EvRemoveFlat, EvDeleteObject, EvEnd, ServedInv
  <1>3. ASSUME NEW t \in Writers, (\E c \in Chains : PutBlocks(t, c)) \/ Put(t)
        PROVE  ServedInv'
    <2>1. ev' = ev /\ undercut' \subseteq undercut
      BY <1>3 DEF PutBlocks, Put, PutCaches, PutObject, PutJoin, IndexL0, IndexL1
    <2> QED BY <1>1, <1>3, <2>1, PutServed DEF ServedInv
  <1>4. ASSUME NEW t \in Readers,
               (\E c \in Chains : LookupBlockPrefix(t, c) \/ GetBlocks(t, c)) \/ Get(t)
        PROVE  ServedInv'
    <2>1. ev' = ev /\ undercut' = undercut
      BY <1>4, GetFrame
    <2> QED BY <1>1, <1>4, <2>1, GetServed DEF ServedInv
  <1>5. CASE (\E h \in Blocks : FoyerAge(h)) \/ ClearFoyer \/ RestoreFromS3 \/ UNCHANGED vars
    <2>1. UNCHANGED <<s3, undercut, ev, pc, stage, matched>>
      BY <1>5 DEF FoyerAge, ClearFoyer, RestoreFromS3, vars
    <2> QED BY <1>1, <2>1, OtherServed DEF ServedInv
  <1>6. CASE CrashRestart
    <2>1. /\ ev' = EvIdle /\ undercut' = undercut
          /\ \A t \in Readers : matched'[t] = FALSE
      BY <1>6 DEF CrashRestart, Threads
    <2> QED BY <1>1, <2>1 DEF ServedInv, MatchedHeld, EvIdle
  <1> QED BY <1>2, <1>3, <1>4, <1>5, <1>6 DEF Next

\* Without eviction a get of blocks that a lookup matched is never answered with
\* a miss: every matched block is in the bucket and stays there, so a subthread
\* that finds neither flat file nor foyer entry finds the object or an error.
THEOREM MatchedServedHolds ==
  ASSUME Budget = 0
  PROVE  Spec => []MatchedServed
  <1>1. Init => ServedInv
    <2> SUFFICES ASSUME Init PROVE ServedInv
      OBVIOUS
    <2>1. ev.pc = "idle" /\ undercut = {} BY DEF Init, EvIdle
    <2>2. MatchedHeld BY DEF Init, MatchedHeld, Threads
    <2> QED BY <2>1, <2>2, InitBacked DEF ServedInv
  <1>2. ServedInv => MatchedServed
    BY DEF ServedInv, MatchedHeld, MatchedServed
  <1> QED BY <1>1, <1>2, ServedInductive, PTL DEF Spec
----------------------------------------------------------------------------
\* No stamp is ahead of the clock.
StampsPast ==
    \A h \in Blocks :
        l0[h].stamp <= clock /\ l1[h].stamp <= clock /\ ev.snap[h].stamp <= clock

\* An entry is as the snapshot has it and still to be visited, or it is at
\* least as recent as everything still to be visited.
OthersNewer ==
    \A g \in Blocks : Present(l0[g]) =>
        \/ g \in ev.left /\ l0[g].stamp = ev.snap[g].stamp
        \/ \A h \in ev.left : ev.snap[h].stamp <= l0[g].stamp

\* The inductive invariant.
OrderInv == TypeOK /\ StampsPast /\ OthersNewer

\* Initially there are no entries.
LEMMA InitOrder == Init => OrderInv
  <1> SUFFICES ASSUME Init PROVE OrderInv
    OBVIOUS
  <1>1. TypeOK BY InitType
  <1>2. StampsPast BY SMTT(30) DEF Init, StampsPast, NoMeta, EvIdle
  <1>3. OthersNewer BY DEF Init, OthersNewer, EvIdle
  <1> QED BY <1>1, <1>2, <1>3 DEF OrderInv

\* A step that leaves the index and the worker alone preserves the invariant.
LEMMA OtherOrder ==
  ASSUME OrderInv, TypeOK', UNCHANGED <<l0, l1, clock, ev>>
  PROVE  OrderInv'
  BY DEF OrderInv, StampsPast, OthersNewer

\* An insertion into L0 is more recent than anything in a snapshot.
LEMMA IndexL0Order ==
  ASSUME OrderInv, TypeOK', NEW t \in Writers, IndexL0(t)
  PROVE  OrderInv'
  <1> DEFINE b == chain[t][at[t]]
  <1>1. t \in Threads /\ pc[t] = "l0" BY DEF Threads, IndexL0
  <1>2. b \in Blocks BY <1>1, SMTT(30) DEF OrderInv, TypeOK
  <1>3. /\ clock' = clock + 1 /\ clock \in Nat
        /\ UNCHANGED <<l1, ev>>
        /\ l0' = [l0 EXCEPT ![b] = [stamp |-> clock + 1, bytes |-> SizeOf[b]]]
    BY DEF IndexL0, OrderInv, TypeOK
  <1>4. l0'[b].stamp = clock + 1 /\ \A h \in Blocks : h # b => l0'[h] = l0[h]
    BY <1>2, <1>3 DEF OrderInv, TypeOK
  <1>5. \A h \in Blocks : /\ l0[h].stamp \in Nat /\ l1[h].stamp \in Nat
                           /\ ev.snap[h].stamp \in Nat /\ ev.left \subseteq Blocks
    BY DEF OrderInv, TypeOK, Meta, Eviction
  <1>6. StampsPast' BY <1>3, <1>4, <1>5, SMTT(30) DEF OrderInv, StampsPast
  <1>7. OthersNewer' BY <1>3, <1>4, <1>5, SMTT(30) DEF OrderInv, OthersNewer, StampsPast
  <1> QED BY <1>6, <1>7 DEF OrderInv

\* An insertion into L1 has a stamp the clock has reached.
LEMMA IndexL1Order ==
  ASSUME OrderInv, TypeOK', NEW t \in Writers, IndexL1(t)
  PROVE  OrderInv'
  <1> DEFINE b == chain[t][at[t]]
  <1>1. t \in Threads /\ pc[t] = "l1" BY DEF Threads, IndexL1
  <1>2. b \in Blocks BY <1>1, SMTT(30) DEF OrderInv, TypeOK
  <1>3. /\ UNCHANGED <<l0, clock, ev>> /\ clock \in Nat
        /\ l1' \in {l1, [l1 EXCEPT ![b] = [stamp |-> clock, bytes |-> SizeOf[b]]]}
    BY DEF IndexL1, OrderInv, TypeOK
  <1>4. \A h \in Blocks : l1'[h].stamp <= clock
    <2>1. \A h \in Blocks : l1[h].stamp <= clock BY DEF OrderInv, StampsPast
    <2>2. CASE l1' = l1 BY <2>1, <2>2
    <2>3. CASE l1' = [l1 EXCEPT ![b] = [stamp |-> clock, bytes |-> SizeOf[b]]]
      <3>1. l1'[b].stamp = clock /\ \A h \in Blocks : h # b => l1'[h] = l1[h]
        BY <1>2, <2>3 DEF OrderInv, TypeOK
      <3> QED BY <1>3, <2>1, <3>1, SMTT(30)
    <2> QED BY <1>3, <2>2, <2>3
  <1> QED BY <1>3, <1>4 DEF OrderInv, StampsPast, OthersNewer

\* Every step of the worker preserves the invariant.
LEMMA EvictOrder ==
  ASSUME OrderInv, TypeOK', Evict
  PROVE  OrderInv'
  <1> USE DEF storeVars, indexVars, procVars, threadVars, historyVars
  <1>1. \A h \in Blocks : /\ l0[h].stamp \in Nat /\ l1[h].stamp \in Nat
                           /\ ev.snap[h].stamp \in Nat
    BY DEF OrderInv, TypeOK, Meta, Eviction
  <1>2. clock \in Nat /\ ev.left \subseteq Blocks /\ ev \in Eviction
    BY DEF OrderInv, TypeOK, Eviction
  <1>3. CASE EvScan
    BY <1>1, <1>2, <1>3 DEF EvScan, OrderInv, StampsPast, OthersNewer, Indexed
  <1>4. ASSUME NEW h \in Blocks, EvTake(h) PROVE OrderInv'
    <2>1. ev'.snap = ev.snap /\ ev'.left = ev.left \ {h} /\ UNCHANGED <<l1, clock>>
      BY <1>2, <1>4 DEF EvTake, Eviction
    <2>2. CASE l0[h].stamp = ev.snap[h].stamp /\ l0' = Without(l0, {h})
      <3>1. l0'[h] = NoMeta /\ \A g \in Blocks : g # h => l0'[g] = l0[g]
        BY <2>2 DEF Without
      <3>2. StampsPast' BY <1>1, <1>2, <2>1, <3>1, SMTT(30) DEF OrderInv, StampsPast, NoMeta
      <3>3. ~Present(l0'[h]) BY <3>1, SMTT(30) DEF Present, NoMeta
      <3>4. ASSUME NEW g \in Blocks, Present(l0'[g])
            PROVE  \/ g \in ev.left \ {h} /\ l0'[g].stamp = ev.snap[g].stamp
                   \/ \A x \in ev.left \ {h} : ev.snap[x].stamp <= l0'[g].stamp
        <4>1. g # h /\ l0'[g] = l0[g] BY <3>1, <3>3, <3>4
        <4> QED BY <3>4, <4>1 DEF OrderInv, OthersNewer
      <3>5. OthersNewer' BY <2>1, <3>4 DEF OthersNewer
      <3> QED BY <3>2, <3>5 DEF OrderInv
    <2>3. CASE l0[h].stamp # ev.snap[h].stamp /\ UNCHANGED l0
      <3>1. StampsPast' BY <2>1, <2>3 DEF OrderInv, StampsPast
      <3>2. OthersNewer' BY <2>1, <2>3 DEF OrderInv, OthersNewer
      <3> QED BY <3>1, <3>2 DEF OrderInv
    <2> QED BY <1>4, <2>2, <2>3 DEF EvTake
  <1>5. CASE EvRemoveL1
    <2>1. \A h \in Blocks : l1'[h].stamp <= clock
      BY <1>1, <1>2, <1>5, SMTT(30) DEF EvRemoveL1, Without, NoMeta, OrderInv, StampsPast
    <2>2. \/ ev'.snap = ev.snap /\ ev'.left = ev.left
          \/ ev'.left = {} /\ \A h \in Blocks : ev'.snap[h].stamp = 0
      BY <1>2, <1>5, SMTT(30) DEF EvRemoveL1, EvIdle, NoMeta, Eviction
    <2>3. UNCHANGED <<l0, clock>> BY <1>5 DEF EvRemoveL1
    <2> QED BY <1>2, <2>1, <2>2, <2>3, SMTT(30) DEF OrderInv, StampsPast, OthersNewer
  <1>6. CASE EvRemoveFlat \/ EvDeleteObject
    <2>1. ev'.snap = ev.snap /\ ev'.left = ev.left /\ UNCHANGED <<l0, l1, clock>>
      BY <1>2, <1>6 DEF EvRemoveFlat, EvDeleteObject, Eviction
    <2> QED BY <2>1 DEF OrderInv, StampsPast, OthersNewer
  <1>7. CASE EvEnd
    <2>1. ev'.left = {} /\ (\A h \in Blocks : ev'.snap[h].stamp = 0) /\ UNCHANGED <<l0, l1, clock>>
      BY <1>7 DEF EvEnd, EvIdle, NoMeta
    <2> QED BY <1>2, <2>1, SMTT(30) DEF OrderInv, StampsPast, OthersNewer
  <1> QED BY <1>3, <1>4, <1>5, <1>6, <1>7 DEF Evict

\* A restart begins with an idle worker and stamps of the past.
LEMMA CrashRestartOrder ==
  ASSUME OrderInv, TypeOK', CrashRestart
  PROVE  OrderInv'
  <1>1. PICK m, opened, listed : l0' = Bootstrap(m, opened, listed)
    BY DEF CrashRestart
  <1>2. clock' = clock + 1 /\ ev' = EvIdle /\ l1' = l1 /\ clock \in Nat
    BY DEF CrashRestart, OrderInv, TypeOK
  <1>3. \A h \in Blocks : l1[h].stamp \in Nat /\ l1[h].stamp <= clock
    BY DEF OrderInv, TypeOK, Meta, StampsPast
  <1>4. \A h \in Blocks : l0'[h].stamp \in {clock + 1, l1[h].stamp, 0}
    BY <1>1 DEF Bootstrap, NoMeta
  <1>5. StampsPast' BY <1>2, <1>3, <1>4, SMTT(30) DEF StampsPast, EvIdle, NoMeta
  <1>6. OthersNewer' BY <1>2 DEF OthersNewer, EvIdle
  <1> QED BY <1>5, <1>6 DEF OrderInv

\* OrderInv is inductive.
LEMMA OrderInductive == OrderInv /\ [Next]_vars => OrderInv'
  <1> SUFFICES ASSUME OrderInv, [Next]_vars PROVE OrderInv'
    OBVIOUS
  <1> USE DEF storeVars, indexVars, procVars, threadVars, historyVars
  <1>1. TypeOK' BY NextType DEF OrderInv
  <1>2. CASE (\E h \in Blocks : FoyerAge(h)) \/ ClearFoyer \/ RestoreFromS3 \/ UNCHANGED vars
    BY <1>1, <1>2, OtherOrder DEF FoyerAge, ClearFoyer, RestoreFromS3, vars
  <1>3. ASSUME NEW t \in Writers, (\E c \in Chains : PutBlocks(t, c)) \/ Put(t) PROVE OrderInv'
    <2>1. CASE ~IndexL0(t) /\ ~IndexL1(t)
      BY <1>1, <1>3, <2>1, PutFrame, OtherOrder
    <2> QED BY <1>1, <2>1, IndexL0Order, IndexL1Order
  <1>4. ASSUME NEW t \in Readers,
               (\E c \in Chains : LookupBlockPrefix(t, c) \/ GetBlocks(t, c)) \/ Get(t)
        PROVE  OrderInv'
    BY <1>1, <1>4, GetFrame, OtherOrder
  <1> QED BY <1>1, <1>2, <1>3, <1>4, EvictOrder, CrashRestartOrder DEF Next

\* The eviction worker only ever removes the least recent entry of the index
\* as it is at the moment of the removal, although it picks from a snapshot and
\* puts go on: this is what the compare of remove_if_unchanged buys.
THEOREM EvictsOldestHolds == Spec => EvictsOldest
  <1> DEFINE Step == restarts' = restarts =>
                        \A h \in Indexed : ~Present(l0'[h]) =>
                            \A g \in Indexed : l0[h].stamp <= l0[g].stamp
  <1>1. OrderInv /\ [Next]_vars => [Step]_vars
    <2> SUFFICES ASSUME OrderInv, Next, restarts' = restarts,
                        NEW h \in Indexed, ~Present(l0'[h]), NEW g \in Indexed
                 PROVE  l0[h].stamp <= l0[g].stamp
      OBVIOUS
    <2> USE DEF storeVars, indexVars, procVars, threadVars, historyVars
    <2>1. h \in Blocks /\ Present(l0[h]) /\ g \in Blocks /\ Present(l0[g]) BY DEF Indexed
    <2>2. ~CrashRestart BY SMTT(30) DEF CrashRestart, OrderInv, TypeOK
    <2>3. \A t \in Writers : ~IndexL0(t)
      <3> SUFFICES ASSUME NEW t \in Writers, IndexL0(t) PROVE FALSE
        OBVIOUS
      <3>1. l0'[h] = l0[h] \/ l0'[h].stamp = clock + 1
        BY <2>1 DEF IndexL0, OrderInv, TypeOK
      <3>2. clock + 1 > 0 BY SMTT(30) DEF OrderInv, TypeOK
      <3> QED BY <2>1, <3>1, <3>2 DEF Present
    <2>4. l0' # l0 BY <2>1
    <2>5. \E x \in Blocks : EvTake(x)
      <3>1. CASE \E t \in Writers : (\E c \in Chains : PutBlocks(t, c)) \/ Put(t)
        BY <2>3, <2>4, <3>1, PutFrame DEF IndexL1
      <3>2. CASE \E t \in Readers :
                    (\E c \in Chains : LookupBlockPrefix(t, c) \/ GetBlocks(t, c)) \/ Get(t)
        BY <2>4, <3>2, GetFrame
      <3>3. CASE Evict
        BY <2>4, <3>3 DEF Evict, EvScan, EvRemoveL1, EvRemoveFlat, EvDeleteObject, EvEnd
      <3>4. CASE (\E x \in Blocks : FoyerAge(x)) \/ ClearFoyer \/ RestoreFromS3
        BY <2>4, <3>4 DEF FoyerAge, ClearFoyer, RestoreFromS3
      <3> QED BY <2>2, <3>1, <3>2, <3>3, <3>4 DEF Next
    <2>6. h \in ev.left /\ l0[h].stamp = ev.snap[h].stamp
          /\ \A x \in ev.left : ev.snap[h].stamp <= ev.snap[x].stamp
      BY <2>1, <2>5 DEF EvTake, Oldest, Without
    <2> QED BY <2>1, <2>6 DEF OrderInv, OthersNewer
  <1>2. EvictsOldest <=> [][Step]_vars BY PTL DEF EvictsOldest
  <1> QED BY <1>1, <1>2, InitOrder, OrderInductive, PTL DEF Spec

-----------------------------------------------------------------------------
\* Both index tiers name published blocks only.
NamesPublished == \A h \in Blocks : Present(l0[h]) \/ Present(l1[h]) => h \in published

\* A put in its index loop has published its batch.
LoopPublished ==
    \A t \in Writers : pc[t] \in {"l0", "l1"} => Names(chain[t]) \subseteq published

\* The inductive invariant, for a process that is only ever a daemon.
PublishedInv == TypeOK /\ NamesPublished /\ LoopPublished

\* The block the index loop is at is one of its batch.
LEMMA CurrentNamed ==
  ASSUME TypeOK, NEW t \in Writers, pc[t] \in {"l0", "l1"}
  PROVE  chain[t][at[t]] \in Blocks /\ chain[t][at[t]] \in Names(chain[t])
  <1>1. t \in Threads BY DEF Threads
  <1>2. at[t] \in 1..Len(chain[t]) /\ chain[t] \in Seq(Blocks)
    BY <1>1, SMTT(30) DEF TypeOK
  <1> QED BY <1>2, SMTT(30) DEF Names

\* Where a step leaves each writer: where it was, out of its index loop, or
\* further on in the loop over the same list.
LEMMA NextBlockLoop ==
  ASSUME TypeOK, NEW t \in Writers, NEW idx, NextBlock(t, idx)
  PROVE  /\ \A u \in Writers : u # t => pc'[u] = pc[u] /\ chain'[u] = chain[u] /\ at'[u] = at[u]
         /\ \/ /\ pc'[t] = "l0" /\ at'[t] = at[t] + 1 /\ chain'[t] = chain[t]
               /\ at[t] < Len(chain[t]) /\ acked' = acked
            \/ /\ pc'[t] = "idle"
               /\ at[t] >= Len(chain[t])
               /\ acked' = acked \cup {h \in Names(chain[t]) : Present(idx[h])}
  <1> t \in Threads /\ Writers \subseteq Threads BY DEF Threads
  <1>1. CASE at[t] < Len(chain[t]) BY <1>1 DEF NextBlock, TypeOK, Reply
  <1>2. CASE at[t] >= Len(chain[t]) BY <1>2 DEF NextBlock, TypeOK, Reply
  <1> QED BY <1>1, <1>2, SMTT(30) DEF TypeOK

\* Where a step that is not of the index loop leaves the writers.
LEMMA OutsideLoop ==
  ASSUME TypeOK, Next, \A t \in Writers : ~IndexL0(t) /\ ~IndexL1(t)
  PROVE  \A u \in Writers :
            \/ pc'[u] = pc[u] /\ chain'[u] = chain[u] /\ at'[u] = at[u]
            \/ pc'[u] \notin {"l0", "l1"}
            \/ pc'[u] = "l0" /\ chain'[u] = chain[u] /\ at'[u] = 1 /\ PutJoin(u)
  <1> USE DEF storeVars, indexVars, procVars, threadVars, historyVars
  <1> SUFFICES ASSUME NEW u \in Writers
               PROVE  \/ pc'[u] = pc[u] /\ chain'[u] = chain[u] /\ at'[u] = at[u]
                      \/ pc'[u] \notin {"l0", "l1"}
                      \/ pc'[u] = "l0" /\ chain'[u] = chain[u] /\ at'[u] = 1 /\ PutJoin(u)
    OBVIOUS
  <1> u \in Threads BY DEF Threads
  <1>1. ASSUME NEW t \in Writers, PutJoin(t)
        PROVE  \/ pc'[u] = pc[u] /\ chain'[u] = chain[u] /\ at'[u] = at[u]
               \/ pc'[u] \notin {"l0", "l1"}
               \/ pc'[u] = "l0" /\ chain'[u] = chain[u] /\ at'[u] = 1 /\ PutJoin(u)
    <2> t \in Threads BY DEF Threads
    <2>1. CASE u = t BY <1>1, <2>1 DEF PutJoin, Reply, TypeOK
    <2>2. CASE u # t BY <1>1, <2>2 DEF PutJoin, Reply, TypeOK
    <2> QED BY <2>1, <2>2
  <1>2. ASSUME NEW t \in Threads, NEW c, NEW p \in {"put", "get"}, Fanout(t, c, p), UNCHANGED at
        PROVE  \/ pc'[u] = pc[u] /\ chain'[u] = chain[u] /\ at'[u] = at[u]
               \/ pc'[u] \notin {"l0", "l1"}
    BY <1>2 DEF Fanout, TypeOK
  <1>3. ASSUME NEW t \in Threads, Reply(t)
        PROVE  \/ pc'[u] = pc[u] /\ chain'[u] = chain[u] /\ at'[u] = at[u]
               \/ pc'[u] \notin {"l0", "l1"}
    BY <1>3 DEF Reply, TypeOK
  <1>4. CASE \E t \in Writers : (\E c \in Chains : PutBlocks(t, c)) \/ Put(t)
    <2>1. PICK t \in Writers : (\E c \in Chains : PutBlocks(t, c)) \/ Put(t) BY <1>4
    <2> t \in Threads BY DEF Threads
    <2>2. CASE \E c \in Chains : PutBlocks(t, c) BY <1>2, <2>2 DEF PutBlocks
    <2>3. CASE \E h \in Blocks : PutCaches(t, h) \/ PutObject(t, h)
      BY <2>3 DEF PutCaches, PutObject
    <2> QED BY <1>1, <2>1, <2>2, <2>3 DEF Put
  <1>5. CASE \E t \in Readers : (\E c \in Chains : LookupBlockPrefix(t, c) \/ GetBlocks(t, c)) \/ Get(t)
    <2>1. PICK t \in Readers : (\E c \in Chains : LookupBlockPrefix(t, c) \/ GetBlocks(t, c)) \/ Get(t)
      BY <1>5
    <2> t \in Threads BY DEF Threads
    <2>2. CASE \E c \in Chains : LookupBlockPrefix(t, c) \/ GetBlocks(t, c)
      BY <1>2, <2>2 DEF LookupBlockPrefix, GetBlocks
    <2>3. CASE \E h \in Blocks : GetFlat(t, h) \/ GetFoyer(t, h) \/ GetObject(t, h)
                                    \/ GetFill(t, h) \/ GetGiveUp(t, h)
      BY <2>3 DEF GetFlat, GetFoyer, GetObject, GetFill, GetGiveUp
    <2>4. CASE GetJoin(t)
      <3>1. Reply(t) BY <2>4 DEF GetJoin
      <3> QED BY <1>3, <3>1
    <2> QED BY <2>1, <2>2, <2>3, <2>4 DEF Get
  <1>6. CASE Evict
    BY <1>6 DEF Evict, EvScan, EvTake, EvRemoveL1, EvRemoveFlat, EvDeleteObject, EvEnd
  <1>7. CASE (\E h \in Blocks : FoyerAge(h)) \/ ClearFoyer \/ RestoreFromS3
    BY <1>7 DEF FoyerAge, ClearFoyer, RestoreFromS3
  <1>8. CASE CrashRestart BY <1>8 DEF CrashRestart
  <1> QED BY <1>4, <1>5, <1>6, <1>7, <1>8 DEF Next

\* Outside the index loops of the puts, a daemon only drops entries, or loads
\* L0 from L1.
LEMMA OutsideIndex ==
  ASSUME TypeOK, Next, Modes = {"daemon"}, \A t \in Writers : ~IndexL0(t) /\ ~IndexL1(t)
  PROVE  \A h \in Blocks : l0'[h] \in {l0[h], l1[h], NoMeta} /\ l1'[h] \in {l1[h], NoMeta}
  <1> USE DEF storeVars, indexVars, procVars, threadVars, historyVars
  <1>1. CASE \E t \in Writers : (\E c \in Chains : PutBlocks(t, c)) \/ Put(t)
    BY <1>1, PutFrame
  <1>2. CASE \E t \in Readers : (\E c \in Chains : LookupBlockPrefix(t, c) \/ GetBlocks(t, c)) \/ Get(t)
    BY <1>2, GetFrame
  <1>3. CASE Evict
    BY <1>3 DEF Evict, EvScan, EvTake, EvRemoveL1, EvRemoveFlat, EvDeleteObject, EvEnd, Without
  <1>4. CASE (\E h \in Blocks : FoyerAge(h)) \/ ClearFoyer \/ RestoreFromS3
    BY <1>4 DEF FoyerAge, ClearFoyer, RestoreFromS3
  <1>5. CASE CrashRestart
    <2>1. PICK opened, listed : l0' = Bootstrap("daemon", opened, listed)
      BY <1>5 DEF CrashRestart
    <2> QED BY <1>5, <2>1 DEF CrashRestart, Bootstrap
  <1> QED BY <1>1, <1>2, <1>3, <1>4, <1>5 DEF Next

\* History only grows outside the index loops: published by the join of a batch
\* whose objects are all stored, acked by a reply.
LEMMA OutsideHistory ==
  ASSUME Next, \A t \in Writers : ~IndexL0(t) /\ ~IndexL1(t)
  PROVE  published \subseteq published' /\ acked' \subseteq acked
  <1> USE DEF storeVars, indexVars, procVars, threadVars, historyVars
  <1>1. CASE \E t \in Writers : (\E c \in Chains : PutBlocks(t, c)) \/ Put(t)
    BY <1>1, PutFrame
  <1>2. CASE \E t \in Readers : (\E c \in Chains : LookupBlockPrefix(t, c) \/ GetBlocks(t, c)) \/ Get(t)
    BY <1>2, GetFrame
  <1>3. CASE Evict
    BY <1>3 DEF Evict, EvScan, EvTake, EvRemoveL1, EvRemoveFlat, EvDeleteObject, EvEnd
  <1>4. CASE (\E h \in Blocks : FoyerAge(h)) \/ ClearFoyer \/ RestoreFromS3 \/ CrashRestart
    BY <1>4 DEF FoyerAge, ClearFoyer, RestoreFromS3, CrashRestart
  <1> QED BY <1>1, <1>2, <1>3, <1>4 DEF Next

\* PublishedInv is inductive for a daemon.
LEMMA PublishedInductive ==
  ASSUME Modes = {"daemon"}
  PROVE  PublishedInv /\ [Next]_vars => PublishedInv'
  <1> SUFFICES ASSUME PublishedInv, [Next]_vars PROVE PublishedInv'
    OBVIOUS
  <1> USE DEF storeVars, indexVars, procVars, threadVars, historyVars
  <1> TypeOK BY DEF PublishedInv
  <1>1. TypeOK' BY NextType
  <1>2. CASE UNCHANGED vars
    BY <1>1, <1>2 DEF vars, PublishedInv, NamesPublished, LoopPublished
  <1>3. ASSUME NEW t \in Writers, IndexL0(t) \/ IndexL1(t) PROVE PublishedInv'
    <2>1. pc[t] \in {"l0", "l1"} /\ UNCHANGED published BY <1>3 DEF IndexL0, IndexL1
    <2>2. chain[t][at[t]] \in published
      BY <2>1, CurrentNamed DEF PublishedInv, LoopPublished
    <2>3. \A h \in Blocks : h # chain[t][at[t]] => l0'[h] = l0[h] /\ l1'[h] = l1[h]
      BY <1>3 DEF IndexL0, IndexL1, TypeOK
    <2>4. NamesPublished'
      <3>1. ASSUME NEW h \in Blocks, Present(l0'[h]) \/ Present(l1'[h])
            PROVE  h \in published
        <4>1. CASE h = chain[t][at[t]] BY <2>2, <4>1
        <4>2. CASE h # chain[t][at[t]]
          <5>1. Present(l0[h]) \/ Present(l1[h]) BY <2>3, <3>1, <4>2
          <5> QED BY <5>1 DEF PublishedInv, NamesPublished
        <4> QED BY <4>1, <4>2
      <3> QED BY <2>1, <3>1 DEF NamesPublished
    <2>5. ASSUME NEW u \in Writers, pc'[u] \in {"l0", "l1"}
          PROVE  pc[u] \in {"l0", "l1"} /\ chain'[u] = chain[u]
      <3> t \in Threads /\ u \in Threads BY DEF Threads
      <3>1. CASE \E idx : NextBlock(t, idx) BY <2>1, <2>5, <3>1, NextBlockLoop
      <3>2. CASE \E p : pc' = [pc EXCEPT ![t] = p] /\ UNCHANGED chain
        BY <2>1, <2>5, <3>2 DEF TypeOK
      <3> QED BY <1>3, <3>1, <3>2 DEF IndexL0, IndexL1
    <2>6. LoopPublished' BY <2>1, <2>5 DEF PublishedInv, LoopPublished
    <2> QED BY <1>1, <2>4, <2>6 DEF PublishedInv
  <1>4. CASE Next /\ \A t \in Writers : ~IndexL0(t) /\ ~IndexL1(t)
    <2>1. NamesPublished'
      BY <1>4, OutsideIndex, OutsideHistory, SMTT(30) DEF PublishedInv, NamesPublished, Present, NoMeta
    <2>2. ASSUME NEW u \in Writers, pc'[u] \in {"l0", "l1"}
          PROVE  Names(chain'[u]) \subseteq published'
      <3>1. CASE pc'[u] = pc[u] /\ chain'[u] = chain[u]
        BY <1>4, <2>2, <3>1, OutsideHistory DEF PublishedInv, LoopPublished
      <3>2. CASE pc'[u] = "l0" /\ chain'[u] = chain[u] /\ PutJoin(u)
        <4> u \in Threads BY DEF Threads
        <4>1. ~Reply(u) BY <2>2 DEF Reply, TypeOK
        <4> QED BY <3>2, <4>1 DEF PutJoin
      <3> QED BY <1>4, <2>2, <3>1, <3>2, OutsideLoop
    <2>3. LoopPublished' BY <2>2 DEF LoopPublished
    <2> QED BY <1>1, <2>1, <2>3 DEF PublishedInv
  <1> QED BY <1>2, <1>3, <1>4

\* A daemon never matches a block of a batch that failed or was cut off before
\* all of its objects were stored, whatever crashes, eviction and SlateDB
\* failures there are.
THEOREM DaemonPublishedOnly ==
  ASSUME Modes = {"daemon"}
  PROVE  Spec => []IndexPublishedOnly
  <1>1. Init => PublishedInv
    <2> SUFFICES ASSUME Init PROVE PublishedInv
      OBVIOUS
    <2>1. TypeOK BY InitType
    <2>2. NamesPublished BY SMTT(30) DEF Init, NamesPublished, Present, NoMeta
    <2>3. LoopPublished BY DEF Init, LoopPublished, Threads
    <2> QED BY <2>1, <2>2, <2>3 DEF PublishedInv
  <1>2. PublishedInv => IndexPublishedOnly
    BY DEF PublishedInv, NamesPublished, IndexPublishedOnly, Indexed
  <1>3. PublishedInv /\ [Next]_vars => PublishedInv'
    BY PublishedInductive
  <1> QED BY <1>1, <1>2, <1>3, PTL DEF Spec

-----------------------------------------------------------------------------
\* In both index tiers.
Both(h) == Present(l0[h]) /\ Present(l1[h])

\* The daemon has SlateDB, and nothing evicts.
Steady == mode = "daemon" /\ l1open = TRUE /\ ev.pc = "idle"

\* What is acknowledged is in both tiers, and so is what an index loop has
\* passed; the loop writes L0 before L1.
AckedBoth == acked \subseteq {h \in Blocks : Both(h)}
LoopBoth ==
    \A t \in Writers :
        /\ pc[t] \in {"l0", "l1"} => \A i \in 1..(at[t] - 1) : Both(chain[t][i])
        /\ pc[t] = "l1" => Present(l0[chain[t][at[t]]])

\* The inductive invariant.
DurableInv == OrderInv /\ Steady /\ AckedBoth /\ LoopBoth

\* No step drops an entry of either tier.
LEMMA NothingDropped ==
  ASSUME Modes = {"daemon"}, Budget = 0, L1MayFail = FALSE, DurableInv, Next,
         \A t \in Writers : ~IndexL0(t) /\ ~IndexL1(t)
  PROVE  Steady' /\ \A h \in Blocks : Both(h) => Both(h)'
  <1> USE DEF storeVars, indexVars, procVars, threadVars, historyVars
  <1> ~Evict
    BY SMTT(30) DEF DurableInv, Steady, Evict, EvScan, EvTake, EvRemoveL1, EvRemoveFlat, EvDeleteObject, EvEnd
  <1>1. CASE \E t \in Writers : (\E c \in Chains : PutBlocks(t, c)) \/ Put(t)
    BY <1>1 DEF PutBlocks, Put, PutCaches, PutObject, PutJoin, DurableInv, Steady, Both
  <1>2. CASE \E t \in Readers : (\E c \in Chains : LookupBlockPrefix(t, c) \/ GetBlocks(t, c)) \/ Get(t)
    BY <1>2 DEF LookupBlockPrefix, GetBlocks, Get, GetFlat, GetFoyer, GetObject, GetFill,
                GetGiveUp, GetJoin, DurableInv, Steady, Both
  <1>3. CASE (\E h \in Blocks : FoyerAge(h)) \/ ClearFoyer \/ RestoreFromS3
    BY <1>3 DEF FoyerAge, ClearFoyer, RestoreFromS3, DurableInv, Steady, Both
  <1>4. CASE CrashRestart
    <2>1. PICK listed : l0' = Bootstrap("daemon", TRUE, listed) /\ mode' = "daemon" /\ l1open' = TRUE
      BY <1>4 DEF CrashRestart
    <2>2. l1' = l1 /\ ev'.pc = "idle" BY <1>4 DEF CrashRestart, EvIdle
    <2>3. \A h \in Blocks : l0'[h] = l1[h] BY <2>1 DEF Bootstrap
    <2> QED BY <2>1, <2>2, <2>3 DEF Steady, Both
  <1> QED BY <1>1, <1>2, <1>3, <1>4 DEF Next

\* The steps of an index loop preserve the invariant.
LEMMA LoopDurable ==
  ASSUME L1MayFail = FALSE, DurableInv, OrderInv', NEW t \in Writers, IndexL0(t) \/ IndexL1(t)
  PROVE  DurableInv'
  <1> USE DEF storeVars, indexVars, procVars, threadVars, historyVars
  <1> t \in Threads /\ Writers \subseteq Threads BY DEF Threads
  <1> TypeOK BY DEF DurableInv, OrderInv
  <1> DEFINE b == chain[t][at[t]]
  <1>1. pc[t] \in {"l0", "l1"} BY DEF IndexL0, IndexL1
  <1>2. b \in Blocks BY <1>1, CurrentNamed
  <1>3. at[t] \in 1..Len(chain[t]) /\ chain[t] \in Seq(Blocks)
    BY <1>1, SMTT(30) DEF TypeOK
  <1>4. Steady' BY DEF IndexL0, IndexL1, DurableInv, Steady
  <1>5. CASE IndexL0(t)
    <2>1. /\ pc' = [pc EXCEPT ![t] = "l1"] /\ UNCHANGED <<chain, at, acked, l1>>
          /\ l0' = [l0 EXCEPT ![b] = [stamp |-> clock + 1, bytes |-> SizeOf[b]]]
      BY <1>5 DEF IndexL0, WritesL1, DurableInv, Steady
    <2>2. l0'[b].stamp = clock + 1 /\ \A h \in Blocks : h # b => l0'[h] = l0[h]
      BY <1>2, <2>1 DEF TypeOK
    <2>3. Present(l0'[b]) BY <2>2, SMTT(30) DEF Present, TypeOK
    <2>4. \A h \in Blocks : Both(h) => Present(l0'[h]) /\ Present(l1'[h])
      <3> SUFFICES ASSUME NEW h \in Blocks, Both(h) PROVE Present(l0'[h]) /\ Present(l1'[h])
        OBVIOUS
      <3>1. CASE h = b BY <2>1, <2>3, <3>1 DEF Both
      <3>2. CASE h # b BY <2>1, <2>2, <3>2 DEF Both
      <3> QED BY <3>1, <3>2
    <2>5. AckedBoth' BY <2>1, <2>4 DEF DurableInv, AckedBoth, Both
    <2>6. ASSUME NEW u \in Writers
          PROVE  /\ pc'[u] \in {"l0", "l1"} =>
                       \A i \in 1..(at'[u] - 1) :
                          Present(l0'[chain'[u][i]]) /\ Present(l1'[chain'[u][i]])
                 /\ pc'[u] = "l1" => Present(l0'[chain'[u][at'[u]]])
      <3>1. pc'[u] \in {"l0", "l1"} => pc[u] \in {"l0", "l1"}
        BY <1>1, <2>1 DEF TypeOK
      <3>2. ASSUME pc'[u] \in {"l0", "l1"}, NEW i \in 1..(at'[u] - 1)
            PROVE  Present(l0'[chain'[u][i]]) /\ Present(l1'[chain'[u][i]])
        <4>1. Both(chain[u][i]) BY <2>1, <3>1, <3>2 DEF DurableInv, LoopBoth
        <4>2. at[u] <= Len(chain[u]) /\ at[u] \in Nat /\ chain[u] \in Seq(Blocks) BY DEF TypeOK
        <4>3. chain[u][i] \in Blocks BY <2>1, <3>2, <4>2, SMTT(30)
        <4> QED BY <2>1, <2>4, <4>1, <4>3
      <3>3. ASSUME pc'[u] = "l1" PROVE Present(l0'[chain'[u][at'[u]]])
        <4>1. CASE u = t BY <2>1, <2>3, <4>1
        <4>2. CASE u # t
          <5>1. pc[u] = "l1" BY <2>1, <3>3, <4>2 DEF TypeOK
          <5>2. Present(l0[chain[u][at[u]]]) BY <5>1 DEF DurableInv, LoopBoth
          <5>3. chain[u][at[u]] \in Blocks BY <5>1, CurrentNamed
          <5>4. Present(l0'[chain[u][at[u]]])
            <6>1. CASE chain[u][at[u]] = b BY <2>3, <6>1
            <6>2. CASE chain[u][at[u]] # b BY <2>2, <5>2, <5>3, <6>2
            <6> QED BY <6>1, <6>2
          <5> QED BY <2>1, <5>4
        <4> QED BY <4>1, <4>2
      <3> QED BY <3>2, <3>3
    <2>7. LoopBoth' BY <2>6 DEF LoopBoth, Both
    <2> QED BY <1>4, <2>5, <2>7 DEF DurableInv
  <1>6. CASE IndexL1(t)
    <2>1. /\ NextBlock(t, l0) /\ UNCHANGED <<l0, clock>>
          /\ l1' = [l1 EXCEPT ![b] = [stamp |-> clock, bytes |-> SizeOf[b]]]
      BY <1>6 DEF IndexL1
    <2>2. Present(l0[b]) BY <1>6 DEF IndexL1, DurableInv, LoopBoth
    <2>3. clock > 0 /\ clock \in Nat
      <3>1. l0[b].stamp \in Nat /\ clock \in Nat BY <1>2 DEF TypeOK, Meta
      <3>2. l0[b].stamp <= clock BY <1>2 DEF DurableInv, OrderInv, StampsPast
      <3> QED BY <2>2, <3>1, <3>2, SMTT(30) DEF Present
    <2>4. l1'[b].stamp = clock /\ \A h \in Blocks : h # b => l1'[h] = l1[h]
      BY <1>2, <2>1 DEF TypeOK
    <2>5. Present(l0'[b]) /\ Present(l1'[b])
      <3>1. Present(l1'[b]) BY <2>3, <2>4 DEF Present
      <3>2. l0' = l0 BY <2>1
      <3> QED BY <2>2, <3>1, <3>2
    <2>6. \A h \in Blocks : Both(h) => Present(l0'[h]) /\ Present(l1'[h])
      <3> SUFFICES ASSUME NEW h \in Blocks, Both(h) PROVE Present(l0'[h]) /\ Present(l1'[h])
        OBVIOUS
      <3>1. CASE h = b BY <2>5, <3>1
      <3>2. CASE h # b BY <2>1, <2>4, <3>2 DEF Both
      <3> QED BY <3>1, <3>2
    <2>7. \A i \in 1..at[t] : Present(l0'[chain[t][i]]) /\ Present(l1'[chain[t][i]])
      <3> SUFFICES ASSUME NEW i \in 1..at[t]
                   PROVE  Present(l0'[chain[t][i]]) /\ Present(l1'[chain[t][i]])
        OBVIOUS
      <3>1. CASE i = at[t] BY <2>5, <3>1
      <3>2. CASE i # at[t]
        <4>1. i \in 1..(at[t] - 1) /\ chain[t][i] \in Blocks BY <1>3, <3>2, SMTT(30)
        <4>2. Both(chain[t][i]) BY <1>1, <4>1 DEF DurableInv, LoopBoth
        <4> QED BY <2>6, <4>1, <4>2
      <3> QED BY <3>1, <3>2
    <2>8. AckedBoth'
      <3>1. \A h \in acked : h \in Blocks /\ Present(l0'[h]) /\ Present(l1'[h])
        BY <2>6 DEF DurableInv, AckedBoth
      <3>2. CASE acked' = acked BY <3>1, <3>2 DEF AckedBoth, Both
      <3>3. CASE at[t] >= Len(chain[t]) /\ acked' \subseteq acked \cup Names(chain[t])
        <4>1. \A h \in Names(chain[t]) : h \in Blocks /\ Present(l0'[h]) /\ Present(l1'[h])
          BY <1>3, <2>7, <3>3, SMTT(30) DEF Names
        <4> QED BY <3>1, <3>3, <4>1 DEF AckedBoth, Both
      <3> QED BY <2>1, <3>2, <3>3, NextBlockLoop
    <2>9. ASSUME NEW u \in Writers
          PROVE  /\ pc'[u] \in {"l0", "l1"} =>
                       \A i \in 1..(at'[u] - 1) :
                          Present(l0'[chain'[u][i]]) /\ Present(l1'[chain'[u][i]])
                 /\ pc'[u] = "l1" => Present(l0'[chain'[u][at'[u]]])
      <3>1. CASE u = t
        <4>1. CASE pc'[t] = "l0" /\ at'[t] = at[t] + 1 /\ chain'[t] = chain[t]
          <5>1. at'[u] - 1 = at[t] /\ chain'[u] = chain[t] /\ pc'[u] # "l1" BY <1>3, <3>1, <4>1, SMTT(30)
          <5> QED BY <2>7, <5>1
        <4>2. CASE pc'[t] = "idle" BY <3>1, <4>2
        <4> QED BY <2>1, <4>1, <4>2, NextBlockLoop
      <3>2. CASE u # t
        <4>1. pc'[u] = pc[u] /\ chain'[u] = chain[u] /\ at'[u] = at[u]
          BY <2>1, <3>2, NextBlockLoop
        <4>2. ASSUME pc[u] \in {"l0", "l1"}, NEW i \in 1..(at[u] - 1)
              PROVE  Present(l0'[chain[u][i]]) /\ Present(l1'[chain[u][i]])
          <5>1. at[u] <= Len(chain[u]) /\ at[u] \in Nat /\ chain[u] \in Seq(Blocks) BY DEF TypeOK
          <5>2. chain[u][i] \in Blocks BY <5>1, SMTT(30)
          <5>3. Both(chain[u][i]) BY <4>2 DEF DurableInv, LoopBoth
          <5> QED BY <2>6, <5>2, <5>3
        <4>3. pc[u] = "l1" => Present(l0'[chain[u][at[u]]])
          BY <2>1 DEF DurableInv, LoopBoth
        <4> QED BY <4>1, <4>2, <4>3
      <3> QED BY <3>1, <3>2
    <2>10. LoopBoth' BY <2>9 DEF LoopBoth, Both
    <2> QED BY <1>4, <2>8, <2>10 DEF DurableInv
  <1> QED BY <1>5, <1>6

\* DurableInv is inductive.
LEMMA DurableInductive ==
  ASSUME Modes = {"daemon"}, Budget = 0, L1MayFail = FALSE
  PROVE  DurableInv /\ [Next]_vars => DurableInv'
  <1> SUFFICES ASSUME DurableInv, [Next]_vars PROVE DurableInv'
    OBVIOUS
  <1> USE DEF storeVars, indexVars, procVars, threadVars, historyVars
  <1> TypeOK BY DEF DurableInv, OrderInv
  <1>1. OrderInv' BY OrderInductive DEF DurableInv
  <1>2. CASE UNCHANGED vars
    BY <1>1, <1>2 DEF vars, DurableInv, Steady, AckedBoth, LoopBoth, Both
  <1>3. ASSUME NEW t \in Writers, IndexL0(t) \/ IndexL1(t) PROVE DurableInv'
    BY <1>1, <1>3, LoopDurable
  <1>4. CASE Next /\ \A t \in Writers : ~IndexL0(t) /\ ~IndexL1(t)
    <2>1. Steady' /\ \A h \in Blocks : Both(h) => Present(l0'[h]) /\ Present(l1'[h])
      BY <1>4, NothingDropped DEF Both
    <2>2. AckedBoth' BY <1>4, <2>1, OutsideHistory DEF DurableInv, AckedBoth, Both
    <2>3. ASSUME NEW u \in Writers
          PROVE  /\ pc'[u] \in {"l0", "l1"} =>
                       \A i \in 1..(at'[u] - 1) :
                          Present(l0'[chain'[u][i]]) /\ Present(l1'[chain'[u][i]])
                 /\ pc'[u] = "l1" => Present(l0'[chain'[u][at'[u]]])
      <3> u \in Threads BY DEF Threads
      <3>1. CASE pc'[u] = pc[u] /\ chain'[u] = chain[u] /\ at'[u] = at[u]
        <4>1. ASSUME pc[u] \in {"l0", "l1"}, NEW i \in 1..(at[u] - 1)
              PROVE  Present(l0'[chain[u][i]]) /\ Present(l1'[chain[u][i]])
          <5>1. at[u] <= Len(chain[u]) /\ at[u] \in Nat /\ chain[u] \in Seq(Blocks) BY DEF TypeOK
          <5>2. chain[u][i] \in Blocks BY <5>1, SMTT(30)
          <5>3. Both(chain[u][i]) BY <4>1 DEF DurableInv, LoopBoth
          <5> QED BY <2>1, <5>2, <5>3
        <4>2. ASSUME pc'[u] = "l1" PROVE Present(l0'[chain[u][at[u]]])
          <5>1. Present(l0[chain[u][at[u]]]) BY <3>1, <4>2 DEF DurableInv, LoopBoth
          <5>2. ~CrashRestart BY <4>2 DEF CrashRestart
          <5>3. l0' = l0
            BY <1>4, <5>2
            DEF Next, PutBlocks, Put, PutCaches, PutObject, PutJoin, LookupBlockPrefix, GetBlocks,
                Get, GetFlat, GetFoyer, GetObject, GetFill, GetGiveUp, GetJoin, FoyerAge,
                ClearFoyer, RestoreFromS3, Evict, EvScan, EvTake, EvRemoveL1, EvRemoveFlat,
                EvDeleteObject, EvEnd, DurableInv, Steady
          <5> QED BY <5>1, <5>3
        <4> QED BY <3>1, <4>1, <4>2
      <3>2. CASE pc'[u] \notin {"l0", "l1"} BY <3>2
      <3>3. CASE pc'[u] = "l0" /\ at'[u] = 1 BY <3>3, SMTT(30)
      <3> QED BY <1>4, <3>1, <3>2, <3>3, OutsideLoop
    <2>4. LoopBoth' BY <2>3 DEF LoopBoth, Both
    <2> QED BY <1>1, <2>1, <2>2, <2>4 DEF DurableInv
  <1> QED BY <1>2, <1>3, <1>4

\* Durable after the acknowledgement: as long as SlateDB opens and writes and
\* eviction is off, a lookup of an acknowledged chain matches all of it, in
\* the daemon that acknowledged it and in every one started after a crash.
THEOREM DurableAfterAck ==
  ASSUME Modes = {"daemon"}, Budget = 0, L1MayFail = FALSE
  PROVE  Spec => []LookupSeesAcked
  <1>1. Init => DurableInv
    <2> SUFFICES ASSUME Init PROVE DurableInv
      OBVIOUS
    <2>1. OrderInv BY InitOrder
    <2>2. Steady BY DEF Init, Steady, EvIdle
    <2>3. AckedBoth BY DEF Init, AckedBoth
    <2>4. LoopBoth BY DEF Init, LoopBoth, Threads
    <2> QED BY <2>1, <2>2, <2>3, <2>4 DEF DurableInv
  <1>2. DurableInv => LookupSeesAcked
    <2> SUFFICES ASSUME DurableInv, NEW c \in Chains, NEW k \in 0..Len(c),
                        Names(c) \subseteq acked, LongestPrefix(c, k), k # Len(c)
                 PROVE  FALSE
      BY DEF LookupSeesAcked
    <2>1. c \in Seq(Blocks) /\ Len(c) \in Nat BY BlocksAssumption, SMTT(30)
    <2>2. k + 1 \in 1..Len(c) BY <2>1, SMTT(30)
    <2>3. c[k + 1] \in Names(c) BY <2>1, <2>2, SMTT(30) DEF Names
    <2>4. Present(l0[c[k + 1]]) BY <2>3 DEF DurableInv, AckedBoth, Both
    <2>5. ~Present(l0[c[k + 1]]) BY <2>1, SMTT(30) DEF LongestPrefix
    <2> QED BY <2>4, <2>5
  <1>3. DurableInv /\ [Next]_vars => DurableInv'
    BY DurableInductive
  <1> QED BY <1>1, <1>2, <1>3, PTL DEF Spec

=============================================================================
