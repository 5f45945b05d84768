---------------------------- MODULE MCBlockNode ----------------------------
(***************************************************************************)
(* Small instances of BlockNode: two blocks, put as a prompt and as its    *)
(* one-block prefix. With the tight sizes the two are over a budget of 25, *)
(* and without the first one within it but over its 90%.                   *)
(***************************************************************************)
EXTENDS BlockNode, TLC

CONSTANTS a, b, w1, w2, r1

MCChains == {<<a>>, <<a, b>>}
MCSizeOf == (a :> 10) @@ (b :> 20)
MCTightSizeOf == (a :> 3) @@ (b :> 23)

WriterSymmetry == Permutations({w1, w2})

============================================================================
