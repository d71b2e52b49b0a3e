--------------------------- MODULE MCClusterMulti ---------------------------
EXTENDS ClusterMulti, TLC

CONSTANTS k1, k2, k3  \* the keys, as model values

\* k1 and k2 share a slot (a hash tag, say); k3 is alone in another
MCSlotOf == (k1 :> 0) @@ (k2 :> 0) @@ (k3 :> 1)
\* MGet(k3, k1, k2): the argument order differs from the slot order
MCKeySeq == <<k3, k1, k2>>
=============================================================================
