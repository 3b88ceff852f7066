---------------------------- MODULE MCShardedBox ----------------------------
(* Small instances of ShardedBox for TLC.                                  *)
EXTENDS ShardedBox, TLC

CONSTANTS a, b

\* Two users in different ranges, and two in the same one.
Apart == (a :> 0) @@ (b :> 1)

Together == (a :> 0) @@ (b :> 0)

\* Saving again and single requests over two months; pulling and cleaning over
\* three.
SavingOrCleaning ==
    {[range |-> Apart, ops |-> {"delete", "read", "ack"}, last |-> 5, saves |-> 2],
     [range |-> Together, ops |-> {"pull", "clean"}, last |-> 6, saves |-> 1]}

PullingApart == {[range |-> Apart, ops |-> {"pull"}, last |-> 6, saves |-> 1]}
=============================================================================
