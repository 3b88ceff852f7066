------------------------------ MODULE RedisSeq ------------------------------
(***************************************************************************)
(* The per-user sequence counters kept in Redis (cache/src/redis/mod.rs).  *)
(* A counter is the hash behind "seq:<user>" or "send_seq:<user>" with the *)
(* two fields cur_seq and max_seq.  0 stands for an absent field: HINCRBY  *)
(* starts an absent cur_seq at 0, and no code path stores a max_seq of 0,  *)
(* because a `sequence` row is created with seq_step in both columns.      *)
(***************************************************************************)
EXTENDS Integers

Counter == [cur : Nat, max : Nat]

NoKey == [cur |-> 0, max |-> 0]

\* Mutant: only max_seq is restored.
SetSeqFromZero(v) == [cur |-> 0, max |-> v]

\* Mutant: the second field is not written.
SetSeqNoMax(v) == [cur |-> v]

\* set_seq and set_send_seq write the same value to both fields.
SetSeq(v) == [cur |-> v, max |-> v]

\* The max_seq the script compares with: an absent one becomes the step.
KnownMax(c, step) == IF c.max = 0 THEN step ELSE c.max

\* The third value the scripts return: the new number passed the bound.
Updated(c, step) == c.cur + 1 > KnownMax(c, step)

\* The Lua scripts behind increase_seq, incr_send_seq and incr_group_seq
\* (the last one runs it for every member in one script).
IncrScript(c, step) ==
    [cur |-> c.cur + 1,
     max |-> IF Updated(c, step)
             THEN KnownMax(c, step) + step ELSE KnownMax(c, step)]
=============================================================================
