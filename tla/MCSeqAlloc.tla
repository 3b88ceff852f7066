----------------------------- MODULE MCSeqAlloc -----------------------------
(* Small instances of SeqAlloc for TLC.                                    *)
EXTENDS SeqAlloc
=============================================================================
