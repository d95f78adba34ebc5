----------------------------- MODULE MCSyncPull -----------------------------
(* Instances of SyncPull for TLC. *)
EXTENDS SyncPull, TLC

\* Two rows in the first stream, one in the second.
TwoStreams == (1 :> 1) @@ (2 :> 1) @@ (3 :> 2)
\* Two rows in one stream.
OneStream == (1 :> 1) @@ (2 :> 1)
\* Three rows in one stream.
LongStream == OneStream @@ (3 :> 1)

\* A caller who sees every row, and every caller.
SeesAll == {[r \in Row |-> TRUE]}
SeesAny == [Row -> BOOLEAN]
=============================================================================
