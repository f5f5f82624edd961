---------------------------- MODULE MCChunkPool ----------------------------
(* Values of the constants of ChunkPool for TLC.                           *)
EXTENDS ChunkPool, TLC

CONSTANTS a, b, c1, c2, c3, t1, t2

(* Chunks of one array all charge the same: their stored tiles.            *)
UnitWeight == [S \in SUBSET Chunk |-> Cardinality(S)]

(* Arrays of different shapes: c1 is a chunk of the larger one.            *)
MixedWeight ==
  [S \in SUBSET Chunk |-> Cardinality(S) + (IF c1 \in S THEN 1 ELSE 0)]

NoBadTile == {}
OneBadTile == {<<c1, t1>>}

PassSymmetric == Permutations(Pass)

(* With unit weights and chunks that fail alike, tiles and chunks are too. *)
AllSymmetric == Permutations(Pass) \cup Permutations(Chunk) \cup Permutations(Tile)
=============================================================================
