----------------------------- MODULE StoreGroup -----------------------------
(***************************************************************************)
(* What a dataset makes of the zarr group it is given: open_geometries and *)
(* its helpers in insitubatch/store.py.                                    *)
(*                                                                         *)
(* A group is a sequence of members, each a record                         *)
(*   [name, array, shape, chunks, shards, item, dims, attrs]               *)
(* where array tells an array from a subgroup, shards is <<>> for an array *)
(* that is not sharded, and dims and attrs are the dimension names as      *)
(* zarr-v3 metadata and as the xarray attribute of zarr-v2 spell them, <<>>*)
(* where there are none.                                                   *)
(***************************************************************************)
EXTENDS ArrayGeometry

(* Mutant: the chunk that is read inside a shard is taken for the object.  *)
InnerChunksOfShard(a) == a.chunks

(* The shape of one stored object, what a chunk key addresses.             *)
StorageChunks(a) == IF a.shards # <<>> THEN a.shards ELSE a.chunks

DimensionNames(a) == IF a.dims # <<>> THEN a.dims ELSE a.attrs

(* A grid mapping has no axis at all, a coordinate names its own.          *)
IsCoordinate(a) == a.shape = <<>> \/ DimensionNames(a) = <<a.name>>

Named(group, name) == CHOOSE a \in ToSet(group) : a.name = name

(* variables: the names asked for, <<>> where they are to be inferred.     *)
ChosenNames(group, variables) ==
  LET inferred == SelectSeq(group, LAMBDA a : a.array /\ ~IsCoordinate(a))
  IN  IF variables # <<>> THEN variables
                          ELSE [i \in DOMAIN inferred |-> inferred[i].name]

OpenGeometries(group, variables, axis) ==
  LET names == ChosenNames(group, variables)
  IN  [i \in DOMAIN names |->
         LET a == Named(group, names[i])
         IN  Unshifted(a.name, a.shape, StorageChunks(a), a.item, axis)]

(* It raises when nothing is left to batch, when a name is unknown or is a *)
(* subgroup's, and when an array has no such sample axis.                  *)
Opens(group, variables, axis) ==
  LET names == ChosenNames(group, variables)
      arrays == {a.name : a \in {b \in ToSet(group) : b.array}}
  IN  /\ names # <<>>
      /\ ToSet(names) \subseteq arrays
      /\ \A g \in ToSet(OpenGeometries(group, variables, axis)) : WellFormed(g)
=============================================================================
