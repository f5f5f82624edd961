--------------------------- MODULE ChunkTransforms ---------------------------
(***************************************************************************)
(* Chunk transforms: what they may be and to which arrays they apply       *)
(* (insitubatch/transforms.py), how a pipeline of them is run on a chunk   *)
(* and identified in the cache (insitubatch/pool.py).                      *)
(*                                                                         *)
(* A transform has more fields than ArrayGeometry sees: yields, the inner  *)
(* shape it really returns (<<>> where it keeps its input's), casts, the   *)
(* size of the elements it returns, its identity [key, code], and stats,   *)
(* for a fitted transform the arrays it has a mean and a std for.          *)
(*                                                                         *)
(* Data is an array [shape, at], at a function of its index tuples; an     *)
(* element has a field via, the transforms it went through.                *)
(***************************************************************************)
EXTENDS ArrayGeometry

(* A transform that keeps the shape of its chunk, and one that declares    *)
(* another: the bare callable, applied to every array.                     *)
ChunkTransform(code) ==
  [scope |-> {}, declares |-> FALSE, inner |-> <<>>, item |-> 1,
   yields |-> <<>>, casts |-> 1, key |-> "", code |-> code, stats |-> <<>>]
ReshapingChunkTransform(code, inner, item) ==
  [ChunkTransform(code) EXCEPT !.declares = TRUE, !.inner = inner, !.item = item,
                               !.yields = inner, !.casts = item]
StandardScaler(mean, std, key) ==
  [ChunkTransform("standardize") EXCEPT !.key = key, !.stats = <<mean, std>>]

(* Mutant: a scope is not checked against the statistics.                  *)
AnyScope(t, arrays) == TRUE

(* validate_scope: a fitted transform refuses arrays it was not fitted for.*)
ValidScope(t, arrays) == t.stats # <<>> => arrays \subseteq t.stats[1] \cup t.stats[2]

(* applies: the scope may not be empty; one around another replaces it,    *)
(* for only the outermost is looked at.                                    *)
Applicable(t, arrays) == arrays # {} /\ ValidScope(t, arrays)
Applies(arrays, t) == [t EXCEPT !.scope = arrays]

(* The callable without its scope.                                         *)
Unwrapped(t) == [t EXCEPT !.scope = {}]

(* A chunk of an array that has no mean or no std: a KeyError.             *)
Raises(t, path) == t.stats # <<>> /\ path \notin t.stats[1] \cap t.stats[2]

RaisesOn(path, pipeline) ==
  \E i \in DOMAIN TransformsFor(path, pipeline) : Raises(TransformsFor(path, pipeline)[i], path)

-----------------------------------------------------------------------------
(* A decoded chunk: what was read, its data, and its first sample.         *)

ChunkRead(path, cid) == [array |-> path, index |-> cid]
DecodedChunk(g, cid, data) ==
  [read |-> ChunkRead(g.path, cid), data |-> data, offset |-> cid * SampleChunkSize(g)]

(* The callable is the user's.  It stands here for one that computes each  *)
(* element from one element of the same sample, the nearest if the inner   *)
(* shape changes.                                                          *)
Nearest(i, shape) ==
  [d \in DOMAIN shape |-> IF d \in DOMAIN i THEN MinOf(i[d], shape[d] - 1) ELSE 0]

Call(t, chunk) ==
  LET data == chunk.data
      shape == <<data.shape[1]>> \o IF t.yields = <<>> THEN Tail(data.shape) ELSE t.yields
  IN  [chunk EXCEPT !.data =
         [shape |-> shape,
          at    |-> [i \in Box(shape) |->
                       [data.at[Nearest(i, data.shape)] EXCEPT !.via = Append(@, t.code)]]]]

CallAll(transforms, chunk) ==
  LET after[n \in 0 .. Len(transforms)] ==
        IF n = 0 THEN chunk ELSE Call(transforms[n], after[n - 1])
  IN  after[Len(transforms)]

ApplyTransforms(chunk, pipeline) == CallAll(TransformsFor(chunk.read.array, pipeline), chunk)

(* insitubatch-check-transform runs a transform alone on one chunk and     *)
(* compares what comes out with what it declares, or with what went in.    *)
(* g: the geometry the tool opens, along the first axis.                   *)
CheckPasses(t, g, chunk) ==
  LET inner == Tail(Call(t, chunk).data.shape)
      declared == OutputGeometry(g, <<t>>)
  IN  /\ chunk.read.index \in Span(0, NChunks(g))
      /\ AppliesTo(t, g.path)
      /\ ~Raises(t, chunk.read.array)
      /\ IF t.declares THEN InnerShape(declared) = inner /\ declared.item = t.casts
                       ELSE InnerShape(g) = inner /\ g.item = t.casts

-----------------------------------------------------------------------------
(* The identity a cache entry is stamped with.  The token of a transform   *)
(* is the key its owner gives it, or else a hash of its code; its scope    *)
(* only decides whose identity it enters.                                  *)

TokenOf(t) == IF t.key # "" THEN <<"key", t.key>> ELSE <<"code", t.code, t.scope>>

(* Mutant: the wrapper that restricts a transform is hashed with it.       *)
TokenOfWrapper(t) == TokenOf(t)

TransformToken(t) == TokenOf(Unwrapped(t))

PipelineHash(path, pipeline) ==
  LET mine == TransformsFor(path, pipeline) IN [i \in DOMAIN mine |-> TransformToken(mine[i])]
=============================================================================
