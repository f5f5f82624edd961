---------------------------- MODULE MCCacheDir ----------------------------
(* Values of the constants of CacheDir for TLC.                            *)
EXTENDS CacheDir, TLC

CONSTANTS warm, edit, spill, reader, viewer, old, kx, ky, x, y, f, g, v3, v4

(* Two arrays of one chunk each.                                           *)
TwoKeys == (kx :> x) @@ (ky :> y)

(* Who opens the directory, and for what.                                  *)
KindOf ==
  [p \in Proc |-> IF p = spill THEN "spill"
                  ELSE IF p \in {reader, viewer} THEN "readonly" ELSE "persist"]

(* The run that edits its transforms reads one array only.                 *)
ReadsOf == [p \in Proc |-> IF p = edit THEN {x} ELSE {x, y}]

(* Its pipeline for that array is another one.                             *)
EditedFingerprint == [p \in Proc |-> [q \in Array |-> IF p \in {edit, spill} /\ q = x THEN g ELSE f]]

(* One run was installed with another manifest format.                     *)
Formats == [p \in Proc |-> IF p = old THEN v3 ELSE v4]

ReadersSymmetric == Permutations({reader, viewer})
===========================================================================
