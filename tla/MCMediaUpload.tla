-------------------------- MODULE MCMediaUpload --------------------------
(***************************************************************************)
(* Two uploads of slices of one buffer.                                    *)
(***************************************************************************)
EXTENDS MediaUpload

\* Two parts of one buffer, as buffer[:1] and buffer[1:3].
AdjacentSlices == {[off |-> 0, len |-> 1, cap |-> 4], [off |-> 1, len |-> 2, cap |-> 3]}

\* A key of its own for each upload.
MCGeneratedKey ==
    CHOOSE f \in [Uploads -> {[i \in 1..KeySize |-> b] : b \in {7, 200}}] :
        \A u, v \in Uploads : f[u] = f[v] => u = v
===========================================================================
