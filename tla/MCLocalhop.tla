------------------------------ MODULE MCLocalhop ------------------------------
(* A producer z, two nodes x and y that hear it and each other, and a node w *)
(* that hears y only.                                                        *)
EXTENDS LocalhopStrategy

CONSTANTS w, x, y, z

MCLink ==
  {l \in Node \X Node : l[1] # l[2]} \ ({<<w, x>>, <<x, w>>, <<w, z>>, <<z, w>>})
=============================================================================
