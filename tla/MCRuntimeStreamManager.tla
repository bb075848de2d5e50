----------------------- MODULE MCRuntimeStreamManager -----------------------
(* Three cameras compete for two slots; c2 and c3 normalise to one bin name. *)
EXTENDS RuntimeStreamManager

CONSTANTS c1, c2, c3, n1, n2

MCCameras == {c1, c2, c3}
MCBinNames == {n1, n2}
MCBinName == [c \in MCCameras |-> IF c = c1 THEN n1 ELSE n2]
=============================================================================
