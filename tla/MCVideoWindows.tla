--------------------------- MODULE MCVideoWindows ---------------------------
(* VideoWindows with a pool of two windows for three remote tracks, so that *)
(* the pool runs empty, and two connections that may announce the same id.  *)
EXTENDS VideoWindows

CONSTANTS w1, w2

MCWindows == {w1, w2}
MCPool == <<w1, w2>>
=============================================================================
