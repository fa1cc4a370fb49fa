--------------------------- MODULE MCAmbientCapture ---------------------------
(* Two starts of the controller, two observations, one failed request.    *)
EXTENDS AmbientCapture
=============================================================================
