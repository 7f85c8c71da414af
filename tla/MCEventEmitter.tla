--------------------------- MODULE MCEventEmitter ---------------------------
(* EventEmitter for TLC: the handlers are interchangeable.                  *)
EXTENDS EventEmitter

HandlerSymmetry == Permutations(Handler)
=============================================================================
