-------------------------- MODULE MCInferenceQueue --------------------------
(***************************************************************************)
(* InferenceQueue with two objects, one of which takes the whole queue.    *)
(***************************************************************************)
EXTENDS InferenceQueue

CONSTANTS o1, o2

MCObjs == {o1, o2}
MCSize == o1 :> 1 @@ o2 :> 2

=============================================================================
