------------------------ MODULE MCProgramActivation ------------------------
(* ProgramActivation on a small instance.  Execution objects that all ask    *)
(* for activation are alike, and so are networks: nothing but their identity *)
(* is looked at, and every property checked is an invariant.                 *)
EXTENDS ProgramActivation, TLC

Symmetry == Permutations(ExecObjs) \cup Permutations(Networks)

=============================================================================
