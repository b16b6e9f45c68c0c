------------------------- MODULE MCDeviceResources -------------------------
(***************************************************************************)
(* DeviceResources with interchangeable programs, networks, images and     *)
(* channels.                                                               *)
(***************************************************************************)
EXTENDS DeviceResources, TLC

Symmetry ==
  Permutations(Programs) \cup Permutations(Nets) \cup Permutations(Images)
    \cup Permutations(VCs)

=============================================================================
