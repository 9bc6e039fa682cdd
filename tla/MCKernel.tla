------------------------------ MODULE MCKernel ------------------------------
(* Instances of Kernel for TLC. *)
EXTENDS KernelInv, KernelLife

=============================================================================
