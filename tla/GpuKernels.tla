------------------------------ MODULE GpuKernels ------------------------------
(***************************************************************************)
(* What the GPU promises the stream manager: a launched kernel occupies    *)
(* one of the slots until it has finished, every finished kernel is        *)
(* reported once, and kernels are reported in the order they finished.     *)
(***************************************************************************)
EXTENDS Naturals, Sequences, FiniteSets

CONSTANTS
  Kernels,    \* the kernels of a behaviour, by uid
  Slots       \* kernels the GPU runs at a time

VARIABLES
  onGpu,      \* kernels launched and not finished
  finished,   \* kernels finished and not reported
  fresh       \* kernels not launched yet

Init == onGpu = {} /\ finished = <<>> /\ fresh = Kernels

Launch == \E k \in fresh :
  /\ Cardinality(onGpu) < Slots
  /\ onGpu' = onGpu \cup {k}
  /\ fresh' = fresh \ {k}
  /\ UNCHANGED finished

Finish == \E k \in onGpu :
  /\ onGpu' = onGpu \ {k}
  /\ finished' = Append(finished, k)
  /\ UNCHANGED fresh

Report ==
  /\ finished # <<>>
  /\ finished' = Tail(finished)
  /\ UNCHANGED <<onGpu, fresh>>

Next == Launch \/ Finish \/ Report

Spec == Init /\ [][Next]_<<onGpu, finished, fresh>>
=============================================================================
