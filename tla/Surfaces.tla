------------------------------ MODULE Surfaces ------------------------------
(* What the surfaces of bess-emulator have in common: the broadcast of      *)
(* event batches that each of them receives, and the plant's clock.         *)
EXTENDS Integers

CONSTANTS
  EVENT_BACKLOG, \* sim.rs: the batches a slow receiver may leave waiting
  MaxTick,       \* bound: ticks of a run
  None           \* no value

ASSUME SurfacesAssumption == EVENT_BACKLOG \in Nat \ {0} /\ MaxTick \in Nat
=============================================================================
