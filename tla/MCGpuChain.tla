----------------------------- MODULE MCGpuChain -----------------------------
(* Instances of GpuChain: the default orders, a scaler with nothing to do,  *)
(* FRC behind the scaler, and a grid fed by an erratic source.              *)
EXTENDS GpuChain

Setup(mode, filters, identity, gaps, frames) ==
  [mode |-> mode, filters |-> filters, identity |-> identity, gaps |-> gaps,
   frames |-> frames]

MCSetups ==
  {Setup("off", <<"scale", "sharpen", "delay">>, FALSE, {2}, 6),
   Setup("off", <<"nr", "nr", "frc">>, TRUE, {2}, 6),
   Setup("retime", <<"scale", "frc">>, FALSE, {2}, 6),
   Setup("double", <<"frc", "scale">>, FALSE, {3}, 5),
   Setup("double", <<"scale", "frc">>, TRUE, {2}, 6),
   Setup("uniform", <<"frc", "scale">>, FALSE, {3, 17}, 4),
   Setup("uniform", <<"frc", "scale">>, TRUE, {3, 11}, 4),
   Setup("uniform", <<"frc", "scale">>, TRUE, {3, -2}, 5),
   Setup("uniform", <<"scale", "frc">>, FALSE, {1}, 6)}

\* Explicit orders with FRC last and no scaler.
BurstSetups == {Setup("double", <<"nr", "frc">>, FALSE, {2}, 6),
                Setup("uniform", <<"frc">>, TRUE, {2}, 6)}

ASSUME InstanceSpaced == Spaced
=============================================================================
