----------------------------- MODULE MCReceive ------------------------------
(* The frames on their way through an engine, and the programs around them: *)
(* a receiver while it runs, the chain of GPU operators behind it, and the  *)
(* programs as they come up and go down.  A behaviour is one of VideoRx, of *)
(* GpuChain or of Lifecycle; the parts it is not about stand still in their *)
(* first state.                                                             *)
EXTENDS VideoRx, Lifecycle, MCGpuChain

VARIABLE part
allVars == <<vars, lifeVars, chainVars, part>>

\* One setting of the chain, for the behaviours that are not about it.
Still == CHOOSE s \in Setups : s.mode = "off"

Starts ==
  /\ part \in {"frames", "program", "chain"}
  /\ Init /\ LifeInit /\ ChainInit
  /\ part # "program" => app = RxSmoke
  /\ part # "chain" => setup = Still
Frames(A)  == part = "frames"  /\ A /\ UNCHANGED <<lifeVars, chainVars, part>>
Program_(A) == part = "program" /\ A /\ UNCHANGED <<vars, chainVars, part>>
Chain_(A) == part = "chain" /\ A /\ UNCHANGED <<vars, lifeVars, part>>
FramesStep == Frames(Next)
ProgramStep == Program_(LifeNext)
ChainStep == Chain_(ChainNext)

\* With the fairness of VideoRx's FairSpec, of Lifecycle and of GpuChain.
ReceiveSpec ==
  /\ Starts /\ [][FramesStep \/ ProgramStep \/ ChainStep]_allVars
  /\ WF_allVars(Frames(Poll)) /\ WF_allVars(Frames(Emit))
  /\ WF_allVars(Frames(Unpack)) /\ WF_allVars(Frames(GpuDone))
  /\ \A t \in {"poll", "stats", "audio"} : WF_allVars(Program_(TurnEnds(t)))
  /\ \A o \in Ops : WF_allVars(Program_(GoesOn(o)))
  /\ WF_allVars(ChainStep)
-----------------------------------------------------------------------------
\* Flows, of the behaviours that are the chain's.
ChainFlows == part = "chain" => Flows
=============================================================================
