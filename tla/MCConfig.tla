------------------------------ MODULE MCConfig ------------------------------
(* Everything that works with the configuration: what the node advertises   *)
(* from it, what the engine makes of it, and the two panels of the page     *)
(* that edit it and connect receivers.  A behaviour is one of NodeState, of *)
(* EnginePlan, of Dashboard or of Routing, which share no variable.         *)
(* NodeState has rates in hundredths of a frame per second and a seed the   *)
(* daemon can also ask for; EnginePlan has 1/45 of the lines and of the     *)
(* descriptors.                                                             *)
EXTENDS NodeState, EnginePlan, Dashboard, Routing
CONSTANTS s1, m1, m2, g1, g2
VARIABLE part
allVars == <<vars, planVars, dashVars, routeVars, part>>

Seed == [size |-> s1, rate |-> 5994]

Raster(w, h) == [w |-> w, h |-> h]
HD  == Raster(1920, 24)
UHD == Raster(3840, 48)
MCTotal == [h \in {24, 48} |-> IF h = 24 THEN 25 ELSE 50]

\* Three senders that say what they send, in both codecs, and one that does not.
From(size, num, den, codec, says) ==
  [size |-> size, fps |-> [num |-> num, den |-> den], ip10 |-> codec, says |-> says]
MCSources ==
  {From(HD, 30000, 1001, FALSE, {"size", "rate"}), From(UHD, 60000, 1001, TRUE, {"size", "rate"}),
   From(UHD, 24, 1, FALSE, {"size", "rate"}), From(HD, 60000, 1001, FALSE, {})}

\* Both codecs in both rasters, every mode, default and own chains with and
\* without FRC, scaler and delay, a mode that is only staged, delays and fills
\* out of range.
Setting(out, codec, mode, old, filters, amounts, dv, da, fill) ==
  [out |-> out, ip10 |-> codec, mode |-> mode, frc |-> old, filters |-> filters,
   amounts |-> amounts, delayV |-> dv, delayA |-> da, fill |-> fill]
MCSettings ==
  {Setting(UHD, TRUE, 2, FALSE, <<>>, {}, 0, 0, 0),
   Setting(UHD, FALSE, 3, FALSE, <<>>, {"nr", "grain"}, 40, 0, 0),
   Setting(UHD, FALSE, 0, FALSE, <<"frc", "delay">>, {}, 200, 1200, 90),
   Setting(HD, FALSE, 1, FALSE, <<"scale", "frc", "delay">>, {"sharpen"}, 0, 300, 150),
   Setting(HD, TRUE, 0, TRUE, <<"procamp", "blur">>, {}, 10, 10, 0),
   Setting(UHD, FALSE, 2, TRUE, <<"scale", "frc">>, {}, -5, 20, 0),
   Setting(UHD, TRUE, 3, FALSE, <<"scale", "grain">>, {}, 0, 0, 0)}

\* Narrow and wide, fixed and moving schedule, every choice of the IP10 pacing.
Machine(w, latency, av, lead, burst, tx) ==
  [wide |-> w, latency |-> latency, avOffset |-> av, lead |-> lead, ip10Burst |-> burst,
   audioRx |-> TRUE, audioTx |-> tx]
MCMachines ==
  {Machine(FALSE, 105, 0, 8000, "unset", TRUE), Machine(TRUE, 105, 10, 8000, "unset", TRUE),
   Machine(FALSE, 0, 0, 4000, "0", TRUE), Machine(FALSE, 150, 5, 12000, "1", FALSE)}

ASSUME InstanceFits ==
  BridgeReaches /\ PacketsCounted /\ LinesHaveTime /\ RingsDeep /\ HeadersFit
-----------------------------------------------------------------------------
\* Three stages, two of them in the built-in catalog.
MCFull     == <<"frc", "scale", "delay">>
MCFallback == <<"frc", "scale">>

Conf(f, o, m, fr, delay) ==
  [filters |-> f, order |-> o, mode |-> m, frc |-> fr, amt |-> [s \in {"delay"} |-> delay], rest |-> 1]

\* The automatic composition with FRC and delay; a list with an FRC token
\* without a mode, and saved rows that agree with the rest of it; a list with
\* repetitions and a token nobody knows; a list in another order than the
\* saved rows.
MCWritten ==
  { Conf(AutoChain, <<>>, 2, FALSE, 1),
    Conf(<<"delay", "frc">>, <<"delay", "frc", "scale">>, 0, FALSE, 1),
    Conf(<<"delay", "blur", "frc", "scale", "delay">>, <<>>, 0, TRUE, 1),
    Conf(<<"scale", "frc">>, <<"frc", "delay", "scale">>, 0, TRUE, 0) }

\* A video and an audio sender, one whose manifest is empty and one whose flow
\* the registry does not know.
MCOthers  == {"camera", "mixer", "mute", "anc"}
MCKindOf  == [s \in MCOthers |-> CASE s = "mixer" -> "audio" [] s = "anc" -> "" [] OTHER -> "video"]
MCFile    == [s \in MCOthers \cup {Ours} |->
                CASE s = "camera" -> <<"v=", "camera">> [] s = "mute" -> <<>>
                  [] s = Ours -> <<"v=", "ours">> [] OTHER -> <<"v=">>]
MCFramedBy == [s \in MCOthers \cup {Ours} |->
                CASE s = Ours -> "length" [] s = "mixer" -> "close" [] OTHER -> "chunked"]
MCListedBy == [src \in {"registry", "p2p"} |-> IF src = "p2p" THEN MCOthers \ {"mixer"} ELSE MCOthers]

\* No SDP has a line that looks like the end of a chunked reply, and lists the
\* panel cannot express name FRC only to run it.
ASSUME InstanceReplies == NoEndInside
ASSUME InstanceLists   == ListsMeanFrc
-----------------------------------------------------------------------------
\* The parts a behaviour is not about stand still in their first states.
Starts ==
  /\ part \in {"node", "engine", "form", "routing"}
  /\ Init /\ PlanInit /\ DashInit /\ RouteInit
  /\ part # "node" => status = [size |-> NoSize, in |-> NoRate, frc |-> 0, ip10 |-> FALSE,
                                gm |-> NoMaster]
  /\ part # "engine" => /\ machine = Machine(FALSE, 105, 0, 8000, "unset", TRUE)
                        /\ conf.out = HD /\ conf.ip10

Node(A)   == part = "node"    /\ A /\ UNCHANGED <<planVars, dashVars, routeVars, part>>
Engine(A) == part = "engine"  /\ A /\ UNCHANGED <<vars, dashVars, routeVars, part>>
Form(A)   == part = "form"    /\ A /\ UNCHANGED <<vars, planVars, routeVars, part>>
Router(A) == part = "routing" /\ A /\ UNCHANGED <<vars, planVars, dashVars, part>>

NodeSide    == Node(Next)
EngineSide  == Engine(PlanNext)
FormSide    == Form(DashNext)
RoutingSide == Router(RouteNext)

\* That of NodeState; the catalog is loaded, polls and refreshes go on for ever
\* and are answered, operations end and the registry hears of them.
Fairness ==
  /\ WF_allVars(Node(Insert)) /\ WF_allVars(Node(Fetch))
  /\ WF_allVars(Node(Apply \/ ApplyEarly))
  /\ WF_allVars(Form(LoadCatalog)) /\ WF_allVars(Form(Poll))
  /\ WF_polls(\E st \in polls : polls' = polls \ {st})  \* only PollAnswered takes one
  /\ WF_allVars(Router(Refresh)) /\ WF_allVars(Router(Drawn))
  /\ WF_allVars(Router(RegistryFollows \/ \E o \in Slots : OpStep(o)))

ConfigSpec ==
  Starts /\ [][NodeSide \/ EngineSide \/ FormSide \/ RoutingSide]_allVars /\ Fairness

\* Both panels come to show how things are.
PageSettles == FormFollows /\ PanelSettles
=============================================================================
