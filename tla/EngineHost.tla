----------------------------- MODULE EngineHost -----------------------------
(***************************************************************************)
(* What the control daemon promises its clients: a host with one slot.     *)
(* The settings change only while the slot is empty, an engine is launched *)
(* with the settings of that moment and keeps them, and no second engine   *)
(* appears before the first one is gone.                                   *)
(***************************************************************************)
CONSTANTS Slots,   \* identities an engine may get
          Configs, \* settings
          Default  \* settings after a (re)start of the host

VARIABLES settings, \* current settings
          engines   \* live engines: slot -> settings it was launched with

hostVars == <<settings, engines>>

Nobody == [s \in {} |-> Default]

Init == settings = Default /\ engines = Nobody

Configure ==
  /\ engines = Nobody
  /\ settings' \in Configs
  /\ UNCHANGED engines

Launch ==
  /\ engines = Nobody
  /\ \E s \in Slots : engines' = [x \in {s} |-> settings]
  /\ UNCHANGED settings

\* The engine ends by itself or is stopped.
Leave ==
  /\ engines' = Nobody
  /\ UNCHANGED settings

\* The host itself restarts, and takes its engine down with it.
Restart == settings' = Default /\ engines' = Nobody

Next == Configure \/ Launch \/ Leave \/ Restart
Spec == Init /\ [][Next]_hostVars
=============================================================================
