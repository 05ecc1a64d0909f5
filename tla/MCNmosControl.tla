--------------------------- MODULE MCNmosControl ---------------------------
(* Values of NmosControl's constants for TLC. *)
EXTENDS NmosControl

\* The SDP of g1 has a format, that of any other group none.
OneFormat == [g \in Groups |-> IF g = CHOOSE x \in Groups : TRUE THEN "f1" ELSE NoFormat]

AllConfigs ==
  [choices : Choices \cup {Unset}, src : Groups \cup {NoGroup},
   fmt : {"f1", NoFormat}, legs : [Legs -> Groups \cup {NoGroup}]]

FirstConfig ==
  [choices |-> CHOOSE c \in Choices : TRUE, src |-> NoGroup, fmt |-> NoFormat,
   legs |-> [r \in Legs |-> NoGroup]]
=============================================================================
