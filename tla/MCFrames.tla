------------------------------ MODULE MCFrames -------------------------------
(* A receiver that sees lost, reordered and bad packets, and the operators  *)
(* that make pictures: the scaler with the three nets that come with the    *)
(* program, all short nets of the shapes its kernels are made for, and      *)
(* blobs that must not load; the frames made between two others; and the    *)
(* filters, alone and in pairs.  A behaviour is one of VideoRx or one of    *)
(* Pictures; the other stands still in its first state.                     *)
EXTENDS VideoRx, Pictures, TLC

C(k, cin, cout, act) == [k |-> k, cin |-> cin, cout |-> cout, act |-> act]
Net(convs, act) == [convs |-> convs, act |-> act]

Fsrcnn == Net(<<C(5, 1, 56, "prelu"), C(1, 56, 12, "prelu"), C(3, 12, 12, "prelu"),
                C(3, 12, 12, "prelu"), C(3, 12, 12, "prelu"), C(3, 12, 12, "prelu"),
                C(1, 12, 56, "prelu"), C(1, 56, 4, "none")>>, "none")
FsrcnnS == Net(<<C(5, 1, 32, "prelu"), C(1, 32, 5, "prelu"), C(3, 5, 5, "prelu"),
                 C(1, 5, 32, "prelu"), C(1, 32, 4, "none")>>, "none")
Espcn == Net(<<C(5, 1, 64, "relu"), C(3, 64, 32, "relu"), C(3, 32, 4, "none")>>, "tanh")

Ks == {1, 3, 5}
Middles == {12, 32, 64}
\* Chains of up to three convolutions, and retrained nets with other ends.
Short ==
  {Net(<<C(k, 1, 4, "none")>>, "none") : k \in Ks}
    \cup {Net(<<C(k, 1, m, "relu"), C(j, m, 4, "none")>>, "tanh") : k, j \in Ks, m \in Middles}
    \cup {Net(<<C(5, 1, m, "relu"), C(k, m, o, "prelu"), C(j, o, 4, "none")>>, "none") :
            k, j \in Ks, m \in Middles \cup {56}, o \in Middles}
    \cup {Net(<<C(5, 1, 56, "relu"), C(1, 56, 12, "none"), C(k, 12, 56, "tanh"),
                C(j, 56, 4, a)>>, "tanh") : k, j \in Ks, a \in {"none", "relu"}}
Refused == {Net(<<>>, "none"), Net(<<C(2, 1, 4, "none")>>, "none"),
            Net(<<C(3, 1, 8, "none"), C(3, 4, 4, "none")>>, "none"),
            Net(<<C(3, 1, 8, "none")>>, "none"), Net(<<C(3, 1, 4, "none")>>, "prelu")}

MCNets == {Fsrcnn, FsrcnnS, Espcn} \cup Short \cup Refused
MCSizes == {<<2, 2>>, <<4, 4>>, <<8, 8>>, <<4, 8>>, <<1, 1>>}
MCTargets == {<<8, 8>>, <<4, 4>>, <<2, 2>>}
MCMinSize == <<2, 2>>
-----------------------------------------------------------------------------
ShiftsDef == {-4, 0, 4}
WildDef == {-40, 40}
ObjectsDef == {[at |-> 8, wide |-> 7]}
-----------------------------------------------------------------------------
ProcampAt(b, c, s, h) == [kind |-> "procamp", brightness |-> b, contrast |-> c, sat |-> s, hue |-> h]
SharpenAt(a) == [kind |-> "sharpen", amount |-> a]
NrAt(l, c) == [kind |-> "nr", luma |-> l, chroma |-> c]
GrainAt(a, color) == [kind |-> "grain", amount |-> a, color |-> color]
Each == {ProcampAt(0, 100, 100, 0), ProcampAt(200, 150, 200, 1), ProcampAt(-1000, 100, 300, 2),
         SharpenAt(0), SharpenAt(300), NrAt(0, 0), NrAt(100, 0), NrAt(0, 50),
         GrainAt(0, FALSE), GrainAt(100, FALSE), GrainAt(100, TRUE)}
ChainsDef == {<<a>> : a \in Each} \cup {<<a, b>> : a, b \in Each}
Line(a, b, c, d) == (0 :> a) @@ (1 :> b) @@ (2 :> c) @@ (3 :> d)
Pair(a, b) == (0 :> a) @@ (1 :> b)
PicturesDef == {[y |-> Line(64, 940, 500, 510), cb |-> Pair(300, 720), cr |-> Pair(512, 960)],
                [y |-> Line(940, 940, 940, 940), cb |-> Pair(400, 400), cr |-> Pair(600, 600)],
                [y |-> Pair(300, 4), cb |-> (0 :> 64), cr |-> (0 :> 1019)]}
FieldsDef == {[y |-> -100, cb |-> 60, cr |-> 100], [y |-> 100, cb |-> -100, cr |-> -30]}
-----------------------------------------------------------------------------
VARIABLE side \* whose behaviour this is
sideVars == <<vars, pictureVars, side>>

\* The operators that do not run are started in one way only.
MCInit ==
  /\ side \in {"receiver", "pictures"}
  /\ side = "receiver" => part = "filters"
  /\ part = "scaler" \/ (target = <<8, 8>> /\ net = NoNet /\ model = FALSE /\ filter = "auto")
  /\ part = "motion" \/ (gs = 1 /\ costs = FALSE)
  /\ (part = "filters" /\ side = "pictures") \/ stages = <<SharpenAt(0)>>
  /\ Init /\ PictureInit

ReceiverStep == side = "receiver" /\ Next /\ UNCHANGED <<pictureVars, side>>
PictureStep == side = "pictures" /\ PictureNext /\ UNCHANGED <<vars, side>>

MCSpec == MCInit /\ [][ReceiverStep \/ PictureStep]_sideVars
=============================================================================
