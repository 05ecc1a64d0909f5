---------------------------- MODULE IngressProof ----------------------------
(***************************************************************************)
(* Proofs about Ingress for every set of configurations, senders, clock    *)
(* steps and times.  A membership is kept because its age and the time to  *)
(* the next report never exceed a budget of one renewal period for each    *)
(* report lost in a row and each step of the clock.  A packet gets to its  *)
(* stream because the steering and the header templates always are those   *)
(* of the configuration, and the switch still forwards the group.          *)
(***************************************************************************)
EXTENDS Ingress, TLAPS

LEMMA Constants ==
  /\ MulticastBase \in Nat \ {0} /\ MacSpace \in Nat \ {0}
  /\ Configs \subseteq [Chans -> [port : Nat, group : Nat, src : Nat, ssm : Nat]]
  /\ Lens \in [Chans -> SUBSET (Nat \ {0})]
  /\ \A c \in Configs : c["audio"].port # 0 => c["audio"].group # 0 /\ c["video"].group # 0
BY IngressAssumption

LEMMA Times ==
  /\ Interval \in Nat \ {0} /\ Gap \in Nat \ {0} /\ Aging \in Nat
  /\ Lossy \in Nat /\ MaxLeaps \in Nat /\ MaxStarts \in Nat /\ Leaps \subseteq Int
BY IngressAssumption
-----------------------------------------------------------------------------
(* Reports that are renewed in time *)

\* The longest time between two reports of a clock nobody steps.
Period == Interval + Gap

\* The longest time to the next report, from last_igmp_ns_ and the last look at the
\* clock: a clock behind the last report is due, unless it gets past it before the look.
Left(s, g) ==
  IF s >= 0 THEN IF Period - s > Gap - g THEN Period - s ELSE Gap - g
  ELSE IF s + (Gap - g) >= 0 THEN Period - s ELSE Gap - g

\* The age a membership may reach after n reports lost and clock steps.
Budget(n) == Gap + (1 + n) * Period

LEMMA BudgetGrows ==
  ASSUME NEW m \in Nat, NEW l \in Nat
  PROVE  /\ Budget(m + l) \in Nat /\ Budget(m + l) >= Gap + Period
         /\ Budget((m + 1) + l) = Budget(m + l) + Period
         /\ Budget(m + (l + 1)) = Budget(m + l) + Period
<1>1. PICK p \in Nat, n \in Nat : p = Period /\ n = m + l
  BY Times DEF Period
<1>2. /\ (1 + n) * p = p + n * p /\ (1 + (n + 1)) * p = (p + n * p) + p
      /\ n * p \in Nat
  BY <1>1, SMT
<1>3. Budget(n) = Gap + (p + n * p) /\ Budget(n + 1) = Gap + ((p + n * p) + p)
  BY <1>1, <1>2 DEF Budget
<1>4. (m + 1) + l = n + 1 /\ m + (l + 1) = n + 1
  BY <1>1
<1>5. Gap \in Nat
  BY Times
<1> QED
  BY <1>1, <1>2, <1>3, <1>4, <1>5

\* The budget is below the time after which the switch forgets.
LEMMA BudgetLasts ==
  ASSUME NEW m \in 0 .. Lossy, NEW l \in 0 .. MaxLeaps
  PROVE  Budget(m + l) < Aging
<1>1. PICK p \in Nat, n \in Nat, x \in Nat :
        p = Period /\ n = (1 + m) + l /\ x = (Lossy + 1) + MaxLeaps
  BY Times DEF Period
<1>2. n <= x
  BY <1>1, Times
<1>3. n * p <= x * p /\ n * p \in Nat /\ x * p \in Nat
  BY <1>1, <1>2, SMT
<1>4. x * p + Gap < Aging
  BY <1>1, IngressAssumption DEF Period
<1>5. 1 + (m + l) = n
  BY <1>1, Times
<1>6. Budget(m + l) = Gap + n * p
  BY <1>1, <1>5 DEF Budget
<1> QED
  BY <1>3, <1>4, <1>6, Times

LEMMA LeftBounds ==
  ASSUME NEW s \in Int, s <= Period, NEW g \in 0 .. Gap
  PROVE  Left(s, g) \in Nat /\ Left(s, g) <= Period + (Gap - g) /\ Left(s, g) >= Gap - g
BY Times DEF Left, Period

\* A tick brings the report nearer.
LEMMA LeftTicks ==
  ASSUME NEW s \in Int, s <= Period, NEW g \in 0 .. Gap, g < Gap
  PROVE  Left(Capped(s + 1, Period), g + 1) <= Left(s, g) - 1
<1>1. Capped(s + 1, Period) = IF s < Period THEN s + 1 ELSE Period
  BY Times DEF Capped, Period
<1> QED
  BY <1>1, Times DEF Left, Period

\* A look that finds nothing due keeps the time of the report.
LEMMA LeftAtLook ==
  ASSUME NEW s \in Int, s <= Period, NEW g \in 0 .. Gap
  PROVE  /\ ~Due(s) => Left(s, 0) <= Left(s, g)
         /\ Left(0, 0) = Period
BY Times DEF Left, Period, Due

\* A clock step puts the report off by at most a period.
LEMMA LeftLeaps ==
  ASSUME NEW s \in Int, s <= Period, NEW g \in 0 .. Gap, NEW by \in Int
  PROVE  /\ Capped(s + by, Period) \in Int /\ Capped(s + by, Period) <= Period
         /\ Left(Capped(s + by, Period), g) <= Left(s, g) + Period
<1>1. PICK t \in Int : t = Capped(s + by, Period) /\ t <= Period
  BY Times DEF Capped, Period
<1>2. Left(t, g) <= Period + (Gap - g) /\ Left(s, g) >= Gap - g
      /\ Left(t, g) \in Nat /\ Left(s, g) \in Nat
  BY <1>1, LeftBounds
<1> QED
  BY <1>1, <1>2, Times DEF Period
-----------------------------------------------------------------------------
(* The invariant of the memberships *)

\* Every membership that was heard has w of its budget left.
Within(w) == \A c \in heard : age[Report(c)] + w <= Budget(missed[c] + leaps)

KeptInv ==
  /\ IngressTypeOK
  /\ heard \subseteq Renewed /\ (up = "down" => heard = {})
  /\ armed => Within(Left(since, gap))
  /\ ~armed => Within((Gap - gap) + Period)

LEMMA Known ==
  ASSUME cfg \in Configs, NEW c \in Chans
  PROVE  Report(c) \in Memberships
BY DEF Report, Memberships

LEMMA RenewedChans == Renewed \subseteq Chans
BY DEF Renewed, Joined

LEMMA ReportsStep ==
  ASSUME IngressTypeOK, NEW cs \in SUBSET Chans, NEW ok, Reports(cs, ok)
  PROVE  /\ ok \subseteq cs
         /\ age' \in [Memberships -> 0 .. Aging] /\ missed' \in [Chans -> 0 .. Lossy]
         /\ \A c \in ok : age'[Report(c)] = 0 /\ missed'[c] = 0
         /\ \A c \in Chans \ ok : /\ age'[Report(c)] <= age[Report(c)]
                                  /\ missed'[c] = IF c \in cs THEN missed[c] + 1 ELSE missed[c]
<1>1. /\ ok \subseteq cs /\ \A c \in cs \ ok : missed[c] < Lossy
      /\ missed' = [c \in Chans |-> IF c \in ok THEN 0
                                    ELSE IF c \in cs THEN missed[c] + 1 ELSE missed[c]]
      /\ age' = [r \in DOMAIN age |-> IF \E c \in ok : r = Report(c) THEN 0 ELSE age[r]]
  BY DEF Reports
<1>2. cfg \in Configs /\ age \in [Memberships -> 0 .. Aging] /\ missed \in [Chans -> 0 .. Lossy]
  BY DEF IngressTypeOK
<1>3. Aging \in Nat /\ Lossy \in Nat
  BY Times
<1>4. DOMAIN age = Memberships
  BY <1>2
<1>5. age' \in [Memberships -> 0 .. Aging]
  <2>1. \A r \in Memberships : age[r] \in 0 .. Aging /\ 0 \in 0 .. Aging
    BY <1>2, <1>3
  <2> QED
    BY <1>1, <1>4, <2>1
<1>6. missed' \in [Chans -> 0 .. Lossy]
  <2>1. \A c \in Chans : missed[c] \in 0 .. Lossy
    BY <1>2
  <2>2. ASSUME NEW c \in Chans
        PROVE  (IF c \in ok THEN 0 ELSE IF c \in cs THEN missed[c] + 1 ELSE missed[c])
                 \in 0 .. Lossy
    BY <1>1, <1>3, <2>1
  <2> QED
    BY <1>1, <2>2
<1>7. \A c \in Chans : Report(c) \in Memberships
  BY <1>2, Known
<1>8. ASSUME NEW c \in ok PROVE age'[Report(c)] = 0 /\ missed'[c] = 0
  BY <1>1, <1>4, <1>7
<1>9. ASSUME NEW c \in Chans \ ok
      PROVE  /\ age'[Report(c)] <= age[Report(c)]
             /\ missed'[c] = IF c \in cs THEN missed[c] + 1 ELSE missed[c]
  <2>1. age[Report(c)] \in 0 .. Aging
    BY <1>2, <1>7
  <2>2. age'[Report(c)] \in {0, age[Report(c)]}
    BY <1>1, <1>4, <1>7
  <2> QED
    BY <1>1, <2>1, <2>2
<1> QED
  BY <1>1, <1>5, <1>6, <1>8, <1>9

LEMMA StartKeeps ==
  ASSUME KeptInv, Start
  PROVE  KeptInv'
<1>1. PICK ok : Reports(Renewed, ok) /\ heard' = ok
  BY DEF Start
<1>2. /\ up' \in {"isolated", "groups", "all", "promiscuous"}
      /\ starts' = starts + 1 /\ starts < MaxStarts
      /\ armed' = FALSE /\ since' = 0 /\ gap' = 0 /\ cfg' = cfg /\ leaps' = leaps
  BY DEF Start, Steering
<1>3. IngressTypeOK
  BY DEF KeptInv
<1>4. /\ ok \subseteq Renewed
      /\ age' \in [Memberships -> 0 .. Aging] /\ missed' \in [Chans -> 0 .. Lossy]
      /\ \A c \in ok : age'[Report(c)] = 0 /\ missed'[c] = 0
  BY <1>1, <1>3, RenewedChans, ReportsStep
<1>5. Renewed' = Renewed
  BY <1>2 DEF Renewed, Joined
<1>6. Within((Gap - gap) + Period)'
  <2> SUFFICES ASSUME NEW c \in heard'
               PROVE  (age[Report(c)])' + ((Gap - gap') + Period) <= (Budget(missed[c] + leaps))'
    BY DEF Within, Period
  <2>1. (age[Report(c)])' = 0 /\ missed'[c] = 0
    BY <1>1, <1>2, <1>4 DEF Report
  <2>2. leaps \in Nat
    BY <1>3, Times DEF IngressTypeOK
  <2>3. Budget(0 + leaps) >= Gap + Period
    BY <2>2, BudgetGrows
  <2>4. (Budget(missed[c] + leaps))' = Budget(0 + leaps)
    BY <1>2, <2>1 DEF Budget, Period
  <2>5. (Gap - gap') + Period = Gap + Period
    BY <1>2, Times DEF Period
  <2> QED
    BY <2>1, <2>3, <2>4, <2>5, Times DEF Period
<1>7. IngressTypeOK'
  <2>1. starts' \in 0 .. MaxStarts
    BY <1>2, <1>3, IngressAssumption DEF IngressTypeOK
  <2>2. since' \in Int /\ since' <= Interval + Gap /\ gap' \in 0 .. Gap
    BY <1>2, Times
  <2>3. heard' \subseteq Chans
    BY <1>1, <1>4, RenewedChans
  <2> QED
    BY <1>2, <1>3, <1>4, <2>1, <2>2, <2>3 DEF IngressTypeOK
<1> QED
  BY <1>1, <1>2, <1>4, <1>5, <1>6, <1>7 DEF KeptInv

LEMMA LookKeeps ==
  ASSUME KeptInv, Look
  PROVE  KeptInv'
<1>1. /\ up # "down" /\ gap' = 0 /\ armed' = TRUE
      /\ since' = IF armed /\ ~Due(since) THEN since ELSE 0
      /\ UNCHANGED <<cfg, up, leaps, starts>>
  BY DEF Look
<1>2. IngressTypeOK
  BY DEF KeptInv
<1>3. /\ since \in Int /\ since <= Period /\ gap \in 0 .. Gap /\ cfg \in Configs
      /\ leaps \in Nat /\ heard \subseteq Chans
      /\ age \in [Memberships -> 0 .. Aging] /\ missed \in [Chans -> 0 .. Lossy]
  BY <1>2, Times DEF IngressTypeOK, Period
<1>4. Gap \in Nat /\ Period \in Nat
  BY Times DEF Period
<1>5. Renewed' = Renewed
  BY <1>1 DEF Renewed, Joined
<1>6. ASSUME NEW c \in Chans
      PROVE  /\ age[Report(c)] \in Nat /\ missed[c] \in Nat
             /\ (age[Report(c)])' = age'[Report(c)]
             /\ (Budget(missed[c] + leaps))' = Budget(missed'[c] + leaps)
  <2>1. Report(c) \in Memberships
    BY <1>3, Known
  <2>2. age[Report(c)] \in Nat /\ missed[c] \in Nat
    BY <1>3, <2>1, Times
  <2>3. (age[Report(c)])' = age'[Report(c)]
    BY <1>1 DEF Report
  <2>4. (Budget(missed[c] + leaps))' = Budget(missed'[c] + leaps)
    BY <1>1 DEF Budget, Period
  <2> QED
    BY <2>2, <2>3, <2>4
<1>7. CASE armed /\ Due(since)
  <2>1. PICK ok : Reports(Renewed, ok) /\ heard' = heard \cup ok
    BY <1>7 DEF Look
  <2>2. since' = 0
    BY <1>1, <1>7
  <2>3. /\ ok \subseteq Renewed
        /\ age' \in [Memberships -> 0 .. Aging] /\ missed' \in [Chans -> 0 .. Lossy]
        /\ \A c \in ok : age'[Report(c)] = 0 /\ missed'[c] = 0
        /\ \A c \in Chans \ ok : /\ age'[Report(c)] <= age[Report(c)]
                                 /\ missed'[c] = IF c \in Renewed THEN missed[c] + 1 ELSE missed[c]
    BY <1>2, <2>1, RenewedChans, ReportsStep
  <2>4. Left(since', gap') = Period
    BY <1>1, <1>3, <1>4, <2>2, LeftAtLook
  <2>5. ASSUME NEW c \in heard'
        PROVE  age'[Report(c)] + Period <= Budget(missed'[c] + leaps)
    <3>1. CASE c \in ok
      <4>1. Budget(0 + leaps) >= Gap + Period
        BY <1>3, BudgetGrows
      <4>2. Budget(0 + leaps) \in Nat
        BY <1>3, BudgetGrows
      <4>3. age'[Report(c)] = 0 /\ missed'[c] = 0
        BY <2>3, <3>1
      <4> QED
        BY <1>4, <4>1, <4>2, <4>3
    <3>2. CASE c \notin ok
      <4>1. c \in heard /\ c \in Chans /\ c \in Renewed
        BY <1>3, <2>1, <3>2 DEF KeptInv
      <4>2. age[Report(c)] + Left(since, gap) <= Budget(missed[c] + leaps)
        BY <1>7, <4>1 DEF KeptInv, Within
      <4>3. Left(since, gap) \in Nat
        BY <1>3, LeftBounds
      <4>4. missed'[c] = missed[c] + 1 /\ age'[Report(c)] <= age[Report(c)]
        BY <2>3, <3>2, <4>1
      <4>5. age[Report(c)] \in Nat /\ missed[c] \in Nat
        BY <1>6, <4>1
      <4>6. Budget((missed[c] + 1) + leaps) = Budget(missed[c] + leaps) + Period
            /\ Budget(missed[c] + leaps) \in Nat
        BY <1>3, <4>5, BudgetGrows
      <4>7. age'[Report(c)] \in Int
        <5>1. Report(c) \in Memberships
          BY <1>3, <4>1, Known
        <5> QED
          BY <2>3, <5>1, Times
      <4> QED
        BY <1>4, <4>2, <4>3, <4>4, <4>5, <4>6, <4>7
    <3> QED
      BY <3>1, <3>2
  <2>6. heard' \subseteq Chans /\ heard' \subseteq Renewed
    BY <1>3, <2>1, <2>3, RenewedChans DEF KeptInv
  <2>7. Within(Left(since, gap))'
    <3> SUFFICES ASSUME NEW c \in heard'
                 PROVE  (age[Report(c)])' + Left(since', gap') <= (Budget(missed[c] + leaps))'
      BY DEF Within, Left, Period
    <3> QED
      BY <1>6, <2>4, <2>5, <2>6
  <2>8. IngressTypeOK'
    BY <1>1, <1>2, <2>2, <2>3, <2>6, Times DEF IngressTypeOK
  <2> QED
    BY <1>1, <1>5, <2>6, <2>7, <2>8 DEF KeptInv
<1>8. CASE ~(armed /\ Due(since))
  <2>1. age' = age /\ missed' = missed /\ heard' = heard
    BY <1>8 DEF Look, netVars
  <2>2. PICK w : /\ Within(w) /\ Left(since', gap') <= w /\ w \in Nat
                 /\ Left(since', gap') \in Nat /\ since' \in Int /\ since' <= Period
    <3>1. CASE armed
      <4>1. since' = since /\ ~Due(since)
        BY <1>1, <1>8, <3>1
      <4>2. Left(since, 0) <= Left(since, gap)
        BY <1>3, <4>1, LeftAtLook
      <4>3. Within(Left(since, gap))
        BY <3>1 DEF KeptInv
      <4>4. Left(since, gap) \in Nat /\ Left(since, 0) \in Nat
        BY <1>3, <1>4, LeftBounds
      <4> QED
        BY <1>1, <1>3, <4>1, <4>2, <4>3, <4>4
    <3>2. CASE ~armed
      <4>1. since' = 0
        BY <1>1, <3>2
      <4>2. Left(0, 0) = Period
        BY <1>3, <1>4, LeftAtLook
      <4>3. Within((Gap - gap) + Period)
        BY <3>2 DEF KeptInv
      <4>4. Period <= (Gap - gap) + Period /\ (Gap - gap) + Period \in Nat
        BY <1>3, <1>4
      <4> QED
        BY <1>1, <1>4, <4>1, <4>2, <4>3, <4>4
    <3> QED
      BY <3>1, <3>2
  <2>3. Within(Left(since, gap))'
    <3> SUFFICES ASSUME NEW c \in heard
                 PROVE  (age[Report(c)])' + Left(since', gap') <= (Budget(missed[c] + leaps))'
      BY <2>1 DEF Within, Left, Period
    <3>1. c \in Chans
      BY <1>3
    <3>2. age[Report(c)] + w <= Budget(missed[c] + leaps)
      BY <2>2 DEF Within
    <3>3. Budget(missed[c] + leaps) \in Nat
      BY <1>3, <1>6, <3>1, BudgetGrows
    <3>4. /\ (age[Report(c)])' = age[Report(c)] /\ age[Report(c)] \in Nat
          /\ (Budget(missed[c] + leaps))' = Budget(missed[c] + leaps)
      BY <1>6, <2>1, <3>1
    <3> QED
      BY <2>2, <3>2, <3>3, <3>4
  <2>4. IngressTypeOK'
    BY <1>1, <1>2, <2>1, <2>2, Times DEF IngressTypeOK, Period
  <2> QED
    BY <1>1, <1>5, <2>1, <2>3, <2>4 DEF KeptInv
<1> QED
  BY <1>7, <1>8

LEMMA StopKeeps ==
  ASSUME KeptInv, Stop
  PROVE  KeptInv'
<1>1. /\ up' = "down" /\ heard' = {} /\ cfg' \in Configs /\ armed' = FALSE /\ since' = 0
      /\ gap' = 0 /\ UNCHANGED <<age, missed, leaps, starts>>
  BY DEF Stop
<1>2. IngressTypeOK'
  <2>1. 0 <= Interval + Gap /\ 0 \in 0 .. Gap
    BY Times
  <2>2. since' \in Int /\ since' <= Interval + Gap /\ gap' \in 0 .. Gap
    BY <1>1, <2>1
  <2> QED
    BY <1>1, <2>2 DEF KeptInv, IngressTypeOK
<1> QED
  BY <1>1, <1>2 DEF KeptInv, Within

LEMMA TickKeeps ==
  ASSUME KeptInv, Tick
  PROVE  KeptInv'
<1>1. /\ up = "down" \/ Renewed = {} \/ gap < Gap
      /\ gap' = IF up = "down" \/ Renewed = {} THEN 0 ELSE gap + 1
      /\ since' = IF armed THEN Capped(since + 1, Interval + Gap) ELSE 0
      /\ age' = [r \in DOMAIN age |-> Capped(age[r] + 1, Aging)]
      /\ UNCHANGED <<cfg, up, armed, missed, heard, leaps, starts>>
  BY DEF Tick
<1>2. IngressTypeOK
  BY DEF KeptInv
<1>3. /\ since \in Int /\ since <= Period /\ gap \in 0 .. Gap /\ cfg \in Configs
      /\ leaps \in Nat /\ heard \subseteq Chans
      /\ age \in [Memberships -> 0 .. Aging] /\ missed \in [Chans -> 0 .. Lossy]
  BY <1>2, Times DEF IngressTypeOK, Period
<1>4. Gap \in Nat /\ Period \in Nat /\ Interval + Gap = Period
  BY Times DEF Period
<1>5. Renewed' = Renewed
  BY <1>1 DEF Renewed, Joined
<1>6. gap' \in 0 .. Gap /\ since' \in Int /\ since' <= Period
  <2>1. Capped(since + 1, Period) \in Int /\ Capped(since + 1, Period) <= Period
    BY <1>3, <1>4 DEF Capped
  <2>2. gap' \in 0 .. Gap
    BY <1>1, <1>3, <1>4
  <2>3. since' \in {0, Capped(since + 1, Period)}
    BY <1>1, <1>4
  <2> QED
    BY <1>4, <2>1, <2>2, <2>3
<1>7. age' \in [Memberships -> 0 .. Aging]
  <2>1. ASSUME NEW r \in Memberships PROVE Capped(age[r] + 1, Aging) \in 0 .. Aging
    BY <1>3, Times DEF Capped
  <2> QED
    BY <1>1, <1>3, <2>1
<1>8. IngressTypeOK'
  BY <1>1, <1>2, <1>4, <1>6, <1>7 DEF IngressTypeOK
<1>9. ASSUME NEW c \in heard, NEW w \in Int, NEW v \in Int, v <= w - 1,
             age[Report(c)] + w <= Budget(missed[c] + leaps)
      PROVE  (age[Report(c)])' + v <= (Budget(missed[c] + leaps))'
  <2>1. Report(c) \in Memberships /\ missed[c] \in Nat
    BY <1>3, Known, Times
  <2>2. (age[Report(c)])' = Capped(age[Report(c)] + 1, Aging) /\ age[Report(c)] \in 0 .. Aging
    BY <1>1, <1>3, <2>1 DEF Report
  <2>3. (age[Report(c)])' <= age[Report(c)] + 1 /\ (age[Report(c)])' \in Int
    BY <2>2, Times DEF Capped
  <2>4. (Budget(missed[c] + leaps))' = Budget(missed[c] + leaps)
    BY <1>1 DEF Budget, Period
  <2>5. Budget(missed[c] + leaps) \in Nat
    BY <1>3, <2>1, BudgetGrows
  <2> QED
    BY <1>9, <2>2, <2>3, <2>4, <2>5
<1>10. heard = {} \/ (gap < Gap /\ gap' = gap + 1)
  BY <1>1 DEF KeptInv
<1>11. CASE heard = {}
  BY <1>1, <1>8, <1>11 DEF KeptInv, Within
<1>12. CASE gap < Gap /\ gap' = gap + 1
  <2>1. CASE armed
    <3>1. since' = Capped(since + 1, Period)
      BY <1>1, <1>4, <2>1
    <3>2. Left(since', gap') <= Left(since, gap) - 1
      BY <1>3, <1>12, <3>1, LeftTicks
    <3>3. Left(since', gap') \in Int /\ Left(since, gap) \in Int
      BY <1>3, <1>6, LeftBounds
    <3>4. Within(Left(since, gap))
      BY <2>1 DEF KeptInv
    <3>5. Within(Left(since, gap))'
      <4> SUFFICES ASSUME NEW c \in heard
                   PROVE  (age[Report(c)])' + Left(since', gap') <= (Budget(missed[c] + leaps))'
        BY <1>1 DEF Within, Left, Period
      <4>1. age[Report(c)] + Left(since, gap) <= Budget(missed[c] + leaps)
        BY <3>4 DEF Within
      <4> QED
        BY <1>9, <3>2, <3>3, <4>1
    <3> QED
      BY <1>1, <1>5, <1>8, <2>1, <3>5 DEF KeptInv
  <2>2. CASE ~armed
    <3>1. Within((Gap - gap) + Period)
      BY <2>2 DEF KeptInv
    <3>2. Within((Gap - gap) + Period)'
      <4> SUFFICES ASSUME NEW c \in heard
                   PROVE  (age[Report(c)])' + ((Gap - gap') + Period)
                            <= (Budget(missed[c] + leaps))'
        BY <1>1 DEF Within, Period
      <4>1. age[Report(c)] + ((Gap - gap) + Period) <= Budget(missed[c] + leaps)
        BY <3>1 DEF Within
      <4>2. PICK w \in Int, v \in Int :
              w = (Gap - gap) + Period /\ v = (Gap - gap') + Period /\ v <= w - 1
        BY <1>3, <1>4, <1>6, <1>12
      <4> QED
        BY <1>9, <4>1, <4>2
    <3> QED
      BY <1>1, <1>5, <1>8, <2>2, <3>2 DEF KeptInv
  <2> QED
    BY <2>1, <2>2
<1> QED
  BY <1>10, <1>11, <1>12

LEMMA LeapKeeps ==
  ASSUME KeptInv, Leap
  PROVE  KeptInv'
<1>1. PICK by \in Leaps :
        /\ armed /\ leaps < MaxLeaps /\ leaps' = leaps + 1
        /\ since' = Capped(since + by, Interval + Gap)
        /\ UNCHANGED <<cfg, up, armed, gap, age, missed, heard, starts>>
  BY DEF Leap, netVars
<1>2. IngressTypeOK
  BY DEF KeptInv
<1>3. /\ since \in Int /\ since <= Period /\ gap \in 0 .. Gap /\ cfg \in Configs
      /\ leaps \in Nat /\ heard \subseteq Chans
      /\ age \in [Memberships -> 0 .. Aging] /\ missed \in [Chans -> 0 .. Lossy]
  BY <1>2, Times DEF IngressTypeOK, Period
<1>4. Period \in Nat /\ Interval + Gap = Period /\ by \in Int
  BY Times DEF Period
<1>5. /\ since' = Capped(since + by, Period) /\ since' \in Int /\ since' <= Period
      /\ Left(since', gap) <= Left(since, gap) + Period
  BY <1>1, <1>3, <1>4, LeftLeaps
<1>6. Left(since', gap) \in Nat /\ Left(since, gap) \in Nat
  BY <1>3, <1>5, LeftBounds
<1>7. leaps' \in 0 .. MaxLeaps
  BY <1>1, <1>3, Times
<1>8. IngressTypeOK'
  BY <1>1, <1>2, <1>4, <1>5, <1>7 DEF IngressTypeOK
<1>9. Within(Left(since, gap))'
  <2> SUFFICES ASSUME NEW c \in heard
               PROVE  (age[Report(c)])' + Left(since', gap) <= (Budget(missed[c] + leaps))'
    BY <1>1 DEF Within, Left, Period
  <2>1. age[Report(c)] + Left(since, gap) <= Budget(missed[c] + leaps)
    BY <1>1 DEF KeptInv, Within
  <2>2. Report(c) \in Memberships /\ missed[c] \in Nat
    BY <1>3, Known, Times
  <2>3. (age[Report(c)])' = age[Report(c)] /\ age[Report(c)] \in Nat
    BY <1>1, <1>3, <2>2, Times DEF Report
  <2>4. (Budget(missed[c] + leaps))' = Budget(missed[c] + (leaps + 1))
    BY <1>1 DEF Budget, Period
  <2>5. Budget(missed[c] + (leaps + 1)) = Budget(missed[c] + leaps) + Period
        /\ Budget(missed[c] + leaps) \in Nat
    BY <1>3, <2>2, BudgetGrows
  <2> QED
    BY <1>4, <1>5, <1>6, <2>1, <2>3, <2>4, <2>5
<1>10. Renewed' = Renewed
  BY <1>1 DEF Renewed, Joined
<1> QED
  BY <1>1, <1>8, <1>9, <1>10 DEF KeptInv

LEMMA InitKept == Init => KeptInv
<1> SUFFICES ASSUME Init PROVE KeptInv
  OBVIOUS
<1>1. IngressTypeOK
  <2>1. /\ 0 <= Interval + Gap /\ 0 \in 0 .. Gap /\ 0 \in 0 .. Lossy /\ Aging \in 0 .. Aging
        /\ 0 \in 0 .. MaxLeaps /\ 0 \in 0 .. MaxStarts
    BY Times
  <2>2. age \in [Memberships -> 0 .. Aging] /\ missed \in [Chans -> 0 .. Lossy]
    BY <2>1 DEF Init
  <2>3. since \in Int /\ since <= Interval + Gap /\ gap \in 0 .. Gap
        /\ leaps \in 0 .. MaxLeaps /\ starts \in 0 .. MaxStarts
    BY <2>1 DEF Init
  <2> QED
    BY <2>2, <2>3 DEF Init, IngressTypeOK
<1> QED
  BY <1>1 DEF Init, KeptInv, Within

LEMMA NextKept ==
  ASSUME KeptInv, [Next]_vars
  PROVE  KeptInv'
<1>1. ASSUME UNCHANGED <<cfg, up, armed, since, gap, age, missed, heard, leaps, starts>>
      PROVE  KeptInv'
  <2>1. IngressTypeOK' /\ Renewed' = Renewed
    BY <1>1 DEF KeptInv, IngressTypeOK, Renewed, Joined
  <2>2. (armed => Within(Left(since, gap)))' /\ (~armed => Within((Gap - gap) + Period))'
    BY <1>1 DEF KeptInv, Within, Left, Period, Report, Budget
  <2> QED
    BY <1>1, <2>1, <2>2 DEF KeptInv
<1>2. ASSUME NEW c \in Chans, Send(c) PROVE KeptInv'
  BY <1>1, <1>2 DEF Send, rxVars, netVars
<1>3. UNCHANGED vars => KeptInv'
  BY <1>1 DEF vars, rxVars, netVars
<1> QED
  BY <1>2, <1>3, StartKeeps, StopKeeps, LookKeeps, TickKeeps, LeapKeeps DEF Next

\* A running receiver's memberships never age out at the switch (dpdk_rx_backend.cpp,
\* the renewal in receive()): however the reports of several channels are lost within
\* the bound and wherever PTP steps the clock the renewals go by.
THEOREM MembershipsLast == Spec => []StreamsKept
<1>1. KeptInv => StreamsKept
  <2> SUFFICES ASSUME KeptInv, NEW c \in heard PROVE age[Report(c)] < Aging
    BY DEF StreamsKept
  <2>1. /\ since \in Int /\ since <= Period /\ gap \in 0 .. Gap /\ cfg \in Configs
        /\ leaps \in 0 .. MaxLeaps /\ c \in Chans
        /\ age \in [Memberships -> 0 .. Aging] /\ missed[c] \in 0 .. Lossy
    BY DEF KeptInv, IngressTypeOK, Period
  <2>2. Budget(missed[c] + leaps) < Aging
    BY <2>1, BudgetLasts
  <2>3. PICK w \in Nat : age[Report(c)] + w <= Budget(missed[c] + leaps)
    <3>1. CASE armed
      BY <2>1, <3>1, LeftBounds DEF KeptInv, Within
    <3>2. CASE ~armed
      <4>1. (Gap - gap) + Period \in Nat
        BY <2>1, Times DEF Period
      <4> QED
        BY <3>2, <4>1 DEF KeptInv, Within
    <3> QED
      BY <3>1, <3>2
  <2>4. Budget(missed[c] + leaps) \in Nat
    BY <2>1, BudgetGrows, Times
  <2>5. age[Report(c)] \in Nat
    BY <2>1, Known, Times
  <2> QED
    BY <2>2, <2>3, <2>4, <2>5, Times
<1> QED
  BY <1>1, InitKept, NextKept, PTL DEF Spec
-----------------------------------------------------------------------------
(* Steering and headers *)

PlaceInv ==
  /\ DOMAIN cache = Chans
  /\ \A c \in Chans : cache[c] = Uncached \/ \E len \in Nat : cache[c] = build_headers(c, len)
  /\ up # "down" => /\ rules = {install_flow_rule(c) : c \in {"video"} \cup Joined}
                    /\ macs = {multicast_mac(cfg[c].group) : c \in Joined}

LEMMA PlaceStarts == Init => PlaceInv
BY DEF Init, PlaceInv

\* The template a channel keeps is one of its own.
LEMMA HeaderIs ==
  ASSUME PlaceInv, NEW c \in Chans, NEW len \in Lens[c]
  PROVE  len \in Nat /\ Header(c, len) = build_headers(c, len)
<1>1. len \in Nat \ {0}
  BY Constants
<1>2. CASE cache[c] = Uncached
  <2>1. cache[c].len # len
    BY <1>1, <1>2 DEF Uncached
  <2> QED
    BY <1>1, <2>1 DEF Header, Template
<1>3. CASE cache[c] # Uncached
  <2>1. PICK k \in Nat : cache[c] = build_headers(c, k)
    BY <1>3 DEF PlaceInv
  <2>2. cache[c].len = k
    BY <2>1 DEF build_headers
  <2> QED
    BY <1>1, <2>1, <2>2 DEF Header, Template
<1> QED
  BY <1>2, <1>3

LEMMA PlaceStays ==
  ASSUME PlaceInv, [Next]_vars
  PROVE  PlaceInv'
<1>1. ASSUME UNCHANGED <<cfg, up, rules, macs, cache>> PROVE PlaceInv'
  BY <1>1 DEF PlaceInv, build_headers, DstMac, install_flow_rule, Joined
<1>2. CASE Start
  <2>1. /\ UNCHANGED <<cfg, cache>>
        /\ rules' = {install_flow_rule(c) : c \in {"video"} \cup Joined}
        /\ macs' = {multicast_mac(cfg[c].group) : c \in Joined}
    BY <1>2 DEF Start
  <2> QED
    BY <2>1 DEF PlaceInv, build_headers, DstMac, install_flow_rule, Joined
<1>3. CASE Stop
  <2>1. up' = "down" /\ cache' = [c \in Chans |-> Uncached]
    BY <1>3 DEF Stop
  <2> QED
    BY <2>1 DEF PlaceInv
<1>4. ASSUME NEW c \in Chans, Send(c) PROVE PlaceInv'
  <2>1. UNCHANGED <<cfg, up, rules, macs>>
    BY <1>4 DEF Send, rxVars
  <2>2. PICK len \in Lens[c] : cache' = [cache EXCEPT ![c] = Header(c, len)]
    BY <1>4 DEF Send, Template
  <2>3. len \in Nat /\ Header(c, len) = build_headers(c, len)
    BY HeaderIs
  <2>4. DOMAIN cache' = Chans
    BY <2>2 DEF PlaceInv
  <2>5. ASSUME NEW d \in Chans
        PROVE  cache'[d] = Uncached \/ \E k \in Nat : cache'[d] = build_headers(d, k)
    <3>1. cache'[d] = IF d = c THEN build_headers(c, len) ELSE cache[d]
      BY <2>2, <2>3 DEF PlaceInv
    <3> QED
      BY <2>3, <3>1 DEF PlaceInv
  <2> QED
    BY <2>1, <2>4, <2>5 DEF PlaceInv, build_headers, DstMac, install_flow_rule, Joined
<1>5. Look \/ Tick \/ Leap => UNCHANGED <<cfg, up, rules, macs, cache>>
  BY DEF Look, Tick, Leap
<1>6. UNCHANGED vars => UNCHANGED <<cfg, up, rules, macs, cache>>
  BY DEF vars, rxVars
<1> QED
  BY <1>1, <1>2, <1>3, <1>4, <1>5, <1>6 DEF Next

\* The configuration of a stream.
LEMMA Stream ==
  ASSUME cfg \in Configs, NEW c \in Chans
  PROVE  /\ cfg[c].port \in Nat /\ cfg[c].group \in Nat /\ cfg[c].src \in Nat
         /\ c = "audio" /\ cfg[c].port # 0 => cfg[c].group # 0 /\ cfg["video"].group # 0
BY Constants

\* A frame matches the addresses of a stream that a receiver wants.
LEMMA WantedIs ==
  ASSUME NEW c, NEW h
  PROVE  Matches(Wanted(c), h) <=> Addressed(h, cfg[c])
BY DEF Matches, Wanted, Addressed

\* The frames of a stream are classified as what they are.
LEMMA Classified ==
  ASSUME StreamsApart, cfg \in Configs, NEW c \in Chans, cfg[c].port # 0, NEW len
  PROVE  /\ Matches(Wanted(c), build_headers(c, len))
         /\ parse_udp(build_headers(c, len)) = c
<1>1. PICK h : h = build_headers(c, len)
  OBVIOUS
<1>2. /\ h.port = cfg[c].port /\ h.src = cfg[c].src
      /\ h.dst = IF cfg[c].group = 0 THEN OwnHost ELSE cfg[c].group
  BY <1>1 DEF build_headers
<1>3. cfg[c].ssm \in {0, cfg[c].src}
  BY DEF StreamsApart
<1>4. Matches(Wanted(c), h)
  BY <1>2, <1>3 DEF Matches, Wanted, Fits
<1>5. parse_udp(h) = c
  <2>1. CASE c = "video"
    BY <1>4, <2>1 DEF parse_udp
  <2>2. CASE c = "audio"
    <3>1. ~Addressed([port |-> cfg["audio"].port, dst |-> cfg["audio"].group,
                      src |-> cfg["audio"].src], cfg["video"])
      BY <2>2 DEF StreamsApart
    <3>2. cfg["audio"].group # 0
      BY <2>2, Stream
    <3>3. ~Addressed(h, cfg["video"])
      BY <1>2, <2>2, <3>1, <3>2 DEF Addressed
    <3>4. ~Matches(Wanted("video"), h)
      BY <3>3, WantedIs
    <3> QED
      BY <1>4, <2>2, <3>4 DEF parse_udp
  <2> QED
    BY <2>1, <2>2 DEF Chans
<1> QED
  BY <1>1, <1>4, <1>5

\* A rule lets through what its stream wants, and no rule is wider than that.
LEMMA RuleIs ==
  ASSUME cfg \in Configs, NEW c \in {"video"} \cup Joined, NEW h
  PROVE  Matches(install_flow_rule(c), h) <=> Matches(Wanted(c), h)
<1>1. CASE cfg["video"].group # 0 \/ cfg["video"].ssm # 0
  <2>1. install_flow_rule(c) = Wanted(c)
    BY <1>1 DEF install_flow_rule, Wanted
  <2> QED
    BY <2>1
<1>2. CASE ~(cfg["video"].group # 0 \/ cfg["video"].ssm # 0)
  <2>1. c = "video"
    BY <1>2, Stream DEF Joined, Chans
  <2>2. install_flow_rule(c) = [port |-> cfg[c].port, dst |-> 0, src |-> 0]
    BY <1>2 DEF install_flow_rule
  <2>3. Wanted(c) = [port |-> cfg[c].port, dst |-> 0, src |-> 0]
    BY <1>2, <2>1 DEF Wanted
  <2> QED
    BY <2>2, <2>3
<1> QED
  BY <1>1, <1>2

\* The receive port sees the frames of its streams.
LEMMA Seen ==
  ASSUME StreamsApart, IngressTypeOK, PlaceInv, up # "down",
         NEW c \in Chans, cfg[c].port # 0, NEW len
  PROVE  Steered(build_headers(c, len))
<1>1. PICK h : h = build_headers(c, len)
  OBVIOUS
<1>2. cfg \in Configs /\ up \in {"isolated", "groups", "all", "promiscuous"}
  BY DEF IngressTypeOK
<1>3. Matches(Wanted(c), h)
  BY <1>1, <1>2, Classified
<1>4. c \in {"video"} \cup Joined
  BY <1>2, Stream DEF Joined, Chans
<1>5. h.mac = IF ipv4_is_multicast(cfg[c].group) THEN multicast_mac(cfg[c].group)
              ELSE Unicast(OwnHost)
  BY <1>1 DEF build_headers, DstMac
<1>6. CASE up = "isolated"
  <2>1. Matches(install_flow_rule(c), h)
    BY <1>2, <1>3, <1>4, RuleIs
  <2>2. install_flow_rule(c) \in rules
    BY <1>4, <1>6 DEF PlaceInv
  <2> QED
    BY <1>1, <1>6, <2>1, <2>2 DEF Steered
<1>7. CASE up = "groups"
  <2>1. CASE ipv4_is_multicast(cfg[c].group)
    <3>1. cfg[c].group # 0
      BY <2>1, Constants DEF ipv4_is_multicast
    <3>2. c \in Joined
      BY <3>1 DEF Joined
    <3>3. h.mac \in macs
      BY <1>5, <1>7, <2>1, <3>2 DEF PlaceInv
    <3> QED
      BY <1>1, <1>7, <3>3 DEF Steered
  <2>2. CASE ~ipv4_is_multicast(cfg[c].group)
    BY <1>1, <1>5, <1>7, <2>2 DEF Steered
  <2> QED
    BY <2>1, <2>2
<1>8. CASE up = "all"
  <2>1. h.mac = Unicast(OwnHost) \/ h.mac[1] = "group"
    BY <1>5 DEF multicast_mac
  <2> QED
    BY <1>1, <1>8, <2>1 DEF Steered
<1>9. CASE up = "promiscuous"
  BY <1>1, <1>9 DEF Steered
<1> QED
  BY <1>2, <1>6, <1>7, <1>8, <1>9

\* The switch forwards a stream that was heard.
LEMMA Forwarded ==
  ASSUME StreamsApart, KeptInv, StreamsKept, up # "down", NEW c \in heard, NEW len
  PROVE  ToPort(build_headers(c, len))
<1>1. PICK h : h = build_headers(c, len)
  OBVIOUS
<1>2. cfg \in Configs /\ age \in [Memberships -> 0 .. Aging] /\ c \in Joined /\ c \in Chans
  BY DEF KeptInv, IngressTypeOK, Renewed, Joined
<1>3. cfg[c].group # 0 /\ h.dst = cfg[c].group /\ h.src = cfg[c].src
      /\ h.mac = DstMac(c)
  BY <1>1, <1>2 DEF Joined, build_headers
<1>4. CASE ipv4_is_multicast(h.dst)
  <2>0. PICK a, b, r : a = cfg[c].group /\ b = cfg[c].ssm /\ r = <<a, b>>
    OBVIOUS
  <2>1. r = Report(c) /\ r[1] = h.dst /\ r[2] = cfg[c].ssm
    BY <1>3, <2>0 DEF Report
  <2>2. r \in DOMAIN age
    BY <1>2, <2>1, Known
  <2>3. cfg[c].ssm \in {0, h.src}
    BY <1>2, <1>3 DEF StreamsApart
  <2>4. age[r] < Aging
    BY <2>1 DEF StreamsKept
  <2>5. Forwards(h.dst, h.src)
    BY <2>1, <2>2, <2>3, <2>4, Zenon DEF Forwards
  <2> QED
    BY <1>1, <1>4, <2>5 DEF ToPort
<1>5. CASE ~ipv4_is_multicast(h.dst)
  BY <1>1, <1>3, <1>5 DEF ToPort, DstMac
<1> QED
  BY <1>4, <1>5

\* A frame that belongs to no stream is in no class.
LEMMA Unclassified ==
  ASSUME StreamsApart, cfg \in Configs, NEW h \in Foreign
  PROVE  /\ \A c \in Chans : ~Matches(Wanted(c), h)
         /\ parse_udp(h) = "none"
<1>1. \A c \in Chans : ~Addressed(h, cfg[c])
  BY DEF StreamsApart
<1>2. \A c \in Chans : ~Matches(Wanted(c), h)
  BY <1>1, WantedIs
<1> QED
  BY <1>2 DEF parse_udp, Chans

\* Isolation leaves all such frames with the kernel, a multicast filter those of the
\* kernel's groups.
LEMMA KernelKeeps ==
  ASSUME StreamsApart, IngressTypeOK, PlaceInv, up # "down", NEW h \in Foreign
  PROVE  /\ up = "isolated" => ~Steered(h)
         /\ up = "groups" /\ h.dst \in KernelGroups => ToPort(h) /\ ~Steered(h)
<1>1. cfg \in Configs
  BY DEF IngressTypeOK
<1>2. ASSUME up = "isolated" PROVE ~Steered(h)
  <2>1. ASSUME NEW c \in {"video"} \cup Joined PROVE ~Matches(install_flow_rule(c), h)
    <3>1. c \in Chans
      BY DEF Joined, Chans
    <3>2. ~Matches(Wanted(c), h)
      BY <1>1, <3>1, Unclassified
    <3> QED
      BY <1>1, <3>2, RuleIs
  <2>2. \A rule \in rules : ~Matches(rule, h)
    BY <1>2, <2>1 DEF PlaceInv
  <2> QED
    BY <1>2, <2>2 DEF Steered
<1>3. ASSUME up = "groups", h.dst \in KernelGroups PROVE ToPort(h) /\ ~Steered(h)
  <2>1. h.mac = multicast_mac(h.dst) /\ ipv4_is_multicast(h.dst)
    BY <1>3 DEF StreamsApart
  <2>2. ToPort(h)
    BY <1>3, <2>1 DEF ToPort, Forwards
  <2>3. h.mac \notin macs
    <3>1. ASSUME NEW c \in Joined PROVE h.mac # multicast_mac(cfg[c].group)
      BY <1>1, <1>3 DEF StreamsApart, Joined
    <3> QED
      BY <1>3, <3>1 DEF PlaceInv
  <2>4. h.mac # Unicast(OwnHost)
    BY <2>1 DEF multicast_mac, Unicast
  <2> QED
    BY <1>3, <2>2, <2>3, <2>4 DEF Steered
<1> QED
  BY <1>2, <1>3

\* Every packet of the peer that the switch forwards gets to the stream it belongs to,
\* with its own length (dpdk_tx_backend.cpp's cached templates, parse_udp); the switch
\* forwards what was heard; no other sender's frame gets into a stream; and the kernel
\* keeps its frames behind isolation and its groups behind a multicast filter.
THEOREM PacketsInPlace == StreamsApart => (Spec => []RightPlace)
<1> SUFFICES ASSUME StreamsApart PROVE Spec => []RightPlace
  OBVIOUS
<1>1. KeptInv /\ PlaceInv /\ StreamsKept => RightPlace
  <2> SUFFICES ASSUME KeptInv, PlaceInv, StreamsKept, up # "down" PROVE RightPlace
    BY DEF RightPlace
  <2>1. IngressTypeOK /\ cfg \in Configs /\ heard \subseteq Chans
    BY DEF KeptInv, IngressTypeOK
  <2>2. ASSUME NEW c \in Chans, cfg[c].port # 0, NEW len \in Lens[c], NEW h, h = Header(c, len)
        PROVE  (ToPort(h) => Fate(h) = c /\ h.len = len) /\ (c \in heard => ToPort(h))
    <3>1. h = build_headers(c, len)
      BY <2>2, HeaderIs
    <3>2. h.len = len
      BY <3>1 DEF build_headers
    <3>3. ToPort(h) => Fate(h) = c
      <4>1. Steered(h) /\ parse_udp(h) = c
        BY <2>1, <2>2, <3>1, Seen, Classified
      <4> QED
        BY <4>1 DEF Fate
    <3>4. c \in heard => ToPort(h)
      BY <3>1, Forwarded
    <3> QED
      BY <3>2, <3>3, <3>4
  <2>3. ASSUME NEW h \in Foreign PROVE Fate(h) \in {"elsewhere", "kernel", "none"}
    BY <2>1, Unclassified DEF Fate
  <2>4. ASSUME NEW h \in Foreign, up = "isolated" PROVE Fate(h) # "none"
    BY <2>1, <2>4, KernelKeeps DEF Fate
  <2>5. ASSUME NEW h \in Foreign, up = "groups", h.dst \in KernelGroups
        PROVE  Fate(h) = "kernel"
    BY <2>1, <2>5, KernelKeeps DEF Fate
  <2> QED
    BY <2>2, <2>3, <2>4, <2>5 DEF RightPlace
<1> QED
  BY <1>1, MembershipsLast, InitKept, NextKept, PlaceStarts, PlaceStays, PTL DEF Spec
=============================================================================
