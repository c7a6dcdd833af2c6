----------------------------- MODULE EngineProofs -----------------------------
(***************************************************************************)
(* Proofs about the forecast: whatever the weather, the planes, the         *)
(* inverters' groups and the answers of the learners, every slot that is    *)
(* served can be delivered, the bands are ordered, held to the ceilings and *)
(* complete, and the labels are those of a site that never learned.         *)
(*                                                                         *)
(* What one slot promises follows from its own arithmetic: a share is       *)
(* rounded down, so a group that is scaled to its limit stays under it, and *)
(* two shares of a plane miss at most a watt each time.  What holds of the  *)
(* forecast is inductive over its slots: the totals hold every slot, and    *)
(* the hours of the served curve every slot that gave anything.             *)
(***************************************************************************)
EXTENDS Engine, SumProofs, SequenceTheorems, TLAPS

-----------------------------------------------------------------------------
(* Shares.                                                                  *)

\* A share is a number, no more than what is shared, in the proportion of the
\* part to the whole.
LEMMA ShareBounds ==
    ASSUME NEW w \in Nat, NEW part \in Nat, NEW whole \in Nat, part <= whole
    PROVE  /\ Share(w, part, whole) \in Nat /\ Share(w, part, whole) <= w
           /\ whole * Share(w, part, whole) <= part * w
           /\ whole > 0 => part * w < whole * Share(w, part, whole) + whole
<1>1. CASE whole = 0
  BY <1>1 DEF Share
<1>2. CASE whole > 0
  <2> DEFINE a == w * part  x == a \div whole
  <2>1. a \in Nat /\ a = part * w
    OBVIOUS
  <2>2. a <= w * whole
    OBVIOUS
  <2> HIDE DEF a
  <2>3. x \in Nat /\ whole * x <= a /\ a < whole * x + whole
    BY <1>2, <2>1, Quotient
  <2>4. Share(w, part, whole) = x
    BY <1>2 DEF Share, a
  <2> HIDE DEF x
  <2>5. x <= w
    <3>1. SUFFICES ASSUME x >= w + 1 PROVE FALSE
      BY <2>3
    <3>2. whole * x >= whole * (w + 1)
      BY <2>3, <3>1
    <3>3. whole * (w + 1) = w * whole + whole
      OBVIOUS
    <3> DEFINE m == whole * x  n == w * whole
    <3>4. m \in Int /\ n \in Int
      BY <2>3
    <3>5. m >= n + whole /\ m <= a /\ a <= n
      BY <2>2, <2>3, <3>2, <3>3
    <3> HIDE DEF m, n
    <3> QED BY <1>2, <2>1, <3>4, <3>5
  <2> QED BY <2>1, <2>3, <2>4, <2>5
<1> QED BY <1>1, <1>2

\* Two shares make up no more than the part, and what they miss of it is
\* what they missed of the whole and one unit of rounding.
LEMMA TwoShares ==
    ASSUME NEW b \in Nat, NEW k \in Nat, NEW part \in Nat, NEW whole \in Nat,
           part <= whole, b + k <= whole
    PROVE  /\ Share(b, part, whole) + Share(k, part, whole) <= part
           /\ part - (Share(b, part, whole) + Share(k, part, whole)) <= 1 + (whole - (b + k))
<1> DEFINE x == Share(b, part, whole)  y == Share(k, part, whole)
<1>1. /\ x \in Nat /\ x <= b /\ whole * x <= part * b /\ (whole > 0 => part * b < whole * x + whole)
      /\ y \in Nat /\ y <= k /\ whole * y <= part * k /\ (whole > 0 => part * k < whole * y + whole)
  BY ShareBounds
<1> HIDE DEF x, y
<1>2. CASE whole = 0
  BY <1>1, <1>2 DEF x, y
<1>3. CASE whole > 0
  <2> DEFINE d == whole - (b + k)  z == x + y
             wx == whole * x  wy == whole * y  wz == whole * z  wp == whole * part
             pb == part * b  pk == part * k  pd == part * d  wd == whole * d
  <2>1. d \in Nat /\ z \in Nat
    BY <1>1
  <2>2. /\ wx \in Int /\ wy \in Int /\ wp \in Int
        /\ pb \in Int /\ pk \in Int
    BY <1>1
  <2>3. wz = wx + wy /\ pb + pk + pd = wp
    BY <1>1
  <2>4. part * d <= whole * d
    BY <2>1
  <2>5. part * d \in Nat /\ whole * d \in Nat
    BY <2>1
  <2>6. wx <= pb /\ wy <= pk /\ pb < wx + whole /\ pk < wy + whole
    BY <1>1, <1>3
  <2>7. z <= part
    <3>1. SUFFICES ASSUME z >= part + 1 PROVE FALSE
      BY <2>1
    <3>2. whole * z >= whole * (part + 1) /\ whole * (part + 1) = wp + whole
      BY <2>1, <3>1
    <3> HIDE DEF wx, wy, wz, wp, pb, pk, pd, wd
    <3> QED BY <1>3, <2>2, <2>3, <2>5, <2>6, <3>2 DEF pd, wz
  <2>8. part - z <= 1 + d
    <3>1. SUFFICES ASSUME part >= z + d + 2 PROVE FALSE
      BY <2>1
    <3>2. whole * part >= whole * (z + d + 2)
      BY <2>1, <3>1
    <3>3. whole * (z + d + 2) = wz + wd + 2 * whole
      BY <2>1
    <3>4. pd \in Nat /\ wd \in Nat /\ pd <= wd
      BY <2>4, <2>5
    <3>5. wp >= wz + wd + 2 * whole
      BY <3>2, <3>3
    <3> HIDE DEF wx, wy, wz, wp, pb, pk, pd, wd, z, d
    <3> QED BY <1>3, <2>2, <2>3, <2>6, <3>4, <3>5
  <2> QED BY <2>7, <2>8 DEF x, y
<1> QED BY <1>2, <1>3
\* _split_clamp twice, around the factor: the two shares of a plane make up
\* its served watts but for the rounding Near allows.
LEMMA SplitIsNear ==
    ASSUME NEW b \in Nat, NEW k \in Nat, NEW slow \in Nat, slow <= b + k, NEW f \in Nat,
           NEW before, before = (slow * f) \div 100,
           NEW served \in Nat, served <= before,
           NEW x, x = Share((Share(b, slow, b + k) * f) \div 100, served, before),
           NEW y, y = Share((Share(k, slow, b + k) * f) \div 100, served, before)
    PROVE  /\ x \in Nat /\ y \in Nat
           /\ x + y <= served /\ served - (x + y) <= 4 + f \div 100
<1> DEFINE a1 == Share(b, slow, b + k)  a2 == Share(k, slow, b + k)
           c1 == (a1 * f) \div 100  c2 == (a2 * f) \div 100  F == f \div 100
<1>1. b + k \in Nat /\ b + k <= b + k /\ (b + k) - (b + k) = 0
  OBVIOUS
<1>2. a1 \in Nat /\ a2 \in Nat
  BY <1>1, ShareBounds
<1>3. a1 + a2 <= slow /\ slow - (a1 + a2) <= 1
  <2> DEFINE w == b + k
  <2>1. w \in Nat /\ slow <= w /\ b + k <= w /\ w - (b + k) = 0
    OBVIOUS
  <2> HIDE DEF w
  <2>2. /\ Share(b, slow, w) + Share(k, slow, w) <= slow
        /\ slow - (Share(b, slow, w) + Share(k, slow, w)) <= 1 + (w - (b + k))
    BY <2>1, TwoShares
  <2>3. slow - (Share(b, slow, w) + Share(k, slow, w)) <= 1
    BY <2>1, <2>2
  <2> QED BY <2>2, <2>3 DEF w
<1> HIDE DEF a1, a2
<1> DEFINE p1 == a1 * f  p2 == a2 * f  ps == slow * f
<1>4. /\ p1 \in Nat /\ p2 \in Nat /\ ps \in Nat
      /\ p1 + p2 <= ps /\ ps <= p1 + p2 + f
  <2>1. p1 + p2 = (a1 + a2) * f
    BY <1>2
  <2>2. (a1 + a2) * f <= slow * f /\ slow * f <= (a1 + a2 + 1) * f
    BY <1>2, <1>3
  <2>3. (a1 + a2 + 1) * f = (a1 + a2) * f + f
    BY <1>2
  <2>4. p1 \in Nat /\ p2 \in Nat /\ ps \in Nat
    BY <1>2
  <2> QED BY <2>1, <2>2, <2>3, <2>4
<1>5. c1 = p1 \div 100 /\ c2 = p2 \div 100 /\ before = ps \div 100
  OBVIOUS
<1> HIDE DEF p1, p2, ps, c1, c2, F
<1>6. /\ c1 \in Nat /\ 100 * c1 <= p1 /\ p1 < 100 * c1 + 100
      /\ c2 \in Nat /\ 100 * c2 <= p2 /\ p2 < 100 * c2 + 100
      /\ before \in Nat /\ 100 * before <= ps /\ ps < 100 * before + 100
  BY <1>4, <1>5, Quotient
<1>7. F \in Nat /\ f < 100 * F + 100
  BY Quotient DEF F
<1>8. c1 + c2 <= before /\ before - (c1 + c2) <= 2 + F
  BY <1>4, <1>6, <1>7
<1>9. /\ x = Share(c1, served, before) /\ y = Share(c2, served, before)
  BY Zenon DEF c1, c2, a1, a2
<1>10. x + y <= served /\ served - (x + y) <= 1 + (before - (c1 + c2))
  <2>1. \A n, m \in Nat : n + m <= before =>
            /\ Share(n, served, before) + Share(m, served, before) <= served
            /\ served - (Share(n, served, before) + Share(m, served, before))
                  <= 1 + (before - (n + m))
    <3>1. before \in Nat /\ served \in Nat /\ served <= before
      BY <1>6
    <3> QED BY ONLY <3>1, TwoShares
  <2>2. /\ Share(c1, served, before) + Share(c2, served, before) <= served
        /\ served - (Share(c1, served, before) + Share(c2, served, before))
              <= 1 + (before - (c1 + c2))
    BY <1>6, <1>8, <2>1, Zenon
  <2> QED BY ONLY <1>9, <2>2
<1>11. x \in Nat /\ y \in Nat
  BY <1>6, <1>9, ShareBounds
<1>12. served - (x + y) <= 4 + F
  BY <1>6, <1>7, <1>8, <1>10, <1>11
<1> QED BY <1>10, <1>11, <1>12 DEF F

\* The two shares of a plane are numbers.
LEMMA DcSplitIsNat ==
    ASSUME NEW direct \in Nat, NEW sky \in Nat, NEW tau \in Nat
    PROVE  /\ DcSplit(direct, sky, tau).beam \in Nat
           /\ DcSplit(direct, sky, tau).sky \in Nat
<1> DEFINE beam == (direct * tau) \div 100
           poa == beam + sky
           cool == 100 - HotLoss
           dc == IF poa > HotAbove THEN (poa * cool) \div 100 ELSE poa
           part == (dc * beam) \div poa
<1>1. beam \in Nat /\ poa \in Nat /\ beam <= poa
  <2>1. direct * tau \in Nat
    OBVIOUS
  <2>2. beam \in Nat
    BY <2>1, Quotient
  <2> HIDE DEF beam
  <2> QED BY <2>2
<1> HIDE DEF beam, poa
<1>2. dc \in Nat
  <2>1. HotLoss \in 0..100
    BY EngineAssumption
  <2>2. cool \in Nat
    BY <2>1
  <2> HIDE DEF cool
  <2>3. poa * cool \in Nat
    BY <1>1, <2>2
  <2>4. (poa * cool) \div 100 \in Nat
    BY <2>3, Quotient
  <2> QED BY <1>1, <2>4
<1> HIDE DEF dc
<1>3. poa > 0 => part \in Nat /\ part <= dc
  <2>1. part = Share(dc, beam, poa) \/ ~(poa > 0)
    BY DEF Share
  <2> HIDE DEF part
  <2> QED BY <1>1, <1>2, <2>1, ShareBounds
<1> HIDE DEF part
<1>4. DcSplit(direct, sky, tau) = IF poa = 0 THEN [beam |-> 0, sky |-> 0]
                                  ELSE [beam |-> part, sky |-> dc - part]
  BY DEF DcSplit, beam, poa, cool, dc, part
<1>5. CASE poa = 0
  BY <1>4, <1>5
<1>6. CASE poa # 0
  BY <1>1, <1>2, <1>3, <1>4, <1>6
<1> QED BY <1>5, <1>6
-----------------------------------------------------------------------------
(* The inverters' limits.                                                   *)

\* The DC an inverter takes.
Cap(g) == (g.limit * 100) \div g.eta

\* A plane has one inverter at most.
LEMMA OneInverter ==
    ASSUME NEW g \in ClipGroups
    PROVE  /\ g.planes \subseteq SolarPlanes /\ IsFiniteSet(g.planes)
           /\ g.limit \in Nat /\ g.eta \in 1..100 /\ Cap(g) \in Nat
           /\ \A p \in g.planes : {f \in ClipGroups : p \in f.planes} = {g}
<1>1. /\ g.planes \subseteq SolarPlanes /\ g.limit \in Nat /\ g.eta \in 1..100
      /\ \A f \in ClipGroups : f # g => f.planes \cap g.planes = {}
      /\ IsFiniteSet(SolarPlanes)
  BY EngineAssumption
<1>2. IsFiniteSet(g.planes)
  BY <1>1, FS_Subset
<1>3. Cap(g) \in Nat
  <2>1. g.limit * 100 \in Nat /\ g.eta \in Nat /\ g.eta > 0
    BY <1>1
  <2> QED BY <2>1, Quotient DEF Cap
<1>4. ASSUME NEW p \in g.planes PROVE {f \in ClipGroups : p \in f.planes} = {g}
  BY <1>1, <1>4
<1> QED BY <1>1, <1>2, <1>3, <1>4

\* What clamp_groups makes of one plane.
LEMMA ClampedPlane ==
    ASSUME NEW watts, NEW p \in SolarPlanes
    PROVE  /\ p \notin Grouped => ClampGroups(watts)[p] = watts[p]
           /\ \A g \in ClipGroups : p \in g.planes =>
                 ClampGroups(watts)[p] =
                    IF Total(watts, g.planes) <= Cap(g) THEN watts[p]
                    ELSE Share(watts[p], Cap(g), Total(watts, g.planes))
<1>1. ASSUME p \notin Grouped PROVE ClampGroups(watts)[p] = watts[p]
  <2>1. {g \in ClipGroups : p \in g.planes} = {}
    BY <1>1 DEF Grouped
  <2> QED BY <2>1 DEF ClampGroups
<1>2. ASSUME NEW g \in ClipGroups, p \in g.planes
      PROVE  ClampGroups(watts)[p] =
                IF Total(watts, g.planes) <= Cap(g) THEN watts[p]
                ELSE Share(watts[p], Cap(g), Total(watts, g.planes))
  <2> DEFINE own == {f \in ClipGroups : p \in f.planes}
             h == CHOOSE f \in own : TRUE
  <2>1. own = {g}
    BY <1>2, OneInverter
  <2>2. h = g /\ own # {}
    BY <2>1
  <2>3. ClampGroups(watts)[p] =
           IF own = {} THEN watts[p]
           ELSE IF Total(watts, h.planes) <= Cap(h) THEN watts[p]
                ELSE Share(watts[p], Cap(h), Total(watts, h.planes))
    BY DEF ClampGroups, Cap
  <2> HIDE DEF own, h
  <2> QED BY <2>2, <2>3
<1> QED BY <1>1, <1>2

\* clamp_groups raises no plane and leaves no group above what its inverter
\* takes.
LEMMA Clamped ==
    ASSUME NEW watts \in PerPlane
    PROVE  /\ ClampGroups(watts) \in PerPlane
           /\ \A p \in SolarPlanes : ClampGroups(watts)[p] <= watts[p]
           /\ \A g \in ClipGroups : Total(ClampGroups(watts), g.planes) <= Cap(g)
<1> DEFINE new == ClampGroups(watts)
<1>1. \A p \in SolarPlanes : watts[p] \in Nat
  BY DEF PerPlane
<1>2. ASSUME NEW g \in ClipGroups
      PROVE  Total(watts, g.planes) \in Nat /\ IsFiniteSet(g.planes) /\ Cap(g) \in Nat
             /\ g.planes \subseteq SolarPlanes
  BY <1>1, OneInverter, SumIsNat DEF Total
<1>3. ASSUME NEW g \in ClipGroups, NEW p \in g.planes, ~(Total(watts, g.planes) <= Cap(g))
      PROVE  /\ new[p] \in Nat /\ new[p] <= watts[p]
             /\ Total(watts, g.planes) * new[p] <= Cap(g) * watts[p]
  <2>1. new[p] = Share(watts[p], Cap(g), Total(watts, g.planes))
    BY <1>2, <1>3, ClampedPlane
  <2>2. Cap(g) <= Total(watts, g.planes) /\ watts[p] \in Nat
    BY <1>1, <1>2, <1>3
  <2> HIDE DEF new
  <2> QED BY <1>2, <2>1, <2>2, ShareBounds
<1>4. ASSUME NEW p \in SolarPlanes PROVE new[p] \in Nat /\ new[p] <= watts[p]
  <2>1. CASE p \notin Grouped
    BY <1>1, <2>1, ClampedPlane
  <2>2. CASE p \in Grouped
    <3>1. PICK g \in ClipGroups : p \in g.planes
      BY <2>2 DEF Grouped
    <3>2. CASE Total(watts, g.planes) <= Cap(g)
      BY <1>1, <3>1, <3>2, ClampedPlane
    <3>3. CASE ~(Total(watts, g.planes) <= Cap(g))
      BY <1>3, <3>1, <3>3
    <3> QED BY <3>2, <3>3
  <2> QED BY <2>1, <2>2
<1>5. ASSUME NEW g \in ClipGroups PROVE Total(new, g.planes) <= Cap(g)
  <2>1. CASE Total(watts, g.planes) <= Cap(g)
    <3>1. \A p \in g.planes : new[p] = watts[p]
      BY <1>2, <2>1, ClampedPlane
    <3> HIDE DEF new
    <3>2. Total(new, g.planes) = Total(watts, g.planes)
      BY <1>2, <3>1, SumCong DEF Total
    <3> QED BY <2>1, <3>2
  <2>2. CASE ~(Total(watts, g.planes) <= Cap(g))
    <3> DEFINE sum == Total(watts, g.planes)  cap == Cap(g)  got == Total(new, g.planes)
    <3>1. sum \in Nat /\ cap \in Nat /\ sum > cap
      BY <1>2, <2>2
    <3>2. \A p \in g.planes : /\ new[p] \in Int /\ watts[p] \in Int
                              /\ sum * new[p] <= cap * watts[p]
      BY <1>1, <1>2, <1>3, <2>2
    <3>3. got \in Nat
      <4>1. \A p \in g.planes : new[p] \in Nat
        BY <1>2, <1>4
      <4> HIDE DEF new
      <4> QED BY <1>2, <4>1, SumIsNat DEF Total
    <3> HIDE DEF sum, cap, new
    <3>4. sum * got <= cap * Total(watts, g.planes)
      BY <1>2, <3>1, <3>2, SumInProportion DEF Total
    <3> HIDE DEF got
    <3>5. sum * got <= cap * sum
      BY <3>4 DEF sum
    <3>6. got <= cap
      <4>1. SUFFICES ASSUME got >= cap + 1 PROVE FALSE
        BY <3>1, <3>3
      <4>2. sum * got >= sum * (cap + 1) /\ sum * (cap + 1) = cap * sum + sum
        BY <3>1, <3>3, <4>1
      <4> DEFINE m == sum * got  n == cap * sum
      <4>3. m \in Int /\ n \in Int /\ m <= n /\ m >= n + sum
        BY <3>1, <3>3, <3>5, <4>2
      <4> HIDE DEF m, n
      <4> QED BY <3>1, <4>3
    <3> QED BY <3>6 DEF got, cap
  <2> QED BY <2>1, <2>2
<1>6. new \in PerPlane
  <2>1. new = [p \in SolarPlanes |-> new[p]]
    BY DEF ClampGroups
  <2> HIDE DEF new
  <2> QED BY <1>4, <2>1 DEF PerPlane
<1> QED BY <1>4, <1>5, <1>6

\* Limits that already hold change nothing.
LEMMA ClampedTwice ==
    ASSUME NEW watts \in PerPlane, \A g \in ClipGroups : Total(watts, g.planes) <= Cap(g)
    PROVE  ClampGroups(watts) = watts
<1>1. ASSUME NEW p \in SolarPlanes PROVE ClampGroups(watts)[p] = watts[p]
  <2>1. CASE p \notin Grouped
    BY <2>1, ClampedPlane
  <2>2. CASE p \in Grouped
    <3>1. PICK g \in ClipGroups : p \in g.planes
      BY <2>2 DEF Grouped
    <3> QED BY <3>1, ClampedPlane
  <2> QED BY <2>1, <2>2
<1>2. ClampGroups(watts) \in PerPlane
  BY Clamped
<1> QED BY <1>1, <1>2 DEF PerPlane
\* The efficiency of a plane is that of its inverter.
EtaIn(g, calibrated) == IF calibrated # 0 THEN calibrated ELSE g.eta

LEMMA EtaOfPlane ==
    ASSUME NEW calibrated \in 0..100, NEW p \in SolarPlanes
    PROVE  /\ EtaOf(p, calibrated) \in 1..100
           /\ \A g \in ClipGroups : p \in g.planes =>
                 EtaOf(p, calibrated) = EtaIn(g, calibrated)
<1>1. ASSUME NEW g \in ClipGroups, p \in g.planes
      PROVE  EtaOf(p, calibrated) = EtaIn(g, calibrated) /\ EtaOf(p, calibrated) \in 1..100
  <2>1. {f \in ClipGroups : p \in f.planes} = {g} /\ g.eta \in 1..100
    BY <1>1, OneInverter
  <2> QED BY <2>1 DEF EtaOf, EtaIn
<1>2. ASSUME p \notin Grouped PROVE EtaOf(p, calibrated) \in 1..100
  <2>1. {f \in ClipGroups : p \in f.planes} = {}
    BY <1>2 DEF Grouped
  <2>2. EtaDefault \in 1..100
    BY EngineAssumption
  <2> QED BY <2>1, <2>2 DEF EtaOf
<1> QED BY <1>1, <1>2 DEF Grouped

\* What clamp_groups_ac makes of one plane.
LEMMA ClampedAcPlane ==
    ASSUME NEW watts, NEW calibrated \in 0..100, NEW p \in SolarPlanes
    PROVE  /\ p \notin Grouped =>
                 ClampGroupsAc(watts, calibrated)[p] = (watts[p] * EtaOf(p, calibrated)) \div 100
           /\ \A g \in ClipGroups, x \in {EtaOf(p, calibrated)} : p \in g.planes =>
                 ClampGroupsAc(watts, calibrated)[p] =
                    IF Total(watts, g.planes) <= (g.limit * 100) \div x
                    THEN (watts[p] * x) \div 100
                    ELSE (Share(watts[p], (g.limit * 100) \div x, Total(watts, g.planes)) * x)
                            \div 100
<1> DEFINE e == EtaOf(p, calibrated)  out == ClampGroupsAc(watts, calibrated)[p]
           own == {f \in ClipGroups : p \in f.planes}
           h == CHOOSE f \in own : TRUE
           lim(g) == (g.limit * 100) \div e
<1>1. out = IF own = {} THEN (watts[p] * e) \div 100
            ELSE IF Total(watts, h.planes) <= lim(h) THEN (watts[p] * e) \div 100
                 ELSE (Share(watts[p], lim(h), Total(watts, h.planes)) * e) \div 100
  BY DEF ClampGroupsAc
<1>2. ASSUME p \notin Grouped PROVE own = {}
  BY <1>2 DEF Grouped
<1>3. ASSUME NEW g \in ClipGroups, p \in g.planes PROVE own # {} /\ h = g
  <2>1. own = {g}
    BY <1>3, OneInverter
  <2> QED BY <2>1
<1> HIDE DEF own, h, out, e
<1>4. p \notin Grouped => out = (watts[p] * e) \div 100
  BY <1>1, <1>2
<1>5. \A g \in ClipGroups : p \in g.planes =>
          out = IF Total(watts, g.planes) <= lim(g) THEN (watts[p] * e) \div 100
                ELSE (Share(watts[p], lim(g), Total(watts, g.planes)) * e) \div 100
  BY <1>1, <1>3
<1> QED BY <1>4, <1>5 DEF out, e

\* clamp_groups_ac gives no plane more than its efficiency does, and leaves no
\* group above its inverter's limit.
LEMMA ClampedAc ==
    ASSUME NEW watts \in PerPlane, NEW calibrated \in 0..100
    PROVE  /\ ClampGroupsAc(watts, calibrated) \in PerPlane
           /\ \A p \in SolarPlanes :
                 ClampGroupsAc(watts, calibrated)[p] <= (watts[p] * EtaOf(p, calibrated)) \div 100
           /\ \A g \in ClipGroups :
                 Total(ClampGroupsAc(watts, calibrated), g.planes) <= g.limit
<1> DEFINE new == ClampGroupsAc(watts, calibrated)
           e(p) == EtaOf(p, calibrated)
           lim(g, x) == (g.limit * 100) \div x
<1>1. \A p \in SolarPlanes : watts[p] \in Nat
  BY DEF PerPlane
<1>2. ASSUME NEW g \in ClipGroups
      PROVE  Total(watts, g.planes) \in Nat /\ IsFiniteSet(g.planes) /\ g.limit \in Nat
             /\ g.planes \subseteq SolarPlanes
  BY <1>1, OneInverter, SumIsNat DEF Total
<1>3. ASSUME NEW p \in SolarPlanes
      PROVE  e(p) \in 1..100 /\ (watts[p] * e(p)) \div 100 \in Nat
             /\ 100 * ((watts[p] * e(p)) \div 100) <= e(p) * watts[p]
  <2>1. e(p) \in 1..100
    BY EtaOfPlane
  <2> DEFINE x == e(p)
  <2> HIDE DEF x
  <2>2. x \in Nat /\ watts[p] \in Nat
    BY <1>1, <2>1 DEF x
  <2>3. watts[p] * x \in Nat /\ watts[p] * x = x * watts[p]
    BY <2>2
  <2>4. (watts[p] * x) \div 100 \in Nat /\ 100 * ((watts[p] * x) \div 100) <= watts[p] * x
    BY <2>3, Quotient
  <2> QED BY <2>1, <2>3, <2>4 DEF x
<1>4. ASSUME NEW g \in ClipGroups
      PROVE  \E x \in 1..100 :
                /\ \A p \in g.planes : e(p) = x
                /\ lim(g, x) \in Nat /\ x * lim(g, x) <= 100 * g.limit
  <2> DEFINE x == EtaIn(g, calibrated)
  <2>1. \A p \in g.planes : e(p) = x
    BY <1>2, EtaOfPlane
  <2>2. x \in 1..100
    BY OneInverter DEF EtaIn
  <2> HIDE DEF x
  <2>3. x \in Nat /\ x > 0 /\ g.limit * 100 \in Nat
    BY <1>2, <2>2
  <2>4. lim(g, x) \in Nat /\ x * lim(g, x) <= g.limit * 100
    BY <2>3, Quotient
  <2>5. g.limit * 100 = 100 * g.limit
    BY <1>2
  <2> WITNESS x \in 1..100
  <2> QED BY <2>1, <2>4, <2>5
<1>5. ASSUME NEW g \in ClipGroups, NEW x \in 1..100, \A p \in g.planes : e(p) = x,
             lim(g, x) \in Nat, NEW p \in g.planes, ~(Total(watts, g.planes) <= lim(g, x))
      PROVE  LET s == Share(watts[p], lim(g, x), Total(watts, g.planes))
             IN /\ new[p] = (s * x) \div 100
                /\ s \in Nat /\ s <= watts[p]
                /\ Total(watts, g.planes) * s <= lim(g, x) * watts[p]
                /\ new[p] \in Nat /\ new[p] <= (watts[p] * x) \div 100
                /\ 100 * new[p] <= x * s
  <2> DEFINE s == Share(watts[p], lim(g, x), Total(watts, g.planes))
  <2>1. new[p] = (s * x) \div 100
    <3>1. p \in SolarPlanes /\ x \in {EtaOf(p, calibrated)}
      BY <1>2, <1>5
    <3>2. ClampGroupsAc(watts, calibrated)[p] =
             IF Total(watts, g.planes) <= (g.limit * 100) \div x
             THEN (watts[p] * x) \div 100
             ELSE (Share(watts[p], (g.limit * 100) \div x, Total(watts, g.planes)) * x) \div 100
      BY <3>1, ClampedAcPlane, ZenonT(60)
    <3> DEFINE m == lim(g, x)  n == Total(watts, g.planes)
    <3>3. ClampGroupsAc(watts, calibrated)[p] =
             IF n <= m THEN (watts[p] * x) \div 100 ELSE (Share(watts[p], m, n) * x) \div 100
      BY <3>2
    <3>4. ~(n <= m)
      BY <1>5
    <3> HIDE DEF m, n
    <3>5. ClampGroupsAc(watts, calibrated)[p] = (Share(watts[p], m, n) * x) \div 100
      BY <3>3, <3>4, Zenon
    <3> QED BY <3>5, Zenon DEF m, n
  <2>2. lim(g, x) <= Total(watts, g.planes) /\ watts[p] \in Nat
    BY <1>1, <1>2, <1>5
  <2>3. s \in Nat /\ s <= watts[p] /\ Total(watts, g.planes) * s <= lim(g, x) * watts[p]
    <3> DEFINE cap == lim(g, x)
    <3>1. cap \in Nat /\ cap <= Total(watts, g.planes)
      BY <1>5, <2>2
    <3> HIDE DEF cap
    <3>2. LET t == Share(watts[p], cap, Total(watts, g.planes))
          IN t \in Nat /\ t <= watts[p] /\ Total(watts, g.planes) * t <= cap * watts[p]
      BY <1>2, <2>2, <3>1, ShareBounds
    <3> QED BY <3>2 DEF cap
  <2> HIDE DEF s, new
  <2>4. s * x \in Nat /\ watts[p] * x \in Nat /\ s * x <= watts[p] * x /\ s * x = x * s
    BY <2>2, <2>3
  <2>5. (s * x) \div 100 <= (watts[p] * x) \div 100
    BY <2>4, QuotientGrows
  <2>6. (s * x) \div 100 \in Nat /\ 100 * ((s * x) \div 100) <= s * x
    BY <2>4, Quotient
  <2> QED BY <2>1, <2>3, <2>4, <2>5, <2>6 DEF s
<1>6. ASSUME NEW p \in SolarPlanes
      PROVE  new[p] \in Nat /\ new[p] <= (watts[p] * e(p)) \div 100
  <2>1. CASE p \notin Grouped
    <3>1. new[p] = (watts[p] * e(p)) \div 100
      BY <2>1, ClampedAcPlane
    <3> DEFINE m == (watts[p] * e(p)) \div 100
    <3>2. m \in Nat /\ new[p] = m
      BY <1>3, <3>1
    <3> HIDE DEF m, new
    <3>3. new[p] \in Nat /\ new[p] <= m
      BY <3>2
    <3> QED BY <3>3 DEF m
  <2>2. CASE p \in Grouped
    <3>1. PICK g \in ClipGroups : p \in g.planes
      BY <2>2 DEF Grouped
    <3>2. PICK x \in 1..100 : (\A q \in g.planes : e(q) = x) /\ lim(g, x) \in Nat
      BY <1>4
    <3>3. e(p) = x
      BY <3>1, <3>2
    <3>4. CASE Total(watts, g.planes) <= lim(g, x)
      <4>1. new[p] = (watts[p] * e(p)) \div 100
        BY <3>1, <3>3, <3>4, ClampedAcPlane
      <4> QED BY <1>3, <4>1
    <3>5. CASE ~(Total(watts, g.planes) <= lim(g, x))
      BY <1>5, <3>1, <3>2, <3>3, <3>5, ZenonT(60)
    <3> QED BY <3>4, <3>5
  <2> QED BY <2>1, <2>2
<1>7. ASSUME NEW g \in ClipGroups PROVE Total(new, g.planes) <= g.limit
  <2>1. PICK x \in 1..100 : /\ \A p \in g.planes : e(p) = x
                            /\ lim(g, x) \in Nat /\ x * lim(g, x) <= 100 * g.limit
    BY <1>4
  <2> DEFINE got == Total(new, g.planes)  sum == Total(watts, g.planes)  cap == lim(g, x)
  <2>2. got \in Nat
    <3>1. \A p \in g.planes : new[p] \in Nat
      BY <1>2, <1>6
    <3> HIDE DEF new
    <3> QED BY <1>2, <3>1, SumIsNat DEF Total
  <2>3. PICK most \in Nat : most <= cap /\ 100 * got <= x * most
    <3>1. CASE sum <= cap
      <4>1. \A p \in g.planes : /\ new[p] \in Int /\ watts[p] \in Int
                                /\ 100 * new[p] <= x * watts[p]
        <5>1. ASSUME NEW p \in g.planes
              PROVE  new[p] \in Int /\ watts[p] \in Int /\ 100 * new[p] <= x * watts[p]
          <6>1. p \in SolarPlanes /\ e(p) = x
            BY <1>2, <2>1
          <6>2. new[p] = (watts[p] * x) \div 100
            BY <3>1, <6>1, ClampedAcPlane
          <6> HIDE DEF new
          <6> QED BY <1>1, <1>3, <6>1, <6>2
        <5> QED BY <5>1
      <4> HIDE DEF new
      <4>2. 100 * got <= x * sum
        BY <1>2, <4>1, SumInProportion DEF Total
      <4> QED BY <1>2, <3>1, <4>2
    <3>2. CASE ~(sum <= cap)
      <4> DEFINE part == [p \in g.planes |-> Share(watts[p], cap, sum)]
                 all == SumFunctionOnSet(part, g.planes)
      <4>1. \A p \in g.planes : /\ new[p] \in Int /\ part[p] \in Nat /\ watts[p] \in Int
                                /\ 100 * new[p] <= x * part[p]
                                /\ sum * part[p] <= cap * watts[p]
        <5>1. ASSUME NEW p \in g.planes
              PROVE  /\ new[p] \in Int /\ part[p] \in Nat /\ watts[p] \in Int
                     /\ 100 * new[p] <= x * part[p]
                     /\ sum * part[p] <= cap * watts[p]
          <6>1. watts[p] \in Nat
            BY <1>1, <1>2
          <6>2. part[p] = Share(watts[p], cap, sum)
            OBVIOUS
          <6>3. LET t == Share(watts[p], cap, sum)
                IN /\ t \in Nat /\ sum * t <= cap * watts[p]
                   /\ new[p] \in Nat /\ 100 * new[p] <= x * t
            BY <1>5, <2>1, <3>2, ZenonT(60)
          <6> HIDE DEF new, part, sum, cap
          <6> QED BY <6>1, <6>2, <6>3
        <5> QED BY <5>1
      <4> HIDE DEF new, part
      <4>2. 100 * got <= x * all
        <5>1. /\ 100 \in Int /\ x \in Int
              /\ \A p \in g.planes : new[p] \in Int /\ part[p] \in Int /\ 100 * new[p] <= x * part[p]
          BY <4>1
        <5>2. 100 * SumFunctionOnSet(new, g.planes) <= x * SumFunctionOnSet(part, g.planes)
          BY <1>2, <5>1, SumInProportion
        <5> QED BY <5>2 DEF Total
      <4>3. sum * all <= cap * sum /\ all \in Nat
        <5>1. all \in Nat
          BY <1>2, <4>1, SumIsNat
        <5>2. sum \in Int /\ cap \in Int
          BY <1>2, <2>1
        <5> DEFINE m == sum  n == cap
        <5>3. /\ m \in Int /\ n \in Int
              /\ \A p \in g.planes : /\ part[p] \in Int /\ watts[p] \in Int
                                       /\ m * part[p] <= n * watts[p]
          BY <4>1, <5>2
        <5> HIDE DEF m, n
        <5>4. m * SumFunctionOnSet(part, g.planes) <= n * SumFunctionOnSet(watts, g.planes)
          BY <1>2, <5>3, SumInProportion
        <5> QED BY <5>1, <5>4 DEF m, n, Total
      <4> HIDE DEF all
      <4>4. all <= cap
        <5> DEFINE m == sum  n == cap
        <5>1. m \in Nat /\ n \in Nat /\ m > n /\ m * all <= n * m /\ all \in Nat
          BY <1>2, <2>1, <3>2, <4>3
        <5> HIDE DEF m, n
        <5>2. SUFFICES ASSUME all >= n + 1 PROVE FALSE
          BY <5>1 DEF n
        <5>3. m * all >= m * (n + 1) /\ m * (n + 1) = n * m + m
          BY <5>1, <5>2
        <5> DEFINE j == m * all  k == n * m
        <5>4. j \in Int /\ k \in Int /\ j <= k /\ j >= k + m
          BY <5>1, <5>3
        <5> HIDE DEF j, k
        <5> QED BY <5>1, <5>4
      <4> QED BY <4>2, <4>3, <4>4
    <3> QED BY <3>1, <3>2
  <2> HIDE DEF got, sum, cap
  <2>4. x * most <= 100 * g.limit
    <3>1. cap \in Nat /\ x * cap <= 100 * g.limit
      BY <2>1 DEF cap
    <3>2. x * most <= x * cap
      BY <2>3, <3>1
    <3> DEFINE m == x * most  n == x * cap
    <3>3. m \in Int /\ n \in Int
      BY <2>3, <3>1
    <3> HIDE DEF m, n
    <3>4. m <= n /\ n <= 100 * g.limit
      BY <3>1, <3>2 DEF m, n
    <3>5. m <= 100 * g.limit
      BY <1>2, <3>3, <3>4
    <3> QED BY <3>5 DEF m
  <2>5. 100 * got <= 100 * g.limit
    <3> DEFINE m == x * most
    <3>1. m \in Int
      BY <2>3
    <3> HIDE DEF m
    <3>2. 100 * got <= m /\ m <= 100 * g.limit
      BY <2>3, <2>4 DEF m
    <3> QED BY <1>2, <2>2, <3>1, <3>2
  <2> QED BY <1>2, <2>2, <2>5 DEF got
<1>8. new \in PerPlane
  <2>1. new = [p \in SolarPlanes |-> new[p]]
    BY DEF ClampGroupsAc
  <2> HIDE DEF new
  <2> QED BY <1>6, <2>1 DEF PerPlane
<1> QED BY <1>6, <1>7, <1>8
\* A site gives what its inverters' groups and its other planes do.
LEMMA SiteByGroup ==
    ASSUME NEW watts \in PerPlane, NEW lim,
           \A g \in ClipGroups : lim[g] \in Nat /\ Total(watts, g.planes) <= lim[g]
    PROVE  /\ Site(watts) \in Nat /\ Total(watts, SolarPlanes \ Grouped) \in Nat
           /\ SumFunctionOnSet(lim, ClipGroups) \in Nat
           /\ Site(watts) <= SumFunctionOnSet(lim, ClipGroups)
                               + Total(watts, SolarPlanes \ Grouped)
<1> DEFINE class == [p \in Grouped |-> CHOOSE g \in ClipGroups : p \in g.planes]
           part == [g \in ClipGroups |-> SumFunctionOnSet(watts, {p \in Grouped : class[p] = g})]
           free == SolarPlanes \ Grouped
<1>1. /\ IsFiniteSet(SolarPlanes) /\ IsFiniteSet(ClipGroups)
      /\ \A p \in SolarPlanes : watts[p] \in Nat
  BY EngineAssumption DEF PerPlane
<1>2. Grouped \subseteq SolarPlanes /\ IsFiniteSet(Grouped) /\ IsFiniteSet(free)
  <2>1. Grouped \subseteq SolarPlanes
    BY OneInverter DEF Grouped
  <2>2. free \subseteq SolarPlanes
    OBVIOUS
  <2> HIDE DEF free
  <2> QED BY <1>1, <2>1, <2>2, FS_Subset
<1>3. /\ \A p \in Grouped : class[p] \in ClipGroups
      /\ \A g \in ClipGroups : {p \in Grouped : class[p] = g} = g.planes
  <2>1. ASSUME NEW p \in Grouped PROVE class[p] \in ClipGroups /\ p \in class[p].planes
    BY DEF Grouped
  <2>2. ASSUME NEW g \in ClipGroups, NEW p \in g.planes
        PROVE  p \in Grouped /\ class[p] = g
    <3>1. p \in Grouped
      BY <2>2 DEF Grouped
    <3>2. {f \in ClipGroups : p \in f.planes} = {g}
      BY <2>2, OneInverter
    <3>3. class[p] \in ClipGroups /\ p \in class[p].planes
      BY <2>1, <3>1
    <3> HIDE DEF class
    <3> QED BY <3>1, <3>2, <3>3
  <2> HIDE DEF class
  <2> QED BY <2>1, <2>2
<1> HIDE DEF class
<1>4. SumFunction(part) = SumFunctionOnSet(watts, Grouped)
  <2>1. \A p \in Grouped : watts[p] \in Int
    BY <1>1, <1>2
  <2> QED BY <1>1, <1>2, <1>3, <2>1, SumByClass
<1>5. SumFunction(part) = SumFunctionOnSet(part, ClipGroups)
  BY DEF SumFunction
<1>6. \A g \in ClipGroups : part[g] = Total(watts, g.planes) /\ Total(watts, g.planes) \in Nat
  <2>1. ASSUME NEW g \in ClipGroups
        PROVE  part[g] = Total(watts, g.planes) /\ Total(watts, g.planes) \in Nat
    <3>1. part[g] = SumFunctionOnSet(watts, {p \in Grouped : class[p] = g})
      OBVIOUS
    <3>2. \A p \in g.planes : watts[p] \in Nat
      BY <1>1, OneInverter
    <3>3. SumFunctionOnSet(watts, g.planes) \in Nat
      BY <3>2, OneInverter, SumIsNat
    <3> QED BY <1>3, <3>1, <3>3 DEF Total
  <2> QED BY <2>1
<1> HIDE DEF part
<1>7. SumFunctionOnSet(part, ClipGroups) <= SumFunctionOnSet(lim, ClipGroups)
  <2>1. \A g \in ClipGroups : part[g] \in Int /\ lim[g] \in Int /\ part[g] <= lim[g]
    BY <1>6
  <2> QED BY <1>1, <2>1, SumMono
<1>8. Site(watts) = SumFunctionOnSet(watts, Grouped) + Total(watts, free)
  <2>1. Grouped \in SUBSET SolarPlanes /\ \A p \in SolarPlanes : watts[p] \in Int
    BY <1>1, <1>2
  <2> QED BY <1>1, <2>1, SumSplit DEF Site, Total
<1>9. /\ Site(watts) \in Nat /\ Total(watts, free) \in Nat
      /\ SumFunctionOnSet(lim, ClipGroups) \in Nat /\ SumFunctionOnSet(watts, Grouped) \in Nat
  <2>1. (\A p \in free : watts[p] \in Nat) /\ \A p \in Grouped : watts[p] \in Nat
    BY <1>1, <1>2
  <2> HIDE DEF free
  <2>2. /\ SumFunctionOnSet(watts, SolarPlanes) \in Nat
        /\ SumFunctionOnSet(watts, free) \in Nat
    BY <1>1, <1>2, <2>1, SumIsNat
  <2>3. /\ SumFunctionOnSet(lim, ClipGroups) \in Nat
        /\ SumFunctionOnSet(watts, Grouped) \in Nat
    BY <1>1, <1>2, <2>1, SumIsNat
  <2> QED BY <2>2, <2>3 DEF Site, Total
<1> HIDE DEF free
<1>10. Site(watts) <= SumFunctionOnSet(lim, ClipGroups) + Total(watts, free)
  <2> DEFINE a == SumFunctionOnSet(part, ClipGroups)  b == SumFunctionOnSet(lim, ClipGroups)
             c == Total(watts, free)  d == SumFunctionOnSet(watts, Grouped)
  <2>1. a = d /\ a <= b /\ Site(watts) = d + c /\ b \in Nat /\ c \in Nat /\ d \in Nat
    BY <1>4, <1>5, <1>7, <1>8, <1>9
  <2> HIDE DEF a, b, c, d
  <2>2. Site(watts) <= b + c
    BY <2>1
  <2> QED BY <2>2 DEF b, c
<1> QED BY <1>9, <1>10 DEF free

\* A curve that is no plane's more gives no more.
LEMMA SiteGrows ==
    ASSUME NEW less \in PerPlane, NEW more \in PerPlane, \A p \in SolarPlanes : less[p] <= more[p]
    PROVE  Site(less) <= Site(more) /\ Site(less) \in Nat /\ Site(more) \in Nat
<1>1. IsFiniteSet(SolarPlanes)
  BY EngineAssumption
<1>2. \A p \in SolarPlanes : less[p] \in Nat /\ more[p] \in Nat /\ less[p] \in Int /\ more[p] \in Int
  BY DEF PerPlane
<1>3. SumFunctionOnSet(less, SolarPlanes) <= SumFunctionOnSet(more, SolarPlanes)
  BY <1>1, <1>2, SumMono
<1>4. SumFunctionOnSet(less, SolarPlanes) \in Nat /\ SumFunctionOnSet(more, SolarPlanes) \in Nat
  BY <1>1, <1>2, SumIsNat
<1> QED BY <1>3, <1>4 DEF Site, Total
-----------------------------------------------------------------------------
(* One slot.                                                                *)

Factors == SlotFactors \cup {100}
BandTriples == {b \in [1..3 -> Nat] : b[1] <= b[2] /\ b[2] <= b[3]}

\* What a slot promises under the learners of its forecast.
SlotDelivers(s, hk) ==
    /\ s.raw \in PerPlane /\ s.slow \in PerPlane /\ s.served \in PerPlane
    /\ s.ac \in Nat /\ s.ceiling \in Nat /\ s.acCeiling \in Nat
    /\ s.band = <<>> \/ s.band \in BandTriples
    /\ ~s.lit => s.raw = NoWatts /\ s.served = NoWatts /\ s.ac = 0 /\ s.band = <<>>
    /\ \A g \in ClipGroups :
          \A c \in {s.raw, s.slow, s.served} : Total(c, g.planes) <= (g.limit * 100) \div g.eta
    /\ \A p \in SolarPlanes : Near(s.beam[p] + s.sky[p], s.served[p])
    /\ s.ac <= Site([p \in SolarPlanes |-> (s.served[p] * EtaOf(p, hk.eta)) \div 100])
    /\ s.ac <= s.acCeiling /\ Site(s.served) <= s.ceiling
    /\ s.unclamped >= Site(s.served) /\ s.acUnclamped >= s.ac

\* The inverters' limits are numbers.
LEMMA LimitsAreNat ==
    /\ DcLimit = SumFunctionOnSet([g \in ClipGroups |-> Cap(g)], ClipGroups) /\ DcLimit \in Nat
    /\ AcLimit = SumFunctionOnSet([g \in ClipGroups |-> g.limit], ClipGroups) /\ AcLimit \in Nat
<1> DEFINE d == [g \in ClipGroups |-> Cap(g)]  a == [g \in ClipGroups |-> g.limit]
<1>1. IsFiniteSet(ClipGroups)
  BY EngineAssumption
<1>2. \A g \in ClipGroups : d[g] \in Nat /\ a[g] \in Nat
  BY OneInverter
<1>3. DOMAIN d = ClipGroups /\ DOMAIN a = ClipGroups
  OBVIOUS
<1>4. DcLimit = SumFunction(d) /\ AcLimit = SumFunction(a)
  BY DEF DcLimit, AcLimit, Cap
<1> HIDE DEF d, a
<1>5. SumFunctionOnSet(d, ClipGroups) \in Nat /\ SumFunctionOnSet(a, ClipGroups) \in Nat
  BY <1>1, <1>2, SumIsNat
<1> QED BY <1>3, <1>4, <1>5 DEF SumFunction, d, a

\* A percentage of a plane's watts is a number.
LEMMA PercentIsNat ==
    ASSUME NEW watts \in PerPlane, NEW percent, \A p \in SolarPlanes : percent[p] \in Nat
    PROVE  [p \in SolarPlanes |-> (watts[p] * percent[p]) \div 100] \in PerPlane
<1>1. ASSUME NEW p \in SolarPlanes PROVE (watts[p] * percent[p]) \div 100 \in Nat
  <2>1. watts[p] * percent[p] \in Nat
    BY DEF PerPlane
  <2> DEFINE m == watts[p] * percent[p]
  <2> HIDE DEF m
  <2>2. m \in Nat
    BY <2>1 DEF m
  <2>3. m \div 100 \in Nat
    BY <2>2, Quotient
  <2> QED BY <2>3 DEF m
<1> QED BY <1>1 DEF PerPlane

\* A slot without light promises it trivially: it serves nothing.
LEMMA ZeroSlotDelivers ==
    ASSUME NEW w, NEW hk \in Learners PROVE SlotDelivers(ZeroSlot(w), hk)
<1> DEFINE s == ZeroSlot(w)
<1>1. IsFiniteSet(SolarPlanes) /\ hk.eta \in 0..100
  BY EngineAssumption DEF Learners
<1>2. NoWatts \in PerPlane /\ \A p \in SolarPlanes : NoWatts[p] = 0
  BY DEF NoWatts, PerPlane
<1>3. /\ s.raw = NoWatts /\ s.slow = NoWatts /\ s.served = NoWatts /\ s.beam = NoWatts
      /\ s.sky = NoWatts /\ s.unclamped = 0 /\ s.ac = 0 /\ s.acUnclamped = 0
      /\ s.ceiling = DcLimit /\ s.acCeiling = AcLimit /\ s.band = <<>>
  BY DEF ZeroSlot
<1> HIDE DEF s
<1>4. Site(NoWatts) = 0
  BY <1>1, <1>2, SumOfZero DEF Site, Total
<1>5. ASSUME NEW g \in ClipGroups PROVE Total(NoWatts, g.planes) <= (g.limit * 100) \div g.eta
  <2>1. \A p \in g.planes : NoWatts[p] = 0
    BY <1>2, OneInverter
  <2>2. Total(NoWatts, g.planes) = 0
    BY <2>1, OneInverter, SumOfZero DEF Total
  <2>3. Cap(g) \in Nat
    BY OneInverter
  <2> QED BY <2>2, <2>3 DEF Cap
<1>6. Near(0 + 0, 0)
  <2>1. 100 \div 100 = 1
    OBVIOUS
  <2> QED BY <2>1 DEF Near
<1>7. 0 <= Site([p \in SolarPlanes |-> (NoWatts[p] * EtaOf(p, hk.eta)) \div 100])
  <2> DEFINE percent == [p \in SolarPlanes |-> EtaOf(p, hk.eta)]
             most == [p \in SolarPlanes |-> (NoWatts[p] * percent[p]) \div 100]
  <2>1. \A p \in SolarPlanes : percent[p] \in Nat
    <3>1. ASSUME NEW p \in SolarPlanes PROVE EtaOf(p, hk.eta) \in Nat
      BY <1>1, EtaOfPlane
    <3> QED BY <3>1
  <2>2. most = [p \in SolarPlanes |-> (NoWatts[p] * EtaOf(p, hk.eta)) \div 100]
    OBVIOUS
  <2> HIDE DEF percent
  <2>3. most \in PerPlane
    BY <1>2, <2>1, PercentIsNat
  <2> HIDE DEF most
  <2>4. Site(most) \in Nat
    BY <2>3, SiteGrows DEF PerPlane
  <2> QED BY <2>2, <2>4
<1>8. DcLimit \in Nat /\ AcLimit \in Nat
  BY LimitsAreNat
<1>9. /\ \A g \in ClipGroups :
            \A c \in {s.raw, s.slow, s.served} : Total(c, g.planes) <= (g.limit * 100) \div g.eta
      /\ \A p \in SolarPlanes : Near(s.beam[p] + s.sky[p], s.served[p])
  BY <1>2, <1>3, <1>5, <1>6
<1>10. s.ac <= Site([p \in SolarPlanes |-> (s.served[p] * EtaOf(p, hk.eta)) \div 100])
  BY <1>3, <1>7
<1> QED BY <1>2, <1>3, <1>4, <1>8, <1>9, <1>10 DEF SlotDelivers, s
\* The curves of a lit slot, by name.
FactorOf(answer) == IF answer = 0 THEN 100 ELSE answer
TauOf(w, hk) == IF hk.tau = NoTau THEN w.static ELSE hk.tau
Shares(w, tau) == [p \in SolarPlanes |-> DcSplit(w.direct[p], w.sky[p], tau[p])]
LearnedCurve(w, hk) == Whole(Shares(w, TauOf(w, hk)))
SlowCurve(w, hk) == ClampGroups(LearnedCurve(w, hk))
ServedCurve(w, hk, f) == ClampGroups(Factored(SlowCurve(w, hk), f))
AcCurve(w, hk, f) == ClampGroupsAc(ServedCurve(w, hk, f), hk.eta)
PartCurve(w, hk, f, share) ==
    SplitClamp(Factored(SplitClamp(share, SlowCurve(w, hk), LearnedCurve(w, hk)), f),
               ServedCurve(w, hk, f), Factored(SlowCurve(w, hk), f))

\* Watts times a percentage are numbers.
LEMMA FactoredIsNat ==
    ASSUME NEW watts \in PerPlane, NEW f \in Nat PROVE Factored(watts, f) \in PerPlane
<1> DEFINE percent == [p \in SolarPlanes |-> f]
<1>1. /\ \A p \in SolarPlanes : percent[p] \in Nat
      /\ Factored(watts, f) = [p \in SolarPlanes |-> (watts[p] * percent[p]) \div 100]
  BY DEF Factored
<1> HIDE DEF percent
<1> QED BY <1>1, PercentIsNat

\* The shares of a plane are numbers, and so is their sum.
LEMMA SharesAreNat ==
    ASSUME NEW w \in SlotWeathers, NEW tau \in PerPlane
    PROVE  /\ Whole(Shares(w, tau)) \in PerPlane
           /\ \A p \in SolarPlanes :
                 /\ Shares(w, tau)[p].beam \in Nat /\ Shares(w, tau)[p].sky \in Nat
                 /\ Whole(Shares(w, tau))[p] = Shares(w, tau)[p].beam + Shares(w, tau)[p].sky
<1> DEFINE s == Shares(w, tau)
<1>1. ASSUME NEW p \in SolarPlanes PROVE s[p].beam \in Nat /\ s[p].sky \in Nat
  <2>1. w.direct[p] \in Nat /\ w.sky[p] \in Nat /\ tau[p] \in Nat
    BY EngineAssumption DEF PerPlane
  <2>2. s[p] = DcSplit(w.direct[p], w.sky[p], tau[p])
    BY DEF Shares
  <2> QED BY <2>1, <2>2, DcSplitIsNat
<1> HIDE DEF s
<1>2. /\ Whole(s) \in PerPlane
      /\ \A p \in SolarPlanes : Whole(s)[p] = s[p].beam + s[p].sky
  BY <1>1 DEF Whole, PerPlane
<1> QED BY <1>1, <1>2 DEF s

\* A lit slot keeps what it promises.
LEMMA LitSlotDelivers ==
    ASSUME NEW w \in SlotWeathers, NEW hk \in Learners, NEW answer \in Factors,
           NEW band \in SlotBands \cup {<<>>}
    PROVE  SlotDelivers(LitSlot(w, hk, answer, band), hk)
<1> DEFINE s == LitSlot(w, hk, answer, band)  f == FactorOf(answer)
           tau == TauOf(w, hk)  cor == Shares(w, tau)  all == LearnedCurve(w, hk)
           slow == SlowCurve(w, hk)  before == Factored(slow, f)
           served == ServedCurve(w, hk, f)  ac == AcCurve(w, hk, f)  raw == s.raw
           free == SolarPlanes \ Grouped  eta == hk.eta
           percent == [p \in SolarPlanes |-> EtaOf(p, eta)]
           most(c) == [p \in SolarPlanes |-> (c[p] * percent[p]) \div 100]
<1>0. s = LitSlot(w, hk, answer, band) /\ f = FactorOf(answer)
  OBVIOUS
<1> HIDE DEF s, f
<1>1. f \in Factors /\ f \in Nat /\ eta \in 0..100
  <2>1. f \in Factors
    BY <1>0 DEF Factors, FactorOf
  <2>2. \A x \in Factors : x \in Nat
    BY EngineAssumption DEF Factors
  <2>3. eta \in 0..100
    BY EngineAssumption DEF Learners
  <2> QED BY <2>1, <2>2, <2>3
<1>2. tau \in PerPlane /\ w.static \in PerPlane
  BY EngineAssumption DEF TauOf, Learners
<1>3. /\ all \in PerPlane
      /\ \A p \in SolarPlanes : /\ cor[p].beam \in Nat /\ cor[p].sky \in Nat
                                /\ all[p] = cor[p].beam + cor[p].sky
  BY <1>2, SharesAreNat DEF LearnedCurve
<1>4. /\ raw \in PerPlane
      /\ \A g \in ClipGroups : Total(raw, g.planes) <= Cap(g)
  <2>1. raw = ClampGroups(Whole(Shares(w, w.static)))
    BY <1>0 DEF LitSlot, FactorOf, TauOf, Shares, LearnedCurve, SlowCurve, ServedCurve, AcCurve,
         PartCurve, CorrectGroups, AcInput
  <2> HIDE DEF raw
  <2> QED BY <1>2, <2>1, SharesAreNat, Clamped
<1>5. /\ slow \in PerPlane /\ \A p \in SolarPlanes : slow[p] <= all[p]
      /\ \A g \in ClipGroups : Total(slow, g.planes) <= Cap(g)
  BY <1>3, Clamped DEF SlowCurve
<1>6. before \in PerPlane
  BY <1>1, <1>5, FactoredIsNat
<1>7. /\ served \in PerPlane /\ \A p \in SolarPlanes : served[p] <= before[p]
      /\ \A g \in ClipGroups : Total(served, g.planes) <= Cap(g)
  BY <1>6, Clamped DEF ServedCurve
<1>8. /\ s.lit = TRUE /\ s.band = band /\ s.slow = slow /\ s.served = served
      /\ s.beam = PartCurve(w, hk, f, [p \in SolarPlanes |-> cor[p].beam])
      /\ s.sky = PartCurve(w, hk, f, [p \in SolarPlanes |-> cor[p].sky])
      /\ s.unclamped = Site(before) /\ s.ac = Site(ac)
      /\ s.acUnclamped = Site([p \in SolarPlanes |-> (before[p] * EtaOf(p, eta)) \div 100])
      /\ s.ceiling = DcLimit + Total(served, free) /\ s.acCeiling = AcLimit + Total(ac, free)
  BY <1>0 DEF LitSlot, FactorOf, TauOf, Shares, LearnedCurve, SlowCurve, ServedCurve, AcCurve,
         PartCurve, CorrectGroups, AcInput
<1>9. ASSUME NEW p \in SolarPlanes PROVE Near(s.beam[p] + s.sky[p], s.served[p])
  <2> DEFINE b == cor[p].beam  k == cor[p].sky
  <2>1. /\ s.beam[p] = Share((Share(b, slow[p], b + k) * f) \div 100, served[p], before[p])
        /\ s.sky[p] = Share((Share(k, slow[p], b + k) * f) \div 100, served[p], before[p])
    BY <1>3, <1>8 DEF PartCurve, SplitClamp, Factored
  <2>2. /\ b \in Nat /\ k \in Nat /\ slow[p] \in Nat /\ slow[p] <= b + k
        /\ before[p] = (slow[p] * f) \div 100 /\ served[p] \in Nat /\ served[p] <= before[p]
    BY <1>3, <1>5, <1>7 DEF Factored, PerPlane
  <2> HIDE DEF b, k, slow, before, served, f
  <2>3. /\ s.beam[p] \in Nat /\ s.sky[p] \in Nat /\ s.beam[p] + s.sky[p] <= served[p]
        /\ served[p] - (s.beam[p] + s.sky[p]) <= 4 + f \div 100
    <3> DEFINE x == s.beam[p]  y == s.sky[p]
    <3> HIDE DEF x, y
    <3>1. /\ x = Share((Share(b, slow[p], b + k) * f) \div 100, served[p], before[p])
          /\ y = Share((Share(k, slow[p], b + k) * f) \div 100, served[p], before[p])
      BY <2>1 DEF x, y
    <3> DEFINE sl == slow[p]  be == before[p]  se == served[p]
    <3> HIDE DEF sl, be, se
    <3>2. /\ x = Share((Share(b, sl, b + k) * f) \div 100, se, be)
          /\ y = Share((Share(k, sl, b + k) * f) \div 100, se, be)
      BY <3>1 DEF sl, be, se
    <3>3. /\ b \in Nat /\ k \in Nat /\ sl \in Nat /\ sl <= b + k /\ f \in Nat
          /\ be = (sl * f) \div 100 /\ se \in Nat /\ se <= be
      BY <1>1, <2>2 DEF sl, be, se
    <3>4. x \in Nat /\ y \in Nat /\ x + y <= se /\ se - (x + y) <= 4 + f \div 100
      BY <3>2, <3>3, SplitIsNear
    <3> QED BY <3>4 DEF x, y, se
  <2>4. served[p] = s.served[p]
    BY <1>8
  <2> QED BY <1>1, <2>3, <2>4 DEF Near, Factors
<1>10. ASSUME NEW g \in ClipGroups, NEW c \in {s.raw, s.slow, s.served}
       PROVE  Total(c, g.planes) <= (g.limit * 100) \div g.eta
  BY <1>4, <1>5, <1>7, <1>8 DEF Cap
<1>11. /\ ac \in PerPlane
       /\ \A p \in SolarPlanes : ac[p] <= (served[p] * EtaOf(p, eta)) \div 100
       /\ \A g \in ClipGroups : Total(ac, g.planes) <= g.limit
  BY <1>1, <1>7, ClampedAc DEF AcCurve
<1>12. \A p \in SolarPlanes : percent[p] \in Nat /\ percent[p] = EtaOf(p, eta)
  <2> HIDE DEF eta
  <2>1. ASSUME NEW p \in SolarPlanes PROVE EtaOf(p, eta) \in Nat
    <3>1. EtaOf(p, eta) \in 1..100
      BY <1>1, EtaOfPlane, Zenon
    <3> DEFINE x == EtaOf(p, eta)
    <3> HIDE DEF x
    <3>2. x \in 1..100
      BY <3>1 DEF x
    <3>3. x \in Nat
      BY <3>2
    <3> QED BY <3>3 DEF x
  <2> QED BY <2>1
<1> HIDE DEF percent
<1>13. most(served) \in PerPlane /\ most(before) \in PerPlane
  BY <1>6, <1>7, <1>12, PercentIsNat
<1>14. \A p \in SolarPlanes : ac[p] <= most(served)[p] /\ most(served)[p] <= most(before)[p]
  <2>1. ASSUME NEW p \in SolarPlanes PROVE most(served)[p] <= most(before)[p]
    <3> DEFINE a == served[p]  b == before[p]  c == percent[p]
    <3>1. a \in Nat /\ b \in Nat /\ c \in Nat /\ a <= b
      BY <1>6, <1>7, <1>12 DEF PerPlane
    <3> HIDE DEF a, b, c
    <3>2. a * c \in Nat /\ b * c \in Nat /\ a * c <= b * c
      BY <3>1
    <3>3. (a * c) \div 100 <= (b * c) \div 100
      BY <3>2, QuotientGrows
    <3> QED BY <3>3 DEF a, b, c
  <2> QED BY <1>11, <1>12, <2>1
<1>15. /\ Site(ac) \in Nat /\ Site(served) \in Nat /\ Site(before) \in Nat
       /\ Site(ac) <= Site(most(served)) /\ Site(ac) <= Site(most(before))
       /\ Site(served) <= Site(before)
       /\ Site(most(served)) \in Nat /\ Site(most(before)) \in Nat
  <2>1. \A p \in SolarPlanes : ac[p] <= most(before)[p]
    <3>1. ASSUME NEW p \in SolarPlanes PROVE ac[p] <= most(before)[p]
      <4>1. ac[p] \in Nat /\ most(served)[p] \in Nat /\ most(before)[p] \in Nat
        BY <1>11, <1>13 DEF PerPlane
      <4> QED BY <1>14, <4>1
    <3> QED BY <3>1
  <2> HIDE DEF ac, served, before, most
  <2> QED BY <1>6, <1>7, <1>11, <1>13, <1>14, <2>1, SiteGrows
<1>16. /\ most(served) = [p \in SolarPlanes |-> (served[p] * EtaOf(p, eta)) \div 100]
       /\ most(before) = [p \in SolarPlanes |-> (before[p] * EtaOf(p, eta)) \div 100]
  BY <1>12
<1>17. Site(served) <= DcLimit + Total(served, free) /\ Total(served, free) \in Nat
  <2> DEFINE lim == [g \in ClipGroups |-> Cap(g)]
  <2>1. \A g \in ClipGroups : lim[g] \in Nat /\ Total(served, g.planes) <= lim[g]
    BY <1>7, OneInverter
  <2>2. DcLimit = SumFunctionOnSet(lim, ClipGroups)
    BY LimitsAreNat
  <2> HIDE DEF lim, served
  <2> QED BY <1>7, <2>1, <2>2, SiteByGroup
<1>18. Site(ac) <= AcLimit + Total(ac, free) /\ Total(ac, free) \in Nat
  <2> DEFINE lim == [g \in ClipGroups |-> g.limit]
  <2>1. \A g \in ClipGroups : lim[g] \in Nat /\ Total(ac, g.planes) <= lim[g]
    BY <1>11, OneInverter
  <2>2. AcLimit = SumFunctionOnSet(lim, ClipGroups)
    BY LimitsAreNat
  <2> HIDE DEF lim, ac
  <2> QED BY <1>11, <2>1, <2>2, SiteByGroup
<1>19. band = <<>> \/ band \in BandTriples
  BY EngineAssumption DEF BandTriples
<1> HIDE DEF s, f, tau, cor, all, slow, before, served, ac, free, eta, most
<1>20. /\ s.raw \in PerPlane /\ s.slow \in PerPlane /\ s.served \in PerPlane
       /\ s.ac \in Nat /\ s.ceiling \in Nat /\ s.acCeiling \in Nat
  BY <1>4, <1>5, <1>7, <1>8, <1>15, <1>17, <1>18, <1>19, LimitsAreNat
<1>21. s.ac <= Site([p \in SolarPlanes |-> (s.served[p] * EtaOf(p, eta)) \div 100])
  BY <1>8, <1>15, <1>16
<1>22. /\ s.ac <= s.acCeiling /\ Site(s.served) <= s.ceiling
       /\ s.unclamped >= Site(s.served) /\ s.acUnclamped >= s.ac
  <2>1. s.acUnclamped = Site(most(before))
    BY <1>8, <1>16
  <2> QED BY <1>8, <1>15, <1>17, <1>18, <2>1
<1>23. s.lit = TRUE /\ (s.band = <<>> \/ s.band \in BandTriples)
  BY <1>8, <1>19
<1> QED BY <1>9, <1>10, <1>20, <1>21, <1>22, <1>23 DEF SlotDelivers, s, eta
\* The labels of a lit slot are those of a site that never learned, whose
\* served curve is its raw one.
LEMMA LitSlotOwnsNothing ==
    ASSUME NEW w \in SlotWeathers, NEW hk, NEW answer, NEW band
    PROVE  LET s == LitSlot(w, hk, answer, band)
               n == LitSlot(w, NeutralHooks, 100, <<>>)
           IN /\ s.raw = n.raw /\ s.beamRef = n.beamRef /\ s.skyRef = n.skyRef
              /\ n.served = n.raw
<1> DEFINE s == LitSlot(w, hk, answer, band)  n == LitSlot(w, NeutralHooks, 100, <<>>)
           raw == ClampGroups(Whole(Shares(w, w.static)))
<1>1. s.raw = raw /\ n.raw = raw
  BY DEF LitSlot, Shares
<1>2. s.skyRef = n.skyRef
  BY DEF LitSlot
<1>3. s.beamRef = n.beamRef
  <2>1. \A p, a, b : BeamReference(w, p, a) = BeamReference(w, p, b)
    BY DEF BeamReference, OperatingPoint
  <2>2. /\ s.beamRef = [p \in SolarPlanes |-> BeamReference(w, p, TauOf(w, hk)[p])]
        /\ n.beamRef = [p \in SolarPlanes |-> BeamReference(w, p, TauOf(w, NeutralHooks)[p])]
    BY DEF LitSlot, TauOf
  <2> HIDE DEF s, n
  <2>3. \A p \in SolarPlanes : BeamReference(w, p, TauOf(w, hk)[p])
                                 = BeamReference(w, p, TauOf(w, NeutralHooks)[p])
    BY <2>1
  <2> QED BY <2>2, <2>3
<1>4. raw \in PerPlane /\ ClampGroups(raw) = raw
  <2>1. w.static \in PerPlane
    BY EngineAssumption
  <2>2. Whole(Shares(w, w.static)) \in PerPlane
    BY <2>1, SharesAreNat
  <2>3. raw \in PerPlane /\ \A g \in ClipGroups : Total(raw, g.planes) <= Cap(g)
    BY <2>2, Clamped
  <2> HIDE DEF raw
  <2> QED BY <2>3, ClampedTwice
<1>5. n.served = ClampGroups(Factored(raw, 100))
  <2>1. NeutralHooks.tau = NoTau
    BY DEF NeutralHooks
  <2>2. TauOf(w, NeutralHooks) = w.static
    BY <2>1 DEF TauOf
  <2>3. n.served = ServedCurve(w, NeutralHooks, 100)
    BY DEF LitSlot, FactorOf, TauOf, Shares, LearnedCurve, SlowCurve, ServedCurve, CorrectGroups
  <2> QED BY <2>2, <2>3 DEF ServedCurve, SlowCurve, LearnedCurve
<1> HIDE DEF raw
<1>6. Factored(raw, 100) = raw
  <2>1. ASSUME NEW p \in SolarPlanes PROVE (raw[p] * 100) \div 100 = raw[p]
    <3> DEFINE x == raw[p]
    <3>1. x \in Nat
      BY <1>4 DEF PerPlane
    <3> HIDE DEF x
    <3>2. (x * 100) \div 100 = x
      BY <3>1
    <3> QED BY <3>2 DEF x
  <2> QED BY <1>4, <2>1 DEF Factored, PerPlane
<1> HIDE DEF s, n
<1>7. n.served = n.raw
  BY <1>1, <1>4, <1>5, <1>6
<1> QED BY <1>1, <1>2, <1>3, <1>7 DEF s, n

-----------------------------------------------------------------------------
(* Energy.                                                                  *)

\* EnergyTotals.add adds what it is given.
LEMMA AddedSum ==
    ASSUME NEW totals, IsFiniteSet(DOMAIN totals), \A k \in DOMAIN totals : totals[k] \in Int,
           NEW key, NEW watts \in Int
    PROVE  /\ DOMAIN Added(totals, key, watts) = DOMAIN totals \cup {key}
           /\ IsFiniteSet(DOMAIN Added(totals, key, watts))
           /\ \A k \in DOMAIN totals \cup {key} : Added(totals, key, watts)[k] \in Int
           /\ SumFunction(Added(totals, key, watts)) = SumFunction(totals) + watts
<1> DEFINE new == Added(totals, key, watts)  S == DOMAIN totals \cup {key}
           R == S \ {key}
<1>1. DOMAIN new = S /\ IsFiniteSet(S) /\ key \in S /\ IsFiniteSet(R) /\ IsFiniteSet(DOMAIN totals)
  <2>1. DOMAIN new = S /\ key \in S
    BY DEF Added
  <2>2. IsFiniteSet(S)
    BY FS_AddElement
  <2>3. R \subseteq S
    OBVIOUS
  <2> HIDE DEF R, S
  <2>4. IsFiniteSet(R)
    BY <2>2, <2>3, FS_Subset
  <2> QED BY <2>1, <2>2, <2>4
<1>2. /\ \A k \in R : new[k] = totals[k] /\ k \in DOMAIN totals
      /\ new[key] = (IF key \in DOMAIN totals THEN totals[key] ELSE 0) + watts
      /\ \A k \in S : new[k] \in Int
  BY DEF Added
<1> HIDE DEF new
<1>3. SumFunctionOnSet(new, S) = new[key] + SumFunctionOnSet(new, R)
  <2> HIDE DEF S
  <2> QED BY <1>1, <1>2, SumRemove
<1>4. SumFunctionOnSet(new, R) = SumFunctionOnSet(totals, R)
  <2> HIDE DEF R
  <2> QED BY <1>1, <1>2, SumCong
<1>5. SumFunctionOnSet(totals, R) \in Int
  <2> HIDE DEF R
  <2> QED BY <1>1, <1>2, SumIsInt
<1>6. SumFunctionOnSet(new, S) = SumFunctionOnSet(totals, DOMAIN totals) + watts
  <2>1. CASE key \in DOMAIN totals
    <3> DEFINE T == DOMAIN totals
    <3>1. R = T \ {key} /\ key \in T
      BY <2>1
    <3>2. IsFiniteSet(T) /\ \A k \in T : totals[k] \in Int
      OBVIOUS
    <3> HIDE DEF T
    <3>3. SumFunctionOnSet(totals, T) = totals[key] + SumFunctionOnSet(totals, T \ {key})
      BY <3>1, <3>2, SumRemove
    <3>4. SumFunctionOnSet(totals, T) = totals[key] + SumFunctionOnSet(totals, R)
      BY <3>1, <3>3
    <3>5. new[key] = totals[key] + watts /\ totals[key] \in Int
      BY <1>2, <2>1
    <3> HIDE DEF R, S
    <3>6. SumFunctionOnSet(new, S) = SumFunctionOnSet(totals, T) + watts
      BY <1>3, <1>4, <1>5, <3>4, <3>5
    <3> QED BY <3>6 DEF T, S
  <2>2. CASE key \notin DOMAIN totals
    <3>1. R = DOMAIN totals
      BY <2>2
    <3>2. new[key] = 0 + watts
      BY <1>2, <2>2
    <3>3. SumFunctionOnSet(totals, R) = SumFunctionOnSet(totals, DOMAIN totals)
      BY <3>1
    <3> HIDE DEF R, S
    <3> QED BY <1>3, <1>4, <1>5, <3>2, <3>3
  <2> QED BY <2>1, <2>2
<1> QED BY <1>1, <1>2, <1>6 DEF SumFunction, new

\* A list that grows by one sums to that one more.
LEMMA AppendedSum ==
    ASSUME NEW n \in Nat, NEW old, DOMAIN old = 1..n, \A i \in 1..n : old[i] \in Int,
           NEW new, DOMAIN new = 1..(n + 1), NEW last \in Int,
           \A i \in 1..n : new[i] = old[i], new[n + 1] = last
    PROVE  SumFunction(new) = SumFunction(old) + last
<1> DEFINE S == 1..(n + 1)  T == 1..n
<1>1. IsFiniteSet(S) /\ IsFiniteSet(T)
  BY FS_Interval
<1>2. S \ {n + 1} = T /\ n + 1 \in S
  OBVIOUS
<1>3. \A i \in S : new[i] \in Int
  OBVIOUS
<1>4. \A i \in T : new[i] = old[i] /\ old[i] \in Int
  OBVIOUS
<1>5. SumFunction(new) = SumFunctionOnSet(new, S) /\ SumFunction(old) = SumFunctionOnSet(old, T)
  BY DEF SumFunction
<1> HIDE DEF S, T
<1>6. SumFunctionOnSet(new, S) = new[n + 1] + SumFunctionOnSet(new, S \ {n + 1})
  BY <1>1, <1>2, <1>3, SumRemove
<1>7. SumFunctionOnSet(new, T) = SumFunctionOnSet(old, T) /\ SumFunctionOnSet(old, T) \in Int
  BY <1>1, <1>4, SumCong, SumIsInt
<1> DEFINE x == SumFunctionOnSet(new, S)  y == SumFunctionOnSet(old, T)
<1>8. x = last + y
  BY <1>2, <1>6, <1>7
<1>9. y \in Int
  BY <1>7
<1> HIDE DEF x, y
<1>10. x = y + last
  BY <1>8, <1>9
<1> QED BY <1>5, <1>10 DEF x, y
-----------------------------------------------------------------------------
(* Bands.                                                                   *)

\* The hours of a band, and a band, of any slots.
LineOf(curve, q) == [i \in DOMAIN curve |-> curve[i][q]]
HoursOf(hours, sl, curve, q) ==
    [h \in hours |-> SumFunctionOnSet(LineOf(curve, q), {i \in DOMAIN curve : sl[i].hour = h})]

BandOf(sl, watts, ceiling) ==
    [i \in DOMAIN sl |->
        [q \in 1..3 |-> Deliverable(IF sl[i].band = <<>> THEN watts[i]
                                    ELSE (watts[i] * sl[i].band[q]) \div 100,
                                    ceiling[i])]]

\* The hours hold all of a band whose slots outside of them are empty.
LEMMA HoursHoldAll ==
    ASSUME NEW hours, IsFiniteSet(hours), NEW sl, NEW curve, IsFiniteSet(DOMAIN curve), NEW q,
           \A i \in DOMAIN curve :
              curve[i][q] \in Int /\ (sl[i].hour \in hours \/ curve[i][q] = 0)
    PROVE  SumFunction(HoursOf(hours, sl, curve, q)) = SumFunction(LineOf(curve, q))
<1> DEFINE f == LineOf(curve, q)  S == DOMAIN curve
           T == {i \in S : sl[i].hour \in hours}
           hour == [i \in S |-> sl[i].hour]
           part == [h \in hours |-> SumFunctionOnSet(f, {i \in T : hour[i] = h})]
<1>1. /\ IsFiniteSet(S) /\ T \in SUBSET S /\ DOMAIN f = S
      /\ \A i \in S : f[i] \in Int
      /\ \A i \in S \ T : f[i] = 0
      /\ \A i \in T : hour[i] \in hours
  BY DEF LineOf
<1>2. IsFiniteSet(T) /\ IsFiniteSet(S \ T)
  <2>1. T \subseteq S /\ S \ T \subseteq S
    OBVIOUS
  <2> HIDE DEF T
  <2> QED BY <1>1, <2>1, FS_Subset
<1>3. HoursOf(hours, sl, curve, q) = part
  <2>1. ASSUME NEW h \in hours
        PROVE  {i \in DOMAIN curve : sl[i].hour = h} = {i \in T : hour[i] = h}
    OBVIOUS
  <2>2. HoursOf(hours, sl, curve, q) =
           [h \in hours |-> SumFunctionOnSet(f, {i \in DOMAIN curve : sl[i].hour = h})]
    BY DEF HoursOf
  <2> HIDE DEF f, T, hour
  <2> QED BY <2>1, <2>2
<1> HIDE DEF f, hour, T, S
<1>4. SumFunction(part) = SumFunctionOnSet(f, T)
  <2>1. \A i \in T : f[i] \in Int
    BY <1>1
  <2> QED BY <1>1, <1>2, <2>1, SumByClass
<1>5. SumFunctionOnSet(f, S) = SumFunctionOnSet(f, T) + SumFunctionOnSet(f, S \ T)
  BY <1>1, SumSplit
<1>6. SumFunctionOnSet(f, S \ T) = 0
  <2> DEFINE Z == S \ T
  <2>1. IsFiniteSet(Z) /\ \A i \in Z : f[i] = 0
    BY <1>1, <1>2
  <2> HIDE DEF Z
  <2>2. SumFunctionOnSet(f, Z) = 0
    BY <2>1, SumOfZero
  <2> QED BY <2>2 DEF Z
<1>7. SumFunctionOnSet(f, T) \in Int
  BY <1>1, <1>2, SumIsInt
<1>8. SumFunctionOnSet(f, S) = SumFunctionOnSet(f, T)
  <2> DEFINE x == SumFunctionOnSet(f, S)  y == SumFunctionOnSet(f, T)
  <2>1. x = y + 0 /\ y \in Int
    BY <1>5, <1>6, <1>7
  <2> HIDE DEF x, y
  <2>2. x = y
    BY <2>1
  <2> QED BY <2>2 DEF x, y
<1>9. SumFunction(f) = SumFunctionOnSet(f, S)
  BY <1>1 DEF SumFunction
<1>10. SumFunction(part) = SumFunction(f)
  BY <1>4, <1>8, <1>9
<1> HIDE DEF part
<1> QED BY <1>3, <1>10 DEF f

\* A band is ordered and held to its ceiling.
LEMMA BandIsHeld ==
    ASSUME NEW sl, NEW watts, NEW ceiling, NEW i \in DOMAIN sl,
           watts[i] \in Nat, ceiling[i] \in Nat,
           sl[i].band = <<>> \/ sl[i].band \in BandTriples
    PROVE  LET b == BandOf(sl, watts, ceiling)[i]
           IN /\ \A q \in 1..3 : b[q] \in Nat
              /\ b[1] <= b[2] /\ b[2] <= b[3] /\ b[3] <= ceiling[i]
              /\ watts[i] = 0 /\ sl[i].band = <<>> => \A q \in 1..3 : b[q] = 0
<1> DEFINE w == watts[i]  c == ceiling[i]  t == sl[i].band  b == BandOf(sl, watts, ceiling)[i]
           r == [q \in 1..3 |-> IF t = <<>> THEN w ELSE (w * t[q]) \div 100]
<1>1. \A q \in 1..3 : b[q] = Deliverable(r[q], c)
  BY DEF BandOf
<1>2. (\A q \in 1..3 : r[q] \in Nat) /\ r[1] <= r[2] /\ r[2] <= r[3]
      /\ (w = 0 /\ t = <<>> => \A q \in 1..3 : r[q] = 0)
  <2>1. CASE t = <<>>
    BY <2>1
  <2>2. CASE t # <<>>
    <3> DEFINE t1 == t[1]  t2 == t[2]  t3 == t[3]
    <3>1. t1 \in Nat /\ t2 \in Nat /\ t3 \in Nat /\ t1 <= t2 /\ t2 <= t3
      BY <2>2 DEF BandTriples
    <3>2. r[1] = (w * t1) \div 100 /\ r[2] = (w * t2) \div 100 /\ r[3] = (w * t3) \div 100
      BY <2>2
    <3> HIDE DEF t1, t2, t3, w, r
    <3>3. /\ w * t1 \in Nat /\ w * t2 \in Nat /\ w * t3 \in Nat
          /\ w * t1 <= w * t2 /\ w * t2 <= w * t3
      BY <3>1 DEF w
    <3> DEFINE x == w * t1  y == w * t2  z == w * t3
    <3>4. x \in Nat /\ y \in Nat /\ z \in Nat /\ x <= y /\ y <= z
      BY <3>3
    <3> HIDE DEF x, y, z
    <3>5. /\ x \div 100 \in Nat /\ y \div 100 \in Nat /\ z \div 100 \in Nat
          /\ x \div 100 <= y \div 100 /\ y \div 100 <= z \div 100
      BY <3>4, Quotient, QuotientGrows
    <3>6. r[1] = x \div 100 /\ r[2] = y \div 100 /\ r[3] = z \div 100
      BY <3>2 DEF x, y, z
    <3>7. \A q \in 1..3 : r[q] \in Nat
      <4>1. r[1] \in Nat /\ r[2] \in Nat /\ r[3] \in Nat
        BY <3>5, <3>6
      <4>2. 1..3 = {1, 2, 3}
        OBVIOUS
      <4> QED BY <4>1, <4>2
    <3>8. r[1] <= r[2] /\ r[2] <= r[3]
      BY <3>5, <3>6
    <3> QED BY <2>2, <3>7, <3>8
  <2> QED BY <2>1, <2>2
<1>3. w \in Nat /\ c \in Nat
  OBVIOUS
<1> HIDE DEF b, r, w, c, t
<1>4. (\A q \in 1..3 : b[q] \in Nat) /\ b[1] <= b[2] /\ b[2] <= b[3] /\ b[3] <= c
  <2>1. /\ 1 \in 1..3 /\ 2 \in 1..3 /\ 3 \in 1..3
    OBVIOUS
  <2> QED BY <1>1, <1>2, <1>3, <2>1 DEF Deliverable
<1>5. w = 0 /\ t = <<>> => \A q \in 1..3 : b[q] = 0
  BY <1>1, <1>2, <1>3 DEF Deliverable
<1> QED BY <1>4, <1>5 DEF b, w, c, t
-----------------------------------------------------------------------------
(* The forecast.                                                            *)

Made(hk) ==
    {ZeroSlot(w) : w \in SlotWeathers}
    \cup {LitSlot(w, hk, f, b) : w \in SlotWeathers, f \in Factors, b \in SlotBands \cup {<<>>}}

NoBands == [dc |-> <<>>, ac |-> <<>>]
Summable(totals) == IsFiniteSet(DOMAIN totals) /\ \A k \in DOMAIN totals : totals[k] \in Int

\* The three parts of BandsAreDeliverable.
BandsOrdered ==
    \A c \in {"dc", "ac"} : \A i \in DOMAIN bands[c] :
        /\ bands[c][i][1] <= bands[c][i][2] /\ bands[c][i][2] <= bands[c][i][3]
        /\ bands[c][i][3] <= IF c = "dc" THEN slots[i].ceiling ELSE slots[i].acCeiling
BandHoursHold ==
    \A c \in {"dc", "ac"}, q \in 1..3 :
        Sum(BandHours(bands[c], q)) = Sum([i \in DOMAIN bands[c] |-> bands[c][i][q]])
EnergyAgrees ==
    \A v \in Views :
        /\ Sum(hourly[v]) = Sum(daily[v])
        /\ Sum(hourly[v]) = Sum([i \in DOMAIN slots |-> Of(slots[i], v)])

\* What the slots were made of holds the promises of each; the totals hold the
\* slots, and the hours of the served curve every slot that gave anything.
EngineInv ==
    /\ hooks \in Learners
    /\ slots \in Seq(Made(hooks)) /\ plain \in Seq(Made(NeutralHooks)) /\ Len(plain) = Len(slots)
    /\ \A v \in Views : Summable(hourly[v]) /\ Summable(daily[v])
    /\ EnergyAgrees
    /\ \A i \in DOMAIN slots : slots[i].lit => slots[i].hour \in DOMAIN hourly["served"]
    /\ bands = NoBands \/ Len(slots) = MaxSlots
    /\ BandsOrdered /\ BandHoursHold
    /\ LabelsOwnNothing

\* Every slot of a forecast keeps what it promises.
LEMMA MadeDelivers ==
    ASSUME NEW hk \in Learners, NEW s \in Made(hk)
    PROVE  /\ SlotDelivers(s, hk)
           /\ \A v \in Views : Of(s, v) \in Nat /\ (~s.lit => Of(s, v) = 0)
           /\ Site(s.served) \in Nat /\ (~s.lit => Site(s.served) = 0)
<1>1. SlotDelivers(s, hk)
  <2>1. CASE \E w \in SlotWeathers : s = ZeroSlot(w)
    BY <2>1, ZeroSlotDelivers
  <2>2. CASE \E w \in SlotWeathers, f \in Factors, b \in SlotBands \cup {<<>>} :
                s = LitSlot(w, hk, f, b)
    BY <2>2, LitSlotDelivers
  <2> QED BY <2>1, <2>2 DEF Made
<1>2. /\ s.raw \in PerPlane /\ s.served \in PerPlane /\ s.ac \in Nat
      /\ ~s.lit => s.raw = NoWatts /\ s.served = NoWatts /\ s.ac = 0
  BY <1>1 DEF SlotDelivers
<1>3. \A c \in PerPlane : Site(c) \in Nat
  <2>1. ASSUME NEW c \in PerPlane PROVE Site(c) \in Nat
    <3>1. \A p \in SolarPlanes : c[p] <= c[p]
      BY DEF PerPlane
    <3> QED BY <3>1, SiteGrows
  <2> QED BY <2>1
<1>4. Site(NoWatts) = 0
  <2>1. IsFiniteSet(SolarPlanes) /\ \A p \in SolarPlanes : NoWatts[p] = 0
    BY EngineAssumption DEF NoWatts
  <2> QED BY <2>1, SumOfZero DEF Site, Total
<1>5. Site(s.raw) \in Nat /\ Site(s.served) \in Nat
  BY <1>2, <1>3
<1>6. ~s.lit => Site(s.raw) = 0 /\ Site(s.served) = 0
  BY <1>2, <1>4
<1>7. \A v \in Views : Of(s, v) \in Nat /\ (~s.lit => Of(s, v) = 0)
  BY <1>2, <1>5, <1>6 DEF Views, Of
<1> QED BY <1>1, <1>5, <1>6, <1>7

\* What has no entry sums to nothing.
LEMMA EmptySum ==
    ASSUME NEW f, DOMAIN f = {} PROVE SumFunction(f) = 0 /\ Summable(f)
<1>1. SumFunctionOnSet(f, {}) = 0 /\ IsFiniteSet({})
  BY SumFirst, FS_EmptySet
<1> QED BY <1>1 DEF SumFunction, Summable

\* An empty band has empty hours.
LEMMA NoBandHours ==
    ASSUME NEW hours, IsFiniteSet(hours), NEW sl, NEW q
    PROVE  SumFunction(HoursOf(hours, sl, <<>>, q)) = SumFunction(LineOf(<<>>, q))
<1> DEFINE e == <<>>
<1>1. DOMAIN e = {} /\ IsFiniteSet(DOMAIN e)
  BY FS_EmptySet
<1>2. \A i \in DOMAIN e : e[i][q] \in Int /\ (sl[i].hour \in hours \/ e[i][q] = 0)
  BY <1>1
<1> HIDE DEF e
<1>3. SumFunction(HoursOf(hours, sl, e, q)) = SumFunction(LineOf(e, q))
  BY <1>1, <1>2, HoursHoldAll
<1> QED BY <1>3 DEF e
\* Before the bands are issued there is nothing to order or to hold.
LEMMA NoBandsAreFine ==
    ASSUME bands' = NoBands, IsFiniteSet(DOMAIN hourly'["served"])
    PROVE  BandsOrdered' /\ BandHoursHold'
<1>1. \A c \in {"dc", "ac"} : bands'[c] = <<>>
  BY DEF NoBands
<1>2. DOMAIN <<>> = {}
  OBVIOUS
<1>3. BandsOrdered'
  BY <1>1, <1>2 DEF BandsOrdered
<1>4. ASSUME NEW c \in {"dc", "ac"}, NEW q \in 1..3
      PROVE  Sum(BandHours(bands[c], q))' = Sum([i \in DOMAIN bands[c] |-> bands[c][i][q]])'
  <2> DEFINE hours == DOMAIN hourly'["served"]  sl == slots'  b == bands'[c]
  <2>1. BandHours(bands[c], q)' = HoursOf(hours, sl, b, q)
    BY DEF BandHours, HoursOf, LineOf
  <2>2. [i \in DOMAIN bands[c] |-> bands[c][i][q]]' = LineOf(b, q)
    BY DEF LineOf
  <2>3. b = <<>> /\ IsFiniteSet(hours)
    BY <1>1
  <2> HIDE DEF hours, sl, b
  <2>4. SumFunction(HoursOf(hours, sl, b, q)) = SumFunction(LineOf(b, q))
    BY <2>3, NoBandHours
  <2> QED BY <2>1, <2>2, <2>4 DEF Sum
<1>5. BandHoursHold'
  BY <1>4 DEF BandHoursHold
<1> QED BY <1>3, <1>5

\* An empty forecast keeps everything.
LEMMA StartKeepsInv ==
    ASSUME hooks' \in Learners, slots' = <<>>, plain' = <<>>,
           hourly' = [v \in Views |-> [h \in {} |-> 0]], daily' = hourly', bands' = NoBands
    PROVE  EngineInv'
<1>1. slots' \in Seq(Made(hooks)') /\ plain' \in Seq(Made(NeutralHooks)') /\ DOMAIN slots' = {}
  OBVIOUS
<1>2. ASSUME NEW v \in Views
      PROVE  /\ DOMAIN hourly'[v] = {} /\ DOMAIN daily'[v] = {}
  OBVIOUS
<1>3. \A v \in Views : Summable(hourly'[v]) /\ Summable(daily'[v])
  BY <1>2, EmptySum
<1>4. EnergyAgrees'
  <2>1. ASSUME NEW v \in Views
        PROVE  /\ Sum(hourly[v])' = Sum(daily[v])'
               /\ Sum(hourly[v])' = Sum([i \in DOMAIN slots |-> Of(slots[i], v)])'
    <3> DEFINE line == [i \in DOMAIN slots' |-> Of(slots'[i], v)]
    <3>1. DOMAIN line = {}
      BY <1>1
    <3> HIDE DEF line
    <3>2. SumFunction(hourly'[v]) = 0 /\ SumFunction(daily'[v]) = 0 /\ SumFunction(line) = 0
      BY <1>2, <3>1, EmptySum
    <3> QED BY <3>2 DEF Sum, line
  <2> QED BY <2>1 DEF EnergyAgrees
<1>5. BandsOrdered' /\ BandHoursHold'
  <2>1. IsFiniteSet(DOMAIN hourly'["served"])
    BY <1>3 DEF Summable, Views
  <2> QED BY <2>1, NoBandsAreFine
<1>6. LabelsOwnNothing'
  BY <1>1 DEF LabelsOwnNothing
<1> QED BY <1>1, <1>3, <1>4, <1>5, <1>6 DEF EngineInv
\* The bands of a finished forecast.
LEMMA IssueKeepsInv == EngineInv /\ IssueBands => EngineInv'
<1> SUFFICES ASSUME EngineInv, IssueBands PROVE EngineInv'
  OBVIOUS
<1> DEFINE n == Len(slots)
           watts == [dc |-> [i \in DOMAIN slots |-> Site(slots[i].served)],
                     ac |-> [i \in DOMAIN slots |-> slots[i].ac]]
           ceiling == [dc |-> [i \in DOMAIN slots |-> slots[i].ceiling],
                       ac |-> [i \in DOMAIN slots |-> slots[i].acCeiling]]
           hours == DOMAIN hourly["served"]
<1>1. /\ UNCHANGED <<hooks, slots, plain, hourly, daily>> /\ n = MaxSlots
      /\ bands' = [dc |-> BandOf(slots, watts.dc, ceiling.dc),
                   ac |-> BandOf(slots, watts.ac, ceiling.ac)]
  BY DEF IssueBands, BandCurve, BandOf
<1>2. /\ n \in Nat /\ DOMAIN slots = 1..n /\ IsFiniteSet(DOMAIN slots)
      /\ IsFiniteSet(hours)
  <2>1. n \in Nat /\ DOMAIN slots = 1..n
    BY DEF EngineInv
  <2>2. IsFiniteSet(DOMAIN slots)
    BY <2>1, FS_Interval
  <2>3. IsFiniteSet(hours)
    BY DEF EngineInv, Summable, Views
  <2> QED BY <2>1, <2>2, <2>3
<1>3. ASSUME NEW i \in DOMAIN slots
      PROVE  /\ Site(slots[i].served) \in Nat /\ slots[i].ac \in Nat
             /\ slots[i].ceiling \in Nat /\ slots[i].acCeiling \in Nat
             /\ slots[i].band = <<>> \/ slots[i].band \in BandTriples
             /\ \/ slots[i].hour \in hours
                \/ slots[i].band = <<>> /\ Site(slots[i].served) = 0 /\ slots[i].ac = 0
  <2>1. hooks \in Learners /\ slots[i] \in Made(hooks)
    BY DEF EngineInv
  <2>2. SlotDelivers(slots[i], hooks) /\ Site(slots[i].served) \in Nat
        /\ (~slots[i].lit => Site(slots[i].served) = 0)
    BY <2>1, MadeDelivers
  <2>3. slots[i].lit => slots[i].hour \in hours
    BY DEF EngineInv
  <2>4. /\ slots[i].ac \in Nat /\ slots[i].ceiling \in Nat /\ slots[i].acCeiling \in Nat
        /\ slots[i].band = <<>> \/ slots[i].band \in BandTriples
    BY <2>2 DEF SlotDelivers
  <2>5. ~slots[i].lit => slots[i].band = <<>> /\ slots[i].ac = 0
    BY <2>2 DEF SlotDelivers
  <2> HIDE DEF hours
  <2> QED BY <2>2, <2>3, <2>4, <2>5
<1>4. ASSUME NEW c \in {"dc", "ac"}, NEW i \in DOMAIN slots
      PROVE  /\ watts[c][i] \in Nat /\ ceiling[c][i] \in Nat
             /\ slots[i].band = <<>> \/ slots[i].band \in BandTriples
             /\ slots[i].hour \in hours \/ (slots[i].band = <<>> /\ watts[c][i] = 0)
             /\ ceiling[c][i] = IF c = "dc" THEN slots[i].ceiling ELSE slots[i].acCeiling
  <2>1. CASE c = "dc"
    BY <1>3, <2>1
  <2>2. CASE c = "ac"
    BY <1>3, <2>2
  <2> QED BY <2>1, <2>2
<1>5. ASSUME NEW c \in {"dc", "ac"} PROVE bands'[c] = BandOf(slots, watts[c], ceiling[c])
  <2>1. CASE c = "dc"
    BY <1>1, <2>1
  <2>2. CASE c = "ac"
    BY <1>1, <2>2
  <2> QED BY <2>1, <2>2
<1> HIDE DEF watts, ceiling, hours
<1>6. ASSUME NEW c \in {"dc", "ac"}, NEW i \in DOMAIN slots
      PROVE  /\ \A q \in 1..3 : bands'[c][i][q] \in Nat
             /\ bands'[c][i][1] <= bands'[c][i][2] /\ bands'[c][i][2] <= bands'[c][i][3]
             /\ bands'[c][i][3] <= ceiling[c][i]
             /\ \A q \in 1..3 : slots[i].hour \in hours \/ bands'[c][i][q] = 0
  <2> DEFINE b == BandOf(slots, watts[c], ceiling[c])[i]
  <2>1. /\ \A q \in 1..3 : b[q] \in Nat
        /\ b[1] <= b[2] /\ b[2] <= b[3] /\ b[3] <= ceiling[c][i]
        /\ watts[c][i] = 0 /\ slots[i].band = <<>> => \A q \in 1..3 : b[q] = 0
    BY <1>4, BandIsHeld
  <2>2. bands'[c][i] = b
    BY <1>5
  <2> HIDE DEF b
  <2> QED BY <1>4, <2>1, <2>2
<1>7. ASSUME NEW c \in {"dc", "ac"} PROVE DOMAIN bands'[c] = DOMAIN slots
  BY <1>5 DEF BandOf
<1>8. BandsOrdered'
  <2>1. ASSUME NEW c \in {"dc", "ac"}, NEW i \in DOMAIN bands'[c]
        PROVE  /\ bands'[c][i][1] <= bands'[c][i][2] /\ bands'[c][i][2] <= bands'[c][i][3]
               /\ bands'[c][i][3] <= IF c = "dc" THEN slots'[i].ceiling ELSE slots'[i].acCeiling
    <3>1. i \in DOMAIN slots
      BY <1>7, <2>1
    <3>2. ceiling[c][i] = IF c = "dc" THEN slots'[i].ceiling ELSE slots'[i].acCeiling
      BY <1>1, <1>4, <3>1
    <3> QED BY <1>6, <3>1, <3>2
  <2> QED BY <2>1 DEF BandsOrdered
<1>9. BandHoursHold'
  <2>1. ASSUME NEW c \in {"dc", "ac"}, NEW q \in 1..3
        PROVE  Sum(BandHours(bands[c], q))' = Sum([i \in DOMAIN bands[c] |-> bands[c][i][q]])'
    <3> DEFINE b == bands'[c]
    <3>1. BandHours(bands[c], q)' = HoursOf(hours, slots, b, q)
      BY <1>1 DEF BandHours, HoursOf, LineOf, hours
    <3>2. [i \in DOMAIN bands[c] |-> bands[c][i][q]]' = LineOf(b, q)
      BY DEF LineOf
    <3>3. /\ IsFiniteSet(DOMAIN b)
          /\ \A i \in DOMAIN b : b[i][q] \in Int /\ (slots[i].hour \in hours \/ b[i][q] = 0)
      BY <1>2, <1>6, <1>7
    <3> HIDE DEF b
    <3>4. SumFunction(HoursOf(hours, slots, b, q)) = SumFunction(LineOf(b, q))
      BY <1>2, <3>3, HoursHoldAll
    <3> QED BY <3>1, <3>2, <3>4 DEF Sum
  <2> QED BY <2>1 DEF BandHoursHold
<1>10. EnergyAgrees'
  BY <1>1 DEF EngineInv, EnergyAgrees
<1>11. LabelsOwnNothing'
  BY <1>1 DEF EngineInv, LabelsOwnNothing
<1> QED BY <1>1, <1>8, <1>9, <1>10, <1>11 DEF EngineInv

\* A slot more: it keeps its promises, the totals add what it gives, and its
\* hour is one of theirs when it gives anything.
LEMMA ComputeKeepsInv ==
    ASSUME NEW w \in SlotWeathers, NEW answer \in SlotFactors, NEW band \in SlotBands,
           EngineInv, ComputeSlot(w, answer, band)
    PROVE  EngineInv'
<1> DEFINE lit == ~(~w.usable \/ w.dark)
           x == IF lit THEN LitSlot(w, hooks, answer, band) ELSE ZeroSlot(w)
           y == IF lit THEN LitSlot(w, NeutralHooks, 100, <<>>) ELSE ZeroSlot(w)
           n == Len(slots)
<1>1. /\ hooks' = hooks /\ bands' = bands /\ n < MaxSlots
      /\ slots' = Append(slots, x) /\ plain' = Append(plain, y)
  BY DEF ComputeSlot
<1>2. x \in Made(hooks) /\ y \in Made(NeutralHooks) /\ hooks \in Learners
  BY DEF EngineInv, Made, Factors
<1>3. /\ n \in Nat /\ DOMAIN slots = 1..n /\ Len(plain) = n /\ DOMAIN plain = 1..n
      /\ slots' \in Seq(Made(hooks)) /\ plain' \in Seq(Made(NeutralHooks))
      /\ Len(plain') = Len(slots') /\ Len(slots') = n + 1 /\ DOMAIN slots' = 1..(n + 1)
      /\ \A i \in 1..n : slots'[i] = slots[i] /\ plain'[i] = plain[i]
      /\ slots'[n + 1] = x /\ plain'[n + 1] = y
  BY <1>1, <1>2 DEF EngineInv
<1>4. \A v \in Views : Of(x, v) \in Nat /\ (~x.lit => Of(x, v) = 0)
  BY <1>2, MadeDelivers
<1>5. x.hour = w.hour /\ x.lit = lit
  BY DEF LitSlot, ZeroSlot
<1>6. bands = NoBands
  <2>1. n # MaxSlots
    <3>1. MaxSlots \in Nat
      BY EngineAssumption
    <3>2. n < MaxSlots /\ n \in Nat
      BY <1>1, <1>3
    <3> HIDE DEF n
    <3> QED BY <3>1, <3>2
  <2> QED BY <2>1 DEF EngineInv
<1> DEFINE new(v) == Of(x, v)
           line(v) == [i \in DOMAIN slots |-> Of(slots[i], v)]
           longer(v) == [i \in DOMAIN slots' |-> Of(slots'[i], v)]
<1>7. ASSUME NEW v \in Views
      PROVE  /\ Summable(hourly'[v]) /\ Summable(daily'[v])
             /\ SumFunction(hourly'[v]) = SumFunction(hourly[v]) + new(v)
             /\ SumFunction(daily'[v]) = SumFunction(daily[v]) + new(v)
             /\ DOMAIN hourly[v] \subseteq DOMAIN hourly'[v]
             /\ lit => w.hour \in DOMAIN hourly'[v]
             /\ SumFunction(hourly[v]) \in Int
  <2>1. Summable(hourly[v]) /\ Summable(daily[v])
    BY DEF EngineInv
  <2>2. SumFunction(hourly[v]) \in Int /\ SumFunction(daily[v]) \in Int
    BY <2>1, SumIsInt DEF Summable, SumFunction
  <2>3. CASE lit
    <3>1. /\ hourly'[v] = Added(hourly[v], w.hour, new(v))
          /\ daily'[v] = Added(daily[v], LocalDay(w.hour), new(v))
      BY <2>3 DEF ComputeSlot
    <3> DEFINE e == new(v)  a == hourly[v]  b == daily[v]  k == LocalDay(w.hour)
    <3>2. e \in Int
      BY <1>4
    <3> HIDE DEF e, a, b, k
    <3>3. /\ Summable(Added(a, w.hour, e)) /\ DOMAIN Added(a, w.hour, e) = DOMAIN a \cup {w.hour}
          /\ SumFunction(Added(a, w.hour, e)) = SumFunction(a) + e
      BY <2>1, <3>2, AddedSum DEF Summable, a
    <3>4. /\ Summable(Added(b, k, e)) /\ SumFunction(Added(b, k, e)) = SumFunction(b) + e
      BY <2>1, <3>2, AddedSum DEF Summable, b
    <3> QED BY <2>2, <3>1, <3>3, <3>4 DEF a, b, e, k
  <2>4. CASE ~lit
    <3>1. hourly' = hourly /\ daily' = daily
      BY <2>4 DEF ComputeSlot
    <3>2. new(v) = 0
      BY <1>4, <1>5, <2>4
    <3> HIDE DEF new, lit
    <3> QED BY <2>1, <2>2, <2>4, <3>1, <3>2
  <2> QED BY <2>3, <2>4
<1>8. ASSUME NEW v \in Views PROVE SumFunction(longer(v)) = SumFunction(line(v)) + new(v)
  <2>1. ASSUME NEW i \in 1..n PROVE Of(slots[i], v) \in Int
    <3>1. slots[i] \in Made(hooks)
      BY <1>3 DEF EngineInv
    <3>2. Of(slots[i], v) \in Nat
      BY <1>2, <3>1, MadeDelivers
    <3> QED BY <3>2
  <2> DEFINE a == line(v)  b == longer(v)  e == new(v)
  <2>2. /\ DOMAIN a = 1..n /\ DOMAIN b = 1..(n + 1) /\ e \in Int
        /\ \A i \in 1..n : a[i] \in Int /\ b[i] = a[i]
        /\ b[n + 1] = e
    <3>1. n + 1 \in 1..(n + 1) /\ \A i \in 1..n : i \in 1..(n + 1)
      BY <1>3
    <3> HIDE DEF x, n
    <3> QED BY <1>3, <1>4, <2>1, <3>1
  <2>3. n \in Nat
    BY <1>3
  <2> HIDE DEF a, b, e, n
  <2>4. SumFunction(b) = SumFunction(a) + e
    BY ONLY <2>2, <2>3, AppendedSum
  <2> QED BY <2>4 DEF a, b, e
<1>9. EnergyAgrees'
  <2>1. ASSUME NEW v \in Views
        PROVE  /\ SumFunction(hourly'[v]) = SumFunction(daily'[v])
               /\ SumFunction(hourly'[v]) = SumFunction(longer(v))
    <3>1. SumFunction(hourly[v]) = SumFunction(daily[v]) /\ SumFunction(hourly[v]) = SumFunction(line(v))
      BY DEF EngineInv, EnergyAgrees, Sum
    <3> HIDE DEF new, line, longer
    <3> QED BY <1>7, <1>8, <3>1
  <2>2. ASSUME NEW v \in Views
        PROVE  Sum([i \in DOMAIN slots |-> Of(slots[i], v)])' = SumFunction(longer(v))
    BY DEF Sum
  <2> HIDE DEF longer
  <2> QED BY <2>1, <2>2 DEF EnergyAgrees, Sum
<1>10. \A i \in DOMAIN slots' : slots'[i].lit => slots'[i].hour \in DOMAIN hourly'["served"]
  <2>1. "served" \in Views
    BY DEF Views
  <2>2. DOMAIN hourly["served"] \subseteq DOMAIN hourly'["served"]
        /\ (lit => w.hour \in DOMAIN hourly'["served"])
    BY <1>7, <2>1
  <2>3. ASSUME NEW i \in 1..n, slots'[i].lit PROVE slots'[i].hour \in DOMAIN hourly'["served"]
    BY <1>3, <2>2, <2>3 DEF EngineInv
  <2>4. slots'[n + 1].lit => slots'[n + 1].hour \in DOMAIN hourly'["served"]
    <3> HIDE DEF x, lit
    <3> QED BY <1>3, <1>5, <2>2
  <2>5. \A i \in 1..(n + 1) : i \in 1..n \/ i = n + 1
    BY <1>3
  <2> HIDE DEF n
  <2> QED BY <1>3, <2>3, <2>4, <2>5
<1>11. LabelsOwnNothing'
  <2>1. ASSUME NEW i \in 1..n
        PROVE  /\ \A f \in {"raw", "beamRef", "skyRef"} : slots'[i][f] = plain'[i][f]
               /\ plain'[i].served = plain'[i].raw
    BY <1>3 DEF EngineInv, LabelsOwnNothing
  <2>2. /\ \A f \in {"raw", "beamRef", "skyRef"} : slots'[n + 1][f] = plain'[n + 1][f]
        /\ plain'[n + 1].served = plain'[n + 1].raw
    <3>1. /\ x.raw = y.raw /\ x.beamRef = y.beamRef /\ x.skyRef = y.skyRef
          /\ y.served = y.raw
      <4>1. CASE lit
        BY <4>1, LitSlotOwnsNothing
      <4>2. CASE ~lit
        BY <4>2 DEF ZeroSlot
      <4> QED BY <4>1, <4>2
    <3> HIDE DEF x, y, n
    <3> QED BY <1>3, <3>1
  <2>3. \A i \in 1..(n + 1) : i \in 1..n \/ i = n + 1
    BY <1>3
  <2> HIDE DEF n
  <2> QED BY <1>3, <2>1, <2>2, <2>3 DEF LabelsOwnNothing
<1>12. BandsOrdered' /\ BandHoursHold'
  <2>1. IsFiniteSet(DOMAIN hourly'["served"])
    BY <1>7 DEF Summable, Views
  <2> QED BY <1>1, <1>6, <2>1, NoBandsAreFine
<1> HIDE DEF x, y, n, lit
<1> QED BY <1>1, <1>2, <1>3, <1>6, <1>7, <1>9, <1>10, <1>11, <1>12 DEF EngineInv
\* The strengthening is inductive.
THEOREM EngineInvariant == EngineSpec => []EngineInv
<1>1. EngineInit => EngineInv
  <2> SUFFICES ASSUME EngineInit PROVE EngineInv
    OBVIOUS
  <2>1. /\ hooks \in Learners /\ slots = <<>> /\ plain = <<>> /\ bands = NoBands
        /\ hourly = [v \in Views |-> [h \in {} |-> 0]] /\ daily = hourly
    BY DEF EngineInit, NoBands
  <2>2. /\ slots \in Seq(Made(hooks)) /\ plain \in Seq(Made(NeutralHooks)) /\ DOMAIN slots = {}
        /\ \A v \in Views : DOMAIN hourly[v] = {} /\ DOMAIN daily[v] = {}
        /\ \A c \in {"dc", "ac"} : bands[c] = <<>>
    BY <2>1 DEF NoBands
  <2>3. \A v \in Views : Summable(hourly[v]) /\ Summable(daily[v])
    BY <2>2, EmptySum
  <2>4. EnergyAgrees
    <3>1. ASSUME NEW v \in Views
          PROVE  /\ Sum(hourly[v]) = Sum(daily[v])
                 /\ Sum(hourly[v]) = Sum([i \in DOMAIN slots |-> Of(slots[i], v)])
      <4> DEFINE line == [i \in DOMAIN slots |-> Of(slots[i], v)]
      <4>1. DOMAIN line = {}
        BY <2>2
      <4> HIDE DEF line
      <4>2. SumFunction(hourly[v]) = 0 /\ SumFunction(daily[v]) = 0 /\ SumFunction(line) = 0
        BY <2>2, <4>1, EmptySum
      <4> QED BY <4>2 DEF Sum, line
    <3> QED BY <3>1 DEF EnergyAgrees
  <2>5. BandsOrdered
    <3>1. DOMAIN <<>> = {}
      OBVIOUS
    <3> QED BY <2>2, <3>1 DEF BandsOrdered
  <2>6. BandHoursHold
    <3>1. ASSUME NEW c \in {"dc", "ac"}, NEW q \in 1..3
          PROVE  Sum(BandHours(bands[c], q)) = Sum([i \in DOMAIN bands[c] |-> bands[c][i][q]])
      <4> DEFINE hours == DOMAIN hourly["served"]  sl == slots  b == bands[c]
      <4>1. BandHours(bands[c], q) = HoursOf(hours, sl, b, q)
        BY DEF BandHours, HoursOf, LineOf
      <4>2. [i \in DOMAIN bands[c] |-> bands[c][i][q]] = LineOf(b, q)
        BY DEF LineOf
      <4>3. b = <<>> /\ IsFiniteSet(hours)
        BY <2>2, <2>3 DEF Summable, Views
      <4> HIDE DEF hours, sl, b
      <4>4. SumFunction(HoursOf(hours, sl, b, q)) = SumFunction(LineOf(b, q))
        BY <4>3, NoBandHours
      <4> QED BY <4>1, <4>2, <4>4 DEF Sum
    <3> QED BY <3>1 DEF BandHoursHold
  <2>7. LabelsOwnNothing
    BY <2>2 DEF LabelsOwnNothing
  <2> QED BY <2>1, <2>2, <2>3, <2>4, <2>5, <2>6, <2>7 DEF EngineInv
<1>2. EngineInv /\ [EngineNext]_engineVars => EngineInv'
  <2> SUFFICES ASSUME EngineInv, [EngineNext]_engineVars PROVE EngineInv'
    OBVIOUS
  <2>1. CASE \E w \in SlotWeathers, f \in SlotFactors, b \in SlotBands : ComputeSlot(w, f, b)
    BY <2>1, ComputeKeepsInv
  <2>2. CASE IssueBands
    BY <2>2, IssueKeepsInv
  <2>3. CASE BeginForecast
    BY <2>3, StartKeepsInv DEF BeginForecast, NoBands
  <2>4. CASE UNCHANGED engineVars
    <3>1. /\ hooks' = hooks /\ slots' = slots /\ plain' = plain
          /\ hourly' = hourly /\ daily' = daily /\ bands' = bands
      BY <2>4 DEF engineVars
    <3>2. BandsOrdered' /\ EnergyAgrees' /\ LabelsOwnNothing'
      BY <3>1 DEF EngineInv, BandsOrdered, EnergyAgrees, LabelsOwnNothing
    <3>3. BandHoursHold'
      BY <3>1, ZenonT(60) DEF EngineInv, BandHoursHold, BandHours
    <3> QED BY <3>1, <3>2, <3>3 DEF EngineInv
  <2> QED BY <2>1, <2>2, <2>3, <2>4 DEF EngineNext
<1> QED BY <1>1, <1>2, PTL DEF EngineSpec

\* Every slot that is served can be delivered, the bands are ordered, held to
\* the ceilings and complete, and the labels are those of a site that never
\* learned: whatever the weather, the groups and the learners' answers are.
THEOREM ForecastIsDeliverableHolds == EngineSpec => []ForecastIsDeliverable
<1>1. EngineInv => ForecastIsDeliverable
  <2> SUFFICES ASSUME EngineInv PROVE ForecastIsDeliverable
    OBVIOUS
  <2>1. SlotsAreDeliverable
    <3>1. ASSUME NEW i \in DOMAIN slots PROVE SlotDelivers(slots[i], hooks)
      <4>1. hooks \in Learners /\ slots[i] \in Made(hooks)
        BY DEF EngineInv
      <4> QED BY <4>1, MadeDelivers
    <3> QED BY <3>1 DEF SlotDelivers, SlotsAreDeliverable
  <2>2. BandsAreDeliverable
    BY DEF EngineInv, BandsAreDeliverable, BandsOrdered, BandHoursHold, EnergyAgrees
  <2> QED BY <2>1, <2>2 DEF EngineInv, ForecastIsDeliverable
<1>2. EngineSpec => []EngineInv
  BY EngineInvariant
<1> QED BY <1>1, <1>2, PTL
=============================================================================
