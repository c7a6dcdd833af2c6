------------------------------- MODULE ShadeMap -------------------------------
(***************************************************************************)
(* The learned shading of a site (core/shademap.py): nightly training into *)
(* one channel per plane (_nightly.train_shademap, learning_inputs         *)
(* .train_channel), pooling over shade groups when it is read              *)
(* (coordinator._build_shade_pool_map, _bind_beam_tau), the groups that    *)
(* suggest_shade_groups proposes, bootstrap import and rollback.           *)
(*                                                                         *)
(* Transmittances and ratios are percents.  A map is a function from       *)
(* channels to functions from bins to [tau, n].                            *)
(***************************************************************************)
EXTENDS MeasuredDay

CONSTANTS ShadeNights,   \* nights that are trained
          FirstDoy,      \* day of the year of the first of them
          SunAt,         \* hour |-> [az, el], degrees
          ShadeKinds,    \* days: [raw, rawOf, modeled, hourly]
          Groupings,     \* plane |-> shade channel, the configured ones
          ShadeImports,  \* maps of bootstrap files
          WpOf,          \* plane |-> peak power
          StaticTau,     \* plane |-> hour |-> the configured horizon's transmittance
          Solstice, AzBin, ElBin,
          KcLowSun, KcHighSun, KcPivot, KcHigh, MinBeamShare, Stability,
          TauMin, TauMax, ShadeWarmUp, ShrinkK, BootstrapMaxN,
          SimilarMax, SimilarBins

ASSUME ShadeAssumption ==
    /\ ShadeNights \in Nat /\ BootstrapMaxN \in Nat
    /\ TauMin \in Nat /\ TauMax \in Nat /\ TauMin <= TauMax
    /\ ShadeWarmUp \in Nat \ {0} /\ ShrinkK \in Nat \ {0}
    /\ \A i, j \in DOMAIN Planes : i # j => Planes[i] # Planes[j]
    /\ \A day \in ShadeKinds : \A p \in DOMAIN day.modeled :
          /\ IsCurve(day.modeled[p].beam) /\ DOMAIN day.modeled[p].beam \subseteq Int
          /\ \A h \in DOMAIN day.modeled[p].diffuse : day.modeled[p].diffuse[h] \in Int
          /\ p \in DOMAIN day.hourly => IsCurve(day.hourly[p])
    /\ \A file \in ShadeImports :
          /\ IsFiniteSet(DOMAIN file)
          /\ \A c \in DOMAIN file :
                /\ IsFiniteSet(DOMAIN file[c])
                /\ \A b \in DOMAIN file[c] :
                      file[c][b].n \in Int /\ file[c][b].tau \in Int \cup {Bad}

VARIABLES
    shadeMap,   \* ShademapState.channels
    grouping,   \* plane |-> its shade_channel
    slow,       \* the learner is on, neither drift-disabled nor frozen
    shadeNight, \* nights trained so far
    snapshot,   \* [map, samples] of the rollback ring, or Null
    samples     \* history: plane or imported channel |-> bin |-> the values
                \* behind it, by night and place in the night

shadeVars == <<shadeMap, grouping, slow, shadeNight, snapshot, samples>>

-----------------------------------------------------------------------------
(* Samples.                                                                 *)

\* half_year_index: leafless and leafy days with the same sun never share a bin.
HalfYear(doy) == IF doy < Solstice THEN 0 ELSE 1

\* shademap_bin_key.
BinOf(sun, doy) == <<(sun.az % 360) \div AzBin, Between(0, sun.el, 90) \div ElBin, HalfYear(doy)>>

ClampedTau(t) == IF t = Bad THEN TauMin ELSE Between(TauMin, t, TauMax)

\* _kc_lo_bound.
KcLow(el) == IF el >= KcPivot THEN KcHighSun
             ELSE KcLowSun + ((KcHighSun - KcLowSun) * Between(0, el, KcPivot)) \div KcPivot

\* Measured against modeled, per cent, or Null.
RatioAt(m, measured, h) ==
    IF h \in DOMAIN measured /\ m.beam[h] + At(m.diffuse, h) > 0
    THEN (100 * measured[h]) \div (m.beam[h] + At(m.diffuse, h)) ELSE Null

\* The hour before, among those that are modeled.
Neighbour(m, measured, h) ==
    LET earlier == {x \in DOMAIN m.beam : x < h}
    IN IF earlier = {} THEN Null
       ELSE RatioAt(m, measured, CHOOSE x \in earlier : \A y \in earlier : y <= x)

Stable(a, b) ==
    a = Null \/ b = Null \/
    LET larger == IF a > b THEN a ELSE b
        change == IF a > b THEN a - b ELSE b - a
    IN larger > 0 /\ 100 * change < Stability * larger

\* is_quasi_clear.
QuasiClear(p, m, measured, h) ==
    LET kc == Get(m.kc, h, 0)
    IN /\ KcLow(SunAt[h].el) <= kc /\ kc <= KcHigh
       /\ (100 * m.beam[h]) \div WpOf[p] > MinBeamShare
       /\ Stable(RatioAt(m, measured, h), Neighbour(m, measured, h))

\* beam_referenced_t: below the diffuse floor nothing of the beam arrives.
BeamReferenced(m, measured, h) ==
    IF measured[h] <= At(m.diffuse, h) THEN TauMin
    ELSE ClampedTau((100 * (measured[h] - At(m.diffuse, h))) \div m.beam[h])

\* The samples of a plane's day, in the order of its hours.
SamplesOf(p, m, measured, doy) ==
    LET hours == {h \in DOMAIN m.beam \cap DOMAIN measured :
                     m.beam[h] > 0 /\ QuasiClear(p, m, measured, h)}
        order == Sorted(hours)
    IN [k \in DOMAIN order |->
           [bin |-> BinOf(SunAt[order[k]], doy), t |-> BeamReferenced(m, measured, order[k])]]

\* update_bin: a mean while the bin is young, an EMA later.
UpdatedBin(bins, s) ==
    LET old == Get(bins, s.bin, [tau |-> 0, n |-> 0])
        w == IF old.n + 1 < ShadeWarmUp THEN old.n + 1 ELSE ShadeWarmUp
        new == [tau |-> ClampedTau(((w - 1) * old.tau + s.t) \div w), n |-> old.n + 1]
    IN [b \in DOMAIN bins \cup {s.bin} |-> IF b = s.bin THEN new ELSE bins[b]]

-----------------------------------------------------------------------------
(* Reading.                                                                 *)

\* A pool names its sources by place: the planes by theirs, a merged channel by 0.
GroupMates(groups, p) == {i \in DOMAIN Planes : groups[Planes[i]] = groups[p]}
PoolAt(places, groups, p) == [i \in places |-> IF i = 0 THEN groups[p] ELSE Planes[i]]

\* Variant: the group's channel is always one of the sources.
PoolOfAlways(map, groups, p) ==
    PoolAt(GroupMates(groups, p) \cup {x \in {0} : groups[p] \in DOMAIN map}, groups, p)

\* _build_shade_pool_map: the members' own channels, and a merged channel of an
\* older version unless a member has its name.
PoolOf(map, groups, p) ==
    LET merged == groups[p] \in DOMAIN map /\ \A i \in GroupMates(groups, p) : Planes[i] # groups[p]
    IN PoolAt(GroupMates(groups, p) \cup {x \in {0} : merged}, groups, p)

\* _pool_contributions.
Contributions(map, bin, pool) ==
    LET Has(c) == c \in DOMAIN map /\ bin \in DOMAIN map[c] /\ map[c][bin].n > 0
    IN [i \in {j \in DOMAIN pool : Has(pool[j])} |-> map[pool[i]][bin]]

\* pooled_bin_n.
PooledN(map, bin, pool) ==
    LET c == Contributions(map, bin, pool) IN SumFunction([i \in DOMAIN c |-> c[i].n])

\* effective_tau_pooled; effective_tau is the pool of one.
EffectiveTau(map, bin, pool, prior) ==
    LET c == Contributions(map, bin, pool)
        n == PooledN(map, bin, pool)
        tau == SumFunction([i \in DOMAIN c |-> c[i].n * c[i].tau]) \div n
    IN IF DOMAIN c = {} THEN ClampedTau(prior)
       ELSE ClampedTau((n * tau + ShrinkK * ClampedTau(prior)) \div (n + ShrinkK))

\* The beam_tau hook of the forecast, static when the learner is not active.
BeamTau(p, h, doy) ==
    IF slow /\ \E c \in DOMAIN shadeMap : DOMAIN shadeMap[c] # {}
    THEN EffectiveTau(shadeMap, BinOf(SunAt[h], doy), PoolOf(shadeMap, grouping, p), StaticTau[p][h])
    ELSE ClampedTau(StaticTau[p][h])

-----------------------------------------------------------------------------
(* suggest_shade_groups.                                                    *)

\* channel_similarity over the bins both channels have.
Similarity(map, p, q) ==
    LET bins == DOMAIN Get(map, p, <<>>) \cap DOMAIN Get(map, q, <<>>)
        W(b) == IF map[p][b].n < map[q][b].n THEN map[p][b].n ELSE map[q][b].n
        D(b) == IF map[p][b].tau < map[q][b].tau THEN map[q][b].tau - map[p][b].tau
                ELSE map[p][b].tau - map[q][b].tau
        common == {b \in bins : W(b) > 0}
    IN [bins |-> Cardinality(common), weight |-> SumFunction([b \in common |-> W(b)]),
        diff |-> SumFunction([b \in common |-> W(b) * D(b)])]

Similar(map, p, q) ==
    LET s == Similarity(map, p, q)
    IN s.bins >= SimilarBins /\ s.weight > 0 /\ s.diff <= SimilarMax * s.weight

HasShadeData(map, p) == \E b \in DOMAIN Get(map, p, <<>>) : map[p][b].n > 0

ClusterOf(clusters, i) == CHOOSE c \in clusters : i \in c

\* Variant: clusters merge along one similar pair.
MergedAlongPair(map, clusters, pair) ==
    LET a == ClusterOf(clusters, pair[1])  b == ClusterOf(clusters, pair[2])
    IN (clusters \ {a, b}) \cup {a \cup b}

\* Two clusters merge only if every pair across them is similar.
Merged(map, clusters, pair) ==
    LET a == ClusterOf(clusters, pair[1])  b == ClusterOf(clusters, pair[2])
    IN IF \A i \in a, j \in b : i # j => Similar(map, Planes[i], Planes[j])
       THEN (clusters \ {a, b}) \cup {a \cup b} ELSE clusters

\* The places of the planes that may be grouped, and those of similar planes.
WithData(map) == {i \in DOMAIN Planes : HasShadeData(map, Planes[i])}
SimilarPairs(map) ==
    {pr \in WithData(map) \X WithData(map) :
        pr[1] < pr[2] /\ Similar(map, Planes[pr[1]], Planes[pr[2]])}

\* By mean difference, compared without dividing, then by the places.
Closer(map, a, b) ==
    LET Of(pr) == Similarity(map, Planes[pr[1]], Planes[pr[2]])
        x == Of(a).diff * Of(b).weight  y == Of(b).diff * Of(a).weight
    IN x < y \/ (x = y /\ (a[1] < b[1] \/ (a[1] = b[1] /\ a[2] < b[2])))

\* The pairs in this order.
InTurn(map) ==
    LET pairs == SimilarPairs(map)
        UpTo(pr) == {q \in pairs : q = pr \/ Closer(map, q, pr)}
    IN [k \in 1..Cardinality(pairs) |-> CHOOSE pr \in pairs : Cardinality(UpTo(pr)) = k]

\* Greedy over the similar pairs, the most similar first; a plane without data stays
\* alone.
SuggestedGroups(map) ==
    LET data == WithData(map)
        turn == InTurn(map)
        after[k \in 0..Cardinality(SimilarPairs(map))] ==
            IF k = 0 THEN {{i} : i \in data} ELSE Merged(map, after[k - 1], turn[k])
    IN after[Cardinality(SimilarPairs(map))] \cup {{i} : i \in DOMAIN Planes \ data}

-----------------------------------------------------------------------------
NoSamples == [c \in {} |-> <<>>]

ShadeInit ==
    /\ shadeMap = NoSamples /\ samples = NoSamples
    /\ grouping \in Groupings
    /\ slow = TRUE
    /\ shadeNight = 0
    /\ snapshot = Null

\* Variant: grouped planes learn into the channel of their group.
StoreChannelGrouped(p) == grouping[p]

\* train_channel: a plane learns into its own channel.
StoreChannel(p) == p

\* update_bin for one sample after the other.
UpdatedBins(bins, news) ==
    LET after[k \in 0..Len(news)] ==
            IF k = 0 THEN bins ELSE UpdatedBin(after[k - 1], news[k])
    IN after[Len(news)]

WithSamples(map, c, news) ==
    [x \in DOMAIN map \cup {c} |-> IF x = c THEN UpdatedBins(Get(map, c, <<>>), news) ELSE map[x]]

\* The history of one channel, and of all, after a night.
Noted(bins, news) ==
    [b \in DOMAIN bins \cup {news[i].bin : i \in DOMAIN news} |->
        LET old == Get(bins, b, <<>>)
            fresh == {<<shadeNight, i>> : i \in {j \in DOMAIN news : news[j].bin = b}}
        IN [k \in DOMAIN old \cup fresh |-> IF k \in fresh THEN news[k[2]].t ELSE old[k]]]

Remembered(news) ==
    [c \in DOMAIN samples \cup DOMAIN news |->
        IF c \in DOMAIN news THEN Noted(Get(samples, c, <<>>), news[c]) ELSE samples[c]]

\* What a closed day tells of which plane.
NewsOf(day) ==
    LET ready == /\ slow
                 /\ DOMAIN day.modeled # {}
                 /\ DOMAIN day.hourly # {}
                 /\ IsMeasuredClear(day, day, PlaneSet, LocalDay(0))
        Of(p) == SamplesOf(p, day.modeled[p], day.hourly[p], FirstDoy + shadeNight)
    IN [p \in {q \in PlaneSet : /\ ready /\ q \in DOMAIN day.modeled /\ q \in DOMAIN day.hourly
                                /\ Of(q) # <<>>} |-> Of(p)]

\* The planes are trained one after the other.
LearnedMap(news) ==
    LET after[i \in 0..Len(Planes)] ==
            IF i = 0 THEN shadeMap
            ELSE IF Planes[i] \notin DOMAIN news THEN after[i - 1]
            ELSE WithSamples(after[i - 1], StoreChannel(Planes[i]), news[Planes[i]])
    IN after[Len(Planes)]

\* train_shademap for a closed day; the rollback snapshot is taken first.
TrainShademap(day) ==
    /\ shadeNight < ShadeNights
    /\ shadeNight' = shadeNight + 1
    /\ snapshot' = [map |-> shadeMap, samples |-> samples]
    /\ shadeMap' = LearnedMap(NewsOf(day))
    /\ samples' = Remembered(NewsOf(day))
    /\ UNCHANGED <<grouping, slow>>

Night == \E day \in ShadeKinds : TrainShademap(day)

\* ingest_bootstrap_shademap: what a file says, its counts capped.
Capped(map) ==
    [c \in DOMAIN map |-> [b \in DOMAIN map[c] |->
        [tau |-> ClampedTau(map[c][b].tau), n |-> Between(0, map[c][b].n, BootstrapMaxN)]]]

ImportShade ==
    \E file \in ShadeImports :
        /\ shadeMap = NoSamples
        /\ shadeMap' = Capped(file)
        /\ samples' = [c \in DOMAIN file |-> [b \in DOMAIN file[c] |->
                          [k \in {-1} \X (1..Capped(file)[c][b].n) |-> Capped(file)[c][b].tau]]]
        /\ snapshot' = [map |-> shadeMap, samples |-> samples]
        /\ UNCHANGED <<grouping, slow, shadeNight>>

RollbackShade ==
    /\ snapshot # Null
    /\ shadeMap' = snapshot.map /\ samples' = snapshot.samples
    /\ snapshot' = Null
    /\ UNCHANGED <<grouping, slow, shadeNight>>

\* A reload with other shade groups, and the switch of the slow learner.
Regroup ==
    /\ grouping' \in Groupings \ {grouping}
    /\ UNCHANGED <<shadeMap, slow, shadeNight, snapshot, samples>>

SwitchSlow ==
    /\ slow' = ~slow
    /\ UNCHANGED <<shadeMap, grouping, shadeNight, snapshot, samples>>

ShadeNext == Night \/ ImportShade \/ RollbackShade \/ Regroup \/ SwitchSlow

ShadeSpec == ShadeInit /\ [][ShadeNext]_shadeVars

-----------------------------------------------------------------------------
(* Properties.                                                              *)

ShadeTypeOK ==
    /\ shadeNight \in 0..ShadeNights
    /\ \A c \in DOMAIN shadeMap : \A b \in DOMAIN shadeMap[c] :
          /\ shadeMap[c][b].tau \in TauMin..TauMax
          /\ shadeMap[c][b].n \in Nat
          /\ b[3] \in {0, 1}
    /\ \A p \in PlaneSet : \A h \in DOMAIN SunAt :
          BeamTau(p, h, FirstDoy) \in TauMin..TauMax

ValuesOf(s) == {s[k] : k \in DOMAIN s}
SampleCount(bins, b) == IF b \in DOMAIN bins THEN Cardinality(DOMAIN bins[b]) ELSE 0

\* However the planes were grouped in between, a channel holds its own plane's
\* samples and no others, every one counted once, and what a plane reads pools
\* those of its group's planes and of a channel with the group's name, none twice
\* (train_channel: storage is always per plane, so grouping stays reversible;
\* _build_shade_pool_map: no double count).
SamplesCountedOnce ==
    /\ DOMAIN shadeMap = DOMAIN samples
    /\ \A c \in DOMAIN shadeMap :
          /\ DOMAIN shadeMap[c] = DOMAIN samples[c]
          /\ \A b \in DOMAIN shadeMap[c] :
                /\ shadeMap[c][b].n = Cardinality(DOMAIN samples[c][b])
                /\ shadeMap[c][b].n > 0 =>
                      \E s, t \in ValuesOf(samples[c][b]) :
                         s <= shadeMap[c][b].tau /\ shadeMap[c][b].tau <= t
    /\ \A p \in PlaneSet : \A h \in DOMAIN SunAt :
          LET bin == BinOf(SunAt[h], FirstDoy)
              sources == {q \in PlaneSet : grouping[q] = grouping[p]} \cup {grouping[p]}
          IN PooledN(shadeMap, bin, PoolOf(shadeMap, grouping, p))
                = SumFunctionOnSet([c \in DOMAIN samples |-> SampleCount(samples[c], bin)],
                                   sources \cap DOMAIN samples)

\* Once something is learned, the proposed groups divide the planes, any two
\* planes of a group are similar, and no two groups could still be joined
\* (suggest_shade_groups: complete linkage, no chaining).
GroupsAreAlike ==
    shadeMap # NoSamples =>
    LET groups == SuggestedGroups(shadeMap)
        AllSimilar(a, b) == \A i \in a, j \in b : i # j => Similar(shadeMap, Planes[i], Planes[j])
    IN /\ UNION groups = DOMAIN Planes
       /\ \A a, b \in groups : IF a = b THEN AllSimilar(a, a)
                               ELSE a \cap b = {} /\ ~AllSimilar(a, b)
=============================================================================
