------------------------------ MODULE SetupProofs ------------------------------
(***************************************************************************)
(* Proofs about an entry: its configuration, its setups, its health cards    *)
(* and the file it starts from.                                             *)
(*                                                                         *)
(* The fingerprint of a valid site determines what its learning rests on,   *)
(* and a coordinator without a reload due serves the site that was          *)
(* confirmed last, trusts only cells that were learned on it, and restarts  *)
(* only what was announced.                                                 *)
(*                                                                         *)
(* Only the running setup of an entry listens, for every number of setups   *)
(* and of saves.  A setup that is not the running one has either not come   *)
(* to its listeners or has lost them, and no step gives them back; what a   *)
(* store holds and whether its write is due plays no part.                  *)
(*                                                                         *)
(* The discard streak of the cards is chronological and the stalled card    *)
(* agrees with it, for every calendar, window, threshold and set of gates.  *)
(* A discarded day may be as old as Latest; that it is still newer than the *)
(* last accepted day is because the accepted day has its label and is not   *)
(* read again, the strengthening AcceptedRecorded.                          *)
(*                                                                         *)
(* The program would read back what it holds, whatever file it found,       *)
(* a start keeps what any version has written, and an import leaves the     *)
(* way back, for every file, value and payload.  Every from_dict leaves its *)
(* own output as it is, so that what is in memory is held by the file; what *)
(* the dataclasses may hold is such an output.                              *)
(***************************************************************************)
EXTENDS SiteConfiguration, EntryLifecycle, LearningHealth, StoreFile,
        FiniteSetTheorems, SequenceTheorems, TLAPS

-----------------------------------------------------------------------------
(* What validation leaves: finitely many planes, told apart by their names,  *)
(* and no pool on the channel of a plane outside of it.                      *)

Wired(s) ==
    /\ IsFiniteSet(DOMAIN s.planes)
    /\ \A i, k \in DOMAIN s.planes : s.planes[i].name = s.planes[k].name => i = k
    /\ ShadeGroupsValid(s)

\* Planes of a pool, by name.
Pool(s, g) == {s.planes[i].name : i \in {k \in DOMAIN s.planes : s.planes[k].shade = g}}

Channel(s, i) == IF s.planes[i].shade = Null THEN s.planes[i].name ELSE s.planes[i].shade

Shares(s, i) ==
    {s.planes[k].name : k \in {x \in DOMAIN s.planes : Channel(s, x) = Channel(s, i)}}

\* What a fingerprint says of the plane of a name.
SharesOf(fp, name) == {name} \cup {n \in UNION fp.pools : \E P \in fp.pools : {name, n} \subseteq P}

InvertersOf(fp, name) ==
    {[with |-> x.members, limit |-> x.limit] : x \in {y \in fp.groups : name \in y.members}}

BasisOf(fp) ==
    [sun |-> fp.loc, ground |-> fp.albedo,
     yields |-> {[name |-> p.name, panel |-> p.panel, horizon |-> p.horizon,
                  shares |-> SharesOf(fp, p.name), inverter |-> InvertersOf(fp, p.name)] :
                    p \in fp.planes}]

\* A plane alone shares with no one, a pooled one with its pool.
LEMMA SharesInPool ==
    ASSUME NEW s, Wired(s), NEW i \in DOMAIN s.planes
    PROVE  Shares(s, i) = IF s.planes[i].shade = Null THEN {s.planes[i].name}
                          ELSE Pool(s, s.planes[i].shade)
<1>1. ASSUME NEW k \in DOMAIN s.planes, NEW j \in DOMAIN s.planes,
             s.planes[j].shade # Null, s.planes[j].shade = s.planes[k].name
      PROVE  s.planes[k].shade # Null
  BY <1>1 DEF Wired, ShadeGroupsValid, ShadeGroups
<1>2. CASE s.planes[i].shade = Null
  <2>1. \A x \in DOMAIN s.planes : Channel(s, x) = Channel(s, i) => x = i
    BY <1>1, <1>2 DEF Channel, Wired
  <2> QED
    BY <1>2, <2>1 DEF Shares
<1>3. CASE s.planes[i].shade # Null
  <2>1. \A x \in DOMAIN s.planes :
            Channel(s, x) = Channel(s, i) <=> s.planes[x].shade = s.planes[i].shade
    BY <1>1, <1>3 DEF Channel
  <2> QED
    BY <1>3, <2>1 DEF Shares, Pool
<1> QED
  BY <1>2, <1>3

LEMMA PoolFinite ==
    ASSUME NEW s, Wired(s), NEW g
    PROVE  IsFiniteSet(Pool(s, g)) /\ Cardinality(Pool(s, g)) \in Nat
<1> DEFINE K == {k \in DOMAIN s.planes : s.planes[k].shade = g}
           f == [k \in K |-> s.planes[k].name]
<1>1. IsFiniteSet(K)
  BY FS_Subset DEF Wired
<1>2. f \in Surjection(K, Pool(s, g))
  <2>1. f \in [K -> Pool(s, g)]
    BY DEF Pool
  <2>2. \A n \in Pool(s, g) : \E k \in K : f[k] = n
    BY DEF Pool
  <2> QED
    BY <2>1, <2>2 DEF Surjection
<1> HIDE DEF K, f
<1>3. IsFiniteSet(Pool(s, g))
  BY <1>1, <1>2, FS_Surjection
<1> QED
  BY <1>3, FS_CardinalityType

\* Two planes are in a pool of the fingerprint only with the planes that share
\* their channel.
LEMMA SharesFromFingerprint ==
    ASSUME NEW s, Wired(s), NEW i \in DOMAIN s.planes
    PROVE  Shares(s, i) = SharesOf(Fingerprint(s), s.planes[i].name)
<1> DEFINE name == s.planes[i].name
           pools == {pool \in {Pool(s, g) : g \in ShadeGroups(s)} : Cardinality(pool) > 1}
<1>1. Fingerprint(s).pools = pools
  BY DEF Fingerprint, Pool
<1>2. ASSUME NEW P \in pools, name \in P
      PROVE  s.planes[i].shade # Null /\ P = Pool(s, s.planes[i].shade)
  <2>1. PICK g \in ShadeGroups(s) : P = Pool(s, g)
    OBVIOUS
  <2>2. PICK k \in DOMAIN s.planes : s.planes[k].shade = g /\ s.planes[k].name = name
    BY <1>2, <2>1 DEF Pool
  <2>3. k = i
    BY <2>2 DEF Wired
  <2> QED
    BY <2>1, <2>2, <2>3 DEF ShadeGroups
<1>3. ASSUME NEW g, Cardinality(Pool(s, g)) <= 1, name \in Pool(s, g)
      PROVE  Pool(s, g) = {name}
  <2>1. IsFiniteSet(Pool(s, g))
    BY PoolFinite
  <2>2. SUFFICES ASSUME NEW n \in Pool(s, g), n # name PROVE FALSE
    BY <1>3
  <2>3. {name, n} \subseteq Pool(s, g)
    BY <1>3
  <2>4. Cardinality({name, n}) = 2
    <3>1. IsFiniteSet({name}) /\ Cardinality({name}) = 1
      BY FS_Singleton
    <3>2. Cardinality({name} \cup {n}) = 2
      BY <2>2, <3>1, FS_AddElement
    <3>3. {name} \cup {n} = {name, n}
      OBVIOUS
    <3> QED
      BY <3>2, <3>3
  <2>5. Cardinality({name, n}) <= Cardinality(Pool(s, g)) /\ Cardinality(Pool(s, g)) \in Nat
    BY <2>1, <2>3, FS_Subset, FS_CardinalityType
  <2> QED
    BY <1>3, <2>4, <2>5
<1>4. CASE s.planes[i].shade = Null
  <2>1. SharesOf(Fingerprint(s), name) = {name}
    BY <1>1, <1>2, <1>4 DEF SharesOf
  <2> QED
    BY <1>4, <2>1, SharesInPool
<1>5. CASE s.planes[i].shade # Null
  <2> DEFINE P == Pool(s, s.planes[i].shade)
  <2>1. name \in P /\ s.planes[i].shade \in ShadeGroups(s)
    BY <1>5 DEF Pool, ShadeGroups
  <2>2. IsFiniteSet(P) /\ Cardinality(P) \in Nat
    BY PoolFinite
  <2>3. CASE Cardinality(P) > 1
    <3>1. P \in pools
      BY <2>1, <2>3
    <3> HIDE DEF P, pools
    <3>2. \A Q \in pools : name \in Q => Q = P
      BY <1>2 DEF P
    <3>3. SharesOf(Fingerprint(s), name) = P
      BY <1>1, <2>1, <3>1, <3>2 DEF SharesOf
    <3> QED
      BY <1>5, <3>3, SharesInPool DEF P
  <2>4. CASE ~(Cardinality(P) > 1)
    <3>1. P = {name}
      BY <1>3, <2>1, <2>2, <2>4
    <3>2. P \notin pools
      BY <2>4
    <3> HIDE DEF P, pools
    <3>3. \A Q \in pools : name \in Q => Q = P
      BY <1>2 DEF P
    <3>4. SharesOf(Fingerprint(s), name) = {name}
      BY <1>1, <3>2, <3>3 DEF SharesOf
    <3> QED
      BY <1>5, <3>1, <3>4, SharesInPool DEF P
  <2> QED
    BY <2>3, <2>4
<1> QED
  BY <1>4, <1>5

Yield(s, i) ==
    [name |-> s.planes[i].name, panel |-> s.planes[i].panel, horizon |-> s.planes[i].horizon,
     shares |-> Shares(s, i),
     inverter |-> {[with |-> ToSet(g.members), limit |-> g.limit] :
                       g \in {x \in ToSet(s.groups) : s.planes[i].name \in ToSet(x.members)}}]

\* The fingerprint of a site determines what the physics and the learners take
\* from it: a stored state whose fingerprint is that of the running site was
\* learned on the same basis (_reconcile_config_fingerprint keeps it).
THEOREM FingerprintTellsBasis ==
    ASSUME NEW s, Wired(s)
    PROVE  Basis(s) = BasisOf(Fingerprint(s))
<1> DEFINE fp == Fingerprint(s)
<1>1. fp.loc = s.lat /\ fp.albedo = s.albedo
  BY DEF Fingerprint
<1>2. fp.planes = {[name |-> s.planes[i].name, panel |-> s.planes[i].panel,
                    horizon |-> s.planes[i].horizon] : i \in DOMAIN s.planes}
  BY DEF Fingerprint
<1>3. fp.groups = {[members |-> ToSet(s.groups[i].members), limit |-> s.groups[i].limit] :
                      i \in DOMAIN s.groups}
  BY DEF Fingerprint
<1>4. Basis(s) = [sun |-> s.lat, ground |-> s.albedo, yields |-> {Yield(s, i) : i \in DOMAIN s.planes}]
  BY DEF Basis, Yield, Shares, Channel
<1> HIDE DEF fp
<1> DEFINE Of(p) == [name |-> p.name, panel |-> p.panel, horizon |-> p.horizon,
                     shares |-> SharesOf(fp, p.name), inverter |-> InvertersOf(fp, p.name)]
           short(i) == [name |-> s.planes[i].name, panel |-> s.planes[i].panel,
                        horizon |-> s.planes[i].horizon]
<1>5. ASSUME NEW name
      PROVE  InvertersOf(fp, name) =
                {[with |-> ToSet(g.members), limit |-> g.limit] :
                    g \in {x \in ToSet(s.groups) : name \in ToSet(x.members)}}
  <2> DEFINE group(i) == [members |-> ToSet(s.groups[i].members), limit |-> s.groups[i].limit]
             out(x) == [with |-> x.members, limit |-> x.limit]
             wired(g) == [with |-> ToSet(g.members), limit |-> g.limit]
             mine == {g \in ToSet(s.groups) : name \in ToSet(g.members)}
  <2>1. \A i \in DOMAIN s.groups : out(group(i)) = wired(s.groups[i])
    OBVIOUS
  <2>2. \A i \in DOMAIN s.groups : group(i).members = ToSet(s.groups[i].members)
    OBVIOUS
  <2>3. ToSet(s.groups) = {s.groups[i] : i \in DOMAIN s.groups}
    BY DEF ToSet
  <2>4. InvertersOf(fp, name) = {out(x) : x \in {y \in fp.groups : name \in y.members}}
    BY DEF InvertersOf
  <2>5. fp.groups = {group(i) : i \in DOMAIN s.groups}
    BY <1>3
  <2> HIDE DEF out, group, wired
  <2>6. {out(x) : x \in {y \in fp.groups : name \in y.members}} = {wired(g) : g \in mine}
    BY <2>1, <2>2, <2>3, <2>5
  <2> QED
    BY <2>4, <2>6 DEF wired
<1>6. ASSUME NEW i \in DOMAIN s.planes
      PROVE  Of(short(i)) = Yield(s, i)
  <2>1. SharesOf(fp, s.planes[i].name) = Shares(s, i)
    BY SharesFromFingerprint DEF fp
  <2> QED
    BY <1>5, <2>1 DEF Yield
<1>7. {Of(p) : p \in fp.planes} = {Yield(s, i) : i \in DOMAIN s.planes}
  <2>1. fp.planes = {short(i) : i \in DOMAIN s.planes}
    BY <1>2
  <2> HIDE DEF Of, short
  <2> QED
    BY <1>6, <2>1
<1> QED
  BY <1>1, <1>4, <1>7 DEF BasisOf, fp

-----------------------------------------------------------------------------
(* What a form leaves is wired, whatever its visible fields say.             *)

\* The fields that a form shows replace those that the site object carried.
Placed(s, lat, ac, albedo) ==
    [Normalised(s) EXCEPT !.lat = lat, !.ac = ac, !.albedo = albedo]

LEMMA NormalisedSite ==
    ASSUME NEW s, IsSite(s)
    PROVE  /\ IsSite(Normalised(s))
           /\ DOMAIN Normalised(s).planes = DOMAIN s.planes
           /\ \A i \in DOMAIN s.planes :
                 /\ Normalised(s).planes[i].name = s.planes[i].name
                 /\ Normalised(s).planes[i].shade = s.planes[i].shade
<1> DEFINE new == [i \in DOMAIN s.planes |-> ByAzimuth(s.planes[i])]
<1>1. DOMAIN Normalised(s) = SiteFields
  BY DEF Normalised, IsSite, SiteFields
<1>2. Normalised(s).planes = new
  BY DEF Normalised, IsSite, SiteFields
<1>3. \A i \in DOMAIN s.planes : /\ DOMAIN new[i] = PlaneFields
                                 /\ new[i].name = s.planes[i].name
                                 /\ new[i].shade = s.planes[i].shade
  BY DEF IsSite, PlaneFields, ByAzimuth
<1>4. new \in Seq(ToSet(new))
  <2>1. DOMAIN s.planes = 1..Len(s.planes) /\ Len(s.planes) \in Nat
    BY DEF IsSite
  <2>2. \A i \in DOMAIN new : new[i] \in ToSet(new)
    BY DEF ToSet
  <2> HIDE DEF new
  <2>3. DOMAIN new = DOMAIN s.planes
    BY DEF new
  <2>4. new = [i \in 1..Len(s.planes) |-> new[i]]
    BY <2>1 DEF new
  <2> QED
    BY <2>1, <2>2, <2>3, <2>4
<1> QED
  BY <1>1, <1>2, <1>3, <1>4 DEF IsSite

LEMMA ValidIsWired ==
    ASSUME NEW s, IsSite(s), Valid(s)
    PROVE  Wired(s)
<1>1. DOMAIN s.planes = 1..Len(s.planes) /\ Len(s.planes) \in Nat
  BY DEF IsSite
<1>2. IsFiniteSet(DOMAIN s.planes)
  BY <1>1, FS_Interval
<1>3. \A i \in DOMAIN s.planes : \A k \in 1..(i - 1) : s.planes[k].name # s.planes[i].name
  BY DEF Valid, PlaneValid
<1>4. \A i, k \in DOMAIN s.planes : s.planes[i].name = s.planes[k].name => i = k
  BY <1>1, <1>3
<1> QED
  BY <1>2, <1>4 DEF Wired, Valid

LEMMA PlacedIsWired ==
    ASSUME NEW s, IsSite(s), Valid(s), NEW lat, NEW ac, NEW albedo
    PROVE  /\ Wired(Placed(s, lat, ac, albedo))
           /\ Placed(s, lat, ac, albedo).lat = lat
<1> DEFINE n == Normalised(s)
           p == Placed(s, lat, ac, albedo)
<1>1. /\ IsSite(n) /\ DOMAIN n.planes = DOMAIN s.planes
      /\ \A i \in DOMAIN s.planes : n.planes[i].name = s.planes[i].name /\ n.planes[i].shade = s.planes[i].shade
  BY NormalisedSite
<1>2. p = [n EXCEPT !.lat = lat, !.ac = ac, !.albedo = albedo]
  BY DEF Placed
<1> HIDE DEF n, p
<1>3. p.planes = n.planes /\ p.lat = lat
  BY <1>1, <1>2 DEF IsSite, SiteFields
<1>4. Wired(s)
  BY ValidIsWired
<1>5. ShadeGroups(p) = ShadeGroups(s)
  BY <1>1, <1>3 DEF ShadeGroups
<1>6. ShadeGroupsValid(p)
  BY <1>1, <1>3, <1>4, <1>5 DEF ShadeGroupsValid, Wired
<1>7. Wired(p)
  BY <1>1, <1>3, <1>4, <1>6 DEF Wired
<1> QED
  BY <1>3, <1>7 DEF p

\* An accepted form's entry data: a wired site at the form's location.
Structured(data) ==
    DOMAIN data = Structurals /\ Wired(data.site) /\ data.site.lat = data.lat

LEMMA FormsAreStructured ==
    ASSUME NEW f, DOMAIN f = {"site", "lat", "ac", "albedo", "cadence"},
           f.site # Bad => IsSite(f.site), FormAccepted(f)
    PROVE  Structured(Structural(f)) /\ Structural(f) # << >>
<1>1. IsSite(f.site) /\ Valid(f.site)
  BY DEF FormAccepted, Valid
<1>2. Structural(f) = [lat |-> f.lat, cadence |-> f.cadence,
                       site |-> Placed(f.site, f.lat, f.ac, f.albedo)]
  BY DEF Structural, Placed
<1>3. /\ Wired(Placed(f.site, f.lat, f.ac, f.albedo))
      /\ Placed(f.site, f.lat, f.ac, f.albedo).lat = f.lat
  BY <1>1, PlacedIsWired
<1>4. DOMAIN Structural(f) = Structurals
  BY <1>2 DEF Structurals
<1>5. Structural(f) # << >>
  BY <1>4 DEF Structurals
<1> QED
  BY <1>2, <1>3, <1>4, <1>5 DEF Structured

-----------------------------------------------------------------------------
(* The invariant.                                                            *)

\* The site of an entry with these data and options.
SiteIn(data, options) == Get(options, "site", data.site)

LatIn(data, options) == Get(options, "lat", data.lat)

\* What is in force is what was confirmed last.
EntryOK ==
    /\ DOMAIN entryData = Structurals
    /\ Wired(SiteIn(entryData, entryOptions))
    /\ SiteIn(entryData, entryOptions) = confirmed
    /\ SiteIn(entryData, entryOptions).lat = LatIn(entryData, entryOptions)

\* Before there is an entry nothing runs, and nothing is in the store.
NoEntryYet ==
    /\ ~reloadDue /\ site = Null /\ proposal = Null
    /\ kept.fp = NoPrint /\ keptFile.fp = NoPrint

\* A proposal carries an accepted form, and says what it changes of the entry that
\* it was made for.
ProposalOK ==
    /\ Structured(proposal.data) /\ proposal.data # << >>
    /\ proposal.changed <=> ModelChanged(SiteIn(proposal.oldData, proposal.oldOptions),
                                         proposal.data.site)

Trusted(cells) == cells.sure /\ ~cells.restored

\* Trusted cells rest on what the fingerprint beside them tells, and a fingerprint
\* that is not the entry's is one whose restart was announced.
KeptOK(k) ==
    /\ DOMAIN k = {"fp", "cells"} /\ DOMAIN k.cells = {"basis", "sure", "restored"}
    /\ Trusted(k.cells) => k.fp # NoPrint /\ k.cells.basis = BasisOf(k.fp)
    /\ k.fp # NoPrint =>
          \/ k.fp = Fingerprint(SiteIn(entryData, entryOptions))
          \/ Fingerprint(SiteIn(entryData, entryOptions)) \in announced

\* The running coordinator has reconciled its cells with its site.
RunningOK ==
    /\ Wired(site)
    /\ kept.fp = Fingerprint(site)
    /\ ~reloadDue => site = SiteIn(entryData, entryOptions)

ConfigInv ==
    /\ IF entryData = << >> THEN NoEntryYet ELSE EntryOK
    /\ draft # Null => entryData = << >> /\ IsSite(draft)
    /\ proposal # Null => ProposalOK
    /\ KeptOK(kept) /\ KeptOK(keptFile)
    /\ snapshotOf # Null => DOMAIN snapshotOf = {"basis", "sure", "restored"}
    /\ site # Null => RunningOK
    /\ restarts \subseteq announced

-----------------------------------------------------------------------------
LEMMA FingerprintIsOne ==
    ASSUME NEW s
    PROVE  Fingerprint(s) # NoPrint
<1>1. DOMAIN Fingerprint(s) = {"loc", "albedo", "planes", "pools", "groups"}
  BY DEF Fingerprint
<1> QED
  BY <1>1 DEF NoPrint

LEMMA MergedIsIn ==
    ASSUME EntryOK
    PROVE  /\ MergedEntry.site = SiteIn(entryData, entryOptions)
           /\ MergedEntry.lat = LatIn(entryData, entryOptions)
  BY DEF EntryOK, MergedEntry, SiteIn, LatIn, Structurals

LEMMA InitConfig == ConfigInit => ConfigInv
  BY DEF ConfigInit, ConfigInv, NoEntryYet, KeptOK, Trusted, Untrained, NoPrint

\* A new entry, also one that keeps what an older options form has written.
LEMMA CreateKeeps ==
    ASSUME ConfigInv, entryData = << >>, NEW data, Structured(data), data # << >>, Create(data)
    PROVE  ConfigInv'
<1>1. PICK old \in LegacyOptions : entryOptions' = old /\ confirmed' = Get(old, "site", data.site)
  BY DEF Create
<1>2. /\ entryData' = data /\ draft' = Null /\ reloadDue' = TRUE
      /\ UNCHANGED <<proposal, site, announced, kept, keptFile, snapshotOf, restarts>>
  BY DEF Create, Learning
<1>3. NoEntryYet
  BY DEF ConfigInv
<1>4. /\ "site" \in DOMAIN old <=> "lat" \in DOMAIN old
      /\ "site" \in DOMAIN old => Wired(old["site"]) /\ old["site"].lat = old["lat"]
  BY ConfigAssumption, ValidIsWired
<1>5. Wired(SiteIn(data, old)) /\ SiteIn(data, old).lat = LatIn(data, old)
  BY <1>4 DEF SiteIn, LatIn, Get, Structured
<1>6. EntryOK'
  BY <1>1, <1>2, <1>5 DEF EntryOK, SiteIn, LatIn, Structured
<1>7. KeptOK(kept)' /\ KeptOK(keptFile)'
  BY <1>2, <1>3 DEF ConfigInv, KeptOK, Trusted, NoEntryYet
<1> QED
  BY <1>2, <1>3, <1>6, <1>7 DEF ConfigInv, NoEntryYet

LEMMA AdvancedSetupKeeps ==
    ASSUME ConfigInv, AdvancedSetup
    PROVE  ConfigInv'
<1>1. PICK f \in SiteForms : FormAccepted(f) /\ Create(Structural(f))
  BY DEF AdvancedSetup
<1>2. Structured(Structural(f)) /\ Structural(f) # << >>
  BY <1>1, ConfigAssumption, FormsAreStructured
<1> QED
  BY <1>1, <1>2, CreateKeeps DEF AdvancedSetup

LEMMA GuidedReviewKeeps ==
    ASSUME ConfigInv, GuidedReview
    PROVE  ConfigInv'
<1>1. entryData = << >> /\ IsSite(draft)
  BY DEF ConfigInv, GuidedReview
<1> DEFINE mine(f) == [f EXCEPT !.site = draft, !.lat = draft.lat, !.ac = Null, !.albedo = Null]
<1>2. PICK f \in SiteForms : FormAccepted(mine(f)) /\ Create(Structural(mine(f)))
  BY DEF GuidedReview
<1>3. DOMAIN mine(f) = {"site", "lat", "ac", "albedo", "cadence"} /\ mine(f).site = draft
  BY ConfigAssumption
<1> HIDE DEF mine
<1>4. Structured(Structural(mine(f))) /\ Structural(mine(f)) # << >>
  BY <1>1, <1>2, <1>3, FormsAreStructured
<1> QED
  BY <1>1, <1>2, <1>4, CreateKeeps

\* The draft of a guided setup stays a site object, panel after panel.
LEMMA PanelKeepsSite ==
    ASSUME NEW s, IsSite(s), NEW x, DOMAIN x.plane = PlaneFields
    PROVE  IsSite(WithPanel(s, x))
<1> DEFINE new == Append(s.planes, x.plane)
           w == WithPanel(s, x)
<1>1. DOMAIN w = SiteFields /\ w.planes = new
  BY DEF WithPanel, IsSite, SiteFields
<1> DEFINE T == ToSet(s.planes) \cup {x.plane}
<1>2. s.planes \in Seq(T)
  <2>1. /\ Len(s.planes) \in Nat
        /\ \A i \in 1..Len(s.planes) : s.planes[i] \in ToSet(s.planes)
        /\ s.planes = [i \in 1..Len(s.planes) |-> s.planes[i]]
    BY DEF IsSite
  <2> HIDE DEF T
  <2>2. \A i \in 1..Len(s.planes) : s.planes[i] \in T
    BY <2>1 DEF T
  <2> QED
    BY <2>1, <2>2
<1> HIDE DEF T
<1>3. /\ new \in Seq(T) /\ Len(new) = Len(s.planes) + 1
      /\ \A i \in 1..Len(s.planes) : new[i] = s.planes[i]
      /\ new[Len(s.planes) + 1] = x.plane
  BY <1>2, AppendProperties DEF T
<1> HIDE DEF new, w
<1>4. \A i \in DOMAIN new : DOMAIN new[i] = PlaneFields
  <2>1. DOMAIN s.planes = 1..Len(s.planes) /\ Len(s.planes) \in Nat
    BY DEF IsSite
  <2>2. DOMAIN new = 1..(Len(s.planes) + 1)
    BY <1>3
  <2>3. \A i \in DOMAIN new : i \in 1..Len(s.planes) \/ i = Len(s.planes) + 1
    BY <2>1, <2>2
  <2> QED
    BY <1>3, <2>1, <2>3 DEF IsSite
<1>5. new \in Seq(ToSet(new))
  <2>1. /\ Len(new) \in Nat /\ DOMAIN new = 1..Len(new)
        /\ new = [i \in 1..Len(new) |-> new[i]]
    BY <1>3
  <2>2. \A i \in 1..Len(new) : new[i] \in ToSet(new)
    BY <2>1 DEF ToSet
  <2> QED
    BY <2>1, <2>2
<1> QED
  BY <1>1, <1>4, <1>5 DEF IsSite, w

LEMMA GuidedKeeps ==
    ASSUME ConfigInv, GuidedStart \/ GuidedPanel
    PROVE  ConfigInv'
<1>1. UNCHANGED <<entryData, entryOptions, proposal, reloadDue, site, confirmed, announced,
                  kept, keptFile, snapshotOf, restarts>>
  BY DEF GuidedStart, GuidedPanel, Learning
<1>2. entryData = << >> /\ IsSite(draft')
  <2>1. CASE GuidedStart
    <3>1. PICK lat : draft' = EmptySite(lat)
      BY <2>1 DEF GuidedStart
    <3>2. IsSite(EmptySite(lat))
      <4>1. << >> \in Seq(ToSet(<< >>))
        OBVIOUS
      <4> QED
        BY <4>1 DEF IsSite, EmptySite, SiteFields
    <3> QED
      BY <2>1, <3>1, <3>2 DEF GuidedStart
  <2>2. CASE GuidedPanel
    <3>1. entryData = << >> /\ IsSite(draft)
      BY <2>2 DEF GuidedPanel, ConfigInv
    <3>2. PICK x \in GuidedPanels : draft' = Normalised(WithPanel(draft, x))
      BY <2>2 DEF GuidedPanel
    <3>3. IsSite(WithPanel(draft, x))
      BY <3>1, ConfigAssumption, PanelKeepsSite
    <3> QED
      BY <3>1, <3>2, <3>3, NormalisedSite
  <2> QED
    BY <2>1, <2>2
<1> QED
  BY <1>1, <1>2 DEF ConfigInv, NoEntryYet, EntryOK, ProposalOK, KeptOK, Trusted, RunningOK

\* A proposal is made for the entry as it is, and is shown what it changes of it.
LEMMA ReconfigureKeeps ==
    ASSUME ConfigInv, Reconfigure
    PROVE  ConfigInv'
<1>1. UNCHANGED <<entryData, entryOptions, draft, reloadDue, site, confirmed, announced,
                  kept, keptFile, snapshotOf, restarts>>
  BY DEF Reconfigure, Learning
<1>2. EntryOK /\ entryData # << >>
  BY DEF ConfigInv, Reconfigure
<1>3. PICK f \in SiteForms :
         /\ FormAccepted(f)
         /\ proposal' = [data |-> Structural(f), oldData |-> entryData, oldOptions |-> entryOptions,
                         changed |-> ModelChanged([MergedEntry.site EXCEPT !.lat = MergedEntry.lat],
                                                  Structural(f).site)]
  BY DEF Reconfigure
<1>4. Structured(Structural(f)) /\ Structural(f) # << >>
  BY <1>3, ConfigAssumption, FormsAreStructured
<1> DEFINE old == SiteIn(entryData, entryOptions)
<1>5. Fingerprint([old EXCEPT !.lat = old.lat]) = Fingerprint(old)
  BY DEF Fingerprint, ShadeGroups
<1>6. MergedEntry.site = old /\ MergedEntry.lat = old.lat
  BY <1>2, MergedIsIn DEF EntryOK
<1>7. proposal'.changed <=> ModelChanged(old, Structural(f).site)
  BY <1>3, <1>5, <1>6 DEF ModelChanged
<1>8. /\ proposal'.data = Structural(f)
      /\ proposal'.oldData = entryData /\ proposal'.oldOptions = entryOptions
  BY <1>3
<1>9. ProposalOK'
  BY <1>4, <1>7, <1>8 DEF ProposalOK
<1> QED
  BY <1>1, <1>2, <1>9 DEF ConfigInv, EntryOK, KeptOK, Trusted, RunningOK

\* Written, a proposal is what was confirmed last, and a changed model's restart
\* is announced.
LEMMA ConfirmKeeps ==
    ASSUME ConfigInv, ConfirmChanges
    PROVE  ConfigInv'
<1>1. /\ proposal # Null /\ proposal' = Null
      /\ UNCHANGED <<draft, site, kept, keptFile, snapshotOf, restarts>>
  BY DEF ConfirmChanges, Learning
<1>2. ProposalOK /\ EntryOK /\ entryData # << >>
  BY <1>1 DEF ConfigInv, NoEntryYet
<1>3. CASE entryData # proposal.oldData \/ entryOptions # proposal.oldOptions
  <2>1. UNCHANGED <<entryData, entryOptions, reloadDue, confirmed, announced>>
    BY <1>3 DEF ConfirmChanges
  <2> QED
    BY <1>1, <1>2, <2>1 DEF ConfigInv, EntryOK, KeptOK, Trusted, RunningOK
<1>4. CASE ~(entryData # proposal.oldData \/ entryOptions # proposal.oldOptions)
  <2> DEFINE old == SiteIn(entryData, entryOptions)
             new == proposal.data.site
  <2>1. /\ entryData' = proposal.data
        /\ entryOptions' = Stripped(entryOptions)
        /\ reloadDue' = (reloadDue \/ entryData' # entryData \/ entryOptions' # entryOptions)
        /\ confirmed' = new
        /\ announced' = IF proposal.changed THEN announced \cup {Fingerprint(new)} ELSE announced
    BY <1>4 DEF ConfirmChanges
  <2>2. "site" \notin DOMAIN entryOptions' /\ "lat" \notin DOMAIN entryOptions'
    BY <2>1 DEF Stripped, Where, Structurals
  <2>3. SiteIn(entryData, entryOptions)' = new /\ LatIn(entryData, entryOptions)' = proposal.data.lat
    BY <2>1, <2>2 DEF SiteIn, LatIn, Get
  <2>4. EntryOK' /\ entryData' # << >>
    BY <1>2, <2>1, <2>3 DEF EntryOK, ProposalOK, Structured
  <2>5. Fingerprint(old) # Fingerprint(new) => Fingerprint(new) \in announced'
    BY <1>2, <1>4, <2>1 DEF ProposalOK, ModelChanged
  <2>6. announced \subseteq announced'
    BY <2>1
  <2>7. ASSUME NEW k, KeptOK(k) PROVE KeptOK(k)'
    BY <2>3, <2>5, <2>6, <2>7 DEF KeptOK, Trusted
  <2>8. site # Null /\ ~reloadDue' => site = SiteIn(entryData, entryOptions)'
    BY <2>1 DEF ConfigInv, RunningOK
  <2>9. site' # Null => RunningOK'
    BY <1>1, <2>8 DEF ConfigInv, RunningOK
  <2>10. KeptOK(kept)' /\ KeptOK(keptFile)'
    BY <1>1, <2>7 DEF ConfigInv, KeptOK, Trusted
  <2>11. draft' # Null => FALSE
    BY <1>1, <1>2 DEF ConfigInv
  <2> QED
    BY <1>1, <2>4, <2>6, <2>9, <2>10, <2>11 DEF ConfigInv
<1> QED
  BY <1>3, <1>4

\* The options form neither moves the site nor forgets an old one.
LEMMA SaveOptionsKeeps ==
    ASSUME ConfigInv, SaveOptions
    PROVE  ConfigInv'
<1>1. /\ reloadDue' = (reloadDue \/ entryOptions' # entryOptions)
      /\ UNCHANGED <<entryData, draft, proposal, site, confirmed, announced,
                     kept, keptFile, snapshotOf, restarts>>
  BY DEF SaveOptions, Learning
<1>2. EntryOK /\ entryData # << >>
  BY DEF ConfigInv, SaveOptions
<1>3. PICK switch : entryOptions' = SavedOptions(switch)
  BY DEF SaveOptions
<1>4. \A k \in {"site", "lat"} : /\ k \in DOMAIN entryOptions' <=> k \in DOMAIN entryOptions
                                 /\ k \in DOMAIN entryOptions => entryOptions'[k] = entryOptions[k]
  BY <1>3 DEF SavedOptions
<1>5. /\ SiteIn(entryData, entryOptions)' = SiteIn(entryData, entryOptions)
      /\ LatIn(entryData, entryOptions)' = LatIn(entryData, entryOptions)
  BY <1>1, <1>4 DEF SiteIn, LatIn, Get
<1>6. EntryOK'
  BY <1>1, <1>2, <1>5 DEF EntryOK
<1>7. KeptOK(kept)' /\ KeptOK(keptFile)'
  BY <1>1, <1>5 DEF ConfigInv, KeptOK, Trusted
<1>8. site' # Null => RunningOK'
  BY <1>1, <1>5 DEF ConfigInv, RunningOK
<1>9. proposal' # Null => ProposalOK'
  BY <1>1 DEF ConfigInv, ProposalOK
<1> QED
  BY <1>1, <1>2, <1>6, <1>7, <1>8, <1>9 DEF ConfigInv

\* A setup reconciles what it reads with the site of the entry: cells of the same
\* fingerprint rest on the same basis, those of another one are opened.
LEMMA LoadKeeps ==
    ASSUME ConfigInv, entryData # << >>, NEW from, KeptOK(from), Load(from),
           keptFile' \in {kept, keptFile}, proposal' \in {proposal, Null}
    PROVE  ConfigInv'
<1> DEFINE s == SiteIn(entryData, entryOptions)
           fp == Fingerprint(s)
<1>1. EntryOK
  BY DEF ConfigInv
<1>2. s = MergedEntry.site
  BY <1>1, MergedIsIn
<1>3. /\ site' = s /\ kept' = ReconciledCells(from, s)
      /\ restarts' = IF from.fp \notin {NoPrint, fp} THEN restarts \cup {fp} ELSE restarts
      /\ reloadDue' = FALSE
      /\ UNCHANGED <<entryData, entryOptions, draft, snapshotOf, confirmed, announced>>
  BY <1>2 DEF Load
<1>4. fp # NoPrint
  BY FingerprintIsOne
<1> HIDE DEF fp
<1>5. /\ DOMAIN kept' = {"fp", "cells"} /\ DOMAIN kept'.cells = {"basis", "sure", "restored"}
      /\ kept'.fp = fp
      /\ Trusted(kept'.cells) => kept'.cells.basis = BasisOf(fp)
  <2>1. DOMAIN from = {"fp", "cells"} /\ DOMAIN from.cells = {"basis", "sure", "restored"}
    BY DEF KeptOK
  <2>2. CASE from.fp = NoPrint \/ from.fp = fp
    <3>1. kept' = [from EXCEPT !.fp = fp]
      BY <1>3, <2>2 DEF ReconciledCells, fp
    <3>2. DOMAIN kept' = {"fp", "cells"} /\ kept'.fp = fp /\ kept'.cells = from.cells
      BY <2>1, <3>1
    <3>3. Trusted(from.cells) => from.cells.basis = BasisOf(fp)
      BY <2>2 DEF KeptOK
    <3> QED
      BY <2>1, <3>2, <3>3
  <2>3. CASE ~(from.fp = NoPrint \/ from.fp = fp)
    <3>1. kept' = [fp |-> fp, cells |-> [from.cells EXCEPT !.sure = FALSE, !.restored = FALSE]]
      BY <1>3, <2>3 DEF ReconciledCells, fp
    <3>2. /\ DOMAIN kept' = {"fp", "cells"} /\ kept'.fp = fp
          /\ kept'.cells = [from.cells EXCEPT !.sure = FALSE, !.restored = FALSE]
      BY <3>1
    <3>3. DOMAIN kept'.cells = {"basis", "sure", "restored"} /\ ~kept'.cells.sure
      BY <2>1, <3>2
    <3> QED
      BY <3>2, <3>3 DEF Trusted
  <2> QED
    BY <2>2, <2>3
<1>6. s' = s /\ fp' = fp
  BY <1>3 DEF fp
<1> HIDE DEF s
<1>7. KeptOK(kept)'
  BY <1>4, <1>5, <1>6 DEF KeptOK, fp, s, Trusted
<1>8. KeptOK(keptFile)'
  BY <1>3, <1>6 DEF ConfigInv, KeptOK, fp, s, Trusted
<1>9. RunningOK'
  BY <1>1, <1>3, <1>5, <1>6 DEF RunningOK, EntryOK, fp, s
<1>10. restarts' \subseteq announced'
  <2>1. from.fp \notin {NoPrint, fp} => fp \in announced
    BY DEF KeptOK, fp, s
  <2> QED
    BY <1>3, <2>1 DEF ConfigInv
<1>11. EntryOK'
  BY <1>1, <1>3 DEF EntryOK
<1>12. proposal' # Null => ProposalOK'
  BY DEF ConfigInv, ProposalOK
<1> QED
  BY <1>3, <1>7, <1>8, <1>9, <1>10, <1>11, <1>12 DEF ConfigInv

\* Nights, rollbacks and the write of the store.
LEMMA LearningKeeps ==
    ASSUME ConfigInv, WriteStore \/ TrainingNight \/ RollbackCells
    PROVE  ConfigInv'
<1>1. UNCHANGED <<entryData, entryOptions, draft, proposal, reloadDue, site, confirmed,
                  announced, restarts>>
  BY DEF WriteStore, TrainingNight, RollbackCells
<1>2. ASSUME KeptOK(kept'), KeptOK(keptFile'), site # Null => kept'.fp = kept.fp,
             kept'.fp = NoPrint \/ site # Null \/ kept' = kept,
             snapshotOf' # Null => DOMAIN snapshotOf' = {"basis", "sure", "restored"},
             entryData = << >> => keptFile'.fp = NoPrint /\ kept'.fp = NoPrint
      PROVE  ConfigInv'
  <2>1. KeptOK(kept)' /\ KeptOK(keptFile)'
    BY <1>1, <1>2 DEF KeptOK
  <2>2. site' # Null => RunningOK'
    BY <1>1, <1>2 DEF ConfigInv, RunningOK
  <2> QED
    BY <1>1, <1>2, <2>1, <2>2 DEF ConfigInv, NoEntryYet, EntryOK, ProposalOK
<1>3. CASE WriteStore
  <2>1. keptFile' = kept /\ kept' = kept /\ snapshotOf' = snapshotOf
    BY <1>3 DEF WriteStore
  <2> QED
    BY <1>2, <2>1 DEF ConfigInv, NoEntryYet
<1>4. ASSUME site # Null, keptFile' = keptFile,
             snapshotOf' # Null => DOMAIN snapshotOf' = {"basis", "sure", "restored"},
             NEW cells, DOMAIN cells = {"basis", "sure", "restored"},
             Trusted(cells) => cells.basis = Basis(site), kept' = [kept EXCEPT !.cells = cells]
      PROVE  ConfigInv'
  <2>1. RunningOK /\ KeptOK(kept) /\ KeptOK(keptFile) /\ entryData # << >>
    BY <1>4 DEF ConfigInv, NoEntryYet
  <2>2. DOMAIN kept' = {"fp", "cells"} /\ kept'.fp = kept.fp /\ kept'.cells = cells
    BY <1>4, <2>1 DEF KeptOK
  <2>3. Basis(site) = BasisOf(kept.fp) /\ kept.fp # NoPrint
    BY <2>1, FingerprintTellsBasis, FingerprintIsOne DEF RunningOK
  <2>4. KeptOK(kept')
    BY <1>4, <2>1, <2>2, <2>3 DEF KeptOK
  <2> QED
    BY <1>2, <1>4, <2>1, <2>2, <2>4
<1>5. CASE TrainingNight
  <2> DEFINE cells == [basis |-> Basis(site), sure |-> TRUE, restored |-> FALSE]
  <2>1. /\ site # Null /\ keptFile' = keptFile /\ snapshotOf' = kept.cells
        /\ kept' = [kept EXCEPT !.cells = cells]
    BY <1>5 DEF TrainingNight
  <2>2. DOMAIN kept.cells = {"basis", "sure", "restored"}
    BY DEF ConfigInv, KeptOK
  <2>3. DOMAIN cells = {"basis", "sure", "restored"} /\ cells.basis = Basis(site)
    OBVIOUS
  <2> HIDE DEF cells
  <2> QED
    BY <1>4, <2>1, <2>2, <2>3
<1>6. CASE RollbackCells
  <2> DEFINE cells == [snapshotOf EXCEPT !.restored = @ \/ snapshotOf.basis # Basis(site)]
  <2>1. /\ site # Null /\ keptFile' = keptFile /\ snapshotOf' = snapshotOf
        /\ snapshotOf # Null /\ kept' = [kept EXCEPT !.cells = cells]
    BY <1>6 DEF RollbackCells
  <2>2. DOMAIN snapshotOf = {"basis", "sure", "restored"}
    BY <2>1 DEF ConfigInv
  <2>3. /\ DOMAIN cells = {"basis", "sure", "restored"} /\ cells.basis = snapshotOf.basis
        /\ cells.restored = (snapshotOf.restored \/ snapshotOf.basis # Basis(site))
    BY <2>2
  <2> HIDE DEF cells
  <2>4. Trusted(cells) => cells.basis = Basis(site)
    BY <2>3 DEF Trusted
  <2> QED
    BY <1>4, <2>1, <2>2, <2>3, <2>4
<1> QED
  BY <1>3, <1>5, <1>6

LEMMA NextConfig == ConfigInv /\ [ConfigNext]_siteVars => ConfigInv'
<1> SUFFICES ASSUME ConfigInv, [ConfigNext]_siteVars PROVE ConfigInv'
  OBVIOUS
<1>1. CASE ReloadEntry
  <2>1. entryData # << >> /\ KeptOK(kept)
    BY <1>1 DEF ReloadEntry, ConfigInv, NoEntryYet
  <2> QED
    BY <1>1, <2>1, LoadKeeps DEF ReloadEntry
<1>2. CASE CrashAndStart
  BY <1>2, LoadKeeps DEF CrashAndStart, ConfigInv
<1>3. CASE UNCHANGED siteVars
  BY <1>3 DEF siteVars, ConfigInv, NoEntryYet, EntryOK, ProposalOK, KeptOK, Trusted, RunningOK
<1> QED
  BY <1>1, <1>2, <1>3, AdvancedSetupKeeps, GuidedKeeps, GuidedReviewKeeps, ReconfigureKeeps,
     ConfirmKeeps, SaveOptionsKeeps, LearningKeeps DEF ConfigNext

\* Over setups, dialogs, reloads, crashes, nights and rollbacks, what is in force is
\* what was confirmed, and a fingerprint in the store is the basis of the cells
\* beside it (_reconcile_config_fingerprint, async_step_confirm_changes).
THEOREM ConfigInvariant == ConfigSpec => []ConfigInv
  BY InitConfig, NextConfig, PTL DEF ConfigSpec

\* A running coordinator without a reload due serves the confirmed site, trusts no
\* cells of another basis but those that a rollback brought back, and restarts only
\* what a confirmation has announced.
THEOREM ConfirmedIsServedHolds == ConfigSpec => []ConfirmedIsServed
<1>1. ConfigInv => ConfirmedIsServed
  <2> SUFFICES ASSUME ConfigInv, site # Null, ~reloadDue
               PROVE  /\ site = confirmed /\ site.lat = MergedEntry.lat
                      /\ kept.cells.sure /\ ~kept.cells.restored => kept.cells.basis = Basis(site)
                      /\ restarts \subseteq announced
    BY DEF ConfirmedIsServed
  <2>1. EntryOK /\ RunningOK /\ KeptOK(kept)
    BY DEF ConfigInv, NoEntryYet
  <2>2. site = confirmed /\ site.lat = MergedEntry.lat
    BY <2>1, MergedIsIn DEF EntryOK, RunningOK
  <2>3. kept.cells.sure /\ ~kept.cells.restored => kept.cells.basis = Basis(site)
    BY <2>1, FingerprintTellsBasis DEF RunningOK, KeptOK, Trusted
  <2> QED
    BY <2>2, <2>3 DEF ConfigInv
<1> QED
  BY <1>1, ConfigInvariant, PTL

-----------------------------------------------------------------------------
(* The entry: which setup may listen.                                       *)

Fields == {"mem", "pending", "nightly", "observer", "check", "stop", "update"}

\* Some listener of a setup is registered.
Listens(inst) ==
    inst.nightly \/ inst.observer \/ inst.stop \/ inst.update \/ inst.check = "waiting"

\* What an instance may be, as the i-th of n, in a stage of the entry and of core.
Tame(inst, i, n, stage, hass) ==
    /\ DOMAIN inst = Fields
    /\ Listens(inst) => i = n /\ stage = "running"
    /\ inst.check = "done" => hass # "starting"

\* A sequence of such instances, of length n.
AllTame(s, n, stage, hass) ==
    /\ n \in Nat
    /\ \E S : s \in Seq(S)
    /\ Len(s) = n
    /\ \A i \in 1..n : Tame(s[i], i, n, stage, hass)

\* The inductive invariant.
EntryInv ==
    /\ core \in {"starting", "running", "stopping"}
    /\ AllTame(instances, Len(instances), entryPhase, core)
    /\ entryPhase \in {"primed", "serving", "running"} => Len(instances) # 0
    /\ ~noise

\* The entry starts without a setup.
LEMMA InitEntry == EntryInit => EntryInv
<1>1. <<>> \in Seq({}) /\ Len(<<>>) = 0
  OBVIOUS
<1> QED
  BY <1>1 DEF EntryInit, EntryInv, AllTame

\* A new setup is the last one; until then none was running.
LEMMA NewSetUp ==
    ASSUME NEW s, NEW n, NEW old, NEW hass, AllTame(s, n, old, hass), old # "running",
           NEW x, DOMAIN x = Fields, ~Listens(x), x.check = "none", NEW stage
    PROVE  AllTame(Append(s, x), n + 1, stage, hass)
<1> DEFINE t == Append(s, x)
<1>1. PICK S : s \in Seq(S)
  BY DEF AllTame
<1>2. s \in Seq(S \cup {x}) /\ x \in S \cup {x} /\ n \in Nat /\ Len(s) = n
  BY <1>1 DEF AllTame
<1>3. t \in Seq(S \cup {x}) /\ Len(t) = n + 1 /\ t[n + 1] = x
      /\ \A i \in 1..n : t[i] = s[i]
  BY <1>2
<1> HIDE DEF t
<1>4. ASSUME NEW i \in 1..(n + 1)
      PROVE  Tame(t[i], i, n + 1, stage, hass)
  <2>1. CASE i = n + 1
    BY <1>3, <2>1 DEF Tame
  <2>2. CASE i # n + 1
    <3>1. i \in 1..n
      BY <1>2, <2>2
    <3> QED
      BY <1>3, <3>1 DEF AllTame, Tame
  <2> QED
    BY <2>1, <2>2
<1>5. n + 1 \in Nat
  BY <1>2
<1> QED
  BY <1>3, <1>4, <1>5 DEF AllTame, t

\* The current setup may change as far as the new stage allows; the others stay,
\* and core does not go back to its start.
LEMMA Changed ==
    ASSUME NEW s, NEW n, NEW old, NEW hass, AllTame(s, n, old, hass),
           NEW i \in 1..n, NEW x, NEW stage, NEW now,
           Tame(x, i, n, stage, now),
           \A j \in 1..n : j # i => ~Listens(s[j]) \/ stage = "running",
           hass # "starting" => now # "starting"
    PROVE  AllTame([s EXCEPT ![i] = x], n, stage, now)
<1> DEFINE t == [s EXCEPT ![i] = x]
<1>1. PICK S : s \in Seq(S)
  BY DEF AllTame
<1>2. s \in Seq(S \cup {x}) /\ x \in S \cup {x} /\ n \in Nat /\ Len(s) = n
  BY <1>1 DEF AllTame
<1>3. t \in Seq(S \cup {x}) /\ Len(t) = n /\ t[i] = x
      /\ \A j \in 1..n : j # i => t[j] = s[j]
  BY <1>2
<1> HIDE DEF t
<1>4. ASSUME NEW j \in 1..n
      PROVE  Tame(t[j], j, n, stage, now)
  <2>1. CASE j = i
    BY <1>3, <2>1
  <2>2. CASE j # i
    <3>1. Tame(s[j], j, n, old, hass) /\ t[j] = s[j]
      BY <1>3, <2>2 DEF AllTame
    <3> QED
      BY <2>2, <3>1 DEF Tame
  <2> QED
    BY <2>1, <2>2
<1> QED
  BY <1>2, <1>3, <1>4 DEF AllTame, t

\* With no instance changed, the stage may leave or keep "running" as they allow.
LEMMA Unchanged ==
    ASSUME NEW s, NEW n, NEW old, NEW hass, AllTame(s, n, old, hass), NEW stage, NEW now,
           old = "running" => stage = "running",
           hass # "starting" => now # "starting"
    PROVE  AllTame(s, n, stage, now)
BY DEF AllTame, Tame

\* Every action keeps it.
LEMMA NextEntry == EntryInv /\ [EntryNext]_entryVars => EntryInv'
<1> SUFFICES ASSUME EntryInv, [EntryNext]_entryVars PROVE EntryInv'
  OBVIOUS
<1> USE DEF EntryInv
<1> DEFINE n == Len(instances)
<1>1. AllTame(instances, n, entryPhase, core) /\ n \in Nat
  BY DEF AllTame
<1>2. ASSUME NEW k \in Nat, AllTame(instances', k, entryPhase', core')
      PROVE  AllTame(instances', Len(instances'), entryPhase', core') /\ Len(instances') = k
  BY <1>2 DEF AllTame
\* In the phases that touch the current setup there is one, and it is tame.
<1>3. ASSUME n # 0
      PROVE  /\ n \in 1..n /\ Current = n
             /\ Tame(instances[n], n, n, entryPhase, core)
             /\ \A j \in 1..n : j # n => ~Listens(instances[j])
  BY <1>1, <1>3 DEF AllTame, Tame, Current
<1>4. \A j \in 1..n : ~Listens(instances[j]) \/ entryPhase = "running"
  BY <1>1 DEF AllTame, Tame
<1>5. CASE SetUp
  <2>1. PICK x : /\ instances' = Append(instances, x)
                 /\ DOMAIN x = Fields /\ ~Listens(x) /\ x.check = "none"
    <3> DEFINE old == NewInstance(entryFile)
               new == [old EXCEPT !.mem = @ \cup {Cardinality(Saves) + 1}, !.pending = TRUE]
    <3>1. DOMAIN old = Fields /\ ~Listens(old) /\ old.check = "none"
      BY DEF NewInstance, Listens, Fields
    <3>2. DOMAIN new = Fields /\ ~Listens(new) /\ new.check = "none"
      BY DEF NewInstance, Listens, Fields
    <3>3. instances' = Append(instances, old) \/ instances' = Append(instances, new)
      BY <1>5 DEF SetUp
    <3> HIDE DEF old, new
    <3> QED
      BY <3>1, <3>2, <3>3
  <2>2. entryPhase # "running" /\ entryPhase' = "primed" /\ core' = core /\ noise' = noise
    BY <1>5 DEF SetUp
  <2>3. AllTame(instances', n + 1, entryPhase', core')
    BY <1>1, <2>1, <2>2, NewSetUp
  <2> QED
    BY <1>1, <1>2, <2>2, <2>3
<1>6. CASE FirstRefresh
  <2>1. /\ instances' = instances /\ core' = core /\ noise' = noise
        /\ entryPhase = "primed" /\ entryPhase' \in {"serving", "retry"}
    BY <1>6 DEF FirstRefresh
  <2>2. AllTame(instances, n, entryPhase', core)
    BY <1>1, <2>1, Unchanged
  <2> QED
    BY <2>1, <2>2
<1>7. CASE ForwardPlatforms
  <2> DEFINE x == [instances[n] EXCEPT !.nightly = TRUE, !.observer = TRUE, !.check = CheckAt,
                                       !.stop = TRUE, !.update = TRUE]
  <2>1. /\ n # 0 /\ entryPhase' = "running" /\ core' = core /\ noise' = noise
    BY <1>7 DEF ForwardPlatforms
  <2>2. instances' = [instances EXCEPT ![n] = x]
    BY <1>3, <1>7, <2>1 DEF ForwardPlatforms
  <2>3. Tame(x, n, n, "running", core)
    BY <1>3, <2>1 DEF Tame, Fields, CheckAt
  <2> HIDE DEF x
  <2>4. AllTame(instances', n, "running", core)
    BY <1>1, <1>3, <2>1, <2>2, <2>3, Changed
  <2> QED
    BY <1>1, <1>2, <2>1, <2>4
<1>8. CASE HassStarted
  <2>1. core = "starting" /\ core' = "running" /\ entryPhase' = entryPhase /\ noise' = noise
    BY <1>8 DEF HassStarted
  <2>2. CASE Current > 0 /\ Held("check") = "waiting"
    <3> DEFINE x == [instances[n] EXCEPT !.check = "done"]
    <3>1. n # 0
      BY <2>2 DEF Current
    <3>2. instances' = [instances EXCEPT ![n] = x]
      <4>1. instances' = [instances EXCEPT ![Current].check = "done"]
        BY <1>8, <2>2 DEF HassStarted
      <4> QED
        BY <1>3, <3>1, <4>1
    <3>3. Tame(x, n, n, entryPhase, "running")
      <4>1. instances[n].check = "waiting"
        BY <1>3, <2>2, <3>1 DEF Held
      <4>2. entryPhase = "running"
        BY <1>3, <3>1, <4>1 DEF Tame, Listens
      <4> QED
        BY <1>3, <3>1, <4>2 DEF Tame, Fields
    <3> HIDE DEF x
    <3>4. AllTame(instances', n, entryPhase, "running")
      BY <1>1, <1>3, <3>1, <3>2, <3>3, Changed
    <3> QED
      BY <1>1, <1>2, <2>1, <3>1, <3>4
  <2>3. CASE ~(Current > 0 /\ Held("check") = "waiting")
    <3>1. instances' = instances
      BY <1>8, <2>3 DEF HassStarted
    <3>2. AllTame(instances, n, entryPhase, "running")
      BY <1>1, <2>1, Unchanged
    <3> QED
      BY <2>1, <3>1, <3>2
  <2> QED
    BY <2>2, <2>3
<1>9. CASE LearnerSaves
  <2> DEFINE x == [instances[n] EXCEPT !.mem = instances[n].mem \cup {Cardinality(Saves) + 1},
                                       !.pending = TRUE]
  <2>1. /\ n # 0 /\ entryPhase' = entryPhase /\ core' = core /\ noise' = noise
    BY <1>9 DEF LearnerSaves
  <2>2. instances' = [instances EXCEPT ![n] = x]
    BY <1>9 DEF LearnerSaves, Current
  <2>3. Tame(x, n, n, entryPhase, core)
    BY <1>3, <2>1 DEF Tame, Fields, Listens
  <2> HIDE DEF x
  <2>4. AllTame(instances', n, entryPhase, core)
    BY <1>1, <1>3, <2>1, <2>2, <2>3, Changed
  <2> QED
    BY <1>1, <1>2, <2>1, <2>4
<1>10. CASE DelayedWrite
  <2>1. /\ entryPhase' = entryPhase /\ core' = core /\ noise' = noise
    BY <1>10 DEF DelayedWrite
  <2>2. PICK i \in DOMAIN instances : instances' = [instances EXCEPT ![i].pending = FALSE]
    BY <1>10 DEF DelayedWrite
  <2>3. i \in 1..n /\ Tame(instances[i], i, n, entryPhase, core)
    BY <1>1 DEF AllTame
  <2> DEFINE x == [instances[i] EXCEPT !.pending = FALSE]
  <2>4. instances' = [instances EXCEPT ![i] = x]
    BY <2>2
  <2>5. Tame(x, i, n, entryPhase, core)
    BY <2>3 DEF Tame, Fields, Listens
  <2> HIDE DEF x
  <2>6. AllTame(instances', n, entryPhase, core)
    BY <1>1, <1>4, <2>3, <2>4, <2>5, Changed
  <2> QED
    BY <1>1, <1>2, <2>1, <2>6
<1>11. CASE UnloadEntry
  <2> DEFINE x == TakenDown(instances[n])
  <2>1. /\ n # 0 /\ entryPhase' \in {"none", "removed"} /\ core' = core /\ ~noise'
    BY <1>11 DEF UnloadEntry, Detach, Held
  <2>2. instances' = [instances EXCEPT ![n] = x]
    BY <1>11 DEF UnloadEntry, Current
  <2>3. Tame(x, n, n, entryPhase', core)
    BY <1>3, <2>1 DEF Tame, Fields, Listens, TakenDown, Quiet
  <2> HIDE DEF x
  <2>4. AllTame(instances', n, entryPhase', core)
    BY <1>1, <1>3, <2>1, <2>2, <2>3, Changed
  <2> QED
    BY <1>1, <1>2, <2>1, <2>4
<1>12. CASE GiveUp
  <2>1. /\ instances' = instances /\ core' = core /\ noise' = noise
        /\ entryPhase # "running" /\ entryPhase' = "removed"
    BY <1>12 DEF GiveUp
  <2>2. AllTame(instances, n, entryPhase', core)
    BY <1>1, <2>1, Unchanged
  <2> QED
    BY <2>1, <2>2
<1>13. CASE RemoveEntry
  BY <1>1, <1>13 DEF RemoveEntry
<1>14. CASE HassStops
  <2>1. /\ core' = "stopping" /\ entryPhase' = entryPhase /\ noise' = noise
    BY <1>14 DEF HassStops
  <2>2. CASE entryPhase = "running"
    <3> DEFINE x == [Quiet(instances[n]) EXCEPT !.stop = FALSE]
    <3>1. n # 0
      BY <2>2
    <3>2. instances' = [instances EXCEPT ![n] = x]
      BY <1>3, <1>14, <2>2, <3>1 DEF HassStops
    <3>3. Tame(x, n, n, entryPhase, "stopping")
      BY <1>3, <2>2, <3>1 DEF Tame, Fields, Quiet
    <3> HIDE DEF x
    <3>4. AllTame(instances', n, entryPhase, "stopping")
      BY <1>1, <1>3, <3>1, <3>2, <3>3, Changed
    <3> QED
      BY <1>1, <1>2, <2>1, <3>1, <3>4
  <2>3. CASE entryPhase # "running"
    <3>1. instances' = instances
      BY <1>14, <2>3 DEF HassStops
    <3>2. AllTame(instances, n, entryPhase, "stopping")
      BY <1>1, Unchanged
    <3> QED
      BY <2>1, <3>1, <3>2
  <2> QED
    BY <2>2, <2>3
<1>15. CASE UNCHANGED entryVars
  BY <1>1, <1>15 DEF entryVars
<1> QED
  BY <1>5, <1>6, <1>7, <1>8, <1>9, <1>10, <1>11, <1>12, <1>13, <1>14, <1>15 DEF EntryNext

\* Only the setup that runs listens, in memory of every setup that was made.
THEOREM EntryInvariant == EntrySpec => []EntryInv
BY InitEntry, NextEntry, PTL DEF EntrySpec

\* However setups fail, are retried, reloaded and removed around the start and the
\* stop of Home Assistant, no setup but the running one listens, no channel is
\* judged before the start is over, and no listener is removed that already fired
\* (async_setup_entry, async_unload_entry, async_schedule_channel_health_check).
THEOREM OneInstanceListensHolds == EntrySpec => []OneInstanceListens
<1>1. EntryInv => OneInstanceListens
  BY DEF EntryInv, AllTame, Tame, Listens, OneInstanceListens, Current
<1> QED
  BY <1>1, EntryInvariant, PTL

-----------------------------------------------------------------------------
(* The health cards.                                                       *)

\* The day last accepted has its label.
AcceptedRecorded ==
    \A s \in {store, disk} :
        s.lastAccepted # NoDay => s.lastAccepted \in s.recorded

HealthInv ==
    /\ TypeOK
    /\ AcceptedRecorded
    /\ StreakIsChronological
    /\ CardMatchesStreak

\* Latest is not older than either verdict it is taken from.
LEMMA LatestIsLatest ==
    ASSUME store \in Health
    PROVE  /\ Latest \in {store.lastDiscard, store.lastAccepted}
           /\ Latest >= store.lastDiscard
           /\ Latest >= store.lastAccepted
<1> DEFINE S == {store.lastDiscard, store.lastAccepted}
<1>1. store.lastDiscard \in Int /\ store.lastAccepted \in Int
  BY HealthAssumption DEF Health, Day, NoDay
<1>2. \E x \in S : \A y \in S : x >= y
  BY <1>1
<1>3. Max(S) \in S /\ \A y \in S : Max(S) >= y
  BY <1>2 DEF Max
<1> QED
  BY <1>3 DEF Latest

\* One more day counts one more.
LEMMA CountedAddsOne ==
    ASSUME NEW S \in SUBSET Day, NEW d \in Day, d \notin S
    PROVE  Cardinality(S \cup {d}) = Cardinality(S) + 1
<1>1. IsFiniteSet(Day)
  BY FS_Interval, HealthAssumption DEF Day
<1>2. IsFiniteSet(S)
  BY <1>1, FS_Subset
<1> QED
  BY <1>2, FS_AddElement

-----------------------------------------------------------------------------
\* A new store with nothing folded in satisfies the invariant.
LEMMA InitHealth == Init => HealthInv
<1> SUFFICES ASSUME Init PROVE HealthInv
  OBVIOUS
<1>1. store \in Health /\ disk \in Health
  BY DEF Init, Health, NoDay
<1>2. TypeOK
  <2>1. cards \in [presence : BOOLEAN, stalled : SUBSET Gates]
    BY DEF Init
  <2>2. 0 \in 0..MaxCrashes /\ 1 \in Day
    BY HealthAssumption DEF Day
  <2> QED
    BY <1>1, <2>1, <2>2 DEF Init, TypeOK
<1>3. StreakIsChronological
  BY FS_EmptySet DEF Init, StreakIsChronological, Chronological
<1>4. CardMatchesStreak
  BY HealthAssumption DEF Init, CardMatchesStreak
<1>5. AcceptedRecorded
  BY DEF Init, AcceptedRecorded
<1> QED
  BY <1>2, <1>3, <1>4, <1>5 DEF HealthInv

\* An accepted day ends the streak, unless a newer verdict is known.
LEMMA AcceptedStep ==
    ASSUME HealthInv, Accepted
    PROVE  HealthInv'
<1> USE DEF HealthInv
<1>1. PICK d \in pending \ store.recorded :
        /\ Visit(d)
        /\ IF d < Latest
           THEN /\ store' = [store EXCEPT !.recorded = @ \cup {d}]
                /\ UNCHANGED <<cards, lost>>
           ELSE /\ store' = [store EXCEPT
                                 !.recorded = @ \cup {d},
                                 !.streak = 0,
                                 !.reason = None,
                                 !.lastDiscard = NoDay,
                                 !.lastAccepted = d,
                                 !.counted = {}]
                /\ cards' = [cards EXCEPT !.stalled = {}]
                /\ lost' = FALSE
  BY DEF Accepted
<1>2. suppressed' = suppressed
  BY DEF Accepted
<1>3. d \in Day
  BY DEF TypeOK
<1>4. UNCHANGED <<today, phase, absent, summary, disk, crashes>>
      /\ pending' \subseteq pending
  BY <1>1 DEF Visit
<1>5. CASE d < Latest
  <2>1. store' = [store EXCEPT !.recorded = @ \cup {d}]
        /\ cards' = cards /\ lost' = lost
    BY <1>1, <1>5
  <2>2. store' \in Health
    BY <2>1, <1>3 DEF TypeOK, Health
  <2>3. TypeOK'
    BY <2>1, <2>2, <1>2, <1>4 DEF TypeOK
  <2>4. StreakIsChronological'
    BY <2>1, <1>4 DEF StreakIsChronological, Chronological, TypeOK, Health
  <2>5. CardMatchesStreak'
    BY <2>1, <1>2 DEF CardMatchesStreak, TypeOK, Health
  <2>6. AcceptedRecorded'
    BY <2>1, <1>4 DEF AcceptedRecorded, TypeOK, Health
  <2> QED
    BY <2>3, <2>4, <2>5, <2>6
<1>6. CASE ~(d < Latest)
  <2>1. /\ store' = [store EXCEPT !.recorded = @ \cup {d},
                                   !.streak = 0,
                                   !.reason = None,
                                   !.lastDiscard = NoDay,
                                   !.lastAccepted = d,
                                   !.counted = {}]
        /\ cards' = [cards EXCEPT !.stalled = {}]
        /\ lost' = FALSE
    BY <1>1, <1>6
  <2>2. store' \in Health /\ store'.streak = 0 /\ store'.counted = {}
    BY <2>1, <1>3 DEF TypeOK, Health
  <2>3. TypeOK'
    BY <2>1, <2>2, <1>2, <1>4 DEF TypeOK
  <2>4. StreakIsChronological'
    BY <2>2, <1>4, FS_EmptySet DEF StreakIsChronological, Chronological
  <2>5. cards'.stalled = {}
    BY <2>1 DEF TypeOK
  <2>6. CardMatchesStreak'
    BY <2>2, <2>5, HealthAssumption DEF CardMatchesStreak
  <2>7. AcceptedRecorded'
    <3>1. store'.lastAccepted = d /\ d \in store'.recorded
      BY <2>1 DEF TypeOK, Health
    <3> QED
      BY <3>1, <1>4 DEF AcceptedRecorded
  <2> QED
    BY <2>3, <2>4, <2>6, <2>7
<1> QED
  BY <1>5, <1>6

\* A discarded day that counts is newer than every day counted before.
LEMMA DiscardedStep ==
    ASSUME HealthInv,
           NEW reason \in Gates \cup {Implausible}, Discarded(reason)
    PROVE  HealthInv'
<1> USE DEF HealthInv
<1>1. PICK d \in pending \ store.recorded :
        /\ Visit(d)
        /\ IF Counts(d)
           THEN /\ store' = [store EXCEPT
                                 !.streak = @ + 1,
                                 !.reason = Coerced(reason),
                                 !.lastDiscard = d,
                                 !.counted = @ \cup {d}]
                /\ suppressed' = (summary = "missing")
                /\ IF store'.streak < Threshold
                   THEN UNCHANGED cards
                   ELSE cards' = [cards EXCEPT !.stalled = Stalled(reason)]
           ELSE UNCHANGED <<store, cards, suppressed>>
  BY DEF Discarded
<1>2. lost' = lost
  BY DEF Discarded
<1>3. d \in Day
  BY DEF TypeOK
<1>4. UNCHANGED <<today, phase, absent, summary, disk, crashes>>
      /\ pending' \subseteq pending
  BY <1>1 DEF Visit
<1>5. CASE ~Counts(d)
  <2>1. UNCHANGED <<store, cards, suppressed>>
    BY <1>1, <1>5
  <2> QED
    BY <2>1, <1>2, <1>4
       DEF TypeOK, AcceptedRecorded, StreakIsChronological, Chronological,
           CardMatchesStreak
<1>6. CASE Counts(d)
  <2>1. /\ store' = [store EXCEPT !.streak = @ + 1,
                                   !.reason = Coerced(reason),
                                   !.lastDiscard = d,
                                   !.counted = @ \cup {d}]
        /\ suppressed' = (summary = "missing")
        /\ store'.streak < Threshold => cards' = cards
        /\ ~(store'.streak < Threshold) =>
              cards' = [cards EXCEPT !.stalled = Stalled(reason)]
    BY <1>1, <1>6
  <2>2. Coerced(reason) \in Gates \cup {None}
    BY DEF Coerced
  <2>3. store' \in Health
    <3>1. store \in Health /\ store.streak + 1 \in Nat
          /\ store.counted \cup {d} \in SUBSET Day
      BY <1>3 DEF TypeOK, Health
    <3> QED
      BY <2>1, <2>2, <3>1, <1>3 DEF Health
  <2>4. /\ store'.streak = store.streak + 1
        /\ store'.reason = Coerced(reason)
        /\ store'.lastDiscard = d
        /\ store'.counted = store.counted \cup {d}
        /\ store'.issued = store.issued
        /\ store'.lastAccepted = store.lastAccepted
    BY <2>1 DEF TypeOK, Health
  <2>5. Stalled(reason) \subseteq Gates
    BY DEF Stalled, TypeOK
  <2>6. cards' \in [presence : BOOLEAN, stalled : SUBSET Gates]
    BY <2>1, <2>5 DEF TypeOK
  <2>7. TypeOK'
    BY <2>1, <2>3, <2>6, <1>2, <1>4 DEF TypeOK
  <2>8. Chronological(store)'
    <3>1. d >= Latest /\ d > store.lastDiscard /\ d \in store.issued
      BY <1>6 DEF Counts
    <3>2. d # store.lastAccepted
      BY <1>3 DEF AcceptedRecorded, Day, NoDay
    <3>3. d > store.lastAccepted
      <4>1. store \in Health
        BY DEF TypeOK
      <4>2. Latest >= store.lastAccepted /\ Latest \in {store.lastDiscard, store.lastAccepted}
        BY <4>1, LatestIsLatest
      <4>3. store.lastAccepted \in Nat /\ Latest \in Nat /\ d \in Nat
        BY <4>1, <4>2, <1>3, HealthAssumption DEF Health, Day, NoDay
      <4> QED
        BY <3>1, <3>2, <4>2, <4>3
    <3>4. \A c \in store.counted :
            store.lastAccepted < c /\ c <= store.lastDiscard /\ c \in Day
      BY DEF StreakIsChronological, Chronological, TypeOK, Health
    <3>5. \A c \in store'.counted :
            store'.lastAccepted < c /\ c <= store'.lastDiscard
      BY <2>4, <3>1, <3>3, <3>4, <1>3 DEF TypeOK, Health, Day, NoDay
    <3>6. d \notin store.counted /\ store.counted \in SUBSET Day
      BY <3>1, <3>4, <1>3 DEF TypeOK, Health, Day, NoDay
    <3>7. store'.streak = Cardinality(store'.counted)
      BY <2>4, <3>6, <1>3, CountedAddsOne
         DEF StreakIsChronological, Chronological
    <3>8. store'.counted \subseteq store'.issued
      BY <2>4, <3>1 DEF StreakIsChronological, Chronological
    <3> QED
      BY <3>5, <3>7, <3>8 DEF Chronological
  <2>9. StreakIsChronological'
    BY <2>8, <1>4 DEF StreakIsChronological, Chronological
  <2>10. CardMatchesStreak'
    <3> SUFFICES ASSUME ~lost' PROVE CardMatchesStreak!2'
      BY DEF CardMatchesStreak
    <3>1. /\ cards.stalled # {} => store.streak >= Threshold
          /\ store.streak \in Nat /\ Threshold \in Nat
      BY <1>2, HealthAssumption DEF CardMatchesStreak, TypeOK, Health
    <3>2. CASE store'.streak < Threshold
      BY <3>1, <3>2, <2>1, <2>4
    <3>3. CASE ~(store'.streak < Threshold)
      <4>1. cards'.stalled = Stalled(reason)
        BY <3>3, <2>1 DEF TypeOK
      <4>2. store'.reason # None => reason \in Gates /\ store'.reason = reason
        BY <2>4 DEF Coerced
      <4>3. CASE summary = "missing"
        BY <4>1, <4>3, <2>1 DEF Stalled
      <4>4. CASE summary # "missing" /\ reason \in Gates
        <5>1. cards'.stalled = {reason}
          BY <4>1, <4>4 DEF Stalled
        <5> QED
          BY <5>1, <4>2, <3>1, <3>3, <2>4
      <4>5. CASE summary # "missing" /\ reason \notin Gates
        <5>1. store'.reason = None
          BY <4>5, <2>4 DEF Coerced
        <5> QED
          BY <5>1, <3>1, <3>3, <2>4
      <4> QED
        BY <4>3, <4>4, <4>5
    <3> QED
      BY <3>2, <3>3
  <2>11. AcceptedRecorded'
    BY <2>1, <1>4 DEF AcceptedRecorded, TypeOK, Health
  <2> QED
    BY <2>7, <2>9, <2>10, <2>11
<1> QED
  BY <1>5, <1>6

\* The check of the channels and the environment leave streak and labels alone.
LEMMA OtherStep ==
    ASSUME HealthInv,
           \/ StartSweep \/ NoVerdict \/ Stop \/ Crash \/ Boot \/ Started
           \/ Reload \/ Save \/ ChannelsChange \/ Midnight \/ UNCHANGED vars
    PROVE  HealthInv'
<1> USE DEF HealthInv
<1>1. CASE StartSweep
  <2>1. PICK issued \in {store.issued, store.issued \cup {today}} :
          store' = [store EXCEPT !.issued = issued]
    BY <1>1 DEF StartSweep
  <2>2. store' \in Health /\ store.issued \subseteq store'.issued
    BY <2>1 DEF TypeOK, Health
  <2>3. TypeOK'
    BY <1>1, <2>2 DEF StartSweep, TypeOK
  <2>4. StreakIsChronological'
    BY <1>1, <2>1, <2>2
       DEF StartSweep, StreakIsChronological, Chronological, TypeOK, Health
  <2>5. AcceptedRecorded' /\ CardMatchesStreak'
    BY <1>1, <2>1
       DEF StartSweep, AcceptedRecorded, CardMatchesStreak, TypeOK, Health
  <2> QED
    BY <2>3, <2>4, <2>5
<1>2. CASE NoVerdict
  <2>1. UNCHANGED <<today, phase, absent, summary, disk, crashes>>
        /\ pending' \subseteq pending
        /\ UNCHANGED <<store, cards, suppressed, lost>>
    BY <1>2 DEF NoVerdict, Visit
  <2> QED
    BY <2>1 DEF TypeOK, AcceptedRecorded, StreakIsChronological, Chronological,
                CardMatchesStreak
<1>3. CASE Stop \/ Boot
  BY <1>3 DEF Stop, Down, Boot, TypeOK, AcceptedRecorded, StreakIsChronological,
              Chronological, CardMatchesStreak
<1>4. CASE Crash
  <2>1. /\ crashes' = crashes + 1 /\ crashes < MaxCrashes
        /\ phase' = "down" /\ summary' = "unknown" /\ pending' = {}
        /\ UNCHANGED <<today, absent, cards, suppressed, disk>>
        /\ store' = disk /\ lost' = TRUE
    BY <1>4 DEF Crash, Down
  <2>2. crashes' \in 0..MaxCrashes
    BY <2>1, HealthAssumption DEF TypeOK
  <2>3. TypeOK'
    BY <2>1, <2>2 DEF TypeOK
  <2>4. StreakIsChronological' /\ AcceptedRecorded' /\ CardMatchesStreak'
    BY <2>1 DEF StreakIsChronological, Chronological, AcceptedRecorded,
                CardMatchesStreak
  <2> QED
    BY <2>3, <2>4
<1>5. CASE Started \/ Reload
  BY <1>5 DEF Started, Reload, CheckActualChannels, TypeOK, AcceptedRecorded,
              StreakIsChronological, Chronological, CardMatchesStreak
<1>6. CASE Save
  BY <1>6 DEF Save, TypeOK, AcceptedRecorded, StreakIsChronological,
              Chronological, CardMatchesStreak
<1>7. CASE ChannelsChange \/ UNCHANGED vars
  BY <1>7 DEF ChannelsChange, vars, TypeOK, AcceptedRecorded,
              StreakIsChronological, Chronological, CardMatchesStreak
<1>8. CASE Midnight
  BY <1>8, HealthAssumption
     DEF Midnight, Day, TypeOK, AcceptedRecorded, StreakIsChronological,
         Chronological, CardMatchesStreak
<1> QED
  BY <1>1, <1>2, <1>3, <1>4, <1>5, <1>6, <1>7, <1>8

-----------------------------------------------------------------------------
\* The invariant holds in every state of every behaviour.
THEOREM HealthInvariant == Spec => []HealthInv
<1>1. HealthInv /\ [Next]_vars => HealthInv'
  BY AcceptedStep, DiscardedStep, OtherStep DEF Next
<1> QED
  BY InitHealth, <1>1, PTL DEF Spec

\* Every variable keeps its type.
THEOREM HealthTypeCorrect == Spec => []TypeOK
BY HealthInvariant, PTL DEF HealthInv

\* The discard streak is a number of distinct days of ours, all newer than the
\* last accepted one, in memory and in the file.
THEOREM StreakIsChronologicalHolds == Spec => []StreakIsChronological
BY HealthInvariant, PTL DEF HealthInv

\* Unless a crash parts the two files, the stalled card that stands is the one
\* its streak has earned.
THEOREM CardMatchesStreakHolds == Spec => []CardMatchesStreak
BY HealthInvariant, PTL DEF HealthInv

-----------------------------------------------------------------------------
(* The file.                                                                *)

\* None and a value of a wrong kind are no dictionaries, lists or records.
NoValuesAssumed == ~IsDictionary(Null) /\ ~IsDictionary(Bad)

LEMMA DictionaryIsPresent ==
    ASSUME NoValuesAssumed, NEW f, IsDictionary(f)
    PROVE  Present(f) /\ f # Bad
  BY DEF NoValuesAssumed, Present

-----------------------------------------------------------------------------
(* Scalars.                                                                 *)

LEMMA ClampIs ==
    ASSUME NEW v
    PROVE  Present(Clamp(v)) /\ Clamp(Clamp(v)) = Clamp(v)
<1>1. Lo \in Int /\ Hi \in Int /\ Lo <= Hi /\ Present(Lo) /\ Present(Hi)
  BY StoreAssumption, NullAssumption DEF Present
<1>2. CASE ~Present(v)
  BY <1>1, <1>2 DEF Clamp, Between
<1>3. CASE Present(v)
  <2>1. CASE v < Lo
    BY <1>1, <1>3, <2>1 DEF Clamp, Between
  <2>2. CASE ~(v < Lo) /\ v > Hi
    BY <1>1, <1>3, <2>2 DEF Clamp, Between
  <2>3. CASE ~(v < Lo) /\ ~(v > Hi)
    BY <1>1, <1>3, <2>3 DEF Clamp, Between
  <2> QED
    BY <2>1, <2>2, <2>3
<1> QED
  BY <1>2, <1>3

LEMMA CountIs ==
    ASSUME NEW v
    PROVE  Present(CountOf(v)) /\ CountOf(CountOf(v)) = CountOf(v)
<1>1. Present(0) /\ ~(0 < 0)
  BY NullAssumption DEF Present
<1> QED
  BY <1>1 DEF CountOf

\* A factor of the band is one that from_dict leaves.
LEMMA InBand ==
    ASSUME NEW v \in Int, Lo <= v, v <= Hi
    PROVE  Clamp(v) = v
  BY StoreAssumption, NullAssumption DEF Clamp, Between, Present

LEMMA CellAgain ==
    ASSUME NoValuesAssumed, NEW c, NEW d \in Int, Lo <= d, d <= Hi, NEW e
    PROVE  /\ Present(CellOf(c, d))
           /\ CellOf(CellOf(c, d), e) = CellOf(c, d)
<1> DEFINE r == CellOf(c, d)
<1>1. CountOf(0) = 0
  BY NullAssumption DEF CountOf, Present
<1>2. /\ r = [factor |-> r.factor, n |-> r.n]
      /\ Clamp(r.factor) = r.factor /\ CountOf(r.n) = r.n
  <2>1. CASE ~Present(c)
    BY <1>1, <2>1, InBand DEF CellOf
  <2>2. CASE Present(c)
    BY <2>2, ClampIs, CountIs DEF CellOf
  <2> QED
    BY <2>1, <2>2
<1>3. Present(r)
  <2>1. IsDictionary([factor |-> r.factor, n |-> r.n])
    BY DEF IsDictionary
  <2> HIDE DEF r
  <2> QED
    BY <1>2, <2>1, DictionaryIsPresent
<1> HIDE DEF r
<1>4. CellOf(r, e) = r
  BY <1>2, <1>3 DEF CellOf
<1> QED
  BY <1>3, <1>4 DEF r

-----------------------------------------------------------------------------
(* Rings and marks.                                                         *)

LEMMA NewestAgain ==
    ASSUME NEW S, IsFiniteSet(S), NEW n \in Nat
    PROVE  /\ Newest(S, n) \subseteq S
           /\ Newest(Newest(S, n), n) = Newest(S, n)
<1> DEFINE T == Newest(S, n)
<1>1. T \subseteq S
  BY DEF Newest
<1>2. ASSUME NEW d \in T PROVE Cardinality({e \in T : e > d}) < n
  <2> DEFINE A == {e \in S : e > d}
             B == {e \in T : e > d}
  <2>1. IsFiniteSet(A)
    <3>1. A \subseteq S
      OBVIOUS
    <3> QED
      BY <3>1, FS_Subset
  <2>2. B \subseteq A
    BY <1>1
  <2>3. Cardinality(A) < n
    BY DEF Newest
  <2> HIDE DEF A, B, T
  <2>4. Cardinality(B) <= Cardinality(A) /\ Cardinality(A) \in Nat /\ Cardinality(B) \in Nat
    BY <2>1, <2>2, FS_Subset, FS_CardinalityType
  <2>5. Cardinality(B) < n
    BY <2>3, <2>4
  <2> QED
    BY <2>5 DEF B
<1>3. Newest(T, n) = T
  <2> HIDE DEF T
  <2> QED
    BY <1>2 DEF Newest
<1> QED
  BY <1>1, <1>3

\* A ring that is trimmed stays as it is.
LEMMA TrimmedAgain ==
    ASSUME NEW ring, IsDictionary(ring), IsFiniteSet(DOMAIN ring), NEW n \in Nat
    PROVE  LET cut == Trimmed(ring, n)
           IN /\ IsDictionary(cut) /\ DOMAIN cut \subseteq DOMAIN ring
              /\ \A k \in DOMAIN cut : cut[k] = ring[k]
              /\ Trimmed(cut, n) = cut
<1> DEFINE cut == Trimmed(ring, n)
           T == Newest(DOMAIN ring, n)
<1>1. T \subseteq DOMAIN ring /\ Newest(T, n) = T
  BY NewestAgain
<1> HIDE DEF T
<1>2. cut = [k \in T |-> ring[k]]
  BY <1>1 DEF Trimmed, Where, T
<1>3. DOMAIN cut = T
  BY <1>2
<1> HIDE DEF cut
<1>4. Trimmed(cut, n) = [k \in T |-> cut[k]]
  BY <1>1, <1>3 DEF Trimmed, Where
<1>5. Trimmed(cut, n) = cut
  BY <1>2, <1>4
<1> QED
  BY <1>1, <1>2, <1>3, <1>5 DEF IsDictionary, cut

LEMMA EmptyIsDictionary == IsDictionary(<<>>) /\ DOMAIN <<>> = {}
  BY DEF IsDictionary

\* What is left of a dictionary of rows has dates for keys and rows for values.
LEMMA RowsAre ==
    ASSUME NoValuesAssumed, NEW raw, NEW keys,
           Present(raw) => DOMAIN raw \subseteq keys \cup {BadKey}
    PROVE  LET rows == RowsOf(raw)
           IN /\ IsDictionary(rows) /\ DOMAIN rows \subseteq keys
              /\ \A k \in DOMAIN rows : k # BadKey /\ rows[k] # Bad
<1>1. CASE ~Present(raw)
  BY <1>1, EmptyIsDictionary DEF RowsOf
<1>2. CASE Present(raw)
  BY <1>2 DEF RowsOf, Where, IsDictionary
<1> QED
  BY <1>1, <1>2

LEMMA RowsStay ==
    ASSUME NoValuesAssumed, NEW rows, IsDictionary(rows),
           \A k \in DOMAIN rows : k # BadKey /\ rows[k] # Bad
    PROVE  RowsOf(rows) = rows
  BY DictionaryIsPresent DEF RowsOf, Where, IsDictionary

LEMMA RingAgain ==
    ASSUME NoValuesAssumed, NEW raw, NEW n \in Nat,
           Present(raw) => DOMAIN raw \subseteq Dates \cup {BadKey}
    PROVE  LET ring == RingOf(raw, n)
           IN /\ IsDictionary(ring) /\ DOMAIN ring \subseteq Dates
              /\ RingOf(ring, n) = ring
<1> DEFINE rows == RowsOf(raw)
           ring == Trimmed(rows, n)
<1>1. /\ IsDictionary(rows) /\ DOMAIN rows \subseteq Dates
      /\ \A k \in DOMAIN rows : k # BadKey /\ rows[k] # Bad
  BY RowsAre
<1> HIDE DEF rows
<1>2. IsFiniteSet(DOMAIN rows)
  BY <1>1, StoreAssumption, FS_Subset
<1>3. /\ IsDictionary(ring) /\ DOMAIN ring \subseteq DOMAIN rows
      /\ \A k \in DOMAIN ring : ring[k] = rows[k]
      /\ Trimmed(ring, n) = ring
  BY <1>1, <1>2, TrimmedAgain
<1> HIDE DEF ring
<1>4. RowsOf(ring) = ring
  BY <1>1, <1>3, RowsStay
<1>5. RingOf(raw, n) = ring
  BY DEF RingOf, ring, rows
<1>6. RingOf(ring, n) = ring
  BY <1>3, <1>4 DEF RingOf
<1> QED
  BY <1>1, <1>3, <1>5, <1>6

\* A recorder's ring is one that is read back as it is.
LEMMA RecordedRing ==
    ASSUME NoValuesAssumed, NEW days, days \subseteq Dates, NEW n \in Nat
    PROVE  LET ring == Trimmed(Dated(days, "row"), n)
           IN /\ IsDictionary(ring) /\ DOMAIN ring \subseteq Dates
              /\ RingOf(ring, n) = ring
<1> DEFINE rows == Dated(days, "row")
           ring == Trimmed(rows, n)
<1>1. /\ IsDictionary(rows) /\ DOMAIN rows = days
      /\ \A k \in DOMAIN rows : k # BadKey /\ rows[k] # Bad
  BY StoreAssumption, NoValueAssumption DEF Dated, IsDictionary
<1> HIDE DEF rows
<1>2. IsFiniteSet(DOMAIN rows)
  BY <1>1, StoreAssumption, FS_Subset
<1>3. /\ IsDictionary(ring) /\ DOMAIN ring \subseteq DOMAIN rows
      /\ \A k \in DOMAIN ring : ring[k] = rows[k]
      /\ Trimmed(ring, n) = ring
  BY <1>1, <1>2, TrimmedAgain
<1> HIDE DEF ring
<1>4. RowsOf(ring) = ring
  BY <1>1, <1>3, RowsStay
<1>5. RingOf(ring, n) = ring
  BY <1>3, <1>4 DEF RingOf
<1> QED
  BY <1>1, <1>3, <1>5 DEF ring, rows

\* The hourly ring is read back if every day has rows and only sound ones.
LEMMA HourlyStays ==
    ASSUME NoValuesAssumed, NEW ring, IsDictionary(ring), Trimmed(ring, HourlyDays) = ring,
           \A k \in DOMAIN ring : /\ k # BadKey /\ ring[k] # Bad
                                  /\ ring[k] \ {Bad} = ring[k] /\ ring[k] # {}
    PROVE  HourlyRing(ring) = ring
<1> DEFINE remain == Where(ring, LAMBDA k : /\ k # BadKey /\ ring[k] # Bad
                                          /\ ring[k] \ {Bad} # {})
<1>1. remain = [k \in DOMAIN ring |-> ring[k]]
  BY DEF Where
<1>2. remain = ring
  BY <1>1 DEF IsDictionary
<1> HIDE DEF remain
<1>3. [k \in DOMAIN remain |-> remain[k] \ {Bad}] = [k \in DOMAIN ring |-> ring[k]]
  BY <1>2
<1>4. [k \in DOMAIN remain |-> remain[k] \ {Bad}] = ring
  BY <1>3 DEF IsDictionary
<1>5. HourlyRing(ring) = Trimmed([k \in DOMAIN remain |-> remain[k] \ {Bad}], HourlyDays)
  BY DictionaryIsPresent DEF HourlyRing, remain
<1> QED
  BY <1>4, <1>5

LEMMA HourlyAgain ==
    ASSUME NoValuesAssumed, NEW raw, DatesAreDates("hourly", raw)
    PROVE  LET ring == HourlyRing(raw)
           IN /\ IsDictionary(ring) /\ DOMAIN ring \subseteq Dates
              /\ HourlyRing(ring) = ring
<1>1. CASE ~Present(raw)
  <2>1. HourlyRing(raw) = <<>>
    BY <1>1 DEF HourlyRing
  <2>2. Trimmed(<<>>, HourlyDays) = <<>>
    BY DEF Trimmed, Where
  <2>3. HourlyRing(<<>>) = <<>>
    BY <2>2, EmptyIsDictionary, HourlyStays
  <2> QED
    BY <2>1, <2>3, EmptyIsDictionary
<1>2. CASE Present(raw)
  <2> DEFINE remain == Where(raw, LAMBDA k : /\ k # BadKey /\ raw[k] # Bad
                                           /\ raw[k] \ {Bad} # {})
             rows == [k \in DOMAIN remain |-> remain[k] \ {Bad}]
             ring == Trimmed(rows, HourlyDays)
  <2>1. /\ DOMAIN raw \subseteq Dates \cup {BadKey}
        /\ \A k \in DOMAIN raw : raw[k] # Bad => raw[k] \ {Bad} # Bad
    BY <1>2 DEF DatesAreDates
  <2>2. /\ DOMAIN remain \subseteq Dates
        /\ \A k \in DOMAIN remain : /\ k # BadKey /\ raw[k] \ {Bad} # Bad
                                  /\ raw[k] \ {Bad} # {} /\ remain[k] = raw[k]
    BY <2>1 DEF Where
  <2> HIDE DEF remain
  <2>3. /\ IsDictionary(rows) /\ DOMAIN rows \subseteq Dates
        /\ \A k \in DOMAIN rows : /\ k # BadKey /\ rows[k] # Bad
                                  /\ rows[k] \ {Bad} = rows[k] /\ rows[k] # {}
    BY <2>2 DEF IsDictionary
  <2> HIDE DEF rows
  <2>4. IsFiniteSet(DOMAIN rows) /\ HourlyDays \in Nat
    BY <2>3, StoreAssumption, FS_Subset
  <2>5. /\ IsDictionary(ring) /\ DOMAIN ring \subseteq DOMAIN rows
        /\ \A k \in DOMAIN ring : ring[k] = rows[k]
        /\ Trimmed(ring, HourlyDays) = ring
    BY <2>3, <2>4, TrimmedAgain
  <2>6. HourlyRing(raw) = ring
    BY <1>2 DEF HourlyRing, ring, rows, remain
  <2> HIDE DEF ring
  <2>7. HourlyRing(ring) = ring
    BY <2>3, <2>5, HourlyStays
  <2> QED
    BY <2>3, <2>5, <2>6, <2>7
<1> QED
  BY <1>1, <1>2

LEMMA RecordedHourly ==
    ASSUME NoValuesAssumed, NEW days, days \subseteq Dates
    PROVE  LET ring == Trimmed(Dated(days, {"row"}), HourlyDays)
           IN /\ IsDictionary(ring) /\ DOMAIN ring \subseteq Dates
              /\ HourlyRing(ring) = ring
<1> DEFINE rows == Dated(days, {"row"})
           ring == Trimmed(rows, HourlyDays)
<1>1. /\ IsDictionary(rows) /\ DOMAIN rows = days
      /\ \A k \in DOMAIN rows : /\ k # BadKey /\ rows[k] # Bad
                                /\ rows[k] \ {Bad} = rows[k] /\ rows[k] # {}
  BY StoreAssumption, NoValueAssumption DEF Dated, IsDictionary
<1> HIDE DEF rows
<1>2. IsFiniteSet(DOMAIN rows) /\ HourlyDays \in Nat
  BY <1>1, StoreAssumption, FS_Subset
<1>3. /\ IsDictionary(ring) /\ DOMAIN ring \subseteq DOMAIN rows
      /\ \A k \in DOMAIN ring : ring[k] = rows[k]
      /\ Trimmed(ring, HourlyDays) = ring
  BY <1>1, <1>2, TrimmedAgain
<1> HIDE DEF ring
<1>4. HourlyRing(ring) = ring
  BY <1>1, <1>3, HourlyStays
<1> QED
  BY <1>1, <1>3, <1>4 DEF ring, rows

\* Marks that are read back are the newest of dates, and stay.
LEMMA MarksAgain ==
    ASSUME NEW days, days \subseteq Dates
    PROVE  /\ Newest(days, MarkDays) \subseteq Dates
           /\ Marks(Newest(days, MarkDays)) = Newest(days, MarkDays)
<1> DEFINE T == Newest(days, MarkDays)
<1>1. IsFiniteSet(days) /\ MarkDays \in Nat
  BY StoreAssumption, FS_Subset
<1>2. T \subseteq Dates /\ Newest(T, MarkDays) = T
  BY <1>1, NewestAgain
<1> HIDE DEF T
<1>3. Present(T) /\ T \ {BadKey} = T
  BY <1>2, StoreAssumption, NoValueAssumption
<1>4. Marks(T) = T
  BY <1>2, <1>3 DEF Marks
<1> QED
  BY <1>2, <1>4 DEF T

LEMMA MarksRead ==
    ASSUME NEW raw, Present(raw) => raw \subseteq Dates \cup {BadKey}
    PROVE  Marks(raw) \subseteq Dates /\ Marks(Marks(raw)) = Marks(raw)
<1>1. CASE ~Present(raw)
  <2>1. Marks(raw) = {}
    BY <1>1 DEF Marks
  <2>2. Newest({}, MarkDays) = {}
    BY DEF Newest
  <2>3. Marks({}) = {}
    BY <2>2, MarksAgain
  <2> QED
    BY <2>1, <2>3
<1>2. CASE Present(raw)
  <2>1. raw \ {BadKey} \subseteq Dates
    BY <1>2
  <2>2. Marks(raw) = Newest(raw \ {BadKey}, MarkDays)
    BY <1>2 DEF Marks
  <2> QED
    BY <2>1, <2>2, MarksAgain
<1> QED
  BY <1>1, <1>2

-----------------------------------------------------------------------------
(* The learner sections.                                                    *)

\* A section of cells is clean if every cell is what from_dict makes of it.
IsCellSection(v) ==
    /\ v = [version |-> 1, cells |-> v.cells]
    /\ IsDictionary(v.cells)
    /\ \A k \in DOMAIN v.cells : k # BadKey /\ CellOf(v.cells[k], Neutral) = v.cells[k]

LEMMA CellsStay ==
    ASSUME NoValuesAssumed, NEW v, IsCellSection(v)
    PROVE  Cells(v) = v
<1>1. Present(v)
  <2>1. IsDictionary([version |-> 1, cells |-> v.cells])
    BY DEF IsDictionary
  <2> QED
    BY <2>1, DictionaryIsPresent DEF IsCellSection
<1>2. Understood(v) /\ v.cells # Bad
  <2>1. v.cells # Bad
    BY DictionaryIsPresent DEF IsCellSection
  <2>2. v.version = 1
    BY DEF IsCellSection
  <2> QED
    BY <2>1, <2>2 DEF Understood
<1> DEFINE remain == Where(v.cells, LAMBDA k : k # BadKey)
<1>3. remain = v.cells
  <2>1. remain = [k \in DOMAIN v.cells |-> v.cells[k]]
    BY DEF Where, IsCellSection
  <2> QED
    BY <2>1 DEF IsCellSection, IsDictionary
<1> HIDE DEF remain
<1>4. [k \in DOMAIN remain |-> CellOf(remain[k], Neutral)] = v.cells
  <2>1. [k \in DOMAIN remain |-> CellOf(remain[k], Neutral)] = [k \in DOMAIN v.cells |-> v.cells[k]]
    BY <1>3 DEF IsCellSection
  <2> QED
    BY <2>1 DEF IsCellSection, IsDictionary
<1>5. Cells(v) = [version |-> 1, cells |-> [k \in DOMAIN remain |-> CellOf(remain[k], Neutral)]]
  BY <1>1, <1>2 DEF Cells, remain
<1> QED
  BY <1>4, <1>5 DEF IsCellSection

LEMMA CellsAgain ==
    ASSUME NoValuesAssumed, NEW raw
    PROVE  Cells(Cells(raw)) = Cells(raw)
<1> DEFINE v == Cells(raw)
<1>1. CASE ~Present(raw) \/ ~Understood(raw) \/ raw.cells = Bad
  <2>1. v = [version |-> 1, cells |-> <<>>]
    BY <1>1 DEF Cells
  <2>2. v = [version |-> 1, cells |-> v.cells] /\ v.cells = <<>>
    BY <2>1
  <2> HIDE DEF v
  <2>3. IsCellSection(v)
    BY <2>2, EmptyIsDictionary DEF IsCellSection
  <2> QED
    BY <2>3, CellsStay DEF v
<1>2. CASE ~(~Present(raw) \/ ~Understood(raw) \/ raw.cells = Bad)
  <2> DEFINE remain == Where(raw.cells, LAMBDA k : k # BadKey)
             cells == [k \in DOMAIN remain |-> CellOf(remain[k], Neutral)]
  <2>1. v = [version |-> 1, cells |-> cells]
    BY <1>2 DEF Cells
  <2>2. \A k \in DOMAIN remain : k # BadKey
    BY DEF Where
  <2> HIDE DEF remain
  <2>3. ASSUME NEW k \in DOMAIN remain
        PROVE  CellOf(CellOf(remain[k], Neutral), Neutral) = CellOf(remain[k], Neutral)
    BY CellAgain, StoreAssumption
  <2>4. /\ IsDictionary(cells)
        /\ \A k \in DOMAIN cells : k # BadKey /\ CellOf(cells[k], Neutral) = cells[k]
    BY <2>2, <2>3 DEF IsDictionary
  <2> HIDE DEF cells, v
  <2>5. v.cells = cells
    BY <2>1
  <2>6. IsCellSection(v)
    BY <2>1, <2>4, <2>5 DEF IsCellSection
  <2> QED
    BY <2>6, CellsStay DEF v
<1> QED
  BY <1>1, <1>2

IsChannelSection(v) ==
    /\ v = [version |-> 1, cells |-> v.cells]
    /\ IsDictionary(v.cells)
    /\ \A k \in DOMAIN v.cells :
          /\ k # BadKey /\ IsDictionary(v.cells[k])
          /\ \A b \in DOMAIN v.cells[k] : CellOf(v.cells[k][b], Hi) = v.cells[k][b]

LEMMA ChannelsStay ==
    ASSUME NoValuesAssumed, NEW v, IsChannelSection(v)
    PROVE  Channels(v) = v
<1>1. Present(v)
  <2>1. IsDictionary([version |-> 1, cells |-> v.cells])
    BY DEF IsDictionary
  <2> QED
    BY <2>1, DictionaryIsPresent DEF IsChannelSection
<1>2. Understood(v) /\ v.cells # Bad
  <2>1. v.cells # Bad
    BY DictionaryIsPresent DEF IsChannelSection
  <2>2. v.version = 1
    BY DEF IsChannelSection
  <2> QED
    BY <2>1, <2>2 DEF Understood
<1> DEFINE remain == Where(v.cells, LAMBDA k : k # BadKey /\ v.cells[k] # Bad)
<1>3. remain = v.cells
  <2>1. \A k \in DOMAIN v.cells : k # BadKey /\ v.cells[k] # Bad
    BY DictionaryIsPresent DEF IsChannelSection
  <2>2. remain = [k \in DOMAIN v.cells |-> v.cells[k]]
    BY <2>1 DEF Where
  <2> QED
    BY <2>2 DEF IsChannelSection, IsDictionary
<1> HIDE DEF remain
<1> DEFINE Bins(k) == [b \in DOMAIN remain[k] |-> CellOf(remain[k][b], Hi)]
<1>4. ASSUME NEW k \in DOMAIN v.cells PROVE Bins(k) = v.cells[k]
  <2>1. Bins(k) = [b \in DOMAIN v.cells[k] |-> v.cells[k][b]]
    BY <1>3 DEF IsChannelSection
  <2> QED
    BY <2>1 DEF IsChannelSection, IsDictionary
<1>5. Channels(v) = [version |-> 1, cells |-> [k \in DOMAIN remain |-> Bins(k)]]
  BY <1>1, <1>2 DEF Channels, remain
<1> HIDE DEF Bins
<1>6. [k \in DOMAIN remain |-> Bins(k)] = v.cells
  <2>1. [k \in DOMAIN remain |-> Bins(k)] = [k \in DOMAIN v.cells |-> v.cells[k]]
    BY <1>3, <1>4
  <2> QED
    BY <2>1 DEF IsChannelSection, IsDictionary
<1> QED
  BY <1>5, <1>6 DEF IsChannelSection

LEMMA ChannelsAre ==
    ASSUME NoValuesAssumed, NEW raw
    PROVE  IsChannelSection(Channels(raw))
<1> DEFINE v == Channels(raw)
<1>1. CASE ~Present(raw) \/ ~Understood(raw) \/ raw.cells = Bad
  <2>1. v = [version |-> 1, cells |-> <<>>]
    BY <1>1 DEF Channels
  <2>2. v = [version |-> 1, cells |-> v.cells] /\ v.cells = <<>>
    BY <2>1
  <2> HIDE DEF v
  <2>3. IsChannelSection(v)
    BY <2>2, EmptyIsDictionary DEF IsChannelSection
  <2> QED
    BY <2>3 DEF v
<1>2. CASE ~(~Present(raw) \/ ~Understood(raw) \/ raw.cells = Bad)
  <2> DEFINE remain == Where(raw.cells, LAMBDA k : k # BadKey /\ raw.cells[k] # Bad)
             Bins(k) == [b \in DOMAIN remain[k] |-> CellOf(remain[k][b], Hi)]
             cells == [k \in DOMAIN remain |-> Bins(k)]
  <2>1. v = [version |-> 1, cells |-> cells]
    BY <1>2 DEF Channels
  <2>2. \A k \in DOMAIN remain : k # BadKey
    BY DEF Where
  <2> HIDE DEF remain
  <2>3. ASSUME NEW k \in DOMAIN remain
        PROVE  /\ IsDictionary(Bins(k))
               /\ \A b \in DOMAIN Bins(k) : CellOf(Bins(k)[b], Hi) = Bins(k)[b]
    <3>1. ASSUME NEW b \in DOMAIN remain[k]
          PROVE  CellOf(CellOf(remain[k][b], Hi), Hi) = CellOf(remain[k][b], Hi)
      BY CellAgain, StoreAssumption
    <3> QED
      BY <3>1 DEF IsDictionary
  <2> HIDE DEF Bins
  <2>4. /\ IsDictionary(cells)
        /\ \A k \in DOMAIN cells :
              /\ k # BadKey /\ IsDictionary(cells[k])
              /\ \A b \in DOMAIN cells[k] : CellOf(cells[k][b], Hi) = cells[k][b]
    BY <2>2, <2>3 DEF IsDictionary
  <2> HIDE DEF cells, v
  <2>5. v.cells = cells
    BY <2>1
  <2>6. IsChannelSection(v)
    BY <2>1, <2>4, <2>5 DEF IsChannelSection
  <2> QED
    BY <2>6 DEF v
<1> QED
  BY <1>1, <1>2

\* A list of which every place is picked.
LEMMA PickedAll ==
    ASSUME NEW n \in Nat, NEW list, list = [i \in 1..n |-> list[i]]
    PROVE  Picked(list, 1..n) = list
<1>1. ASSUME NEW x \in 1..n PROVE Cardinality({y \in 1..n : y <= x}) = x
  <2>1. {y \in 1..n : y <= x} = 1..x
    OBVIOUS
  <2>2. x \in Int /\ 1 \in Int /\ ~(1 > x) /\ x - 1 + 1 = x
    OBVIOUS
  <2>3. Cardinality(1..x) = x
    BY ONLY <2>2, FS_Interval
  <2> QED
    BY ONLY <2>1, <2>3
<1>2. Cardinality(1..n) = n
  BY FS_Interval
<1> DEFINE Place(k) == CHOOSE x \in 1..n : Cardinality({y \in 1..n : y <= x}) = k
<1>3. ASSUME NEW k \in 1..n PROVE Place(k) = k
  <2>1. \A x \in 1..n : Cardinality({y \in 1..n : y <= x}) = k <=> x = k
    BY <1>1
  <2>2. Place(k) = CHOOSE x \in 1..n : x = k
    BY <2>1
  <2> QED
    BY <2>2
<1>4. Sorted(1..n) = [k \in 1..n |-> Place(k)]
  BY <1>2 DEF Sorted
<1> HIDE DEF Place
<1>5. ASSUME NEW k \in 1..n PROVE Sorted(1..n)[k] = k
  BY <1>3, <1>4
<1>6. Picked(list, 1..n) = [k \in 1..n |-> list[Sorted(1..n)[k]]]
  BY <1>2 DEF Picked
<1>7. Picked(list, 1..n) = [k \in 1..n |-> list[k]]
  BY <1>5, <1>6
<1> QED
  BY <1>7

\* An entry that was read is read back as it is.
LEMMA EntryAgain ==
    ASSUME NoValuesAssumed, NEW x
    PROVE  ErrorEntry(x) # Bad /\ ErrorEntry(ErrorEntry(x)) = ErrorEntry(x)
<1> DEFINE e == ErrorEntry(x)
<1>1. e = [date |-> e.date, err |-> e.err] /\ e.date # Bad /\ Clamp(e.err) = e.err
  BY NoValueAssumption, ClampIs DEF ErrorEntry
<1>2. IsDictionary([date |-> e.date, err |-> e.err])
  BY DEF IsDictionary
<1> HIDE DEF e
<1>3. e # Bad
  BY <1>1, <1>2, DictionaryIsPresent
<1>4. ErrorEntry(e) = e
  BY <1>1 DEF ErrorEntry
<1> QED
  BY <1>3, <1>4 DEF e

IsErrorList(list) ==
    \E n \in Nat \ {0} :
        /\ list = [i \in 1..n |-> list[i]]
        /\ \A i \in 1..n : list[i] # Bad /\ ErrorEntry(list[i]) = list[i]

IsQuantileSection(v) ==
    /\ v = [bins |-> v.bins]
    /\ IsDictionary(v.bins)
    /\ \A b \in DOMAIN v.bins : b # BadKey /\ IsErrorList(v.bins[b])

LEMMA ErrorListStays ==
    ASSUME NoValuesAssumed, NEW list, IsErrorList(list)
    PROVE  LET sound == {i \in DOMAIN list : list[i] # Bad}
               picked == Picked(list, sound)
           IN /\ list # Bad /\ sound # {}
              /\ [i \in DOMAIN picked |-> ErrorEntry(picked[i])] = list
<1> DEFINE sound == {i \in DOMAIN list : list[i] # Bad}
           picked == Picked(list, sound)
<1>1. PICK n \in Nat \ {0} :
         /\ list = [i \in 1..n |-> list[i]]
         /\ \A i \in 1..n : list[i] # Bad /\ ErrorEntry(list[i]) = list[i]
  BY DEF IsErrorList
<1>2. DOMAIN list = 1..n
  BY <1>1
<1>3. sound = 1..n
  BY <1>1, <1>2
<1>4. sound # {}
  <2>1. 1 \in 1..n
    BY <1>1
  <2> QED
    BY <1>3, <2>1
<1>5. picked = list
  BY <1>1, <1>3, PickedAll
<1>6. list # Bad
  BY <1>1, <1>2, DictionaryIsPresent DEF IsDictionary
<1> HIDE DEF picked
<1>7. [i \in DOMAIN picked |-> ErrorEntry(picked[i])] = [i \in 1..n |-> list[i]]
  BY <1>1, <1>2, <1>5
<1>8. [i \in DOMAIN picked |-> ErrorEntry(picked[i])] = list
  BY <1>1, <1>7
<1> QED
  BY <1>4, <1>6, <1>8 DEF picked

LEMMA QuantilesStay ==
    ASSUME NoValuesAssumed, NEW v, IsQuantileSection(v)
    PROVE  Quantiles(v) = v
<1>1. Present(v)
  <2>1. IsDictionary([bins |-> v.bins])
    BY DEF IsDictionary
  <2> QED
    BY <2>1, DictionaryIsPresent DEF IsQuantileSection
<1>2. v.bins # Bad
  BY DictionaryIsPresent DEF IsQuantileSection
<1> DEFINE sound(b) == {i \in DOMAIN v.bins[b] : v.bins[b][i] # Bad}
           remain == Where(v.bins, LAMBDA b : b # BadKey /\ v.bins[b] # Bad /\ sound(b) # {})
           Read(b) == LET list == Picked(v.bins[b], sound(b))
                      IN [i \in DOMAIN list |-> ErrorEntry(list[i])]
<1>3. Quantiles(v) = [bins |-> [b \in DOMAIN remain |-> Read(b)]]
  BY <1>1, <1>2 DEF Quantiles
<1>4. ASSUME NEW b \in DOMAIN v.bins
      PROVE  b # BadKey /\ v.bins[b] # Bad /\ sound(b) # {} /\ Read(b) = v.bins[b]
  BY ErrorListStays DEF IsQuantileSection
<1> HIDE DEF sound, Read
<1>5. DOMAIN remain = DOMAIN v.bins
  BY <1>4 DEF Where
<1> HIDE DEF remain
<1>6. [b \in DOMAIN remain |-> Read(b)] = [b \in DOMAIN v.bins |-> v.bins[b]]
  BY <1>4, <1>5
<1>7. [b \in DOMAIN remain |-> Read(b)] = v.bins
  BY <1>6 DEF IsQuantileSection, IsDictionary
<1> QED
  BY <1>3, <1>7 DEF IsQuantileSection

\* What is read of a list with a sound entry.
LEMMA ErrorsRead ==
    ASSUME NoValuesAssumed, NEW list, IsList(list),
           {i \in DOMAIN list : list[i] # Bad} # {}
    PROVE  LET picked == Picked(list, {i \in DOMAIN list : list[i] # Bad})
           IN IsErrorList([i \in DOMAIN picked |-> ErrorEntry(picked[i])])
<1> DEFINE sound == {i \in DOMAIN list : list[i] # Bad}
           picked == Picked(list, sound)
           read == [i \in DOMAIN picked |-> ErrorEntry(picked[i])]
           n == Cardinality(sound)
<1>1. IsFiniteSet(DOMAIN list)
  <2>1. DOMAIN list = 1..Len(list) /\ Len(list) \in Nat
    BY DEF IsList
  <2> QED
    BY <2>1, FS_Interval
<1>2. IsFiniteSet(sound) /\ sound # {}
  BY <1>1, FS_Subset
<1>3. DOMAIN picked = 1..n
  BY DEF Picked
<1> HIDE DEF sound, picked
<1>4. n \in Nat \ {0}
  <2>1. n \in Nat /\ n # 0
    BY <1>2, FS_CardinalityType, FS_EmptySet
  <2> QED
    BY <2>1
<1> HIDE DEF n
<1>5. /\ read = [i \in 1..n |-> read[i]]
      /\ \A i \in 1..n : read[i] # Bad /\ ErrorEntry(read[i]) = read[i]
  <2>1. ASSUME NEW i \in 1..n PROVE read[i] # Bad /\ ErrorEntry(read[i]) = read[i]
    BY <1>3, EntryAgain
  <2>2. read = [i \in 1..n |-> read[i]]
    BY <1>3
  <2> QED
    BY <2>1, <2>2
<1> HIDE DEF read
<1>6. IsErrorList(read)
  BY <1>4, <1>5 DEF IsErrorList
<1> QED
  BY <1>6 DEF read, picked, sound

LEMMA QuantilesAre ==
    ASSUME NoValuesAssumed, NEW raw, BinsAreLists(raw)
    PROVE  IsQuantileSection(Quantiles(raw))
<1> DEFINE v == Quantiles(raw)
<1>1. CASE ~Present(raw) \/ raw.bins = Bad
  <2>1. v = [bins |-> <<>>]
    BY <1>1 DEF Quantiles
  <2>2. v = [bins |-> v.bins] /\ v.bins = <<>>
    BY <2>1
  <2> HIDE DEF v
  <2>3. IsQuantileSection(v)
    BY <2>2, EmptyIsDictionary DEF IsQuantileSection
  <2> QED
    BY <2>3 DEF v
<1>2. CASE ~(~Present(raw) \/ raw.bins = Bad)
  <2> DEFINE sound(b) == {i \in DOMAIN raw.bins[b] : raw.bins[b][i] # Bad}
             remain == Where(raw.bins, LAMBDA b : b # BadKey /\ raw.bins[b] # Bad /\ sound(b) # {})
             Read(b) == LET list == Picked(raw.bins[b], sound(b))
                        IN [i \in DOMAIN list |-> ErrorEntry(list[i])]
             bins == [b \in DOMAIN remain |-> Read(b)]
  <2>1. v = [bins |-> bins]
    BY <1>2 DEF Quantiles
  <2>2. ASSUME NEW b \in DOMAIN remain
        PROVE  b # BadKey /\ IsErrorList(Read(b))
    <3>1. b \in DOMAIN raw.bins /\ b # BadKey /\ raw.bins[b] # Bad /\ sound(b) # {}
      BY <2>2 DEF Where
    <3>2. IsList(raw.bins[b])
      BY <1>2, <3>1 DEF BinsAreLists
    <3>3. IsErrorList(Read(b))
      BY <3>1, <3>2, ErrorsRead
    <3> QED
      BY <3>1, <3>3
  <2> HIDE DEF remain, Read
  <2>3. IsDictionary(bins) /\ \A b \in DOMAIN bins : b # BadKey /\ IsErrorList(bins[b])
    BY <2>2 DEF IsDictionary
  <2> HIDE DEF bins, v
  <2>4. v.bins = bins
    BY <2>1
  <2>5. IsQuantileSection(v)
    BY <2>1, <2>3, <2>4 DEF IsQuantileSection
  <2> QED
    BY <2>5 DEF v
<1> QED
  BY <1>1, <1>2

IsStreak(n) == Present(n) /\ CountOf(n) = n

\* What from_dict makes of a drift section.
IsDriftState(d) ==
    /\ IsDictionary(d) /\ DOMAIN d = FirstDriftNames \cup DayAheadNames
    /\ Present(d["version"]) /\ RowsOf(d["mae"]) = d["mae"] /\ d["frozen"] # Bad
    /\ IsStreak(d["fastStreak"]) /\ IsStreak(d["slowStreak"]) /\ IsStreak(d["dayAheadStreak"])
    /\ d["fastOff"] \in BOOLEAN /\ d["slowOff"] \in BOOLEAN /\ d["dayAheadOff"] \in BOOLEAN
    /\ d["dayAheadSeen"] \in BOOLEAN \cup {Null}

LEMMA DriftIsState ==
    ASSUME NoValuesAssumed, NEW raw
    PROVE  IsDriftState(DriftRead(raw))
<1> DEFINE old == IF Present(raw) THEN raw ELSE [version |-> 2]
           Number(f, otherwise) ==
               IF Present(Get(old, f, otherwise)) THEN Get(old, f, otherwise) ELSE otherwise
           Streak(f, otherwise) == CountOf(Number(f, otherwise))
           Flag(f, otherwise) == Get(old, f, otherwise) \notin {FALSE, Null}
           fastStreak == Streak("fastStreak", 0)
           fastOff == Flag("fastOff", FALSE)
           frozen == Get(old, "frozen", Null)
           mae == RowsOf(Get(old, "mae", <<>>))
           seen == IF Get(old, "dayAheadSeen", Null) = Null THEN Null
                   ELSE Flag("dayAheadSeen", FALSE)
           d == DriftRead(raw)
<1>1. d = [version |-> Number("version", 1), mae |-> mae,
           fastStreak |-> fastStreak, fastOff |-> fastOff,
           slowStreak |-> Streak("slowStreak", 0), slowOff |-> Flag("slowOff", FALSE),
           dayAheadStreak |-> Streak("dayAheadStreak", fastStreak),
           dayAheadOff |-> Flag("dayAheadOff", fastOff),
           dayAheadSeen |-> seen,
           frozen |-> IF frozen = Bad THEN Null ELSE frozen]
  BY DEF DriftRead
<1>2. Present(Number("version", 1))
  BY NullAssumption DEF Present
<1>3. RowsOf(mae) = mae
  <2> DEFINE rows == Get(old, "mae", <<>>)
  <2>1. /\ IsDictionary(RowsOf(rows))
        /\ \A k \in DOMAIN RowsOf(rows) : k # BadKey /\ RowsOf(rows)[k] # Bad
    <3> HIDE DEF rows
    <3>1. Present(rows) => DOMAIN rows \subseteq (DOMAIN rows) \cup {BadKey}
      OBVIOUS
    <3> QED
      BY <3>1, RowsAre
  <2> HIDE DEF rows
  <2>2. RowsOf(RowsOf(rows)) = RowsOf(rows)
    BY <2>1, RowsStay
  <2> QED
    BY <2>2 DEF rows
<1>4. \A f, otherwise : IsStreak(Streak(f, otherwise))
  BY CountIs DEF IsStreak
<1>5. \A f, otherwise : Flag(f, otherwise) \in BOOLEAN
  OBVIOUS
<1>6. seen \in BOOLEAN \cup {Null}
  BY <1>5
<1>7. (IF frozen = Bad THEN Null ELSE frozen) # Bad
  BY NoValueAssumption
<1> HIDE DEF Number, Streak, Flag, mae, seen, frozen, d
<1>8. /\ DOMAIN d = FirstDriftNames \cup DayAheadNames
      /\ d["version"] = Number("version", 1) /\ d["mae"] = mae
      /\ d["fastStreak"] = Streak("fastStreak", 0) /\ d["fastOff"] = Flag("fastOff", FALSE)
      /\ d["slowStreak"] = Streak("slowStreak", 0) /\ d["slowOff"] = Flag("slowOff", FALSE)
      /\ d["dayAheadStreak"] = Streak("dayAheadStreak", fastStreak)
      /\ d["dayAheadOff"] = Flag("dayAheadOff", fastOff)
      /\ d["dayAheadSeen"] = seen
      /\ d["frozen"] = IF frozen = Bad THEN Null ELSE frozen
  BY <1>1 DEF FirstDriftNames, DayAheadNames
<1>9. IsDictionary(d)
  BY <1>1 DEF IsDictionary
<1>10. IsStreak(d["fastStreak"]) /\ IsStreak(d["slowStreak"]) /\ IsStreak(d["dayAheadStreak"])
  BY <1>4, <1>8
<1>11. d["fastOff"] \in BOOLEAN /\ d["slowOff"] \in BOOLEAN /\ d["dayAheadOff"] \in BOOLEAN
  BY <1>5, <1>8
<1>12. IsDriftState(d)
  BY <1>2, <1>3, <1>6, <1>7, <1>8, <1>9, <1>10, <1>11 DEF IsDriftState
<1> QED
  BY <1>12 DEF d

\* What is read of a section in which the names of the first version stand for
\* what they did: the same state, but for the names that it lacks.
LEMMA DriftReadAgain ==
    ASSUME NoValuesAssumed, NEW d, IsDriftState(d), NEW w, IsDictionary(w),
           FirstDriftNames \subseteq DOMAIN w, DOMAIN w \subseteq DOMAIN d,
           \A f \in DOMAIN w : w[f] = d[f]
    PROVE  \A f \in DOMAIN w : DriftRead(w)[f] = w[f]
<1> DEFINE Number(f, otherwise) ==
               IF Present(Get(w, f, otherwise)) THEN Get(w, f, otherwise) ELSE otherwise
           Streak(f, otherwise) == CountOf(Number(f, otherwise))
           Flag(f, otherwise) == Get(w, f, otherwise) \notin {FALSE, Null}
           fastStreak == Streak("fastStreak", 0)
           fastOff == Flag("fastOff", FALSE)
           frozen == Get(w, "frozen", Null)
           mae == RowsOf(Get(w, "mae", <<>>))
           seen == IF Get(w, "dayAheadSeen", Null) = Null THEN Null
                   ELSE Flag("dayAheadSeen", FALSE)
           r == DriftRead(w)
<1>1. Present(w)
  BY DictionaryIsPresent
<1>2. r = [version |-> Number("version", 1), mae |-> mae,
           fastStreak |-> fastStreak, fastOff |-> fastOff,
           slowStreak |-> Streak("slowStreak", 0), slowOff |-> Flag("slowOff", FALSE),
           dayAheadStreak |-> Streak("dayAheadStreak", fastStreak),
           dayAheadOff |-> Flag("dayAheadOff", fastOff),
           dayAheadSeen |-> seen,
           frozen |-> IF frozen = Bad THEN Null ELSE frozen]
  BY <1>1 DEF DriftRead
<1>3. \A f \in DOMAIN w : \A otherwise : Get(w, f, otherwise) = d[f]
  BY DEF Get
<1>4. ASSUME NEW f \in DOMAIN w, IsStreak(d[f]), NEW otherwise
      PROVE  Streak(f, otherwise) = d[f]
  BY <1>3, <1>4 DEF IsStreak
<1>5. ASSUME NEW f \in DOMAIN w, d[f] \in BOOLEAN, NEW otherwise
      PROVE  Flag(f, otherwise) = d[f]
  <2>1. Get(w, f, otherwise) = d[f]
    BY <1>3
  <2>2. Null # TRUE
    BY NoValueAssumption
  <2>3. CASE d[f] = TRUE
    BY <2>1, <2>2, <2>3
  <2>4. CASE d[f] = FALSE
    BY <2>1, <2>4
  <2> QED
    BY <1>5, <2>3, <2>4
<1>6. Number("version", 1) = d["version"]
  BY <1>3 DEF IsDriftState, FirstDriftNames
<1>7. mae = d["mae"]
  BY <1>3 DEF IsDriftState, FirstDriftNames
<1>8. (IF frozen = Bad THEN Null ELSE frozen) = d["frozen"]
  BY <1>3 DEF IsDriftState, FirstDriftNames
<1>9. ASSUME "dayAheadSeen" \in DOMAIN w PROVE seen = d["dayAheadSeen"]
  <2>1. Get(w, "dayAheadSeen", Null) = d["dayAheadSeen"]
    BY <1>3, <1>9
  <2>2. CASE d["dayAheadSeen"] = Null
    BY <2>1, <2>2
  <2>3. CASE d["dayAheadSeen"] # Null
    <3>1. d["dayAheadSeen"] \in BOOLEAN
      BY <2>3 DEF IsDriftState
    <3> QED
      BY <1>5, <1>9, <2>1, <2>3, <3>1
  <2> QED
    BY <2>2, <2>3
<1>10. /\ {"version", "mae", "fastStreak", "fastOff", "slowStreak", "slowOff", "frozen"}
            \subseteq DOMAIN w
       /\ IsStreak(d["fastStreak"]) /\ IsStreak(d["slowStreak"]) /\ IsStreak(d["dayAheadStreak"])
       /\ d["fastOff"] \in BOOLEAN /\ d["slowOff"] \in BOOLEAN /\ d["dayAheadOff"] \in BOOLEAN
  BY DEF IsDriftState, FirstDriftNames
<1> HIDE DEF Number, Streak, Flag, mae, seen, frozen, r
<1>11. /\ r["version"] = d["version"] /\ r["mae"] = d["mae"] /\ r["frozen"] = d["frozen"]
       /\ r["fastStreak"] = d["fastStreak"] /\ r["slowStreak"] = d["slowStreak"]
       /\ r["fastOff"] = d["fastOff"] /\ r["slowOff"] = d["slowOff"]
  BY <1>2, <1>4, <1>5, <1>6, <1>7, <1>8, <1>10
<1>12. /\ "dayAheadStreak" \in DOMAIN w => r["dayAheadStreak"] = d["dayAheadStreak"]
       /\ "dayAheadOff" \in DOMAIN w => r["dayAheadOff"] = d["dayAheadOff"]
       /\ "dayAheadSeen" \in DOMAIN w => r["dayAheadSeen"] = d["dayAheadSeen"]
  BY <1>2, <1>4, <1>5, <1>9, <1>10
<1>13. \A f \in DOMAIN w : f \in FirstDriftNames \cup DayAheadNames
  BY DEF IsDriftState
<1>14. \A f \in DOMAIN w : r[f] = d[f]
  BY <1>11, <1>12, <1>13 DEF FirstDriftNames, DayAheadNames
<1> QED
  BY <1>14 DEF r

LEMMA DriftAgain ==
    ASSUME NoValuesAssumed, NEW d, IsDriftState(d)
    PROVE  Drift(DriftWritten(d)) = DriftWritten(d)
<1> DEFINE w == DriftWritten(d)
           r == DriftRead(w)
           Keep(x, f) == x["version"] >= 2 \/ f \notin DayAheadNames
<1>1. ASSUME NEW x, IsDriftState(x)
      PROVE  DriftWritten(x) = [f \in {g \in DOMAIN x : Keep(x, g)} |-> x[f]]
  BY DEF DriftWritten, Where, DayAheadNames
<1>2. IsDriftState(r)
  BY DriftIsState
<1>3. /\ IsDictionary(w) /\ DOMAIN w = {g \in DOMAIN d : Keep(d, g)}
      /\ \A f \in DOMAIN w : w[f] = d[f]
  BY <1>1 DEF IsDictionary
<1>4. FirstDriftNames \subseteq DOMAIN w /\ "version" \in DOMAIN w
  BY <1>3 DEF IsDriftState, FirstDriftNames, DayAheadNames
<1> HIDE DEF w
<1>5. \A f \in DOMAIN w : r[f] = w[f]
  BY <1>3, <1>4, DriftReadAgain
<1> HIDE DEF r
<1>6. r["version"] = d["version"] /\ DOMAIN r = DOMAIN d
  BY <1>2, <1>3, <1>4, <1>5 DEF IsDriftState
<1>7. \A f : Keep(r, f) <=> Keep(d, f)
  BY <1>6
<1>8. {g \in DOMAIN r : Keep(r, g)} = DOMAIN w
  BY <1>3, <1>6, <1>7
<1> HIDE DEF Keep
<1>9. DriftWritten(r) = [f \in DOMAIN w |-> r[f]]
  BY <1>1, <1>2, <1>8
<1>10. DriftWritten(r) = [f \in DOMAIN w |-> w[f]]
  BY <1>5, <1>9
<1>11. DriftWritten(r) = w
  BY <1>3, <1>10 DEF IsDictionary
<1>12. Drift(w) = DriftWritten(r)
  BY DEF Drift, r
<1> QED
  BY <1>11, <1>12 DEF w

-----------------------------------------------------------------------------
(* Rollback points.                                                         *)

IsSnapshot(v) ==
    /\ v = [bias |-> v.bias, shade |-> v.shade, quantile |-> v.quantile]
    /\ Cells(v.bias) = v.bias /\ Channels(v.shade) = v.shade
    /\ v.quantile # Null => Quantiles(v.quantile) = v.quantile /\ v.quantile.bins # <<>>

LEMMA SnapshotStays ==
    ASSUME NoValuesAssumed, NEW v, IsSnapshot(v)
    PROVE  Snapshot(v) = v
<1>1. Present(v)
  <2>1. IsDictionary([bias |-> v.bias, shade |-> v.shade, quantile |-> v.quantile])
    BY DEF IsDictionary
  <2> QED
    BY <2>1, DictionaryIsPresent DEF IsSnapshot
<1> DEFINE q == Quantiles(v.quantile)
<1>2. Snapshot(v) = [bias |-> Cells(v.bias), shade |-> Channels(v.shade),
                     quantile |-> IF q.bins = <<>> THEN Null ELSE q]
  BY <1>1 DEF Snapshot
<1>3. (IF q.bins = <<>> THEN Null ELSE q) = v.quantile
  <2>1. CASE v.quantile = Null
    <3>1. q = [bins |-> <<>>]
      BY <2>1 DEF Quantiles, Present
    <3> QED
      BY <2>1, <3>1
  <2>2. CASE v.quantile # Null
    BY <2>2 DEF IsSnapshot
  <2> QED
    BY <2>1, <2>2
<1> HIDE DEF q
<1> QED
  BY <1>2, <1>3 DEF IsSnapshot

\* A snapshot is taken of sections that are read back as they are.
LEMMA SnapshotIs ==
    ASSUME NoValuesAssumed, NEW s,
           NEW raw, raw = IF Present(s) THEN s.quantile ELSE Null,
           Quantiles(Quantiles(raw)) = Quantiles(raw)
    PROVE  IsSnapshot(Snapshot(s))
<1> DEFINE b == IF Present(s) THEN s.bias ELSE Null
           h == IF Present(s) THEN s.shade ELSE Null
           q == Quantiles(raw)
           v == Snapshot(s)
<1>1. v = [bias |-> Cells(b), shade |-> Channels(h),
           quantile |-> IF q.bins = <<>> THEN Null ELSE q]
  BY DEF Snapshot
<1>2. Cells(Cells(b)) = Cells(b) /\ Channels(Channels(h)) = Channels(h)
  BY CellsAgain, ChannelsAre, ChannelsStay
<1>3. Quantiles(q) = q
  OBVIOUS
<1> HIDE DEF b, h, q, v
<1>4. /\ v = [bias |-> v.bias, shade |-> v.shade, quantile |-> v.quantile]
      /\ v.bias = Cells(b) /\ v.shade = Channels(h)
      /\ v.quantile = IF q.bins = <<>> THEN Null ELSE q
  BY <1>1
<1>5. v.quantile # Null => v.quantile = q /\ q.bins # <<>>
  BY <1>4
<1>6. IsSnapshot(v)
  BY <1>2, <1>3, <1>4, <1>5 DEF IsSnapshot
<1> QED
  BY <1>6 DEF v

LEMMA SnapshotRead ==
    ASSUME NoValuesAssumed, NEW s, Present(s) => BinsAreLists(s.quantile)
    PROVE  IsSnapshot(Snapshot(s))
<1> DEFINE raw == IF Present(s) THEN s.quantile ELSE Null
<1>1. BinsAreLists(raw)
  BY DEF BinsAreLists, Present
<1> HIDE DEF raw
<1>2. Quantiles(Quantiles(raw)) = Quantiles(raw)
  BY <1>1, QuantilesAre, QuantilesStay
<1> QED
  BY <1>2, SnapshotIs DEF raw

\* The last places of a list, and the very last.
LEMMA LastFewIs ==
    ASSUME NEW S, NEW list \in Seq(S), NEW n \in Nat \ {0}
    PROVE  /\ LastFew(list, n) \in Seq(S) /\ Len(LastFew(list, n)) <= n
           /\ Len(list) > 0 =>
                 /\ Len(LastFew(list, n)) > 0
                 /\ LastFew(list, n)[Len(LastFew(list, n))] = list[Len(list)]
<1>1. CASE Len(list) <= n
  BY <1>1 DEF LastFew
<1>2. CASE Len(list) > n
  <2> DEFINE m == Len(list) - n + 1
  <2>1. m \in 1..Len(list) /\ Len(list) - m + 1 = n /\ Len(list) \in Nat
    BY <1>2
  <2>2. LastFew(list, n) = SubSeq(list, m, Len(list))
    BY <1>2, <2>1 DEF LastFew
  <2>3. /\ SubSeq(list, m, Len(list)) \in Seq(S)
        /\ Len(SubSeq(list, m, Len(list))) = Len(list) - m + 1
        /\ SubSeq(list, m, Len(list))[n] = list[m + n - 1]
    BY <2>1
  <2> HIDE DEF m
  <2>4. m + n - 1 = Len(list)
    BY <2>1 DEF m
  <2> QED
    BY <2>1, <2>2, <2>3, <2>4
<1>3. Len(list) \in Nat
  OBVIOUS
<1> QED
  BY <1>1, <1>2, <1>3

IsSnapshotRing(v) ==
    \E n \in 0..SnapshotRing : v = [i \in 1..n |-> v[i]] /\ \A i \in 1..n : IsSnapshot(v[i])

LEMMA RingIsSequence ==
    ASSUME NEW v, NEW n \in Nat, v = [i \in 1..n |-> v[i]]
    PROVE  /\ v \in Seq({v[i] : i \in 1..n}) /\ Len(v) = n
<1> DEFINE S == {v[i] : i \in 1..n}
<1>1. v \in [1..n -> S]
  OBVIOUS
<1> HIDE DEF S
<1>2. v \in Seq(S) /\ Len(v) = n
  BY <1>1
<1> QED
  BY <1>2 DEF S

LEMMA SnapshotsStay ==
    ASSUME NoValuesAssumed, NEW v, IsSnapshotRing(v)
    PROVE  Snapshots(v) = v
<1>1. PICK n \in 0..SnapshotRing :
         v = [i \in 1..n |-> v[i]] /\ \A i \in 1..n : IsSnapshot(v[i])
  BY DEF IsSnapshotRing
<1>2. n \in Nat /\ n <= SnapshotRing
  BY <1>1, StoreAssumption
<1>3. Len(v) = n
  BY <1>1, <1>2, RingIsSequence
<1>4. LastFew(v, SnapshotRing) = v
  BY <1>2, <1>3 DEF LastFew
<1>5. Present(v)
  BY <1>1, DictionaryIsPresent DEF IsDictionary
<1>6. Snapshots(v) = [i \in 1..n |-> Snapshot(v[i])]
  BY <1>3, <1>4, <1>5 DEF Snapshots
<1>7. \A i \in 1..n : Snapshot(v[i]) = v[i]
  BY <1>1, SnapshotStays
<1>8. Snapshots(v) = [i \in 1..n |-> v[i]]
  BY <1>6, <1>7
<1> QED
  BY <1>1, <1>8

LEMMA SnapshotsAre ==
    ASSUME NoValuesAssumed, NEW raw, ListsAreLists("snapshots", raw)
    PROVE  IsSnapshotRing(Snapshots(raw))
<1> DEFINE v == Snapshots(raw)
<1>1. CASE ~Present(raw)
  <2>1. v = <<>>
    BY <1>1 DEF Snapshots
  <2> HIDE DEF v
  <2>2. 0 \in 0..SnapshotRing /\ v = [i \in 1..0 |-> v[i]] /\ \A i \in 1..0 : IsSnapshot(v[i])
    BY <2>1, StoreAssumption
  <2>3. IsSnapshotRing(v)
    BY <2>2 DEF IsSnapshotRing
  <2> QED
    BY <2>3 DEF v
<1>2. CASE Present(raw)
  <2> DEFINE S == {raw[i] : i \in DOMAIN raw}
             few == LastFew(raw, SnapshotRing)
             n == Len(few)
  <2>1. IsList(raw) /\ \A i \in DOMAIN raw : Present(raw[i]) => BinsAreLists(raw[i].quantile)
    BY <1>2 DEF ListsAreLists
  <2>2. raw \in Seq(S) /\ \A x \in S : Present(x) => BinsAreLists(x.quantile)
    BY <2>1 DEF IsList
  <2> HIDE DEF S
  <2>3. few \in Seq(S) /\ n <= SnapshotRing
    BY <2>2, StoreAssumption, LastFewIs
  <2>4. v = [i \in 1..n |-> Snapshot(few[i])]
    BY <1>2 DEF Snapshots
  <2> HIDE DEF few, v
  <2>5. n \in Nat /\ \A i \in 1..n : few[i] \in S
    BY <2>3
  <2>6. \A i \in 1..n : IsSnapshot(Snapshot(few[i]))
    BY <2>2, <2>5, SnapshotRead
  <2> HIDE DEF n
  <2>7. n \in 0..SnapshotRing
    BY <2>3, <2>5, StoreAssumption
  <2>8. v = [i \in 1..n |-> v[i]] /\ \A i \in 1..n : IsSnapshot(v[i])
    BY <2>4, <2>6
  <2>9. IsSnapshotRing(v)
    BY <2>7, <2>8 DEF IsSnapshotRing
  <2> QED
    BY <2>9 DEF v
<1> QED
  BY <1>1, <1>2

\* A rollback point that is pushed is the last of the ring.
LEMMA PushedSnapshot ==
    ASSUME NoValuesAssumed, NEW v, IsSnapshotRing(v), NEW s, IsSnapshot(s)
    PROVE  LET ring == LastFew(Append(v, s), SnapshotRing)
           IN IsSnapshotRing(ring) /\ ring[Len(ring)] = s
<1>1. PICK n \in 0..SnapshotRing :
         v = [i \in 1..n |-> v[i]] /\ \A i \in 1..n : IsSnapshot(v[i])
  BY DEF IsSnapshotRing
<1> DEFINE S == {v[i] : i \in 1..n} \cup {s}
           list == Append(v, s)
           ring == LastFew(list, SnapshotRing)
<1>2. n \in Nat /\ SnapshotRing \in Nat \ {0}
  BY <1>1, StoreAssumption
<1>3. v \in Seq(S) /\ s \in S
  <2>1. v \in [1..n -> S]
    BY <1>1
  <2> QED
    BY <1>2, <2>1
<1>4. \A x \in S : IsSnapshot(x)
  BY <1>1
<1> HIDE DEF S
<1>5. list \in Seq(S) /\ Len(list) > 0 /\ list[Len(list)] = s
  BY <1>3
<1> HIDE DEF list
<1>6. /\ ring \in Seq(S) /\ Len(ring) <= SnapshotRing
      /\ ring[Len(ring)] = s
  BY <1>2, <1>5, LastFewIs
<1> HIDE DEF ring
<1>7. /\ Len(ring) \in 0..SnapshotRing /\ ring = [i \in 1..Len(ring) |-> ring[i]]
      /\ \A i \in 1..Len(ring) : ring[i] \in S
  BY <1>2, <1>6
<1>8. IsSnapshotRing(ring)
  BY <1>4, <1>7 DEF IsSnapshotRing
<1> QED
  BY <1>6, <1>8 DEF ring, list

-----------------------------------------------------------------------------
(* The other sections, and all of them.                                     *)

LEMMA CalibrationAgain ==
    ASSUME NoValuesAssumed, NEW raw
    PROVE  Calibration(Calibration(raw)) = Calibration(raw)
<1> DEFINE v == Calibration(raw)
<1>1. /\ v = [eta |-> v.eta, n |-> v.n]
      /\ Present(v.eta) /\ ~(v.eta < 0) /\ CountOf(v.n) = v.n
  <2>1. Neutral \in Nat /\ Present(Neutral) /\ Present(0) /\ ~(Neutral < 0) /\ ~(0 < 0)
    BY StoreAssumption, NullAssumption DEF Present
  <2>2. CountOf(0) = 0
    BY <2>1 DEF CountOf
  <2>3. CASE ~Present(raw)
    BY <2>1, <2>2, <2>3 DEF Calibration
  <2>4. CASE Present(raw)
    <3>1. v = [eta |-> IF ~Present(raw.eta) THEN Neutral ELSE IF raw.eta < 0 THEN 0 ELSE raw.eta,
               n |-> CountOf(raw.n)]
      BY <2>4 DEF Calibration
    <3> QED
      BY <2>1, <3>1, CountIs
  <2> QED
    BY <2>3, <2>4
<1>2. IsDictionary([eta |-> v.eta, n |-> v.n])
  BY DEF IsDictionary
<1> HIDE DEF v
<1>3. Present(v)
  BY <1>1, <1>2, DictionaryIsPresent
<1>4. Calibration(v) = v
  BY <1>1, <1>3 DEF Calibration
<1> QED
  BY <1>4 DEF v

\* The last revision of the audit.
LEMMA AuditAgain ==
    ASSUME NoValuesAssumed, NEW raw
    PROVE  Audit(Audit(raw)) = Audit(raw)
<1> DEFINE RevisionOf(l) ==
               IF ~Present(l) THEN Null
               ELSE [offset |-> IF l.offset \in 0..2 THEN l.offset ELSE Null,
                     refreshed |-> l.refreshed \in BOOLEAN /\ l.refreshed]
           v == Audit(raw)
<1>1. ASSUME NEW l PROVE RevisionOf(RevisionOf(l)) = RevisionOf(l)
  <2> DEFINE r == RevisionOf(l)
  <2>1. CASE ~Present(l)
    BY <2>1 DEF Present
  <2>2. CASE Present(l)
    <3>1. r = [offset |-> IF l.offset \in 0..2 THEN l.offset ELSE Null,
               refreshed |-> l.refreshed \in BOOLEAN /\ l.refreshed]
      BY <2>2
    <3> HIDE DEF r
    <3>2. /\ r = [offset |-> r.offset, refreshed |-> r.refreshed]
          /\ r.offset \in 0..2 \/ r.offset = Null
          /\ r.refreshed \in BOOLEAN
      BY <3>1
    <3>3. (IF r.offset \in 0..2 THEN r.offset ELSE Null) = r.offset
      BY <3>2
    <3>4. (r.refreshed \in BOOLEAN /\ r.refreshed) = r.refreshed
      BY <3>2
    <3>5. IsDictionary([offset |-> r.offset, refreshed |-> r.refreshed])
      BY DEF IsDictionary
    <3>6. Present(r)
      BY <3>2, <3>5, DictionaryIsPresent
    <3>7. RevisionOf(r) = r
      BY <3>2, <3>3, <3>4, <3>6
    <3> QED
      BY <3>7 DEF r
  <2> QED
    BY <2>1, <2>2
<1>2. RevisionOf(Null) = Null
  BY DEF Present
<1>3. \A a : Present(a) => Audit(a) = [day |-> IF a.day = Bad THEN Null ELSE a.day,
                                       counts |-> CountOf(a.counts), last |-> RevisionOf(a.last)]
  BY DEF Audit
<1> HIDE DEF RevisionOf
<1>4. /\ v = [day |-> v.day, counts |-> v.counts, last |-> v.last]
      /\ v.day # Bad /\ CountOf(v.counts) = v.counts /\ RevisionOf(v.last) = v.last
  <2>1. CASE ~Present(raw)
    <3>1. v = [day |-> Null, counts |-> 0, last |-> Null]
      BY <2>1 DEF Audit
    <3>2. CountOf(0) = 0
      BY NullAssumption DEF CountOf, Present
    <3> QED
      BY <1>2, <3>1, <3>2, NoValueAssumption
  <2>2. CASE Present(raw)
    BY <1>1, <1>3, <2>2, CountIs, NoValueAssumption
  <2> QED
    BY <2>1, <2>2
<1>5. IsDictionary([day |-> v.day, counts |-> v.counts, last |-> v.last])
  BY DEF IsDictionary
<1> HIDE DEF v
<1>6. Present(v)
  BY <1>4, <1>5, DictionaryIsPresent
<1>7. Audit(v) = v
  BY <1>3, <1>4, <1>6
<1> QED
  BY <1>7 DEF v

\* A learning-health section as it is held: every field as its coercion leaves it.
IsHealth(v) ==
    /\ v = [streak |-> v.streak, oobStreak |-> v.oobStreak, reason |-> v.reason,
            modules |-> v.modules, discarded |-> v.discarded, accepted |-> v.accepted,
            checked |-> v.checked, oobDay |-> v.oobDay, oobMedian |-> v.oobMedian]
    /\ CountOf(v.streak) = v.streak /\ CountOf(v.oobStreak) = v.oobStreak
    /\ v.reason \in DropoutReasons \cup {Null}
    /\ Present(v.modules) /\ v.modules = v.modules \ {Bad}
    /\ v.discarded # Bad /\ v.accepted # Bad /\ v.checked # Bad
    /\ v.oobDay # Bad /\ v.oobMedian # Bad

LEMMA HealthStays ==
    ASSUME NoValuesAssumed, NEW v, IsHealth(v)
    PROVE  HealthSection(v) = v
<1> DEFINE Found(f) == Get(v, f, Null)
           NoneIfBroken(f) == IF Found(f) = Bad THEN Null ELSE Found(f)
<1>1. Present(v)
  <2>1. IsDictionary([streak |-> v.streak, oobStreak |-> v.oobStreak, reason |-> v.reason,
            modules |-> v.modules, discarded |-> v.discarded, accepted |-> v.accepted,
            checked |-> v.checked, oobDay |-> v.oobDay, oobMedian |-> v.oobMedian])
    BY DEF IsDictionary
  <2> QED
    BY <2>1, DictionaryIsPresent DEF IsHealth
<1>2. HealthSection(v) = [streak |-> CountOf(Found("streak")), oobStreak |-> CountOf(Found("oobStreak")),
        reason |-> IF Found("reason") \in DropoutReasons THEN Found("reason") ELSE Null,
        modules |-> IF Present(Found("modules")) THEN Found("modules") \ {Bad} ELSE {},
        discarded |-> NoneIfBroken("discarded"), accepted |-> NoneIfBroken("accepted"),
        checked |-> NoneIfBroken("checked"), oobDay |-> NoneIfBroken("oobDay"),
        oobMedian |-> NoneIfBroken("oobMedian")]
  BY <1>1 DEF HealthSection
<1>3. DOMAIN v = {"streak", "oobStreak", "reason", "modules", "discarded", "accepted",
                  "checked", "oobDay", "oobMedian"}
  BY DEF IsHealth
<1>4. ASSUME NEW f \in DOMAIN v PROVE Found(f) = v[f]
  BY <1>4 DEF Get
<1> HIDE DEF Found
<1>5. /\ Found("streak") = v.streak /\ Found("oobStreak") = v.oobStreak
      /\ Found("reason") = v.reason /\ Found("modules") = v.modules
      /\ Found("discarded") = v.discarded /\ Found("accepted") = v.accepted
      /\ Found("checked") = v.checked /\ Found("oobDay") = v.oobDay
      /\ Found("oobMedian") = v.oobMedian
  BY <1>3, <1>4
<1>6. (IF v.reason \in DropoutReasons THEN v.reason ELSE Null) = v.reason
  BY DEF IsHealth
<1> QED
  BY <1>2, <1>5, <1>6 DEF IsHealth

LEMMA HealthIs ==
    ASSUME NoValuesAssumed, NEW raw, DatesAreDates("health", raw)
    PROVE  IsHealth(HealthSection(raw))
<1> DEFINE old == IF Present(raw) THEN raw ELSE <<>>
           Found(f) == Get(old, f, Null)
           NoneIfBroken(f) == IF Found(f) = Bad THEN Null ELSE Found(f)
           names == IF Present(Found("modules")) THEN Found("modules") \ {Bad} ELSE {}
           reason == IF Found("reason") \in DropoutReasons THEN Found("reason") ELSE Null
           v == HealthSection(raw)
<1>1. v = [streak |-> CountOf(Found("streak")), oobStreak |-> CountOf(Found("oobStreak")),
        reason |-> reason, modules |-> names,
        discarded |-> NoneIfBroken("discarded"), accepted |-> NoneIfBroken("accepted"),
        checked |-> NoneIfBroken("checked"), oobDay |-> NoneIfBroken("oobDay"),
        oobMedian |-> NoneIfBroken("oobMedian")]
  BY DEF HealthSection
<1>2. Present(names) /\ names = names \ {Bad}
  <2>1. CASE ~Present(Found("modules"))
    <3>1. names = {}
      BY <2>1
    <3>2. Present({})
      BY NoValueAssumption
    <3> QED
      BY <3>1, <3>2
  <2>2. CASE Present(Found("modules"))
    <3>1. names = Found("modules") \ {Bad}
      BY <2>2
    <3>2. Present(raw) /\ Found("modules") = raw.modules /\ Found("modules") = Get(raw, "modules", Null)
      BY <2>2 DEF Get, Present
    <3>3. Present(raw) /\ Present(Get(raw, "modules", Null)) => Present(raw.modules \ {Bad})
      BY DEF DatesAreDates
    <3> QED
      BY <2>2, <3>1, <3>2, <3>3
  <2> QED
    BY <2>1, <2>2
<1>3. reason \in DropoutReasons \cup {Null}
  OBVIOUS
<1>4. \A f : NoneIfBroken(f) # Bad
  BY NoValueAssumption
<1>5. \A f : CountOf(CountOf(Found(f))) = CountOf(Found(f))
  BY CountIs
<1> HIDE DEF names, reason, NoneIfBroken, Found, v
<1>6. IsHealth(v)
  BY <1>1, <1>2, <1>3, <1>4, <1>5 DEF IsHealth
<1> QED
  BY <1>6 DEF v

DayRings == {"issued", "actuals", "comparison", "hourly"}
MarkSections == {"trained", "inverterDays"}

\* What the program holds of a section: from_dict leaves it as it is.
IsHeld(s, v) ==
    /\ CoercedSection(s, v) = v
    /\ s \in DayRings => DOMAIN v \subseteq Dates
    /\ s \in MarkSections => v \subseteq Dates
    /\ s = "snapshots" => IsSnapshotRing(v)

LEMMA CoercedIsHeld ==
    ASSUME NoValuesAssumed, NEW s \in Sections, NEW raw,
           ListsAreLists(s, raw), DatesAreDates(s, raw)
    PROVE  IsHeld(s, CoercedSection(s, raw))
<1>1. CASE s = "payload"
  <2>1. LastPayload(LastPayload(raw)) = LastPayload(raw)
    BY DEF LastPayload, Present
  <2> QED
    BY <1>1, <2>1 DEF IsHeld, CoercedSection, DayRings, MarkSections
<1>2. CASE s \in {"issued", "actuals", "comparison"}
  <2>1. Present(raw) => DOMAIN raw \subseteq Dates \cup {BadKey}
    BY <1>2 DEF DatesAreDates
  <2>2. /\ DOMAIN RingOf(raw, SectionDays) \subseteq Dates
        /\ RingOf(RingOf(raw, SectionDays), SectionDays) = RingOf(raw, SectionDays)
    BY <2>1, RingAgain, StoreAssumption
  <2>3. \A v : CoercedSection(s, v) = RingOf(v, SectionDays)
    BY <1>2 DEF CoercedSection
  <2> QED
    BY <1>2, <2>2, <2>3 DEF IsHeld, MarkSections
<1>3. CASE s = "hourly"
  <2>1. DOMAIN HourlyRing(raw) \subseteq Dates /\ HourlyRing(HourlyRing(raw)) = HourlyRing(raw)
    BY <1>3, HourlyAgain
  <2>2. \A v : CoercedSection(s, v) = HourlyRing(v)
    BY <1>3 DEF CoercedSection
  <2> QED
    BY <1>3, <2>1, <2>2 DEF IsHeld, MarkSections
<1>4. CASE s \in {"bias", "scores"}
  <2>1. \A v : CoercedSection(s, v) = Cells(v)
    BY <1>4 DEF CoercedSection
  <2> QED
    BY <1>4, <2>1, CellsAgain DEF IsHeld, MarkSections, DayRings
<1>5. CASE s = "shade"
  <2>1. \A v : CoercedSection(s, v) = Channels(v)
    BY <1>5 DEF CoercedSection
  <2> QED
    BY <1>5, <2>1, ChannelsAre, ChannelsStay DEF IsHeld, MarkSections, DayRings
<1>6. CASE s = "quantile"
  <2>1. \A v : CoercedSection(s, v) = Quantiles(v)
    BY <1>6 DEF CoercedSection
  <2>2. BinsAreLists(raw)
    BY <1>6 DEF ListsAreLists
  <2> QED
    BY <1>6, <2>1, <2>2, QuantilesAre, QuantilesStay DEF IsHeld, MarkSections, DayRings
<1>7. CASE s = "drift"
  <2>1. \A v : CoercedSection(s, v) = Drift(v)
    BY <1>7 DEF CoercedSection
  <2>2. Drift(Drift(raw)) = Drift(raw)
    BY DriftIsState, DriftAgain DEF Drift
  <2> QED
    BY <1>7, <2>1, <2>2 DEF IsHeld, MarkSections, DayRings
<1>8. CASE s = "snapshots"
  <2>1. \A v : CoercedSection(s, v) = Snapshots(v)
    BY <1>8 DEF CoercedSection
  <2>2. IsSnapshotRing(Snapshots(raw))
    BY <1>8, SnapshotsAre
  <2> QED
    BY <1>8, <2>1, <2>2, SnapshotsStay DEF IsHeld, MarkSections, DayRings
<1>9. CASE s \in MarkSections
  <2>1. \A v : CoercedSection(s, v) = Marks(v)
    BY <1>9 DEF CoercedSection, MarkSections
  <2>2. Present(raw) => raw \subseteq Dates \cup {BadKey}
    BY <1>9 DEF DatesAreDates, MarkSections
  <2> QED
    BY <1>9, <2>1, <2>2, MarksRead DEF IsHeld, MarkSections, DayRings
<1>10. CASE s = "calibration"
  <2>1. \A v : CoercedSection(s, v) = Calibration(v)
    BY <1>10 DEF CoercedSection
  <2> QED
    BY <1>10, <2>1, CalibrationAgain DEF IsHeld, MarkSections, DayRings
<1>11. CASE s = "fingerprint"
  <2>1. \A v : CoercedSection(s, v) = IF v = Bad THEN Null ELSE v
    BY <1>11 DEF CoercedSection
  <2> QED
    BY <1>11, <2>1, NoValueAssumption DEF IsHeld, MarkSections, DayRings
<1>12. CASE s = "audit"
  <2>1. \A v : CoercedSection(s, v) = Audit(v)
    BY <1>12 DEF CoercedSection
  <2> QED
    BY <1>12, <2>1, AuditAgain DEF IsHeld, MarkSections, DayRings
<1>13. CASE s = "health"
  <2>1. \A v : CoercedSection(s, v) = HealthSection(v)
    BY <1>13 DEF CoercedSection
  <2>2. HealthSection(HealthSection(raw)) = HealthSection(raw)
    BY <1>13, HealthIs, HealthStays
  <2> QED
    BY <1>13, <2>1, <2>2 DEF IsHeld, MarkSections, DayRings
<1> QED
  BY <1>1, <1>2, <1>3, <1>4, <1>5, <1>6, <1>7, <1>8, <1>9, <1>10, <1>11, <1>12, <1>13
  DEF Sections, OldSections, LearnerSections, NewSections, MarkSections

-----------------------------------------------------------------------------
(* Clean data.                                                              *)

\* The newest of few dates are all of them.
LEMMA NewestOfFew ==
    ASSUME NEW S \in SUBSET Dates, NEW n \in Nat, Cardinality(S) <= n
    PROVE  Newest(S, n) = S
<1>1. IsFiniteSet(S) /\ S \subseteq Nat /\ Cardinality(S) \in Nat
  BY StoreAssumption, FS_Subset, FS_CardinalityType
<1>2. ASSUME NEW d \in S PROVE Cardinality({e \in S : e > d}) < n
  <2> DEFINE later == {e \in S : e > d}
  <2>1. later \subseteq S \ {d}
    BY <1>1
  <2>2. IsFiniteSet(S \ {d}) /\ Cardinality(S \ {d}) = Cardinality(S) - 1
    BY <1>1, FS_RemoveElement
  <2> HIDE DEF later
  <2>3. /\ Cardinality(later) <= Cardinality(S \ {d})
        /\ Cardinality(later) \in Nat /\ Cardinality(S \ {d}) \in Nat
    BY <2>1, <2>2, FS_Subset, FS_CardinalityType
  <2>4. Cardinality(later) < n
    BY <1>1, <2>2, <2>3
  <2> QED
    BY <2>4 DEF later
<1> QED
  BY <1>2 DEF Newest

LEMMA FewStay ==
    ASSUME NEW ring, NEW n \in Nat, CleanRing(ring, n)
    PROVE  IsDictionary(ring) /\ DOMAIN ring \subseteq Dates /\ Trimmed(ring, n) = ring
<1>1. /\ IsDictionary(ring) /\ DOMAIN ring \subseteq Dates /\ Cardinality(DOMAIN ring) <= n
  BY DEF CleanRing
<1>2. Newest(DOMAIN ring, n) = DOMAIN ring
  BY <1>1, NewestOfFew
<1>3. Trimmed(ring, n) = [d \in DOMAIN ring |-> ring[d]]
  BY <1>2 DEF Trimmed, Where
<1> QED
  BY <1>1, <1>3 DEF IsDictionary

LEMMA CleanCellStays ==
    ASSUME NoValuesAssumed, NEW c \in CleanCell, NEW e
    PROVE  CellOf(c, e) = c
<1>1. c = [factor |-> c.factor, n |-> c.n] /\ c.factor \in Lo..Hi /\ c.n \in Nat
  BY DEF CleanCell
<1>2. IsDictionary([factor |-> c.factor, n |-> c.n])
  BY DEF IsDictionary
<1>3. Present(c)
  BY <1>1, <1>2, DictionaryIsPresent
<1>4. Clamp(c.factor) = c.factor
  BY <1>1, InBand, StoreAssumption
<1>5. CountOf(c.n) = c.n
  BY <1>1, NullAssumption DEF CountOf, Present
<1> QED
  BY <1>1, <1>3, <1>4, <1>5 DEF CellOf

LEMMA CleanCellsStay ==
    ASSUME NoValuesAssumed, NEW v, CleanCells(v)
    PROVE  IsCellSection(v)
  BY CleanCellStays DEF CleanCells, CleanBins, IsCellSection

LEMMA CleanChannelsStay ==
    ASSUME NoValuesAssumed, NEW v, CleanChannels(v)
    PROVE  IsChannelSection(v)
  BY CleanCellStays DEF CleanChannels, CleanBins, IsChannelSection

LEMMA CleanQuantilesStay ==
    ASSUME NoValuesAssumed, NEW v, CleanQuantiles(v)
    PROVE  IsQuantileSection(v)
<1> DEFINE E == [date : Dates \cup {Null}, err : Lo..Hi]
<1>1. ASSUME NEW x \in E PROVE x # Bad /\ ErrorEntry(x) = x
  <2>1. x = [date |-> x.date, err |-> x.err] /\ x.date \in Dates \cup {Null} /\ x.err \in Lo..Hi
    OBVIOUS
  <2>2. IsDictionary([date |-> x.date, err |-> x.err])
    BY DEF IsDictionary
  <2>3. x # Bad
    BY <2>1, <2>2, DictionaryIsPresent
  <2>4. x.date # Bad
    <3>1. CASE x.date \in Dates
      <4>1. Bad \notin Dates
        <5>1. Bad \notin Nat
          BY ONLY NullAssumption
        <5>2. Dates \subseteq Nat
          BY ONLY StoreAssumption
        <5> QED
          BY ONLY <5>1, <5>2
      <4> QED
        BY <3>1, <4>1
    <3>2. CASE x.date = Null
      BY <3>2, NoValueAssumption
    <3>3. x.date \in Dates \cup {Null}
      BY ONLY <2>1
    <3> QED
      BY <3>1, <3>2, <3>3
  <2>5. Clamp(x.err) = x.err
    BY <2>1, InBand, StoreAssumption
  <2> QED
    BY <2>1, <2>3, <2>4, <2>5 DEF ErrorEntry
<1>2. ASSUME NEW list \in Seq(E), list # <<>> PROVE IsErrorList(list)
  <2> HIDE DEF E
  <2>1. /\ Len(list) \in Nat \ {0} /\ list = [i \in 1..Len(list) |-> list[i]]
        /\ \A i \in 1..Len(list) : list[i] \in E
    BY <1>2
  <2> QED
    BY <1>1, <2>1 DEF IsErrorList
<1> HIDE DEF E
<1>3. /\ v = [bins |-> v.bins] /\ IsDictionary(v.bins)
      /\ \A b \in DOMAIN v.bins : b # BadKey /\ v.bins[b] # <<>> /\ v.bins[b] \in Seq(E)
  BY DEF CleanQuantiles, E
<1> QED
  BY <1>2, <1>3 DEF IsQuantileSection

LEMMA CleanSnapshotStays ==
    ASSUME NoValuesAssumed, NEW v, CleanSnapshot(v)
    PROVE  IsSnapshot(v)
<1>1. Cells(v.bias) = v.bias
  BY CleanCellsStay, CellsStay DEF CleanSnapshot
<1>2. Channels(v.shade) = v.shade
  BY CleanChannelsStay, ChannelsStay DEF CleanSnapshot
<1>3. v.quantile # Null => Quantiles(v.quantile) = v.quantile
  BY CleanQuantilesStay, QuantilesStay DEF CleanSnapshot
<1> QED
  BY <1>1, <1>2, <1>3 DEF CleanSnapshot, IsSnapshot

LEMMA FullDriftIsState ==
    ASSUME NoValuesAssumed, NEW v, CleanDrift(v, FirstDriftNames \cup DayAheadNames)
    PROVE  IsDriftState(v)
<1>1. \A n \in Nat : IsStreak(n)
  BY NullAssumption DEF IsStreak, CountOf, Present
<1>2. Present(v["version"]) /\ v["frozen"] # Bad
  BY NullAssumption DEF CleanDrift, Present
<1>3. RowsOf(v["mae"]) = v["mae"]
  BY RowsStay DEF CleanDrift
<1>4. /\ v["fastStreak"] \in Nat /\ v["slowStreak"] \in Nat /\ v["dayAheadStreak"] \in Nat
      /\ v["fastOff"] \in BOOLEAN /\ v["slowOff"] \in BOOLEAN /\ v["dayAheadOff"] \in BOOLEAN
      /\ v["dayAheadSeen"] \in BOOLEAN \cup {Null}
  BY DEF CleanDrift
<1>5. IsDictionary(v) /\ DOMAIN v = FirstDriftNames \cup DayAheadNames
  BY DEF CleanDrift
<1> QED
  BY <1>1, <1>2, <1>3, <1>4, <1>5 DEF IsDriftState

\* A clean drift section is what some state is written as.
LEMMA CleanDriftStays ==
    ASSUME NoValuesAssumed, NEW v,
           CleanDrift(v, FirstDriftNames \cup IF v.version >= 2 THEN DayAheadNames ELSE {})
    PROVE  Drift(v) = v
<1> DEFINE names == FirstDriftNames \cup IF v.version >= 2 THEN DayAheadNames ELSE {}
           d == [f \in FirstDriftNames \cup DayAheadNames |->
                    IF f \in names THEN v[f]
                    ELSE IF f = "dayAheadStreak" THEN 0 ELSE FALSE]
<1>1. \A n \in Nat : IsStreak(n)
  BY NullAssumption DEF IsStreak, CountOf, Present
<1>2. Present(v["version"]) /\ v["frozen"] # Bad
  BY NullAssumption DEF CleanDrift, Present
<1>3. RowsOf(v["mae"]) = v["mae"]
  BY RowsStay DEF CleanDrift
<1>4. /\ d["version"] = v["version"] /\ d["mae"] = v["mae"] /\ d["frozen"] = v["frozen"]
      /\ d["fastStreak"] = v["fastStreak"] /\ d["slowStreak"] = v["slowStreak"]
      /\ d["fastOff"] = v["fastOff"] /\ d["slowOff"] = v["slowOff"]
  BY DEF FirstDriftNames, DayAheadNames
<1>5. /\ d["dayAheadStreak"] \in Nat /\ d["dayAheadOff"] \in BOOLEAN
      /\ d["dayAheadSeen"] \in BOOLEAN \cup {Null}
  <2>1. CASE v.version >= 2
    <3>1. DayAheadNames \subseteq names
      BY <2>1
    <3>2. d["dayAheadStreak"] = v["dayAheadStreak"] /\ d["dayAheadOff"] = v["dayAheadOff"]
          /\ d["dayAheadSeen"] = v["dayAheadSeen"]
      BY <3>1 DEF DayAheadNames
    <3> HIDE DEF d
    <3> QED
      BY <3>1, <3>2 DEF CleanDrift
  <2>2. CASE ~(v.version >= 2)
    BY <2>2 DEF DayAheadNames, FirstDriftNames
  <2> QED
    BY <2>1, <2>2
<1>6. DOMAIN d = FirstDriftNames \cup DayAheadNames /\ IsDictionary(d)
  BY DEF IsDictionary
<1>7. IsDictionary(v) /\ DOMAIN v = names /\ names \subseteq FirstDriftNames \cup DayAheadNames
  BY DEF CleanDrift
<1>8. \A f \in names : d[f] = v[f]
  BY <1>7
<1>9. /\ v["fastStreak"] \in Nat /\ v["slowStreak"] \in Nat
      /\ v["fastOff"] \in BOOLEAN /\ v["slowOff"] \in BOOLEAN
  BY DEF CleanDrift
<1> HIDE DEF d
<1>10. IsStreak(d["fastStreak"]) /\ IsStreak(d["slowStreak"]) /\ IsStreak(d["dayAheadStreak"])
  BY <1>1, <1>4, <1>5, <1>9
<1>11. IsDriftState(d)
  BY <1>2, <1>3, <1>4, <1>5, <1>6, <1>9, <1>10 DEF IsDriftState
<1>12. {f \in DOMAIN d : d["version"] >= 2 \/ f \notin DayAheadNames} = names
  <2>1. FirstDriftNames \cap DayAheadNames = {}
    BY DEF FirstDriftNames, DayAheadNames
  <2> QED
    BY <1>4, <1>6, <2>1
<1> HIDE DEF names
<1>13. DriftWritten(d) = [f \in names |-> d[f]]
  BY <1>12 DEF DriftWritten, Where
<1>14. DriftWritten(d) = [f \in names |-> v[f]]
  BY <1>8, <1>13
<1>15. DriftWritten(d) = v
  BY <1>7, <1>14 DEF IsDictionary
<1> QED
  BY <1>11, <1>15, DriftAgain

\* The round trip is the identity on clean data (store.py,
\* _validate_learner_sections): every from_dict leaves what its fields may hold.
THEOREM CleanStays ==
    ASSUME NoValuesAssumed, NEW s \in Sections, NEW v, Clean(s, v)
    PROVE  CoercedSection(s, v) = v
<1>1. CASE s = "payload"
  <2>1. CASE v = Null
    BY <1>1, <2>1 DEF CoercedSection, LastPayload, Present
  <2>2. CASE v # Null
    <3>1. v = [payload |-> v.payload, fetched |-> v.fetched] /\ v.payload # Bad /\ v.fetched # Bad
      BY <1>1, <2>2 DEF Clean
    <3>2. IsDictionary([payload |-> v.payload, fetched |-> v.fetched])
      BY DEF IsDictionary
    <3>3. Present(v)
      BY <3>1, <3>2, DictionaryIsPresent
    <3> QED
      BY <1>1, <3>1, <3>3 DEF CoercedSection, LastPayload
  <2> QED
    BY <2>1, <2>2
<1>2. CASE s \in {"issued", "actuals", "comparison"}
  <2>1. CleanRing(v, SectionDays) /\ \A d \in DOMAIN v : v[d] # Bad
    BY <1>2 DEF Clean
  <2>2. IsDictionary(v) /\ DOMAIN v \subseteq Dates /\ Trimmed(v, SectionDays) = v
    BY <2>1, FewStay, StoreAssumption
  <2>3. RowsOf(v) = v
    BY <2>1, <2>2, RowsStay, StoreAssumption
  <2>4. CoercedSection(s, v) = RingOf(v, SectionDays)
    BY <1>2 DEF CoercedSection
  <2> QED
    BY <2>2, <2>3, <2>4 DEF RingOf
<1>3. CASE s = "hourly"
  <2>1. /\ CleanRing(v, HourlyDays)
        /\ \A d \in DOMAIN v : v[d] # Bad /\ Bad \notin v[d] /\ v[d] # {}
    BY <1>3 DEF Clean
  <2>2. IsDictionary(v) /\ DOMAIN v \subseteq Dates /\ Trimmed(v, HourlyDays) = v
    BY <2>1, FewStay, StoreAssumption
  <2>3. \A d \in DOMAIN v : d # BadKey /\ v[d] # Bad /\ v[d] \ {Bad} = v[d] /\ v[d] # {}
    BY <2>1, <2>2, StoreAssumption
  <2>4. HourlyRing(v) = v
    BY <2>2, <2>3, HourlyStays
  <2> QED
    BY <1>3, <2>4 DEF CoercedSection
<1>4. CASE s \in {"bias", "scores"}
  <2>1. CleanCells(v)
    BY <1>4 DEF Clean
  <2>2. CoercedSection(s, v) = Cells(v)
    BY <1>4 DEF CoercedSection
  <2> QED
    BY <2>1, <2>2, CleanCellsStay, CellsStay
<1>5. CASE s = "shade"
  <2>1. CleanChannels(v)
    BY <1>5 DEF Clean
  <2>2. CoercedSection(s, v) = Channels(v)
    BY <1>5 DEF CoercedSection
  <2> QED
    BY <2>1, <2>2, CleanChannelsStay, ChannelsStay
<1>6. CASE s = "quantile"
  <2>1. CleanQuantiles(v)
    BY <1>6 DEF Clean
  <2>2. CoercedSection(s, v) = Quantiles(v)
    BY <1>6 DEF CoercedSection
  <2> QED
    BY <2>1, <2>2, CleanQuantilesStay, QuantilesStay
<1>7. CASE s = "drift"
  <2>1. CleanDrift(v, FirstDriftNames \cup IF v.version >= 2 THEN DayAheadNames ELSE {})
    BY <1>7 DEF Clean
  <2>2. CoercedSection(s, v) = Drift(v)
    BY <1>7 DEF CoercedSection
  <2> QED
    BY <2>1, <2>2, CleanDriftStays
<1>8. CASE s = "snapshots"
  <2>1. IsList(v) /\ Len(v) <= SnapshotRing /\ \A i \in DOMAIN v : CleanSnapshot(v[i])
    BY <1>8 DEF Clean
  <2>2. Len(v) \in Nat /\ v = [i \in 1..Len(v) |-> v[i]] /\ DOMAIN v = 1..Len(v)
    BY <2>1 DEF IsList
  <2>3. \A i \in 1..Len(v) : IsSnapshot(v[i])
    BY <2>1, <2>2, CleanSnapshotStays
  <2>4. Len(v) \in 0..SnapshotRing
    BY <2>1, <2>2, StoreAssumption
  <2>5. IsSnapshotRing(v)
    BY <2>2, <2>3, <2>4 DEF IsSnapshotRing
  <2> QED
    BY <1>8, <2>5, SnapshotsStay DEF CoercedSection
<1>9. CASE s \in MarkSections
  <2>1. v \subseteq Dates /\ Cardinality(v) <= MarkDays
    BY <1>9 DEF Clean, MarkSections
  <2>2. Newest(v, MarkDays) = v
    BY <2>1, NewestOfFew, StoreAssumption
  <2>3. Marks(v) = v
    BY <2>1, <2>2, MarksAgain
  <2>4. CoercedSection(s, v) = Marks(v)
    BY <1>9 DEF CoercedSection, MarkSections
  <2> QED
    BY <2>3, <2>4
<1>10. CASE s = "calibration"
  <2>1. v = [eta |-> v.eta, n |-> v.n] /\ v.eta \in Nat /\ v.n \in Nat
    BY <1>10 DEF Clean
  <2>2. IsDictionary([eta |-> v.eta, n |-> v.n])
    BY DEF IsDictionary
  <2>3. Present(v)
    BY <2>1, <2>2, DictionaryIsPresent
  <2>4. Present(v.eta) /\ ~(v.eta < 0) /\ CountOf(v.n) = v.n
    BY <2>1, NullAssumption DEF Present, CountOf
  <2>5. Calibration(v) = v
    BY <2>1, <2>3, <2>4 DEF Calibration
  <2> QED
    BY <1>10, <2>5 DEF CoercedSection
<1>11. CASE s = "fingerprint"
  BY <1>11 DEF Clean, CoercedSection
<1>12. CASE s = "audit"
  <2> DEFINE l == v.last
  <2>1. /\ v = [day |-> v.day, counts |-> v.counts, last |-> v.last]
        /\ v.day # Bad /\ v.counts \in Nat
        /\ l # Null => l \in [offset : (0..2) \cup {Null}, refreshed : BOOLEAN]
    BY <1>12 DEF Clean
  <2>2. IsDictionary([day |-> v.day, counts |-> v.counts, last |-> v.last])
    BY DEF IsDictionary
  <2>3. Present(v)
    BY <2>1, <2>2, DictionaryIsPresent
  <2>4. CountOf(v.counts) = v.counts
    BY <2>1, NullAssumption DEF Present, CountOf
  <2>5. (IF ~Present(l) THEN Null
         ELSE [offset |-> IF l.offset \in 0..2 THEN l.offset ELSE Null,
               refreshed |-> l.refreshed \in BOOLEAN /\ l.refreshed]) = l
    <3>1. CASE l = Null
      BY <3>1 DEF Present
    <3>2. CASE l # Null
      <4>1. /\ l = [offset |-> l.offset, refreshed |-> l.refreshed]
            /\ l.offset \in 0..2 \/ l.offset = Null
            /\ l.refreshed \in BOOLEAN
        BY <2>1, <3>2
      <4>2. IsDictionary([offset |-> l.offset, refreshed |-> l.refreshed])
        BY DEF IsDictionary
      <4>3. Present(l)
        BY <4>1, <4>2, DictionaryIsPresent
      <4>4. (IF l.offset \in 0..2 THEN l.offset ELSE Null) = l.offset
        BY <4>1
      <4>5. (l.refreshed \in BOOLEAN /\ l.refreshed) = l.refreshed
        BY <4>1
      <4> QED
        BY <4>1, <4>3, <4>4, <4>5
    <3> QED
      BY <3>1, <3>2
  <2>6. Audit(v) = [day |-> v.day, counts |-> v.counts, last |-> l]
    BY <2>1, <2>3, <2>4, <2>5 DEF Audit
  <2> QED
    BY <1>12, <2>1, <2>6 DEF CoercedSection
<1>13. CASE s = "health"
  <2>1. CleanHealth(v)
    BY <1>13 DEF Clean
  <2>2. CountOf(v.streak) = v.streak /\ CountOf(v.oobStreak) = v.oobStreak
    BY <2>1, NullAssumption DEF CleanHealth, Present, CountOf
  <2>3. IsHealth(v)
    BY <2>1, <2>2 DEF CleanHealth, IsHealth
  <2> QED
    BY <1>13, <2>3, HealthStays DEF CoercedSection
<1> QED
  BY <1>1, <1>2, <1>3, <1>4, <1>5, <1>6, <1>7, <1>8, <1>9, <1>10, <1>11, <1>12, <1>13
  DEF Sections, OldSections, LearnerSections, NewSections, MarkSections

-----------------------------------------------------------------------------
(* What is written.                                                         *)

\* What _empty_state holds.
LEMMA EmptyIsHeld ==
    ASSUME NoValuesAssumed, NEW s \in Sections
    PROVE  IsHeld(s, Empty(s))
<1>1. ListsAreLists(s, Null) /\ DatesAreDates(s, Null)
  BY DEF ListsAreLists, DatesAreDates, BinsAreLists, Present
<1> QED
  BY <1>1, CoercedIsHeld DEF Empty

\* A value of a section that no other part of the file depends on.
Plain == Sections \ (DayRings \cup MarkSections \cup {"snapshots"})

LEMMA PlainIsHeld ==
    ASSUME NEW s \in Plain, NEW v, CoercedSection(s, v) = v
    PROVE  IsHeld(s, v)
  BY DEF Plain, IsHeld

\* Every setter and recorder leaves a section that is read back as it is.
LEMMA WrittenIsHeld ==
    ASSUME NoValuesAssumed, NEW s \in DOMAIN Written, NEW v \in Written[s],
           NEW old, IsHeld(s, old)
    PROVE  IsHeld(s, Recorded(s, old, v))
<1>1. s \in Sections /\
      CASE s \in {"issued", "actuals", "comparison", "hourly", "trained", "inverterDays"} ->
             v \in Dates
        [] s = "snapshots" -> Present(v) => BinsAreLists(v.quantile)
        [] s = "drift" -> CleanDrift(v, FirstDriftNames \cup DayAheadNames)
        [] s \in {"health", "audit"} -> DatesAreDates(s, v)
        [] OTHER -> Clean(s, v)
  BY FilesAssumption
<1>2. CASE s \in {"issued", "actuals", "comparison"}
  <2>1. v \in Dates
    BY <1>1, <1>2
  <2> DEFINE days == DOMAIN old \cup {v}
             ring == Trimmed(Dated(days, "row"), SectionDays)
  <2>2. days \subseteq Dates /\ SectionDays \in Nat
    BY <1>2, <2>1, StoreAssumption DEF IsHeld, DayRings
  <2>3. Recorded(s, old, v) = ring
    BY <1>2 DEF Recorded
  <2> HIDE DEF days
  <2>4. DOMAIN ring \subseteq Dates /\ RingOf(ring, SectionDays) = ring
    BY <2>2, RecordedRing
  <2> HIDE DEF ring
  <2>5. CoercedSection(s, ring) = RingOf(ring, SectionDays)
    BY <1>2 DEF CoercedSection
  <2> QED
    BY <1>2, <2>3, <2>4, <2>5 DEF IsHeld, MarkSections
<1>3. CASE s = "hourly"
  <2>1. v \in Dates
    BY <1>1, <1>3
  <2> DEFINE days == DOMAIN old \cup {v}
             ring == Trimmed(Dated(days, {"row"}), HourlyDays)
  <2>2. days \subseteq Dates
    BY <1>3, <2>1 DEF IsHeld, DayRings
  <2>3. Recorded(s, old, v) = ring
    BY <1>3 DEF Recorded
  <2> HIDE DEF days
  <2>4. DOMAIN ring \subseteq Dates /\ HourlyRing(ring) = ring
    BY <2>2, RecordedHourly
  <2> HIDE DEF ring
  <2>5. CoercedSection(s, ring) = HourlyRing(ring)
    BY <1>3 DEF CoercedSection
  <2> QED
    BY <1>3, <2>3, <2>4, <2>5 DEF IsHeld, MarkSections
<1>4. CASE s \in MarkSections
  <2>1. v \in Dates
    BY <1>1, <1>4 DEF MarkSections
  <2> DEFINE days == old \cup {v}
             marks == Newest(days, MarkDays)
  <2>2. days \subseteq Dates
    BY <1>4, <2>1 DEF IsHeld
  <2>3. Recorded(s, old, v) = marks
    BY <1>4 DEF Recorded, MarkSections
  <2> HIDE DEF days
  <2>4. marks \subseteq Dates /\ Marks(marks) = marks
    BY <2>2, MarksAgain
  <2> HIDE DEF marks
  <2>5. CoercedSection(s, marks) = Marks(marks)
    BY <1>4 DEF CoercedSection, MarkSections
  <2> QED
    BY <1>4, <2>3, <2>4, <2>5 DEF IsHeld, MarkSections, DayRings
<1>5. CASE s = "snapshots"
  <2>1. Present(v) => BinsAreLists(v.quantile)
    BY <1>1, <1>5
  <2>2. IsSnapshot(Snapshot(v)) /\ IsSnapshotRing(old)
    BY <1>5, <2>1, SnapshotRead DEF IsHeld
  <2> DEFINE ring == LastFew(Append(old, Snapshot(v)), SnapshotRing)
  <2>3. Recorded(s, old, v) = ring
    BY <1>5 DEF Recorded
  <2>4. IsSnapshotRing(ring)
    BY <2>2, PushedSnapshot
  <2> HIDE DEF ring
  <2>5. CoercedSection(s, ring) = ring
    BY <1>5, <2>4, SnapshotsStay DEF CoercedSection
  <2> QED
    BY <1>5, <2>3, <2>4, <2>5 DEF IsHeld, MarkSections, DayRings
<1>6. CASE s = "drift"
  <2>1. IsDriftState(v)
    BY <1>1, <1>6, FullDriftIsState
  <2>2. Drift(DriftWritten(v)) = DriftWritten(v)
    BY <2>1, DriftAgain
  <2>3. Recorded(s, old, v) = DriftWritten(v)
    BY <1>6 DEF Recorded
  <2>4. CoercedSection(s, DriftWritten(v)) = DriftWritten(v)
    BY <1>6, <2>2 DEF CoercedSection
  <2> QED
    BY <1>6, <2>3, <2>4 DEF IsHeld, MarkSections, DayRings
<1>8. CASE s \in {"health", "audit"}
  <2>1. ListsAreLists(s, v) /\ DatesAreDates(s, v)
    BY <1>1, <1>8 DEF ListsAreLists
  <2>2. Recorded(s, old, v) = CoercedSection(s, v)
    BY <1>8 DEF Recorded
  <2> QED
    BY <1>1, <2>1, <2>2, CoercedIsHeld
<1>7. CASE s \notin DayRings \cup MarkSections \cup {"snapshots", "drift", "health", "audit"}
  <2>1. CoercedSection(s, v) = v
    <3>1. Clean(s, v)
      BY <1>1, <1>7 DEF DayRings, MarkSections
    <3> QED
      BY <1>1, <3>1, CleanStays
  <2>2. Recorded(s, old, v) = v
    BY <1>7 DEF Recorded, DayRings, MarkSections
  <2>3. s \in Plain
    BY <1>1, <1>7 DEF Plain
  <2> QED
    BY <2>1, <2>2, <2>3, PlainIsHeld
<1> QED
  BY <1>2, <1>3, <1>4, <1>5, <1>6, <1>7, <1>8 DEF DayRings

-----------------------------------------------------------------------------
(* Imports.                                                                 *)

\* A bin whose credit is capped is one that from_dict leaves.
LEMMA CappedCell ==
    ASSUME NoValuesAssumed, NEW c, CellOf(c, Hi) = c
    PROVE  CellOf(CreditCapped(c), Hi) = CreditCapped(c)
<1> DEFINE d == CreditCapped(c)
           n == IF c.n > MaxImportedN THEN MaxImportedN ELSE c.n
<1>1. /\ c = [factor |-> c.factor, n |-> c.n]
      /\ Clamp(c.factor) = c.factor /\ CountOf(c.n) = c.n
  <2>1. CASE Present(c)
    <3>1. c = [factor |-> Clamp(c.factor), n |-> CountOf(c.n)]
      BY <2>1 DEF CellOf
    <3> QED
      BY <3>1
  <2>2. CASE ~Present(c)
    <3>1. c = [factor |-> Hi, n |-> 0]
      BY <2>2 DEF CellOf
    <3>2. Clamp(Hi) = Hi /\ CountOf(0) = 0
      BY InBand, StoreAssumption, NullAssumption DEF CountOf, Present
    <3> QED
      BY <3>1, <3>2
  <2> QED
    BY <2>1, <2>2
<1>2. CountOf(n) = n
  <2>1. MaxImportedN \in Nat /\ Present(MaxImportedN) /\ ~(MaxImportedN < 0)
    BY StoreAssumption, NullAssumption DEF Present
  <2> QED
    BY <1>1, <2>1 DEF CountOf
<1>3. d = [factor |-> c.factor, n |-> n]
  BY <1>1 DEF CreditCapped
<1> HIDE DEF n
<1>4. IsDictionary([factor |-> c.factor, n |-> n])
  BY DEF IsDictionary
<1>5. Present(d)
  BY <1>3, <1>4, DictionaryIsPresent
<1>6. d.factor = c.factor /\ d.n = n
  BY <1>3
<1> HIDE DEF d
<1>7. CellOf(d, Hi) = d
  BY <1>1, <1>2, <1>3, <1>5, <1>6 DEF CellOf
<1> QED
  BY <1>7 DEF d

LEMMA CappedIsHeld ==
    ASSUME NoValuesAssumed, NEW v, IsChannelSection(v)
    PROVE  IsChannelSection(CappedChannels(v))
<1> DEFINE Bins(k) == [b \in DOMAIN v.cells[k] |-> CreditCapped(v.cells[k][b])]
           cells == [k \in DOMAIN v.cells |-> Bins(k)]
           w == CappedChannels(v)
<1>1. w = [version |-> 1, cells |-> cells]
  <2>1. w = [v EXCEPT !.cells = cells]
    BY DEF CappedChannels
  <2> HIDE DEF cells, w
  <2>2. v = [version |-> 1, cells |-> v.cells]
    BY DEF IsChannelSection
  <2> QED
    BY <2>1, <2>2
<1>2. ASSUME NEW k \in DOMAIN v.cells
      PROVE  /\ k # BadKey /\ IsDictionary(Bins(k))
             /\ \A b \in DOMAIN Bins(k) : CellOf(Bins(k)[b], Hi) = Bins(k)[b]
  <2>1. ASSUME NEW b \in DOMAIN v.cells[k]
        PROVE  CellOf(CreditCapped(v.cells[k][b]), Hi) = CreditCapped(v.cells[k][b])
    <3>1. CellOf(v.cells[k][b], Hi) = v.cells[k][b]
      BY DEF IsChannelSection
    <3> QED
      BY <3>1, CappedCell
  <2>2. k # BadKey
    BY DEF IsChannelSection
  <2> QED
    BY <2>1, <2>2 DEF IsDictionary
<1> HIDE DEF Bins
<1>3. /\ IsDictionary(cells)
      /\ \A k \in DOMAIN cells :
            /\ k # BadKey /\ IsDictionary(cells[k])
            /\ \A b \in DOMAIN cells[k] : CellOf(cells[k][b], Hi) = cells[k][b]
  BY <1>2 DEF IsDictionary
<1> HIDE DEF cells, w
<1>4. w.cells = cells
  BY <1>1
<1>5. IsChannelSection(w)
  BY <1>1, <1>3, <1>4 DEF IsChannelSection
<1> QED
  BY <1>5 DEF w

\* An accepted payload gives three sections that are read back as they are.
LEMMA IngestedIsHeld ==
    ASSUME NoValuesAssumed, NEW p \in Payloads, ~Refused(p),
           Quantiles(memory["quantile"]) = memory["quantile"]
    PROVE  LET new == Ingested(p)
           IN /\ Cells(new.bias) = new.bias /\ Channels(new.shade) = new.shade
              /\ Quantiles(new.quantile) = new.quantile
<1> DEFINE q == IF "quantile" \in DOMAIN p THEN Quantiles(p.quantile) ELSE memory["quantile"]
           new == Ingested(p)
<1>1. new = [bias |-> Cells(p.bias), shade |-> CappedChannels(Channels(p.shade)), quantile |-> q]
  BY DEF Ingested
<1>2. new.bias = Cells(p.bias) /\ new.shade = CappedChannels(Channels(p.shade)) /\ new.quantile = q
  BY <1>1
<1>3. Quantiles(q) = q
  <2>1. CASE "quantile" \in DOMAIN p
    <3>1. BinsAreLists(p.quantile)
      BY <2>1, FilesAssumption DEF Refused
    <3> QED
      BY <2>1, <3>1, QuantilesAre, QuantilesStay
  <2>2. CASE "quantile" \notin DOMAIN p
    BY <2>2
  <2> QED
    BY <2>1, <2>2
<1> HIDE DEF q, new
<1>4. Cells(new.bias) = new.bias
  BY <1>2, CellsAgain
<1>5. Channels(new.shade) = new.shade
  BY <1>2, ChannelsAre, CappedIsHeld, ChannelsStay
<1> QED
  BY <1>2, <1>3, <1>4, <1>5 DEF new

-----------------------------------------------------------------------------
(* The invariant of the store.                                              *)

IsWrittenFile(f) ==
    /\ f = [schema |-> CurrentSchema, sections |-> f.sections]
    /\ DOMAIN f.sections = Sections
    /\ \A s \in Sections : IsHeld(s, f.sections[s])

\* Whatever is in memory is read back as it is, and so is a file of this program.
StoreInv ==
    /\ StoreTypeOK
    /\ IsDictionary(memory)
    /\ \A s \in Sections : IsHeld(s, memory[s])
    /\ file \in Files \/ IsWrittenFile(file)

LEMMA InitStore ==
    ASSUME NoValuesAssumed, StoreInit
    PROVE  StoreInv
<1>1. memory = [s \in Sections |-> Empty(s)]
  BY DEF StoreInit
<1>2. \A s \in Sections : IsHeld(s, memory[s])
  BY <1>1, EmptyIsHeld
<1>3. StoreTypeOK
  <2>1. DOMAIN memory = Sections
    BY <1>1
  <2>2. unsaved = FALSE /\ running = FALSE /\ changes = 0 /\ 0 \in 0..MaxChanges
    BY StoreAssumption DEF StoreInit, StoreIdle
  <2> QED
    BY <2>1, <2>2 DEF StoreTypeOK
<1>4. IsDictionary(memory)
  BY <1>1 DEF IsDictionary
<1> QED
  BY <1>2, <1>3, <1>4 DEF StoreInv, StoreInit

\* A file of this program is found again.
LEMMA WrittenIsFound ==
    ASSUME NoValuesAssumed, NEW f, IsWrittenFile(f)
    PROVE  ValidatedState(f) = [s \in Sections |-> f.sections[s]]
<1>1. IsDictionary([schema |-> CurrentSchema, sections |-> f.sections])
  BY DEF IsDictionary
<1>2. Present(f)
  BY <1>1, DictionaryIsPresent DEF IsWrittenFile
<1>3. f.schema = CurrentSchema
  BY DEF IsWrittenFile
<1>4. KnownIn(f.schema) = Sections
  BY <1>3, StoreAssumption DEF KnownIn
<1>5. ASSUME NEW s \in Sections PROVE CoercedSection(s, f.sections[s]) = f.sections[s]
  BY DEF IsWrittenFile, IsHeld
<1>6. DOMAIN f.sections = Sections
  BY DEF IsWrittenFile
<1> QED
  BY <1>2, <1>4, <1>5, <1>6 DEF ValidatedState

\* Whatever file is found, what is made of it is read back as it is.
LEMMA LoadedIsHeld ==
    ASSUME NoValuesAssumed, NEW f, f \in Files \/ IsWrittenFile(f), NEW s \in Sections
    PROVE  IsHeld(s, ValidatedState(f)[s])
<1>1. CASE IsWrittenFile(f)
  <2>1. ValidatedState(f)[s] = f.sections[s]
    BY <1>1, WrittenIsFound
  <2> QED
    BY <1>1, <2>1 DEF IsWrittenFile
<1>2. CASE f \in Files
  <2>1. CASE Present(f) /\ s \in KnownIn(f.schema) /\ s \in DOMAIN f.sections
    <3>1. ValidatedState(f)[s] = CoercedSection(s, f.sections[s])
      BY <2>1 DEF ValidatedState
    <3>2. ListsAreLists(s, f.sections[s]) /\ DatesAreDates(s, f.sections[s])
      BY <1>2, <2>1, FilesAssumption
    <3> QED
      BY <3>1, <3>2, CoercedIsHeld
  <2>2. CASE ~(Present(f) /\ s \in KnownIn(f.schema) /\ s \in DOMAIN f.sections)
    <3>1. ValidatedState(f)[s] = Empty(s)
      BY <2>2 DEF ValidatedState
    <3> QED
      BY <3>1, EmptyIsHeld
  <2> QED
    BY <2>1, <2>2
<1> QED
  BY <1>1, <1>2

LEMMA ImportKeeps ==
    ASSUME NoValuesAssumed, StoreInv, ImportPayload
    PROVE  /\ IsDictionary(memory') /\ DOMAIN memory' = Sections
           /\ \A s \in Sections : IsHeld(s, memory'[s])
           /\ memory'["snapshots"][Len(memory'["snapshots"])] =
                 Snapshot([bias |-> memory["bias"], shade |-> memory["shade"],
                           quantile |-> memory["quantile"]])
<1>1. PICK p \in Payloads :
         /\ ~Refused(p)
         /\ LET new == Ingested(p)
            IN memory' = [memory EXCEPT
                  !["snapshots"] =
                      LastFew(Append(@, Snapshot(RollbackPoint(new))), SnapshotRing),
                  !["bias"] = new.bias, !["shade"] = new.shade,
                  !["quantile"] = new.quantile]
  BY DEF ImportPayload
<1> DEFINE new == Ingested(p)
           point == [bias |-> memory["bias"], shade |-> memory["shade"],
                     quantile |-> memory["quantile"]]
           ring == LastFew(Append(memory["snapshots"], Snapshot(point)), SnapshotRing)
<1>2. RollbackPoint(new) = point
  BY DEF RollbackPoint
<1>3. memory' = [memory EXCEPT !["snapshots"] = ring, !["bias"] = new.bias,
                               !["shade"] = new.shade, !["quantile"] = new.quantile]
  BY <1>1, <1>2
<1>4. DOMAIN memory = Sections /\ memory = [s \in Sections |-> memory[s]]
  BY DEF StoreInv, StoreTypeOK, IsDictionary
<1>5. \A s \in Sections : IsHeld(s, memory[s])
  BY DEF StoreInv
<1>6. {"bias", "shade", "quantile", "snapshots"} \subseteq Sections
  BY DEF Sections, OldSections, LearnerSections, NewSections
<1>7. Quantiles(memory["quantile"]) = memory["quantile"]
  <2>1. CoercedSection("quantile", memory["quantile"]) = memory["quantile"]
    BY <1>5, <1>6 DEF IsHeld
  <2> QED
    BY <2>1 DEF CoercedSection
<1>8. /\ Cells(new.bias) = new.bias /\ Channels(new.shade) = new.shade
      /\ Quantiles(new.quantile) = new.quantile
  BY <1>1, <1>7, IngestedIsHeld
<1>9. IsSnapshotRing(ring) /\ ring[Len(ring)] = Snapshot(point)
  <2>1. IsDictionary(point) /\ point.quantile = memory["quantile"]
    BY DEF IsDictionary
  <2> HIDE DEF point
  <2>2. Present(point)
    BY <2>1, DictionaryIsPresent
  <2>3. IsSnapshot(Snapshot(point))
    BY <1>7, <2>1, <2>2, SnapshotIs
  <2>4. IsSnapshotRing(memory["snapshots"])
    BY <1>5, <1>6 DEF IsHeld
  <2> QED
    BY <2>3, <2>4, PushedSnapshot
<1> HIDE DEF new, ring
<1>10. IsHeld("bias", new.bias) /\ IsHeld("shade", new.shade) /\ IsHeld("quantile", new.quantile)
  <2>1. {"bias", "shade", "quantile"} \subseteq Plain
    BY <1>6 DEF Plain, DayRings, MarkSections
  <2>2. /\ CoercedSection("bias", new.bias) = new.bias
        /\ CoercedSection("shade", new.shade) = new.shade
        /\ CoercedSection("quantile", new.quantile) = new.quantile
    BY <1>8 DEF CoercedSection
  <2> QED
    BY <2>1, <2>2, PlainIsHeld
<1>11. IsHeld("snapshots", ring)
  BY <1>9, SnapshotsStay DEF IsHeld, CoercedSection, DayRings, MarkSections
<1>12. /\ DOMAIN memory' = Sections /\ IsDictionary(memory')
       /\ memory'["snapshots"] = ring /\ memory'["bias"] = new.bias
       /\ memory'["shade"] = new.shade /\ memory'["quantile"] = new.quantile
       /\ \A s \in Sections \ {"bias", "shade", "quantile", "snapshots"} : memory'[s] = memory[s]
  BY <1>3, <1>4, <1>6 DEF IsDictionary
<1>13. ASSUME NEW s \in Sections PROVE IsHeld(s, memory'[s])
  BY <1>5, <1>10, <1>11, <1>12
<1> QED
  BY <1>9, <1>12, <1>13

LEMMA NextStore ==
    ASSUME NoValuesAssumed, StoreInv, [StoreNext]_storeVars
    PROVE  StoreInv'
<1>1. CASE LoadFile
  <2>1. memory' = ValidatedState(file) /\ file' = file
    BY <1>1 DEF LoadFile
  <2>2. \A s \in Sections : IsHeld(s, memory'[s])
    BY <2>1, LoadedIsHeld DEF StoreInv
  <2>3. IsDictionary(memory') /\ DOMAIN memory' = Sections
    BY <2>1 DEF ValidatedState, IsDictionary
  <2>4. unsaved' \in BOOLEAN /\ running' = TRUE /\ changes' = changes
    BY <1>1 DEF LoadFile
  <2>5. StoreTypeOK'
    BY <2>3, <2>4 DEF StoreTypeOK, StoreInv
  <2> QED
    BY <2>1, <2>2, <2>3, <2>5 DEF StoreInv, IsWrittenFile, IsDictionary
<1>2. CASE WriteSection
  <2>1. PICK s \in DOMAIN Written : \E v \in Written[s] :
           memory' = [memory EXCEPT ![s] = SetSection(s, v)]
    BY <1>2 DEF WriteSection
  <2>2. PICK v \in Written[s] : memory' = [memory EXCEPT ![s] = SetSection(s, v)]
    BY <2>1
  <2>3. s \in Sections
    BY <2>1, FilesAssumption
  <2>4. IsHeld(s, SetSection(s, v))
    BY <2>1, <2>2, <2>3, WrittenIsHeld DEF StoreInv, SetSection
  <2>5. DOMAIN memory = Sections /\ memory = [x \in Sections |-> memory[x]]
    BY DEF StoreInv, StoreTypeOK, IsDictionary
  <2>6. /\ DOMAIN memory' = Sections /\ IsDictionary(memory')
        /\ \A x \in Sections : memory'[x] = IF x = s THEN SetSection(s, v) ELSE memory[x]
    BY <2>2, <2>3, <2>5 DEF IsDictionary
  <2>7. \A x \in Sections : IsHeld(x, memory'[x])
    BY <2>4, <2>6 DEF StoreInv
  <2>8. file' = file /\ running' = running /\ running /\ unsaved' = TRUE
    BY <1>2 DEF WriteSection
  <2>9. changes' \in 0..MaxChanges
    BY <1>2, StoreAssumption DEF WriteSection, Change, StoreInv, StoreTypeOK
  <2>10. StoreTypeOK'
    BY <2>6, <2>8, <2>9 DEF StoreTypeOK, StoreInv
  <2> QED
    BY <2>6, <2>7, <2>8, <2>10 DEF StoreInv, IsWrittenFile, IsDictionary
<1>3. CASE ImportPayload
  <2>1. /\ IsDictionary(memory') /\ DOMAIN memory' = Sections
        /\ \A s \in Sections : IsHeld(s, memory'[s])
    BY <1>3, ImportKeeps
  <2>2. file' = file /\ running' = running /\ running /\ unsaved' = TRUE
    BY <1>3 DEF ImportPayload
  <2>3. changes' \in 0..MaxChanges
    BY <1>3, StoreAssumption DEF ImportPayload, Change, StoreInv, StoreTypeOK
  <2>4. StoreTypeOK'
    BY <2>1, <2>2, <2>3 DEF StoreTypeOK, StoreInv
  <2> QED
    BY <2>1, <2>2, <2>4 DEF StoreInv, IsWrittenFile, IsDictionary
<1>4. CASE WriteFile
  <2>1. /\ file' = [schema |-> CurrentSchema, sections |-> memory]
        /\ memory' = memory /\ changes' = changes /\ unsaved' = FALSE
        /\ running' \in BOOLEAN
    BY <1>4 DEF WriteFile
  <2>2. file'.sections = memory /\ DOMAIN memory = Sections
    BY <2>1 DEF StoreInv, StoreTypeOK
  <2>3. IsWrittenFile(file')
    BY <2>1, <2>2 DEF IsWrittenFile, StoreInv
  <2>4. StoreTypeOK'
    BY <2>1 DEF StoreTypeOK, StoreInv
  <2> QED
    BY <2>1, <2>3, <2>4 DEF StoreInv, IsWrittenFile, IsDictionary
<1>5. CASE Killed
  BY <1>5 DEF Killed, StoreInv, StoreTypeOK, IsWrittenFile, IsDictionary
<1>6. CASE UNCHANGED storeVars
  BY <1>6 DEF storeVars, StoreInv, StoreTypeOK, IsWrittenFile, IsDictionary
<1> QED
  BY <1>1, <1>2, <1>3, <1>4, <1>5, <1>6 DEF StoreNext

\* Whatever file is found and whatever is written or imported, every section in
\* memory is one that its from_dict leaves as it is (store.py: "the round-trip is
\* the identity on clean data").
THEOREM StoreInvariant ==
    ASSUME NoValuesAssumed
    PROVE  StoreSpec => []StoreInv
<1>1. StoreInit => StoreInv
  BY InitStore
<1>2. StoreInv /\ [StoreNext]_storeVars => StoreInv'
  BY NextStore
<1> QED
  BY <1>1, <1>2, PTL DEF StoreSpec

\* The variables of the store keep their types.
THEOREM StoreTypes ==
    ASSUME NoValuesAssumed
    PROVE  StoreSpec => []StoreTypeOK
<1>1. StoreInv => StoreTypeOK
  BY DEF StoreInv
<1> QED
  BY <1>1, StoreInvariant, PTL

LEMMA HeldReadsBack ==
    ASSUME NoValuesAssumed, StoreInv
    PROVE  ReadsBack
<1> DEFINE f == [schema |-> CurrentSchema, sections |-> memory]
<1>1. f.sections = memory /\ DOMAIN memory = Sections
  BY DEF StoreInv, StoreTypeOK
<1>2. IsWrittenFile(f)
  BY <1>1 DEF IsWrittenFile, StoreInv
<1> HIDE DEF f
<1>3. ValidatedState(f) = [s \in Sections |-> memory[s]]
  BY <1>1, <1>2, WrittenIsFound
<1>4. ValidatedState(f) = memory
  BY <1>1, <1>3 DEF StoreInv, IsDictionary
<1> QED
  BY <1>4 DEF ReadsBack, f

\* A start keeps every section that a version of this program may have written.
LEMMA LoadKeepsSound ==
    ASSUME NoValuesAssumed, StoreInv, LoadFile, Present(file), file.schema <= CurrentSchema,
           NEW s \in DOMAIN file.sections, file.sections[s] \in Sound[s]
    PROVE  memory'[s] = file.sections[s]
<1>1. s \in KnownIn(file.schema) /\ s \in Sections
  <2>1. CASE file \in Files
    <3>1. file.schema \in Nat \ {0} /\ DOMAIN file.sections \subseteq KnownIn(file.schema)
      BY <2>1, FilesAssumption
    <3>2. file.schema \in {1, 2, 3}
      BY <3>1, StoreAssumption
    <3>3. KnownIn(file.schema) \subseteq Sections
      BY <3>2, StoreAssumption DEF KnownIn, Sections
    <3> QED
      BY <3>1, <3>3
  <2>2. CASE IsWrittenFile(file)
    <3>1. file.schema = CurrentSchema /\ s \in Sections
      BY <2>2 DEF IsWrittenFile
    <3>2. KnownIn(file.schema) = Sections
      BY <3>1, StoreAssumption DEF KnownIn
    <3> QED
      BY <3>1, <3>2
  <2> QED
    BY <2>1, <2>2 DEF StoreInv
<1>2. memory'[s] = CoercedSection(s, file.sections[s])
  BY <1>1 DEF LoadFile, ValidatedState
<1>3. Clean(s, file.sections[s])
  BY <1>1, FilesAssumption
<1> QED
  BY <1>1, <1>2, <1>3, CleanStays

\* What the program holds it would find again, and a start keeps what any version
\* has written, for every file and every change.
THEOREM FileRoundTripsHolds ==
    ASSUME NoValuesAssumed
    PROVE  StoreSpec => FileRoundTrips
<1> DEFINE Found == ~running /\ running' /\ Present(file) /\ file.schema <= CurrentSchema =>
                       \A s \in DOMAIN file.sections :
                          file.sections[s] \in Sound[s] => memory'[s] = file.sections[s]
<1>1. StoreInv => ReadsBack
  BY HeldReadsBack
<1>2. ASSUME StoreInv, [StoreNext]_storeVars
      PROVE  [Found]_storeVars
  <2>1. ASSUME ~running, running' PROVE LoadFile
    BY <1>2, <2>1 DEF StoreNext, WriteSection, ImportPayload, WriteFile, Killed, storeVars
  <2>2. ASSUME ~running, running', Present(file), file.schema <= CurrentSchema,
               NEW s \in DOMAIN file.sections, file.sections[s] \in Sound[s]
        PROVE  memory'[s] = file.sections[s]
    BY <1>2, <2>1, <2>2, LoadKeepsSound
  <2> QED
    BY <2>2
<1>3. ReadsBack' /\ [Found]_storeVars => [ReadsBack' /\ Found]_storeVars
  OBVIOUS
<1> HIDE DEF Found
<1>4. StoreSpec => [][ReadsBack' /\ Found]_storeVars
  BY <1>1, <1>2, <1>3, StoreInvariant, PTL DEF StoreSpec
<1> QED
  BY <1>4, PTL DEF FileRoundTrips, Found

\* The newest snapshot after an import is what the import replaced.
THEOREM ImportRevertibleHolds ==
    ASSUME NoValuesAssumed
    PROVE  StoreSpec => ImportRevertible
<1> DEFINE Revertible ==
               ImportPayload =>
                  LET s == memory'["snapshots"][Len(memory'["snapshots"])]
                  IN /\ s.shade = memory["shade"] /\ s.bias = memory["bias"]
                     /\ \/ s.quantile = memory["quantile"]
                        \/ s.quantile = Null /\ memory["quantile"].bins = <<>>
<1>1. ASSUME StoreInv, ImportPayload
      PROVE  Revertible
  <2> DEFINE point == [bias |-> memory["bias"], shade |-> memory["shade"],
                       quantile |-> memory["quantile"]]
             s == memory'["snapshots"][Len(memory'["snapshots"])]
  <2>1. s = Snapshot(point)
    BY <1>1, ImportKeeps
  <2>2. /\ Cells(memory["bias"]) = memory["bias"] /\ Channels(memory["shade"]) = memory["shade"]
        /\ Quantiles(memory["quantile"]) = memory["quantile"]
    <3>1. {"bias", "shade", "quantile"} \subseteq Sections
      BY DEF Sections, OldSections, LearnerSections, NewSections
    <3>2. /\ CoercedSection("bias", memory["bias"]) = memory["bias"]
          /\ CoercedSection("shade", memory["shade"]) = memory["shade"]
          /\ CoercedSection("quantile", memory["quantile"]) = memory["quantile"]
      BY <1>1, <3>1 DEF StoreInv, IsHeld
    <3> QED
      BY <3>2 DEF CoercedSection
  <2>3. /\ point.bias = memory["bias"] /\ point.shade = memory["shade"]
        /\ point.quantile = memory["quantile"] /\ IsDictionary(point)
    BY DEF IsDictionary
  <2> HIDE DEF s, point
  <2>4. Present(point)
    BY <2>3, DictionaryIsPresent
  <2>5. s = [bias |-> memory["bias"], shade |-> memory["shade"],
             quantile |-> IF memory["quantile"].bins = <<>> THEN Null ELSE memory["quantile"]]
    BY <2>1, <2>2, <2>3, <2>4 DEF Snapshot
  <2>6. /\ s.bias = memory["bias"] /\ s.shade = memory["shade"]
        /\ s.quantile = IF memory["quantile"].bins = <<>> THEN Null ELSE memory["quantile"]
    BY <2>5
  <2> QED
    BY <2>6 DEF s
<1>2. ASSUME StoreInv, [StoreNext]_storeVars
      PROVE  [Revertible]_storeVars
  BY <1>1, <1>2
<1> QED
  BY <1>2, StoreInvariant, PTL DEF StoreSpec, ImportRevertible
=============================================================================
