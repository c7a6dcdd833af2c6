--------------------------- MODULE SiteConfiguration ---------------------------
(***************************************************************************)
(* The configuration of a site: what the flows accept (_site_validation.py, *)
(* config_flow.py), where the entry keeps it, what a reconfiguration        *)
(* announces and what the reload makes of it (core/config_fingerprint.py,   *)
(* core/config_changes.py, coordinator._reconcile_config_fingerprint).      *)
(*                                                                          *)
(* A site is [lat, albedo, ac, planes, groups]; a plane is [name, label,    *)
(* meter, shade, panel, horizon], panel standing for orientation, peak      *)
(* power, efficiency and Ross coefficient (Bad: one is out of range); a     *)
(* group is [name, members, limit].  Codes and texts of errors are left out.*)
(***************************************************************************)
EXTENDS Values, SequencesExt

CONSTANTS SiteForms,     \* submitted forms: [site, lat, ac, albedo, cadence]
          GuidedPanels,  \* panels of the guided setup: [plane, group, limit]
          LegacyOptions, \* << >>, and options of entries edited before there was a reconfiguration
          Switches,      \* what the options form may be submitted with
          NonPower,      \* entities whose attributes are no power sensor's
          MaxPlanes, MaxShadeGroups, MaxRows, MaxPoints, MaxLimit, MaxLoads

VARIABLES
    entryData,    \* entry.data: [lat, cadence, site], or << >> before the setup
    entryOptions, \* entry.options, a dictionary
    draft,        \* the site of an open guided setup, or Null
    proposal,     \* an open confirmation: [data, oldData, oldOptions, changed], or Null
    reloadDue,    \* the update listener was told
    site,         \* the site of the running coordinator, or Null
    kept,         \* of the store: [fp, cells], fp << >> if there is none, cells =
                  \* [basis, sure, restored]
    keptFile,     \* what its file has
    snapshotOf,   \* the newest rollback snapshot of the cells, or Null
    confirmed,    \* history: the site that was confirmed last
    announced,    \* history: fingerprints that a confirmation named as a restart
    restarts,     \* history: fingerprints for which a load restarted the learning
    loads

siteVars == <<entryData, entryOptions, draft, proposal, reloadDue, site, kept, keptFile,
              snapshotOf, confirmed, announced, restarts, loads>>

-----------------------------------------------------------------------------
(* Validation.                                                              *)

PlaneNames(s) == {s.planes[i].name : i \in DOMAIN s.planes}
ShadeGroups(s) == {s.planes[i].shade : i \in DOMAIN s.planes} \ {Null}
Meters(s) == {s.planes[i].meter : i \in DOMAIN s.planes} \ {Null}
LabelOf(p) == IF p.label = Null THEN p.name ELSE p.label

\* _validate_tau_points, of a row [az, el, tau, seasonal, points, bare].
PointsValid(row) ==
    IF row.points = Null THEN row.bare = Null
    ELSE /\ Len(row.points) \in 1..MaxPoints
         /\ \A i \in DOMAIN row.points :
               /\ row.points[i][1] \in 0..row.el /\ row.points[i][2] \in 0..100
               /\ i > 1 => row.points[i][1] > row.points[i - 1][1]
         /\ row.bare # Null =>
               /\ row.seasonal /\ Len(row.bare) = Len(row.points)
               /\ \A i \in DOMAIN row.bare : /\ row.bare[i][1] = row.points[i][1]
                                             /\ row.bare[i][2] \in 0..100

\* _validate_horizon.
HorizonValid(rows) ==
    /\ Len(rows) <= MaxRows
    /\ \A i \in DOMAIN rows : /\ rows[i].az \in 0..360 /\ rows[i].el \in 0..90
                              /\ rows[i].tau \in 0..100
                              /\ PointsValid(rows[i])

\* The checks of one plane among all; a blank shade group is no group.
PlaneValid(s, i) ==
    LET p == s.planes[i] IN
    /\ p.name # "" /\ p.label # "" /\ p.shade # "" /\ p.panel # Bad
    /\ \A k \in 1..(i - 1) :
          LET q == s.planes[k] IN
          /\ q.name # p.name /\ LabelOf(q) # LabelOf(p)
          /\ p.meter # Null => q.meter # p.meter
    /\ HorizonValid(p.horizon)

\* _validate_groups: a port feeds one inverter, once.
GroupsValid(s) ==
    /\ \A i \in DOMAIN s.groups :
          LET g == s.groups[i] IN
          /\ g.name # "" /\ g.members # <<>> /\ g.limit \in 1..MaxLimit
          /\ \A k \in 1..(i - 1) : s.groups[k].name # g.name
          /\ \A n \in DOMAIN g.members : g.members[n] \in PlaneNames(s)
    /\ LET ports == FlattenSeq([i \in DOMAIN s.groups |-> s.groups[i].members])
       IN Cardinality({ports[n] : n \in DOMAIN ports}) = Len(ports)

\* _validate_shade_groups: no group takes the channel of a plane outside of it.
ShadeGroupsValid(s) ==
    \A i \in DOMAIN s.planes : s.planes[i].name \in ShadeGroups(s) =>
                                   s.planes[i].shade = s.planes[i].name

\* validate_site.
Valid(s) ==
    /\ s # Bad
    /\ s.planes # <<>> /\ Len(s.planes) <= MaxPlanes
    /\ Cardinality(ShadeGroups(s)) <= MaxShadeGroups
    /\ \A i \in DOMAIN s.planes : PlaneValid(s, i)
    /\ s.ac # Null => s.ac \notin Meters(s)
    /\ GroupsValid(s) /\ ShadeGroupsValid(s)

ByAzimuth(p) == [p EXCEPT !.horizon = SortSeq(@, LAMBDA r, q : r.az < q.az)]

\* What it returns: every horizon sorted by azimuth.
Normalised(s) == [s EXCEPT !.planes = [i \in DOMAIN @ |-> ByAzimuth(@[i])]]

\* _validate_measurement_sources; ac is the meter of the form, or Null.
SourcesValid(s, ac) ==
    LET meter == IF ac # Null THEN ac ELSE s.ac
    IN meter \notin Meters(s) /\ (Meters(s) \cup {meter}) \cap NonPower = {}

\* Variant: the visible fields of the form stay beside the site.
StructuralApart(form) ==
    [lat |-> form.lat, cadence |-> form.cadence, site |-> Normalised(form.site)]

\* _structural_data: the visible fields replace what the site object carried.
Structural(form) ==
    [lat |-> form.lat, cadence |-> form.cadence,
     site |-> [Normalised(form.site) EXCEPT !.lat = form.lat, !.ac = form.ac,
                                            !.albedo = form.albedo]]

FormAccepted(form) == Valid(form.site) /\ SourcesValid(form.site, form.ac)

-----------------------------------------------------------------------------
(* What two sites have in common.                                           *)

\* Variant: pools are told apart by no one.
FingerprintPoolless(s) ==
    [loc |-> s.lat, albedo |-> s.albedo,
     planes |-> {[name |-> s.planes[i].name, panel |-> s.planes[i].panel,
                  horizon |-> s.planes[i].horizon] : i \in DOMAIN s.planes},
     pools |-> {},
     groups |-> {[members |-> ToSet(s.groups[i].members), limit |-> s.groups[i].limit] :
                     i \in DOMAIN s.groups}]

\* site_fingerprint: planes, pools and groups in no order, pools without their
\* labels and only where two share one.
Fingerprint(s) ==
    [loc |-> s.lat, albedo |-> s.albedo,
     planes |-> {[name |-> s.planes[i].name, panel |-> s.planes[i].panel,
                  horizon |-> s.planes[i].horizon] : i \in DOMAIN s.planes},
     pools |-> {pool \in {{s.planes[i].name : i \in {k \in DOMAIN s.planes : s.planes[k].shade = g}} :
                              g \in ShadeGroups(s)} : Cardinality(pool) > 1},
     groups |-> {[members |-> ToSet(s.groups[i].members), limit |-> s.groups[i].limit] :
                     i \in DOMAIN s.groups}]

\* What the physics and the learners take from a site: where the sun is, what a
\* plane yields, with whom it shares its shading and its inverter.
Basis(s) ==
    LET Channel(i) == IF s.planes[i].shade = Null THEN s.planes[i].name ELSE s.planes[i].shade
        Of(i) == [name |-> s.planes[i].name, panel |-> s.planes[i].panel,
                  horizon |-> s.planes[i].horizon,
                  shares |-> {s.planes[k].name : k \in {x \in DOMAIN s.planes : Channel(x) = Channel(i)}},
                  inverter |-> {[with |-> ToSet(g.members), limit |-> g.limit] :
                                   g \in {x \in ToSet(s.groups) : s.planes[i].name \in ToSet(x.members)}}]
    IN [sun |-> s.lat, ground |-> s.albedo, yields |-> {Of(i) : i \in DOMAIN s.planes}]

\* site_changes: the restart that a confirmation announces.
ModelChanged(before, after) == Fingerprint(before) # Fingerprint(after)

\* What every reader of an entry sees: {**entry.data, **entry.options}.
MergedEntry == [k \in DOMAIN entryData |-> Get(entryOptions, k, entryData[k])]

-----------------------------------------------------------------------------
\* The fingerprint of a store that has none.
NoPrint == << >>

Untrained == [basis |-> Null, sure |-> FALSE, restored |-> FALSE]

ConfigInit ==
    /\ entryData = << >> /\ entryOptions = << >>
    /\ draft = Null /\ proposal = Null /\ reloadDue = FALSE
    /\ site = Null
    /\ kept = [fp |-> NoPrint, cells |-> Untrained] /\ keptFile = kept
    /\ snapshotOf = Null
    /\ confirmed = Null /\ announced = {} /\ restarts = {}
    /\ loads = 0

SiteFields == {"lat", "albedo", "ac", "planes", "groups"}
PlaneFields == {"name", "label", "meter", "shade", "panel", "horizon"}

\* A site object as the forms parse it: a list of planes and what goes with it.
IsSite(s) ==
    /\ DOMAIN s = SiteFields
    /\ s.planes \in Seq(ToSet(s.planes))
    /\ \A i \in DOMAIN s.planes : DOMAIN s.planes[i] = PlaneFields

\* An older options form has validated what it wrote, location and site together.
ASSUME ConfigAssumption ==
    /\ \A f \in SiteForms : /\ DOMAIN f = {"site", "lat", "ac", "albedo", "cadence"}
                            /\ f.site # Bad => IsSite(f.site)
    /\ \A x \in GuidedPanels : DOMAIN x.plane = PlaneFields
    /\ \A old \in LegacyOptions :
          /\ "site" \in DOMAIN old <=> "lat" \in DOMAIN old
          /\ "site" \in DOMAIN old =>
                IsSite(old["site"]) /\ Valid(old["site"]) /\ old["site"].lat = old["lat"]

Learning == <<kept, keptFile, snapshotOf, restarts>>

\* async_create_entry: of this version, or of one whose options took the site.
Create(data) ==
    /\ entryData' = data
    /\ \E old \in LegacyOptions :
          /\ entryOptions' = old
          /\ confirmed' = Get(old, "site", data.site)
    /\ draft' = Null
    /\ reloadDue' = TRUE
    /\ UNCHANGED <<proposal, site, announced, loads, Learning>>

\* async_step_user.
AdvancedSetup ==
    /\ entryData = << >>
    /\ \E form \in {f \in SiteForms : FormAccepted(f)} : Create(Structural(form))

EmptySite(lat) == [lat |-> lat, albedo |-> Null, ac |-> Null, planes |-> <<>>, groups |-> <<>>]

\* async_step_guided.
GuidedStart ==
    /\ entryData = << >>
    /\ draft = Null
    /\ \E form \in SiteForms : draft' = EmptySite(form.lat)
    /\ UNCHANGED <<entryData, entryOptions, proposal, reloadDue, site, confirmed, announced, loads, Learning>>

\* The group of a panel: a new one, or one of the same limit that it joins.
WithPanel(s, x) ==
    LET known == {i \in DOMAIN s.groups : s.groups[i].name = x.group}
    IN [s EXCEPT !.planes = Append(@, x.plane),
                 !.groups = IF known = {} THEN Append(@, [name |-> x.group, members |-> <<x.plane.name>>,
                                                         limit |-> x.limit])
                            ELSE [i \in DOMAIN @ |-> IF i \in known
                                     THEN [@[i] EXCEPT !.members = Append(@, x.plane.name)] ELSE @[i]]]

\* async_step_guided_panel.
GuidedPanel ==
    /\ draft # Null
    /\ \E x \in GuidedPanels :
          /\ x.group # ""
          /\ \A i \in DOMAIN draft.groups : draft.groups[i].name = x.group => draft.groups[i].limit = x.limit
          /\ LET proposed == WithPanel(draft, x)
             IN /\ Valid(proposed) /\ SourcesValid(proposed, Null)
                /\ draft' = Normalised(proposed)
    /\ UNCHANGED <<entryData, entryOptions, proposal, reloadDue, site, confirmed, announced, loads, Learning>>

\* async_step_guided_review, which submits the draft to async_step_user; the
\* meter of all inverters is never asked for.
GuidedReview ==
    /\ draft # Null /\ draft.planes # <<>>
    /\ \E form \in SiteForms :
          LET mine == [form EXCEPT !.site = draft, !.lat = draft.lat, !.ac = Null, !.albedo = Null]
          IN FormAccepted(mine) /\ Create(Structural(mine))

\* async_step_reconfigure.
Reconfigure ==
    /\ entryData # << >> /\ proposal = Null
    /\ \E form \in {f \in SiteForms : FormAccepted(f)} :
          LET data == Structural(form)
              before == [MergedEntry.site EXCEPT !.lat = MergedEntry.lat]
          IN proposal' = [data |-> data, oldData |-> entryData, oldOptions |-> entryOptions,
                          changed |-> ModelChanged(before, data.site)]
    /\ UNCHANGED <<entryData, entryOptions, draft, reloadDue, site, confirmed, announced, loads, Learning>>

Structurals == {"lat", "cadence", "site"}

\* Variant: the options keep what they have.
StrippedNot(options) == options

\* The options of an entry whose data was just written.
Stripped(options) == Where(options, LAMBDA k : k \notin Structurals)

\* async_step_confirm_changes: an entry that changed meanwhile is shown anew.
ConfirmChanges ==
    /\ proposal # Null
    /\ proposal' = Null
    /\ IF entryData # proposal.oldData \/ entryOptions # proposal.oldOptions
       THEN UNCHANGED <<entryData, entryOptions, reloadDue, confirmed, announced>>
       ELSE /\ entryData' = proposal.data
            /\ entryOptions' = Stripped(entryOptions)
            /\ reloadDue' = (reloadDue \/ entryData' # entryData \/ entryOptions' # entryOptions)
            /\ confirmed' = proposal.data.site
            /\ announced' = IF proposal.changed THEN announced \cup {Fingerprint(proposal.data.site)}
                            ELSE announced
    /\ UNCHANGED <<draft, site, loads, Learning>>

\* Variant: only what the form shows is written.
SavedOptionsOnly(switch) == [k \in {"switch"} |-> switch]

\* The options that the options flow returns: the old ones, its switches on top,
\* without the list of a comparison that no one reads.
SavedOptions(switch) ==
    [k \in (DOMAIN entryOptions \ {"comparison"}) \cup {"switch"} |->
        IF k = "switch" THEN switch ELSE entryOptions[k]]

\* OptionsFlow.async_step_init.
SaveOptions ==
    /\ entryData # << >>
    /\ \E switch \in Switches : entryOptions' = SavedOptions(switch)
    /\ reloadDue' = (reloadDue \/ entryOptions' # entryOptions)
    /\ UNCHANGED <<entryData, draft, proposal, site, confirmed, announced, loads, Learning>>

\* Variant: the new fingerprint is kept, the cells too.
ReconciledCellsLater(k, s) == [k EXCEPT !.fp = Fingerprint(s)]

\* _reconcile_config_fingerprint: the first one is recorded, a differing one
\* reopens every cell.
ReconciledCells(k, s) ==
    IF k.fp = NoPrint \/ k.fp = Fingerprint(s) THEN [k EXCEPT !.fp = Fingerprint(s)]
    ELSE [fp |-> Fingerprint(s), cells |-> [k.cells EXCEPT !.sure = FALSE, !.restored = FALSE]]

\* A setup over what the store reads: async_prime_from_store.
Load(from) ==
    /\ loads < MaxLoads
    /\ loads' = loads + 1
    /\ LET s == MergedEntry.site
       IN /\ site' = s
          /\ kept' = ReconciledCells(from, s)
          /\ restarts' = IF from.fp \notin {NoPrint, Fingerprint(s)} THEN restarts \cup {Fingerprint(s)}
                         ELSE restarts
    /\ reloadDue' = FALSE
    /\ UNCHANGED <<entryData, entryOptions, draft, snapshotOf, confirmed, announced>>

\* The update listener's reload, through an unload that writes the store.
ReloadEntry == reloadDue /\ keptFile' = kept /\ Load(kept) /\ UNCHANGED proposal

\* A crash and the start after it; open dialogs are gone.
CrashAndStart == entryData # << >> /\ proposal' = Null /\ Load(keptFile) /\ UNCHANGED keptFile

\* The delayed write of the store.
WriteStore ==
    /\ keptFile' = kept /\ keptFile # kept
    /\ UNCHANGED <<entryData, entryOptions, draft, proposal, reloadDue, site, kept, snapshotOf,
                   confirmed, announced, restarts, loads>>

\* A training night: the snapshot of the ring, then the cells of the running site.
TrainingNight ==
    /\ site # Null
    /\ snapshotOf' = kept.cells
    /\ kept' = [kept EXCEPT !.cells = [basis |-> Basis(site), sure |-> TRUE, restored |-> FALSE]]
    /\ UNCHANGED <<entryData, entryOptions, draft, proposal, reloadDue, site, keptFile,
                   confirmed, announced, restarts, loads>>

\* async_rollback_learners: the cells of the snapshot, the fingerprint untouched.
RollbackCells ==
    /\ site # Null /\ snapshotOf # Null
    /\ kept' = [kept EXCEPT !.cells = [snapshotOf EXCEPT !.restored = @ \/ snapshotOf.basis # Basis(site)]]
    /\ UNCHANGED <<entryData, entryOptions, draft, proposal, reloadDue, site, keptFile, snapshotOf,
                   confirmed, announced, restarts, loads>>

ConfigNext ==
    \/ AdvancedSetup \/ GuidedStart \/ GuidedPanel \/ GuidedReview
    \/ Reconfigure \/ ConfirmChanges \/ SaveOptions
    \/ ReloadEntry \/ CrashAndStart \/ WriteStore \/ TrainingNight \/ RollbackCells

ConfigSpec == ConfigInit /\ [][ConfigNext]_siteVars

-----------------------------------------------------------------------------
(* Properties.                                                              *)

ConfigTypeOK ==
    /\ loads \in 0..MaxLoads
    /\ reloadDue \in BOOLEAN
    /\ entryData # << >> => DOMAIN entryData = Structurals
    /\ site # Null => Valid(site)

\* A running coordinator whose entry has no reload due serves the site that was
\* confirmed last, at the location that its form showed, whatever an old entry's
\* options still hold; cells learned on a
\* different basis are never trusted for it, unless a rollback brought them back;
\* and learning restarts only where a confirmation has said so
\* (config_flow._structural_data and async_step_confirm_changes,
\* coordinator._reconcile_config_fingerprint).
ConfirmedIsServed ==
    site # Null /\ ~reloadDue =>
        /\ site = confirmed /\ site.lat = MergedEntry.lat
        /\ kept.cells.sure /\ ~kept.cells.restored => kept.cells.basis = Basis(site)
        /\ restarts \subseteq announced
=============================================================================
