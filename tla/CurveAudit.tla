----------------------------- MODULE CurveAudit -----------------------------
(***************************************************************************)
(* The published daily headlines and the audit that counts their revisions *)
(* (coordinator.py, core/engine.py, SPEC 14.1 and 14.4), over the fast     *)
(* learner, whose scalar shapes the served curve and must not show in the  *)
(* headline of today.                                                      *)
(*                                                                         *)
(* Powers are integers: a scalar-free power counts in 1/ThetaOne, a served *)
(* one in 1/(ThetaOne * Neutral * Horizon), so that every quotient of the  *)
(* code is exact.  Efficiency scales a group's power and limit alike and   *)
(* is left out; every plane is in a group.                                 *)
(***************************************************************************)
EXTENDS IntradayScalar, FiniteSets, Functions

CONSTANTS MaxChanges, \* bound on new images and new day-ahead factors
          MaxCount,   \* bound at which a counter stays
          Ahead,      \* the farthest day with a headline
          Horizon,    \* INTRADAY_APPLY_HORIZON_MINUTES
          Group,      \* inverter groups
          Limit,      \* [Group -> power]
          Curves,     \* what an image may say of a day: [Daylight -> [Group -> power]]
          FirstImage, \* what the first start finds
          Thetas,     \* day-ahead factors, in 1/ThetaOne
          ThetaOne,
          Threshold   \* HEADLINE_REVISION_THRESHOLD_KWH, in scalar-free power

Offset == 0..Ahead
DateOf(t) == t \div SlotsPerDay
Date == 0..(DateOf(MaxSlot) + Ahead)
SlotOfDay == 0..(SlotsPerDay - 1)
NoDate == -1
Zero == [o \in Offset |-> 0]
One == Neutral * Horizon

ASSUME AuditAssumption ==
    /\ {MaxChanges, MaxCount, Threshold} \subseteq Nat
    /\ Ahead \in Nat
    /\ Horizon \in Nat \ {0}
    /\ ScalarMin > 0
    /\ IsFiniteSet(Group)
    /\ Limit \in [Group -> Nat]
    /\ Curves \subseteq [Daylight -> [Group -> Nat]]
    /\ FirstImage \in [Date -> Curves]
    /\ ThetaOne \in Thetas
    /\ Thetas \subseteq Nat \ {0}

\* Tomorrow's sun lies beyond the horizon (_dayahead_today_kwh).
ASSUME NightAssumption == \A s \in Daylight : s + 1 >= Horizon

VARIABLES
    image,    \* date -> the curve the weather image gives it
    theta,    \* the day-ahead factor
    baseline, \* coord._curve_audit_baseline
    changed,  \* the image or the factor is new since the last payload
    audit,    \* coord._curve_audit and the store's section
    disk,     \* the section in the store file
    changes   \* new images and factors so far

vars == <<scalarVars, image, theta, baseline, changed, audit, disk, changes>>

Today == DateOf(now)

Init ==
    /\ ScalarInit
    /\ image = FirstImage
    /\ theta = ThetaOne
    /\ baseline = <<>>
    /\ changed = FALSE
    /\ audit = [day |-> NoDate, today |-> Zero, yesterday |-> Zero,
                log |-> [d \in Date |-> Zero]]  \* revisions by day of counting
    /\ disk = audit
    /\ changes = 0

-----------------------------------------------------------------------------
(***************************************************************************)
(* A slot of the served curve, and what its headline takes from it.        *)
(***************************************************************************)

\* intraday_factor_at, in 1/One, for a slot so many slots ahead; a slot of
\* today that is over keeps its power.
Factor(s, ahead) ==
    IF ahead \in 0..(Horizon - 1)
    THEN One + (s - Neutral) * (Horizon - ahead) ELSE One

\* A group's power in a slot before the last clamp, with scalar s: what the
\* slow layer leaves, clamped, and then the two factors.
Factored(power, th, f) ==
    [g \in Group |-> Min({power[g], Limit[g]}) * th * f]

\* The last clamp.
Served(power, th, f) ==
    [g \in Group |-> Min({Factored(power, th, f)[g], Limit[g] * ThetaOne * One})]

Site(powers) == SumFunction(powers)

Ceiling == Site([g \in Group |-> Limit[g] * ThetaOne])

\* Variant: a clamped slot keeps its ceiling.
ScalarFreeCapped(power, th, f) ==
    IF Site(Factored(power, th, f)) > Site(Served(power, th, f))
    THEN Ceiling ELSE Site(Served(power, th, f)) \div f

\* _dayahead_slot_strips.
ScalarFree(power, th, f) ==
    IF Site(Factored(power, th, f)) > Site(Served(power, th, f))
    THEN Min({Site(Factored(power, th, f)) \div f, Ceiling})
    ELSE Site(Served(power, th, f)) \div f

\* The headline of today is scalar-free, the others are plain sums.
HeadlineOfToday ==
    [c \in Curves |-> [th \in Thetas |-> [s \in Scalar |-> [clock \in SlotOfDay |->
        SumFunction([t \in Daylight |-> ScalarFree(c[t], th, Factor(s, t - clock))])]]]]

HeadlineAhead ==
    [c \in Curves |-> [th \in Thetas |-> [s \in Scalar |->
        [ahead \in 1..(Ahead * SlotsPerDay) |->
            SumFunction([t \in Daylight |-> Site(Served(c[t], th, Factor(s, t + ahead)))])
                \div One]]]]

Headline(o) ==
    LET clock == now % SlotsPerDay
    IN IF o = 0
       THEN HeadlineOfToday[image'[Today]][theta][scalar'][clock]
       ELSE HeadlineAhead[image'[Today + o]][theta][scalar']
                         [o * SlotsPerDay - clock]

-----------------------------------------------------------------------------
(***************************************************************************)
(* The audit.                                                              *)
(***************************************************************************)

\* Variant: a count is handed on as yesterday's, however old it is.
RolledOverAnyGap ==
    IF audit.day = Today THEN audit
    ELSE [audit EXCEPT !.day = Today, !.today = Zero, !.yesterday = audit.today]

\* The counter rolls over on the first payload of a day.
RolledOver ==
    IF audit.day = Today THEN audit
    ELSE [audit EXCEPT !.day = Today, !.today = Zero,
                       !.yesterday = IF audit.day = Today - 1
                                     THEN audit.today ELSE Zero]

\* The baseline is kept by target date and offset; the entries that cannot
\* compare again are left out here.
Published == [k \in {<<Today + o, o>> : o \in Offset} |-> Headline(k[2])]

Far(x, y) == x - y > Threshold \/ y - x > Threshold

Revised(new) ==
    {o \in Offset : \E k \in DOMAIN baseline :
        k = <<Today + o, o>> /\ Far(new[k], baseline[k])}

Counted(counts, offsets) ==
    [o \in Offset |->
        IF o \in offsets THEN Min({counts[o] + 1, MaxCount}) ELSE counts[o]]

\* _track_headline_revisions, at the end of a tick that publishes.
TrackHeadlineRevisions ==
    LET new == Published
    IN /\ baseline' = new
       /\ audit' = [RolledOver EXCEPT !.today = Counted(@, Revised(new)),
                                      !.log[Today] = Counted(@, Revised(new))]

\* The fetch of a tick replaces the image, or leaves it.
Fetch ==
    \/ image' = image /\ UNCHANGED changes
    \/ /\ changes < MaxChanges
       /\ changes' = changes + 1
       /\ \E o \in Offset, c \in Curves :
             image' = [image EXCEPT ![Today + o] = c]

-----------------------------------------------------------------------------
Tick ==
    /\ TickScalar
    /\ Fetch
    /\ result' = TRUE
    /\ TrackHeadlineRevisions
    /\ changed' = FALSE
    /\ UNCHANGED <<theta, disk>>

\* The engine raises: nothing is published, but image, ring and scalar stay.
TickFails ==
    /\ TickScalar
    /\ Fetch
    /\ UNCHANGED result
    /\ changed' = (changed \/ image' # image)
    /\ UNCHANGED <<theta, baseline, audit, disk>>

\* The night, or a service, changes what the day-ahead layer learned.
Relearn ==
    /\ changes < MaxChanges
    /\ changes' = changes + 1
    /\ theta' \in Thetas
    /\ changed' = TRUE
    /\ UNCHANGED <<scalarVars, image, baseline, audit, disk>>

Clock ==
    /\ Advance
    /\ UNCHANGED <<image, theta, baseline, changed, audit, disk, changes>>

Save ==
    /\ disk # audit
    /\ disk' = audit
    /\ UNCHANGED <<scalarVars, image, theta, baseline, changed, audit, changes>>

\* A restart or a reload: the baseline is not persistent.
Restart ==
    /\ \E switch \in BOOLEAN : Forget(switch)
    /\ baseline' = <<>>
    /\ disk' = audit
    /\ UNCHANGED <<image, theta, changed, audit, changes>>

Crash ==
    /\ Forget(fast)
    /\ baseline' = <<>>
    /\ audit' = disk
    /\ UNCHANGED <<image, theta, changed, disk, changes>>

Next ==
    \/ Tick
    \/ TickFails
    \/ Relearn
    \/ Clock
    \/ Save
    \/ Restart
    \/ Crash

Spec == Init /\ [][Next]_vars

\* Home Assistant schedules the tick again and again.
FairSpec == Spec /\ WF_vars(Tick)

-----------------------------------------------------------------------------
(***************************************************************************)
(* Properties.                                                             *)
(***************************************************************************)
Counts == [Offset -> 0..MaxCount]
Audit == [day : Date \cup {NoDate}, today : Counts, yesterday : Counts,
          log : [Date -> Counts]]

\* Every variable has its type.
TypeOK ==
    /\ ScalarTypeOK
    /\ image \in [Date -> Curves]
    /\ theta \in Thetas
    /\ DOMAIN baseline \subseteq Date \X Offset
    /\ \A k \in DOMAIN baseline : baseline[k] \in Nat
    /\ changed \in BOOLEAN
    /\ audit \in Audit
    /\ disk \in Audit
    /\ changes \in 0..MaxChanges

\* The counters of today and yesterday are those of these two days, in memory
\* and in the file, across gaps of days, restarts and crashes (SPEC 14.4).
CountedOnTheirDay ==
    \A a \in {audit, disk} :
        /\ a.day = NoDate => a.today = Zero /\ a.yesterday = Zero
        /\ a.day # NoDate => a.today = a.log[a.day]
        /\ a.day \in Date \ {0} => a.yesterday = a.log[a.day - 1]

\* No day-ahead power of today exceeds what its group can serve.
WithinLimits ==
    \A s \in Daylight, g \in Group :
        Min({image[Today][s][g], Limit[g]}) * theta <= Limit[g] * ThetaOne

\* Only news count as a revision: without a new image or factor neither the
\* intraday scalar, a clamped slot, midnight, a restart nor a failed tick
\* makes the audit count (SPEC 14.1, 14.4).
OnlyNewsRevise ==
    [][audit'.log # audit.log /\ WithinLimits' =>
          changed \/ image' # image \/ audit' = disk]_vars

\* The headline of today is a day-ahead expectation: while image and factor
\* stay, it stays, whatever the intraday scalar does (SPEC 14.1).
HeadlineStable ==
    [][~changed /\ image' = image =>
          \A k \in DOMAIN baseline \cap DOMAIN baseline' :
              k = <<Today, 0>> => baseline'[k] = baseline[k]]_vars
=============================================================================
