------------------------------ MODULE StoreFile ------------------------------
(***************************************************************************)
(* The persistent file: what store.py makes of a file of any age and       *)
(* condition, and what the typed sections (core/types.py) become on their  *)
(* way into it and back.                                                   *)
(*                                                                         *)
(* A JSON object is a function, a list a sequence, a number an integer, a  *)
(* date a number, BadKey a key that is no date or no string.               *)
(***************************************************************************)
EXTENDS Values

CONSTANTS Dates, BadKey,
          Lo, Hi,             \* the band of a learned factor
          Neutral,            \* the factor of a cell nobody trained
          SectionDays,           \* issued, actuals and comparison rings
          HourlyDays,         \* the short hourly ring
          MarkDays,           \* trained-day markers
          SnapshotRing,
          MaxImportedN,       \* credit of an imported bin
          CurrentSchema,      \* the schema this program writes
          MaxChanges,         \* bound on writes and imports
          Files,              \* raw files found at the first start
          BootstrapSchema, Site, \* what an import must carry
          DropoutReasons,     \* DROPOUT_REASONS, the reasons that have a card
          Payloads,           \* what is imported
          Sound,              \* section |-> values some version has written to it
          Written             \* section |-> values the program writes to it

VARIABLES file,   \* the JSON on disk, Null if there is none
          memory,  \* ForecastStore._data
          unsaved, \* a delayed write is scheduled
          running,
          changes  \* writes and imports so far

storeVars == <<file, memory, unsaved, running, changes>>

-----------------------------------------------------------------------------
(* Scalars (_clamp, _safe_int) and containers.                              *)

Clamp(v) == IF Present(v) THEN Between(Lo, v, Hi) ELSE Lo
CountOf(v) == IF ~Present(v) \/ v < 0 THEN 0 ELSE v

RowsOf(raw) ==
    IF ~Present(raw) THEN <<>> ELSE Where(raw, LAMBDA k : k # BadKey /\ raw[k] # Bad)

\* _coerce_issued_ring, _coerce_actuals_ring, _coerce_comparison_ring.
RingOf(raw, keep) == Trimmed(RowsOf(raw), keep)

\* _coerce_hourly_actuals: rows of a day, without the broken ones; a day
\* without rows is dropped.
HourlyRing(raw) ==
    IF ~Present(raw) THEN <<>>
    ELSE LET kept == Where(raw, LAMBDA k : /\ k # BadKey /\ raw[k] # Bad
                                           /\ raw[k] \ {Bad} # {})
         IN Trimmed([k \in DOMAIN kept |-> kept[k] \ {Bad}], HourlyDays)

\* _coerce_last_payload.
LastPayload(raw) ==
    IF Present(raw) /\ raw.payload # Bad /\ raw.fetched # Bad THEN raw ELSE Null

Marks(raw) ==
    IF ~Present(raw) THEN {} ELSE Newest(raw \ {BadKey}, MarkDays)

-----------------------------------------------------------------------------
(* The learner sections: from_dict followed by to_dict.                     *)

\* BiasCell.from_dict; a ShademapBin differs in the value of a broken one.
CellOf(c, ifBroken) ==
    IF ~Present(c) THEN [factor |-> ifBroken, n |-> 0]
    ELSE [factor |-> Clamp(c.factor), n |-> CountOf(c.n)]

\* _version_guard: a missing or broken version is the current one.
Understood(raw) == raw.version \in {Null, Bad, 1}

\* BiasState.from_dict and ScoreboardState.from_dict.
Cells(raw) ==
    IF ~Present(raw) \/ ~Understood(raw) \/ raw.cells = Bad THEN [version |-> 1, cells |-> <<>>]
    ELSE [version |-> 1,
          cells |-> LET kept == Where(raw.cells, LAMBDA k : k # BadKey)
                    IN [k \in DOMAIN kept |-> CellOf(kept[k], Neutral)]]

\* ShademapState.from_dict: channels of bins.
Channels(raw) ==
    IF ~Present(raw) \/ ~Understood(raw) \/ raw.cells = Bad THEN [version |-> 1, cells |-> <<>>]
    ELSE [version |-> 1,
          cells |-> LET kept == Where(raw.cells, LAMBDA k : k # BadKey /\ raw.cells[k] # Bad)
                    IN [k \in DOMAIN kept |->
                           [b \in DOMAIN kept[k] |-> CellOf(kept[k][b], Hi)]]]

\* One entry of a quantile bin; an undated one (once a bare number) stays.
ErrorEntry(x) == [date |-> IF x.date = Bad THEN Null ELSE x.date, err |-> Clamp(x.err)]

\* QuantileState.from_dict: broken entries and empty bins go, and no version is
\* looked at.
Quantiles(raw) ==
    IF ~Present(raw) \/ raw.bins = Bad THEN [bins |-> <<>>]
    ELSE LET sound(b) == {i \in DOMAIN raw.bins[b] : raw.bins[b][i] # Bad}
             kept == Where(raw.bins, LAMBDA b : b # BadKey /\ raw.bins[b] # Bad /\ sound(b) # {})
         IN [bins |-> [b \in DOMAIN kept |->
                          LET list == Picked(raw.bins[b], sound(b))
                          IN [i \in DOMAIN list |-> ErrorEntry(list[i])]]]

\* DriftState.from_dict: the layer that judges the day-ahead bias was once
\* called fast, and an old file has only those names.
DriftRead(raw) ==
    LET old == IF Present(raw) THEN raw ELSE [version |-> 2]
        Number(f, otherwise) ==
            IF Present(Get(old, f, otherwise)) THEN Get(old, f, otherwise) ELSE otherwise
        Streak(f, otherwise) == CountOf(Number(f, otherwise))
        Flag(f, otherwise) == Get(old, f, otherwise) \notin {FALSE, Null}
        fastStreak == Streak("fastStreak", 0)
        fastOff == Flag("fastOff", FALSE)
        frozen == Get(old, "frozen", Null)
    IN [version |-> Number("version", 1), mae |-> RowsOf(Get(old, "mae", <<>>)),
        fastStreak |-> fastStreak, fastOff |-> fastOff,
        slowStreak |-> Streak("slowStreak", 0), slowOff |-> Flag("slowOff", FALSE),
        dayAheadStreak |-> Streak("dayAheadStreak", fastStreak),
        dayAheadOff |-> Flag("dayAheadOff", fastOff),
        dayAheadSeen |-> IF Get(old, "dayAheadSeen", Null) = Null THEN Null
                         ELSE Flag("dayAheadSeen", FALSE),
        frozen |-> IF frozen = Bad THEN Null ELSE frozen]

DayAheadNames == {"dayAheadStreak", "dayAheadOff", "dayAheadSeen"}

\* Variant: the names of version 2 are never written.
DriftWrittenOld(d) ==
    Where(d, LAMBDA f : f \notin DayAheadNames)

\* DriftState.to_dict: the precise names only from version 2 on.
DriftWritten(d) ==
    Where(d, LAMBDA f : d.version >= 2 \/ f \notin DayAheadNames)

Drift(raw) == DriftWritten(DriftRead(raw))

\* LearnerSnapshot: the quantile section is written only if it holds memory.
Snapshot(s) ==
    LET q == Quantiles(IF Present(s) THEN s.quantile ELSE Null)
    IN [bias |-> Cells(IF Present(s) THEN s.bias ELSE Null),
        shade |-> Channels(IF Present(s) THEN s.shade ELSE Null),
        quantile |-> IF q.bins = <<>> THEN Null ELSE q]

Snapshots(raw) ==
    IF ~Present(raw) THEN <<>>
    ELSE LET few == LastFew(raw, SnapshotRing)
         IN [i \in 1..Len(few) |-> Snapshot(few[i])]

\* InverterCalState.from_dict: an efficiency that cannot be read is the default.
Calibration(raw) ==
    IF ~Present(raw) THEN [eta |-> Neutral, n |-> 0]
    ELSE [eta |-> IF ~Present(raw.eta) THEN Neutral ELSE IF raw.eta < 0 THEN 0 ELSE raw.eta,
          n |-> CountOf(raw.n)]

\* _coerce_curve_audit and its parts.
Audit(raw) ==
    IF ~Present(raw) THEN [day |-> Null, counts |-> 0, last |-> Null]
    ELSE [day |-> IF raw.day = Bad THEN Null ELSE raw.day, counts |-> CountOf(raw.counts),
          last |-> IF ~Present(raw.last) THEN Null
                   ELSE [offset |-> IF raw.last.offset \in 0..2 THEN raw.last.offset
                                    ELSE Null,
                         refreshed |-> raw.last.refreshed \in BOOLEAN /\ raw.last.refreshed]]

\* _coerce_learning_health: every field by itself, the modules as a set of names.
HealthSection(raw) ==
    LET old == IF Present(raw) THEN raw ELSE <<>>
        Found(f) == Get(old, f, Null)
        NoneIfBroken(f) == IF Found(f) = Bad THEN Null ELSE Found(f)
    IN [streak |-> CountOf(Found("streak")), oobStreak |-> CountOf(Found("oobStreak")),
        reason |-> IF Found("reason") \in DropoutReasons THEN Found("reason") ELSE Null,
        modules |-> IF Present(Found("modules")) THEN Found("modules") \ {Bad} ELSE {},
        discarded |-> NoneIfBroken("discarded"), accepted |-> NoneIfBroken("accepted"),
        checked |-> NoneIfBroken("checked"), oobDay |-> NoneIfBroken("oobDay"),
        oobMedian |-> NoneIfBroken("oobMedian")]

-----------------------------------------------------------------------------
(* The file as a whole.                                                     *)

OldSections == {"payload", "issued", "actuals"}
LearnerSections ==
    {"hourly", "bias", "shade", "drift", "snapshots", "trained", "inverterDays",
     "calibration", "fingerprint", "health", "audit"}
NewSections == {"quantile", "scores", "comparison"}
Sections == OldSections \cup LearnerSections \cup NewSections

\* What a section of the file becomes in memory.
CoercedSection(s, raw) ==
    CASE s = "payload" -> LastPayload(raw)
      [] s \in {"issued", "actuals", "comparison"} -> RingOf(raw, SectionDays)
      [] s = "hourly" -> HourlyRing(raw)
      [] s \in {"bias", "scores"} -> Cells(raw)
      [] s = "shade" -> Channels(raw)
      [] s = "quantile" -> Quantiles(raw)
      [] s = "drift" -> Drift(raw)
      [] s = "snapshots" -> Snapshots(raw)
      [] s \in {"trained", "inverterDays"} -> Marks(raw)
      [] s = "calibration" -> Calibration(raw)
      [] s = "fingerprint" -> IF raw = Bad THEN Null ELSE raw
      [] s = "health" -> HealthSection(raw)
      [] s = "audit" -> Audit(raw)

\* _empty_state.
Empty(s) == CoercedSection(s, Null)

\* Variant: a schema-2 file is read like one of the first schema.
KnownInFirst(schema) == IF schema = CurrentSchema THEN Sections ELSE OldSections

\* The sections that each schema has: _migrate_v1_to_v2, _migrate_v2_to_v3,
\* _validate_v3; nothing is taken from an unknown schema.
KnownIn(schema) ==
    CASE schema = CurrentSchema -> Sections
      [] schema = 2 -> OldSections \cup LearnerSections
      [] schema = 1 -> OldSections
      [] OTHER -> {}

\* validate_state.
ValidatedState(raw) ==
    [s \in Sections |->
        IF Present(raw) /\ s \in KnownIn(raw.schema) /\ s \in DOMAIN raw.sections
        THEN CoercedSection(s, raw.sections[s]) ELSE Empty(s)]

-----------------------------------------------------------------------------
(* What may be asked of the constants.                                      *)

ASSUME StoreAssumption ==
    /\ Dates \subseteq Nat /\ IsFiniteSet(Dates) /\ BadKey \notin Dates
    /\ {Lo, Neutral, Hi} \subseteq Nat /\ Lo <= Neutral /\ Neutral <= Hi
    /\ {SectionDays, HourlyDays, MarkDays, SnapshotRing, MaxImportedN} \subseteq Nat \ {0}
    /\ CurrentSchema = 3 /\ MaxChanges \in Nat

\* None and a broken value are different, and no value that is kept.
ASSUME NoValueAssumption ==
    /\ Null # Bad
    /\ Null \notin BOOLEAN
    /\ "row" # Bad /\ {"row"} # Bad
    /\ \A days \in SUBSET Dates : Present(days)

\* Clean data: what the dataclasses of types.py say that their fields hold, and
\* the rings at most as long as they are kept.
IsDictionary(f) == f = [k \in DOMAIN f |-> f[k]]

CleanRing(v, keep) ==
    IsDictionary(v) /\ DOMAIN v \subseteq Dates /\ Cardinality(DOMAIN v) <= keep
CleanCell == [factor : Lo..Hi, n : Nat]
CleanBins(bins) == IsDictionary(bins) /\ \A b \in DOMAIN bins : bins[b] \in CleanCell
CleanCells(v) ==
    v = [version |-> 1, cells |-> v.cells] /\ CleanBins(v.cells) /\ BadKey \notin DOMAIN v.cells
CleanChannels(v) ==
    /\ v = [version |-> 1, cells |-> v.cells] /\ IsDictionary(v.cells)
    /\ \A k \in DOMAIN v.cells : k # BadKey /\ CleanBins(v.cells[k])
CleanQuantiles(v) ==
    /\ v = [bins |-> v.bins] /\ IsDictionary(v.bins)
    /\ \A b \in DOMAIN v.bins :
          /\ b # BadKey /\ v.bins[b] # <<>>
          /\ v.bins[b] \in Seq([date : Dates \cup {Null}, err : Lo..Hi])
CleanSnapshot(v) ==
    /\ v = [bias |-> v.bias, shade |-> v.shade, quantile |-> v.quantile]
    /\ CleanCells(v.bias) /\ CleanChannels(v.shade)
    /\ v.quantile # Null => CleanQuantiles(v.quantile) /\ v.quantile.bins # <<>>

FirstDriftNames ==
    {"version", "mae", "fastStreak", "fastOff", "slowStreak", "slowOff", "frozen"}
CleanDrift(v, names) ==
    /\ IsDictionary(v) /\ DOMAIN v = names
    /\ v.version \in Int /\ v.fastStreak \in Nat /\ v.slowStreak \in Nat
    /\ v.fastOff \in BOOLEAN /\ v.slowOff \in BOOLEAN /\ v.frozen # Bad
    /\ IsDictionary(v.mae) /\ \A k \in DOMAIN v.mae : k # BadKey /\ v.mae[k] # Bad
    /\ DayAheadNames \subseteq names =>
          /\ v.dayAheadStreak \in Nat /\ v.dayAheadOff \in BOOLEAN
          /\ v.dayAheadSeen \in {TRUE, FALSE, Null}

CleanHealth(v) ==
    /\ v = [streak |-> v.streak, oobStreak |-> v.oobStreak, reason |-> v.reason,
            modules |-> v.modules, discarded |-> v.discarded, accepted |-> v.accepted,
            checked |-> v.checked, oobDay |-> v.oobDay, oobMedian |-> v.oobMedian]
    /\ v.streak \in Nat /\ v.oobStreak \in Nat
    /\ v.reason \in DropoutReasons \cup {Null}
    /\ Present(v.modules) /\ v.modules = v.modules \ {Bad}
    /\ \A f \in {"discarded", "accepted", "checked", "oobDay", "oobMedian"} : v[f] # Bad

Clean(s, v) ==
    CASE s = "payload" ->
           v # Null => /\ v = [payload |-> v.payload, fetched |-> v.fetched]
                       /\ v.payload # Bad /\ v.fetched # Bad
      [] s \in {"issued", "actuals", "comparison"} ->
           CleanRing(v, SectionDays) /\ \A d \in DOMAIN v : v[d] # Bad
      [] s = "hourly" ->
           /\ CleanRing(v, HourlyDays)
           /\ \A d \in DOMAIN v : v[d] # Bad /\ Bad \notin v[d] /\ v[d] # {}
      [] s \in {"bias", "scores"} -> CleanCells(v)
      [] s = "shade" -> CleanChannels(v)
      [] s = "quantile" -> CleanQuantiles(v)
      [] s = "drift" ->
           CleanDrift(v, FirstDriftNames \cup IF v.version >= 2 THEN DayAheadNames ELSE {})
      [] s = "snapshots" ->
           IsList(v) /\ Len(v) <= SnapshotRing /\ \A i \in DOMAIN v : CleanSnapshot(v[i])
      [] s \in {"trained", "inverterDays"} -> v \subseteq Dates /\ Cardinality(v) <= MarkDays
      [] s = "calibration" -> v \in [eta : Nat, n : Nat]
      [] s = "fingerprint" -> v # Bad
      [] s = "health" -> CleanHealth(v)
      [] s = "audit" ->
           /\ v = [day |-> v.day, counts |-> v.counts, last |-> v.last]
           /\ v.day # Bad /\ v.counts \in Nat
           /\ v.last # Null => v.last \in [offset : (0..2) \cup {Null}, refreshed : BOOLEAN]

\* In a list of JSON the places are numbered.
BinsAreLists(quantile) ==
    Present(quantile) /\ quantile.bins # Bad =>
        \A b \in DOMAIN quantile.bins : quantile.bins[b] # Bad => IsList(quantile.bins[b])

ListsAreLists(s, raw) ==
    CASE s = "snapshots" ->
           Present(raw) => IsList(raw) /\ \A i \in DOMAIN raw :
                                             Present(raw[i]) => BinsAreLists(raw[i].quantile)
      [] s = "quantile" -> BinsAreLists(raw)
      [] OTHER -> TRUE

\* The keys of a ring and the marks are dates, if not of a wrong kind; what is
\* left of the rows of a day is rows, and of a list of modules such a list.
DatesAreDates(s, raw) ==
    CASE s \in {"issued", "actuals", "comparison", "hourly"} ->
           Present(raw) =>
               /\ DOMAIN raw \subseteq Dates \cup {BadKey}
               /\ s = "hourly" => \A k \in DOMAIN raw : raw[k] # Bad => raw[k] \ {Bad} # Bad
      [] s \in {"trained", "inverterDays"} -> Present(raw) => raw \subseteq Dates \cup {BadKey}
      [] s = "health" ->
           Present(raw) /\ Present(Get(raw, "modules", Null)) => Present(raw.modules \ {Bad})
      [] OTHER -> TRUE

\* A file has the sections of its schema, and what any version has written to it is
\* clean; so is what this program writes, unless its setter coerces it.
ASSUME FilesAssumption ==
    /\ \A f \in Files : Present(f) =>
          /\ f.schema \in Nat \ {0}
          /\ f.schema <= CurrentSchema => DOMAIN f.sections \subseteq KnownIn(f.schema)
          /\ \A s \in DOMAIN f.sections \cap Sections :
                ListsAreLists(s, f.sections[s]) /\ DatesAreDates(s, f.sections[s])
    /\ DOMAIN Sound = Sections
    /\ \A s \in Sections : \A v \in Sound[s] : Clean(s, v)
    /\ DOMAIN Written \subseteq Sections
    /\ \A s \in DOMAIN Written : \A v \in Written[s] :
          CASE s \in {"issued", "actuals", "comparison", "hourly", "trained", "inverterDays"} ->
                 v \in Dates
            [] s = "snapshots" -> Present(v) => BinsAreLists(v.quantile)
            [] s = "drift" -> CleanDrift(v, FirstDriftNames \cup DayAheadNames)
            [] s \in {"health", "audit"} -> DatesAreDates(s, v)
            [] OTHER -> Clean(s, v)
    /\ \A p \in Payloads :
          Present(p) /\ "quantile" \in DOMAIN p => BinsAreLists(p.quantile)

-----------------------------------------------------------------------------
StoreIdle ==
    /\ unsaved = FALSE
    /\ running = FALSE
    /\ changes = 0

StoreInit == StoreIdle /\ file \in Files /\ memory = [s \in Sections |-> Empty(s)]

\* async_load: an older file is scheduled to be written in the current schema.
LoadFile ==
    /\ ~running
    /\ running' = TRUE
    /\ memory' = ValidatedState(file)
    /\ unsaved' = (Present(file) /\ file.schema # CurrentSchema)
    /\ UNCHANGED <<file, changes>>

Change == changes < MaxChanges /\ changes' = changes + 1

Dated(dates, row) == [d \in dates |-> row]

\* What a setter or a recorder makes of a section: rings and markers are
\* trimmed, health and audit are coerced, the rest is replaced.
Recorded(s, old, v) ==
    CASE s \in {"issued", "actuals", "comparison"} ->
           Trimmed(Dated(DOMAIN old \cup {v}, "row"), SectionDays)
      [] s = "hourly" -> Trimmed(Dated(DOMAIN old \cup {v}, {"row"}), HourlyDays)
      [] s \in {"trained", "inverterDays"} -> Newest(old \cup {v}, MarkDays)
      [] s = "snapshots" -> LastFew(Append(old, Snapshot(v)), SnapshotRing)
      [] s = "drift" -> DriftWritten(v)
      [] s \in {"health", "audit"} -> CoercedSection(s, v)
      [] OTHER -> v

\* Variant: the hourly ring is kept as long as the daily ones.
SetSectionLong(s, v) ==
    IF s = "hourly" THEN Trimmed(Dated(DOMAIN memory[s] \cup {v}, {"row"}), SectionDays)
    ELSE Recorded(s, memory[s], v)
SetSection(s, v) == Recorded(s, memory[s], v)

WriteSection ==
    /\ running
    /\ \E s \in DOMAIN Written : \E v \in Written[s] :
          memory' = [memory EXCEPT ![s] = SetSection(s, v)]
    /\ unsaved' = TRUE
    /\ Change
    /\ UNCHANGED <<file, running>>

\* ingest_bootstrap refuses a payload of another schema or another site.
Refused(p) ==
    \/ ~Present(p)
    \/ p.schema # BootstrapSchema
    \/ p.signature \notin {Null, Site}

\* _cap_shademap_credit.
CreditCapped(bin) == [bin EXCEPT !.n = IF @ > MaxImportedN THEN MaxImportedN ELSE @]
CappedChannels(v) ==
    [v EXCEPT !.cells =
        [k \in DOMAIN v.cells |-> [b \in DOMAIN v.cells[k] |-> CreditCapped(v.cells[k][b])]]]

\* Otherwise its values are clamped and the credit of every bin is capped; a
\* payload without bands leaves the live ring.
Ingested(p) ==
    [bias |-> Cells(p.bias),
     shade |-> CappedChannels(Channels(p.shade)),
     quantile |-> IF "quantile" \in DOMAIN p THEN Quantiles(p.quantile)
                  ELSE memory["quantile"]]

\* Variant: the rollback point is taken after the swap.
RollbackPointAfter(imported) == imported
RollbackPoint(imported) ==
    [bias |-> memory["bias"], shade |-> memory["shade"], quantile |-> memory["quantile"]]

\* import_bootstrap.
ImportPayload ==
    /\ running
    /\ \E p \in Payloads :
          /\ ~Refused(p)
          /\ LET new == Ingested(p)
             IN memory' = [memory EXCEPT
                   !["snapshots"] =
                       LastFew(Append(@, Snapshot(RollbackPoint(new))), SnapshotRing),
                   !["bias"] = new.bias, !["shade"] = new.shade,
                   !["quantile"] = new.quantile]
    /\ unsaved' = TRUE
    /\ Change
    /\ UNCHANGED <<file, running>>

\* The delayed write, the flush of a stop.
WriteFile ==
    /\ running
    /\ file' = [schema |-> CurrentSchema, sections |-> memory]
    /\ unsaved' = FALSE
    /\ \/ unsaved /\ running' = TRUE
       \/ running' = FALSE
    /\ UNCHANGED <<memory, changes>>

Killed ==
    /\ running
    /\ running' = FALSE
    /\ unsaved' = FALSE
    /\ UNCHANGED <<file, memory, changes>>

StoreNext == LoadFile \/ WriteSection \/ ImportPayload \/ WriteFile \/ Killed

StoreSpec == StoreInit /\ [][StoreNext]_storeVars

-----------------------------------------------------------------------------
(* Properties.                                                              *)

StoreTypeOK ==
    /\ DOMAIN memory = Sections
    /\ unsaved \in BOOLEAN /\ running \in BOOLEAN
    /\ unsaved => running
    /\ changes \in 0..MaxChanges

\* What the program holds it would find again: written and read back, every
\* section is what it was, so that a restart resumes where the file says.
ReadsBack ==
    running => ValidatedState([schema |-> CurrentSchema, sections |-> memory]) = memory

\* A start keeps what any version has written, whatever else in the file is broken
\* (validate_state: never drop or reset live learner state), and whatever is then
\* changed in memory the file can hold.
FileRoundTrips ==
    [][/\ ReadsBack'
       /\ ~running /\ running' /\ Present(file) /\ file.schema <= CurrentSchema =>
             \A s \in DOMAIN file.sections :
                file.sections[s] \in Sound[s] => memory'[s] = file.sections[s]]_storeVars

\* An import can be taken back: the newest snapshot is what it replaced
\* (import_bootstrap: rollback point before the swap, all three learner states).
ImportRevertible ==
    [][ImportPayload =>
          LET s == memory'["snapshots"][Len(memory'["snapshots"])]
          IN /\ s.shade = memory["shade"] /\ s.bias = memory["bias"]
             /\ \/ s.quantile = memory["quantile"]
                \/ s.quantile = Null /\ memory["quantile"].bins = <<>>]_storeVars
=============================================================================
