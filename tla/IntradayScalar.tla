--------------------------- MODULE IntradayScalar ---------------------------
(***************************************************************************)
(* The fast learner: the ring of samples of the update tick, the scalar it *)
(* yields, and the one re-arm per process that refills the ring from the   *)
(* recorder (coordinator.py, core/bias.py, core/intraday.py).              *)
(*                                                                         *)
(* Time counts slots of 15 minutes.  A sample is the ratio measured to     *)
(* modeled, in units in which Neutral is one; the weights of the ratio are *)
(* abstracted to what every weighting has in common: the result lies       *)
(* between the smallest and the largest ratio in the window.               *)
(***************************************************************************)
EXTENDS Integers, Sequences, FiniteSetsExt

CONSTANTS MaxSlot,     \* bound on the calendar
          MaxSamples,  \* bound on the ring
          MaxRestarts, \* bound on restarts
          SlotsPerDay,
          Daylight,    \* slots of a day with the sun high enough
          Window,      \* INTRADAY_TRAILING_WINDOW_MINUTES
          MinSpan,     \* INTRADAY_MIN_TRAILING_MINUTES
          Ratios,      \* ratios a slot may show
          Dim,         \* both sides of a slot below the neutral floor
          ScalarMin, Neutral, ScalarMax,
          Step         \* INTRADAY_MAX_STEP_PER_TICK

ASSUME ScalarAssumption ==
    /\ {MaxSlot, MaxSamples, MaxRestarts} \subseteq Nat
    /\ SlotsPerDay \in Nat \ {0}
    /\ Daylight \subseteq 0..(SlotsPerDay - 1)
    /\ {Window, MinSpan, ScalarMin, ScalarMax} \subseteq Nat
    /\ Neutral \in ScalarMin..ScalarMax
    /\ Step \in Nat \ {0}
    /\ Ratios \subseteq Nat
    /\ Dim \notin Ratios

Slot == 0..MaxSlot
Scalar == ScalarMin..ScalarMax
Sample == [at : Slot, ratio : Ratios \cup {Dim}, live : BOOLEAN]

VARIABLES
    now,      \* the slot the clock is in
    fast,     \* the fast learner is switched on
    ring,     \* coord._intraday_samples
    scalar,   \* coord._intraday_scalar
    rearmed,  \* the one re-arm of this process is spent
    result,   \* some engine pass of this process has succeeded
    restarts  \* restarts so far

scalarVars == <<now, fast, ring, scalar, rearmed, result, restarts>>

Sunny(t) == (t % SlotsPerDay) \in Daylight

ScalarInit ==
    /\ now = 0
    /\ fast = TRUE
    /\ ring = <<>>
    /\ scalar = Neutral
    /\ rearmed = FALSE
    /\ result = FALSE
    /\ restarts = 0

-----------------------------------------------------------------------------
(***************************************************************************)
(* The ring.                                                               *)
(***************************************************************************)

\* Samples leave at the head only.
Trim(samples) ==
    LET inside == {i \in DOMAIN samples : samples[i].at + Window >= now}
    IN IF inside = {} THEN <<>>
       ELSE SubSeq(samples, Min(inside), Len(samples))

\* Variant: the slot that contains now is reconstructed, too.
PastWithNow == {t \in Slot : t <= now /\ t + Window >= now /\ Sunny(t)}

\* The slots the recorder is asked for: the one that contains now is left to
\* the live sampler.
Past == {t \in Slot : t < now /\ t + Window >= now /\ Sunny(t)}

\* What the recorder may have of them, as samples, oldest first.  No rows, a
\* censored or dim slot, a failed read: fewer samples or none.
Reconstructed ==
    LET Row(slots) == [slots -> Ratios \cup {Dim}]
        Sorted(slots) == CHOOSE s \in [1..Cardinality(slots) -> slots] :
                            \A i, j \in DOMAIN s : i < j => s[i] < s[j]
    IN UNION {{[i \in 1..Cardinality(slots) |->
                   [at |-> Sorted(slots)[i], ratio |-> row[Sorted(slots)[i]],
                    live |-> FALSE]] : row \in Row(slots)}
              : slots \in SUBSET Past}

\* A tick may spend the re-arm once there is a result to compare with, and does
\* so if the image is fresh or cached.
RearmDue == {FALSE} \cup {~rearmed /\ result /\ fast}

\* A ring that already holds samples is left alone.
Rearmed(due) ==
    IF due /\ ring = <<>> THEN {Trim(s) : s \in Reconstructed} ELSE {ring}

\* Variant: the first tick samples against whatever curve there is.
SampledAtOnce(samples) ==
    {samples} \cup
    {Trim(Append(samples, [at |-> now, ratio |-> r, live |-> TRUE])) :
        r \in IF fast /\ Sunny(now) /\ Len(samples) < MaxSamples
              THEN Ratios \cup {Dim} ELSE {}}

\* The live sample: none in the dark, without a usable channel, in a clipped
\* slot, or before the first result.
Sampled(samples) ==
    IF ~result \/ ~fast THEN {samples}
    ELSE {samples} \cup
         {Trim(Append(samples, [at |-> now, ratio |-> r, live |-> TRUE])) :
             r \in IF Sunny(now) /\ Len(samples) < MaxSamples
                   THEN Ratios \cup {Dim} ELSE {}}

-----------------------------------------------------------------------------
(***************************************************************************)
(* The scalar.                                                             *)
(***************************************************************************)

\* Variant: the age of a sample is not looked at.
UsableAtAnyAge(samples) ==
    {samples[i] : i \in {j \in DOMAIN samples : samples[j].ratio # Dim}}

Usable(samples) ==
    {samples[i] : i \in {j \in DOMAIN samples :
        /\ samples[j].ratio # Dim
        /\ samples[j].at <= now
        /\ samples[j].at + Window >= now}}

\* compute_intraday_scalar: every value the weights can yield.  Each ratio is
\* capped before it is averaged.
Computed(samples) ==
    LET usable == Usable(samples)
        ages   == {s.at : s \in usable}
        capped == {Min({s.ratio, ScalarMax}) : s \in usable}
    IN IF usable = {} THEN {Neutral}
       ELSE IF Max(ages) - Min(ages) < MinSpan THEN {Neutral}
       ELSE Max({ScalarMin, Min(capped)})..Max({ScalarMin, Max(capped)})

\* The served scalar moves at most one step per tick.
Towards(target) ==
    scalar + Max({-Step, Min({Step, target - scalar})})

\* One update tick, as far as the engine pass.
TickScalar ==
    /\ \E due \in RearmDue :
          /\ \E samples \in Rearmed(due) : ring' \in Sampled(samples)
          /\ rearmed' = (rearmed \/ due)
    /\ IF fast
       THEN \E target \in Computed(ring') : scalar' = Towards(target)
       ELSE scalar' = Neutral
    /\ UNCHANGED <<now, fast, restarts>>

-----------------------------------------------------------------------------
(***************************************************************************)
(* The clock, and what ends the process or sets the entry up again.        *)
(***************************************************************************)
Advance ==
    /\ now < MaxSlot
    /\ now' = now + 1
    /\ UNCHANGED <<fast, ring, scalar, rearmed, result, restarts>>

\* Nothing of the fast learner is persistent.
Forget(switch) ==
    /\ restarts < MaxRestarts
    /\ restarts' = restarts + 1
    /\ fast' = switch
    /\ ring' = <<>>
    /\ scalar' = Neutral
    /\ rearmed' = FALSE
    /\ result' = FALSE
    /\ UNCHANGED now

-----------------------------------------------------------------------------
(***************************************************************************)
(* Properties.                                                             *)
(***************************************************************************)

\* Every variable of the fast learner has its type; a process without a result
\* has nothing to learn from.
ScalarTypeOK ==
    /\ now \in Slot
    /\ fast \in BOOLEAN
    /\ ring \in Seq(Sample)
    /\ scalar \in Scalar
    /\ rearmed \in BOOLEAN
    /\ result \in BOOLEAN
    /\ restarts \in 0..MaxRestarts
    /\ ~result => ring = <<>> /\ scalar = Neutral

\* The ring is chronological, which its trimming at the head relies on, and no
\* slot is both reconstructed and sampled (_rearm_samples_from_rows: no
\* double-samples), whenever the re-arm comes.
RingInOrder ==
    \A i, j \in DOMAIN ring : i < j =>
        \/ ring[i].at < ring[j].at
        \/ ring[i].at = ring[j].at /\ ring[i].live /\ ring[j].live

\* A scalar that corrects has evidence or is on its way back: once the last
\* sample has left the window the ticks lead it back to neutral, at the
\* latest before the next day's sun (SPEC 9.4).
BackToNeutral ==
    (\A t \in Slot : t <= now /\ t + Window >= now => ~Sunny(t))
        ~> (scalar = Neutral \/ Sunny(now))
=============================================================================
