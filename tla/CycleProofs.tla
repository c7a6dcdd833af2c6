----------------------------- MODULE CycleProofs -----------------------------
(***************************************************************************)
(* Proofs about what a tick is made of: the forecast and its provenance     *)
(* (ForecastGeneration) for any number of weather images and learner        *)
(* states, the weather cache (WeatherCache) for every choice of its         *)
(* intervals, and the request (FetchRetry) for every limit of its retries.  *)
(***************************************************************************)
EXTENDS ForecastGeneration, WeatherCache, FetchRetry, SumProofs, SequenceTheorems, TLAPS

-----------------------------------------------------------------------------
(* The forecast and its provenance.                                         *)

\* A forecast in the executor already carries the provenance of what it is
\* computed from.
BoundTrue == binding # None => binding.provenance = binding.curve

\* After a cycle that succeeded, the held result is the one that is served;
\* a failed cycle may have left the two apart.
ResultServed == success /\ data # None => result = data.curve

GenerationInv ==
    /\ TypeOK
    /\ BoundTrue
    /\ ProvenanceTrue
    /\ ResultServed

-----------------------------------------------------------------------------
\* The start satisfies the invariant.
LEMMA InitGeneration == Init => GenerationInv
<1> SUFFICES ASSUME Init PROVE GenerationInv
  OBVIOUS
<1>1. TypeOK
  <2>1. 0 \in 0..MaxWeather /\ 0 \in 0..MaxLearner
    BY VersionAssumption
  <2>2. (binding # None <=> cycle = "computing") /\ (archiving <=> entry # None)
    BY DEF Init
  <2>3. QED
    BY <2>1, <2>2 DEF Init, TypeOK
<1>2. BoundTrue /\ ProvenanceTrue /\ ResultServed
  BY DEF Init, BoundTrue, ProvenanceTrue, ResultServed
<1>3. QED
  BY <1>1, <1>2 DEF GenerationInv

\* Taking the versions of the moment gives an origin.
LEMMA NowIsOrigin ==
    ASSUME TypeOK, NEW img \in 0..MaxWeather
    PROVE  Now(img) \in Origin
BY DEF Now, Origin, TypeOK

\* Every step keeps the types.
LEMMA GenerationTypeStep ==
    ASSUME TypeOK, ResultServed, [Next]_vars
    PROVE  TypeOK'
<1> USE VersionAssumption, NoneAssumption
<1>1. CASE ReadWeather
  BY <1>1 DEF ReadWeather, TypeOK, served, archive
<1>2. CASE Bind
  <2>1. Now(using) \in Origin
    BY NowIsOrigin DEF TypeOK
  <2>2. binding' \in Forecast
    BY <1>2, <2>1 DEF Bind, Forecast
  <2>3. QED
    BY <1>2, <2>2 DEF Bind, TypeOK, served, archive
<1>3. CASE Publish
  <2>1. binding \in Forecast /\ binding.curve \in Origin
    BY <1>3 DEF Publish, TypeOK, Forecast
  <2>2. QED
    BY <1>3, <2>1 DEF Publish, TypeOK, archive
<1>4. CASE CycleFails
  <2>1. result' \in Origin \cup {None}
    BY <1>4 DEF CycleFails, TypeOK, Forecast
  <2>2. QED
    BY <1>4, <2>1 DEF CycleFails, TypeOK, archive
<1>5. CASE ChangeLearner
  BY <1>5 DEF ChangeLearner, TypeOK, cycleVars, served, archive
<1>6. CASE StartArchive
  <2>1. Now(weather) \in Origin
    BY NowIsOrigin DEF TypeOK
  <2>2. data \in Forecast /\ result \in Origin
    BY <1>6 DEF StartArchive, TypeOK, ResultServed, Forecast
  <2>3. entry' \in Entry
    BY <1>6, <2>1, <2>2 DEF StartArchive, TypeOK, Entry
  <2>4. QED
    BY <1>6, <2>3 DEF StartArchive, TypeOK, cycleVars, served
<1>7. CASE FinishArchive
  BY <1>7 DEF FinishArchive, TypeOK, cycleVars, served
<1>8. CASE NextDay
  BY <1>8 DEF NextDay, TypeOK, cycleVars, served
<1>9. CASE UNCHANGED vars
  BY <1>9 DEF TypeOK, vars, cycleVars, served, archive
<1>10. QED
  BY <1>1, <1>2, <1>3, <1>4, <1>5, <1>6, <1>7, <1>8, <1>9 DEF Next

\* Every step keeps the invariant.
LEMMA GenerationStep == GenerationInv /\ [Next]_vars => GenerationInv'
<1> SUFFICES ASSUME GenerationInv, [Next]_vars PROVE GenerationInv'
  OBVIOUS
<1> USE DEF GenerationInv
<1>1. TypeOK'
  BY GenerationTypeStep
<1>2. BoundTrue' /\ ProvenanceTrue' /\ ResultServed'
  <2> USE DEF BoundTrue, ProvenanceTrue, ResultServed
  <2>1. CASE Bind
    BY <2>1 DEF Bind, served
  <2>2. CASE Publish
    BY <2>2, NoneAssumption DEF Publish, TypeOK
  <2>3. CASE CycleFails
    BY <2>3 DEF CycleFails
  <2>4. CASE \/ ReadWeather \/ ChangeLearner \/ StartArchive
             \/ FinishArchive \/ NextDay \/ UNCHANGED vars
    BY <2>4 DEF ReadWeather, ChangeLearner, StartArchive, FinishArchive,
                NextDay, vars, cycleVars, served
  <2>5. QED
    BY <2>1, <2>2, <2>3, <2>4 DEF Next
<1>3. QED
  BY <1>1, <1>2

\* The invariant holds in every reachable state.
THEOREM GenerationInvariant == Spec => []GenerationInv
BY InitGeneration, GenerationStep, PTL DEF Spec

-----------------------------------------------------------------------------
\* Every variable keeps its type.
THEOREM GenerationTypeCorrect == Spec => []TypeOK
<1>1. GenerationInv => TypeOK
  BY DEF GenerationInv
<1>2. QED
  BY <1>1, GenerationInvariant, PTL

\* Published provenance names the weather and the learner state the curve was
\* computed from (_compute, _calculation_provenance).
THEOREM ProvenanceTrueHolds == Spec => []ProvenanceTrue
<1>1. GenerationInv => ProvenanceTrue
  BY DEF GenerationInv
<1>2. QED
  BY <1>1, GenerationInvariant, PTL

\* Curve and per-plane breakdown of an archive entry are of the one result
\* that is served when it is written (snapshot_issued).
THEOREM ArchivesWhatIsServedHolds == Spec => ArchivesWhatIsServed
<1> DEFINE Archived == issued' # None /\ issued' # issued =>
                          /\ issued'.served.curve = issued'.planes
                          /\ issued'.served = data
                          /\ success
<1>1. ASSUME GenerationInv, [Next]_vars
      PROVE  [Archived]_vars
  <2> USE DEF GenerationInv
  <2>1. CASE FinishArchive
    <3> SUFFICES ASSUME issued' # None, issued' # issued PROVE Archived
      OBVIOUS
    <3>1. issued' = entry /\ StillServed(entry)
      BY <2>1 DEF FinishArchive
    <3>2. entry \in Entry
      BY <1>1, <3>1 DEF TypeOK
    <3>3. entry.served \in Forecast /\ data = entry.served /\ success
      BY <3>1, <3>2 DEF StillServed, Entry
    <3>4. data # None
      BY <3>3, NoneAssumption
    <3>5. result = data.curve
      BY <1>1, <3>3, <3>4 DEF ResultServed
    <3>6. QED
      BY <3>1, <3>3, <3>5 DEF StillServed
  <2>2. CASE \/ ReadWeather \/ Bind \/ Publish \/ CycleFails \/ ChangeLearner
             \/ StartArchive \/ NextDay \/ UNCHANGED vars
    <3>1. issued' = issued \/ issued' = None
      BY <2>2 DEF ReadWeather, Bind, Publish, CycleFails, ChangeLearner,
                  StartArchive, NextDay, vars, archive
    <3>2. QED
      BY <3>1
  <2>3. QED
    BY <1>1, <2>1, <2>2 DEF Next
<1>2. QED
  BY <1>1, GenerationInvariant, PTL DEF Spec, ArchivesWhatIsServed

-----------------------------------------------------------------------------
(* The weather cache.                                                       *)

\* What is known between two writes.  While the write interval runs, the
\* image was adopted in it or stored at its beginning, and so was the one in
\* the file once the scheduled write has happened.
WriteGate ==
    /\ sinceSave < SaveInterval =>
          /\ image # NoImage
          /\ image.age <= sinceSave + Timeout
          /\ ~saveDue => disk # NoImage /\ disk.age <= sinceSave + Timeout
    /\ saveDue => image # NoImage /\ image.age <= Timeout

CacheInv ==
    /\ CacheTypeOK
    /\ AgeNotUnderstated
    /\ WriteGate
    /\ FileFollows

-----------------------------------------------------------------------------
\* An empty cache satisfies the invariant.
LEMMA InitCache == CacheInit => CacheInv
<1> SUFFICES ASSUME CacheInit PROVE CacheInv
  OBVIOUS
<1>1. CacheTypeOK
  <2>1. /\ FetchInterval \in 0..(FetchInterval + Timeout)
        /\ 0 \in 0..UpdateInterval /\ 0 \in 0..MaxRestarts
        /\ SaveInterval \in 0..SaveInterval
    BY IntervalAssumption
  <2>2. {image, disk} \subseteq Image \cup {NoImage}
    BY DEF CacheInit
  <2>3. QED
    BY <2>1, <2>2 DEF CacheInit, CacheTypeOK, Status
<1>2. AgeNotUnderstated /\ WriteGate /\ FileFollows
  BY IntervalAssumption DEF CacheInit, AgeNotUnderstated, WriteGate, FileFollows
<1>3. QED
  BY <1>1, <1>2 DEF CacheInv

\* An age moves by one step until it stops at its cap.
LEMMA CappedFacts ==
    ASSUME NEW cap \in Nat, NEW n \in 0..cap
    PROVE  /\ Capped(n, cap) \in 0..cap
           /\ n <= Capped(n, cap)
           /\ Capped(n, cap) <= n + 1
           /\ n < cap => Capped(n, cap) = n + 1
BY DEF Capped

\* Two ages that move together keep their distance or come closer.
LEMMA CappedTogether ==
    ASSUME NEW cap \in Nat, NEW m \in 0..cap, NEW n \in 0..cap,
           NEW k \in Nat, m <= n + k
    PROVE  Capped(m, cap) <= Capped(n, cap) + k
BY DEF Capped

\* An image grows older without losing its type, and never understates.
LEMMA OlderFacts ==
    ASSUME NEW img \in Image
    PROVE  /\ Older(img) \in Image
           /\ Older(img).age = Capped(img.age, AgeCap)
           /\ Older(img).born = Capped(img.born, AgeCap)
           /\ img.born <= img.age => Older(img).born <= Older(img).age
<1>1. AgeCap \in Nat
  BY IntervalAssumption DEF AgeCap
<1>2. /\ img.age \in 0..AgeCap
      /\ img.born \in 0..AgeCap
  BY DEF Image
<1>3. img # NoImage
  BY NoImageAssumption
<1>4. /\ Capped(img.age, AgeCap) \in 0..AgeCap
      /\ Capped(img.born, AgeCap) \in 0..AgeCap
  BY <1>1, <1>2, CappedFacts
<1>5. {i \in Interval : i + 1 \in img.usable} \in SUBSET Interval
  OBVIOUS
<1>6. img.born <= img.age => Capped(img.born, AgeCap) <= Capped(img.age, AgeCap)
  BY <1>1, <1>2 DEF Capped
<1>7. QED
  BY <1>3, <1>4, <1>5, <1>6 DEF Older, Image

\* The image kept or adopted after an answer.
LEMMA ChosenFacts ==
    ASSUME NEW prior \in Image \cup {NoImage}, NEW usable \in Offered,
           NEW passed \in 0..Timeout
    PROVE  /\ Chosen(prior, usable, passed) \in Image
           /\ ~RetainPrior(prior, usable, passed) =>
                 /\ Chosen(prior, usable, passed).age = passed
                 /\ Chosen(prior, usable, passed).born = 0
           /\ RetainPrior(prior, usable, passed) =>
                 Chosen(prior, usable, passed) = prior
<1>1. usable \in SUBSET Interval
  BY PartialAssumption DEF Offered
<1>2. passed \in 0..AgeCap /\ 0 \in 0..AgeCap
  BY IntervalAssumption DEF AgeCap
<1>3. [usable |-> usable, age |-> passed, born |-> 0] \in Image
  BY <1>1, <1>2 DEF Image
<1>4. QED
  BY <1>3 DEF Chosen, RetainPrior

\* Grading leaves the update cycle idle, or computing with an image young
\* enough to serve.
LEMMA GradeFacts ==
    ASSUME CacheTypeOK, NEW img, NEW ok, NEW passed \in 0..Timeout,
           Grade(img, ok, passed)
    PROVE  /\ cacheCycle' \in {"idle", "computing"}
           /\ elapsed' \in 0..(IF cacheCycle' = "idle" THEN UpdateInterval
                               ELSE Timeout)
           /\ grade' \in Status
           /\ published' \in Status
           /\ cacheCycle' = "computing" => img # NoImage /\ grade' # "unavailable"
<1> DEFINE status == IF img = NoImage THEN "unavailable"
                     ELSE StatusForAge(img.age - passed, ok)
<1>1. status \in Status
  BY DEF StatusForAge, Status
<1> HIDE DEF status
<1>2. CASE status = "unavailable"
  BY <1>2, IntervalAssumption DEF Grade, status, CacheTypeOK, Status
<1>3. CASE status # "unavailable"
  <2>1. /\ cacheCycle' = "computing"
        /\ elapsed' = passed
        /\ grade' = status
        /\ published' = published
    BY <1>3 DEF Grade, status
  <2>2. img # NoImage
    BY <1>3 DEF status
  <2>3. QED
    BY <1>1, <1>3, <2>1, <2>2 DEF CacheTypeOK
<1>4. QED
  BY <1>2, <1>3

-----------------------------------------------------------------------------
\* Every step keeps the types and computes only with a servable image.
LEMMA CacheTypeStep ==
    ASSUME CacheTypeOK, [CacheNext]_cacheVars
    PROVE  CacheTypeOK'
<1> USE IntervalAssumption
<1>0. /\ image \in Image \cup {NoImage} /\ disk \in Image \cup {NoImage}
      /\ 0 \in 0..Timeout /\ 0 \in 0..UpdateInterval
  BY DEF CacheTypeOK
<1>1. CASE SkipFetch
  <2>1. Grade(image, fetchOk, 0)
    BY <1>1 DEF SkipFetch
  <2>2. QED
    BY <1>0, <1>1, <2>1, GradeFacts DEF SkipFetch, CacheTypeOK, cache, file
<1>2. CASE StartFetch
  BY <1>0, <1>2 DEF StartFetch, CacheTypeOK, cache, file
<1>3. CASE FetchFails
  <2>1. elapsed \in 0..Timeout /\ Grade(image, FALSE, elapsed)
    BY <1>3 DEF FetchFails, CacheTypeOK
  <2>2. sinceAttempt' \in 0..(FetchInterval + Timeout)
    BY <1>3, <2>1 DEF FetchFails
  <2>3. QED
    BY <1>0, <1>3, <2>1, <2>2, GradeFacts DEF FetchFails, CacheTypeOK, file
<1>4. CASE FetchAnswers
  <2>1. elapsed \in 0..Timeout /\ Grade(image', TRUE, elapsed)
    BY <1>4 DEF FetchAnswers, CacheTypeOK
  <2>2. image' \in Image
    BY <1>0, <1>4, <2>1, ChosenFacts DEF FetchAnswers
  <2>3. sinceSave' \in 0..SaveInterval /\ saveDue' \in BOOLEAN
    <3>1. \/ sinceSave' = sinceSave /\ saveDue' = saveDue
          \/ sinceSave' = 0 /\ saveDue' = TRUE
      BY <1>4 DEF FetchAnswers, Persist
    <3>2. 0 \in 0..SaveInterval
      OBVIOUS
    <3>3. QED
      BY <3>1, <3>2 DEF CacheTypeOK
  <2>4. sinceAttempt' \in 0..(FetchInterval + Timeout) /\ fetchOk' \in BOOLEAN
    BY <1>4, <2>1 DEF FetchAnswers
  <2>5. /\ cacheCycle' \in {"idle", "computing"}
        /\ elapsed' \in 0..(IF cacheCycle' = "idle" THEN UpdateInterval ELSE Timeout)
        /\ grade' \in Status /\ published' \in Status
        /\ cacheCycle' = "computing" => image' # NoImage /\ grade' # "unavailable"
    BY <2>1, GradeFacts
  <2>6. /\ disk' \in Image \cup {NoImage} /\ restarts' \in 0..MaxRestarts
        /\ provider' \in {"up", "partial", "down"}
    BY <1>0, <1>4 DEF FetchAnswers, CacheTypeOK
  <2>7. QED
    BY <2>2, <2>3, <2>4, <2>5, <2>6 DEF CacheTypeOK
<1>5. CASE ServeForecast
  BY <1>0, <1>5 DEF ServeForecast, CacheTypeOK, cache, file
<1>6. CASE Save
  BY <1>0, <1>6 DEF Save, CacheTypeOK, cache, update
<1>7. ASSUME NEW stored \in Image \cup {NoImage}, Boot(stored)
      PROVE  CacheTypeOK'
  <2>1. /\ FetchInterval \in 0..(FetchInterval + Timeout)
        /\ SaveInterval \in 0..SaveInterval
        /\ restarts' \in 0..MaxRestarts
    BY <1>7 DEF Boot, CacheTypeOK
  <2>2. QED
    BY <1>0, <1>7, <2>1 DEF Boot, CacheTypeOK, Status
<1>8. CASE Restart \/ Crash
  BY <1>0, <1>7, <1>8 DEF Restart, Crash
<1>9. CASE ProviderChanges
  BY <1>0, <1>9 DEF ProviderChanges, CacheTypeOK, cache, update, file
<1>10. CASE Tick
  <2>1. \A img \in Image \cup {NoImage} : Older(img) \in Image \cup {NoImage}
    BY OlderFacts DEF Older
  <2>2. \A img \in Image : Older(img) # NoImage
    BY OlderFacts, NoImageAssumption
  <2>3. sinceAttempt' \in 0..(FetchInterval + Timeout)
    <3>1. sinceAttempt' = Capped(sinceAttempt, FetchInterval + Timeout)
      BY <1>10 DEF Tick
    <3>2. QED
      BY <3>1, CappedFacts DEF CacheTypeOK
  <2>4. sinceSave' \in 0..SaveInterval
    <3>1. sinceSave' = Capped(sinceSave, SaveInterval)
      BY <1>10 DEF Tick
    <3>2. QED
      BY <3>1, CappedFacts DEF CacheTypeOK
  <2>5. elapsed' \in 0..(IF cacheCycle' = "idle" THEN UpdateInterval ELSE Timeout)
    BY <1>10 DEF Tick, CacheTypeOK
  <2>6. /\ image' \in Image \cup {NoImage} /\ disk' \in Image \cup {NoImage}
        /\ image # NoImage => image' # NoImage
    BY <1>0, <1>10, <2>1, <2>2 DEF Tick
  <2>7. QED
    BY <1>10, <2>3, <2>4, <2>5, <2>6 DEF Tick, CacheTypeOK
<1>11. CASE UNCHANGED cacheVars
  BY <1>11 DEF CacheTypeOK, cacheVars, cache, update, file
<1>12. QED
  BY <1>1, <1>2, <1>3, <1>4, <1>5, <1>6, <1>8, <1>9, <1>10, <1>11 DEF CacheNext

\* Every step keeps the ages honest.
LEMMA AgeStep ==
    ASSUME CacheTypeOK, AgeNotUnderstated, [CacheNext]_cacheVars
    PROVE  AgeNotUnderstated'
<1> USE DEF AgeNotUnderstated
<1>1. CASE FetchAnswers
  <2>1. PICK usable \in Offered : image' = Chosen(image, usable, elapsed)
    BY <1>1 DEF FetchAnswers
  <2>2. elapsed \in 0..Timeout /\ image \in Image \cup {NoImage}
    BY <1>1 DEF FetchAnswers, CacheTypeOK
  <2>3. image' # NoImage => image'.born <= image'.age
    <3>1. CASE RetainPrior(image, usable, elapsed)
      BY <2>1, <2>2, <3>1, ChosenFacts DEF RetainPrior
    <3>2. CASE ~RetainPrior(image, usable, elapsed)
      <4>1. image'.age = elapsed /\ image'.born = 0
        BY <2>1, <2>2, <3>2, ChosenFacts
      <4>2. QED
        BY <2>2, <4>1, IntervalAssumption
    <3>3. QED
      BY <3>1, <3>2
  <2>4. QED
    BY <1>1, <2>3 DEF FetchAnswers
<1>2. CASE Tick
  <2>1. ASSUME NEW img \in Image \cup {NoImage},
               img # NoImage => img.born <= img.age,
               Older(img) # NoImage
        PROVE  Older(img).born <= Older(img).age
    BY <2>1, OlderFacts DEF Older
  <2>2. QED
    BY <1>2, <2>1 DEF Tick, CacheTypeOK
<1>3. CASE Save \/ Restart \/ Crash
  BY <1>3 DEF Save, Restart, Crash, Boot, cache
<1>4. CASE \/ SkipFetch \/ StartFetch \/ FetchFails \/ ServeForecast
           \/ ProviderChanges \/ UNCHANGED cacheVars
  BY <1>4 DEF SkipFetch, StartFetch, FetchFails, ServeForecast, ProviderChanges,
              cacheVars, cache, file
<1>5. QED
  BY <1>1, <1>2, <1>3, <1>4 DEF CacheNext

\* Every step keeps the write gate's bookkeeping and the file close behind.
LEMMA GateStep ==
    ASSUME CacheTypeOK, WriteGate, FileFollows, [CacheNext]_cacheVars
    PROVE  WriteGate' /\ FileFollows'
<1> USE IntervalAssumption DEF WriteGate, FileFollows
<1>0. /\ image # NoImage => image \in Image /\ image.age \in Nat
      /\ disk # NoImage => disk \in Image /\ disk.age \in Nat
      /\ sinceSave \in 0..SaveInterval
  BY DEF CacheTypeOK, Image
<1>1. CASE FetchAnswers
  <2>1. PICK usable \in Offered :
           /\ image' = Chosen(image, usable, elapsed)
           /\ IF RetainPrior(image, usable, elapsed)
              THEN UNCHANGED <<sinceSave, saveDue>> ELSE Persist
    BY <1>1 DEF FetchAnswers
  <2>2. /\ elapsed \in 0..Timeout /\ image \in Image \cup {NoImage}
        /\ disk' = disk
    BY <1>1 DEF FetchAnswers, CacheTypeOK
  <2>3. CASE RetainPrior(image, usable, elapsed)
    <3>1. image' = image
      BY <2>1, <2>2, <2>3, ChosenFacts
    <3>2. QED
      BY <2>1, <2>2, <2>3, <3>1
  <2>4. CASE ~RetainPrior(image, usable, elapsed)
    <3>1. image' # NoImage /\ image'.age = elapsed
      BY <2>1, <2>2, <2>4, ChosenFacts, NoImageAssumption
    <3>2. Persist
      BY <2>1, <2>4
    <3>3. CASE sinceSave < SaveInterval
      BY <1>0, <2>2, <3>1, <3>2, <3>3 DEF Persist
    <3>4. CASE ~(sinceSave < SaveInterval)
      BY <1>0, <2>2, <3>1, <3>2, <3>4 DEF Persist
    <3>5. QED
      BY <3>3, <3>4
  <2>5. QED
    BY <2>3, <2>4
<1>2. CASE Tick
  <2>1. ~saveDue /\ ~saveDue'
    BY <1>2 DEF Tick
  <2>2. AgeCap \in Nat
    BY DEF AgeCap
  <2>3. sinceSave' = Capped(sinceSave, SaveInterval)
    BY <1>2 DEF Tick
  <2>4. image # NoImage =>
           /\ image' # NoImage
           /\ image.age \in 0..AgeCap
           /\ image'.age = Capped(image.age, AgeCap)
    BY <1>0, <1>2, OlderFacts, NoImageAssumption DEF Tick, Image
  <2>5. disk # NoImage =>
           /\ disk' # NoImage
           /\ disk.age \in 0..AgeCap
           /\ disk'.age = Capped(disk.age, AgeCap)
    BY <1>0, <1>2, OlderFacts, NoImageAssumption DEF Tick, Image
  <2>6. image' # NoImage => image # NoImage
    BY <1>2 DEF Tick, Older
  <2>7. image # NoImage => image'.age \in Nat
    BY <2>2, <2>4, CappedFacts, SMTT(20)
  <2>8. disk # NoImage => disk'.age \in Nat
    BY <2>2, <2>5, CappedFacts, SMTT(20)
  <2>9. FileFollows'
    <3>1. SUFFICES ASSUME image' # NoImage
                   PROVE  /\ disk # NoImage
                          /\ disk' # NoImage
                          /\ disk'.age <= image'.age + (SaveInterval + Timeout)
      BY <2>6, <2>7, <2>8
    <3>2. disk # NoImage /\ disk.age <= image.age + (SaveInterval + Timeout)
      BY <1>0, <2>1, <2>6, <3>1
    <3>3. SaveInterval + Timeout \in Nat
      OBVIOUS
    <3>4. QED
      BY <2>2, <2>4, <2>5, <2>6, <3>1, <3>2, <3>3, CappedTogether
  <2>10. ASSUME sinceSave' < SaveInterval
        PROVE  sinceSave < SaveInterval /\ sinceSave' = sinceSave + 1
    BY <1>0, <2>3, <2>10 DEF Capped
  <2>11. WriteGate'
    <3>1. image # NoImage => image'.age <= image.age + 1
      BY <2>2, <2>4, CappedFacts
    <3>2. disk # NoImage => disk'.age <= disk.age + 1
      BY <2>2, <2>5, CappedFacts
    <3>3. QED
      BY <1>0, <2>1, <2>4, <2>5, <2>10, <2>7, <2>8, <3>1, <3>2
  <2>12. QED
    BY <2>9, <2>11
<1>3. CASE Save
  <2>1. disk' = image /\ image' = image /\ sinceSave' = sinceSave /\ ~saveDue'
    BY <1>3 DEF Save, cache
  <2>2. FileFollows'
    BY <1>0, <2>1
  <2>3. WriteGate'
    BY <1>0, <2>1
  <2>4. QED
    BY <2>2, <2>3
<1>4. CASE Restart \/ Crash
  <2>1. /\ image' = disk' /\ disk' \in {image, disk}
        /\ sinceSave' = SaveInterval /\ ~saveDue'
    BY <1>4 DEF Restart, Crash, Boot
  <2>2. image' # NoImage => image'.age \in Nat
    BY <1>0, <2>1
  <2>3. FileFollows'
    BY <2>1, <2>2
  <2>4. WriteGate'
    BY <2>1, <1>0
  <2>5. QED
    BY <2>3, <2>4
<1>5. CASE \/ SkipFetch \/ StartFetch \/ FetchFails \/ ServeForecast
           \/ ProviderChanges \/ UNCHANGED cacheVars
  <2>1. /\ image' = image /\ disk' = disk
        /\ sinceSave' = sinceSave /\ saveDue' = saveDue
    BY <1>5 DEF SkipFetch, StartFetch, FetchFails, ServeForecast, ProviderChanges,
                cacheVars, cache, file
  <2>2. QED
    BY <2>1
<1>6. QED
  BY <1>1, <1>2, <1>3, <1>4, <1>5 DEF CacheNext

\* The invariant holds in every reachable state.
THEOREM CacheInvariant == CacheSpec => []CacheInv
<1>1. CacheInv /\ [CacheNext]_cacheVars => CacheInv'
  BY CacheTypeStep, AgeStep, GateStep DEF CacheInv
<1>2. QED
  BY <1>1, InitCache, PTL DEF CacheSpec

-----------------------------------------------------------------------------
\* Every variable keeps its type, and the engine never runs without an image
\* young enough to serve (_async_update_data).
THEOREM CacheTypeCorrect == CacheSpec => []CacheTypeOK
<1>1. CacheInv => CacheTypeOK
  BY DEF CacheInv
<1>2. QED
  BY <1>1, CacheInvariant, PTL

\* No retained and no restored image ever looks younger than it is
\* (async_refresh, restore).
THEOREM AgeNotUnderstatedHolds == CacheSpec => []AgeNotUnderstated
<1>1. CacheInv => AgeNotUnderstated
  BY DEF CacheInv
<1>2. QED
  BY <1>1, CacheInvariant, PTL

\* What a crash can cost is bounded by the write interval and one fetch
\* (set_last_payload).
THEOREM FileFollowsHolds == CacheSpec => []FileFollows
<1>1. CacheInv => FileFollows
  BY DEF CacheInv
<1>2. QED
  BY <1>1, CacheInvariant, PTL

-----------------------------------------------------------------------------
(* The request.                                                             *)

\* What a fetch may have taken by its attempts and the waits before them, and
\* what the tick had spent when it began.
Before(tries) == (tries - 1) * (RequestTimeout + LongestWait)
Begun == IF target = "forecast" THEN 0 ELSE Budget(MaxTries)

\* The accounts of the fetch that runs: what was answered, how much time is gone,
\* and how much of it there may be by the next request.
FetchInv ==
    /\ phase \in {"idle", "request", "backoff"}
    /\ target \in {"forecast", "ensemble"}
    /\ attempt \in 0..MaxTries
    /\ answers \in Seq(Transient)
    /\ spent \in Nat /\ notBefore \in Nat /\ wake \in Nat
    /\ Len(answers) < MaxTries
    /\ phase = "idle" => spent <= 2 * Budget(MaxTries)
    /\ phase = "request" =>
          /\ attempt > 0 /\ Len(answers) = attempt - 1
          /\ notBefore <= spent
          /\ spent <= Begun + Before(attempt)
    /\ phase = "backoff" =>
          /\ attempt > 0 /\ attempt < MaxTries /\ Len(answers) = attempt
          /\ notBefore <= wake
          /\ spent <= wake
          /\ wake <= Begun + Before(attempt + 1)

\* The numbers of the limits; the doubling ceiling is one as well.
LEMMA FetchNumbers ==
    /\ MaxTries \in Nat /\ MaxTries > 0
    /\ RequestTimeout \in Nat /\ LongestWait \in Nat
    /\ InlineMax \in Nat /\ BackoffMax \in Nat /\ BackoffBase \in Nat
    /\ InlineMax <= LongestWait /\ BackoffMax <= LongestWait
    /\ RetryAfters \subseteq Nat
    /\ Null \notin Nat
    /\ Budget(MaxTries) \in Nat
BY FetchAssumption, NullAssumption, SMTT(20) DEF LongestWait, Budget

\* A power of two is a number: that of the subsets of a set.
LEMMA PowerOfTwo ==
    ASSUME NEW n \in Nat
    PROVE  2 ^ n \in Nat
<1>1. IsFiniteSet(1..n) /\ Cardinality(1..n) = n
  BY FS_Interval
<1>2. IsFiniteSet(SUBSET (1..n)) /\ Cardinality(SUBSET (1..n)) = 2 ^ Cardinality(1..n)
  BY <1>1, FS_SUBSET
<1>3. Cardinality(SUBSET (1..n)) \in Nat
  BY <1>2, FS_CardinalityType
<1> QED BY <1>1, <1>2, <1>3

LEMMA CeilingBounded ==
    ASSUME NEW n \in Nat, n > 0
    PROVE  Ceiling(n) \in Nat /\ Ceiling(n) <= BackoffMax
<1>1. n - 1 \in Nat
  OBVIOUS
<1>2. PICK m \in Nat : m = 2 ^ (n - 1)
  BY <1>1, PowerOfTwo
<1>3. BackoffBase * m \in Nat
  BY FetchNumbers
<1> QED BY <1>2, <1>3, FetchNumbers DEF Ceiling

\* The next attempt has one request and one wait more; the last ends in time.
LEMMA AccountsGrow ==
    ASSUME NEW n \in Nat, n > 0, n <= MaxTries
    PROVE  /\ Before(n) \in Nat
           /\ Before(n + 1) = Before(n) + RequestTimeout + LongestWait
           /\ Before(n) + RequestTimeout <= Budget(MaxTries)
<1> DEFINE K == RequestTimeout + LongestWait
<1>1. K \in Nat /\ MaxTries \in Nat /\ RequestTimeout \in Nat /\ LongestWait \in Nat
  BY FetchNumbers
<1>2. PICK a \in Nat, b \in Nat : a = n - 1 /\ MaxTries - 1 = a + b
  <2>1. n - 1 \in Nat /\ MaxTries - n \in Nat /\ MaxTries - 1 = (n - 1) + (MaxTries - n)
    BY <1>1
  <2> QED BY <2>1
<1>3. Before(n) = a * K /\ a * K \in Nat /\ b * K \in Nat
  BY <1>1, <1>2 DEF Before
<1>4. Before(n + 1) = (a + 1) * K
  <2>1. (n + 1) - 1 = a + 1
    BY <1>2
  <2> QED BY <2>1 DEF Before
<1>5. (a + 1) * K = a * K + K
  BY <1>1
<1>6. Budget(MaxTries) = (MaxTries - 1) * K + RequestTimeout
  BY <1>1 DEF Budget
<1>7. (MaxTries - 1) * K = a * K + b * K
  BY <1>1, <1>2
<1> HIDE DEF K
<1>8. Before(n) + RequestTimeout <= Budget(MaxTries)
  BY <1>1, <1>3, <1>6, <1>7
<1> QED BY <1>1, <1>3, <1>4, <1>5, <1>8 DEF K

LEMMA InitFetch == FetchInit => FetchInv
BY FetchNumbers DEF FetchInit, FetchInv

\* A fetch that ends in time leaves the accounts of the next one, or the tick's.
LEMMA EndFetchKeeps ==
    ASSUME FetchInv, phase = "request", NEW w, NEW e, EndFetch(w, e),
           spent' \in Nat, spent' <= Begun + Budget(MaxTries)
    PROVE  FetchInv'
<1> USE FetchNumbers DEF FetchInv
<1>1. CASE phase' = "idle"
  <2>1. UNCHANGED <<target, attempt, answers, notBefore, wake>>
    BY <1>1 DEF EndFetch, Request
  <2>2. spent' <= 2 * Budget(MaxTries)
    BY DEF Begun
  <2> QED BY <1>1, <2>1, <2>2
<1>2. CASE phase' # "idle"
  <2>1. target = "forecast" /\ Request("ensemble")
    BY <1>2 DEF EndFetch
  <2>2. Begun = 0 /\ Begun' = Budget(MaxTries) /\ Before(1) = 0
    BY <2>1 DEF Begun, Request, Before, Budget, LongestWait
  <2>3. << >> \in Seq(Transient) /\ Len(<< >>) = 0
    OBVIOUS
  <2> QED BY <2>1, <2>2, <2>3 DEF Request, Begun, Before, Budget, LongestWait
<1> QED BY <1>1, <1>2

\* A failure that ends the fetch, or one that is waited for.
LEMMA FailKeeps ==
    ASSUME FetchInv, phase = "request", NEW a, NEW after \in RetryAfters \cup {Null},
           NEW took \in {0, RequestTimeout}, Fail(a, after, took)
    PROVE  FetchInv'
<1> USE FetchNumbers DEF FetchInv
<1>1. /\ spent' = spent + took /\ spent' \in Nat
      /\ spent' <= Begun + Before(attempt) + RequestTimeout
  <2>1. Begun \in Nat /\ Before(attempt) \in Nat
    BY AccountsGrow DEF Begun
  <2> QED BY <2>1 DEF Fail
<1>2. CASE \/ ~Retryable(a) \/ attempt = MaxTries
           \/ after # Null /\ after > InlineMax
  <2>1. EndFetch(fetchedImage, ensemble)
    BY <1>2 DEF Fail
  <2>2. spent' <= Begun + Budget(MaxTries)
    <3>1. Begun \in Nat /\ Before(attempt) \in Nat
      BY AccountsGrow DEF Begun
    <3>2. Before(attempt) + RequestTimeout <= Budget(MaxTries)
      BY AccountsGrow
    <3> QED BY <1>1, <3>1, <3>2
  <2> QED BY <1>1, <2>1, <2>2, EndFetchKeeps
<1>3. CASE ~(\/ ~Retryable(a) \/ attempt = MaxTries
             \/ after # Null /\ after > InlineMax)
  <2>1. /\ \E d \in Delays(after) : wake' = spent' + d
        /\ phase' = "backoff"
        /\ answers' = Append(answers, a)
        /\ notBefore' = IF after = Null THEN 0 ELSE spent' + after
        /\ UNCHANGED <<target, attempt>>
    BY <1>3 DEF Fail
  <2>2. PICK d \in Delays(after) : wake' = spent' + d
    BY <2>1
  <2>3. d \in Nat /\ d <= LongestWait
    <3>1. CASE after # Null
      BY <1>3, <3>1 DEF Delays
    <3>2. CASE after = Null
      <4>1. d = 0 \/ d = Ceiling(attempt)
        BY <3>2 DEF Delays
      <4> QED BY <4>1, CeilingBounded
    <3> QED BY <3>1, <3>2
  <2>4. notBefore' \in Nat /\ notBefore' <= wake'
    <3>1. CASE after # Null
      <4>1. d = after
        BY <3>1 DEF Delays
      <4> QED BY <1>1, <2>1, <2>2, <2>3, <3>1, <4>1
    <3>2. CASE after = Null
      BY <1>1, <2>1, <2>2, <2>3, <3>2
    <3> QED BY <3>1, <3>2
  <2>5. /\ Begun' = Begun /\ Begun \in Nat
        /\ Before(attempt) \in Nat
        /\ Before(attempt + 1) = Before(attempt) + RequestTimeout + LongestWait
    BY <2>1, AccountsGrow DEF Begun, Budget, LongestWait
  <2>6. wake' \in Nat /\ spent' <= wake' /\ wake' <= Begun' + Before(attempt + 1)
    BY <1>1, <2>2, <2>3, <2>5, SMTT(20)
  <2>7. answers' \in Seq(Transient) /\ Len(answers') = attempt
    <3>1. a \in Transient
      BY <1>3 DEF Retryable
    <3>2. Len(answers) = attempt - 1
      OBVIOUS
    <3> QED BY <2>1, <3>1, <3>2
  <2>8. attempt < MaxTries
    BY <1>3
  <2>9. Before(attempt + 1) = Before(attempt + 1)'
    BY <2>1 DEF Before, LongestWait
  <2> QED BY <1>1, <2>1, <2>4, <2>5, <2>6, <2>7, <2>8, <2>9
<1> QED BY <1>2, <1>3

LEMMA NextFetch == FetchInv /\ [FetchNext]_fetchVars => FetchInv'
<1> SUFFICES ASSUME FetchInv, [FetchNext]_fetchVars
             PROVE  FetchInv'
  OBVIOUS
<1> USE FetchNumbers
<1>1. CASE BeginTick
  <2>1. Before(1) = 0 /\ << >> \in Seq(Transient) /\ Len(<< >>) = 0
    BY DEF Before, LongestWait
  <2> QED BY <1>1, <2>1 DEF BeginTick, Request, FetchInv, Begun, Before, LongestWait
<1>2. CASE ErrorAnswer
  <2>1. phase = "request"
    BY <1>2 DEF ErrorAnswer
  <2>2. \/ \E a \in {"server", "client", "network", "nonJson"} : Fail(a, Null, 0)
        \/ Fail("timeout", Null, RequestTimeout)
        \/ \E after \in RetryAfters \cup {Null} : Fail("rate", after, 0)
    BY <1>2 DEF ErrorAnswer
  <2>3. CASE \E a \in {"server", "client", "network", "nonJson"} : Fail(a, Null, 0)
    BY <2>1, <2>3, FailKeeps
  <2>4. CASE Fail("timeout", Null, RequestTimeout)
    BY <2>1, <2>4, FailKeeps
  <2>5. CASE \E after \in RetryAfters \cup {Null} : Fail("rate", after, 0)
    BY <2>1, <2>5, FailKeeps
  <2> QED BY <2>2, <2>3, <2>4, <2>5
<1>3. CASE BodyAnswer
  <2>1. phase = "request"
    BY <1>3 DEF BodyAnswer
  <2>2. PICK sky \in Skies, d \in Damages, took \in {0, RequestTimeout} :
           LET b == Damaged(Body(sky), d)
           IN IF Verdict(b) # "ok" THEN Fail(Verdict(b), Null, took)
              ELSE /\ spent' = spent + took
                   /\ IF target = "ensemble" THEN EndFetch(fetchedImage, b)
                      ELSE \/ Regular(b) /\ EndFetch(ParseWeather(b), ensemble)
                           \/ EndFetch(fetchedImage, ensemble)
    BY <1>3 DEF BodyAnswer
  <2> DEFINE b == Damaged(Body(sky), d)
  <2>3. CASE Verdict(b) # "ok"
    <3>1. Fail(Verdict(b), Null, took)
      BY <2>2, <2>3
    <3> QED BY <2>1, <3>1, FailKeeps
  <2>4. CASE Verdict(b) = "ok"
    <3>1. spent' = spent + took /\ \E w, e : EndFetch(w, e)
      BY <2>2, <2>4
    <3>2. /\ Begun \in Nat /\ Before(attempt) \in Nat
          /\ Before(attempt) + RequestTimeout <= Budget(MaxTries)
      BY <2>1, AccountsGrow DEF Begun, FetchInv
    <3>3. spent' \in Nat /\ spent' <= Begun + Budget(MaxTries)
      BY <2>1, <3>1, <3>2 DEF FetchInv
    <3> QED BY <2>1, <3>1, <3>3, EndFetchKeeps
  <2> QED BY <2>3, <2>4
<1>4. CASE Retry
  <2>1. Begun' = Begun
    BY <1>4 DEF Retry, Begun, Budget, LongestWait
  <2>2. Before(attempt)' = Before(attempt + 1)
    BY <1>4 DEF Retry, Before, LongestWait
  <2> QED BY <1>4, <2>1, <2>2 DEF Retry, FetchInv
<1>5. CASE UNCHANGED fetchVars
  BY <1>5 DEF fetchVars, FetchInv, Begun, Before, Budget, LongestWait
<1> QED BY <1>1, <1>2, <1>3, <1>4, <1>5 DEF FetchNext

THEOREM FetchInvariant == FetchSpec => []FetchInv
BY InitFetch, NextFetch, PTL DEF FetchSpec

THEOREM FetchTypeCorrect == FetchSpec => []FetchTypeOK
<1>1. FetchInv => FetchTypeOK
  BY DEF FetchInv, FetchTypeOK
<1> QED BY <1>1, FetchInvariant, PTL

\* Whatever is answered, and whatever waits the servers ask for, a tick's fetches
\* stay within the time of their requests and waits, nothing final is tried again
\* and no server is called earlier than it asked for (_fetch_validated).
THEOREM FetchBoundedHolds == FetchSpec => []FetchBounded
<1>1. FetchInv => FetchBounded
  <2> SUFFICES ASSUME FetchInv PROVE FetchBounded
    OBVIOUS
  <2> USE FetchNumbers
  <2>1. \A i \in DOMAIN answers : answers[i] \in Transient
    BY DEF FetchInv
  <2>2. spent <= 2 * Budget(MaxTries)
    <3>1. CASE phase = "idle"
      BY <3>1 DEF FetchInv
    <3>2. CASE phase # "idle"
      <4>1. Begun \in Nat /\ Begun <= Budget(MaxTries)
        BY DEF Begun
      <4>2. /\ Before(attempt) \in Nat
            /\ Before(attempt) + RequestTimeout <= Budget(MaxTries)
        BY <3>2, AccountsGrow DEF FetchInv
      <4>3. CASE phase = "request"
        BY <4>1, <4>2, <4>3 DEF FetchInv
      <4>4. CASE phase = "backoff"
        <5>1. attempt + 1 \in Nat /\ attempt + 1 > 0 /\ attempt + 1 <= MaxTries
          BY <4>4 DEF FetchInv
        <5>2. /\ Before(attempt + 1) \in Nat
              /\ Before(attempt + 1) + RequestTimeout <= Budget(MaxTries)
          BY <5>1, AccountsGrow
        <5> QED BY <4>1, <4>4, <5>2 DEF FetchInv
      <4> QED BY <3>2, <4>3, <4>4 DEF FetchInv
    <3> QED BY <3>1, <3>2
  <2>3. phase = "request" => spent >= notBefore
    BY DEF FetchInv
  <2> QED BY <2>1, <2>2, <2>3 DEF FetchBounded
<1> QED BY <1>1, FetchInvariant, PTL

-----------------------------------------------------------------------------
(* What is read from the two bodies.                                        *)

\* A sky is known from slot 0 on, without a gap.
LEMMA SkyShape ==
    ASSUME NEW sky \in Skies
    PROVE  \E last \in Nat : sky \in [0..last -> Nat]
<1>1. /\ IsFiniteSet(DOMAIN sky) /\ DOMAIN sky # {}
      /\ sky \in [0..(Cardinality(DOMAIN sky) - 1) -> Nat]
  BY FetchAssumption
<1> DEFINE n == Cardinality(DOMAIN sky)
<1>2. n \in Nat /\ n # 0
  BY <1>1, FS_CardinalityType, FS_EmptySet
<1> HIDE DEF n
<1>3. n - 1 \in Nat
  BY <1>2
<1> QED BY <1>1, <1>3 DEF n

\* The forecast's image has every slot that ends with a stamp, as the sky was in it.
LEMMA ForecastIsRead ==
    ASSUME NEW last \in Nat, NEW sky \in [0..last -> Nat]
    PROVE  /\ DOMAIN ParseWeather(ForecastBody(sky)) = {s \in 0..last : s + 1 >= PerHour}
           /\ \A s \in DOMAIN ParseWeather(ForecastBody(sky)) :
                 ParseWeather(ForecastBody(sky))[s] = sky[s]
<1> DEFINE b == ForecastBody(sky)  n == last + 2 - PerHour
<1>1. PerHour \in Nat /\ PerHour > 0 /\ Null \notin Nat /\ n \in Int
  BY FetchAssumption, NullAssumption
<1>2. b = [stamps |-> [i \in 1..n |-> PerHour + i - 1],
           radiation |-> [i \in 1..n |-> sky[PerHour + i - 2]]]
  <2> DEFINE m == CHOOSE k \in DOMAIN sky : \A j \in DOMAIN sky : j <= k
  <2>1. m = last
    <3>1. DOMAIN sky = 0..last
      OBVIOUS
    <3>2. \E k \in DOMAIN sky : \A j \in DOMAIN sky : j <= k
      BY <3>1
    <3>3. m \in DOMAIN sky /\ \A j \in DOMAIN sky : j <= m
      BY <3>2
    <3> QED BY <3>1, <3>3
  <2> QED BY <2>1 DEF ForecastBody
<1> HIDE DEF b
<1>3. /\ DOMAIN b.stamps = 1..n
      /\ \A i \in 1..n : /\ b.stamps[i] = PerHour + i - 1
                         /\ b.radiation[i] = sky[PerHour + i - 2]
  BY <1>2
<1> DEFINE hours == {b.stamps[i] - 1 : i \in DOMAIN b.stamps}
<1>4. hours = {s \in 0..last : s + 1 >= PerHour}
  <2>1. ASSUME NEW i \in 1..n
        PROVE  b.stamps[i] - 1 \in 0..last /\ b.stamps[i] - 1 + 1 >= PerHour
    <3>1. b.stamps[i] = PerHour + i - 1
      BY <1>3
    <3> DEFINE z == b.stamps[i]
    <3>2. z = PerHour + i - 1
      BY <3>1
    <3> HIDE DEF z, b, hours
    <3>3. i \in Int /\ 1 <= i /\ i <= last + 2 - PerHour
      BY <1>1
    <3>4. z - 1 \in Int /\ PerHour - 1 <= z - 1 /\ z - 1 <= last
      BY ONLY <1>1, <3>2, <3>3, last \in Nat, PerHour \in Nat
    <3>5. z - 1 \in 0..last /\ z - 1 + 1 >= PerHour
      BY ONLY <1>1, <3>4, last \in Nat
    <3> QED BY ONLY <3>5 DEF z
  <2>2. ASSUME NEW s \in 0..last, s + 1 >= PerHour
        PROVE  s + 2 - PerHour \in 1..n /\ b.stamps[s + 2 - PerHour] - 1 = s
    <3>1. s + 2 - PerHour \in 1..n
      BY <1>1, <2>2
    <3> DEFINE k == s + 2 - PerHour
    <3>2. k \in 1..n /\ k \in Int /\ PerHour + k - 1 = s + 1
      BY <1>1, <3>1
    <3> HIDE DEF k
    <3>3. b.stamps[k] - 1 = s
      BY <1>3, <3>2
    <3> QED BY <3>1, <3>3 DEF k
  <2> HIDE DEF n
  <2>3. ASSUME NEW s \in hours PROVE s \in 0..last /\ s + 1 >= PerHour
    <3>1. PICK i \in 1..n : s = b.stamps[i] - 1
      BY <1>3
    <3> QED BY <2>1, <3>1
  <2>4. ASSUME NEW s \in 0..last, s + 1 >= PerHour PROVE s \in hours
    <3> DEFINE k == s + 2 - PerHour
    <3>1. k \in 1..n /\ b.stamps[k] - 1 = s
      BY <2>2, <2>4
    <3> HIDE DEF k
    <3> QED BY <1>3, <3>1
  <2> HIDE DEF hours
  <2> QED BY <2>3, <2>4
<1>5. ASSUME NEW s \in hours
      PROVE  b.radiation[CHOOSE i \in DOMAIN b.stamps : b.stamps[i] = s + 1] = sky[s]
  <2> DEFINE c == CHOOSE i \in DOMAIN b.stamps : b.stamps[i] = s + 1
  <2>1. PICK i \in DOMAIN b.stamps : s = b.stamps[i] - 1
    OBVIOUS
  <2>2. b.stamps[i] = s + 1
    BY <1>1, <1>3, <2>1
  <2>3. c \in DOMAIN b.stamps /\ b.stamps[c] = s + 1
    BY <2>2
  <2> HIDE DEF c
  <2>4. c \in 1..n /\ PerHour + c - 1 = s + 1 /\ s \in Int
    BY <1>3, <1>4, <2>3
  <2>5. PerHour + c - 2 = s
    BY <1>1, <2>4
  <2> QED BY <1>3, <2>4, <2>5 DEF c
<1>6. \A s \in hours : sky[s] \in Nat /\ sky[s] # Null
  BY <1>1, <1>4
<1>7. ParseWeather(b) = [s \in hours |->
          LET v == b.radiation[CHOOSE i \in DOMAIN b.stamps : b.stamps[i] = s + 1]
          IN IF v = Null THEN 0 ELSE v]
  BY DEF ParseWeather
<1> HIDE DEF hours
<1>8. DOMAIN ParseWeather(b) = hours /\ \A s \in hours : ParseWeather(b)[s] = sky[s]
  BY <1>5, <1>6, <1>7
<1> QED BY <1>4, <1>8 DEF b

\* What the ensemble is read to say of an hour is its mean.
LEMMA EnsembleIsRead ==
    ASSUME NEW last \in Nat, NEW sky \in [0..last -> Nat]
    PROVE  \A h \in DOMAIN ParseEnsemble(EnsembleBody(sky)) :
              /\ h \in Nat /\ (h + 1) * PerHour <= last + 1
              /\ ParseEnsemble(EnsembleBody(sky))[h] = {v \in {HourMean(sky, h)} : v # Null}
<1> DEFINE e == EnsembleBody(sky)  n == (last + 1) \div PerHour
<1>1. PerHour \in Nat /\ PerHour > 0
  BY FetchAssumption
<1>2. n \in Nat /\ n * PerHour <= last + 1
  <2> DEFINE x == last + 1
  <2>1. x \in Nat
    OBVIOUS
  <2> HIDE DEF x
  <2>2. x \div PerHour \in Int /\ PerHour * (x \div PerHour) <= x /\ x < PerHour * (x \div PerHour) + PerHour
    BY <1>1, <2>1, Floored
  <2> DEFINE y == x \div PerHour
  <2> HIDE DEF y
  <2>3. y \in Int /\ PerHour * y <= x /\ x < PerHour * y + PerHour
    BY <2>2 DEF y
  <2>4. y \in Nat
    <3>1. SUFFICES ASSUME y <= -1 PROVE FALSE
      BY <2>3
    <3>2. PerHour * y <= PerHour * (-1)
      BY <1>1, <2>3, <3>1
    <3> QED BY <1>1, <2>1, <2>3, <3>2
  <2>5. y * PerHour <= x
    BY <1>1, <2>3
  <2> QED BY <2>4, <2>5 DEF x, y
<1>3. e = [stamps |-> [i \in 1..n |-> i * PerHour],
           radiation |-> [i \in 1..n |-> HourMean(sky, i - 1)]]
  <2>1. DOMAIN sky = 0..last
    OBVIOUS
  <2>2. Cardinality(0..last) = last + 1
    BY FS_Interval
  <2> QED BY <2>1, <2>2 DEF EnsembleBody
<1> HIDE DEF e, n
<1>4. /\ DOMAIN e.stamps = 1..n
      /\ \A i \in 1..n : e.stamps[i] = i * PerHour /\ e.radiation[i] = HourMean(sky, i - 1)
  BY <1>3
<1>5. ASSUME NEW i \in 1..n PROVE e.stamps[i] \div PerHour = i
  <2>1. (i * PerHour) \div PerHour = i
    BY <1>1, <1>2
  <2> QED BY <1>4, <2>1
<1> DEFINE hours == {(e.stamps[i] \div PerHour) - 1 : i \in DOMAIN e.stamps}
           At(h) == CHOOSE i \in DOMAIN e.stamps : e.stamps[i] = (h + 1) * PerHour
<1>6. ParseEnsemble(e) = [h \in hours |-> {v \in {e.radiation[At(h)]} : v # Null}]
  BY DEF ParseEnsemble
<1>7. ASSUME NEW h \in hours
      PROVE  /\ h \in Nat /\ h + 1 \in 1..n /\ At(h) = h + 1
  <2>1. PICK i \in DOMAIN e.stamps : h = (e.stamps[i] \div PerHour) - 1
    OBVIOUS
  <2>2. i \in 1..n /\ h = i - 1
    BY <1>4, <1>5, <2>1
  <2>3. h \in Nat /\ h + 1 \in 1..n
    BY <1>2, <2>2
  <2>4. e.stamps[h + 1] = (h + 1) * PerHour
    BY <1>4, <2>3
  <2> DEFINE c == At(h)
  <2>5. c \in 1..n /\ e.stamps[c] = (h + 1) * PerHour
    BY <1>4, <2>3, <2>4
  <2> HIDE DEF c, At
  <2> DEFINE k == h + 1
  <2>6. k \in Nat /\ c \in Nat /\ c * PerHour = k * PerHour
    BY <1>2, <1>4, <2>3, <2>5
  <2> HIDE DEF k
  <2>7. c = k
    <3>1. (c * PerHour) \div PerHour = c /\ (k * PerHour) \div PerHour = k
      BY <1>1, <2>6
    <3> QED BY <2>6, <3>1
  <2> QED BY <2>3, <2>7 DEF c, k
<1> HIDE DEF hours, At
<1>8. ASSUME NEW h \in hours
      PROVE  /\ h \in Nat /\ (h + 1) * PerHour <= last + 1
             /\ ParseEnsemble(e)[h] = {v \in {HourMean(sky, h)} : v # Null}
  <2>1. h \in Nat /\ h + 1 \in 1..n /\ At(h) = h + 1
    BY <1>7
  <2>2. e.radiation[h + 1] = HourMean(sky, (h + 1) - 1) /\ (h + 1) - 1 = h
    BY <1>4, <2>1
  <2>3. (h + 1) * PerHour <= n * PerHour
    BY <1>1, <1>2, <2>1
  <2>4. (h + 1) * PerHour <= last + 1
    <3> DEFINE x == (h + 1) * PerHour  y == n * PerHour
    <3>1. x \in Int /\ y \in Int
      BY <1>1, <1>2, <2>1
    <3> HIDE DEF x, y
    <3> QED BY <1>2, <2>3, <3>1 DEF x, y
  <2> QED BY <1>6, <2>1, <2>2, <2>4
<1>9. DOMAIN ParseEnsemble(e) = hours
  BY <1>6
<1> QED BY <1>8, <1>9 DEF e

\* The forecast's mean of a full hour is the sky's.
LEMMA MeansLineUp ==
    ASSUME NEW last \in Nat, NEW sky \in [0..last -> Nat],
           NEW h \in Nat, h > 0, (h + 1) * PerHour <= last + 1
    PROVE  /\ HourMean(ParseWeather(ForecastBody(sky)), h) = HourMean(sky, h)
           /\ HourMean(sky, h) \in Int
<1> DEFINE w == ParseWeather(ForecastBody(sky))
           slots == {s \in 0..last : s \div PerHour = h}
<1>1. PerHour \in Nat /\ PerHour > 0
  BY FetchAssumption
<1>2. /\ DOMAIN w = {s \in 0..last : s + 1 >= PerHour}
      /\ \A s \in DOMAIN w : w[s] = sky[s]
  BY ForecastIsRead
<1> HIDE DEF w
<1>3. ASSUME NEW s \in slots PROVE s + 1 >= PerHour
  <2>1. s \in Int /\ s \div PerHour = h
    OBVIOUS
  <2>2. PerHour * (s \div PerHour) <= s
    BY <1>1, <2>1, Floored
  <2>3. PerHour * h <= s
    BY <2>1, <2>2
  <2>4. PerHour * h >= PerHour
    BY <1>1
  <2> DEFINE x == PerHour * h
  <2>5. x \in Int
    BY <1>1
  <2> HIDE DEF x
  <2> QED BY <1>1, <2>1, <2>3, <2>4, <2>5 DEF x
<1>4. {s \in DOMAIN w : s \div PerHour = h} = slots
  BY <1>2, <1>3
<1>5. [s \in slots |-> w[s]] = [s \in slots |-> sky[s]]
  <2>1. ASSUME NEW s \in slots PROVE w[s] = sky[s]
    <3>1. s \in DOMAIN w
      BY <1>2, <1>3
    <3> QED BY <1>2, <3>1
  <2> QED BY <2>1
<1> DEFINE p == [s \in slots |-> sky[s]]  total == SumFunction(p)  n == Cardinality(slots)
<1>6. HourMean(w, h) = total \div n
  BY <1>4, <1>5 DEF HourMean
<1>7. HourMean(sky, h) = total \div n
  <2>1. DOMAIN sky = 0..last
    OBVIOUS
  <2> QED BY <2>1 DEF HourMean
<1>8. IsFiniteSet(slots)
  <2>1. IsFiniteSet(0..last)
    BY FS_Interval
  <2> QED BY <2>1, FS_Subset
<1>9. h * PerHour \in slots
  <2> DEFINE x == h * PerHour
  <2>1. x \in Nat /\ x + PerHour <= last + 1
    BY <1>1
  <2>2. x \div PerHour = h
    BY <1>1
  <2> HIDE DEF x
  <2>3. x \in 0..last
    BY <1>1, <2>1
  <2> QED BY <2>2, <2>3 DEF x
<1>10. n \in Nat /\ n > 0
  <2>1. n \in Nat /\ (n = 0 <=> slots = {})
    BY <1>8, FS_CardinalityType, FS_EmptySet
  <2>2. slots # {}
    BY <1>9
  <2> QED BY <2>1, <2>2
<1>11. DOMAIN p = slots /\ \A s \in slots : p[s] \in Int
  OBVIOUS
<1> HIDE DEF slots, p, n
<1>12. total \in Int
  BY <1>8, <1>11, SumIsInt DEF SumFunction
<1> HIDE DEF total
<1>13. total \div n \in Int
  BY <1>10, <1>12
<1> QED BY <1>6, <1>7, <1>13 DEF w

-----------------------------------------------------------------------------
(* The spread.                                                              *)

\* Between two ticks the spread is that of the image and the ensemble at hand.
SpreadInv == phase = "idle" /\ spread # Null /\ fetchedImage # Null =>
                spread = SpreadOf(fetchedImage, ensemble)

\* A fetch that ends the tick's turn makes the spread from what the tick then has.
LEMMA EndFetchSpreads ==
    ASSUME NEW w, NEW e, EndFetch(w, e)
    PROVE  SpreadInv'
BY DEF EndFetch, Request, SpreadInv, SpreadOf

\* Only the end of a fetch leads back to rest.
LEMMA NextSpreadInv == SpreadInv /\ [FetchNext]_fetchVars => SpreadInv'
<1> SUFFICES ASSUME SpreadInv, [FetchNext]_fetchVars PROVE SpreadInv'
  OBVIOUS
<1>1. ASSUME NEW a, NEW after, NEW took, Fail(a, after, took) PROVE SpreadInv'
  <2>1. CASE EndFetch(fetchedImage, ensemble)
    BY <2>1, EndFetchSpreads
  <2>2. CASE phase' = "backoff"
    BY <2>2 DEF SpreadInv
  <2> QED BY <1>1, <2>1, <2>2 DEF Fail
<1>2. CASE BeginTick
  BY <1>2 DEF BeginTick, Request, SpreadInv
<1>3. CASE ErrorAnswer
  BY <1>1, <1>3 DEF ErrorAnswer
<1>4. CASE BodyAnswer
  <2>1. (\E a, after, took : Fail(a, after, took)) \/ (\E w, e : EndFetch(w, e))
    BY <1>4 DEF BodyAnswer
  <2> QED BY <1>1, <2>1, EndFetchSpreads
<1>5. CASE Retry
  BY <1>5 DEF Retry, SpreadInv
<1>6. CASE UNCHANGED fetchVars
  BY <1>6 DEF fetchVars, SpreadInv, SpreadOf
<1> QED BY <1>2, <1>3, <1>4, <1>5, <1>6 DEF FetchNext

\* Of any sky, the members of every full hour but the first, which the forecast may
\* begin in, are compared with the forecast's mean of that hour (parse_ensemble,
\* _det_ghi_by_hour).
THEOREM HoursLineUpHolds == FetchSpec => []HoursLineUp
<1>1. FetchInit => SpreadInv
  BY DEF FetchInit, SpreadInv
<1>2. SpreadInv => HoursLineUp
  <2> SUFFICES ASSUME SpreadInv, NEW sky \in Skies,
                      phase = "idle",
                      fetchedImage = ParseWeather(ForecastBody(sky)),
                      ensemble = EnsembleBody(sky),
                      spread # Null,
                      NEW h \in DOMAIN spread, h > 0
               PROVE  spread[h].members = {spread[h].det}
    BY DEF HoursLineUp
  <2> DEFINE w == ParseWeather(ForecastBody(sky))  e == EnsembleBody(sky)
  <2>1. spread = SpreadOf(w, e) /\ e # Null
    <3>1. fetchedImage # Null
      BY ImageAssumption
    <3>2. spread = SpreadOf(fetchedImage, ensemble)
      BY <3>1 DEF SpreadInv
    <3> QED BY <3>2 DEF SpreadOf
  <2>2. PICK last \in Nat : sky \in [0..last -> Nat]
    BY SkyShape
  <2> DEFINE members == ParseEnsemble(e)  det == DetGhiByHour(w)
  <2> HIDE DEF w, e
  <2>3. spread = [x \in DOMAIN members \cap DOMAIN det |-> [members |-> members[x], det |-> det[x]]]
    BY <2>1 DEF SpreadOf
  <2>4. h \in DOMAIN members /\ h \in DOMAIN det /\ spread[h].members = members[h]
        /\ spread[h].det = det[h]
    BY <2>3
  <2>5. /\ h \in Nat /\ (h + 1) * PerHour <= last + 1
        /\ members[h] = {v \in {HourMean(sky, h)} : v # Null}
    BY <2>2, <2>4, EnsembleIsRead DEF e
  <2>6. HourMean(w, h) = HourMean(sky, h) /\ HourMean(sky, h) \in Int
    BY <2>2, <2>5, MeansLineUp DEF w
  <2>7. det[h] = HourMean(w, h)
    BY <2>4 DEF DetGhiByHour
  <2>8. HourMean(sky, h) # Null
    BY <2>6, NullAssumption
  <2> QED BY <2>4, <2>5, <2>6, <2>7, <2>8
<1> QED BY <1>1, <1>2, NextSpreadInv, PTL DEF FetchSpec
=============================================================================
