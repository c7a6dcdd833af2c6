----------------------------- MODULE FetchRetry -----------------------------
(***************************************************************************)
(* The network part of an update tick: one bounded fetch of the forecast   *)
(* and, if enabled, one of the ensemble (fetcher.py), what is read from    *)
(* their bodies, and the ensemble spread the tick goes on with             *)
(* (coordinator._async_update_ensemble).                                   *)
(*                                                                         *)
(* Time is in the units of the constants.  An instant of the provider's    *)
(* axis is a number of slots; slot s is the interval from s to s + 1.      *)
(* Radiation is a number, Null where the provider has none.                *)
(***************************************************************************)
EXTENDS Values, Functions

CONSTANTS MaxTries, RequestTimeout,
          InlineMax,          \* longest Retry-After waited for within a fetch
          BackoffBase, BackoffMax,
          PerHour,            \* slots in an hour
          NearTerm,           \* samples that must not all be null
          Skies,              \* what the sky may do: functions from slots to radiation
          RetryAfters         \* waits a 429 may ask for

ASSUME FetchAssumption ==
    /\ {MaxTries, RequestTimeout, PerHour, NearTerm} \subseteq Nat \ {0}
    /\ {InlineMax, BackoffBase, BackoffMax} \subseteq Nat
    /\ RetryAfters \subseteq Nat
    /\ \A sky \in Skies :
          /\ IsFiniteSet(DOMAIN sky) /\ DOMAIN sky # {}
          /\ sky \in [0..(Cardinality(DOMAIN sky) - 1) -> Nat]

VARIABLES
    phase,      \* "idle", or what the tick awaits: "request", "backoff"
    target,     \* "forecast" or "ensemble"
    attempt,    \* of the fetch's bounded loop
    answers,    \* what the attempts so far were answered
    spent,      \* time the tick has spent in its fetches
    notBefore,  \* the server asked not to be called before
    wake,       \* end of the back-off
    fetchedImage,      \* the weather the tick goes on with
    ensemble,   \* _ensemble_raw
    spread      \* _ensemble_factors: per hour, members against the forecast

fetchVars == <<phase, target, attempt, answers, spent, notBefore, wake,
               fetchedImage, ensemble, spread>>

-----------------------------------------------------------------------------
(* Bodies and what is read from them.                                       *)

\* The provider: a mean over the interval that ends at its stamp.
ForecastBody(sky) ==
    LET last == CHOOSE n \in DOMAIN sky : \A m \in DOMAIN sky : m <= n
        n == last + 2 - PerHour
    IN [stamps |-> [i \in 1..n |-> PerHour + i - 1],
        radiation |-> [i \in 1..n |-> sky[PerHour + i - 2]]]

HourMean(sky, h) ==
    LET slots == {s \in DOMAIN sky : s \div PerHour = h}
    IN SumFunction([s \in slots |-> sky[s]]) \div Cardinality(slots)

EnsembleBody(sky) ==
    LET n == Cardinality(DOMAIN sky) \div PerHour
    IN [stamps |-> [i \in 1..n |-> i * PerHour],
        radiation |-> [i \in 1..n |-> HourMean(sky, i - 1)]]

Body(sky) == IF target = "forecast" THEN ForecastBody(sky)
             ELSE EnsembleBody(sky)

\* What can be wrong with a body that is a JSON object.
Damages == {"short", "irregular", "outage", "none"}

\* A body as it may arrive: an array too short, a stamp missing, all null.
Damaged(b, d) ==
    CASE d = "short" -> [b EXCEPT !.radiation = Tail(@)]
      [] d = "irregular" -> [stamps |-> <<Head(b.stamps)>> \o Tail(Tail(b.stamps)),
                             radiation |-> Tail(b.radiation)]
      [] d = "outage" -> [b EXCEPT !.radiation = [i \in DOMAIN @ |-> Null]]
      [] OTHER -> b

\* validate_payload and validate_ensemble: shape first, and for the forecast
\* that something is known of the near term.
Verdict(b) ==
    IF b.stamps = <<>> \/ Len(b.radiation) # Len(b.stamps) THEN "malformed"
    ELSE IF /\ target = "forecast"
            /\ \A i \in DOMAIN b.radiation : i <= NearTerm => b.radiation[i] = Null
         THEN "outage"
         ELSE "ok"

Regular(b) ==
    \A i \in 1..(Len(b.stamps) - 1) : b.stamps[i + 1] = b.stamps[i] + 1

\* Variant: a stamp is taken for the beginning of its interval.
ParseWeatherAtStamp(b) ==
    [s \in {b.stamps[i] : i \in DOMAIN b.stamps} |->
        b.radiation[CHOOSE i \in DOMAIN b.stamps : b.stamps[i] = s]]

\* parse_weather: a slot starts where its stamp says that it ends; a gap is dark.
ParseWeather(b) ==
    [s \in {b.stamps[i] - 1 : i \in DOMAIN b.stamps} |->
        LET v == b.radiation[CHOOSE i \in DOMAIN b.stamps : b.stamps[i] = s + 1]
        IN IF v = Null THEN 0 ELSE v]

\* A weather image is not the absence of one.
ASSUME ImageAssumption == \A sky \in Skies : ParseWeather(ForecastBody(sky)) # Null

\* parse_ensemble: by the hour in which the interval starts.
ParseEnsemble(b) ==
    [h \in {(b.stamps[i] \div PerHour) - 1 : i \in DOMAIN b.stamps} |->
        {v \in {b.radiation[CHOOSE i \in DOMAIN b.stamps :
                             b.stamps[i] = (h + 1) * PerHour]} : v # Null}]

\* _det_ghi_by_hour: the mean over the slots that start in the hour.
DetGhiByHour(w) ==
    [h \in {s \div PerHour : s \in DOMAIN w} |-> HourMean(w, h)]

\* What _async_update_ensemble hands to ensemble_band_factors.
SpreadOf(w, e) ==
    IF e = Null THEN Null
    ELSE LET members == ParseEnsemble(e)
             det == DetGhiByHour(w)
         IN [h \in DOMAIN members \cap DOMAIN det |->
                [members |-> members[h], det |-> det[h]]]

-----------------------------------------------------------------------------
FetchInit ==
    /\ phase = "idle"
    /\ target = "forecast"
    /\ attempt = 0
    /\ answers = <<>>
    /\ spent = 0
    /\ notBefore = 0
    /\ wake = 0
    /\ fetchedImage = Null
    /\ ensemble = Null
    /\ spread = Null

\* The fetch of the tick that is due begins: _fetch_validated's first attempt.
Request(t) ==
    /\ phase' = "request"
    /\ target' = t
    /\ attempt' = 1
    /\ answers' = <<>>
    /\ notBefore' = 0
    /\ UNCHANGED wake

BeginTick ==
    /\ phase = "idle"
    /\ Request("forecast")
    /\ spent' = 0
    /\ UNCHANGED <<fetchedImage, ensemble, spread>>

\* A fetch ends; after that of the forecast comes the ensemble's, if it is
\* enabled and due, and the spread is made from what the tick then has.
EndFetch(w, e) ==
    /\ fetchedImage' = w
    /\ ensemble' = e
    /\ \/ target = "forecast" /\ w # Null
          /\ Request("ensemble")
          /\ UNCHANGED spread
       \/ /\ phase' = "idle"
          /\ spread' = IF w = Null THEN spread ELSE SpreadOf(w, e)
          /\ UNCHANGED <<target, attempt, answers, notBefore, wake>>

\* _request_once: how an answer without a body is classified.
Transient == {"server", "rate", "timeout", "network", "nonJson", "outage"}
Final == {"client", "malformed"}

\* Variant: every error is tried again.
RetryableAll(a) == TRUE
Retryable(a) == a \in Transient

\* _backoff_delay: full jitter below a doubling ceiling.
Ceiling(n) == IF BackoffBase * 2 ^ (n - 1) <= BackoffMax
              THEN BackoffBase * 2 ^ (n - 1) ELSE BackoffMax

\* Variant: the jitter is used although the server named its wait.
DelaysJittered(after) == {0, Ceiling(attempt)}

Delays(after) == IF after # Null THEN {after} ELSE {0, Ceiling(attempt)}

\* The loop's except branch: give up, or wait as the server or the back-off says.
Fail(a, after, took) ==
    /\ spent' = spent + took
    /\ IF \/ ~Retryable(a)
          \/ attempt = MaxTries
          \/ after # Null /\ after > InlineMax
       THEN EndFetch(fetchedImage, ensemble)
       ELSE /\ \E d \in Delays(after) : wake' = spent' + d
            /\ phase' = "backoff"
            /\ answers' = Append(answers, a)
            /\ notBefore' = IF after = Null THEN 0 ELSE spent' + after
            /\ UNCHANGED <<target, attempt, fetchedImage, ensemble, spread>>

\* The request fails without a usable status or body.
ErrorAnswer ==
    /\ phase = "request"
    /\ \/ \E a \in {"server", "client", "network", "nonJson"} : Fail(a, Null, 0)
       \/ Fail("timeout", Null, RequestTimeout)
       \/ \E after \in RetryAfters \cup {Null} : Fail("rate", after, 0)

\* A JSON body arrives, at the latest when the request would time out.  The forecast is
\* adopted or not, as the weather cache decides; one that cannot be parsed never is.
BodyAnswer ==
    /\ phase = "request"
    /\ \E sky \in Skies, d \in Damages, took \in {0, RequestTimeout} :
          LET b == Damaged(Body(sky), d)
          IN IF Verdict(b) # "ok" THEN Fail(Verdict(b), Null, took)
             ELSE /\ spent' = spent + took
                  /\ IF target = "ensemble" THEN EndFetch(fetchedImage, b)
                     ELSE \/ Regular(b) /\ EndFetch(ParseWeather(b), ensemble)
                          \/ EndFetch(fetchedImage, ensemble)

\* asyncio.sleep is over and the loop goes round.
Retry ==
    /\ phase = "backoff"
    /\ spent' = wake
    /\ phase' = "request"
    /\ attempt' = attempt + 1
    /\ UNCHANGED <<target, answers, notBefore, wake, fetchedImage, ensemble, spread>>

FetchNext == BeginTick \/ ErrorAnswer \/ BodyAnswer \/ Retry

FetchSpec == FetchInit /\ [][FetchNext]_fetchVars

-----------------------------------------------------------------------------
(* Properties.                                                              *)

FetchTypeOK ==
    /\ phase \in {"idle", "request", "backoff"}
    /\ target \in {"forecast", "ensemble"}
    /\ attempt \in 0..MaxTries
    /\ Len(answers) < MaxTries
    /\ {spent, notBefore, wake} \subseteq Nat

LongestWait == IF InlineMax > BackoffMax THEN InlineMax ELSE BackoffMax
Budget(tries) == tries * RequestTimeout + (tries - 1) * LongestWait

\* A tick's two fetches together never hold it longer than their requests and
\* waits may last, only passing troubles are tried again, and a server that has
\* named its wait is not called before (_fetch_validated: bounded retries, fail fast).
FetchBounded ==
    /\ spent <= 2 * Budget(MaxTries)
    /\ \A i \in DOMAIN answers : answers[i] \in Transient
    /\ phase = "request" => spent >= notBefore

\* Ensemble and forecast are compared hour by hour for the same interval: with
\* both of the same sky, every full hour's member is the forecast's mean
\* (parse_ensemble: the keys line up although the stamps are ends).
HoursLineUp ==
    \A sky \in Skies :
        /\ phase = "idle"
        /\ fetchedImage = ParseWeather(ForecastBody(sky))
        /\ ensemble = EnsembleBody(sky)
        /\ spread # Null
        => \A h \in DOMAIN spread :
              h > 0 => spread[h].members = {spread[h].det}
=============================================================================
