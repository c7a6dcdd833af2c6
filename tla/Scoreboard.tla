------------------------------ MODULE Scoreboard ------------------------------
(***************************************************************************)
(* The rolling skill scoreboard: closed days are scored when their label    *)
(* and their forecast are there, late days too, days are scored again in    *)
(* every sweep, and the window is an option (_scoreboard_glue.py,           *)
(* core/scoreboard.py).  Whether and how a day is scored is DayScore.       *)
(***************************************************************************)
EXTENDS MeasuredDay

CONSTANTS BoardDays,    \* closed days of a behaviour
          BoardKinds,   \* [issued, label, metered]: what a day can be
          BoardWindows, \* values of scoreboard_window_days
          BoardCatchUp, \* NIGHTLY_CATCHUP_MAX_DAYS
          StratumMin    \* SCOREBOARD_STRATUM_MIN_N

ASSUME BoardAssumption ==
    /\ BoardWindows \subseteq Nat
    /\ \A k \in BoardKinds :
          /\ IsLayer(k.issued.raw, k.issued.rawOf)
          /\ IsLayer(k.issued.corrected, k.issued.correctedOf)
          /\ IsFiniteSet(DOMAIN k.issued.class)
          /\ IsLabel(k.label)
          /\ k.metered \subseteq PlaneSet

VARIABLES
    boardDay,     \* closed days
    boardKind,    \* day |-> its kind
    boardOn,      \* scoreboard_enabled
    window,       \* scoreboard_window_days
    board,        \* ScoreboardState.days: day |-> DayScore
    everScored,   \* days that were ever scored
    narrowest     \* the least window any of them was scored under

boardVars == <<boardDay, boardKind, boardOn, window, board, everScored, narrowest>>

-----------------------------------------------------------------------------
\* score_day; without measured or forecast there is no score.
ScoreOf == [k \in BoardKinds |-> DayScore(k.issued, k.label, k.metered, LocalDay(0))]

Scored(d) == ScoreOf[boardKind[d]]

\* Variant: the day that was scored first goes, whatever its date.
TrimWindowScored(days, d) ==
    IF Cardinality(DOMAIN days) <= window THEN days
    ELSE Where(days, LAMBDA x : x # CHOOSE y \in DOMAIN days : y # d)

\* trim_window.
TrimWindow(days, d) == Trimmed(days, window)

BoardIdle ==
    /\ boardDay = 0
    /\ boardOn = TRUE
    /\ window \in BoardWindows
    /\ board = <<>>
    /\ everScored = {}
    /\ narrowest = window

BoardInit == BoardIdle /\ boardKind \in [0..(BoardDays - 1) -> BoardKinds]

\* The next local day is closed.
BoardMidnight ==
    /\ boardDay < BoardDays
    /\ boardDay' = boardDay + 1
    /\ UNCHANGED <<boardKind, boardOn, window, board, everScored, narrowest>>

\* score_scoreboard_day, in a sweep on a day that has its label by then.
ScoreScoreboardDay ==
    \E d \in {x \in DOMAIN boardKind : boardDay - BoardCatchUp <= x /\ x < boardDay} :
        /\ boardOn
        /\ Scored(d) # Null
        /\ Get(board, d, Null) # Scored(d)
        /\ board' = TrimWindow([x \in DOMAIN board \cup {d} |->
                                  IF x = d THEN Scored(d) ELSE board[x]], d)
        /\ everScored' = everScored \cup {d}
        /\ narrowest' = IF window < narrowest THEN window ELSE narrowest
        /\ UNCHANGED <<boardDay, boardKind, boardOn, window>>

\* Options flow and reload; the ring is trimmed with the next score.
BoardOptions ==
    /\ window' \in BoardWindows
    /\ boardOn' \in BOOLEAN
    /\ UNCHANGED <<boardDay, boardKind, board, everScored, narrowest>>

BoardNext == BoardMidnight \/ ScoreScoreboardDay \/ BoardOptions

BoardSpec == BoardInit /\ [][BoardNext]_boardVars

-----------------------------------------------------------------------------
(* What is shown.                                                           *)

\* Variant: the whole ring.
WindowDaysRing(days, w) == DOMAIN days

\* _window_days_list.
WindowDays(days, w) == Newest(DOMAIN days, w)

\* A mean as sum and count, Null without values.
Mean(values) ==
    IF DOMAIN values = {} THEN Null
    ELSE [sum |-> SumFunction(values), n |-> Cardinality(DOMAIN values)]

\* engine_daily_abs_err of a day.
DailyAbsErr(s) == IF s.engine > s.measured THEN s.engine - s.measured ELSE s.measured - s.engine

DailyMae(days) == Mean([d \in days |-> DailyAbsErr(board[d])])

\* Days without an hourly error do not count; a day's error is itself a mean.
HourlyMeans(days) ==
    LET known == {d \in days : board[d].hourly # Null}
    IN Mean([d \in known |-> (100 * board[d].hourly.sum) \div board[d].hourly.n])

\* stratified_breakdown, over the window that the summary is over.
Breakdown(days) ==
    LET Stratum(c) == {d \in days : board[d].class = c}
        there == {i \in DOMAIN Classes : Stratum(Classes[i]) # {}}
    IN [c \in {Classes[i] : i \in there} |->
           [n |-> Cardinality(Stratum(c)), daily |-> DailyMae(Stratum(c)),
            hourly |-> HourlyMeans(Stratum(c)),
            few |-> Cardinality(Stratum(c)) < StratumMin]]

\* scoreboard_summary.
BoardSummary ==
    LET days == WindowDays(board, window)
    IN [daily |-> DailyMae(days), hourly |-> HourlyMeans(days),
        scored |-> Cardinality(DOMAIN board), strata |-> Breakdown(days)]

-----------------------------------------------------------------------------
(* Properties.                                                              *)

BoardTypeOK ==
    /\ boardDay \in 0..BoardDays
    /\ window \in BoardWindows /\ narrowest \in BoardWindows
    /\ DOMAIN board \subseteq everScored
    /\ \A d \in DOMAIN board : board[d] = Scored(d)

\* The newest days ever scored, as many as the narrowest window of any score.
KeepsTheNewestDays == Newest(everScored, narrowest) \subseteq DOMAIN board

\* A day that is scored late never drives out a newer one (trim_window).  What is
\* shown is of the newest days of the window and of no other, also after the window
\* was narrowed and the ring was not trimmed yet: the strata divide the window's
\* days and their errors among them (_window_days_list: the newest window_days
\* scored days).
ShowsTheNewestDays ==
    LET shown == Newest(DOMAIN board, window)
        strata == BoardSummary.strata
    IN /\ KeepsTheNewestDays
       /\ BoardSummary.daily =
             IF shown = {} THEN Null
             ELSE [sum |-> SumFunction([d \in shown |-> DailyAbsErr(Scored(d))]),
                   n |-> Cardinality(shown)]
       /\ SumFunction([c \in DOMAIN strata |-> strata[c].n]) = Cardinality(shown)
       /\ shown # {} =>
             SumFunction([c \in DOMAIN strata |-> strata[c].daily.sum]) = BoardSummary.daily.sum
=============================================================================
