-------------------------- MODULE BacktestPosition --------------------------
(***************************************************************************)
(* A position of the backtest from its entry to its exit (backtest.py with *)
(* strategies/position_rules.py), and those who judge it from the outside: *)
(* the rule review of a confirmed position (position_management.py), which *)
(* holds one snapshot against every later candle, and the exit observation *)
(* of an exchange position (live_exit.py), which knows no more than its    *)
(* average price.                                                          *)
(*                                                                         *)
(* Prices are integers and quotients are rounded down.  Fees, equity, the  *)
(* close that ends the data, a calendar that is unavailable and the curves *)
(* of a transition other than the linear one are left out.                 *)
(***************************************************************************)
EXTENDS Integers, Sequences, SequencesExt

CONSTANTS
    Prices,          \* bound: prices of a candle
    EntryPrices,     \* bound: prices of an entry
    HigherLows,      \* bound: recent higher lows
    Regimes,         \* bound: hourly regimes, of red, yellow and green
    Rules,           \* bound: stop tightenings by regime, one function per configuration
    MarginSteps,     \* margin_steps, as integers
    AddThresholds,   \* add_thresholds, in percent of the entry anchor
    Leverage,
    ActualLeverages, \* bound: leverages an operator confirms
    ConfirmedStops,  \* bound: stops an operator enters, besides the carried one
    InitialStop,     \* initial_stop_pct, in percent
    StopBuffer,      \* stop_buffer_pct, in percent
    WideBuffer,      \* green_wide_stop_buffer_pct, in percent
    TransitionBars,  \* stop_transition_bars
    Scale            \* units bought with one unit of margin at the price 1

Tightenings == {"baseline", "half_protect", "wide", "delayed_baseline"}

ASSUME BacktestPositionAssumption ==
    /\ Prices \union HigherLows \subseteq Nat \ {0} /\ EntryPrices \subseteq Prices
    /\ Regimes \subseteq {"red", "yellow", "green"}
    /\ Rules \subseteq [Regimes -> Tightenings]
    /\ MarginSteps \in Seq(Nat \ {0}) /\ MarginSteps # <<>>
    /\ AddThresholds \in Seq(Nat) /\ Len(AddThresholds) = Len(MarginSteps) - 1
    /\ {Leverage, Scale} \union ActualLeverages \subseteq Nat \ {0}
    /\ ConfirmedStops \subseteq Nat
    /\ {InitialStop, StopBuffer, WideBuffer, TransitionBars} \subseteq Nat
    \* a unit of margin is fine enough to buy something at every price
    /\ \A x \in Prices : x <= MarginSteps[1] * Scale

VARIABLES
    rule,      \* _resolved_stop_tightening of the configuration
    position,  \* the open position of the backtest, or NoPosition
    review     \* the last confirmation and what its review says

backtest == <<rule, position, review>>

\* fills are the prices of the stages; start and counted are the fields of a
\* stop transition; age counts the candles since the last fill; plan says
\* whether an addition was planned at the last close.
NoPosition == [fills |-> <<>>, stop |-> 0, initial |-> 0, start |-> 0, counted |-> 0,
               age |-> 0, plan |-> FALSE]

\* carried: the stop that the position itself had at the confirmation.
NoReview == [snapshot |-> NoPosition, leverage |-> Leverage, carried |-> 0, exit |-> FALSE]

BacktestInit == rule \in Rules /\ position = NoPosition /\ review = NoReview

IsHeld == position # NoPosition

\* momentum: RSI and MACD allow an addition, which is asked in a session only;
\* higher: the recent higher low of the candles up to this one, if any, which
\* matters to the last stage only.
Bars(stage) ==
    {c \in [open : Prices, low : Prices, high : Prices, session : BOOLEAN,
            momentum : BOOLEAN, regime : Regimes,
            higher : {{}} \union IF stage < 3 THEN {} ELSE {{x} : x \in HigherLows}] :
        c.low <= c.open /\ c.open <= c.high /\ (c.momentum => c.session)}

-----------------------------------------------------------------------------
(* The rules of a position.                                                *)

Percent(price, n) == (price * (100 + n)) \div 100

StageOf(p) == Len(p.fills)
Anchor(p) == p.fills[1]

Total(seq) == FoldLeft(LAMBDA x, y : x + y, 0, seq)

\* entry_price: the average over the units the margin of each stage has bought
Average(p) ==
    LET units == [i \in 1..StageOf(p) |-> (MarginSteps[i] * Scale) \div p.fills[i]]
    IN  Total([i \in 1..StageOf(p) |-> p.fills[i] * units[i]]) \div Total(units)

LiquidationRisk(p, leverage) == (Average(p) * (leverage - 1)) \div leverage

\* The reason for which a candle ends a position, judged on the stop that was
\* carried into it; "" if it survives.
RiskExit(p, c, leverage) ==
    LET liquidation == LiquidationRisk(p, leverage)
    IN  CASE ~c.session /\ c.low <= liquidation -> "non_session_liquidation_risk"
          [] c.low <= p.stop /\ (c.session \/ c.low > liquidation) -> "stop"
          [] OTHER -> ""

Trigger(p) == Percent(Anchor(p), AddThresholds[StageOf(p)])
StageAllowed(p, c) == StageOf(p) >= 2 => c.regime = "green"

DecideAdd(p, c) ==
    /\ StageOf(p) < Len(MarginSteps)
    /\ c.session /\ c.high >= Trigger(p) /\ c.momentum
    /\ StageAllowed(p, c)

\* What was planned at the last close is bought in this candle or never.
FillsPlan(p, c) == p.plan /\ c.session /\ StageAllowed(p, c) /\ c.high >= Trigger(p)

Highest(S) == CHOOSE x \in S : \A y \in S : y <= x

\* As if the next stage's stop were claimed already.
ReachedByNextStage(p, stops) ==
    UNION {stops[s] : s \in {s \in DOMAIN stops : s <= StageOf(p) + 1}}

\* stops[s] are the stops a position may claim once it has reached stage s.
Reached(p, stops) == UNION {stops[s] : s \in {s \in DOMAIN stops : s <= StageOf(p)}}

Buffered(c, n) == {Percent(x, -n) : x \in c.higher}
HalfWay(p) == (p.initial + Anchor(p)) \div 2

BaselineStops(p, c) ==
    Reached(p, <<{}, {Anchor(p)}, {Average(p)}, Buffered(c, StopBuffer)>>)

HalfProtectStops(p, c) ==
    Reached(p, <<{}, {HalfWay(p)}, {Anchor(p)},
                 IF c.higher = {} THEN {} ELSE {Average(p)} \union Buffered(c, StopBuffer)>>)

WideStops(p, c) ==
    Reached(p, <<{}, {HalfWay(p)}, {Anchor(p)}, Buffered(c, WideBuffer)>>)

\* The stop moves from where it was at the last fill to the baseline's.
TransitionStop(p, c, start) ==
    LET target == Highest({p.initial} \union BaselineStops(p, c))
    IN  IF TransitionBars = 0 THEN target
        ELSE start + ((target - start) * p.age) \div TransitionBars

\* As if the stop followed the last higher low down as well.
RaisedToHigherLow(p, stops) ==
    [p EXCEPT !.stop = IF stops = {} THEN p.stop ELSE Highest(stops)]

Raised(p, stops) == [p EXCEPT !.stop = Highest({p.stop} \union stops)]

TightenTransition(p, c) ==
    LET moved == IF p.counted = StageOf(p) THEN p
                 ELSE [p EXCEPT !.counted = StageOf(p), !.start = p.stop]
    IN  Raised(moved, {TransitionStop(moved, c, moved.start)})

Tighten(p, c, mode) ==
    CASE mode = "baseline" -> Raised(p, BaselineStops(p, c))
      [] mode = "half_protect" -> Raised(p, HalfProtectStops(p, c))
      [] mode = "wide" -> Raised(p, WideStops(p, c))
      [] mode = "delayed_baseline" -> TightenTransition(p, c)

-----------------------------------------------------------------------------
(* Those who judge a position from the outside.                            *)

\* evaluate_exit: a candle is held against the stop that was carried into it,
\* not against the one it would suggest.
Judged(p, c, leverage) ==
    [exit |-> RiskExit(p, c, leverage), stop |-> Tighten(p, c, rule[c.regime]).stop]

\* What the exchange tells of a position is its average price.  It is taken
\* for one fill at the average, with the stop of a new entry.
Assumed(price) ==
    LET stop == Percent(price, -InitialStop)
    IN  [NoPosition EXCEPT !.fills = <<price>>, !.stop = stop, !.initial = stop]

Observed(p, c) == Judged(Assumed(Average(p)), c, Leverage)

\* The review goes through the candles since the confirmation and remembers
\* whether one of them called for the exit of the confirmed snapshot, under
\* the leverage that was confirmed with it.
Reviewed(c) ==
    IF review = NoReview THEN review
    ELSE [review EXCEPT !.exit = @ \/ Judged(review.snapshot, c, review.leverage).exit # ""]

-----------------------------------------------------------------------------
(* The backtest, one candle at a time.                                     *)

\* What a candle does to a position that survived it.
ExecuteAdd(p, c) ==
    IF FillsPlan(p, c)
    THEN [p EXCEPT !.fills = Append(@, Highest({c.open, Trigger(p)})), !.age = 0, !.plan = FALSE]
    ELSE [p EXCEPT !.plan = FALSE]

Managed(p, c) ==
    LET tightened == Tighten(ExecuteAdd(p, c), c, rule[c.regime])
    IN  [tightened EXCEPT !.plan = DecideAdd(tightened, c)]

\* An order is filled at its level or at a lower open, an entry on the next
\* candle at its open or at the high that it breaks.
MayEnterAt(c, price) == c.session /\ c.low <= price /\ price <= c.high

\* The candle of the fill is judged by the initial stop at once.  managed: the
\* entries on the next candle go on with the fill's candle.
EnterPosition(c, price, managed) ==
    /\ ~IsHeld
    /\ MayEnterAt(c, price)
    /\ LET stop == Percent(price, -InitialStop)
           entered == [NoPosition EXCEPT !.fills = <<price>>, !.stop = stop, !.initial = stop]
       IN  /\ RiskExit(entered, c, Leverage) = ""
           /\ position' = IF managed THEN Managed(entered, c) ELSE entered
    /\ UNCHANGED <<rule, review>>

\* The units bought before this candle have aged by one.
Aged(p) == [p EXCEPT !.age = IF @ < TransitionBars THEN @ + 1 ELSE @]

HoldPosition(c) ==
    /\ IsHeld /\ RiskExit(position, c, Leverage) = ""
    /\ position' = Managed(Aged(position), c)
    /\ review' = Reviewed(c)
    /\ UNCHANGED rule

ExitPosition(c) ==
    /\ IsHeld /\ RiskExit(position, c, Leverage) # ""
    /\ position' = NoPosition /\ review' = NoReview
    /\ UNCHANGED rule

\* The operator confirms the state of a position he manages by the baseline,
\* the only tightening a review supports, with the leverage and the stop that
\* he reads off his exchange.
ConfirmState(leverage, stop) ==
    /\ IsHeld /\ \A regime \in Regimes : rule[regime] = "baseline"
    /\ review' = [snapshot |-> [position EXCEPT !.plan = FALSE, !.stop = stop],
                  leverage |-> leverage, carried |-> position.stop, exit |-> FALSE]
    /\ UNCHANGED <<rule, position>>

BacktestNext ==
    \/ \E c \in Bars(0), price \in EntryPrices, managed \in BOOLEAN :
          EnterPosition(c, price, managed)
    \/ \E c \in Bars(StageOf(position)) : HoldPosition(c) \/ ExitPosition(c)
    \/ \E leverage \in ActualLeverages, stop \in {position.stop} \union ConfirmedStops :
          ConfirmState(leverage, stop)

BacktestSpec == BacktestInit /\ [][BacktestNext]_backtest

-----------------------------------------------------------------------------
(* Properties.                                                             *)

\* A review knows neither the additions nor the stops that came after the
\* confirmation, and holds every later candle against the confirmed snapshot.
\* Confirmed with no more leverage than the configuration has and with no
\* higher stop than the strategy carried, it still never calls for the exit in
\* a candle the managed position has survived: what comes after a confirmation
\* only tightens (position_management.py, against position_rules.py and
\* _risk_exit).
ReviewNeverEarlier ==
    IsHeld /\ review.leverage <= Leverage /\ review.snapshot.stop <= review.carried
        => ~review.exit

\* Before the first addition, the observation that is made of an exchange row
\* alone judges every candle as the strategy's own position does, and expects
\* the same stop after it, under every rule (observe_okx_position).
ShadowIsExactBeforeAdds ==
    StageOf(position) = 1 =>
        \A c \in Bars(1) : Observed(position, c) = Judged(position, c, Leverage)
=============================================================================
