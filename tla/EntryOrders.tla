----------------------------- MODULE EntryOrders -----------------------------
(***************************************************************************)
(* The limit order of a second-pullback entry, as the backtest carries it  *)
(* (backtest.run_backtest while it is flat) and as the scan derives it     *)
(* anew from the candles (entry/scanner.scan_entry).  The backtest keeps   *)
(* one pending entry and looks for a signal only when it has none; the     *)
(* scan has no memory and takes the earliest signal of its window that no  *)
(* later candle has filled.                                                *)
(*                                                                         *)
(* Both see the same closed candles.  A candle is abstracted to whether it *)
(* lies in a trading window, the Fibonacci level it confirms a signal at   *)
(* (nearest_fib_retest_level and should_enter_long, 0 for none) and its    *)
(* low; how long a position is held is left open.  The entry on the next   *)
(* candle (break_high, direct_next_open) is left out.                      *)
(***************************************************************************)
EXTENDS Integers, Sequences, FiniteSetsExt

CONSTANTS
    Levels, Lows,   \* bound: Fibonacci levels and lows, in ticks
    Tolerance,      \* fib_tolerance_pct, in ticks
    WaitBars,       \* second_pullback_wait_bars
    LookbackBars,   \* lookback_bars of the scan
    MaxBars         \* bound: candles of a series

ASSUME EntryOrdersAssumption ==
    /\ Levels \subseteq Nat \ {0} /\ Lows \subseteq Nat
    /\ Tolerance \in Nat /\ WaitBars \in Nat \ {0} /\ LookbackBars \in Nat \ {0}

VARIABLES
    bars,          \* the closed candles
    pendingEntry,  \* candle of the signal whose order is pending, or 0
    holding,       \* the backtest has a position
    passed         \* candles with a signal that the backtest did not look at

entry == <<bars, pendingEntry, holding, passed>>

EntryInit == bars = <<>> /\ pendingEntry = 0 /\ holding = FALSE /\ passed = {}

\* A level that the candle has come down to, within the tolerance.
Retests(b) == b.low <= b.signal + Tolerance

\* No indicator is looked at outside the trading windows.
Candles ==
    {b \in [session : BOOLEAN, signal : Levels \union {0}, low : Lows] :
        b.signal # 0 => b.session /\ Retests(b)}

-----------------------------------------------------------------------------
(* The backtest, one iteration of its loop for each candle.                *)

\* The order may fill up to and including its expires_index.
Resting(index) == pendingEntry # 0 /\ index <= pendingEntry + WaitBars

Fills(b, level) == b.session /\ b.low <= level

PassOver(b) == passed' = passed \union {i \in {Len(bars) + 1} : b.signal # 0}

\* A position that was just opened may be stopped out in the same candle.
FillEntry(b) ==
    /\ ~holding /\ Resting(Len(bars) + 1)
    /\ Fills(b, bars[pendingEntry].signal)
    /\ pendingEntry' = 0
    /\ holding' \in BOOLEAN
    /\ PassOver(b)

KeepWaiting(b) ==
    /\ ~holding /\ Resting(Len(bars) + 1)
    /\ ~Fills(b, bars[pendingEntry].signal)
    /\ PassOver(b)
    /\ UNCHANGED <<pendingEntry, holding>>

\* An expired order is dropped and the candle looked at for a new signal.
LookForSignal(b) ==
    /\ ~holding /\ ~Resting(Len(bars) + 1)
    /\ pendingEntry' = IF b.signal # 0 THEN Len(bars) + 1 ELSE 0
    /\ UNCHANGED <<holding, passed>>

\* The candle that closes a position is not looked at either.
Manage(b) ==
    /\ holding
    /\ holding' \in BOOLEAN
    /\ PassOver(b)
    /\ UNCHANGED pendingEntry

NextCandle(b) ==
    /\ Len(bars) < MaxBars
    /\ bars' = Append(bars, b)
    /\ FillEntry(b) \/ KeepWaiting(b) \/ LookForSignal(b) \/ Manage(b)

EntryNext == \E b \in Candles : NextCandle(b)

EntrySpec == EntryInit /\ [][EntryNext]_entry

-----------------------------------------------------------------------------
(* The scan of the candles that are closed now.                            *)

\* Variant: the scan looks back as far as it was asked to.
LookbackAsRequested == LookbackBars

EffectiveLookback == Min({LookbackBars, WaitBars})

Window == {i \in 1..Len(bars) : i > Len(bars) - EffectiveLookback}

AlreadyFilled(i) ==
    \E j \in i + 1..Min({Len(bars), i + WaitBars}) : Fills(bars[j], bars[i].signal)

OpenSignals == {i \in Window : bars[i].signal # 0 /\ ~AlreadyFilled(i)}

\* The candle of the signal that is entered on, however far the price has moved
\* away from its level; 0 when the scan says wait, or skip.
Entered(signals) == IF signals = {} THEN 0 ELSE Min(signals)

Scan ==
    IF bars # <<>> /\ bars[Len(bars)].session THEN Entered(OpenSignals) ELSE 0

-----------------------------------------------------------------------------
(* Properties.                                                             *)

\* The signal whose order may fill in the next candle, 0 for none.
LiveSignal == IF Resting(Len(bars) + 1) THEN pendingEntry ELSE 0

\* The scan, which the demo loop and the observations act on, asks for the
\* order that the backtest has live for the next candle and for no other, and
\* does not miss it while its windows are open, whatever expired or filled
\* before; apart from signals that the backtest passed over because it was
\* busy with an earlier order or a position.
ScanAgreesWithBacktest ==
    /\ Scan \in {0, LiveSignal} \union passed
    /\ LiveSignal # 0 /\ bars[Len(bars)].session => Scan \in {LiveSignal} \union passed
=============================================================================
