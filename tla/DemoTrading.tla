---------------------------- MODULE DemoTrading -----------------------------
(***************************************************************************)
(* The confirmed demo loop (demo_trading.run_once under okx_demo_loop) and *)
(* the account it trades on.  A cycle reads the positions, then the        *)
(* pending orders, scans one symbol after the other, cancels the limit     *)
(* orders of the bot that the scan no longer supports, and places new ones *)
(* while there is capacity; what it decides it decides from what it read.  *)
(* Meanwhile orders fill, whole or in part, and positions are closed by    *)
(* others.  Any call may be refused, and any may raise: the loop reports   *)
(* the failed cycle and starts the next.                                   *)
(*                                                                         *)
(* A request whose answer was lost was either carried out at once or will  *)
(* never be; a cancel that was confirmed is done.  Orders that are not the *)
(* bot's, sizes and prices are left out, and so are the dry run, which     *)
(* neither reads the account nor writes to it, and the reports of a cycle. *)
(***************************************************************************)
EXTENDS Naturals, FiniteSets

CONSTANTS Symbols, Signals,
          MaxOpenPositions, \* max_open_positions of the configuration
          MaxRegained       \* bound: places given back over the limit

ASSUME DemoAssumption == MaxOpenPositions \in Nat /\ MaxRegained \in Nat

VARIABLES
    positions,  \* symbols with a position (account)
    pending,    \* pending limit orders of the bot (account)
    step,       \* where the loop is
    seen,       \* the positions as they were read
    rows,       \* the pending orders as they were read, less the expired
    universe,   \* symbols that may be entered
    toScan,     \* symbols still to be scanned
    expiring,   \* read orders of the last scanned symbol to be cancelled
    entering,   \* scan results that ask for an entry, still to be placed
    capacity,   \* remaining_capacity
    unseen,     \* symbols with a position that a cycle has taken for none
    regained    \* places given back over the limit since a cycle counted within it

account == <<positions, pending>>
cycle == <<seen, rows, universe, toScan, expiring, entering, capacity>>
ghosts == <<unseen, regained>>
demo == <<account, step, cycle, ghosts>>

\* The client order ID is a digest of symbol, signal time and trigger price.
Orders == [symbol : Symbols, signal : Signals, filled : BOOLEAN]

SymbolsOf(S) == {o.symbol : o \in S}

\* The row and the live order of one client order ID.
SameId(o, row) == o.symbol = row.symbol /\ o.signal = row.signal
Live(row) == {o \in pending : SameId(o, row)}

DemoInit ==
    /\ positions = {} /\ pending = {} /\ step = "idle" /\ unseen = {} /\ regained = 0
    /\ seen = {} /\ rows = {} /\ universe = {} /\ toScan = {}
    /\ expiring = {} /\ entering = {} /\ capacity = 0

-----------------------------------------------------------------------------
(* The account.                                                            *)

\* A fill between the two reads turns an order that is not read yet into a
\* position that is not read any more.
Fill(o) ==
    /\ pending' = pending \ {o}
    /\ positions' = positions \union {o.symbol}
    /\ unseen' = IF step = "orders" /\ o.symbol \notin seen \union unseen
                 THEN unseen \union {o.symbol} ELSE unseen
    /\ UNCHANGED <<step, cycle, regained>>

PartialFill(o) ==
    /\ ~o.filled
    /\ pending' = (pending \ {o}) \union {[o EXCEPT !.filled = TRUE]}
    /\ positions' = positions \union {o.symbol}
    /\ UNCHANGED <<step, cycle, ghosts>>

Close(s) ==
    /\ s \in positions
    /\ positions' = positions \ {s}
    /\ unseen' = unseen \ {s}
    /\ UNCHANGED <<pending, step, cycle, regained>>

-----------------------------------------------------------------------------
(* A cycle.                                                                *)

\* What a cycle read is forgotten with it.
EndCycle ==
    /\ step' = "idle"
    /\ seen' = {} /\ rows' = {} /\ universe' = {} /\ toScan' = {}
    /\ expiring' = {} /\ entering' = {} /\ capacity' = 0

\* An exception ends the cycle and not the loop.
Abort ==
    /\ step # "idle"
    /\ EndCycle
    /\ UNCHANGED <<account, ghosts>>

ReadPositions ==
    /\ step = "idle"
    /\ step' = "orders"
    /\ seen' = positions
    /\ UNCHANGED <<account, rows, universe, toScan, expiring, entering, capacity, ghosts>>

Exposure(read) == Cardinality(seen) + Cardinality(read)

Remaining(read) ==
    IF Exposure(read) < MaxOpenPositions THEN MaxOpenPositions - Exposure(read) ELSE 0

\* The universe is whatever the published manifest lists, or nothing when it
\* cannot be loaded.
Universes == SUBSET Symbols

\* Symbols with a pending order of the bot are scanned as well.
TickersToScan(tickers, orders) == tickers \union SymbolsOf(orders)

ReadOrders ==
    /\ step = "orders"
    /\ step' = "scan"
    /\ rows' = pending
    /\ capacity' = Remaining(pending)
    /\ universe' \in Universes
    /\ toScan' = TickersToScan(universe', pending)
    /\ regained' = IF Exposure(pending) <= MaxOpenPositions THEN 0 ELSE regained
    /\ UNCHANGED <<account, seen, expiring, entering, unseen>>

\* One of the two reads was refused: open_exposure is 0 and no symbol may be
\* entered; orders that were read are still scanned and may expire.
ReadRefused ==
    /\ step = "orders"
    /\ step' = "scan"
    /\ rows' \in {{}, pending}
    /\ toScan' = TickersToScan({}, rows')
    /\ universe' = {}
    /\ capacity' = MaxOpenPositions
    /\ UNCHANGED <<account, seen, expiring, entering, ghosts>>

\* The scan of a symbol says skip, or enters on a signal; without usable
\* market data it says skip.
ScanSymbol(s) ==
    /\ step = "scan" /\ expiring = {} /\ s \in toScan
    /\ toScan' = toScan \ {s}
    /\ \E result \in {{}} \union {{[symbol |-> s, signal |-> g]} : g \in Signals} :
          /\ expiring' = {row \in rows : row.symbol = s /\ \A e \in result : ~SameId(row, e)}
          /\ entering' = entering \union {e \in result : s \in universe}
    /\ UNCHANGED <<account, step, seen, rows, universe, capacity, ghosts>>

\* A confirmed cancel gives its place back, also when the account was over
\* the limit and capacity was cut off at zero; in a cycle that may enter
\* nothing no place is ever taken, so none is counted as given back.  The
\* order may have filled in part after the positions were read.
Expire(row) ==
    /\ expiring' = expiring \ {row}
    /\ Live(row) # {}
    /\ pending' = pending \ Live(row)
    /\ rows' = rows \ {row}
    /\ capacity' = capacity + 1
    /\ unseen' = unseen \union {o.symbol : o \in {l \in Live(row) : l.filled /\ l.symbol \in positions \ seen}}
    /\ regained' = IF universe # {} /\ Exposure(rows) > MaxOpenPositions
                   THEN regained + 1 ELSE regained
    /\ regained' <= MaxRegained
    /\ UNCHANGED <<positions, step, seen, universe, toScan, entering>>

\* The cancel is refused, as it is for an order that is not live any more.
ExpireRefused(row) ==
    /\ expiring' = expiring \ {row}
    /\ UNCHANGED <<account, step, seen, rows, universe, toScan, entering, capacity, ghosts>>

ExpireLost(row) ==
    /\ pending' = pending \ Live(row)
    /\ EndCycle
    /\ UNCHANGED <<positions, ghosts>>

StartPlacing ==
    /\ step = "scan" /\ expiring = {} /\ toScan = {}
    /\ step' = "place"
    /\ UNCHANGED <<account, cycle, ghosts>>

\* Variant: only the client order ID is looked up, not the symbol.
MayPlaceAgain(e) ==
    /\ capacity > 0
    /\ \A row \in rows : ~SameId(row, e)
    /\ e.symbol \notin seen

MayPlace(e) ==
    /\ capacity > 0
    /\ e.symbol \notin SymbolsOf(rows)
    /\ e.symbol \notin seen

\* The account refuses a client order ID that is pending.
Placed(e) ==
    /\ Live(e) = {}
    /\ pending' = pending \union {[symbol |-> e.symbol, signal |-> e.signal, filled |-> FALSE]}

\* Variant: the capacity is that of the start of the cycle.
PlaceWithinFirstCapacity(e) ==
    /\ MayPlace(e)
    /\ Placed(e)
    /\ entering' = entering \ {e}
    /\ UNCHANGED <<positions, step, seen, rows, universe, toScan, expiring, capacity, ghosts>>

Place(e) ==
    /\ MayPlace(e)
    /\ Placed(e)
    /\ entering' = entering \ {e}
    /\ capacity' = capacity - 1
    /\ UNCHANGED <<positions, step, seen, rows, universe, toScan, expiring, ghosts>>

PlaceLost(e) ==
    /\ MayPlace(e)
    /\ Placed(e)
    /\ EndCycle
    /\ UNCHANGED <<positions, ghosts>>

\* Blocked by a guard, by its size, by the leverage or by the account.
PlaceBlocked(e) ==
    /\ entering' = entering \ {e}
    /\ UNCHANGED <<account, step, seen, rows, universe, toScan, expiring, capacity, ghosts>>

FinishRound ==
    /\ step = "place" /\ entering = {}
    /\ EndCycle
    /\ UNCHANGED <<account, ghosts>>

DemoNext ==
    \/ \E o \in pending : Fill(o) \/ PartialFill(o)
    \/ \E s \in Symbols : Close(s) \/ ScanSymbol(s)
    \/ ReadPositions \/ ReadOrders \/ ReadRefused \/ StartPlacing \/ FinishRound \/ Abort
    \/ step = "scan" /\ \E row \in expiring : Expire(row) \/ ExpireRefused(row) \/ ExpireLost(row)
    \/ step = "place" /\ \E e \in entering : Place(e) \/ PlaceLost(e) \/ PlaceBlocked(e)

DemoSpec == DemoInit /\ [][DemoNext]_demo

-----------------------------------------------------------------------------
(* Properties.                                                             *)

Engaged == positions \union SymbolsOf(pending)

\* docs/demo-guide.md:64 allows max_open_positions orders and positions.
\* The account never has more symbols with a position or a pending order,
\* apart from those a cycle could not see: an order that filled between the
\* read of the positions and that of the orders, or in part before it was
\* cancelled.
SeenExposureWithinLimit == Cardinality(Engaged \ unseen) <= MaxOpenPositions

\* The same, but for the places that cancels gave back while the account was
\* over the limit (remaining_capacity is cut off at zero, then incremented).
CountedExposureWithinLimit == Cardinality(Engaged \ unseen) <= MaxOpenPositions + regained

\* However signals change, answers get lost and cancels are refused, a symbol
\* never has two pending orders of the bot (the symbol guards of run_once).
OneOrderPerSymbol == \A o, p \in pending : o.symbol = p.symbol => o = p
=============================================================================
