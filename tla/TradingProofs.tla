---------------------------- MODULE TradingProofs ---------------------------
(***************************************************************************)
(* Theorems of the trading components, for any symbols, signals, limits,   *)
(* series of candles, forms, reviews and releases: the symbol guards and   *)
(* the limit of run_once are enough, the scan agrees with the backtest,    *)
(* which judges a position without additions as the exit observation does, *)
(* every form saved in the manual ledger counts once, and a resolver hands *)
(* out only what an independent reviewer approved.                         *)
(***************************************************************************)
EXTENDS DemoTrading, EntryOrders, BacktestPosition, ManualLedger,
        StrategyReleases, FiniteSetTheorems, WellFoundedInduction, TLAPS

-----------------------------------------------------------------------------
(***************************************************************************)
(* The symbol guards of run_once are enough: no symbol ever has two        *)
(* pending orders of the bot, for any symbols, signals and limits.         *)
(***************************************************************************)

Results == [symbol : Symbols, signal : Signals]

\* Orders are read, scanned and placed in phases; nothing waits to be placed
\* outside of the last two.
DemoTypes ==
    /\ pending \subseteq Orders
    /\ rows \subseteq Orders
    /\ expiring \subseteq Orders
    /\ entering \subseteq Results
    /\ entering # {} => step \in {"scan", "place"}

\* A cycle asks for at most one entry of a symbol, of the universe, and only
\* once it has scanned the symbol.
EntriesAreScanned ==
    /\ \A d, e \in entering : d.symbol = e.symbol => d = e
    /\ \A e \in entering : e.symbol \in universe \ toScan

\* A scan that may enter anything has read every pending order that is still
\* there; while it places, this holds of the symbols still to be entered.
OrdersWereSeen ==
    /\ step = "scan" /\ universe # {} => SymbolsOf(pending) \subseteq SymbolsOf(rows)
    /\ \A e \in entering : e.symbol \in SymbolsOf(pending) => e.symbol \in SymbolsOf(rows)

OrderInv == DemoTypes /\ EntriesAreScanned /\ OrdersWereSeen /\ OneOrderPerSymbol

-----------------------------------------------------------------------------

\* DemoInit establishes the invariant: the loop starts with nothing pending.
LEMMA InitOrders == DemoInit => OrderInv
  BY DEF DemoInit, OrderInv, DemoTypes, EntriesAreScanned, OrdersWereSeen, OneOrderPerSymbol, SymbolsOf

\* A cycle that ends, however it ends, forgets what it wanted to place.
LEMMA EndKeepsOrders ==
    ASSUME OneOrderPerSymbol', pending' \subseteq Orders, EndCycle
    PROVE  OrderInv'
  BY DEF EndCycle, OrderInv, DemoTypes, EntriesAreScanned, OrdersWereSeen

\* A fill takes an order away, and a partial fill marks it, without a new symbol.
LEMMA FillKeepsOrders ==
    ASSUME OrderInv, NEW o \in pending, Fill(o) \/ PartialFill(o)
    PROVE  OrderInv'
<1> USE DEF OrderInv
<1>1. /\ step' = step /\ rows' = rows /\ universe' = universe /\ toScan' = toScan
      /\ expiring' = expiring /\ entering' = entering
  BY DEF Fill, PartialFill, cycle, ghosts
<1> DEFINE marked == [o EXCEPT !.filled = TRUE]
<1>2. marked \in Orders /\ marked.symbol = o.symbol
  BY DEF DemoTypes, Orders
<1>3. pending' \subseteq (pending \ {o}) \union {marked}
  BY DEF Fill, PartialFill
<1> HIDE DEF marked
<1>4. \A p \in pending' : p \in Orders /\ \E q \in pending : q.symbol = p.symbol
  BY <1>2, <1>3 DEF DemoTypes
<1>5. SymbolsOf(pending') \subseteq SymbolsOf(pending)
  BY <1>4 DEF SymbolsOf
<1>6. OneOrderPerSymbol'
  BY <1>2, <1>3 DEF OneOrderPerSymbol
<1> QED
  BY <1>1, <1>4, <1>5, <1>6 DEF DemoTypes, EntriesAreScanned, OrdersWereSeen, SymbolsOf

\* Reading the orders makes the rows the pending orders, or allows no entry.
LEMMA ReadKeepsOrders ==
    ASSUME OrderInv, ReadOrders \/ ReadRefused
    PROVE  OrderInv'
<1> USE DEF OrderInv
<1>1. entering = {} /\ pending' = pending /\ entering' = {} /\ expiring' = expiring
  BY DEF ReadOrders, ReadRefused, account, DemoTypes
<1>2. rows' \subseteq Orders /\ (universe' # {} => rows' = pending)
  BY DEF ReadOrders, ReadRefused, DemoTypes
<1> QED
  BY <1>1, <1>2 DEF DemoTypes, EntriesAreScanned, OrdersWereSeen, OneOrderPerSymbol, SymbolsOf

\* The scan of a symbol asks for one entry of it at most.
LEMMA ScanKeepsOrders ==
    ASSUME OrderInv, NEW s \in Symbols, ScanSymbol(s)
    PROVE  OrderInv'
<1> USE DEF OrderInv
<1>1. /\ step = "scan" /\ step' = step /\ pending' = pending /\ rows' = rows
      /\ universe' = universe /\ s \in toScan /\ toScan' = toScan \ {s}
  BY DEF ScanSymbol, account
<1>2. PICK result \in {{}} \union {{[symbol |-> s, signal |-> g]} : g \in Signals} :
         /\ expiring' = {row \in rows : row.symbol = s /\ \A e \in result : ~SameId(row, e)}
         /\ entering' = entering \union {e \in result : s \in universe}
  BY DEF ScanSymbol
<1>3. \A e \in result : e \in Results /\ e.symbol = s
  BY <1>2 DEF Results
<1>4. \A d, e \in result : d = e
  BY <1>2
<1>5. DemoTypes'
  BY <1>1, <1>2, <1>3 DEF DemoTypes
<1>6. EntriesAreScanned'
  BY <1>1, <1>2, <1>3, <1>4 DEF EntriesAreScanned
<1>7. OrdersWereSeen'
  BY <1>1, <1>2, <1>3 DEF OrdersWereSeen, EntriesAreScanned, SymbolsOf
<1> QED
  BY <1>1, <1>5, <1>6, <1>7 DEF OneOrderPerSymbol

\* A row leaves the read orders only with the live order it stands for.
LEMMA ExpireKeepsOrders ==
    ASSUME OrderInv, NEW row \in expiring, step = "scan", Expire(row)
    PROVE  OrderInv'
<1> USE DEF OrderInv
<1>1. /\ step' = step /\ universe' = universe /\ toScan' = toScan /\ entering' = entering
      /\ expiring' = expiring \ {row} /\ rows' = rows \ {row}
      /\ pending' = pending \ Live(row) /\ Live(row) # {}
  BY DEF Expire
<1>2. \A o \in pending' : o \in pending /\ o.symbol # row.symbol
  BY <1>1 DEF Live, SameId, OneOrderPerSymbol
<1>3. universe # {} => SymbolsOf(pending') \subseteq SymbolsOf(rows')
  BY <1>1, <1>2 DEF OrdersWereSeen, SymbolsOf
<1>4. OneOrderPerSymbol'
  BY <1>2 DEF OneOrderPerSymbol
<1>5. \A e \in entering : universe # {}
  BY DEF EntriesAreScanned
<1> QED
  BY <1>1, <1>2, <1>3, <1>4, <1>5 DEF DemoTypes, EntriesAreScanned, OrdersWereSeen, SymbolsOf

\* An order is placed for a symbol without one, as the rows still tell.
LEMMA PlaceKeepsOnePerSymbol ==
    ASSUME OrderInv, NEW e \in entering, MayPlace(e), Placed(e)
    PROVE  /\ OneOrderPerSymbol'
           /\ pending' \subseteq Orders
           /\ SymbolsOf(pending') = SymbolsOf(pending) \union {e.symbol}
<1> DEFINE new == [symbol |-> e.symbol, signal |-> e.signal, filled |-> FALSE]
<1>1. e.symbol \notin SymbolsOf(pending)
  BY DEF MayPlace, OrderInv, OrdersWereSeen
<1>2. pending' = pending \union {new}
  BY DEF Placed
<1>3. new \in Orders /\ new.symbol = e.symbol
  BY DEF OrderInv, DemoTypes, Results, Orders
<1> HIDE DEF new
<1>4. \A o \in pending : o.symbol # new.symbol
  BY <1>1, <1>3 DEF SymbolsOf
<1>5. OneOrderPerSymbol'
  BY <1>2, <1>4 DEF OrderInv, OneOrderPerSymbol
<1>6. SymbolsOf(pending') = SymbolsOf(pending) \union {e.symbol}
  BY <1>2, <1>3 DEF SymbolsOf
<1> QED
  BY <1>2, <1>3, <1>5, <1>6 DEF OrderInv, DemoTypes

\* The other entries are of other symbols.
LEMMA PlaceKeepsOrders ==
    ASSUME OrderInv, NEW e \in entering, step = "place", Place(e)
    PROVE  OrderInv'
<1>1. /\ step' = step /\ rows' = rows /\ universe' = universe /\ toScan' = toScan
      /\ expiring' = expiring /\ entering' = entering \ {e}
  BY DEF Place
<1>2. /\ OneOrderPerSymbol' /\ pending' \subseteq Orders
      /\ SymbolsOf(pending') = SymbolsOf(pending) \union {e.symbol}
  BY PlaceKeepsOnePerSymbol DEF Place
<1>3. \A d \in entering \ {e} : d.symbol # e.symbol
  BY DEF OrderInv, EntriesAreScanned
<1>4. OrdersWereSeen'
  BY <1>1, <1>2, <1>3 DEF OrderInv, OrdersWereSeen
<1> QED
  BY <1>1, <1>2, <1>4 DEF OrderInv, DemoTypes, EntriesAreScanned

-----------------------------------------------------------------------------

\* The invariant is inductive: one case for each action of the loop and the account.
LEMMA NextOrders == OrderInv /\ [DemoNext]_demo => OrderInv'
<1> SUFFICES ASSUME OrderInv, [DemoNext]_demo PROVE OrderInv'
  OBVIOUS
<1> USE DEF OrderInv
<1>1. ASSUME NEW o \in pending, Fill(o) \/ PartialFill(o) PROVE OrderInv'
  BY <1>1, FillKeepsOrders
<1>2. ASSUME NEW s \in Symbols, Close(s) PROVE OrderInv'
  BY <1>2 DEF Close, cycle, DemoTypes, EntriesAreScanned, OrdersWereSeen, OneOrderPerSymbol
<1>3. ASSUME NEW s \in Symbols, ScanSymbol(s) PROVE OrderInv'
  BY <1>3, ScanKeepsOrders
<1>4. ASSUME ReadPositions PROVE OrderInv'
  BY <1>4 DEF ReadPositions, account, DemoTypes, EntriesAreScanned, OrdersWereSeen, OneOrderPerSymbol
<1>5. ASSUME ReadOrders \/ ReadRefused PROVE OrderInv'
  BY <1>5, ReadKeepsOrders
<1>6. ASSUME StartPlacing PROVE OrderInv'
  BY <1>6 DEF StartPlacing, account, cycle, DemoTypes, EntriesAreScanned, OrdersWereSeen, OneOrderPerSymbol
<1>7. ASSUME FinishRound \/ Abort PROVE OrderInv'
  <2>1. EndCycle /\ pending' = pending
    BY <1>7 DEF FinishRound, Abort, account
  <2> QED
    BY <2>1, EndKeepsOrders DEF DemoTypes, OneOrderPerSymbol
<1>8. ASSUME step = "scan", NEW row \in expiring, Expire(row) PROVE OrderInv'
  BY <1>8, ExpireKeepsOrders
<1>9. ASSUME NEW row \in expiring, ExpireRefused(row) PROVE OrderInv'
  BY <1>9 DEF ExpireRefused, account, DemoTypes, EntriesAreScanned, OrdersWereSeen, OneOrderPerSymbol
<1>10. ASSUME NEW row \in expiring, ExpireLost(row) PROVE OrderInv'
  <2>1. EndCycle /\ pending' \subseteq pending
    BY <1>10 DEF ExpireLost
  <2> QED
    BY <2>1, EndKeepsOrders DEF DemoTypes, OneOrderPerSymbol
<1>11. ASSUME step = "place", NEW e \in entering, Place(e) PROVE OrderInv'
  BY <1>11, PlaceKeepsOrders
<1>12. ASSUME NEW e \in entering, PlaceLost(e) PROVE OrderInv'
  BY <1>12, PlaceKeepsOnePerSymbol, EndKeepsOrders DEF PlaceLost
<1>13. ASSUME NEW e \in entering, PlaceBlocked(e) PROVE OrderInv'
  BY <1>13 DEF PlaceBlocked, account, DemoTypes, EntriesAreScanned, OrdersWereSeen, OneOrderPerSymbol
<1>14. CASE UNCHANGED demo
  BY <1>14 DEF demo, account, cycle, DemoTypes, EntriesAreScanned, OrdersWereSeen, OneOrderPerSymbol
<1> QED
  BY <1>1, <1>2, <1>3, <1>4, <1>5, <1>6, <1>7, <1>8, <1>9, <1>10, <1>11, <1>12, <1>13, <1>14
  DEF DemoNext

\* However signals change, answers get lost and cancels are refused, a symbol
\* never has two pending orders of the bot.
THEOREM DemoOneOrderPerSymbol == DemoSpec => []OneOrderPerSymbol
<1>1. OrderInv => OneOrderPerSymbol
  BY DEF OrderInv
<1> QED
  BY InitOrders, NextOrders, <1>1, PTL DEF DemoSpec

-----------------------------------------------------------------------------
(* How many symbols the account is engaged in.                             *)

\* What counts against the limit: symbols with a pending order, and those
\* with a position that no cycle has overlooked.
Counted == SymbolsOf(pending) \union (positions \ unseen)

CountTypes ==
    /\ IsFiniteSet(positions) /\ IsFiniteSet(pending)
    /\ IsFiniteSet(seen) /\ IsFiniteSet(rows)
    /\ expiring \subseteq rows /\ (step # "scan" => expiring = {})
    /\ capacity \in Nat /\ regained \in Nat
    /\ step \in {"idle", "orders", "scan", "place"}

\* A position that opened after the positions were read was an order when the
\* orders were, and a pending order next to such a position has filled in part.
PositionsWereOrders ==
    /\ step = "orders" => positions \ unseen \subseteq seen \union SymbolsOf(pending)
    /\ step \in {"orders", "scan"} =>
          \A o \in pending : o.symbol \in positions \ (seen \union unseen) => o.filled

\* While a cycle that may enter cancels orders, it has read all that counts,
\* and its capacity is what is left, or what it was given back.
CapacityIsLeft ==
    step = "scan" /\ universe # {} =>
        /\ Counted \subseteq seen \union SymbolsOf(rows)
        /\ IF Exposure(rows) > MaxOpenPositions THEN capacity <= regained
           ELSE capacity + Exposure(rows) <= MaxOpenPositions + regained

\* What counts stays within the limit, together with what may still be placed.
CountWithin ==
    /\ Cardinality(Counted) <= MaxOpenPositions + regained
    /\ step \in {"scan", "place"} /\ universe # {} =>
          Cardinality(Counted) + capacity <= MaxOpenPositions + regained

CountInv == CountTypes /\ PositionsWereOrders /\ CapacityIsLeft /\ CountWithin

-----------------------------------------------------------------------------

LEMMA SymbolsCount ==
    ASSUME NEW S, IsFiniteSet(S)
    PROVE  /\ IsFiniteSet(SymbolsOf(S)) /\ Cardinality(SymbolsOf(S)) \in Nat
           /\ Cardinality(S) \in Nat /\ Cardinality(SymbolsOf(S)) <= Cardinality(S)
<1> DEFINE T == SymbolsOf(S)
           f == [o \in S |-> o.symbol]
<1>1. f \in Surjection(S, T)
  BY DEF Surjection, SymbolsOf
<1> HIDE DEF f, T
<1>2. IsFiniteSet(T) /\ Cardinality(T) <= Cardinality(S)
  BY <1>1, FS_Surjection
<1> QED
  BY <1>2, FS_CardinalityType DEF T

LEMMA SubsetCount ==
    ASSUME NEW S, IsFiniteSet(S), NEW T, T \subseteq S
    PROVE  /\ IsFiniteSet(T) /\ Cardinality(T) \in Nat /\ Cardinality(S) \in Nat
           /\ Cardinality(T) <= Cardinality(S)
  BY FS_Subset, FS_CardinalityType

LEMMA UnionCount ==
    ASSUME NEW S, IsFiniteSet(S), NEW T, IsFiniteSet(T)
    PROVE  /\ IsFiniteSet(S \union T) /\ Cardinality(S \union T) \in Nat
           /\ Cardinality(S) \in Nat /\ Cardinality(T) \in Nat
           /\ Cardinality(S \union T) <= Cardinality(S) + Cardinality(T)
<1>1. /\ IsFiniteSet(S \union T) /\ IsFiniteSet(S \cap T)
      /\ Cardinality(S \union T) = Cardinality(S) + Cardinality(T) - Cardinality(S \cap T)
  BY FS_Union, FS_Intersection
<1>2. /\ Cardinality(S \cap T) \in Nat /\ Cardinality(S \union T) \in Nat
      /\ Cardinality(S) \in Nat /\ Cardinality(T) \in Nat
  BY <1>1, FS_CardinalityType
<1> QED
  BY <1>1, <1>2

LEMMA CountedIsFinite ==
    ASSUME IsFiniteSet(positions), IsFiniteSet(pending)
    PROVE  IsFiniteSet(Counted) /\ Cardinality(Counted) \in Nat
<1>1. IsFiniteSet(SymbolsOf(pending)) /\ IsFiniteSet(positions \ unseen)
  BY SymbolsCount, SubsetCount
<1> QED
  BY <1>1, UnionCount DEF Counted

\* What is no more than all that was read is no more than the exposure.
LEMMA ExposureBounds ==
    ASSUME NEW S, NEW read, IsFiniteSet(seen), IsFiniteSet(read), S \subseteq seen \union SymbolsOf(read)
    PROVE  Cardinality(S) \in Nat /\ Exposure(read) \in Nat /\ Cardinality(S) <= Exposure(read)
<1>1. /\ IsFiniteSet(SymbolsOf(read)) /\ Cardinality(SymbolsOf(read)) \in Nat
      /\ Cardinality(read) \in Nat /\ Cardinality(SymbolsOf(read)) <= Cardinality(read)
  BY SymbolsCount
<1>2. /\ IsFiniteSet(seen \union SymbolsOf(read)) /\ Cardinality(seen \union SymbolsOf(read)) \in Nat
      /\ Cardinality(seen) \in Nat
      /\ Cardinality(seen \union SymbolsOf(read)) <= Cardinality(seen) + Cardinality(SymbolsOf(read))
  BY <1>1, UnionCount
<1>3. /\ Cardinality(S) \in Nat /\ Cardinality(S) <= Cardinality(seen \union SymbolsOf(read))
  BY <1>2, SubsetCount
<1>4. Exposure(read) = Cardinality(seen) + Cardinality(read)
  BY DEF Exposure
<1> HIDE DEF Exposure
<1> QED
  BY <1>1, <1>2, <1>3, <1>4

\* Less that counts, with as much left to place.
LEMMA FewerCounted ==
    ASSUME CountInv, Counted' \subseteq Counted, UNCHANGED <<step, universe, capacity, regained>>
    PROVE  CountWithin'
<1>1. /\ IsFiniteSet(Counted) /\ Cardinality(Counted) \in Nat
  BY CountedIsFinite DEF CountInv, CountTypes
<1>2. Cardinality(Counted)' \in Nat /\ Cardinality(Counted)' <= Cardinality(Counted)
  BY <1>1, SubsetCount
<1>3. MaxOpenPositions \in Nat /\ regained \in Nat /\ capacity \in Nat
  BY DemoAssumption DEF CountInv, CountTypes
<1> QED
  BY <1>1, <1>2, <1>3 DEF CountInv, CountWithin

\* A cycle that ends, however it ends, leaves what counts.
LEMMA EndKeepsCount ==
    ASSUME EndCycle, IsFiniteSet(positions)', IsFiniteSet(pending)', regained' \in Nat,
           Cardinality(Counted)' <= MaxOpenPositions + regained'
    PROVE  CountInv'
<1>1. CountTypes'
  BY FS_EmptySet DEF EndCycle, CountTypes
<1> QED
  BY <1>1 DEF EndCycle, CountInv, PositionsWereOrders, CapacityIsLeft, CountWithin

\* A fill turns an order into a position, which counts as the order did.
LEMMA FillKeepsCount ==
    ASSUME OrderInv, CountInv, NEW o \in pending, Fill(o) \/ PartialFill(o)
    PROVE  CountInv'
<1>1. /\ step' = step /\ seen' = seen /\ rows' = rows /\ universe' = universe
      /\ expiring' = expiring /\ capacity' = capacity /\ regained' = regained
  BY DEF Fill, PartialFill, cycle, ghosts
<1> DEFINE marked == [o EXCEPT !.filled = TRUE]
<1>2. o \in Orders /\ marked.symbol = o.symbol /\ marked.filled = TRUE
  BY DEF OrderInv, DemoTypes, Orders
<1>3. /\ \/ pending' = (pending \ {o}) \union {marked}
         \/ pending' = pending \ {o} /\ (step = "orders" => o.symbol \in seen \union unseen')
      /\ positions' = positions \union {o.symbol}
      /\ unseen \subseteq unseen'
  BY DEF Fill, PartialFill, ghosts
<1>4. \A p \in pending \ {o} : p.symbol # o.symbol
  BY DEF OrderInv, OneOrderPerSymbol
<1> HIDE DEF marked
<1>5. IsFiniteSet(positions') /\ IsFiniteSet(pending')
  <2>1. IsFiniteSet(pending \ {o}) /\ IsFiniteSet(positions \union {o.symbol})
    BY FS_AddElement, FS_RemoveElement DEF CountInv, CountTypes
  <2>2. IsFiniteSet((pending \ {o}) \union {marked})
    BY <2>1, FS_AddElement
  <2> QED
    BY <1>3, <2>1, <2>2
<1>6. CountTypes'
  BY <1>1, <1>5 DEF CountInv, CountTypes
<1>7. /\ SymbolsOf(pending') \subseteq SymbolsOf(pending)
      /\ SymbolsOf(pending) \subseteq SymbolsOf(pending') \union {o.symbol}
      /\ o.symbol \in SymbolsOf(pending)
      /\ step = "orders" => o.symbol \in seen \union unseen' \union SymbolsOf(pending')
  BY <1>2, <1>3 DEF SymbolsOf
<1>8. Counted' \subseteq Counted
  BY <1>3, <1>7 DEF Counted
<1>9. PositionsWereOrders'
  <2>1. ASSUME step = "orders"
        PROVE  (positions \ unseen)' \subseteq (seen \union SymbolsOf(pending))'
    BY <1>1, <1>3, <1>7, <2>1 DEF CountInv, PositionsWereOrders
  <2>2. ASSUME step \in {"orders", "scan"}, NEW p \in pending',
               p.symbol \in positions' \ (seen \union unseen')
        PROVE  p.filled
    <3>1. CASE p = marked
      BY <1>2, <3>1
    <3>2. CASE p \in pending \ {o}
      BY <1>3, <1>4, <2>2, <3>2 DEF CountInv, PositionsWereOrders
    <3> QED
      BY <1>3, <3>1, <3>2
  <2> QED
    BY <1>1, <2>1, <2>2 DEF PositionsWereOrders
<1>10. CapacityIsLeft'
  BY <1>1, <1>8 DEF CountInv, CapacityIsLeft, Exposure
<1>11. CountWithin'
  BY <1>1, <1>8, FewerCounted
<1> QED
  BY <1>6, <1>9, <1>10, <1>11 DEF CountInv

LEMMA CloseKeepsCount ==
    ASSUME CountInv, NEW s, Close(s)
    PROVE  CountInv'
<1>1. /\ step' = step /\ seen' = seen /\ rows' = rows /\ universe' = universe
      /\ expiring' = expiring /\ capacity' = capacity /\ regained' = regained
      /\ pending' = pending /\ positions' = positions \ {s} /\ unseen' = unseen \ {s}
  BY DEF Close, cycle
<1>2. CountTypes'
  BY <1>1, FS_RemoveElement DEF CountInv, CountTypes
<1>3. Counted' \subseteq Counted
  BY <1>1 DEF Counted
<1>4. PositionsWereOrders'
  BY <1>1 DEF CountInv, PositionsWereOrders
<1>5. CapacityIsLeft'
  BY <1>1, <1>3 DEF CountInv, CapacityIsLeft, Exposure
<1>6. CountWithin'
  BY <1>1, <1>3, FewerCounted
<1> QED
  BY <1>2, <1>4, <1>5, <1>6 DEF CountInv

\* The reads of a cycle.
LEMMA ReadsKeepCount ==
    ASSUME CountInv, ReadPositions \/ ReadOrders \/ ReadRefused
    PROVE  CountInv'
<1>1. /\ positions' = positions /\ pending' = pending /\ unseen' = unseen
      /\ expiring' = expiring
  BY DEF ReadPositions, ReadOrders, ReadRefused, account, ghosts
<1>2. Counted' = Counted /\ Cardinality(Counted) \in Nat
  BY <1>1, CountedIsFinite DEF Counted, CountInv, CountTypes
<1>3. MaxOpenPositions \in Nat /\ regained \in Nat
  BY DemoAssumption DEF CountInv, CountTypes
<1>4. CASE ReadPositions
  <2>1. /\ step = "idle" /\ step' = "orders" /\ seen' = positions /\ rows' = rows /\ capacity' = capacity
        /\ regained' = regained
    BY <1>4 DEF ReadPositions, ghosts
  <2>2. CountTypes'
    BY <1>1, <2>1 DEF CountInv, CountTypes
  <2>3. PositionsWereOrders'
    BY <1>1, <2>1 DEF PositionsWereOrders
  <2>4. CapacityIsLeft' /\ CountWithin'
    BY <1>2, <2>1 DEF CountInv, CapacityIsLeft, CountWithin
  <2> QED
    BY <2>2, <2>3, <2>4 DEF CountInv
<1>5. CASE ReadRefused
  <2>1. /\ step = "orders" /\ step' = "scan" /\ seen' = seen /\ universe' = {}
        /\ capacity' = MaxOpenPositions /\ regained' = regained /\ rows' \in {{}, pending}
    BY <1>5 DEF ReadRefused, ghosts
  <2>2. CountTypes'
    BY <1>1, <1>3, <2>1, FS_EmptySet DEF CountInv, CountTypes
  <2>3. PositionsWereOrders'
    BY <1>1, <2>1 DEF CountInv, PositionsWereOrders
  <2>4. CapacityIsLeft' /\ CountWithin'
    BY <1>2, <2>1 DEF CountInv, CapacityIsLeft, CountWithin
  <2> QED
    BY <2>2, <2>3, <2>4 DEF CountInv
<1>6. CASE ReadOrders
  <2>1. /\ step = "orders" /\ step' = "scan" /\ seen' = seen /\ rows' = pending
        /\ capacity' = Remaining(pending)
        /\ regained' = IF Exposure(pending) <= MaxOpenPositions THEN 0 ELSE regained
    BY <1>6 DEF ReadOrders
  <2>2. Counted \subseteq seen \union SymbolsOf(pending)
    BY <2>1 DEF Counted, CountInv, PositionsWereOrders
  <2>3. Exposure(pending) \in Nat /\ Cardinality(Counted) <= Exposure(pending)
    BY <2>2, ExposureBounds DEF CountInv, CountTypes
  <2>4. Exposure(rows)' = Exposure(pending)
    BY <2>1 DEF Exposure
  <2>5. capacity' = IF Exposure(pending) < MaxOpenPositions
                    THEN MaxOpenPositions - Exposure(pending) ELSE 0
    BY <2>1 DEF Remaining
  <2>6. Cardinality(Counted) <= MaxOpenPositions + regained
    BY DEF CountInv, CountWithin
  <2> DEFINE counted == Cardinality(Counted)
             exposure == Exposure(pending)
  <2>7. counted \in Nat /\ exposure \in Nat /\ counted <= exposure
        /\ counted <= MaxOpenPositions + regained
    BY <1>2, <2>3, <2>6
  <2>8. /\ capacity' = IF exposure < MaxOpenPositions THEN MaxOpenPositions - exposure ELSE 0
        /\ regained' = IF exposure <= MaxOpenPositions THEN 0 ELSE regained
    BY <2>1, <2>5
  <2> HIDE DEF counted, exposure
  <2>9. /\ capacity' \in Nat /\ regained' \in Nat
        /\ counted + capacity' <= MaxOpenPositions + regained'
        /\ counted <= MaxOpenPositions + regained'
        /\ IF exposure > MaxOpenPositions THEN capacity' <= regained'
           ELSE capacity' + exposure <= MaxOpenPositions + regained'
    BY <1>3, <2>7, <2>8
  <2>10. CountTypes'
    BY <1>1, <2>1, <2>9 DEF CountInv, CountTypes
  <2>11. PositionsWereOrders'
    BY <1>1, <2>1 DEF CountInv, PositionsWereOrders
  <2>12. CapacityIsLeft'
    BY <1>2, <2>1, <2>2, <2>4, <2>9 DEF CapacityIsLeft, exposure
  <2>13. CountWithin'
    BY <1>2, <2>9 DEF CountWithin, counted
  <2> QED
    BY <2>10, <2>11, <2>12, <2>13 DEF CountInv
<1> QED
  BY <1>4, <1>5, <1>6

\* Scanning, and the steps that only go on.
LEMMA ScanKeepsCount ==
    ASSUME CountInv,
           \/ \E s \in Symbols : ScanSymbol(s)
           \/ StartPlacing
           \/ step = "scan" /\ \E row \in expiring : ExpireRefused(row)
           \/ step = "place" /\ \E e \in entering : PlaceBlocked(e)
           \/ UNCHANGED demo
    PROVE  CountInv'
<1>1. /\ positions' = positions /\ pending' = pending /\ unseen' = unseen
      /\ seen' = seen /\ rows' = rows /\ universe' = universe
      /\ capacity' = capacity /\ regained' = regained
  BY DEF ScanSymbol, StartPlacing, ExpireRefused, PlaceBlocked, demo, account, cycle, ghosts
<1>2. Counted' = Counted
  BY <1>1 DEF Counted
<1>3. \/ step' = step
      \/ step = "scan" /\ step' = "place" /\ expiring = {} /\ expiring' = expiring
  BY DEF ScanSymbol, StartPlacing, ExpireRefused, PlaceBlocked, demo, cycle
<1>4. expiring' \subseteq rows /\ (step' # "scan" => expiring' = {})
  BY DEF ScanSymbol, StartPlacing, ExpireRefused, PlaceBlocked, demo, cycle, CountInv, CountTypes
<1>5. CountTypes'
  BY <1>1, <1>3, <1>4 DEF CountInv, CountTypes
<1>6. PositionsWereOrders' /\ CapacityIsLeft'
  BY <1>1, <1>2, <1>3 DEF CountInv, PositionsWereOrders, CapacityIsLeft, Exposure
<1>7. CountWithin'
  BY <1>1, <1>2, <1>3 DEF CountInv, CountWithin
<1> QED
  BY <1>5, <1>6, <1>7 DEF CountInv

\* Without the orders of a row fewer symbols count; with only the row's own
\* symbol in doubt, one that was read with a position, or not read any more.
LEMMA CancelCounts ==
    ASSUME OrderInv, CountInv, NEW row \in expiring, pending' = pending \ Live(row),
           positions' = positions, unseen \subseteq unseen'
    PROVE  IsFiniteSet(pending)' /\ Counted' \subseteq Counted
<1>1. pending' \subseteq pending
  OBVIOUS
<1>2. IsFiniteSet(pending')
  BY <1>1, SubsetCount DEF CountInv, CountTypes
<1> QED
  BY <1>1, <1>2 DEF Counted, SymbolsOf

LEMMA ExpireKeepsCount ==
    ASSUME OrderInv, CountInv, step = "scan", NEW row \in expiring, Expire(row)
    PROVE  CountInv'
<1>1. /\ positions' = positions /\ step' = step /\ seen' = seen /\ universe' = universe
      /\ pending' = pending \ Live(row) /\ Live(row) # {}
      /\ rows' = rows \ {row} /\ expiring' = expiring \ {row} /\ capacity' = capacity + 1
      /\ unseen' = unseen \union
            {o.symbol : o \in {l \in Live(row) : l.filled /\ l.symbol \in positions \ seen}}
      /\ regained' = IF universe # {} /\ Exposure(rows) > MaxOpenPositions
                     THEN regained + 1 ELSE regained
  BY DEF Expire
<1>2. IsFiniteSet(pending)' /\ Counted' \subseteq Counted
  BY <1>1, CancelCounts
<1>3. /\ row \in rows /\ IsFiniteSet(rows) /\ IsFiniteSet(seen)
      /\ capacity \in Nat /\ regained \in Nat /\ MaxOpenPositions \in Nat
  BY DemoAssumption DEF CountInv, CountTypes
<1>4. /\ IsFiniteSet(rows \ {row}) /\ Cardinality(rows \ {row}) = Cardinality(rows) - 1
      /\ Cardinality(rows) \in Nat /\ Cardinality(seen) \in Nat
  BY <1>3, FS_RemoveElement, FS_CardinalityType
<1>5. CountTypes'
  <2>1. regained' \in Nat /\ capacity' \in Nat
    BY <1>1, <1>3
  <2>2. expiring' \subseteq rows' /\ step' = "scan"
    BY <1>1 DEF CountInv, CountTypes
  <2> QED
    BY <1>1, <1>2, <1>4, <2>1, <2>2 DEF CountInv, CountTypes
<1>6. PositionsWereOrders'
  BY <1>1 DEF CountInv, PositionsWereOrders
<1> DEFINE exposure == Exposure(rows)
           counted == Cardinality(Counted)
           left == Cardinality(Counted')
<1>7. exposure \in Nat /\ Exposure(rows \ {row}) = exposure - 1 /\ Exposure(rows)' = exposure - 1
      /\ exposure - 1 \in Nat
  <2>1. /\ exposure = Cardinality(seen) + Cardinality(rows)
        /\ Exposure(rows \ {row}) = Cardinality(seen) + Cardinality(rows \ {row})
        /\ Exposure(rows)' = Cardinality(seen) + Cardinality(rows \ {row})
    BY <1>1 DEF Exposure
  <2>2. Cardinality(rows) # 0
    BY <1>3, FS_EmptySet
  <2> HIDE DEF exposure
  <2> QED
    BY <1>4, <2>1, <2>2
<1>8. ASSUME universe # {}
      PROVE  Counted' \subseteq seen \union SymbolsOf(rows \ {row})
  <2> SUFFICES ASSUME NEW s \in Counted', s \notin seen
               PROVE  s \in SymbolsOf(rows \ {row})
    OBVIOUS
  <2>1. s \in SymbolsOf(rows)
    BY <1>2, <1>8 DEF CountInv, CapacityIsLeft
  <2>2. PICK live \in Live(row) : live \in pending /\ live.symbol = row.symbol
    BY <1>1 DEF Live, SameId
  <2>3. \A o \in pending : o.symbol = row.symbol => o = live
    BY <2>2 DEF OrderInv, OneOrderPerSymbol
  <2>4. s # row.symbol
    <3> SUFFICES ASSUME s = row.symbol
                 PROVE  FALSE
      OBVIOUS
    <3>1. s \notin SymbolsOf(pending')
      BY <1>1, <2>2, <2>3 DEF SymbolsOf
    <3>2. s \in positions /\ s \notin unseen'
      BY <1>1, <3>1 DEF Counted
    <3>3. live.filled
      BY <1>1, <2>2, <3>2 DEF CountInv, PositionsWereOrders
    <3>4. live.symbol \in unseen'
      BY <1>1, <2>2, <3>2, <3>3
    <3> QED
      BY <2>2, <3>2, <3>4
  <2> QED
    BY <2>1, <2>4 DEF SymbolsOf
<1>9. /\ counted \in Nat /\ left \in Nat /\ left <= counted
  BY <1>2, CountedIsFinite, SubsetCount DEF CountInv, CountTypes
<1>10. counted <= MaxOpenPositions + regained
  BY DEF CountInv, CountWithin
<1>11. ASSUME universe # {}
       PROVE  /\ IF exposure > MaxOpenPositions THEN capacity <= regained
                 ELSE capacity + exposure <= MaxOpenPositions + regained
              /\ counted + capacity <= MaxOpenPositions + regained
              /\ left <= exposure - 1
  <2>1. left <= exposure - 1
    BY <1>3, <1>4, <1>7, <1>8, <1>11, ExposureBounds
  <2> QED
    BY <1>11, <2>1 DEF CountInv, CapacityIsLeft, CountWithin
<1> HIDE DEF exposure, counted, left
<1>12. regained' = IF universe # {} /\ exposure > MaxOpenPositions THEN regained + 1 ELSE regained
  BY <1>1 DEF exposure
<1>13. left <= MaxOpenPositions + regained'
  BY <1>3, <1>9, <1>10, <1>12
<1>14. ASSUME universe # {}
       PROVE  /\ IF exposure - 1 > MaxOpenPositions THEN capacity' <= regained'
                 ELSE capacity' + (exposure - 1) <= MaxOpenPositions + regained'
              /\ left + capacity' <= MaxOpenPositions + regained'
  <2>1. CASE exposure > MaxOpenPositions
    BY <1>1, <1>3, <1>7, <1>9, <1>11, <1>12, <1>14, <2>1
  <2>2. CASE ~ (exposure > MaxOpenPositions)
    BY <1>1, <1>3, <1>7, <1>9, <1>11, <1>12, <1>14, <2>2
  <2> QED
    BY <2>1, <2>2
<1>15. CapacityIsLeft'
  BY <1>1, <1>7, <1>8, <1>14 DEF CapacityIsLeft
<1>16. CountWithin'
  BY <1>1, <1>13, <1>14 DEF CountWithin, left
<1> QED
  BY <1>5, <1>6, <1>15, <1>16 DEF CountInv

\* A place that was left is taken, by one more symbol that counts.
LEMMA PlaceKeepsCount ==
    ASSUME OrderInv, CountInv, step = "place", NEW e \in entering, Place(e) \/ PlaceLost(e)
    PROVE  CountInv'
<1> DEFINE order == [symbol |-> e.symbol, signal |-> e.signal, filled |-> FALSE]
<1>1. /\ positions' = positions /\ unseen' = unseen /\ regained' = regained
      /\ pending' = pending \union {order} /\ capacity > 0 /\ order.symbol = e.symbol
  BY DEF Place, PlaceLost, Placed, MayPlace, ghosts
<1> HIDE DEF order
<1>2. universe # {}
  BY DEF OrderInv, EntriesAreScanned
<1>3. Counted' \subseteq Counted \union {e.symbol}
  BY <1>1 DEF Counted, SymbolsOf
<1>4. /\ IsFiniteSet(Counted) /\ Cardinality(Counted) \in Nat
      /\ capacity \in Nat /\ regained \in Nat /\ MaxOpenPositions \in Nat
  BY CountedIsFinite, DemoAssumption DEF CountInv, CountTypes
<1>5. /\ IsFiniteSet(Counted \union {e.symbol})
      /\ Cardinality(Counted \union {e.symbol}) \in {Cardinality(Counted), Cardinality(Counted) + 1}
  BY <1>4, FS_AddElement
<1>6. Cardinality(Counted') \in Nat /\ Cardinality(Counted') <= Cardinality(Counted \union {e.symbol})
  BY <1>3, <1>5, SubsetCount
<1>7. Cardinality(Counted) + capacity <= MaxOpenPositions + regained
  BY <1>2 DEF CountInv, CountWithin
<1>8. /\ Cardinality(Counted') <= MaxOpenPositions + regained
      /\ Cardinality(Counted') + (capacity - 1) <= MaxOpenPositions + regained
      /\ capacity - 1 \in Nat
  <2>1. Cardinality(Counted') <= Cardinality(Counted) + 1
    BY <1>4, <1>5, <1>6
  <2> QED
    BY <1>1, <1>4, <1>6, <1>7, <2>1
<1>9. IsFiniteSet(pending)'
  BY <1>1, FS_AddElement DEF CountInv, CountTypes
<1>10. CASE PlaceLost(e)
  <2>1. EndCycle
    BY <1>10 DEF PlaceLost
  <2> QED
    BY <1>1, <1>4, <1>8, <1>9, <2>1, EndKeepsCount DEF CountInv, CountTypes
<1>11. CASE Place(e)
  <2>1. /\ step' = step /\ seen' = seen /\ rows' = rows /\ universe' = universe
        /\ expiring' = expiring /\ capacity' = capacity - 1
    BY <1>11 DEF Place
  <2>2. CountTypes'
    BY <1>1, <1>8, <1>9, <2>1 DEF CountInv, CountTypes
  <2>3. PositionsWereOrders' /\ CapacityIsLeft'
    BY <2>1 DEF PositionsWereOrders, CapacityIsLeft
  <2>4. CountWithin'
    BY <1>1, <1>8, <2>1 DEF CountWithin
  <2> QED
    BY <2>2, <2>3, <2>4 DEF CountInv
<1> QED
  BY <1>10, <1>11

LEMMA NextCount == OrderInv /\ CountInv /\ [DemoNext]_demo => CountInv'
<1> SUFFICES ASSUME OrderInv, CountInv, [DemoNext]_demo
             PROVE  CountInv'
  OBVIOUS
<1>1. ASSUME FinishRound \/ Abort PROVE CountInv'
  <2>1. EndCycle /\ UNCHANGED <<positions, pending, unseen, regained>>
    BY <1>1 DEF FinishRound, Abort, account, ghosts
  <2>2. Counted' = Counted
    BY <2>1 DEF Counted
  <2> QED
    BY <2>1, <2>2, EndKeepsCount DEF CountInv, CountTypes, CountWithin
<1>2. ASSUME NEW row \in expiring, ExpireLost(row) PROVE CountInv'
  <2>1. /\ EndCycle /\ pending' = pending \ Live(row)
        /\ positions' = positions /\ unseen' = unseen /\ regained' = regained
    BY <1>2 DEF ExpireLost, ghosts
  <2>2. IsFiniteSet(pending)' /\ Counted' \subseteq Counted
    BY <2>1, CancelCounts
  <2>3. /\ Cardinality(Counted) \in Nat /\ Cardinality(Counted') \in Nat
        /\ Cardinality(Counted') <= Cardinality(Counted)
    BY <2>2, CountedIsFinite, SubsetCount DEF CountInv, CountTypes
  <2>4. Cardinality(Counted)' <= MaxOpenPositions + regained'
    BY <2>1, <2>3, DemoAssumption DEF CountInv, CountTypes, CountWithin
  <2> QED
    BY <2>1, <2>2, <2>4, EndKeepsCount DEF CountInv, CountTypes
<1> QED
  BY <1>1, <1>2, FillKeepsCount, CloseKeepsCount, ReadsKeepCount, ScanKeepsCount,
     ExpireKeepsCount, PlaceKeepsCount DEF DemoNext

LEMMA InitCount == DemoInit => CountInv
<1> SUFFICES ASSUME DemoInit
             PROVE  CountInv
  OBVIOUS
<1>1. Counted = {}
  BY DEF DemoInit, Counted, SymbolsOf
<1> QED
  BY <1>1, FS_EmptySet, DemoAssumption DEF DemoInit, CountInv, CountTypes, PositionsWereOrders,
     CapacityIsLeft, CountWithin

\* The account never has more symbols with a position or a pending order than
\* max_open_positions, apart from those a cycle could not see and from the
\* places that cancels gave back while the account was over the limit, for
\* any number of symbols and any limit (remaining_capacity).
THEOREM DemoCountedExposure == DemoSpec => []CountedExposureWithinLimit
<1>1. CountInv => CountedExposureWithinLimit
  <2> SUFFICES ASSUME CountInv
               PROVE  Cardinality(Engaged \ unseen) <= MaxOpenPositions + regained
    BY DEF CountedExposureWithinLimit
  <2>1. Engaged \ unseen \subseteq Counted
    BY DEF Engaged, Counted
  <2>2. IsFiniteSet(Counted)
    BY CountedIsFinite DEF CountInv, CountTypes
  <2>3. /\ Cardinality(Engaged \ unseen) \in Nat /\ Cardinality(Counted) \in Nat
        /\ Cardinality(Engaged \ unseen) <= Cardinality(Counted)
    BY <2>1, <2>2, SubsetCount
  <2> QED
    BY <2>3, DemoAssumption DEF CountInv, CountTypes, CountWithin
<1> QED
  BY InitOrders, NextOrders, InitCount, NextCount, <1>1, PTL DEF DemoSpec

-----------------------------------------------------------------------------
(***************************************************************************)
(* The scan and the backtest agree on the order to be placed, for any      *)
(* series of candles and any time to wait, where the scan is asked to look *)
(* back as far as an order can be live.                                    *)
(***************************************************************************)

\* The least of some naturals is one of them.
LEMMA MinIsMember ==
    ASSUME NEW S \in SUBSET Nat, S # {}
    PROVE  Min(S) \in S
<1> DEFINE R == OpToRel(<, Nat)
<1>1. IsWellFoundedOn(R, Nat)
  BY NatLessThanWellFounded
<1>2. \A x, y \in Nat : <<x, y>> \in R <=> x < y
  BY DEF OpToRel
<1> HIDE DEF R
<1>3. PICK x \in S : \A y \in S : ~ (<<y, x>> \in R)
  BY <1>1, WFMin
<1>4. ASSUME NEW y \in S PROVE x <= y
  <2>1. x \in Nat /\ y \in Nat /\ ~ (<<y, x>> \in R)
    BY <1>3
  <2>2. ~ (y < x)
    BY <1>2, <2>1, Zenon
  <2> QED
    BY <2>1, <2>2
<1> QED
  BY <1>4 DEF Min

-----------------------------------------------------------------------------
(* What the backtest has done with the signals it has seen.                *)

\* The order of candle i was filled by one of the candles it may rest in.
FilledBy(i) == \E j \in i + 1..Len(bars) : j <= i + WaitBars /\ Fills(bars[j], bars[i].signal)

EntryTypes ==
    /\ bars \in Seq(Candles)
    /\ pendingEntry \in 0..Len(bars)
    /\ passed \subseteq 1..Len(bars)

\* A pending order belongs to a signal that was looked at, is not filled, and
\* excludes a position.
PendingIsOpen ==
    pendingEntry # 0 =>
        /\ ~holding
        /\ bars[pendingEntry].signal # 0
        /\ ~FilledBy(pendingEntry)

\* The order of every other signal that was looked at has filled or expired.
OthersAreDone ==
    \A i \in 1..Len(bars) :
        bars[i].signal # 0 /\ i \notin passed /\ i # pendingEntry =>
            FilledBy(i) \/ i + WaitBars < Len(bars)

EntryInv == EntryTypes /\ PendingIsOpen /\ OthersAreDone

LEMMA InitEntry == EntryInit => EntryInv
  BY DEF EntryInit, EntryInv, EntryTypes, PendingIsOpen, OthersAreDone

\* Another candle changes nothing about the earlier ones.
LEMMA AppendCandle ==
    ASSUME EntryTypes, NEW b \in Candles, bars' = Append(bars, b)
    PROVE  /\ bars' \in Seq(Candles) /\ Len(bars) \in Nat /\ Len(bars') = Len(bars) + 1
           /\ bars'[Len(bars) + 1] = b
           /\ \A i \in 1..Len(bars) : bars'[i] = bars[i]
  BY DEF EntryTypes

\* An order is filled after the candle when it was before, or the candle fills it.
LEMMA FilledByCandle ==
    ASSUME EntryTypes, NEW b \in Candles, bars' = Append(bars, b), NEW i \in 1..Len(bars)
    PROVE  FilledBy(i)' <=>
              \/ FilledBy(i)
              \/ Len(bars) + 1 <= i + WaitBars /\ Fills(b, bars[i].signal)
<1>1. WaitBars \in Nat
  BY EntryOrdersAssumption
<1>2. /\ Len(bars) \in Nat /\ Len(bars') = Len(bars) + 1 /\ bars'[Len(bars) + 1] = b
      /\ \A j \in 1..Len(bars) : bars'[j] = bars[j]
  BY AppendCandle
<1>3. FilledBy(i)' <=> \E j \in i + 1..Len(bars) + 1 :
         j <= i + WaitBars /\ Fills(bars'[j], bars[i].signal)
  BY <1>2 DEF FilledBy, Fills
<1>4. \A j \in i + 1..Len(bars) + 1 : j = Len(bars) + 1 \/ j \in i + 1..Len(bars)
  BY <1>2
<1>5. \A j \in i + 1..Len(bars) : j \in 1..Len(bars) /\ j \in i + 1..Len(bars) + 1
  BY <1>2
<1>6. Len(bars) + 1 \in i + 1..Len(bars) + 1
  BY <1>2
<1> QED
  BY <1>2, <1>3, <1>4, <1>5, <1>6 DEF FilledBy

\* Whatever a candle does, the earlier signals stay done, and its own signal
\* is looked at or passed over.
LEMMA CandleKeepsOthers ==
    ASSUME EntryInv, NEW b \in Candles, bars' = Append(bars, b),
           passed' \in {passed, passed \union {Len(bars) + 1}},
           b.signal # 0 => Len(bars) + 1 \in passed' \union {pendingEntry'},
           \A i \in 1..Len(bars) : i = pendingEntry /\ i # pendingEntry' =>
               FilledBy(i)' \/ i + WaitBars < Len(bars) + 1
    PROVE  OthersAreDone'
<1> SUFFICES ASSUME NEW i \in 1..Len(bars'), bars'[i].signal # 0, i \notin passed', i # pendingEntry'
             PROVE  FilledBy(i)' \/ i + WaitBars < Len(bars')
  BY DEF OthersAreDone
<1>1. /\ Len(bars) \in Nat /\ Len(bars') = Len(bars) + 1 /\ bars'[Len(bars) + 1] = b
      /\ \A j \in 1..Len(bars) : bars'[j] = bars[j]
  BY AppendCandle DEF EntryInv
<1>2. WaitBars \in Nat
  BY EntryOrdersAssumption
<1>3. i # Len(bars) + 1
  BY <1>1
<1>4. i \in 1..Len(bars)
  BY <1>1, <1>3
<1>5. CASE i = pendingEntry
  BY <1>1, <1>4, <1>5
<1>6. CASE i # pendingEntry
  <2>1. FilledBy(i) \/ i + WaitBars < Len(bars)
    BY <1>1, <1>4, <1>6 DEF EntryInv, OthersAreDone
  <2>2. FilledBy(i) => FilledBy(i)'
    BY <1>4, FilledByCandle DEF EntryInv
  <2> QED
    BY <1>1, <1>2, <1>4, <2>1, <2>2
<1> QED
  BY <1>5, <1>6

-----------------------------------------------------------------------------

LEMMA CandleKeepsTypes ==
    ASSUME EntryInv, NEW b \in Candles, NextCandle(b)
    PROVE  EntryTypes'
<1>1. bars' = Append(bars, b)
  BY DEF NextCandle
<1>2. bars' \in Seq(Candles) /\ Len(bars) \in Nat /\ Len(bars') = Len(bars) + 1
  BY <1>1, AppendCandle DEF EntryInv
<1>3. pendingEntry' \in {0, pendingEntry, Len(bars) + 1}
  BY DEF NextCandle, FillEntry, KeepWaiting, LookForSignal, Manage
<1>4. passed' \subseteq passed \union {Len(bars) + 1}
  BY DEF NextCandle, FillEntry, KeepWaiting, LookForSignal, Manage, PassOver
<1> QED
  BY <1>2, <1>3, <1>4 DEF EntryInv, EntryTypes

\* A filled order leaves the backtest, and the candle's own signal is passed over.
LEMMA FillKeeps ==
    ASSUME EntryInv, EntryTypes', NEW b \in Candles, NextCandle(b), FillEntry(b)
    PROVE  EntryInv'
<1>1. bars' = Append(bars, b) /\ pendingEntry' = 0
  BY DEF NextCandle, FillEntry
<1>2. Len(bars) + 1 <= pendingEntry + WaitBars /\ Fills(b, bars[pendingEntry].signal)
  BY DEF FillEntry, Resting
<1>3. \A i \in 1..Len(bars) : i = pendingEntry => FilledBy(i)'
  BY <1>1, <1>2, FilledByCandle DEF EntryInv
<1>4. /\ passed' \in {passed, passed \union {Len(bars) + 1}}
      /\ b.signal # 0 => Len(bars) + 1 \in passed'
  BY DEF FillEntry, PassOver
<1>5. OthersAreDone'
  BY <1>1, <1>3, <1>4, CandleKeepsOthers
<1> QED
  BY <1>1, <1>5 DEF EntryInv, PendingIsOpen

\* A waiting order has not been filled by this candle either.
LEMMA WaitKeeps ==
    ASSUME EntryInv, EntryTypes', NEW b \in Candles, NextCandle(b), KeepWaiting(b)
    PROVE  EntryInv'
<1>1. bars' = Append(bars, b) /\ pendingEntry' = pendingEntry /\ holding' = holding
  BY DEF NextCandle, KeepWaiting
<1>2. pendingEntry \in 1..Len(bars) /\ ~ Fills(b, bars[pendingEntry].signal)
  BY DEF KeepWaiting, Resting, EntryInv, EntryTypes
<1>3. bars'[pendingEntry] = bars[pendingEntry]
  BY <1>1, <1>2, AppendCandle DEF EntryInv
<1>4. \A i \in 1..Len(bars) : i = pendingEntry => ~ FilledBy(i)'
  BY <1>1, <1>2, FilledByCandle DEF EntryInv, PendingIsOpen
<1>5. PendingIsOpen'
  <2>1. \A i \in 1..Len(bars) : i = pendingEntry' => ~ FilledBy(i)'
    BY <1>1, <1>4
  <2>2. pendingEntry' \in 1..Len(bars)
    BY <1>1, <1>2
  <2>3. ~ FilledBy(pendingEntry)'
    BY <2>1, <2>2
  <2> QED
    BY <1>1, <1>2, <1>3, <2>3 DEF EntryInv, PendingIsOpen
<1>6. /\ passed' \in {passed, passed \union {Len(bars) + 1}}
      /\ b.signal # 0 => Len(bars) + 1 \in passed'
  BY DEF KeepWaiting, PassOver
<1>7. OthersAreDone'
  BY <1>1, <1>6, CandleKeepsOthers
<1> QED
  BY <1>5, <1>7 DEF EntryInv

\* A new order has no later candle yet, and the one it replaces has expired.
LEMMA LookKeeps ==
    ASSUME EntryInv, EntryTypes', NEW b \in Candles, NextCandle(b), LookForSignal(b)
    PROVE  EntryInv'
<1>1. /\ bars' = Append(bars, b) /\ passed' = passed /\ holding' = FALSE
      /\ pendingEntry' = IF b.signal # 0 THEN Len(bars) + 1 ELSE 0
  BY DEF NextCandle, LookForSignal, EntryInv
<1>2. Len(bars) \in Nat /\ Len(bars') = Len(bars) + 1 /\ bars'[Len(bars) + 1] = b
  BY <1>1, AppendCandle DEF EntryInv
<1>3. ~ FilledBy(Len(bars))'
  BY <1>2 DEF FilledBy
<1>4. PendingIsOpen'
  BY <1>1, <1>2, <1>3 DEF PendingIsOpen
<1>5. \A i \in 1..Len(bars) : i = pendingEntry => i + WaitBars < Len(bars) + 1
  BY <1>2, EntryOrdersAssumption DEF LookForSignal, Resting
<1>6. OthersAreDone'
  BY <1>1, <1>5, CandleKeepsOthers
<1> QED
  BY <1>4, <1>6 DEF EntryInv

\* A position excludes a pending order, and what comes up meanwhile is passed over.
LEMMA ManageKeeps ==
    ASSUME EntryInv, EntryTypes', NEW b \in Candles, NextCandle(b), Manage(b)
    PROVE  EntryInv'
<1>1. bars' = Append(bars, b) /\ pendingEntry = 0 /\ pendingEntry' = 0
  BY DEF NextCandle, Manage, EntryInv, PendingIsOpen
<1>2. /\ passed' \in {passed, passed \union {Len(bars) + 1}}
      /\ b.signal # 0 => Len(bars) + 1 \in passed'
  BY DEF Manage, PassOver
<1>3. OthersAreDone'
  BY <1>1, <1>2, CandleKeepsOthers
<1> QED
  BY <1>1, <1>3 DEF EntryInv, PendingIsOpen

LEMMA EntryStep == EntryInv /\ [EntryNext]_entry => EntryInv'
<1>1. ASSUME EntryInv, NEW b \in Candles, NextCandle(b) PROVE EntryInv'
  <2>1. EntryTypes'
    BY <1>1, CandleKeepsTypes
  <2> QED
    BY <1>1, <2>1, FillKeeps, WaitKeeps, LookKeeps, ManageKeeps DEF NextCandle
<1>2. ASSUME EntryInv, UNCHANGED entry PROVE EntryInv'
  BY <1>2 DEF entry, EntryInv, EntryTypes, PendingIsOpen, OthersAreDone, FilledBy
<1> QED
  BY <1>1, <1>2 DEF EntryNext

LEMMA EntryInvariant == EntrySpec => []EntryInv
  BY InitEntry, EntryStep, PTL DEF EntrySpec

-----------------------------------------------------------------------------
(* The scan, which sees no more than the candles.                          *)

\* The candles that the scan looks at are those the order may have rested in.
LEMMA ScanSeesFills ==
    ASSUME EntryTypes, NEW i \in 1..Len(bars)
    PROVE  AlreadyFilled(i) <=> FilledBy(i)
<1>1. Len(bars) \in Nat /\ WaitBars \in Nat
  BY EntryOrdersAssumption DEF EntryTypes
<1>2. /\ Min({Len(bars), i + WaitBars}) \in {Len(bars), i + WaitBars}
      /\ Min({Len(bars), i + WaitBars}) <= Len(bars)
      /\ Min({Len(bars), i + WaitBars}) <= i + WaitBars
  <2>1. \E x \in {Len(bars), i + WaitBars} : \A y \in {Len(bars), i + WaitBars} : x <= y
    BY <1>1
  <2> QED
    BY <2>1 DEF Min
<1> DEFINE last == Min({Len(bars), i + WaitBars})
<1> HIDE DEF last
<1>3. \A j \in Int : j \in i + 1..last <=> j \in i + 1..Len(bars) /\ j <= i + WaitBars
  BY <1>1, <1>2 DEF last
<1> QED
  BY <1>1, <1>2, <1>3 DEF AlreadyFilled, FilledBy, last

\* The signals that are open to the scan are the live one, where the scan looks
\* back as far as an order waits, and passed ones.
LEMMA OpenIsLive ==
    ASSUME EntryInv
    PROVE  /\ OpenSignals \subseteq Nat
           /\ OpenSignals \subseteq passed \union {LiveSignal}
           /\ WaitBars <= LookbackBars /\ LiveSignal # 0 => LiveSignal \in OpenSignals
<1>1. Len(bars) \in Nat /\ WaitBars \in Nat /\ LookbackBars \in Nat
  BY EntryOrdersAssumption DEF EntryInv, EntryTypes
<1>2. /\ EffectiveLookback \in Nat /\ EffectiveLookback <= WaitBars
      /\ WaitBars <= LookbackBars => EffectiveLookback = WaitBars
  <2>1. \E x \in {LookbackBars, WaitBars} : \A y \in {LookbackBars, WaitBars} : x <= y
    BY <1>1
  <2>2. /\ EffectiveLookback \in {LookbackBars, WaitBars}
        /\ \A y \in {LookbackBars, WaitBars} : EffectiveLookback <= y
    BY <2>1 DEF EffectiveLookback, Min
  <2> QED
    BY <1>1, <2>2
<1>3. OpenSignals \subseteq 1..Len(bars)
  BY DEF OpenSignals, Window
<1>4. ASSUME NEW i \in OpenSignals, i \notin passed PROVE i = LiveSignal
  <2>1. /\ i \in 1..Len(bars) /\ i > Len(bars) - EffectiveLookback
        /\ bars[i].signal # 0 /\ ~AlreadyFilled(i)
    BY DEF OpenSignals, Window
  <2>2. ~FilledBy(i)
    BY <2>1, ScanSeesFills DEF EntryInv
  <2>3. i + WaitBars >= Len(bars) + 1
    BY <1>1, <1>2, <2>1
  <2>4. i = pendingEntry
    BY <1>1, <1>4, <2>1, <2>2, <2>3 DEF EntryInv, OthersAreDone
  <2> QED
    BY <1>1, <2>1, <2>3, <2>4 DEF LiveSignal, Resting
<1>5. ASSUME WaitBars <= LookbackBars, LiveSignal # 0 PROVE LiveSignal \in OpenSignals
  <2>1. /\ LiveSignal = pendingEntry /\ pendingEntry \in 1..Len(bars)
        /\ Len(bars) + 1 <= pendingEntry + WaitBars
    BY <1>5 DEF LiveSignal, Resting, EntryInv, EntryTypes
  <2>2. bars[pendingEntry].signal # 0 /\ ~AlreadyFilled(pendingEntry)
    BY <2>1, ScanSeesFills DEF EntryInv, PendingIsOpen
  <2>3. pendingEntry \in Window
    BY <1>1, <1>2, <1>5, <2>1 DEF Window
  <2> QED
    BY <2>1, <2>2, <2>3 DEF OpenSignals
<1> QED
  BY <1>1, <1>3, <1>4, <1>5

\* Where the scan looks back at least as far as an order waits, it asks for the
\* order that the backtest has live and for no other, apart from signals that
\* the backtest was too busy to look at.
THEOREM EntryScanAgreesWithBacktest ==
    ASSUME WaitBars <= LookbackBars
    PROVE  EntrySpec => []ScanAgreesWithBacktest
<1>1. EntryInv => ScanAgreesWithBacktest
  <2> SUFFICES ASSUME EntryInv PROVE ScanAgreesWithBacktest
    OBVIOUS
  <2>1. /\ OpenSignals \subseteq Nat
        /\ OpenSignals \subseteq passed \union {LiveSignal}
        /\ LiveSignal # 0 => LiveSignal \in OpenSignals
    BY OpenIsLive
  <2>2. OpenSignals # {} => Min(OpenSignals) \in OpenSignals
    BY <2>1, MinIsMember
  <2>3. LiveSignal # 0 => bars # <<>>
    BY DEF LiveSignal, Resting, EntryInv, EntryTypes
  <2> QED
    BY <2>1, <2>2, <2>3 DEF ScanAgreesWithBacktest, Scan, Entered
<1> QED
  BY <1>1, EntryInvariant, PTL

-----------------------------------------------------------------------------
(***************************************************************************)
(* The ledger replays whatever is saved, and a position is reviewed only   *)
(* while it is what both confirmations showed, for any positions, pages    *)
(* and forms.                                                              *)
(***************************************************************************)

\* A finite set of naturals has a greatest one.
LEMMA MaxIsMember ==
    ASSUME NEW n \in Nat, NEW S \in SUBSET (0..n), S # {}
    PROVE  Max(S) \in S /\ \A y \in S : y <= Max(S)
<1> DEFINE R == OpToRel(<, Nat)
<1> DEFINE T == {n - x : x \in S}
<1>1. IsWellFoundedOn(R, Nat)
  BY NatLessThanWellFounded
<1>2. \A x, y \in Nat : <<x, y>> \in R <=> x < y
  BY DEF OpToRel
<1>3. T \subseteq Nat /\ T # {}
  <2>1. \A x \in S : n - x \in Nat
    OBVIOUS
  <2> QED
    BY <2>1, Zenon
<1> HIDE DEF R
<1>4. PICK t \in T : \A y \in T : ~ (<<y, t>> \in R)
  BY <1>1, <1>3, WFMin
<1>5. PICK x \in S : t = n - x
  OBVIOUS
<1>6. ASSUME NEW y \in S PROVE y <= x
  <2>1. n - y \in T /\ n - y \in Nat /\ t \in Nat
    BY <1>3
  <2>2. ~ (<<n - y, t>> \in R)
    BY <1>4, <2>1
  <2>3. ~ (n - y < t)
    BY <1>2, <2>1, <2>2
  <2> QED
    BY <1>5, <2>3
<1>7. \E z \in S : \A y \in S : z >= y
  BY <1>6
<1> QED
  BY <1>7 DEF Max

-----------------------------------------------------------------------------
(* Rows and pages.                                                         *)

Pages ==
    [kind : {"create", "append", "revise", "state", "management"}, position : Positions,
     target : Nat, shown : [fills : Nat, states : Nat, managements : Nat]]

FillRows ==
    [position : Positions, request : Requests, fill : Requests, action : {"buy", "sell"},
     units : Nat \ {0}, time : Nat, voided : BOOLEAN]

StateRows ==
    [position : Positions, request : Requests, fills : Nat, stage : 0..MaxStage, stop : BOOLEAN]

ManagementRows ==
    [position : Positions, request : Requests,
     stages : UNION {[F -> 0..MaxStage] : F \in SUBSET Requests}, known : BOOLEAN,
     versions : SUBSET Nat, fills : Nat, state : Nat]

LedgerTypes ==
    /\ pages \in [Requests -> {Unopened} \union Pages]
    /\ fills \in Seq(FillRows)
    /\ states \in Seq(StateRows)
    /\ managements \in Seq(ManagementRows)

\* A page shows rows that were there.
ShownIsPast ==
    \A r \in Requests :
        pages[r] # Unopened =>
            pages[r].shown.fills <= Len(fills) /\ pages[r].shown.states <= Len(states)

\* A fill is named by the page it came from, so it belongs to one position.
FillsHavePages ==
    \A i \in 1..Len(fills) :
        pages[fills[i].fill] # Unopened /\ pages[fills[i].fill].position = fills[i].position

\* A confirmation names the fills and the state that its page showed.
StatesHavePages ==
    \A i \in 1..Len(states) :
        LET row == states[i] IN
        /\ pages[row.request] # Unopened
        /\ row.fills = Newest(fills, row.position, pages[row.request].shown.fills)

ManagementsHavePages ==
    \A i \in 1..Len(managements) :
        LET row == managements[i] IN
        /\ pages[row.request] # Unopened
        /\ row.fills = Newest(fills, row.position, pages[row.request].shown.fills)
        /\ row.state = Newest(states, row.position, pages[row.request].shown.states)

LedgerInv ==
    /\ LedgerTypes
    /\ ShownIsPast
    /\ FillsHavePages
    /\ StatesHavePages
    /\ ManagementsHavePages

-----------------------------------------------------------------------------
(* The newest row of a position.                                           *)

LEMMA NewestRow ==
    ASSUME NEW table, NEW p, NEW n \in Nat
    PROVE  /\ Newest(table, p, n) \in {0} \union Of(table, p, n)
           /\ \A i \in Of(table, p, n) : i <= Newest(table, p, n)
           /\ Newest(table, p, n) \in 0..n
<1>1. {0} \union Of(table, p, n) \in SUBSET (0..n) /\ {0} \union Of(table, p, n) # {}
  BY DEF Of
<1> HIDE DEF Of
<1>2. /\ Max({0} \union Of(table, p, n)) \in {0} \union Of(table, p, n)
      /\ \A y \in {0} \union Of(table, p, n) : y <= Max({0} \union Of(table, p, n))
  BY <1>1, MaxIsMember
<1> QED
  BY <1>1, <1>2 DEF Newest

\* A later row leaves the rows of the past alone.
LEMMA PastStays ==
    ASSUME NEW S, NEW table \in Seq(S), NEW row \in S, NEW p, NEW n \in 0..Len(table)
    PROVE  /\ Of(Append(table, row), p, n) = Of(table, p, n)
           /\ Newest(Append(table, row), p, n) = Newest(table, p, n)
<1>1. Of(Append(table, row), p, n) = Of(table, p, n)
  BY DEF Of
<1> QED
  BY <1>1 DEF Newest

\* If the newest row is the same, no row of the position has come.
LEMMA SameNewest ==
    ASSUME NEW table, NEW p, NEW m \in Nat, NEW n \in 0..m,
           Newest(table, p, n) = Newest(table, p, m)
    PROVE  Of(table, p, n) = Of(table, p, m)
<1>1. Newest(table, p, n) \in 0..n
  BY NewestRow
<1>2. \A i \in Of(table, p, m) : i <= Newest(table, p, m)
  BY NewestRow
<1>3. \A i \in Of(table, p, m) : i <= n
  BY <1>1, <1>2 DEF Of
<1> QED
  BY <1>3 DEF Of

LEMMA SameLatest ==
    ASSUME LedgerInv, NEW p, NEW n \in 0..Len(fills),
           Newest(fills, p, n) = Newest(fills, p, Len(fills))
    PROVE  Latest(p, n) = Latest(p, Len(fills))
<1>1. Len(fills) \in Nat
  BY DEF LedgerInv, LedgerTypes
<1>2. Of(fills, p, n) = Of(fills, p, Len(fills))
  BY <1>1, SameNewest
<1>3. ASSUME NEW i \in Of(fills, p, n), NEW j \in i + 1..Len(fills), j \notin i + 1..n
      PROVE  fills[j].fill # fills[i].fill
  <2>1. i \in 1..n /\ j \in 1..Len(fills) /\ fills[i].position = p /\ j > n
    BY <1>1, <1>3 DEF Of
  <2>2. j \notin Of(fills, p, n)
    BY <2>1, <1>1 DEF Of
  <2>3. fills[j].position # p
    BY <1>2, <2>1, <2>2 DEF Of
  <2> QED
    BY <2>1, <2>3 DEF LedgerInv, FillsHavePages
<1>4. \A i \in Of(fills, p, n) : i + 1..n \subseteq i + 1..Len(fills)
  BY <1>1 DEF Of
<1> QED
  BY <1>2, <1>3, <1>4 DEF Latest

LEMMA ReviewIsAsShown == LedgerInv => ReviewedAsShown
<1> SUFFICES ASSUME LedgerInv, NEW p \in Positions, Reviewable(p)
    PROVE  LET state == pages[states[StateRevision(p)].request].shown
               management == pages[managements[ManagementRevision(p)].request].shown
           IN  /\ Latest(p, state.fills) = Latest(p, Len(fills))
               /\ Latest(p, management.fills) = Latest(p, Len(fills))
               /\ Newest(states, p, management.states) = StateRevision(p)
  BY DEF ReviewedAsShown
<1> DEFINE s == states[StateRevision(p)]
<1> DEFINE m == managements[ManagementRevision(p)]
<1>1. Len(fills) \in Nat /\ Len(states) \in Nat /\ Len(managements) \in Nat
  BY DEF LedgerInv, LedgerTypes
<1>2. StateStatus(p) = "confirmed" /\ ManagementStatus(p) = "confirmed"
  BY DEF Reviewable
<1>3. StateRevision(p) # 0 /\ s.fills = FillSequence(p)
  BY <1>2 DEF StateStatus
<1>4. ManagementRevision(p) # 0 /\ m.fills = FillSequence(p) /\ m.state = StateRevision(p)
  BY <1>2 DEF ManagementStatus
<1>5. StateRevision(p) \in Of(states, p, Len(states))
  BY <1>1, <1>3, NewestRow DEF StateRevision
<1>6. ManagementRevision(p) \in Of(managements, p, Len(managements))
  BY <1>1, <1>4, NewestRow DEF ManagementRevision
<1>7. /\ StateRevision(p) \in 1..Len(states) /\ s.position = p
      /\ ManagementRevision(p) \in 1..Len(managements) /\ m.position = p
  BY <1>5, <1>6 DEF Of
<1>8. s \in StateRows /\ m \in ManagementRows
  BY <1>7 DEF LedgerInv, LedgerTypes
<1> DEFINE state == pages[s.request]
<1> DEFINE management == pages[m.request]
<1>9. /\ state # Unopened /\ s.fills = Newest(fills, p, state.shown.fills)
      /\ management # Unopened /\ m.fills = Newest(fills, p, management.shown.fills)
      /\ m.state = Newest(states, p, management.shown.states)
  BY <1>7 DEF LedgerInv, StatesHavePages, ManagementsHavePages
<1>10. s.request \in Requests /\ m.request \in Requests
  BY <1>8 DEF StateRows, ManagementRows
<1> HIDE DEF s, m
<1>11. state \in Pages /\ management \in Pages
  BY <1>9, <1>10 DEF LedgerInv, LedgerTypes
<1>12. state.shown.fills \in 0..Len(fills) /\ management.shown.fills \in 0..Len(fills)
  BY <1>1, <1>9, <1>10, <1>11 DEF LedgerInv, ShownIsPast, Pages
<1>13. Latest(p, state.shown.fills) = Latest(p, Len(fills))
  BY <1>3, <1>9, <1>12, SameLatest DEF FillSequence
<1>14. Latest(p, management.shown.fills) = Latest(p, Len(fills))
  BY <1>4, <1>9, <1>12, SameLatest DEF FillSequence
<1>15. Newest(states, p, management.shown.states) = StateRevision(p)
  BY <1>4, <1>9
<1> QED
  BY <1>13, <1>14, <1>15 DEF s, m

-----------------------------------------------------------------------------
(* Every step keeps the rows and the pages together.                       *)

LEMMA InitLedger == LedgerInit => LedgerInv
  BY DEF LedgerInit, LedgerInv, LedgerTypes, ShownIsPast, FillsHavePages, StatesHavePages,
         ManagementsHavePages

LEMMA RowsAreTyped ==
    ASSUME LedgerInv
    PROVE  /\ \A i \in 1..Len(fills) : fills[i].fill \in Requests
           /\ \A i \in 1..Len(states) : states[i].request \in Requests
           /\ \A i \in 1..Len(managements) : managements[i].request \in Requests
<1>1. \A i \in 1..Len(fills) : fills[i] \in FillRows
  BY DEF LedgerInv, LedgerTypes
<1>2. \A i \in 1..Len(states) : states[i] \in StateRows
  BY DEF LedgerInv, LedgerTypes
<1>3. \A i \in 1..Len(managements) : managements[i] \in ManagementRows
  BY DEF LedgerInv, LedgerTypes
<1>4. \A row \in FillRows : row.fill \in Requests
  BY DEF FillRows
<1>5. \A row \in StateRows : row.request \in Requests
  BY DEF StateRows
<1>6. \A row \in ManagementRows : row.request \in Requests
  BY DEF ManagementRows
<1> QED
  BY <1>1, <1>2, <1>3, <1>4, <1>5, <1>6

LEMMA RenderKeeps ==
    ASSUME LedgerInv, NEW r \in Requests, NEW p \in Positions, NEW target \in Nat,
           NEW kind \in {"create", "append", "revise", "state", "management"},
           Render(r, kind, p, target)
    PROVE  LedgerInv'
<1> DEFINE page == [kind |-> kind, position |-> p, target |-> target, shown |-> Shown]
<1>1. Len(fills) \in Nat /\ Len(states) \in Nat /\ Len(managements) \in Nat
  BY DEF LedgerInv, LedgerTypes
<1>2. /\ pages[r] = Unopened /\ pages' = [pages EXCEPT ![r] = page]
      /\ fills' = fills /\ states' = states /\ managements' = managements
  BY DEF Render
<1>3. page \in Pages /\ page.shown.fills = Len(fills) /\ page.shown.states = Len(states)
  BY <1>1 DEF Shown, Pages
<1> HIDE DEF page
<1>4. LedgerTypes'
  BY <1>2, <1>3 DEF LedgerInv, LedgerTypes
<1>5. \A q \in Requests : pages[q] # Unopened => pages'[q] = pages[q]
  BY <1>2 DEF LedgerInv, LedgerTypes
<1>6. ShownIsPast'
  <2> SUFFICES ASSUME NEW q \in Requests, pages'[q] # Unopened
      PROVE  pages'[q].shown.fills <= Len(fills) /\ pages'[q].shown.states <= Len(states)
    BY <1>2 DEF ShownIsPast
  <2>1. CASE q = r
    BY <1>1, <1>2, <1>3, <2>1 DEF LedgerInv, LedgerTypes
  <2>2. CASE q # r
    BY <1>2, <2>2 DEF LedgerInv, LedgerTypes, ShownIsPast
  <2> QED
    BY <2>1, <2>2
<1>7. FillsHavePages'
  <2> QED
    BY <1>2, <1>5, RowsAreTyped DEF LedgerInv, FillsHavePages
<1>8. StatesHavePages'
  <2> QED
    BY <1>2, <1>5, RowsAreTyped DEF LedgerInv, StatesHavePages
<1>9. ManagementsHavePages'
  <2> QED
    BY <1>2, <1>5, RowsAreTyped DEF LedgerInv, ManagementsHavePages
<1> QED
  BY <1>4, <1>6, <1>7, <1>8, <1>9 DEF LedgerInv

LEMMA OpenedPage ==
    ASSUME LedgerInv, NEW r \in Requests, pages[r] # Unopened
    PROVE  /\ pages[r] \in Pages /\ pages[r].position \in Positions
           /\ pages[r].shown.fills \in 0..Len(fills)
           /\ pages[r].shown.states \in 0..Len(states)
<1>1. pages[r] \in Pages
  BY DEF LedgerInv, LedgerTypes
<1>2. Len(fills) \in Nat /\ Len(states) \in Nat
  BY DEF LedgerInv, LedgerTypes
<1>3. pages[r].shown.fills <= Len(fills) /\ pages[r].shown.states <= Len(states)
  BY DEF LedgerInv, ShownIsPast
<1> QED
  BY <1>1, <1>2, <1>3 DEF Pages

\* A page that is submitted was opened.
LEMMA SubmittedPage ==
    ASSUME LedgerInv, NEW r \in Requests, pages[r].kind # "unopened"
    PROVE  /\ pages[r] # Unopened /\ pages[r] \in Pages /\ pages[r].position \in Positions
           /\ pages[r].shown.fills \in 0..Len(fills)
           /\ pages[r].shown.states \in 0..Len(states)
<1>1. pages[r] # Unopened
  BY DEF Unopened
<1> QED
  BY <1>1, OpenedPage

\* The row that Save writes names a page of its position.
LEMMA SavedFill ==
    ASSUME LedgerInv, NEW r \in Requests, NEW form \in FillForms, Save(r, form)
    PROVE  LET row == FillRow(r, form) IN
           /\ row \in FillRows /\ row.position = pages[r].position
           /\ pages[row.fill] # Unopened /\ pages[row.fill].position = row.position
           /\ fills' = Append(fills, row)
           /\ UNCHANGED <<pages, states, managements>>
<1> DEFINE page == pages[r]
<1> DEFINE row == FillRow(r, form)
<1>1. /\ page.kind \in {"create", "append", "revise"}
      /\ page.kind = "revise" => TargetIsCurrent(page)
      /\ fills' = Append(fills, row)
      /\ UNCHANGED <<pages, states, managements>>
  BY DEF Save
<1>2. page # Unopened /\ page \in Pages /\ page.position \in Positions
  BY <1>1, SubmittedPage
<1> DEFINE source == IF page.kind = "revise" THEN fills[page.target].fill ELSE r
<1>3. source \in Requests /\ pages[source] # Unopened /\ pages[source].position = page.position
  <2>1. CASE page.kind = "revise"
    <3>1. page.target \in 1..Len(fills) /\ fills[page.target].position = page.position
      BY <1>1, <2>1 DEF TargetIsCurrent, Latest, Of
    <3>2. source = fills[page.target].fill
      BY <2>1
    <3> QED
      BY <3>1, <3>2, RowsAreTyped DEF LedgerInv, FillsHavePages
  <2>2. CASE page.kind # "revise"
    BY <1>2, <2>2
  <2> QED
    BY <2>1, <2>2
<1>4. form \in [action : {"buy", "sell"}, units : Nat \ {0}, time : Nat, voided : BOOLEAN]
  BY FormsAssumption
<1>5. row = [position |-> page.position, request |-> r, fill |-> source, action |-> form.action,
             units |-> form.units, time |-> form.time, voided |-> form.voided]
  BY DEF FillRow
<1> HIDE DEF source, row
<1>6. row \in FillRows /\ row.position = page.position /\ row.fill = source
  BY <1>2, <1>3, <1>4, <1>5 DEF FillRows
<1> QED
  BY <1>1, <1>3, <1>6 DEF row

LEMMA SaveKeeps ==
    ASSUME LedgerInv, NEW r \in Requests, NEW form \in FillForms, Save(r, form)
    PROVE  LedgerInv'
<1> DEFINE row == FillRow(r, form)
<1>1. /\ row \in FillRows /\ pages[row.fill] # Unopened /\ pages[row.fill].position = row.position
      /\ fills' = Append(fills, row)
      /\ pages' = pages /\ states' = states /\ managements' = managements
  BY SavedFill
<1> HIDE DEF row
<1>2. fills \in Seq(FillRows) /\ Len(fills) \in Nat /\ Len(states) \in Nat
  BY DEF LedgerInv, LedgerTypes
<1>3. LedgerTypes'
  BY <1>1 DEF LedgerInv, LedgerTypes
<1>4. Len(fills') = Len(fills) + 1 /\ \A i \in 1..Len(fills) : fills'[i] = fills[i]
  BY <1>1, <1>2
<1>5. fills'[Len(fills) + 1] = row
  BY <1>1, <1>2
<1>6. ASSUME NEW q, NEW n \in 0..Len(fills)
      PROVE  Newest(fills', q, n) = Newest(fills, q, n)
  BY <1>1, <1>2, PastStays
<1>7. ShownIsPast'
  <2> SUFFICES ASSUME NEW q \in Requests, pages[q] # Unopened
      PROVE  pages[q].shown.fills <= Len(fills') /\ pages[q].shown.states <= Len(states)
    BY <1>1 DEF ShownIsPast
  <2>1. pages[q] \in Pages
    BY DEF LedgerInv, LedgerTypes
  <2>2. pages[q].shown.fills \in Nat
    BY <2>1 DEF Pages
  <2> QED
    BY <1>2, <1>4, <2>2 DEF LedgerInv, ShownIsPast
<1>8. FillsHavePages'
  <2> SUFFICES ASSUME NEW i \in 1..Len(fills')
      PROVE  pages[fills'[i].fill] # Unopened /\ pages[fills'[i].fill].position = fills'[i].position
    BY <1>1 DEF FillsHavePages
  <2>1. CASE i \in 1..Len(fills)
    BY <1>4, <2>1 DEF LedgerInv, FillsHavePages
  <2>2. CASE i = Len(fills) + 1
    BY <1>1, <1>5, <2>2
  <2> QED
    BY <1>2, <1>4, <2>1, <2>2
<1>9. StatesHavePages'
  <2> SUFFICES ASSUME NEW i \in 1..Len(states)
      PROVE  /\ pages[states[i].request] # Unopened
             /\ states[i].fills = Newest(fills', states[i].position, pages[states[i].request].shown.fills)
    BY <1>1 DEF StatesHavePages
  <2>1. states[i].request \in Requests
    BY RowsAreTyped
  <2>2. /\ pages[states[i].request] # Unopened
        /\ states[i].fills = Newest(fills, states[i].position, pages[states[i].request].shown.fills)
    BY DEF LedgerInv, StatesHavePages
  <2>3. pages[states[i].request].shown.fills \in 0..Len(fills)
    BY <2>1, <2>2, OpenedPage
  <2> QED
    BY <1>6, <2>2, <2>3
<1>10. ManagementsHavePages'
  <2> SUFFICES ASSUME NEW i \in 1..Len(managements)
      PROVE  LET m == managements[i] IN
             /\ pages[m.request] # Unopened
             /\ m.fills = Newest(fills', m.position, pages[m.request].shown.fills)
             /\ m.state = Newest(states, m.position, pages[m.request].shown.states)
    BY <1>1 DEF ManagementsHavePages
  <2> DEFINE m == managements[i]
  <2>1. m.request \in Requests
    BY RowsAreTyped
  <2>2. /\ pages[m.request] # Unopened
        /\ m.fills = Newest(fills, m.position, pages[m.request].shown.fills)
        /\ m.state = Newest(states, m.position, pages[m.request].shown.states)
    BY DEF LedgerInv, ManagementsHavePages
  <2>3. pages[m.request].shown.fills \in 0..Len(fills)
    BY <2>1, <2>2, OpenedPage
  <2> QED
    BY <1>6, <2>2, <2>3
<1> QED
  BY <1>3, <1>7, <1>8, <1>9, <1>10 DEF LedgerInv

LEMMA SaveStateKeeps ==
    ASSUME LedgerInv, NEW r \in Requests, NEW form \in StateForms, SaveState(r, form)
    PROVE  LedgerInv'
<1> DEFINE page == pages[r]
<1> DEFINE row == [position |-> page.position, request |-> r, fills |-> FillSequence(page.position),
                   stage |-> form.stage, stop |-> form.stop]
<1>1. /\ page.kind = "state" /\ StateIsAsShown(page)
      /\ states' = Append(states, row)
      /\ pages' = pages /\ fills' = fills /\ managements' = managements
  BY DEF SaveState
<1>2. /\ page # Unopened /\ page.position \in Positions
      /\ page.shown.fills \in 0..Len(fills)
  BY <1>1, SubmittedPage
<1>3. states \in Seq(StateRows) /\ Len(states) \in Nat /\ Len(fills) \in Nat
  BY DEF LedgerInv, LedgerTypes
<1>4. FillSequence(page.position) \in Nat
  BY <1>3, NewestRow DEF FillSequence
<1>5. form \in [stage : 0..MaxStage, stop : BOOLEAN]
  BY FormsAssumption
<1>6. row \in StateRows /\ row.request = r /\ row.position = page.position
      /\ row.fills = Newest(fills, page.position, page.shown.fills)
  BY <1>1, <1>2, <1>4, <1>5 DEF StateRows, StateIsAsShown
<1> HIDE DEF row
<1>7. Len(states') = Len(states) + 1 /\ \A i \in 1..Len(states) : states'[i] = states[i]
  BY <1>1, <1>3
<1>8. states'[Len(states) + 1] = row
  BY <1>1, <1>3
<1>9. LedgerTypes'
  BY <1>1, <1>6 DEF LedgerInv, LedgerTypes
<1>10. ShownIsPast'
  <2> SUFFICES ASSUME NEW q \in Requests, pages[q] # Unopened
      PROVE  pages[q].shown.fills <= Len(fills) /\ pages[q].shown.states <= Len(states')
    BY <1>1 DEF ShownIsPast
  <2>1. pages[q].shown.fills \in 0..Len(fills) /\ pages[q].shown.states \in 0..Len(states)
    BY OpenedPage
  <2> QED
    BY <1>3, <1>7, <2>1
<1>11. FillsHavePages'
  BY <1>1 DEF LedgerInv, FillsHavePages
<1>12. StatesHavePages'
  <2> SUFFICES ASSUME NEW i \in 1..Len(states')
      PROVE  /\ pages[states'[i].request] # Unopened
             /\ states'[i].fills = Newest(fills, states'[i].position, pages[states'[i].request].shown.fills)
    BY <1>1 DEF StatesHavePages
  <2>1. CASE i \in 1..Len(states)
    BY <1>7, <2>1 DEF LedgerInv, StatesHavePages
  <2>2. CASE i = Len(states) + 1
    BY <1>2, <1>6, <1>8, <2>2
  <2> QED
    BY <1>3, <1>7, <2>1, <2>2
<1>13. ManagementsHavePages'
  <2> SUFFICES ASSUME NEW i \in 1..Len(managements)
      PROVE  LET m == managements[i] IN
             /\ pages[m.request] # Unopened
             /\ m.fills = Newest(fills, m.position, pages[m.request].shown.fills)
             /\ m.state = Newest(states', m.position, pages[m.request].shown.states)
    BY <1>1 DEF ManagementsHavePages
  <2> DEFINE m == managements[i]
  <2>1. m.request \in Requests
    BY RowsAreTyped
  <2>2. /\ pages[m.request] # Unopened
        /\ m.fills = Newest(fills, m.position, pages[m.request].shown.fills)
        /\ m.state = Newest(states, m.position, pages[m.request].shown.states)
    BY DEF LedgerInv, ManagementsHavePages
  <2>3. pages[m.request].shown.states \in 0..Len(states)
    BY <2>1, <2>2, OpenedPage
  <2> HIDE DEF m
  <2>4. Newest(states', m.position, pages[m.request].shown.states)
          = Newest(states, m.position, pages[m.request].shown.states)
    BY <1>1, <1>3, <1>6, <2>3, PastStays
  <2> QED
    BY <2>2, <2>4 DEF m
<1> QED
  BY <1>9, <1>10, <1>11, <1>12, <1>13 DEF LedgerInv

LEMMA SaveManagementKeeps ==
    ASSUME LedgerInv, NEW r \in Requests, NEW known \in BOOLEAN,
           NEW stages \in StageForms(pages[r].position), SaveManagement(r, stages, known)
    PROVE  LedgerInv'
<1> DEFINE page == pages[r]
<1> DEFINE row == ManagementRow(r, stages, known)
<1>1. /\ page.kind = "management" /\ StateIsAsShown(page)
      /\ managements' = Append(managements, row)
      /\ pages' = pages /\ fills' = fills /\ states' = states
  BY DEF SaveManagement
<1>2. /\ page # Unopened /\ page.position \in Positions
      /\ page.shown.fills \in 0..Len(fills) /\ page.shown.states \in 0..Len(states)
  BY <1>1, SubmittedPage
<1>3. /\ managements \in Seq(ManagementRows) /\ Len(managements) \in Nat
      /\ Len(states) \in Nat /\ Len(fills) \in Nat
  BY DEF LedgerInv, LedgerTypes
<1>4. FillSequence(page.position) \in Nat /\ StateRevision(page.position) \in Nat
  BY <1>3, NewestRow DEF FillSequence, StateRevision
<1>5. Buys(page.position) \subseteq 1..Len(fills)
  BY DEF Buys, Active, Latest, Of
<1>6. stages \in UNION {[F -> 0..MaxStage] : F \in SUBSET Requests}
  <2>1. {fills[i].fill : i \in Buys(page.position)} \in SUBSET Requests
    BY <1>5, RowsAreTyped
  <2> QED
    BY <2>1, Zenon DEF StageForms
<1>7. Buys(page.position) \in SUBSET Nat
  BY <1>3, <1>5
<1>8. /\ row \in ManagementRows /\ row.request = r /\ row.position = page.position
      /\ row.fills = FillSequence(page.position) /\ row.state = StateRevision(page.position)
  BY <1>2, <1>4, <1>6, <1>7 DEF ManagementRow, ManagementRows
<1> HIDE DEF row
<1>9. /\ row.fills = Newest(fills, page.position, page.shown.fills)
      /\ row.state = Newest(states, page.position, page.shown.states)
  BY <1>1, <1>8 DEF StateIsAsShown
<1>10. /\ Len(managements') = Len(managements) + 1
       /\ \A i \in 1..Len(managements) : managements'[i] = managements[i]
       /\ managements'[Len(managements) + 1] = row
  BY <1>1, <1>3
<1>11. LedgerTypes'
  BY <1>1, <1>8 DEF LedgerInv, LedgerTypes
<1>12. ShownIsPast' /\ FillsHavePages'
  BY <1>1 DEF LedgerInv, ShownIsPast, FillsHavePages
<1>13. StatesHavePages'
  BY <1>1 DEF LedgerInv, StatesHavePages, Newest, Of
<1>14. ManagementsHavePages'
  <2> SUFFICES ASSUME NEW i \in 1..Len(managements')
      PROVE  LET m == managements'[i] IN
             /\ pages[m.request] # Unopened
             /\ m.fills = Newest(fills, m.position, pages[m.request].shown.fills)
             /\ m.state = Newest(states, m.position, pages[m.request].shown.states)
    BY <1>1 DEF ManagementsHavePages
  <2>1. CASE i \in 1..Len(managements)
    BY <1>10, <2>1 DEF LedgerInv, ManagementsHavePages
  <2>2. CASE i = Len(managements) + 1
    BY <1>2, <1>8, <1>9, <1>10, <2>2
  <2> QED
    BY <1>3, <1>10, <2>1, <2>2
<1> QED
  BY <1>11, <1>12, <1>13, <1>14 DEF LedgerInv

LEMMA NextKeepsLedger == LedgerInv /\ [LedgerNext]_ledger => LedgerInv'
<1> SUFFICES ASSUME LedgerInv, [LedgerNext]_ledger PROVE LedgerInv'
  OBVIOUS
<1>1. ASSUME NEW r \in Requests, NEW p \in Positions,
             OpenCreate(r, p) \/ OpenAppend(r, p) \/ OpenState(r, p) \/ OpenManagement(r, p)
      PROVE  LedgerInv'
  BY <1>1, RenderKeeps DEF OpenCreate, OpenAppend, OpenState, OpenManagement
<1>2. ASSUME NEW r \in Requests, NEW p \in Positions, OpenRevise(r, p)
      PROVE  LedgerInv'
  <2>1. PICK i \in Latest(p, Len(fills)) : Render(r, "revise", p, i)
    BY <1>2 DEF OpenRevise
  <2>2. i \in Nat
    BY DEF Latest, Of, LedgerInv, LedgerTypes
  <2> QED
    BY <2>1, <2>2, RenderKeeps
<1>3. ASSUME NEW r \in Requests, NEW form \in FillForms, Save(r, form) PROVE LedgerInv'
  BY <1>3, SaveKeeps
<1>4. ASSUME NEW r \in Requests, NEW form \in StateForms, SaveState(r, form) PROVE LedgerInv'
  BY <1>4, SaveStateKeeps
<1>5. ASSUME NEW r \in Requests, NEW stages \in StageForms(pages[r].position),
             NEW known \in BOOLEAN, SaveManagement(r, stages, known)
      PROVE  LedgerInv'
  BY <1>5, SaveManagementKeeps
<1>6. CASE UNCHANGED ledger
  <2>1. pages' = pages /\ fills' = fills /\ states' = states /\ managements' = managements
    BY <1>6 DEF ledger
  <2>2. LedgerTypes' /\ ShownIsPast' /\ FillsHavePages'
    BY <2>1 DEF LedgerInv, LedgerTypes, ShownIsPast, FillsHavePages
  <2>3. StatesHavePages'
    BY <2>1 DEF LedgerInv, StatesHavePages
  <2>4. ManagementsHavePages'
    BY <2>1 DEF LedgerInv, ManagementsHavePages
  <2> QED
    BY <2>2, <2>3, <2>4 DEF LedgerInv
<1> QED
  BY <1>1, <1>2, <1>3, <1>4, <1>5, <1>6 DEF LedgerNext

LEMMA LedgerInvariant == LedgerSpec => []LedgerInv
  BY InitLedger, NextKeepsLedger, PTL DEF LedgerSpec

\* A position is reviewed only while it is what the two confirmations showed:
\* a later fill or state makes them stale, whichever pages were open and
\* however often they were submitted (management_checks).
THEOREM LedgerReviewedAsShown == LedgerSpec => []ReviewedAsShown
  BY LedgerInvariant, ReviewIsAsShown, PTL

-----------------------------------------------------------------------------
(***************************************************************************)
(* What counts are the saved forms that no form was written to correct.    *)
(* This needs to know that a fill is named after a saved form, so that a   *)
(* new fill is never taken for a revision of an old one, and that a page   *)
(* was rendered for a version that existed.                                *)
(***************************************************************************)

PagesAreFor ==
    \A r \in Requests :
        pages[r] # Unopened =>
            /\ pages[r].target \in 0..Len(fills)
            /\ pages[r].kind = "revise" <=> pages[r].target # 0

FillsAreForms ==
    \A i \in 1..Len(fills) :
        /\ fills[i].request \in Requests
        /\ pages[fills[i].request] # Unopened
        /\ \E k \in 1..Len(fills) : fills[i].fill = fills[k].request

FormsInv == PagesAreFor /\ FillsAreForms /\ FormsCountOnce

LEMMA InitForms == LedgerInit => FormsInv
  BY DEF LedgerInit, FormsInv, PagesAreFor, FillsAreForms, FormsCountOnce, Latest, Of

LEMMA RenderKeepsForms ==
    ASSUME LedgerInv, FormsInv, NEW r \in Requests, NEW p \in Positions, NEW target \in 0..Len(fills),
           NEW kind \in {"create", "append", "revise", "state", "management"},
           kind = "revise" <=> target # 0, Render(r, kind, p, target)
    PROVE  FormsInv'
<1> DEFINE page == [kind |-> kind, position |-> p, target |-> target, shown |-> Shown]
<1>1. /\ pages[r] = Unopened /\ pages' = [pages EXCEPT ![r] = page] /\ fills' = fills
      /\ DOMAIN pages = Requests
  BY DEF Render, LedgerInv, LedgerTypes
<1>2. page.target = target /\ page.kind = kind
  OBVIOUS
<1> HIDE DEF page
<1>3. pages'[r] = page /\ \A q \in Requests : q # r => pages'[q] = pages[q]
  BY <1>1
<1>4. PagesAreFor'
  BY <1>1, <1>2, <1>3 DEF FormsInv, PagesAreFor
<1>5. \A i \in 1..Len(fills) : /\ fills[i].request \in Requests
                                /\ pages[fills[i].request] # Unopened
                                /\ pages'[fills[i].request] = pages[fills[i].request]
  BY <1>1, <1>3 DEF FormsInv, FillsAreForms
<1>6. FillsAreForms'
  BY <1>1, <1>5 DEF FormsInv, FillsAreForms
<1>7. \A i : Replaced(i)' = Replaced(i)
  BY <1>1, <1>5 DEF Replaced
<1>8. \A q \in Positions : Latest(q, Len(fills))' = {i \in Of(fills', q, Len(fills')) : ~Replaced(i)'}
  BY <1>1, <1>7 DEF FormsInv, FormsCountOnce, Latest, Of
<1>9. FormsCountOnce'
  BY <1>1, <1>5, <1>8 DEF FormsInv, FormsCountOnce
<1> QED
  BY <1>4, <1>6, <1>9 DEF FormsInv

\* The row that Save writes takes the version its page was rendered for out of
\* the count, and no other one.
LEMMA SaveReplaces ==
    ASSUME LedgerInv, FormsInv, NEW r \in Requests, NEW form \in FillForms, Save(r, form),
           NEW q \in Positions, NEW i \in Latest(q, Len(fills))
    PROVE  fills[i].fill = FillRow(r, form).fill <=> i = pages[r].target
<1> DEFINE page == pages[r]
<1>1. /\ page.kind \in {"create", "append", "revise"} /\ ~Saved(fills, r)
      /\ page.kind = "revise" => page.target \in Latest(page.position, Len(fills))
  BY DEF Save, TargetIsCurrent
<1>2. i \in 1..Len(fills) /\ \A j \in i + 1..Len(fills) : fills[j].fill # fills[i].fill
  BY DEF Latest, Of
<1>3. Len(fills) \in Nat
  BY DEF LedgerInv, LedgerTypes
<1>4. FillRow(r, form).fill = IF page.kind = "revise" THEN fills[page.target].fill ELSE r
  BY DEF FillRow
<1>5. CASE page.kind = "revise"
  <2>1. /\ page.target \in 1..Len(fills)
        /\ \A j \in page.target + 1..Len(fills) : fills[j].fill # fills[page.target].fill
    BY <1>1, <1>5 DEF Latest, Of
  <2>2. FillRow(r, form).fill = fills[page.target].fill
    BY <1>4, <1>5
  <2>3. ASSUME fills[i].fill = fills[page.target].fill PROVE i = page.target
    BY <1>2, <1>3, <2>1, <2>3
  <2> QED
    BY <2>2, <2>3
<1>6. CASE page.kind # "revise"
  <2>1. page # Unopened
    BY <1>1 DEF Unopened
  <2>2. page.target = 0
    BY <1>6, <2>1 DEF FormsInv, PagesAreFor
  <2>3. PICK k \in 1..Len(fills) : fills[i].fill = fills[k].request
    BY <1>2 DEF FormsInv, FillsAreForms
  <2>4. fills[i].fill # r
    BY <1>1, <2>3 DEF Saved
  <2>5. FillRow(r, form).fill = r
    BY <1>4, <1>6
  <2>6. i # 0
    BY <1>2, <1>3
  <2> QED
    BY <2>2, <2>4, <2>5, <2>6
<1> QED
  BY <1>5, <1>6

LEMMA SaveKeepsForms ==
    ASSUME LedgerInv, FormsInv, NEW r \in Requests, NEW form \in FillForms, Save(r, form)
    PROVE  FormsInv'
<1> DEFINE page == pages[r]
<1> DEFINE row == FillRow(r, form)
<1> DEFINE N == Len(fills)
<1>1. /\ row \in FillRows /\ row.position = page.position /\ fills' = Append(fills, row)
      /\ pages' = pages
  BY SavedFill
<1>2. row.request = r /\ row.fill = IF page.kind = "revise" THEN fills[page.target].fill ELSE r
  BY DEF FillRow
<1>3. \A q \in Positions : \A i \in Latest(q, N) : fills[i].fill = row.fill <=> i = page.target
  BY SaveReplaces
<1> HIDE DEF row
<1>4. /\ page.kind \in {"create", "append", "revise"} /\ ~Saved(fills, r)
      /\ page.kind = "revise" => page.target \in Latest(page.position, N)
  BY DEF Save, TargetIsCurrent
<1>5. page # Unopened /\ page.position \in Positions
  BY <1>4, SubmittedPage
<1>6. page.target \in 0..N /\ (page.kind = "revise" <=> page.target # 0)
  BY <1>5 DEF FormsInv, PagesAreFor
<1>7. fills \in Seq(FillRows) /\ N \in Nat
  BY DEF LedgerInv, LedgerTypes
<1>8. /\ Len(fills') = N + 1 /\ fills'[N + 1] = row
      /\ \A i \in 1..N : fills'[i] = fills[i]
      /\ 1..N + 1 = 1..N \union {N + 1}
  BY <1>1, <1>7
<1>17. pages' = pages /\ row.position = page.position
  BY <1>1
<1>18. Len(fills') = N + 1 /\ N + 1 \in 1..N + 1
  BY <1>7, <1>8
<1> HIDE DEF N
<1>9. PagesAreFor'
  <2>1. \A n \in 0..N : n \in 0..N + 1
    BY <1>7
  <2> QED
    BY <1>1, <1>8, <2>1 DEF FormsInv, PagesAreFor, N
<1>10. \A i \in 1..N : pages[fills[i].request].target \in 0..N /\ fills[i].request # r
  BY <1>4 DEF FormsInv, PagesAreFor, FillsAreForms, Saved, N
<1>11. FillsAreForms'
  <2> SUFFICES ASSUME NEW i \in 1..N + 1
      PROVE  /\ fills'[i].request \in Requests
             /\ pages[fills'[i].request] # Unopened
             /\ \E k \in 1..N + 1 : fills'[i].fill = fills'[k].request
    BY <1>17, <1>18 DEF FillsAreForms
  <2>1. CASE i \in 1..N
    <3>1. fills'[i] = fills[i]
      BY <1>8, <2>1
    <3>2. /\ fills[i].request \in Requests /\ pages[fills[i].request] # Unopened
          /\ \E k \in 1..N : fills[i].fill = fills[k].request
      BY <2>1 DEF FormsInv, FillsAreForms, N
    <3> QED
      BY <1>8, <3>1, <3>2
  <2>2. CASE i = N + 1
    <3>1. fills'[i] = row
      BY <1>8, <2>2
    <3>2. CASE page.kind = "revise"
      <4>1. page.target \in 1..N
        BY <1>4, <3>2 DEF Latest, Of
      <4>2. PICK k \in 1..N : fills[page.target].fill = fills[k].request
        BY <4>1 DEF FormsInv, FillsAreForms, N
      <4> QED
        BY <1>2, <1>5, <1>8, <3>1, <3>2, <4>2
    <3>3. CASE page.kind # "revise"
      BY <1>2, <1>5, <1>8, <2>2, <3>1, <3>3
    <3> QED
      BY <3>2, <3>3
  <2> QED
    BY <1>8, <2>1, <2>2
<1>12. \A i : Replaced(i)' <=> Replaced(i) \/ i = page.target
  BY <1>2, <1>8, <1>17 DEF Replaced, N
<1>13. \A q \in Positions : Latest(q, N) = {i \in Of(fills, q, N) : ~Replaced(i)}
  BY DEF FormsInv, FormsCountOnce, N
<1>14. ASSUME NEW q \in Positions
       PROVE  Latest(q, Len(fills))' = {i \in Of(fills', q, Len(fills')) : ~Replaced(i)'}
  <2>1. ASSUME NEW i \in 1..N PROVE (i \in Latest(q, Len(fills))') <=> (i \in Latest(q, N) /\ fills[i].fill # row.fill)
    <3>1. i + 1..N + 1 = (i + 1..N) \union {N + 1} /\ \A j \in i + 1..N : j \in 1..N
      BY <1>7
    <3>2. (\A j \in i + 1..N + 1 : fills'[j].fill # fills'[i].fill)
             <=> (\A j \in i + 1..N : fills[j].fill # fills[i].fill) /\ fills[i].fill # row.fill
      BY <1>8, <3>1
    <3>3. i \in Of(fills', q, N + 1) <=> i \in Of(fills, q, N)
      BY <1>8 DEF Of
    <3> QED
      BY <1>8, <3>2, <3>3 DEF Latest
  <2>2. ASSUME NEW i \in 1..N
        PROVE  (i \in Of(fills', q, N + 1) /\ ~Replaced(i)') <=> (i \in Latest(q, N) /\ i # page.target)
    BY <1>8, <1>12, <1>13 DEF Of
  <2>3. \A i \in Latest(q, N) : fills[i].fill = row.fill <=> i = page.target
    BY <1>3
  <2>4. PICK n : n = N + 1
    OBVIOUS
  <2>5. n \in Latest(q, Len(fills))' <=> q = page.position
    <3>1. n + 1..n = {}
      BY <1>7, <2>4
    <3>2. fills'[n] = row /\ Len(fills') = n /\ n \in 1..n
      BY <1>8, <1>18, <2>4
    <3> QED
      BY <1>17, <3>1, <3>2 DEF Latest, Of
  <2>6. ~Replaced(n)'
    <3>1. n \notin 0..N
      BY <1>7, <2>4
    <3>2. ~Replaced(n)
      BY <1>10, <3>1 DEF Replaced, N
    <3> QED
      BY <1>6, <1>12, <3>1, <3>2
  <2>7. n \in Of(fills', q, N + 1) <=> q = page.position
    BY <1>8, <1>17, <1>18, <2>4 DEF Of
  <2>8. Latest(q, Len(fills))' \subseteq 1..N + 1 /\ Of(fills', q, N + 1) \subseteq 1..N + 1
    BY <1>18 DEF Latest, Of
  <2>9. ASSUME NEW i \in 1..N + 1
        PROVE  i \in Latest(q, Len(fills))' <=> i \in Of(fills', q, N + 1) /\ ~Replaced(i)'
    <3>1. CASE i \in 1..N
      BY <2>1, <2>2, <2>3, <3>1
    <3>2. CASE i = n
      BY <2>5, <2>6, <2>7, <3>2
    <3> QED
      BY <1>8, <2>4, <3>1, <3>2
  <2> QED
    BY <1>18, <2>8, <2>9
<1>15. ASSUME NEW i \in 1..N + 1, NEW j \in 1..N + 1, i # j
       PROVE  /\ fills'[i].request # fills'[j].request
              /\ pages[fills'[i].request].kind = "revise"
                     => pages[fills'[i].request].target # pages[fills'[j].request].target
  <2>1. CASE i \in 1..N /\ j \in 1..N
    BY <1>8, <1>15, <2>1 DEF FormsInv, FormsCountOnce, N
  <2>2. page.kind = "revise" => \A k \in 1..N : pages[fills[k].request].target # page.target
    BY <1>4, <1>5, <1>13 DEF Replaced, N
  <2>3. CASE i = N + 1 /\ j \in 1..N
    BY <1>2, <1>8, <1>10, <2>2, <2>3
  <2>4. CASE i \in 1..N /\ j = N + 1
    <3>1. fills'[i] = fills[i] /\ fills'[j] = row /\ row.request = r /\ fills[i].request # r
      BY <1>2, <1>8, <1>10, <2>4
    <3>2. pages[fills[i].request].kind = "revise" <=> pages[fills[i].request].target # 0
      BY <2>4 DEF FormsInv, PagesAreFor, FillsAreForms, N
    <3>3. page.kind # "revise" => page.target = 0
      BY <1>6
    <3> QED
      BY <2>2, <2>4, <3>1, <3>2, <3>3
  <2> QED
    BY <1>8, <1>15, <2>1, <2>3, <2>4
<1>16. FormsCountOnce'
  BY <1>8, <1>14, <1>15, <1>17 DEF FormsCountOnce
<1> QED
  BY <1>9, <1>11, <1>16 DEF FormsInv

LEMMA NextKeepsForms == LedgerInv /\ FormsInv /\ [LedgerNext]_ledger => FormsInv'
<1> SUFFICES ASSUME LedgerInv, FormsInv, [LedgerNext]_ledger PROVE FormsInv'
  OBVIOUS
<1>1. Len(fills) \in Nat
  BY DEF LedgerInv, LedgerTypes
<1>2. ASSUME NEW r \in Requests, NEW p \in Positions,
             OpenCreate(r, p) \/ OpenAppend(r, p) \/ OpenState(r, p) \/ OpenManagement(r, p)
      PROVE  FormsInv'
  <2>1. 0 \in 0..Len(fills)
    BY <1>1
  <2> QED
    BY <1>2, <2>1, RenderKeepsForms DEF OpenCreate, OpenAppend, OpenState, OpenManagement
<1>3. ASSUME NEW r \in Requests, NEW p \in Positions, OpenRevise(r, p)
      PROVE  FormsInv'
  <2>1. PICK i \in Latest(p, Len(fills)) : Render(r, "revise", p, i)
    BY <1>3 DEF OpenRevise
  <2>2. i \in 0..Len(fills) /\ i # 0
    BY <1>1 DEF Latest, Of
  <2> QED
    BY <2>1, <2>2, RenderKeepsForms
<1>4. ASSUME NEW r \in Requests, NEW form \in FillForms, Save(r, form) PROVE FormsInv'
  BY <1>4, SaveKeepsForms
<1>5. CASE pages' = pages /\ fills' = fills
  <2>1. PagesAreFor' /\ FillsAreForms'
    BY <1>5 DEF FormsInv, PagesAreFor, FillsAreForms
  <2>2. FormsCountOnce'
    BY <1>5 DEF FormsInv, FormsCountOnce, Replaced, Latest, Of
  <2> QED
    BY <2>1, <2>2 DEF FormsInv
<1>6. \/ \E r \in Requests, p \in Positions :
             \/ OpenCreate(r, p) \/ OpenAppend(r, p) \/ OpenState(r, p) \/ OpenManagement(r, p)
             \/ OpenRevise(r, p)
      \/ \E r \in Requests, form \in FillForms : Save(r, form)
      \/ pages' = pages /\ fills' = fills
  BY DEF LedgerNext, ledger, SaveState, SaveManagement
<1> QED
  BY <1>2, <1>3, <1>4, <1>5, <1>6

\* For any positions, forms and tabs: a form that is sent again counts once,
\* and of two corrections of the same version only one is ever saved, so every
\* saved form counts until the one form written to correct it is saved (save).
THEOREM LedgerFormsCountOnce == LedgerSpec => []FormsCountOnce
<1>1. FormsInv => FormsCountOnce
  BY DEF FormsInv
<1> QED
  BY <1>1, InitForms, NextKeepsForms, LedgerInvariant, PTL DEF LedgerSpec

-----------------------------------------------------------------------------
(***************************************************************************)
(* Whatever a resolver hands out was approved by an independent reviewer   *)
(* in the words he submitted, for any users, commits and data, any number  *)
(* of reviews, edits and releases.                                         *)
(***************************************************************************)

ReviewShape(verdict) ==
    verdict = [id |-> verdict.id, user |-> verdict.user, state |-> verdict.state,
              body |-> verdict.body, edited |-> verdict.edited]

\* An approval that nobody edited says what its reviewer submitted.
ReviewsAreSpoken ==
    \A verdict \in reviews :
        /\ ReviewShape(verdict)
        /\ verdict.state = "APPROVED" /\ ~ verdict.edited =>
              \E said \in spoken : said.user = verdict.user /\ said.body = verdict.body

SnapshotShape(s) ==
    s = [reviewer |-> s.reviewer, author |-> s.author, mode |-> s.mode, decision |-> s.decision,
         statement |-> s.statement, candidate_fingerprint |-> s.candidate_fingerprint,
         commit |-> s.commit, snapshot_sha256 |-> s.snapshot_sha256]

\* The evidence in a release: its digest, and the review it was taken from.
SnapshotReviewed(s) ==
    /\ SnapshotShape(s)
    /\ s.snapshot_sha256 = SnapshotDigest(s)
    /\ IsIndependent(s.reviewer, s.commit, s.mode)
    /\ \E said \in spoken :
          said.user = s.reviewer /\ said.body = <<s.candidate_fingerprint, s.commit>>

ReleaseReviewed(r) ==
    /\ r = NewRelease(r.candidate, Approval(r.approval.review_snapshot))
    /\ SnapshotReviewed(r.approval.review_snapshot)

\* A promotion has a candidate until it has a release to publish.
PromotionReviewed ==
    \/ promotion.step = "none"
    \/ /\ promotion.step \in {"pull", "review"}
       /\ promotion = [step |-> promotion.step, candidate |-> promotion.candidate,
                       id |-> promotion.id, mode |-> promotion.mode]
    \/ promotion.step = "publish" /\ ReleaseReviewed(promotion.release)

ReleasesReviewed ==
    \A file \in releases :
        file = [name |-> file.name, content |-> file.content] /\ ReleaseReviewed(file.content)

ReleasesInv == ReviewsAreSpoken /\ PromotionReviewed /\ ReleasesReviewed

-----------------------------------------------------------------------------

\* What was reviewed stays reviewed while more is said.
LEMMA ReviewedStays ==
    ASSUME spoken \subseteq spoken', NEW r
    PROVE  ReleaseReviewed(r) => ReleaseReviewed(r)'
  BY DEF ReleaseReviewed, SnapshotReviewed

\* The release that FetchReview prepares holds the review that it judged.
LEMMA NewReleaseReviewed ==
    ASSUME ReviewsAreSpoken, NEW verdict \in reviews, NEW candidate, NEW mode, NEW author,
           Approves(verdict, candidate, mode)
    PROVE  ReleaseReviewed(NewRelease(candidate, Approval(Snapshot(verdict, candidate, mode,
                                                                    author))))
  <1> DEFINE s == Snapshot(verdict, candidate, mode, author)
             r == NewRelease(candidate, Approval(s))
  <1>1. SnapshotReviewed(s)
    <2>1. /\ s.reviewer = verdict.user /\ s.mode = mode /\ s.commit = candidate.commit
          /\ s.candidate_fingerprint = candidate.candidate_fingerprint
          /\ SnapshotShape(s) /\ s.snapshot_sha256 = SnapshotDigest(s)
      <3> DEFINE base == [reviewer |-> verdict.user, author |-> author, mode |-> mode,
                          decision |-> "approved", statement |-> verdict.body,
                          candidate_fingerprint |-> candidate.candidate_fingerprint,
                          commit |-> candidate.commit, snapshot_sha256 |-> <<>>]
      <3>1. [base EXCEPT !.snapshot_sha256 = <<>>] = base
        OBVIOUS
      <3>2. s = [base EXCEPT !.snapshot_sha256 = base]
        BY <3>1 DEF Snapshot, SnapshotDigest
      <3>3. \A d : LET x == [base EXCEPT !.snapshot_sha256 = d] IN
               /\ SnapshotShape(x) /\ x.snapshot_sha256 = d
               /\ [x EXCEPT !.snapshot_sha256 = <<>>] = base
               /\ x.reviewer = verdict.user /\ x.mode = mode /\ x.commit = candidate.commit
               /\ x.candidate_fingerprint = candidate.candidate_fingerprint
        <4> SUFFICES ASSUME NEW d
                     PROVE  LET x == [base EXCEPT !.snapshot_sha256 = d] IN
               /\ SnapshotShape(x) /\ x.snapshot_sha256 = d
               /\ [x EXCEPT !.snapshot_sha256 = <<>>] = base
               /\ x.reviewer = verdict.user /\ x.mode = mode /\ x.commit = candidate.commit
               /\ x.candidate_fingerprint = candidate.candidate_fingerprint
          OBVIOUS
        <4> DEFINE x == [base EXCEPT !.snapshot_sha256 = d]
        <4>1. x = [reviewer |-> verdict.user, author |-> author, mode |-> mode,
                   decision |-> "approved", statement |-> verdict.body,
                   candidate_fingerprint |-> candidate.candidate_fingerprint,
                   commit |-> candidate.commit, snapshot_sha256 |-> d]
          OBVIOUS
        <4>2. [x EXCEPT !.snapshot_sha256 = <<>>] = base
          <5>1. [[reviewer |-> verdict.user, author |-> author, mode |-> mode,
                   decision |-> "approved", statement |-> verdict.body,
                   candidate_fingerprint |-> candidate.candidate_fingerprint,
                   commit |-> candidate.commit, snapshot_sha256 |-> d]
                     EXCEPT !.snapshot_sha256 = <<>>] = base
            OBVIOUS
          <5> HIDE DEF x, base
          <5> QED
            BY <4>1, <5>1, Zenon
        <4> HIDE DEF x, base
        <4>3. SnapshotShape(x) /\ x.snapshot_sha256 = d
          BY <4>1 DEF SnapshotShape
        <4>4. /\ x.reviewer = verdict.user /\ x.mode = mode /\ x.commit = candidate.commit
              /\ x.candidate_fingerprint = candidate.candidate_fingerprint
          BY <4>1
        <4> QED
          BY <4>2, <4>3, <4>4 DEF x
      <3> HIDE DEF base, s
      <3> QED
        BY <3>2, <3>3 DEF SnapshotDigest
    <2>2. \E said \in spoken : said.user = verdict.user /\ said.body = Statement(candidate)
      BY DEF ReviewsAreSpoken, Approves
    <2> HIDE DEF s
    <2> QED
      BY <2>1, <2>2 DEF SnapshotReviewed, Approves, Statement, IsIndependent
  <1> HIDE DEF s
  <1>2. r.candidate = candidate /\ r.approval = Approval(s) /\ r.approval.review_snapshot = s
    BY DEF NewRelease, Approval
  <1> QED
    BY <1>1, <1>2 DEF ReleaseReviewed, s

LEMMA Edited ==
    ASSUME NEW verdict, ReviewShape(verdict), NEW words
    PROVE  LET changed == [verdict EXCEPT !.body = words, !.edited = TRUE]
           IN  ReviewShape(changed) /\ changed.edited
  <1> DEFINE x == [verdict EXCEPT !.body = words]
  <1>1. x = [id |-> verdict.id, user |-> verdict.user, state |-> verdict.state, body |-> words,
             edited |-> verdict.edited]
    BY DEF ReviewShape
  <1> HIDE DEF x
  <1>2. [x EXCEPT !.edited = TRUE]
           = [id |-> verdict.id, user |-> verdict.user, state |-> verdict.state, body |-> words,
              edited |-> TRUE]
    <2>1. \A t : [[id |-> verdict.id, user |-> verdict.user, state |-> verdict.state,
                   body |-> words, edited |-> verdict.edited] EXCEPT !.edited = t]
                   = [id |-> verdict.id, user |-> verdict.user, state |-> verdict.state,
                      body |-> words, edited |-> t]
      OBVIOUS
    <2> QED
      BY <1>1, <2>1, Zenon
  <1>3. [verdict EXCEPT !.body = words, !.edited = TRUE] = [x EXCEPT !.edited = TRUE]
    BY DEF x
  <1> QED
    BY <1>2, <1>3 DEF ReviewShape

\* Reviews come and change.
LEMMA ReviewStep ==
    ASSUME ReviewsAreSpoken,
           \/ \E id \in ReviewIds, user \in Users, state \in {"APPROVED", "COMMENTED"},
                 c \in candidates : SubmitReview(id, user, state, Statement(c))
           \/ \E verdict \in reviews :
                 \/ \E c \in candidates : EditReview(verdict, Statement(c))
                 \/ DismissReview(verdict)
                 \/ DeleteReview(verdict)
    PROVE  ReviewsAreSpoken' /\ spoken \subseteq spoken' /\ UNCHANGED <<promotion, releases>>
  <1>1. ASSUME NEW id, NEW user, NEW state, NEW statement,
               SubmitReview(id, user, state, statement)
        PROVE  ReviewsAreSpoken' /\ spoken \subseteq spoken' /\ UNCHANGED <<promotion, releases>>
    <2> DEFINE new == [id |-> id, user |-> user, state |-> state, body |-> statement,
                       edited |-> FALSE]
               said == [id |-> id, user |-> user, body |-> statement]
    <2>1. /\ ReviewShape(new) /\ new.state = state /\ new.user = user /\ new.body = statement
          /\ said.user = user /\ said.body = statement
      BY DEF ReviewShape
    <2>2. /\ reviews' = reviews \union {new}
          /\ spoken' = IF state # "APPROVED" THEN spoken ELSE spoken \union {said}
          /\ UNCHANGED <<promotion, releases>>
      BY <1>1 DEF SubmitReview
    <2> HIDE DEF new, said
    <2>3. state = "APPROVED" => said \in spoken'
      BY <2>2
    <2>4. ReviewsAreSpoken'
      <3> SUFFICES ASSUME NEW x \in reviews'
                   PROVE  /\ ReviewShape(x)
                          /\ x.state = "APPROVED" /\ ~ x.edited =>
                                \E y \in spoken' : y.user = x.user /\ y.body = x.body
        BY DEF ReviewsAreSpoken
      <3>1. CASE x = new
        BY <2>1, <2>3, <3>1
      <3>2. CASE x \in reviews
        BY <2>2, <3>2 DEF ReviewsAreSpoken
      <3> QED
        BY <2>2, <3>1, <3>2
    <2> QED
      BY <2>2, <2>4
  <1>2. ASSUME NEW verdict \in reviews, NEW changed,
               changed # verdict => ReviewShape(changed)
                                   /\ (changed.edited \/ changed.state # "APPROVED"),
               ChangeReview(verdict, {changed})
        PROVE  ReviewsAreSpoken' /\ spoken \subseteq spoken' /\ UNCHANGED <<promotion, releases>>
    BY <1>2 DEF ReviewsAreSpoken, ChangeReview
  <1>3. ASSUME NEW verdict \in reviews, DeleteReview(verdict)
        PROVE  ReviewsAreSpoken' /\ spoken \subseteq spoken' /\ UNCHANGED <<promotion, releases>>
    BY <1>3 DEF ReviewsAreSpoken, DeleteReview, ChangeReview
  <1>4. ASSUME NEW verdict \in reviews, NEW c, EditReview(verdict, Statement(c))
        PROVE  ReviewsAreSpoken' /\ spoken \subseteq spoken' /\ UNCHANGED <<promotion, releases>>
    <2> DEFINE words == Statement(c)
               changed == [verdict EXCEPT !.body = words, !.edited = TRUE]
    <2> HIDE DEF words
    <2>1. ReviewShape(verdict)
      BY DEF ReviewsAreSpoken
    <2>2. ReviewShape(changed) /\ changed.edited
      BY <2>1, Edited
    <2>3. ChangeReview(verdict, {changed})
      BY <1>4 DEF EditReview, words
    <2> HIDE DEF changed
    <2> QED
      BY <1>2, <2>2, <2>3
  <1>5. ASSUME NEW verdict \in reviews, DismissReview(verdict)
        PROVE  ReviewsAreSpoken' /\ spoken \subseteq spoken' /\ UNCHANGED <<promotion, releases>>
    <2> DEFINE changed == [verdict EXCEPT !.state = "DISMISSED"]
    <2>1. ReviewShape(verdict)
      BY DEF ReviewsAreSpoken
    <2>2. ReviewShape(changed) /\ changed.state # "APPROVED"
      BY <2>1 DEF ReviewShape
    <2>3. ChangeReview(verdict, {changed})
      BY <1>5 DEF DismissReview
    <2> HIDE DEF changed
    <2> QED
      BY <1>2, <2>2, <2>3
  <1> QED
    BY <1>1, <1>3, <1>4, <1>5

LEMMA ReleasesStep == ReleasesInv /\ [ReleasesNext]_releasing => ReleasesInv'
  <1> SUFFICES ASSUME ReleasesInv, [ReleasesNext]_releasing
               PROVE  ReleasesInv'
    OBVIOUS
  <1>1. ASSUME spoken \subseteq spoken', UNCHANGED promotion
        PROVE  PromotionReviewed'
    BY <1>1, ReviewedStays DEF ReleasesInv, PromotionReviewed
  <1>2. ASSUME spoken \subseteq spoken', UNCHANGED releases
        PROVE  ReleasesReviewed'
    BY <1>2, ReviewedStays DEF ReleasesInv, ReleasesReviewed
  <1>3. ASSUME UNCHANGED scm
        PROVE  ReviewsAreSpoken' /\ spoken' = spoken
    BY <1>3 DEF ReleasesInv, ReviewsAreSpoken, scm
  <1>4. CASE \/ \E id \in ReviewIds, user \in Users, state \in {"APPROVED", "COMMENTED"},
                   c \in candidates : SubmitReview(id, user, state, Statement(c))
             \/ \E verdict \in reviews :
                   \/ \E c \in candidates : EditReview(verdict, Statement(c))
                   \/ DismissReview(verdict)
                   \/ DeleteReview(verdict)
    <2>1. ReviewsAreSpoken' /\ spoken \subseteq spoken' /\ UNCHANGED <<promotion, releases>>
      BY <1>4, ReviewStep DEF ReleasesInv
    <2> QED
      BY <1>1, <1>2, <2>1 DEF ReleasesInv
  <1>5. CASE \/ \E git \in [head : Commits, clean : BOOLEAN], commit \in Commits,
                   generation \in Generations, windows \in Windowings, outcome \in Outcomes :
                   BuildCandidate(git, commit, generation, windows, outcome)
             \/ \E c \in candidates : \E edited \in EditedCandidates(c) :
                   EditCandidateFile(c, edited)
             \/ UNCHANGED releasing
    <2>1. UNCHANGED <<scm, promotion, releases>>
      BY <1>5 DEF BuildCandidate, EditCandidateFile, releasing, scm
    <2> QED
      BY <1>1, <1>2, <1>3, <2>1 DEF ReleasesInv
  <1>6. ASSUME NEW c \in candidates, NEW id \in ReviewIds, NEW mode \in Modes,
               ReadCandidate(c, id, mode)
        PROVE  ReleasesInv'
    <2>1. /\ promotion' = [step |-> "pull", candidate |-> c, id |-> id, mode |-> mode]
          /\ UNCHANGED <<scm, releases>>
      BY <1>6 DEF ReadCandidate
    <2>2. PromotionReviewed'
      BY <2>1 DEF PromotionReviewed
    <2> QED
      BY <1>2, <1>3, <2>1, <2>2 DEF ReleasesInv
  <1>7. ASSUME NEW commits \in SUBSET Commits, FetchPullRequest(commits)
        PROVE  ReleasesInv'
    <2>1. /\ promotion.step = "pull"
          /\ promotion' \in {[promotion EXCEPT !.step = "review"], NoReading}
          /\ UNCHANGED <<scm, releases>>
      BY <1>7 DEF FetchPullRequest
    <2>2. promotion = [step |-> promotion.step, candidate |-> promotion.candidate,
                       id |-> promotion.id, mode |-> promotion.mode]
      BY <2>1 DEF ReleasesInv, PromotionReviewed
    <2>3. PromotionReviewed'
      BY <2>1, <2>2 DEF PromotionReviewed, NoReading
    <2> QED
      BY <1>2, <1>3, <2>1, <2>3 DEF ReleasesInv
  <1>8. CASE FetchReview
    <2>1. UNCHANGED <<scm, releases>>
      BY <1>8 DEF FetchReview
    <2>2. CASE promotion' = NoReading
      <3>1. PromotionReviewed'
        BY <2>2 DEF PromotionReviewed, NoReading
      <3> QED
        BY <1>2, <1>3, <2>1, <3>1 DEF ReleasesInv
    <2>3. CASE promotion' # NoReading
      <3>1. PICK verdict \in reviews, author \in Authors[promotion.candidate.commit] :
               /\ Approves(verdict, promotion.candidate, promotion.mode)
               /\ promotion' = [step |-> "publish",
                                release |-> NewRelease(promotion.candidate,
                                   Approval(Snapshot(verdict, promotion.candidate,
                                                     promotion.mode, author)))]
        BY <1>8, <2>3 DEF FetchReview
      <3>2. PICK r : ReleaseReviewed(r) /\ promotion' = [step |-> "publish", release |-> r]
        BY <3>1, NewReleaseReviewed DEF ReleasesInv
      <3>3. ReleaseReviewed(r)'
        BY <1>3, <2>1, <3>2, ReviewedStays
      <3>4. promotion'.step = "publish" /\ promotion'.release = r
        BY <3>2
      <3>5. PromotionReviewed'
        BY <3>3, <3>4 DEF PromotionReviewed
      <3> QED
        BY <1>2, <1>3, <2>1, <3>5 DEF ReleasesInv
    <2> QED
      BY <2>2, <2>3
  <1>9. CASE PublishRelease
    <2> DEFINE r == promotion.release
               file == [name |-> r.strategy_release_id, content |-> r]
    <2>1. /\ promotion.step = "publish" /\ promotion' = NoReading
          /\ releases' \in {releases, releases \union {file}}
          /\ UNCHANGED scm
      BY <1>9 DEF PublishRelease
    <2>2. ReleaseReviewed(r)
      BY <2>1 DEF ReleasesInv, PromotionReviewed
    <2>3. file = [name |-> file.name, content |-> file.content] /\ file.content = r
      OBVIOUS
    <2> HIDE DEF r, file
    <2>4. \A f \in releases' : f = [name |-> f.name, content |-> f.content]
                               /\ ReleaseReviewed(f.content)
      BY <2>1, <2>2, <2>3 DEF ReleasesInv, ReleasesReviewed
    <2>5. \A x : ReleaseReviewed(x) => ReleaseReviewed(x)'
      BY <1>3, <2>1, ReviewedStays
    <2>6. ReleasesReviewed'
      BY <2>4, <2>5 DEF ReleasesReviewed
    <2>7. PromotionReviewed'
      BY <2>1 DEF PromotionReviewed, NoReading
    <2> QED
      BY <1>3, <2>1, <2>6, <2>7 DEF ReleasesInv
  <1> QED
    BY <1>4, <1>5, <1>6, <1>7, <1>8, <1>9 DEF ReleasesNext

LEMMA ReleasesInitInv == ReleasesInit => ReleasesInv
  BY DEF ReleasesInit, ReleasesInv, ReviewsAreSpoken, PromotionReviewed, ReleasesReviewed, NoReading

\* The invariant of releases, reviews and promotions under edits of the files
\* (StrategyReleases, promote).
THEOREM ReleasesSpecInv == ReleasesSpec => []ReleasesInv
  BY ReleasesInitInv, ReleasesStep, PTL DEF ReleasesSpec

-----------------------------------------------------------------------------
(* What a resolver accepts of files that were edited.                      *)

\* The digest of the evidence holds every field of it.
LEMMA DigestBinds ==
    ASSUME NEW s, SnapshotShape(s), s.snapshot_sha256 = SnapshotDigest(s),
           NEW e, e \in {[s EXCEPT !.mode = e.mode], [s EXCEPT !.reviewer = e.reviewer]},
           e.snapshot_sha256 = SnapshotDigest(e)
    PROVE  e = s
  <1>1. [s EXCEPT !.snapshot_sha256 = <<>>].mode = s.mode
        /\ [s EXCEPT !.snapshot_sha256 = <<>>].reviewer = s.reviewer
    BY DEF SnapshotShape
  <1>2. [s EXCEPT !.mode = s.mode] = s /\ [s EXCEPT !.reviewer = s.reviewer] = s
    BY DEF SnapshotShape
  <1>3. CASE e = [s EXCEPT !.mode = e.mode]
    <2>1. \A m : LET x == [s EXCEPT !.mode = m] IN
             /\ x.snapshot_sha256 = s.snapshot_sha256
             /\ [x EXCEPT !.snapshot_sha256 = <<>>].mode = m
      BY DEF SnapshotShape
    <2>2. e.snapshot_sha256 = s.snapshot_sha256 /\ SnapshotDigest(e).mode = e.mode
      BY <1>3, <2>1 DEF SnapshotDigest
    <2>3. SnapshotDigest(s).mode = s.mode
      BY <1>1 DEF SnapshotDigest
    <2> QED
      BY <1>2, <1>3, <2>2, <2>3
  <1>4. CASE e = [s EXCEPT !.reviewer = e.reviewer]
    <2>1. \A u : LET x == [s EXCEPT !.reviewer = u] IN
             /\ x.snapshot_sha256 = s.snapshot_sha256
             /\ [x EXCEPT !.snapshot_sha256 = <<>>].reviewer = u
      BY DEF SnapshotShape
    <2>2. e.snapshot_sha256 = s.snapshot_sha256 /\ SnapshotDigest(e).reviewer = e.reviewer
      BY <1>4, <2>1 DEF SnapshotDigest
    <2>3. SnapshotDigest(s).reviewer = s.reviewer
      BY <1>1 DEF SnapshotDigest
    <2> QED
      BY <1>2, <1>4, <2>2, <2>3
  <1> QED
    BY <1>3, <1>4

\* The edits leave the evidence as it was, or spoil its digest.
LEMMA EvidenceStays ==
    ASSUME NEW r, ReleaseReviewed(r), NEW x \in {r} \union EditedReleases(r),
           SnapshotIsValid(x.approval.review_snapshot)
    PROVE  x.approval.review_snapshot = r.approval.review_snapshot
  <1> DEFINE s == r.approval.review_snapshot
             Untouched(y) == y.approval.review_snapshot = s
             Touched(y) == y.approval.review_snapshot \in
                {[s EXCEPT !.mode = y.approval.review_snapshot.mode],
                 [s EXCEPT !.reviewer = y.approval.review_snapshot.reviewer]}
  <1>1. /\ r = [candidate |-> r.candidate, approval |-> r.approval,
                strategy_release_id |-> r.strategy_release_id]
        /\ r.approval = [decision |-> r.approval.decision,
                         candidate_fingerprint |-> r.approval.candidate_fingerprint,
                         commit |-> r.approval.commit, review_snapshot |-> s,
                         approval_snapshot_sha256 |-> r.approval.approval_snapshot_sha256]
    BY DEF ReleaseReviewed, NewRelease, Approval
  <1>2. SnapshotReviewed(s)
    BY DEF ReleaseReviewed
  <1>3. \A c : [r EXCEPT !.candidate = c].approval = r.approval
    BY <1>1
  <1>4. \A commit : [r EXCEPT !.approval.commit = commit].approval.review_snapshot = s
    BY <1>1
  <1>5. \A m : [r EXCEPT !.approval.review_snapshot.mode = m].approval.review_snapshot
                  = [s EXCEPT !.mode = m]
    BY <1>1
  <1>6. \A u : [r EXCEPT !.approval.review_snapshot.reviewer = u].approval.review_snapshot
                  = [s EXCEPT !.reviewer = u]
    BY <1>1
  <1>7. /\ \A m : [s EXCEPT !.mode = m].mode = m
        /\ \A u : [s EXCEPT !.reviewer = u].reviewer = u
    BY <1>2 DEF SnapshotReviewed, SnapshotShape
  <1>8. \A c, a : NewRelease(c, a).approval = a
    BY DEF NewRelease
  <1>9. Untouched(x) \/ Touched(x)
    <2> DEFINE parts == {[r EXCEPT !.candidate = c] : c \in EditedCandidates(r.candidate)}
                 \union {[r EXCEPT !.approval.commit = y] : y \in Commits}
                 \union {[r EXCEPT !.approval.review_snapshot.mode = m] : m \in Modes}
                 \union {[r EXCEPT !.approval.review_snapshot.reviewer = u] : u \in Users}
    <2>1. EditedReleases(r) = parts \union {NewRelease(y.candidate, y.approval) : y \in parts}
      BY DEF EditedReleases
    <2>2. ASSUME NEW y \in parts
          PROVE  Untouched(y) \/ Touched(y)
      <3>1. CASE y \in {[r EXCEPT !.candidate = c] : c \in EditedCandidates(r.candidate)}
        BY <1>3, <3>1
      <3>2. CASE y \in {[r EXCEPT !.approval.commit = z] : z \in Commits}
        BY <1>4, <3>2
      <3>3. CASE y \in {[r EXCEPT !.approval.review_snapshot.mode = m] : m \in Modes}
        <4>1. PICK m \in Modes : y = [r EXCEPT !.approval.review_snapshot.mode = m]
          BY <3>3
        <4>2. y.approval.review_snapshot = [s EXCEPT !.mode = m]
          BY <1>5, <4>1
        <4> QED
          BY <1>7, <4>2
      <3>4. CASE y \in {[r EXCEPT !.approval.review_snapshot.reviewer = u] : u \in Users}
        <4>1. PICK u \in Users : y = [r EXCEPT !.approval.review_snapshot.reviewer = u]
          BY <3>4
        <4>2. y.approval.review_snapshot = [s EXCEPT !.reviewer = u]
          BY <1>6, <4>1
        <4> QED
          BY <1>7, <4>2
      <3> QED
        BY <3>1, <3>2, <3>3, <3>4
    <2>3. Untouched(r)
      OBVIOUS
    <2> HIDE DEF parts
    <2>4. x = r \/ \E y \in parts : x.approval = y.approval
      BY <1>8, <2>1
    <2> QED
      BY <2>2, <2>3, <2>4
  <1> HIDE DEF s
  <1>10. Touched(x) => Untouched(x)
    BY <1>2, DigestBinds DEF SnapshotReviewed, SnapshotIsValid
  <1> QED
    BY <1>9, <1>10 DEF s

\* Whatever a resolver hands out, an independent reviewer approved exactly
\* this candidate and commit in the words he submitted, although the review
\* may have been edited while the promotion read it and the files may have
\* been edited since (capture_verified_approval, StrategyReleaseV1, resolve).
THEOREM ReleasesResolvedWasReviewed == ReleasesSpec => []ResolvedWasReviewed
  <1>1. ReleasesInv => ResolvedWasReviewed
    <2> SUFFICES ASSUME ReleasesInv, NEW file \in FoundFiles, NEW mode \in Modes \union {"any"},
                        Resolves(file, mode)
                 PROVE  LET s == file.content.approval.review_snapshot
                        IN  /\ \E said \in spoken :
                                  said.user = s.reviewer
                                      /\ said.body = Statement(file.content.candidate)
                            /\ IsIndependent(s.reviewer, file.content.candidate.commit, mode)
      BY DEF ResolvedWasReviewed
    <2> DEFINE x == file.content
               s == x.approval.review_snapshot
    <2>1. PICK published \in releases : x \in {published.content} \union EditedReleases(published.content)
      BY DEF FoundFiles
    <2>2. ReleaseReviewed(published.content)
      BY DEF ReleasesInv, ReleasesReviewed
    <2>3. ReleaseIsValid(x) /\ mode \in {"any", s.mode}
      BY DEF Resolves
    <2>4. /\ SnapshotIsValid(s)
          /\ x.approval.candidate_fingerprint = s.candidate_fingerprint
          /\ x.approval.commit = s.commit
          /\ x.approval.candidate_fingerprint = x.candidate.candidate_fingerprint
          /\ x.approval.commit = x.candidate.commit
      BY <2>3 DEF ReleaseIsValid, ApprovalIsValid, BindsCandidate
    <2>5. SnapshotReviewed(s)
      BY <2>1, <2>2, <2>4, EvidenceStays DEF ReleaseReviewed
    <2> HIDE DEF s, x
    <2>6. Statement(x.candidate) = <<s.candidate_fingerprint, s.commit>>
      BY <2>4 DEF Statement
    <2>7. IsIndependent(s.reviewer, x.candidate.commit, mode)
      BY <2>3, <2>4, <2>5 DEF SnapshotReviewed, IsIndependent
    <2> QED
      BY <2>5, <2>6, <2>7 DEF SnapshotReviewed, s, x
  <1> QED
    BY <1>1, ReleasesSpecInv, PTL

-----------------------------------------------------------------------------
(***************************************************************************)
(* A position of the backtest keeps its initial stop until the first       *)
(* addition, so what is known of it from its average price alone is enough *)
(* to judge it, for any prices, rules and margins.                         *)
(***************************************************************************)

\* The total of one number is that number.
LEMMA TotalOfOne ==
    ASSUME NEW seq, DOMAIN seq = {1}, seq[1] \in Int
    PROVE  Total(seq) = seq[1]
<1> DEFINE F(iter) == [s \in SUBSET {1} |->
                IF s = {} THEN 0 ELSE iter[s \ {Max(s)}] + seq[Max(s)]]
           g == [s \in SUBSET {1} |-> IF s = {} THEN 0 ELSE seq[1]]
           it == CHOOSE iter : iter = F(iter)
<1>1. Max({1}) = 1
  BY DEF Max
<1>2. g = F(g)
  <2>1. SUBSET {1} = {{}, {1}}
    OBVIOUS
  <2>2. F(g)[{}] = g[{}]
    OBVIOUS
  <2>3. F(g)[{1}] = g[{1}]
    <3>1. {1} \ {1} = {} /\ {} \in SUBSET {1} /\ {1} \in SUBSET {1} /\ {1} # {}
      OBVIOUS
    <3>2. F(g)[{1}] = g[{1} \ {Max({1})}] + seq[Max({1})]
      BY <3>1
    <3>3. F(g)[{1}] = g[{}] + seq[1]
      BY <3>1, <3>2, <1>1
    <3> QED
      BY <3>1, <3>3
  <2>4. \A s \in SUBSET {1} : g[s] = F(g)[s]
    BY <2>1, <2>2, <2>3
  <2> QED
    BY <2>4, Zenon
<1>3. it = F(it)
  BY <1>2, Zenon
<1>4. it[{1}] = seq[1]
  <2> HIDE DEF it
  <2>1. it[{}] = 0
    BY <1>3
  <2>2. it[{1}] = it[{1} \ {1}] + seq[1]
    BY <1>3, <1>1
  <2> QED
    BY <2>1, <2>2
<1>5. Total(seq) = it[{1}]
  BY DEF Total, FoldLeft, MapThenFoldSet
<1> QED
  BY <1>4, <1>5
-----------------------------------------------------------------------------

Fields == {"fills", "stop", "initial", "start", "counted", "age", "plan"}

\* What is bought has a price, and an addition is only planned where a
\* threshold is left.
Sound(p) ==
    /\ p \in [Fields -> {p[f] : f \in Fields}]
    /\ p.fills \in Seq(Int) /\ p.fills # <<>>
    /\ p.age \in Nat
    /\ p.plan => StageOf(p) < Len(MarginSteps)

\* Before the first addition a position still has the stop of its entry, and
\* a transition that has begun began there.
AtFirstStop(p) ==
    StageOf(p) = 1 =>
        /\ Anchor(p) \in Prices
        /\ p.stop = Percent(Anchor(p), -InitialStop)
        /\ p.initial = p.stop
        /\ p.counted = 1 => p.start = p.stop

PositionInv ==
    /\ rule \in [Regimes -> Tightenings]
    /\ IsHeld => Sound(position) /\ AtFirstStop(position)

\* The highest of one stop is that stop.
LEMMA HighestOfOne ==
    ASSUME NEW x \in Int
    PROVE  Highest({x}) = x
  BY DEF Highest

\* A percentage of a price is an integer.
LEMMA PercentIsInt ==
    ASSUME NEW x \in Int, NEW n \in Int
    PROVE  Percent(x, n) \in Int
<1>1. x * (100 + n) \in Int
  OBVIOUS
<1> QED
  BY <1>1 DEF Percent

\* No stop may be claimed before the second stage.
LEMMA NothingReached ==
    ASSUME NEW p, StageOf(p) = 1, NEW stops, DOMAIN stops \subseteq Nat \ {0},
           1 \in DOMAIN stops, stops[1] = {}
    PROVE  Reached(p, stops) = {}
  BY DEF Reached

\* The first stop is an integer.
LEMMA FirstStopIsInt ==
    ASSUME NEW p, AtFirstStop(p), StageOf(p) = 1
    PROVE  p.stop \in Int
<1>1. Anchor(p) \in Int /\ -InitialStop \in Int
  BY BacktestPositionAssumption DEF AtFirstStop
<1> QED
  BY <1>1, PercentIsInt DEF AtFirstStop

\* Raising touches the stop alone.
LEMMA RaisedFields ==
    ASSUME NEW p, Sound(p), NEW S
    PROVE  LET q == Raised(p, S)
           IN  /\ Sound(q) /\ q.fills = p.fills /\ q.initial = p.initial
               /\ q.start = p.start /\ q.counted = p.counted /\ q.age = p.age
               /\ q.plan = p.plan
               /\ q.stop = Highest({p.stop} \union S)
<1> DEFINE q == Raised(p, S)
<1>1. /\ q.fills = p.fills /\ q.initial = p.initial /\ q.start = p.start
      /\ q.counted = p.counted /\ q.age = p.age /\ q.plan = p.plan
      /\ q.stop = Highest({p.stop} \union S)
      /\ q \in [Fields -> {q[f] : f \in Fields}]
  BY DEF Sound, Fields, Raised
<1> QED
  BY <1>1 DEF Sound, StageOf

\* At the first stage no baseline, half-way or wide stop is reached.
LEMMA NoStopsAtFirst ==
    ASSUME NEW p, NEW c, StageOf(p) = 1
    PROVE  BaselineStops(p, c) = {} /\ HalfProtectStops(p, c) = {} /\ WideStops(p, c) = {}
<1>1. BaselineStops(p, c) = {}
  BY NothingReached DEF BaselineStops
<1>2. HalfProtectStops(p, c) = {}
  BY NothingReached DEF HalfProtectStops
<1>3. WideStops(p, c) = {}
  BY NothingReached DEF WideStops
<1> QED
  BY <1>1, <1>2, <1>3

\* At the first stage the transition leads from the first stop to itself.
LEMMA TransitionAtFirst ==
    ASSUME NEW p, NEW c, StageOf(p) = 1, p.initial \in Int, p.age \in Nat
    PROVE  TransitionStop(p, c, p.initial) = p.initial
<1>1. Highest({p.initial} \union BaselineStops(p, c)) = p.initial
  BY NoStopsAtFirst, HighestOfOne
<1>2. (p.initial - p.initial) * p.age = 0
  OBVIOUS
<1>3. TransitionBars \in Nat
  BY BacktestPositionAssumption
<1>4. TransitionBars # 0 => 0 \div TransitionBars = 0
  BY <1>3
<1> QED
  BY <1>1, <1>2, <1>3, <1>4 DEF TransitionStop

\* Tightening touches the stop and the fields of a transition alone, and at
\* the first stage it leaves the stop where it was.
LEMMA Tightened ==
    ASSUME NEW p, Sound(p), NEW c, NEW mode \in Tightenings
    PROVE  LET q == Tighten(p, c, mode)
           IN  /\ Sound(q) /\ q.fills = p.fills /\ q.initial = p.initial
               /\ AtFirstStop(p) => AtFirstStop(q) /\ (StageOf(p) = 1 => q.stop = p.stop)
<1> DEFINE q == Tighten(p, c, mode)
<1>1. CASE mode # "delayed_baseline"
  <2>1. PICK S : q = Raised(p, S) /\ (StageOf(p) = 1 => S = {})
    BY <1>1, NoStopsAtFirst DEF Tighten, Tightenings
  <2>2. /\ Sound(q) /\ q.fills = p.fills /\ q.initial = p.initial
        /\ q.start = p.start /\ q.counted = p.counted
        /\ q.stop = Highest({p.stop} \union S)
    BY <2>1, RaisedFields
  <2>3. ASSUME AtFirstStop(p), StageOf(p) = 1
        PROVE  q.stop = p.stop
    <3>1. p.stop \in Int
      BY <2>3, FirstStopIsInt
    <3> QED
      BY <2>1, <2>2, <2>3, <3>1, HighestOfOne
  <2>4. ASSUME AtFirstStop(p)
        PROVE  AtFirstStop(q)
    BY <2>2, <2>3, <2>4 DEF AtFirstStop, StageOf, Anchor
  <2> QED
    BY <2>2, <2>3, <2>4
<1>2. CASE mode = "delayed_baseline"
  <2>1. PICK m : m = IF p.counted = StageOf(p) THEN p
                     ELSE [p EXCEPT !.counted = StageOf(p), !.start = p.stop]
    OBVIOUS
  <2>2. q = Raised(m, {TransitionStop(m, c, m.start)})
    BY <1>2, <2>1 DEF Tighten, TightenTransition
  <2>3. /\ m.fills = p.fills /\ m.initial = p.initial /\ m.stop = p.stop
        /\ m.age = p.age /\ m.plan = p.plan
        /\ m \in [Fields -> {m[f] : f \in Fields}]
    BY <2>1 DEF Sound, Fields
  <2>4. Sound(m)
    BY <2>3 DEF Sound, StageOf
  <2>5. m.counted = StageOf(p) /\ (p.counted # StageOf(p) => m.start = p.stop)
                               /\ (p.counted = StageOf(p) => m.start = p.start)
    BY <2>1 DEF Sound, Fields
  <2>6. /\ Sound(q) /\ q.fills = m.fills /\ q.initial = m.initial
        /\ q.start = m.start /\ q.counted = m.counted
        /\ q.stop = Highest({m.stop} \union {TransitionStop(m, c, m.start)})
    BY <2>2, <2>4, RaisedFields
  <2>7. ASSUME AtFirstStop(p), StageOf(p) = 1
        PROVE  q.stop = p.stop /\ q.start = p.stop
    <3>1. p.stop \in Int
      BY <2>7, FirstStopIsInt
    <3>2. m.start = m.initial /\ m.initial = p.stop /\ StageOf(m) = 1
      BY <2>3, <2>5, <2>7 DEF AtFirstStop, StageOf
    <3>3. TransitionStop(m, c, m.start) = p.stop
      BY <3>1, <3>2, <2>4, TransitionAtFirst DEF Sound
    <3>4. {m.stop} \union {TransitionStop(m, c, m.start)} = {p.stop}
      BY <2>3, <3>3
    <3> QED
      BY <2>6, <3>1, <3>2, <3>4, HighestOfOne
  <2>8. ASSUME AtFirstStop(p)
        PROVE  AtFirstStop(q)
    BY <2>3, <2>6, <2>7, <2>8 DEF AtFirstStop, StageOf, Anchor
  <2> QED
    BY <2>3, <2>6, <2>7, <2>8
<1> QED
  BY <1>1, <1>2

\* An addition takes a position beyond the first stage.
LEMMA Added ==
    ASSUME NEW p, Sound(p), NEW c, c.open \in Int, c.session \in BOOLEAN
    PROVE  LET q == ExecuteAdd(p, c)
           IN  /\ Sound(q) /\ (AtFirstStop(p) => AtFirstStop(q))
<1> DEFINE q == ExecuteAdd(p, c)
           price == Highest({c.open, Trigger(p)})
<1>1. CASE FillsPlan(p, c)
  <2>1. /\ q.fills = Append(p.fills, price) /\ q.age = 0 /\ q.plan = FALSE
        /\ q \in [Fields -> {q[f] : f \in Fields}]
    BY <1>1 DEF ExecuteAdd, Sound, Fields
  <2>2. StageOf(p) \in 1..Len(AddThresholds)
    <3>1. StageOf(p) \in Nat \ {0}
      BY DEF Sound, StageOf
    <3>2. StageOf(p) < Len(MarginSteps)
      BY <1>1 DEF FillsPlan, Sound
    <3>3. Len(AddThresholds) = Len(MarginSteps) - 1 /\ Len(MarginSteps) \in Nat
      BY BacktestPositionAssumption
    <3> QED
      BY <3>1, <3>2, <3>3
  <2>3. Trigger(p) \in Int
    <3>1. Anchor(p) \in Int
      BY DEF Sound, Anchor
    <3>2. AddThresholds[StageOf(p)] \in Int
      <4>1. AddThresholds \in Seq(Nat)
        BY BacktestPositionAssumption
      <4> QED
        BY <2>2, <4>1
    <3> QED
      BY <3>1, <3>2, PercentIsInt DEF Trigger
  <2>4. price \in Int
    <3>1. \E x \in {c.open, Trigger(p)} : \A y \in {c.open, Trigger(p)} : y <= x
      BY <2>3
    <3>2. price \in {c.open, Trigger(p)}
      BY <3>1 DEF Highest
    <3> QED
      BY <2>3, <3>2
  <2>5. /\ q.fills \in Seq(Int) /\ q.fills # <<>> /\ StageOf(q) > 1
    BY <2>1, <2>4 DEF Sound, StageOf
  <2> QED
    BY <2>1, <2>5 DEF Sound, AtFirstStop
<1>2. CASE ~FillsPlan(p, c)
  <2>1. /\ q.fills = p.fills /\ q.age = p.age /\ q.plan = FALSE /\ q.stop = p.stop
        /\ q.initial = p.initial /\ q.counted = p.counted /\ q.start = p.start
        /\ q \in [Fields -> {q[f] : f \in Fields}]
    BY <1>2 DEF ExecuteAdd, Sound, Fields
  <2> QED
    BY <2>1 DEF Sound, AtFirstStop, StageOf, Anchor
<1> QED
  BY <1>1, <1>2

\* A candle managed leaves a sound position, which still has its first stop
\* if nothing was added.
LEMMA ManagedIsSound ==
    ASSUME NEW p, Sound(p), AtFirstStop(p), rule \in [Regimes -> Tightenings],
           NEW c, c.open \in Int, c.session \in BOOLEAN, c.regime \in Regimes
    PROVE  Sound(Managed(p, c)) /\ AtFirstStop(Managed(p, c))
<1>1. PICK added : added = ExecuteAdd(p, c)
  OBVIOUS
<1>2. Sound(added) /\ AtFirstStop(added)
  BY <1>1, Added
<1>3. PICK mode \in Tightenings : mode = rule[c.regime]
  OBVIOUS
<1>4. PICK t : t = Tighten(added, c, mode)
  OBVIOUS
<1>5. Sound(t) /\ AtFirstStop(t)
  BY <1>2, <1>4, Tightened
<1>6. PICK q : q = [t EXCEPT !.plan = DecideAdd(t, c)]
  OBVIOUS
<1>7. Managed(p, c) = q
  BY <1>1, <1>3, <1>4, <1>6 DEF Managed
<1>8. /\ q.fills = t.fills /\ q.stop = t.stop /\ q.initial = t.initial
      /\ q.start = t.start /\ q.counted = t.counted /\ q.age = t.age
      /\ q.plan = DecideAdd(t, c)
      /\ q \in [Fields -> {q[f] : f \in Fields}]
  BY <1>5, <1>6 DEF Sound, Fields
<1>9. q.plan => StageOf(q) < Len(MarginSteps)
  BY <1>8 DEF DecideAdd, StageOf
<1> QED
  BY <1>5, <1>7, <1>8, <1>9 DEF Sound, AtFirstStop, StageOf, Anchor

\* A new entry has its initial stop.
LEMMA EnteredIsSound ==
    ASSUME NEW price \in Prices, NEW p,
           p = [NoPosition EXCEPT !.fills = <<price>>,
                                  !.stop = Percent(price, -InitialStop),
                                  !.initial = Percent(price, -InitialStop)]
    PROVE  Sound(p) /\ AtFirstStop(p)
<1>1. price \in Int
  BY BacktestPositionAssumption
<1>2. /\ p.fills = <<price>> /\ p.stop = Percent(price, -InitialStop)
      /\ p.initial = Percent(price, -InitialStop) /\ p.counted = 0 /\ p.age = 0
      /\ p.plan = FALSE
      /\ p \in [Fields -> {p[f] : f \in Fields}]
  BY DEF NoPosition, Fields
<1>3. p.fills \in Seq(Int) /\ p.fills # <<>> /\ p.fills[1] = price
  BY <1>1, <1>2
<1> QED
  BY <1>2, <1>3 DEF Sound, AtFirstStop, Anchor

\* A candle ages a position and touches nothing else.
LEMMA AgedIsSound ==
    ASSUME NEW p, Sound(p), AtFirstStop(p)
    PROVE  Sound(Aged(p)) /\ AtFirstStop(Aged(p))
<1> DEFINE q == Aged(p)
<1>1. /\ q.fills = p.fills /\ q.stop = p.stop /\ q.initial = p.initial
      /\ q.start = p.start /\ q.counted = p.counted /\ q.plan = p.plan
      /\ q \in [Fields -> {q[f] : f \in Fields}]
  BY DEF Aged, Sound, Fields
<1>2. q.age \in Nat
  BY DEF Aged, Sound, Fields
<1> QED
  BY <1>1, <1>2 DEF Sound, AtFirstStop, StageOf, Anchor

\* The invariant holds of a backtest that has not begun.
LEMMA InitPosition == BacktestInit => PositionInv
  BY BacktestPositionAssumption DEF BacktestInit, PositionInv, IsHeld

\* Every candle keeps the invariant, and so does a confirmation.
LEMMA NextPosition == PositionInv /\ [BacktestNext]_backtest => PositionInv'
<1> SUFFICES ASSUME PositionInv, [BacktestNext]_backtest
             PROVE  PositionInv'
  OBVIOUS
<1>1. rule' = rule
  BY DEF BacktestNext, backtest, EnterPosition, HoldPosition, ExitPosition, ConfirmState
<1>2. ASSUME NEW c \in Bars(0), NEW price \in EntryPrices, NEW managed \in BOOLEAN,
             EnterPosition(c, price, managed)
      PROVE  PositionInv'
  <2>1. PICK entered : entered = [NoPosition EXCEPT !.fills = <<price>>,
                                    !.stop = Percent(price, -InitialStop),
                                    !.initial = Percent(price, -InitialStop)]
    OBVIOUS
  <2>2. Sound(entered) /\ AtFirstStop(entered)
    BY <2>1, EnteredIsSound, BacktestPositionAssumption
  <2>3. position' = IF managed THEN Managed(entered, c) ELSE entered
    BY <1>2, <2>1 DEF EnterPosition
  <2>4. c.open \in Int /\ c.session \in BOOLEAN /\ c.regime \in Regimes
    BY BacktestPositionAssumption DEF Bars
  <2>5. Sound(position') /\ AtFirstStop(position')
    BY <2>2, <2>3, <2>4, ManagedIsSound DEF PositionInv
  <2> QED
    BY <1>1, <2>5 DEF PositionInv
<1>3. ASSUME NEW c \in Bars(StageOf(position)), HoldPosition(c)
      PROVE  PositionInv'
  <2>1. PICK p : p = position
    OBVIOUS
  <2>2. PICK aged : aged = Aged(p)
    OBVIOUS
  <2>3. Sound(aged) /\ AtFirstStop(aged)
    BY <1>3, <2>1, <2>2, AgedIsSound DEF PositionInv, HoldPosition
  <2>4. position' = Managed(aged, c)
    BY <1>3, <2>1, <2>2 DEF HoldPosition
  <2>5. c.open \in Int /\ c.session \in BOOLEAN /\ c.regime \in Regimes
    BY BacktestPositionAssumption DEF Bars
  <2>6. Sound(position') /\ AtFirstStop(position')
    BY <2>3, <2>4, <2>5, ManagedIsSound DEF PositionInv
  <2> QED
    BY <1>1, <2>6 DEF PositionInv
<1>4. ASSUME NEW c \in Bars(StageOf(position)), ExitPosition(c)
      PROVE  PositionInv'
  BY <1>1, <1>4 DEF ExitPosition, PositionInv, IsHeld
<1>5. ASSUME NEW leverage, NEW stop, ConfirmState(leverage, stop) \/ UNCHANGED backtest
      PROVE  PositionInv'
  <2>1. position' = position
    BY <1>5, Zenon DEF ConfirmState, backtest
  <2> QED
    BY <1>1, <2>1 DEF PositionInv, IsHeld
<1> QED
  BY <1>2, <1>3, <1>4, <1>5 DEF BacktestNext

-----------------------------------------------------------------------------
\* The average of one fill is its price: the margin of the first stage buys
\* something at every price.
LEMMA AverageOfOne ==
    ASSUME NEW p, DOMAIN p.fills = {1}, StageOf(p) = 1, Anchor(p) \in Prices
    PROVE  Average(p) = Anchor(p)
<1> DEFINE price == Anchor(p)
           bought == (MarginSteps[1] * Scale) \div price
           units == [i \in 1..StageOf(p) |-> (MarginSteps[i] * Scale) \div p.fills[i]]
           spent == [i \in 1..StageOf(p) |-> p.fills[i] * units[i]]
<1>1. price \in Nat \ {0} /\ price <= MarginSteps[1] * Scale
  BY BacktestPositionAssumption
<1>2. MarginSteps[1] * Scale \in Nat
  <2>1. MarginSteps[1] \in Nat /\ Scale \in Nat
    BY BacktestPositionAssumption
  <2> QED
    BY <2>1
<1>3. bought \in Nat \ {0}
  <2> DEFINE margin == MarginSteps[1] * Scale
  <2>1. \A m \in Nat, x \in Nat \ {0} : x <= m => m \div x \in Nat \ {0}
    BY SMT
  <2> HIDE DEF margin, price
  <2> QED
    BY <1>1, <1>2, <2>1
<1>4. 1..StageOf(p) = {1}
  OBVIOUS
<1>5. DOMAIN units = {1} /\ units[1] = bought
  BY <1>4 DEF Anchor
<1>6. DOMAIN spent = {1} /\ spent[1] = price * bought
  BY <1>4, <1>5 DEF Anchor
<1>7. price * bought \in Int
  BY <1>1, <1>3
<1>8. Total(units) = bought /\ Total(spent) = price * bought
  BY <1>3, <1>5, <1>6, <1>7, TotalOfOne
<1>9. (price * bought) \div bought = price
  <2>1. \A x \in Nat, u \in Nat \ {0} : (x * u) \div u = x
    BY SMT
  <2> HIDE DEF price, bought
  <2> QED
    BY <1>1, <1>3, <2>1
<1>10. Average(p) = Total(spent) \div Total(units)
  BY DEF Average
<1> QED
  BY <1>8, <1>9, <1>10

\* What the observation makes of a position at its first stage has its
\* anchor, its stop and its liquidation risk.
LEMMA FirstStageIsExact ==
    ASSUME PositionInv, StageOf(position) = 1, NEW c \in Bars(1)
    PROVE  Observed(position, c) = Judged(position, c, Leverage)
<1>1. PICK p : p = position
  OBVIOUS
<1>2. Sound(p) /\ AtFirstStop(p) /\ StageOf(p) = 1
  <2>1. IsHeld
    BY DEF IsHeld, NoPosition, StageOf
  <2> QED
    BY <1>1, <2>1 DEF PositionInv
<1>3. DOMAIN p.fills = {1}
  BY <1>2 DEF Sound, StageOf
<1>4. Anchor(p) \in Prices /\ Average(p) = Anchor(p)
  BY <1>2, <1>3, AverageOfOne DEF AtFirstStop
<1>5. PICK s : s = Assumed(Anchor(p))
  OBVIOUS
<1>6. Sound(s) /\ AtFirstStop(s)
  BY <1>4, <1>5, EnteredIsSound DEF Assumed
<1>7. s.fills = <<Anchor(p)>> /\ s.stop = Percent(Anchor(p), -InitialStop)
  BY <1>5 DEF Assumed, NoPosition
<1>8. StageOf(s) = 1 /\ DOMAIN s.fills = {1} /\ Anchor(s) = Anchor(p)
  BY <1>7 DEF StageOf, Anchor
<1>9. Average(s) = Average(p)
  BY <1>4, <1>8, AverageOfOne
<1>10. s.stop = p.stop
  BY <1>2, <1>7 DEF AtFirstStop
<1>11. RiskExit(s, c, Leverage) = RiskExit(p, c, Leverage)
  BY <1>9, <1>10 DEF RiskExit, LiquidationRisk
<1>12. PICK mode \in Tightenings : mode = rule[c.regime]
  BY DEF PositionInv, Bars
<1>13. Tighten(s, c, mode).stop = s.stop
  BY <1>6, <1>8, Tightened
<1>14. Tighten(p, c, mode).stop = p.stop
  BY <1>2, Tightened
<1>15. Judged(s, c, Leverage) = Judged(p, c, Leverage)
  BY <1>10, <1>11, <1>12, <1>13, <1>14 DEF Judged
<1> QED
  BY <1>1, <1>4, <1>5, <1>15 DEF Observed

\* Before the first addition the observation of an exchange row, which knows
\* no more than an average price, judges every candle as the strategy's own
\* position does, whatever the rules, prices and margins (observe_okx_position).
THEOREM BacktestShadowIsExact == BacktestSpec => []ShadowIsExactBeforeAdds
<1>1. PositionInv => ShadowIsExactBeforeAdds
  BY FirstStageIsExact DEF ShadowIsExactBeforeAdds
<1> QED
  BY <1>1, InitPosition, NextPosition, PTL DEF BacktestSpec
=============================================================================
