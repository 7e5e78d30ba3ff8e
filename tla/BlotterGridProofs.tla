------------------------- MODULE BlotterGridProofs --------------------------
(***************************************************************************)
(* Proofs about the grid: the rows are live wherever they are not held,    *)
(* they are held while the user is away from the top, and a text typed     *)
(* into the search is never dropped on its way to the filter.              *)
(***************************************************************************)
EXTENDS BlotterGrid, ListingProofs

-----------------------------------------------------------------------------
(* The rows held and taken anew *)

\* A rebuilt list is rendered or marked, and the way back renders.
LEMMA LiveStep == LiveAtTop /\ [GridNext]_gridVars => LiveAtTop'
<1> SUFFICES ASSUME LiveAtTop, [GridNext]_gridVars
             PROVE  LiveAtTop'
  OBVIOUS
<1>1. CASE StoreUpdate
  BY <1>1 DEF StoreUpdate, Render, LiveAtTop
<1>2. CASE handleToggleTimeSort
  BY <1>2 DEF handleToggleTimeSort, Render, LiveAtTop
<1>3. CASE onScroll
  <2>1. CASE isAtTop
    BY <1>3, <2>1 DEF onScroll, Render, LiveAtTop
  <2>2. CASE ~isAtTop
    BY <1>3, <2>2 DEF onScroll, Render, LiveAtTop
  <2> QED
    BY <2>1, <2>2
<1>4. CASE Remount
  BY <1>4 DEF Remount, LiveAtTop
<1>5. CASE UNCHANGED listVars
  BY <1>5 DEF listVars, LiveAtTop
<1>6. ToggleSorting \/ handleColumnFilterChange \/ handleClearFilters
        \/ handlePageSizeChange \/ TurnPage \/ Type \/ TimerFires \/ SyncInput
        \/ AutoReset \/ UNCHANGED gridVars => UNCHANGED listVars
  BY DEF ToggleSorting, handleColumnFilterChange, handleClearFilters,
         handlePageSizeChange, TurnPage, Type, TimerFires, SyncInput, AutoReset, gridVars
<1> QED
  BY <1>1, <1>2, <1>3, <1>4, <1>5, <1>6 DEF GridNext, Event

\* At the top the rows are those of the store, for every store, order and
\* filter (displayTrades and frozenTradesRef of TradeTable.tsx).
THEOREM RowsAreLiveAtTop == GridSpec => []LiveAtTop
<1>1. GridInit => LiveAtTop
  BY DEF GridInit, LiveAtTop
<1> QED
  BY <1>1, LiveStep, PTL DEF GridSpec

\* All that the rows of the page are computed from.
rowVars == <<displayTrades, sorting, columnFilters, globalFilter>>

\* The rows depend on what the grid holds, not on the store.
LEMMA SameRows ==
    ASSUME UNCHANGED rowVars
    PROVE  filteredRows' = filteredRows /\ filteredCount' = filteredCount
           /\ sortedRows' = sortedRows
<1>1. InEffect' = InEffect
  BY DEF InEffect, rowVars
<1>2. \A row : Matches(row)' = Matches(row)
  BY <1>1 DEF Matches, rowVars
<1>3. filteredRows' = filteredRows
  BY <1>2 DEF filteredRows, rowVars
<1>4. \A k, l : Precedes(k, l)' = Precedes(k, l)
  BY DEF Precedes, rowVars
<1>5. sortedRows' = sortedRows
  BY <1>3, <1>4 DEF sortedRows, rowVars
<1> QED
  BY <1>3, <1>5 DEF filteredCount

\* Away from the top no broadcast and no answer moves, adds or takes away a
\* rendered row, nor turns the page (Requirement 22.8, TradeTable.tsx).
THEOREM HeldRowsStay == GridSpec => StreamNeverMovesRows
<1>1. ASSUME ~isAtTop, trades' # trades, [GridNext]_gridVars
      PROVE  pageRows' = pageRows
  <2>1. StoreUpdate
    BY <1>1 DEF GridNext, Event, handleToggleTimeSort, onScroll, ToggleSorting,
        handleColumnFilterChange, handleClearFilters, handlePageSizeChange, TurnPage,
        Type, TimerFires, SyncInput, AutoReset, Remount, listVars, gridVars
  <2>2. UNCHANGED rowVars /\ UNCHANGED pagination
    BY <1>1, <2>1 DEF StoreUpdate, Render, searchVars, rowVars
  <2> QED
    BY <2>2, SameRows DEF pageRows, pageStart
<1>2. [GridNext]_gridVars => [~isAtTop /\ trades' # trades => pageRows' = pageRows]_gridVars
  BY <1>1
<1> QED
  BY <1>2, PTL DEF GridSpec, StreamNeverMovesRows

-----------------------------------------------------------------------------
(* The pages *)

\* The greater of two numbers.
LEMMA MaxOfTwo ==
    ASSUME NEW a \in Int, NEW b \in Int
    PROVE  Max({a, b}) = IF a >= b THEN a ELSE b
<1>1. \E x \in {a, b} : \A y \in {a, b} : x >= y
  OBVIOUS
<1>2. Max({a, b}) \in {a, b} /\ \A y \in {a, b} : Max({a, b}) >= y
  BY <1>1 DEF Max
<1> QED
  BY <1>2

\* The lesser of two numbers.
LEMMA MinOfTwo ==
    ASSUME NEW a \in Int, NEW b \in Int
    PROVE  Min({a, b}) = IF a <= b THEN a ELSE b
<1>1. \E x \in {a, b} : \A y \in {a, b} : x <= y
  OBVIOUS
<1>2. Min({a, b}) \in {a, b} /\ \A y \in {a, b} : Min({a, b}) <= y
  BY <1>1 DEF Min
<1> QED
  BY <1>2

\* The last page of rows, filled from size rows on: it exists and has a row,
\* unless there is none at all.
LEMMA LastPageHasARow ==
    ASSUME NEW rows \in Nat, NEW size \in Nat \ {0},
           NEW last, last = Max({0, (rows + size - 1) \div size - 1})
    PROVE  /\ last \in 0 .. rows
           /\ rows = 0 => last = 0
           /\ rows > 0 => last * size < rows
<1> DEFINE q == (rows + size - 1) \div size
<1>1. q \in Nat /\ q * size <= rows + size - 1 /\ rows + size - 1 < q * size + size
  OBVIOUS
<1> HIDE DEF q
<1>2. last = IF 0 >= q - 1 THEN 0 ELSE q - 1
  BY <1>1, MaxOfTwo DEF q
<1>3. CASE q <= 1
  BY <1>1, <1>2, <1>3
<1>4. CASE q > 1
  <2>1. PICK p \in Nat : p = q - 1
    BY <1>1, <1>4
  <2>2. q * size = p * size + size
    BY <1>1, <2>1
  <2>3. p <= p * size
    BY <2>1
  <2> QED
    BY <1>1, <1>2, <1>4, <2>1, <2>2, <2>3
<1> QED
  BY <1>1, <1>3, <1>4

\* The list of a store holds each of its trades once.
LEMMA RowsOfStore ==
    ASSUME NEW s \in Stores, NEW dir
    PROVE  /\ DOMAIN sortedTrades(s, dir) = 1 .. Cardinality(DOMAIN s)
           /\ Cardinality(DOMAIN s) \in 0 .. Cardinality(DOMAIN tradeDate)
           /\ Cardinality(DOMAIN tradeDate) \in Nat
<1>1. IsFiniteSet(DOMAIN tradeDate) /\ DOMAIN s \subseteq DOMAIN tradeDate
  BY GridAssumption
<1>2. /\ Cardinality(DOMAIN s) <= Cardinality(DOMAIN tradeDate)
      /\ Cardinality(DOMAIN s) \in Nat /\ Cardinality(DOMAIN tradeDate) \in Nat
  BY <1>1, FS_Subset, FS_CardinalityType
<1> QED
  BY <1>2 DEF sortedTrades, Listed

IsAList(rows) == \E s \in Stores, dir \in {"desc", "asc"} : rows = sortedTrades(s, dir)

\* No list of rows is longer than there are trades.
LEMMA CountOfRows ==
    ASSUME NEW rows, IsAList(rows), NEW P \in SUBSET (DOMAIN rows)
    PROVE  /\ Cardinality(P) \in 0 .. Cardinality(DOMAIN tradeDate)
           /\ Cardinality(P) \in Nat
           /\ Cardinality(DOMAIN tradeDate) \in Nat
<1>1. PICK s \in Stores, dir \in {"desc", "asc"} : rows = sortedTrades(s, dir)
  BY DEF IsAList
<1> DEFINE n == Cardinality(DOMAIN s)
<1>2. /\ DOMAIN rows = 1 .. n /\ n \in Nat
      /\ n <= Cardinality(DOMAIN tradeDate) /\ Cardinality(DOMAIN tradeDate) \in Nat
  BY <1>1, RowsOfStore
<1> HIDE DEF n
<1>3. IsFiniteSet(1 .. n) /\ Cardinality(1 .. n) = n
  BY <1>2, FS_Interval
<1>4. Cardinality(P) \in Nat /\ Cardinality(P) <= n
  BY <1>2, <1>3, FS_Subset, FS_CardinalityType
<1> QED
  BY <1>2, <1>4

\* The inductive invariant: types, and that the page exists unless the library
\* is about to go back to the first one.
GridInv ==
    /\ trades \in Stores
    /\ timeSortDir \in {"desc", "asc"}
    /\ sorting \in {"none", "asc", "desc"}
    /\ isAtTop \in BOOLEAN /\ missed \in BOOLEAN /\ synced \in BOOLEAN
    /\ IsAList(displayTrades)
    /\ resetDue \in BOOLEAN
    /\ pagination \in [pageIndex : 0 .. Cardinality(DOMAIN tradeDate), pageSize : PageSizes]
    /\ ~resetDue => pagination.pageIndex <= lastPage(pagination.pageSize)
    /\ globalFilter \in Texts \cup {""} /\ localGlobal \in Texts \cup {""}
    /\ timer \in Texts \cup {"", NoTimer}

\* What is assumed of the page sizes.
LEMMA PageSizesType == PageSizes \subseteq Nat \ {0} /\ DEFAULT_PAGE_SIZE \in PageSizes
BY GridAssumption

\* The last page of a list that has rows is not empty.
LEMMA PageShown ==
    ASSUME IsAList(displayTrades), NEW size \in PageSizes
    PROVE  /\ filteredCount \in 0 .. Cardinality(DOMAIN tradeDate)
           /\ filteredCount \in Nat
           /\ lastPage(size) \in 0 .. filteredCount
           /\ filteredCount = 0 => lastPage(size) = 0
           /\ filteredCount > 0 => lastPage(size) * size < filteredCount
<1>1. filteredRows \in SUBSET (DOMAIN displayTrades)
  BY DEF filteredRows
<1>2. filteredCount \in Nat /\ filteredCount \in 0 .. Cardinality(DOMAIN tradeDate)
  BY <1>1, CountOfRows DEF filteredCount
<1>3. size \in Nat \ {0}
  BY PageSizesType
<1> QED
  BY <1>2, <1>3, LastPageHasARow DEF lastPage

\* There is a last page after the step, too.
LEMMA PageShownNext ==
    ASSUME IsAList(displayTrades)', NEW size \in PageSizes
    PROVE  lastPage(size)' \in 0 .. Cardinality(DOMAIN tradeDate)
<1>1. filteredRows' \in SUBSET (DOMAIN displayTrades')
  BY DEF filteredRows
<1>2. filteredCount' \in 0 .. Cardinality(DOMAIN tradeDate) /\ filteredCount' \in Nat
      /\ Cardinality(DOMAIN tradeDate) \in Nat
  BY <1>1, CountOfRows DEF filteredCount
<1>3. size \in Nat \ {0}
  BY PageSizesType
<1>4. lastPage(size)' \in 0 .. filteredCount'
  BY <1>2, <1>3, LastPageHasARow DEF lastPage
<1> QED
  BY <1>2, <1>4

\* The grid starts at the top of its first page.
LEMMA GridInvInit == GridInit => GridInv
<1> SUFFICES ASSUME GridInit PROVE GridInv
  OBVIOUS
<1>1. IsAList(displayTrades)
  BY DEF GridInit, IsAList
<1>2. DEFAULT_PAGE_SIZE \in PageSizes /\ DEFAULT_PAGE_SIZE \in Nat
  BY PageSizesType
<1>3. 0 <= lastPage(DEFAULT_PAGE_SIZE)
  BY <1>1, <1>2, PageShown
<1>4. pagination = [pageIndex |-> 0, pageSize |-> DEFAULT_PAGE_SIZE]
  BY DEF GridInit
<1>5. /\ pagination \in [pageIndex : 0 .. Cardinality(DOMAIN tradeDate), pageSize : PageSizes]
      /\ pagination.pageIndex = 0 /\ pagination.pageSize = DEFAULT_PAGE_SIZE
  <2>1. Cardinality(DOMAIN tradeDate) \in Nat
    BY FS_CardinalityType, GridAssumption
  <2>2. 0 \in 0 .. Cardinality(DOMAIN tradeDate)
    BY <2>1
  <2> QED
    BY <1>2, <1>4, <2>2
<1>6. pagination.pageIndex <= lastPage(pagination.pageSize)
  BY <1>3, <1>5, Zenon
<1> QED
  BY <1>1, <1>5, <1>6 DEF GridInit, GridInv

\* Every step leaves the grid on a page that exists, or the reset due.
LEMMA GridInvStep == GridInv /\ LiveAtTop /\ [GridNext]_gridVars => GridInv'
<1> SUFFICES ASSUME GridInv, LiveAtTop, [GridNext]_gridVars
             PROVE  GridInv'
  OBVIOUS
<1>1. /\ trades' \in Stores
      /\ timeSortDir' \in {"desc", "asc"}
      /\ isAtTop' \in BOOLEAN /\ missed' \in BOOLEAN
      /\ IsAList(displayTrades)'
  <2>1. CASE UNCHANGED listVars
    BY <2>1 DEF GridInv, listVars, IsAList
  <2>2. CASE Remount
    BY <2>2 DEF Remount, GridInv, IsAList
  <2>3. CASE StoreUpdate
    BY <2>3 DEF StoreUpdate, Render, GridInv, IsAList
  <2>4. CASE handleToggleTimeSort
    BY <2>4 DEF handleToggleTimeSort, Render, GridInv, IsAList
  <2>5. CASE onScroll
    BY <2>5 DEF onScroll, Render, GridInv, IsAList
  <2> QED
    BY <2>1, <2>2, <2>3, <2>4, <2>5 DEF GridNext, Event, ToggleSorting,
       handleColumnFilterChange, handleClearFilters, handlePageSizeChange, TurnPage, Type,
       TimerFires, SyncInput, AutoReset, gridVars
<1>2. /\ globalFilter' \in Texts \cup {""} /\ localGlobal' \in Texts \cup {""}
      /\ timer' \in Texts \cup {"", NoTimer}
      /\ synced' \in BOOLEAN
  <2>1. CASE UNCHANGED searchVars
    BY <2>1 DEF GridInv, searchVars
  <2>2. CASE Remount
    BY <2>2 DEF Remount
  <2>3. CASE Type
    BY <2>3 DEF Type, GridInv
  <2>4. CASE TimerFires
    BY <2>4 DEF TimerFires, GridInv
  <2>5. CASE SyncInput
    BY <2>5 DEF SyncInput, GridInv
  <2> QED
    BY <2>1, <2>2, <2>3, <2>4, <2>5 DEF GridNext, Event, StoreUpdate, handleToggleTimeSort,
       onScroll, ToggleSorting, handleColumnFilterChange, handleClearFilters,
       handlePageSizeChange, TurnPage, AutoReset, gridVars
<1>3. sorting' \in {"none", "asc", "desc"} /\ resetDue' \in BOOLEAN
  BY DEF GridInv, GridNext, Event, StoreUpdate, handleToggleTimeSort, onScroll, Render,
     ToggleSorting, handleColumnFilterChange, handleClearFilters, handlePageSizeChange,
     TurnPage, Type, TimerFires, SyncInput, AutoReset, Remount, gridVars, pageVars
<1> DEFINE n == Cardinality(DOMAIN tradeDate)
           PageOK == /\ pagination \in [pageIndex : 0 .. n, pageSize : PageSizes]
                     /\ ~resetDue => pagination.pageIndex <= lastPage(pagination.pageSize)
<1>4. PageOK'
  <2>0. n \in Nat
    BY FS_CardinalityType, GridAssumption
  <2>1. \A size \in PageSizes : lastPage(size)' \in 0 .. n
    BY <1>1, PageShownNext
  <2>2. ASSUME NEW size \in PageSizes PROVE lastPage(size) \in 0 .. n
    <3>1. /\ filteredCount \in Nat /\ filteredCount \in 0 .. n
          /\ lastPage(size) \in 0 .. filteredCount
      BY PageShown DEF GridInv
    <3> QED
      BY <2>0, <3>1
  <2>p. pagination \in [pageIndex : 0 .. n, pageSize : PageSizes]
    BY DEF GridInv
  <2> HIDE DEF n
  <2>3. CASE pagination' = FirstPage
    <3>1. /\ FirstPage \in [pageIndex : 0 .. n, pageSize : PageSizes]
          /\ FirstPage.pageIndex = 0
      BY <2>0, <2>p DEF FirstPage
    <3>2. lastPage(pagination.pageSize)' \in 0 .. n
      BY <2>1, <2>3, <3>1
    <3> QED
      BY <2>0, <2>3, <3>1, <3>2
  <2>4. CASE Remount
    <3>1. /\ pagination' \in [pageIndex : 0 .. n, pageSize : PageSizes]
          /\ pagination'.pageIndex = 0
      <4>1. 0 \in 0 .. n /\ DEFAULT_PAGE_SIZE \in PageSizes
        BY <2>0, PageSizesType
      <4>2. pagination' = [pageIndex |-> 0, pageSize |-> DEFAULT_PAGE_SIZE]
        BY <2>4 DEF Remount
      <4> QED
        BY <4>1, <4>2
    <3>2. lastPage(pagination.pageSize)' \in 0 .. n
      BY <2>1, <3>1
    <3> QED
      BY <2>0, <3>1, <3>2
  <2>5. CASE UNCHANGED pagination /\ resetDue'
    BY <2>5, <2>p
  <2>6. CASE UNCHANGED rowVars /\ UNCHANGED pageVars
    <3>1. \A size \in PageSizes : lastPage(size)' = lastPage(size)
      BY <2>6, SameRows DEF lastPage
    <3> QED
      BY <2>6, <2>p, <3>1 DEF GridInv, pageVars
  <2>7. CASE ~resetDue /\ handlePageSizeChange
    <3>1. PICK size \in PageSizes :
             pagination' = [pageSize |-> size,
                            pageIndex |-> Min({pagination.pageIndex, lastPage(size)})]
      BY <2>7 DEF handlePageSizeChange
    <3>2. lastPage(size)' = lastPage(size)
      BY <2>7, SameRows DEF lastPage, handlePageSizeChange, listVars, searchVars, rowVars
    <3>3. pagination.pageIndex \in 0 .. n /\ lastPage(size) \in 0 .. n
      BY <2>2, <2>p
    <3>4. PICK i \in 0 .. n : i = Min({pagination.pageIndex, lastPage(size)}) /\ i <= lastPage(size)
      BY <2>0, <3>3, MinOfTwo
    <3>5. pagination' = [pageSize |-> size, pageIndex |-> i]
      BY <3>1, <3>4
    <3> QED
      BY <3>2, <3>4, <3>5
  <2>8. CASE ~resetDue /\ TurnPage
    <3> PICK i \in 0 .. n, size \in PageSizes :
             i = pagination.pageIndex /\ size = pagination.pageSize
      BY <2>p
    <3>1. i <= lastPage(size) /\ lastPage(size) \in 0 .. n
      BY <2>2, <2>8 DEF GridInv
    <3>2. lastPage(size)' = lastPage(size)
      BY <2>8, SameRows DEF lastPage, TurnPage, listVars, searchVars, rowVars
    <3>3. PICK k \in 0 .. n : k <= lastPage(size) /\ pagination' = [pagination EXCEPT !.pageIndex = k]
      <4>1. CASE i > 0 /\ pagination' = [pagination EXCEPT !.pageIndex = @ - 1]
        <5>1. i - 1 \in 0 .. n /\ i - 1 <= lastPage(size)
          BY <2>0, <3>1, <4>1
        <5> QED
          BY <4>1, <5>1
      <4>2. CASE i < lastPage(size) /\ pagination' = [pagination EXCEPT !.pageIndex = @ + 1]
        <5>1. i + 1 \in 0 .. n /\ i + 1 <= lastPage(size)
          BY <2>0, <3>1, <4>2
        <5> QED
          BY <4>2, <5>1
      <4> QED
        BY <2>8, <4>1, <4>2 DEF TurnPage
    <3>4. /\ pagination' \in [pageIndex : 0 .. n, pageSize : PageSizes]
          /\ pagination'.pageIndex = k /\ pagination'.pageSize = size
      BY <2>p, <3>3
    <3>5. (lastPage(pagination.pageSize))' = lastPage(size)
      BY <3>2, <3>4
    <3> QED
      BY <3>3, <3>4, <3>5
  <2>9. CASE ~resetDue /\ (StoreUpdate \/ handleToggleTimeSort \/ onScroll)
    <3>1. UNCHANGED <<pagination, sorting, columnFilters, globalFilter>>
      BY <2>9 DEF StoreUpdate, handleToggleTimeSort, onScroll, Render, searchVars
    <3>2. resetDue' \/ (~resetDue' /\ UNCHANGED displayTrades)
      <4>1. CASE onScroll
        BY <4>1, <1>3 DEF onScroll, Render, LiveAtTop, GridInv
      <4>2. CASE StoreUpdate \/ handleToggleTimeSort
        BY <4>2, <1>1 DEF StoreUpdate, handleToggleTimeSort, Render
      <4> QED
        BY <2>9, <4>1, <4>2
    <3> QED
      BY <2>5, <2>6, <2>9, <3>1, <3>2, <1>3 DEF rowVars, pageVars, GridInv
  <2>10. ToggleSorting => UNCHANGED pagination /\ resetDue'
    BY DEF ToggleSorting
  <2>11. handleColumnFilterChange \/ handleClearFilters \/ TimerFires \/ AutoReset
           => pagination' = FirstPage
    BY DEF handleColumnFilterChange, handleClearFilters, TimerFires, AutoReset
  <2>12. Type \/ SyncInput \/ UNCHANGED gridVars => UNCHANGED rowVars /\ UNCHANGED pageVars
    BY DEF Type, SyncInput, gridVars, listVars, rowVars, searchVars
  <2> QED
    BY <2>3, <2>4, <2>5, <2>6, <2>7, <2>8, <2>9, <2>10, <2>11, <2>12 DEF GridNext, Event
<1> QED
  BY <1>1, <1>2, <1>3, <1>4 DEF GridInv

\* The page index never points beyond the last page, through every change of
\* the rows, the filters, the search, the order and the page size, except while
\* the library's reset is queued.
THEOREM PageExists == GridSpec => []GridInv
BY GridInvInit, GridInvStep, RowsAreLiveAtTop, PTL DEF GridSpec

\* Every variable of the grid has its type.
THEOREM GridTypeCorrect == GridSpec => []GridTypeOK
<1>1. GridInv => GridTypeOK
  <2> SUFFICES ASSUME GridInv PROVE GridTypeOK
    OBVIOUS
  <2>1. /\ pagination.pageSize \in PageSizes
        /\ pagination.pageIndex \in 0 .. Cardinality(DOMAIN tradeDate)
    BY DEF GridInv
  <2> QED
    BY <2>1 DEF GridInv, GridTypeOK, IsAList
<1> QED
  BY <1>1, PageExists, PTL

\* The summary line describes rows that are there, and a page is empty only
\* when no trade matches (handlePageSizeChange of TradeTable.tsx and the page
\* reset of its table).
THEOREM SummaryStaysTrue == GridSpec => []SummaryIsTrue
<1>1. GridInv => SummaryIsTrue
  <2> SUFFICES ASSUME GridInv, ~resetDue
               PROVE  IF filteredCount = 0 THEN firstRowNumber = 0 /\ lastRowNumber = 0
                      ELSE /\ 1 <= firstRowNumber /\ firstRowNumber <= lastRowNumber
                           /\ lastRowNumber <= filteredCount
    BY DEF SummaryIsTrue
  <2> DEFINE i == pagination.pageIndex
             size == pagination.pageSize
             end == IF pageStart + size <= filteredCount THEN pageStart + size ELSE filteredCount
  <2>1. i \in Nat /\ size \in Nat \ {0} /\ filteredCount \in Nat /\ size \in PageSizes
    <3>1. i \in 0 .. Cardinality(DOMAIN tradeDate) /\ size \in PageSizes
      BY DEF GridInv
    <3>2. filteredCount \in Nat
      BY <3>1, PageShown DEF GridInv
    <3>3. size \in Nat \ {0}
      BY <3>1, PageSizesType
    <3>4. i \in Nat
      BY <3>1
    <3> QED
      BY <3>1, <3>2, <3>3, <3>4
  <2>2. /\ lastPage(size) \in 0 .. filteredCount
        /\ filteredCount = 0 => lastPage(size) = 0
        /\ filteredCount > 0 => lastPage(size) * size < filteredCount
        /\ i <= lastPage(size)
    BY <2>1, PageShown DEF GridInv
  <2>3. i * size <= lastPage(size) * size
    BY <2>1, <2>2
  <2>4. /\ pageStart \in Nat
        /\ filteredCount = 0 => pageStart = 0
        /\ filteredCount > 0 => pageStart < filteredCount
    BY <2>1, <2>2, <2>3 DEF pageStart
  <2>5. sortedRows = [k \in 1 .. filteredCount |-> sortedRows[k]]
    BY DEF sortedRows, Listed, filteredCount
  <2>6. pageRows = SubSeq(sortedRows, pageStart + 1, end)
    <3>1. pageStart + size \in Int /\ filteredCount \in Int
      BY <2>1, <2>4
    <3>2. Min({pageStart + size, filteredCount}) = end
      BY <3>1, MinOfTwo
    <3> QED
      BY <3>2 DEF pageRows
  <2>7. Len(pageRows) = end - pageStart
    BY <2>1, <2>4, <2>5, <2>6
  <2> HIDE DEF i, size, end
  <2> QED
    BY <2>1, <2>4, <2>7 DEF firstRowNumber, lastRowNumber, end
<1> QED
  BY <1>1, PageExists, PTL

-----------------------------------------------------------------------------
(* The search *)

\* While the input shows another text than the one applied, the timer is about
\* to report exactly that text, or the input is about to be overwritten.
SearchIsUnderWay == localGlobal # globalFilter => timer = localGlobal \/ ~synced

\* No keystroke is lost on its way to the filter: the safety half of what
\* SearchSettles asks of the debounced input (BlotterToolbar.tsx).
THEOREM NoKeystrokeIsLost == GridSpec => []SearchIsUnderWay
<1>1. GridInit => SearchIsUnderWay
  BY DEF GridInit, SearchIsUnderWay
<1>2. SearchIsUnderWay /\ [GridNext]_gridVars => SearchIsUnderWay'
  <2> SUFFICES ASSUME SearchIsUnderWay, [GridNext]_gridVars
               PROVE  SearchIsUnderWay'
    OBVIOUS
  <2>1. CASE Type
    BY <2>1 DEF Type, SearchIsUnderWay
  <2>2. CASE TimerFires
    BY <2>2 DEF TimerFires, SearchIsUnderWay
  <2>3. CASE SyncInput
    BY <2>3 DEF SyncInput, SearchIsUnderWay
  <2>4. CASE Remount
    BY <2>4 DEF Remount, SearchIsUnderWay
  <2>5. CASE UNCHANGED searchVars
    BY <2>5 DEF searchVars, SearchIsUnderWay
  <2>6. StoreUpdate \/ handleToggleTimeSort \/ onScroll \/ ToggleSorting
          \/ handleColumnFilterChange \/ handleClearFilters \/ handlePageSizeChange
          \/ TurnPage \/ AutoReset \/ UNCHANGED gridVars => UNCHANGED searchVars
    BY DEF StoreUpdate, handleToggleTimeSort, onScroll, ToggleSorting,
           handleColumnFilterChange, handleClearFilters, handlePageSizeChange,
           TurnPage, AutoReset, gridVars
  <2> QED
    BY <2>1, <2>2, <2>3, <2>4, <2>5, <2>6 DEF GridNext, Event
<1> QED
  BY <1>1, <1>2, PTL DEF GridSpec
=============================================================================
