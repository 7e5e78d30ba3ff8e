---------------------------- MODULE BlotterGrid ----------------------------
(***************************************************************************)
(* The grid over the live list of trades: order, filters, debounced        *)
(* search, pages, and the rows held still while the user has scrolled away *)
(* from the top (TradeTable.tsx, BlotterToolbar.tsx).                      *)
(*                                                                         *)
(* A handler and the render after it are one step.  When the rows change,  *)
(* the table library queues a reset of the page as a microtask, so the new *)
(* rows are rendered once with the old page index; no event comes between. *)
(* The toolbar's effect that copies the applied search back into the input *)
(* runs later, and the user may type before it does.                       *)
(***************************************************************************)
EXTENDS Integers, FiniteSetsExt, Listing

CONSTANTS
    Stores,       \* the lists the store may hold: id -> [symbol, price]
    tradeDate,    \* id -> time of creation
    Included,     \* symbol -> the texts it contains
    Texts,        \* texts typed into the search and the symbol filter
    Numeral,      \* spelling -> number, for the two bounds of the price
    PageSizes,    \* PAGE_SIZE_OPTIONS
    DEFAULT_PAGE_SIZE

ASSUME GridAssumption ==
    /\ \A s \in Stores : DOMAIN s \subseteq DOMAIN tradeDate
    /\ IsFiniteSet(DOMAIN tradeDate)
    /\ \A i \in DOMAIN tradeDate : i \in Nat /\ tradeDate[i] \in Nat
    /\ "" \notin Texts \cup DOMAIN Numeral
    /\ PageSizes \subseteq Nat \ {0} /\ DEFAULT_PAGE_SIZE \in PageSizes

VARIABLES
    trades,         \* the store
    timeSortDir,    \* "desc" or "asc"
    sorting,        \* the order of the price column, on top of the time
    isAtTop,        \* whether the list is scrolled to its top
    displayTrades,  \* the rows rendered, frozenTradesRef while not at the top
    missed,         \* whether the list was rebuilt since displayTrades was taken
    columnFilters,  \* the controls of the filter bar
    pagination,     \* page index and size
    resetDue,       \* whether the library has queued a reset of the page index
    globalFilter,   \* the search that is applied
    localGlobal,    \* the text in the search input
    timer,          \* the text the debounce timer will report, if it is armed
    synced          \* whether the input's effect has seen globalFilter

searchVars == <<globalFilter, localGlobal, timer, synced>>
listVars == <<trades, timeSortDir, isAtTop, displayTrades, missed>>
pageVars == <<pagination, resetDue>>
gridVars == <<listVars, sorting, columnFilters, pageVars, searchVars>>

NoTimer == "none"
EMPTY_COLUMN_FILTERS == [symbol |-> "", priceMin |-> "", priceMax |-> ""]
FirstPage == [pagination EXCEPT !.pageIndex = 0]

-----------------------------------------------------------------------------
(* What is rendered *)

\* sortedTrades: by creation, ties by id in the same direction.
Later(i, j) == \/ tradeDate[i] > tradeDate[j]
               \/ tradeDate[i] = tradeDate[j] /\ i > j
Before(dir, i, j) == IF dir = "desc" THEN Later(i, j) ELSE Later(j, i)
sortedTrades(store, dir) ==
    LET ids == Listed(DOMAIN store,
                      {p \in (DOMAIN store) \X (DOMAIN store) : Before(dir, p[1], p[2])})
    IN [k \in DOMAIN ids |-> [id |-> ids[k], symbol |-> store[ids[k]].symbol,
                              price |-> store[ids[k]].price]]

\* The two bounds of a range as the filter sees them: an empty one is open.
toBound(raw) == IF raw = "" THEN {} ELSE {Numeral[raw]}

\* columnFilters: the filters in effect, one for a range with any bound.
InEffect == {c \in {"symbol"} : columnFilters[c] # ""} \cup
            {c \in {"price"} : toBound(columnFilters.priceMin)
                                 \cup toBound(columnFilters.priceMax) # {}}

\* activeFilterCount: what the toolbar counts, from the raw controls.
activeFilterCount ==
    (IF columnFilters.symbol # "" THEN 1 ELSE 0) +
    (IF columnFilters.priceMin # "" \/ columnFilters.priceMax # "" THEN 1 ELSE 0)

\* inNumberRange: bounds given the wrong way round are swapped.
InRange(n, low, high) ==
    IF low = {} \/ high = {}
    THEN (\A m \in low : m <= n) /\ (\A m \in high : n <= m)
    ELSE Min(low \cup high) <= n /\ n <= Max(low \cup high)

Matches(row) ==
    /\ globalFilter # "" => globalFilter \in Included[row.symbol]
    /\ "symbol" \in InEffect => columnFilters.symbol \in Included[row.symbol]
    /\ "price" \in InEffect =>
         InRange(row.price, toBound(columnFilters.priceMin),
                            toBound(columnFilters.priceMax))

\* The rows that pass the filters, as positions in displayTrades.
filteredRows == {k \in DOMAIN displayTrades : Matches(displayTrades[k])}
filteredCount == Cardinality(filteredRows)

\* The library's column order keeps the time order among equals.
Precedes(k, l) ==
    LET p == displayTrades[k].price
        q == displayTrades[l].price
    IN IF p = q \/ sorting = "none" THEN k < l ELSE IF sorting = "asc" THEN p < q ELSE p > q
sortedRows ==
    LET order == Listed(filteredRows, {p \in filteredRows \X filteredRows :
                                           Precedes(p[1], p[2])})
    IN [k \in DOMAIN order |-> displayTrades[order[k]]]

pageStart == pagination.pageIndex * pagination.pageSize
pageRows == SubSeq(sortedRows, pageStart + 1, Min({pageStart + pagination.pageSize, filteredCount}))

lastPage(size) == Max({0, (filteredCount + size - 1) \div size - 1})
firstRowNumber == IF filteredCount = 0 THEN 0 ELSE pageStart + 1
lastRowNumber == pageStart + Len(pageRows)

-----------------------------------------------------------------------------
(* The list *)

\* Faulty variant: the rows follow the list wherever the user has scrolled to.
RenderAlways(rebuilt) ==
    /\ displayTrades' = sortedTrades(trades', timeSortDir')
    /\ missed' = FALSE
    /\ resetDue' = rebuilt
    /\ UNCHANGED pagination

\* displayTrades follows the list at the top and is held elsewhere; rebuilt
\* tells whether the list is another array than the one displayed last.
Render(rebuilt) ==
    /\ displayTrades' = IF isAtTop' THEN sortedTrades(trades', timeSortDir') ELSE displayTrades
    /\ missed' = (~isAtTop' /\ rebuilt)
    /\ resetDue' = (isAtTop' /\ rebuilt)
    /\ UNCHANGED pagination

\* autoResetPageIndex: the queued microtask runs.
AutoReset ==
    /\ resetDue
    /\ resetDue' = FALSE
    /\ pagination' = FirstPage
    /\ UNCHANGED <<listVars, sorting, columnFilters, searchVars>>

\* The feed or an answer of GET /trades changes the store.
StoreUpdate ==
    /\ \E s \in Stores \ {trades} : trades' = s
    /\ UNCHANGED <<timeSortDir, isAtTop>>
    /\ Render(TRUE)
    /\ UNCHANGED <<sorting, columnFilters, searchVars>>

handleToggleTimeSort ==
    /\ timeSortDir' = IF timeSortDir = "desc" THEN "asc" ELSE "desc"
    /\ UNCHANGED <<trades, isAtTop>>
    /\ Render(TRUE)
    /\ UNCHANGED <<sorting, columnFilters, searchVars>>

\* Faulty variant: the rows are taken anew only when the list changes.
ScrollOnly ==
    /\ isAtTop' = ~isAtTop
    /\ UNCHANGED <<trades, timeSortDir, displayTrades, missed, pageVars,
                   sorting, columnFilters, searchVars>>

onScroll ==
    /\ isAtTop' = ~isAtTop
    /\ UNCHANGED <<trades, timeSortDir>>
    /\ Render(missed)
    /\ UNCHANGED <<sorting, columnFilters, searchVars>>

-----------------------------------------------------------------------------
(* Order, filters and pages *)

\* A click on a column's header; its rows change, so the page is to be reset.
ToggleSorting ==
    /\ sorting' \in {"none", "asc", "desc"} \ {sorting}
    /\ resetDue' = TRUE
    /\ UNCHANGED <<listVars, columnFilters, pagination, searchVars>>

handleColumnFilterChange ==
    /\ \/ \E v \in Texts \cup {""} : columnFilters' = [columnFilters EXCEPT !.symbol = v]
       \/ \E c \in {"priceMin", "priceMax"}, v \in DOMAIN Numeral \cup {""} :
             columnFilters' = [columnFilters EXCEPT ![c] = v]
    /\ columnFilters' # columnFilters
    /\ pagination' = FirstPage
    /\ UNCHANGED <<listVars, sorting, resetDue, searchVars>>

\* Clear; the search is none of the column filters.
handleClearFilters ==
    /\ activeFilterCount > 0
    /\ columnFilters' = EMPTY_COLUMN_FILTERS
    /\ pagination' = FirstPage
    /\ UNCHANGED <<listVars, sorting, resetDue, searchVars>>

\* Faulty variant: the page index is kept.
PageSizeUnclamped ==
    /\ \E size \in PageSizes \ {pagination.pageSize} :
          pagination' = [pageSize |-> size, pageIndex |-> pagination.pageIndex]
    /\ UNCHANGED <<listVars, sorting, columnFilters, resetDue, searchVars>>

handlePageSizeChange ==
    /\ \E size \in PageSizes \ {pagination.pageSize} :
          pagination' = [pageSize |-> size,
                         pageIndex |-> Min({pagination.pageIndex, lastPage(size)})]
    /\ UNCHANGED <<listVars, sorting, columnFilters, resetDue, searchVars>>

\* Faulty variant: Next is never disabled.
TurnAnyPage ==
    /\ \/ /\ pagination.pageIndex > 0
          /\ pagination' = [pagination EXCEPT !.pageIndex = @ - 1]
       \/ pagination' = [pagination EXCEPT !.pageIndex = @ + 1]
    /\ UNCHANGED <<listVars, sorting, columnFilters, resetDue, searchVars>>

\* Previous and Next.
TurnPage ==
    /\ \/ /\ pagination.pageIndex > 0
          /\ pagination' = [pagination EXCEPT !.pageIndex = @ - 1]
       \/ /\ pagination.pageIndex < lastPage(pagination.pageSize)
          /\ pagination' = [pagination EXCEPT !.pageIndex = @ + 1]
    /\ UNCHANGED <<listVars, sorting, columnFilters, resetDue, searchVars>>

-----------------------------------------------------------------------------
(* The search *)

\* The debounce effect re-arms the timer with what the input holds now; an
\* input whose effect is due is about to be overwritten.
Type ==
    /\ \E text \in (Texts \cup {""}) \ {localGlobal} :
          /\ localGlobal' = text
          /\ timer' = IF text = globalFilter \/ ~synced THEN NoTimer ELSE text
    /\ UNCHANGED <<listVars, sorting, columnFilters, pageVars, globalFilter, synced>>

\* Faulty variant: the timer reports the text of the render it was armed in.
ReportStale ==
    /\ timer # NoTimer
    /\ timer' = NoTimer
    /\ UNCHANGED <<listVars, sorting, columnFilters, pageVars, globalFilter,
                   localGlobal, synced>>

\* handleGlobalFilterChange, called by the timer.
TimerFires ==
    /\ timer # NoTimer
    /\ globalFilter' = timer
    /\ timer' = NoTimer
    /\ synced' = FALSE
    /\ pagination' = FirstPage
    /\ UNCHANGED <<listVars, sorting, columnFilters, resetDue, localGlobal>>

\* The effect on globalFilter.
SyncInput ==
    /\ ~synced
    /\ localGlobal' = globalFilter
    /\ timer' = NoTimer
    /\ synced' = TRUE
    /\ UNCHANGED <<listVars, sorting, columnFilters, pageVars, globalFilter>>

-----------------------------------------------------------------------------
GridInit ==
    /\ trades \in Stores
    /\ timeSortDir = "desc"
    /\ sorting = "none"
    /\ isAtTop = TRUE
    /\ displayTrades = sortedTrades(trades, "desc")
    /\ missed = FALSE
    /\ columnFilters = EMPTY_COLUMN_FILTERS
    /\ pagination = [pageIndex |-> 0, pageSize |-> DEFAULT_PAGE_SIZE]
    /\ resetDue = FALSE
    /\ globalFilter = "" /\ localGlobal = "" /\ timer = NoTimer /\ synced = TRUE

\* Another tab unmounts the grid, and with it all but the store.
Remount ==
    /\ timeSortDir' = "desc"
    /\ sorting' = "none"
    /\ isAtTop' = TRUE
    /\ displayTrades' = sortedTrades(trades, "desc")
    /\ missed' = FALSE
    /\ columnFilters' = EMPTY_COLUMN_FILTERS
    /\ pagination' = [pageIndex |-> 0, pageSize |-> DEFAULT_PAGE_SIZE]
    /\ resetDue' = FALSE
    /\ globalFilter' = "" /\ localGlobal' = "" /\ timer' = NoTimer /\ synced' = TRUE
    /\ UNCHANGED trades

\* What an event of the user, the socket or the network does.
Event ==
    \/ StoreUpdate \/ handleToggleTimeSort \/ onScroll
    \/ ToggleSorting \/ handleColumnFilterChange \/ handleClearFilters
    \/ handlePageSizeChange \/ TurnPage
    \/ Type
    \/ Remount

GridNext ==
    \/ ~resetDue /\ Event
    \/ AutoReset \/ TimerFires \/ SyncInput

\* Effects run, and users pause long enough for the timer now and then.
GridSpec ==
    /\ GridInit /\ [][GridNext]_gridVars
    /\ WF_gridVars(TimerFires) /\ WF_gridVars(SyncInput)

-----------------------------------------------------------------------------
(* Properties *)

\* Every variable stays within its type.
GridTypeOK ==
    /\ trades \in Stores
    /\ timeSortDir \in {"desc", "asc"}
    /\ sorting \in {"none", "asc", "desc"}
    /\ {isAtTop, missed, resetDue, synced} \subseteq BOOLEAN
    /\ \E s \in Stores, dir \in {"desc", "asc"} : displayTrades = sortedTrades(s, dir)
    /\ pagination.pageSize \in PageSizes
    /\ pagination.pageIndex \in 0 .. Cardinality(DOMAIN tradeDate)
    /\ {globalFilter, localGlobal} \subseteq Texts \cup {""}

\* At the top, and as long as the list was not rebuilt since the user left it,
\* the rows are those of the store in the order the toggle shows: displayTrades
\* is taken anew on the way back, and not only when the list changes.
LiveAtTop ==
    isAtTop \/ ~missed => displayTrades = sortedTrades(trades, timeSortDir)

\* Away from the top no broadcast moves, adds or takes away a row under the
\* user's pointer, nor turns the page (Requirement 22.8, TradeTable.tsx:255).
StreamNeverMovesRows ==
    [][~isAtTop /\ trades' # trades => pageRows' = pageRows]_gridVars

\* "Showing X-Y of Z" describes rows that are there, and a page is empty only
\* when no trade matches, whatever shrank while the page index stood: new
\* rows, filters, a larger page size (TradeTable.tsx:406); excepted is only the
\* one render before the library's queued reset.
SummaryIsTrue == ~resetDue =>
    IF filteredCount = 0 THEN firstRowNumber = 0 /\ lastRowNumber = 0
    ELSE 1 <= firstRowNumber /\ firstRowNumber <= lastRowNumber
                             /\ lastRowNumber <= filteredCount

\* Once the user pauses, the grid is searched for what the input shows.
SearchSettles == localGlobal # globalFilter ~> localGlobal = globalFilter
=============================================================================
