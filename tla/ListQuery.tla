----------------------------- MODULE ListQuery -----------------------------
(***************************************************************************)
(* A paged and filtered list on screen: what is typed or chosen, what has  *)
(* been asked for, and the rows that arrived, with those of the query      *)
(* before it kept until they do.                                           *)
(***************************************************************************)
EXTENDS Naturals, SequencesExt

CONSTANTS
    None,
    Filter,         \* records of the text typed and the facet chip chosen
    MaxPages, MaxSteps  \* bounds: pages of a list, steps of it made elsewhere

VARIABLES
    filters,    \* what the inputs show
    applied,    \* the page and filters asked for
    timer,      \* the filters the debounce is waiting to apply, or None
    pages,      \* how many pages the server has under each filter
    fetching,   \* queries on their way
    cached,     \* queries answered: how many pages each answer told
    failed,     \* the answer to the query asked for was an error
    shown,      \* the query whose rows are on screen, or None
    steps, stray
    \* stray: the page asked for was chosen among those of another query, or of a
    \*        list that has shrunk

vars == <<filters, applied, timer, pages, fetching, cached, failed, shown, steps, stray>>

NoFilter == [name |-> "", attr |-> ""]
Query(page, f) == [page |-> page, filters |-> f]
Queries == [page : 1 .. MaxPages, filters : Filter]

Init ==
    /\ filters = NoFilter /\ applied = Query(1, NoFilter) /\ timer = None
    /\ pages \in [Filter -> 1 .. MaxPages]
    /\ \A f \in Filter : pages[f] <= pages[NoFilter]
    /\ fetching = {applied} /\ cached = [k \in Queries |-> 0] /\ failed = FALSE /\ shown = None
    /\ steps = 0 /\ stray = FALSE

\* The key of the fetch changes: what the cache holds for it is shown at once,
\* and it is fetched in either case.
Apply(query) ==
    /\ applied' = query
    /\ IF query = applied THEN UNCHANGED <<fetching, failed, shown>>
       ELSE /\ fetching' = fetching \cup {query} /\ failed' = FALSE
            /\ shown' = IF cached[query] > 0 THEN query ELSE shown

\* The effect of a change: the wait begins anew, unless there is nothing to apply.
Wait(f) == timer' = IF f = applied.filters THEN None ELSE f

SetFilters ==
    /\ \E f \in Filter \ {filters} : f.attr = filters.attr /\ filters' = f /\ Wait(f)
    /\ UNCHANGED <<applied, pages, fetching, cached, failed, shown, steps, stray>>

TimerFires ==
    /\ timer # None
    /\ Apply(Query(1, timer)) /\ timer' = None
    /\ stray' = FALSE
    /\ UNCHANGED <<filters, pages, cached, steps>>

\* (mutant) What was typed before still waits.
CommitFilters_Waits ==
    /\ \E f \in Filter :
         /\ f = NoFilter \/ (f.name = filters.name /\ f.attr # filters.attr)
         /\ filters' = f /\ Apply(Query(1, f))
    /\ stray' = FALSE
    /\ UNCHANGED <<timer, pages, cached, steps>>

\* A chip, chosen again to be dropped, or the button that clears the filters.
CommitFilters ==
    /\ \E f \in Filter :
         /\ f = NoFilter \/ (f.name = filters.name /\ f.attr # filters.attr)
         /\ filters' = f /\ Apply(Query(1, f))
    /\ timer' = None /\ stray' = FALSE
    /\ UNCHANGED <<pages, cached, steps>>

\* One step from the page shown, which may be of another query.
SetPage ==
    /\ shown # None /\ cached[shown] > 1
    /\ \E p \in {shown.page - 1, shown.page + 1} \cap (1 .. cached[shown]) :
         Apply(Query(p, applied.filters))
    /\ stray' = (stray \/ shown.filters # applied.filters \/ cached[shown] # pages[shown.filters])
    /\ UNCHANGED <<filters, timer, pages, cached, steps>>

Answer ==
    /\ \E k \in fetching :
         /\ fetching' = fetching \ {k} /\ cached' = [cached EXCEPT ![k] = pages[k.filters]]
         /\ shown' = IF k = applied THEN k ELSE shown
    /\ UNCHANGED <<filters, applied, timer, pages, failed, steps, stray>>

\* It is not tried again.
Fail ==
    /\ \E k \in fetching : fetching' = fetching \ {k} /\ failed' = (failed \/ k = applied)
    /\ UNCHANGED <<filters, applied, timer, pages, cached, shown, steps, stray>>

Elsewhere ==
    /\ steps < MaxSteps /\ steps' = steps + 1
    /\ \E f \in Filter : pages[f] > 1 /\ pages' = [pages EXCEPT ![f] = @ - 1]
    /\ stray' = TRUE
    /\ UNCHANGED <<filters, applied, timer, fetching, cached, failed, shown>>

Next == SetFilters \/ TimerFires \/ CommitFilters \/ SetPage \/ Answer \/ Fail \/ Elsewhere

Spec == Init /\ [][Next]_vars

-----------------------------------------------------------------------------
(* Properties *)

\* A list that waits for nothing shows the rows of what its inputs show, or an
\* error; and a page that exists, unless it went astray.
SettledShowsTyped ==
    timer = None /\ applied \notin fetching =>
        /\ applied.filters = filters
        /\ shown = applied \/ failed
        /\ ~stray => applied.page <= pages[filters]
=============================================================================
