------------------------------- MODULE Paging -------------------------------
(***************************************************************************)
(* A list that is read page by page: the keyset query of resource-service  *)
(* and the resources page of the browser with its stack of cursors and its *)
(* cache of answers, while files come and go.  The lists of users, of      *)
(* organisations and of audit records are read the same way, with fewer    *)
(* filters.                                                                *)
(*                                                                         *)
(* A file is a number, which stands for its id.  created_at has            *)
(* microseconds, a cursor milliseconds.                                    *)
(***************************************************************************)
EXTENDS Integers, FiniteSets, Sequences

CONSTANTS
  Files, Created, Size, Described,  \* id, created_at in microseconds, size_bytes, description given
  PerMs,                            \* microseconds in a millisecond
  Limit,                            \* rows on a page
  Chips,                            \* the filter chips, of the four below
  AtFirst,                          \* files there at first
  MaxChanges,                       \* bound on files created and deleted
  None

ASSUME PagingAssumption ==
  /\ Files \subseteq Nat /\ IsFiniteSet(Files) /\ AtFirst \subseteq Files
  /\ Created \in [Files -> Nat] /\ Size \in [Files -> Nat] /\ Described \in [Files -> BOOLEAN]
  /\ PerMs \in Nat \ {0} /\ Limit \in 1..100
  /\ Chips \subseteq {"all", "largest", "recent", "no-description"}
  /\ MaxChanges \in Nat /\ None \notin [value : Nat, id : Nat]

VARIABLES
  present,   \* files not deleted
  changes,
  chip,      \* activeFilterId
  stack,     \* cursorStack
  index,     \* from 1
  data,      \* the page on the screen, perhaps still that of another key
  cache,     \* answers by query key
  fetching,  \* keys being fetched
  trail      \* the pages that were on the screen when Next was pressed

list == <<chip, stack, index, trail>>
vars == <<present, changes, chip, stack, index, data, cache, fetching, trail>>

-----------------------------------------------------------------------------
(* The server *)

BySize(c) == c = "largest"
SortValue(c, f) == IF BySize(c) THEN Size[f] ELSE Created[f]
Matches(c, f) == c = "no-description" => ~Described[f]

\* ORDER BY value DESC, id DESC
Before(c, f, g) ==
  \/ SortValue(c, f) > SortValue(c, g)
  \/ SortValue(c, f) = SortValue(c, g) /\ f > g

\* toISOString knows milliseconds; a size is exact.
EncodeCursor(c, f) ==
  [value |-> IF BySize(c) THEN Size[f] ELSE (Created[f] \div PerMs) * PerMs, id |-> f]

\* Mutant: the row the cursor names comes again.
Beyond_Inclusive(c, f, cur) ==
  SortValue(c, f) < cur.value \/ (SortValue(c, f) = cur.value /\ f <= cur.id)

\* Mutant: no tiebreaker.
Beyond_ValueOnly(c, f, cur) == SortValue(c, f) < cur.value

\* (value, id) < (cursor value, cursor id)
Beyond(c, f, cur) ==
  SortValue(c, f) < cur.value \/ (SortValue(c, f) = cur.value /\ f < cur.id)

\* The page of a query from cursor cur, read of the files P: one row more than fits tells whether there
\* is another page.  The answer also carries P, for the properties.
PageFrom(P, c, cur) ==
  LET rows  == {f \in P : Matches(c, f) /\ (cur # None => Beyond(c, f, cur))}
      items == {f \in rows : Cardinality({g \in rows : Before(c, g, f)}) < Limit}
      last  == CHOOSE f \in items : \A g \in items \ {f} : Before(c, g, f)
  IN  [items |-> items, next |-> IF rows = items THEN None ELSE EncodeCursor(c, last), present |-> P]

\* listPage
ListPage(c, cur) == PageFrom(present, c, cur)

-----------------------------------------------------------------------------
(* The page *)

QueryKey(c, cur) == [chip |-> c, cursor |-> cur]
Current == QueryKey(chip, stack[index])
IsFetching == Current \in fetching

Init ==
  /\ present = AtFirst /\ changes = 0
  /\ chip = "all" /\ stack = <<None>> /\ index = 1 /\ trail = <<>>
  /\ data = None /\ cache = <<>> /\ fetching = {QueryKey("all", None)}

\* A render with another key: its cached answer or, until there is one, what was on the screen
\* (keepPreviousData).  A missing or invalidated answer is fetched; any other is, or is not, older
\* than staleTime and fetched again: `usable' are the keys for which that is open.
Show(c, cur, usable) ==
  LET k == QueryKey(c, cur) IN
  /\ data' = IF k \in DOMAIN cache THEN cache[k] ELSE data
  /\ \/ fetching' = fetching \cup {k}
     \/ k \in usable /\ UNCHANGED fetching

Visit(s, i, t) ==
  /\ stack' = s /\ index' = i /\ trail' = t
  /\ Show(chip, s[i], DOMAIN cache)
  /\ UNCHANGED <<present, changes, chip, cache>>

\* Mutant: the buttons stay on.
Pageable_Always == data # None /\ data.items # {}

\* DataTable: an empty page has no buttons, and while a page is fetched they are off.
Pageable == data # None /\ data.items # {} /\ ~IsFetching

\* goNext: the later part of the stack is given up.
GoNext ==
  /\ Pageable /\ data.next # None
  /\ Visit(Append(SubSeq(stack, 1, index), data.next), index + 1, Append(trail, data))

GoPrevious ==
  /\ Pageable /\ index > 1
  /\ Visit(stack, index - 1, SubSeq(trail, 1, index - 2))

\* The form is closed: reset.
CloseForm == Visit(<<None>>, 1, <<>>)

\* Mutant: the cursors of the old order are kept.
Choose_Keeps(c) ==
  /\ chip' = c /\ c # chip
  /\ Show(c, stack[index], DOMAIN cache)
  /\ UNCHANGED <<present, changes, cache, stack, index, trail>>

\* A chip is chosen: another query, from its first page.
Choose(c) ==
  /\ chip' = c /\ c # chip
  /\ stack' = <<None>> /\ index' = 1 /\ trail' = <<>>
  /\ Show(c, None, DOMAIN cache)
  /\ UNCHANGED <<present, changes, cache>>

\* An answer arrives: it is on the screen if its key still is.
Fetched(k) ==
  /\ k \in fetching
  /\ LET page == ListPage(k.chip, k.cursor) IN
       /\ cache' = [j \in DOMAIN cache \cup {k} |-> IF j = k THEN page ELSE cache[j]]
       /\ data' = IF k = Current THEN page ELSE data
  /\ fetching' = fetching \ {k}
  /\ UNCHANGED <<present, changes, list>>

\* The error state instead of the table.
FetchFails(k) ==
  /\ k \in fetching
  /\ data' = IF k = Current THEN None ELSE data
  /\ fetching' = fetching \ {k}
  /\ UNCHANGED <<present, changes, cache, list>>

\* Retry, or a stale answer is fetched again because the window gets the focus.
Refetch ==
  /\ ~IsFetching /\ fetching' = fetching \cup {Current}
  /\ UNCHANGED <<present, changes, data, cache, list>>

-----------------------------------------------------------------------------
(* Files come and go *)

Change(p) == changes < MaxChanges /\ changes' = changes + 1 /\ present' = p

\* By this user, with the form: every answer is invalidated and paging restarts.
CreateHere(f) ==
  /\ f \in Files \ present /\ Change(present \cup {f})
  /\ stack' = <<None>> /\ index' = 1 /\ trail' = <<>>
  /\ Show(chip, None, {})
  /\ UNCHANGED <<chip, cache>>

\* By this user, in a row of the table: every answer is invalidated, the place is kept.
DeleteHere(f) ==
  /\ data # None /\ f \in data.items \cap present /\ Change(present \ {f})
  /\ fetching' = fetching \cup {Current}
  /\ UNCHANGED <<data, cache, list>>

\* By somebody else.
ChangeElsewhere(p) ==
  /\ Change(p)
  /\ UNCHANGED <<data, cache, fetching, list>>

Next ==
  \/ GoNext \/ GoPrevious \/ CloseForm \/ Refetch
  \/ \E c \in Chips : Choose(c)
  \/ \E k \in fetching : Fetched(k) \/ FetchFails(k)
  \/ \E f \in Files : \/ CreateHere(f) \/ DeleteHere(f)
                      \/ ChangeElsewhere(present \cup {f}) /\ f \notin present
                      \/ ChangeElsewhere(present \ {f}) /\ f \in present

Spec == Init /\ [][Next]_vars
=============================================================================
