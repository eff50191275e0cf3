----------------------------- MODULE PagingProps -----------------------------
(***************************************************************************)
(* The properties of Paging.                                               *)
(***************************************************************************)
EXTENDS Paging

\* The screen shows what it was asked for.
Settled == data # None /\ ~IsFetching

\* The pages of a walk from the first page to the one on the screen.
Walk == Append(trail, data)

\* Going forward shows nothing twice, whatever is created or deleted on the way and however old the
\* cached pages are.
NothingTwice ==
  Settled => \A i, j \in 1..index : i # j => Walk[i].items \cap Walk[j].items = {}

\* A file created in the same millisecond as the last row of a page, which the cursor forgets.
BlurredAt(f, i) == ~BySize(chip) /\ (Created[f] \div PerMs) * PerMs = stack[i].value
Blurred(f) == \E i \in 2..index : BlurredAt(f, i)

\* A walk that reaches the end has shown every file that was there when each of its pages was read,
\* except for blurred ones.
NothingMissed ==
  Settled /\ data.next = None =>
    \A f \in Files :
      Matches(chip, f) /\ ~Blurred(f) /\ (\A i \in 1..index : f \in Walk[i].present)
        => \E i \in 1..index : f \in Walk[i].items
-----------------------------------------------------------------------------
(* The inductive invariant *)

Cursors == [value : Nat, id : Files]
Pages   == [items : SUBSET Files, next : Cursors \cup {None}, present : SUBSET Files]
Keys    == [chip : Chips \cup {"all"}, cursor : Cursors \cup {None}]

\* Every variable has its type; the walk to the page on the screen has a cursor for each page and a
\* page for each but the last.
PagingTypes ==
  /\ present \subseteq Files /\ chip \in Chips \cup {"all"}
  /\ index \in Nat \ {0} /\ stack \in Seq(Cursors \cup {None}) /\ index <= Len(stack)
  /\ trail \in Seq(Pages) /\ Len(trail) = index - 1
  /\ data \in Pages \cup {None}
  /\ DOMAIN cache \subseteq Keys /\ fetching \subseteq Keys

\* p is what some read of query c from cursor cur answered.
IsPage(p, c, cur) == p.present \subseteq Files /\ p = PageFrom(p.present, c, cur)

\* An answer in the cache, and a page on the screen that is not being fetched, is of its own key.
Answers == \A k \in DOMAIN cache : IsPage(cache[k], k.chip, k.cursor)
Shown   == ~IsFetching /\ data # None => IsPage(data, chip, stack[index])

\* The walk began at the first page, and each of its pages led to the next.
Trodden ==
  /\ stack[1] = None
  /\ \A i \in 1..(index - 1) : /\ IsPage(trail[i], chip, stack[i])
                              /\ stack[i + 1] = trail[i].next /\ stack[i + 1] # None

\* File f comes on the page of cursor cur, or later.
Ahead(c, f, cur) == cur # None => Beyond(c, f, cur)

\* What comes after a later cursor comes after the earlier ones.
Descending ==
  \A i, j \in 1..index : i < j =>
    \A f \in Files : Ahead(chip, f, stack[j]) => Ahead(chip, f, stack[i])

\* Up to each cursor of the walk a file that was there all along, and is not blurred, was shown or is
\* still to come.
Covered ==
  \A j \in 1..index, f \in Files :
    Matches(chip, f) /\ (\A i \in 2..j : ~BlurredAt(f, i)) /\ (\A i \in 1..(j - 1) : f \in trail[i].present)
      => (\E i \in 1..(j - 1) : f \in trail[i].items) \/ Ahead(chip, f, stack[j])

PagingInv == PagingTypes /\ Answers /\ Shown /\ Trodden /\ Descending /\ Covered
=============================================================================
