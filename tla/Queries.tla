------------------------------- MODULE Queries -------------------------------
(***************************************************************************)
(* What the query methods of the stores have in common: a filter that is   *)
(* not set, and the two ways of cutting a page out of what was found.      *)
(* ListTasks, ListData and ListAlerts count while they walk over the map;  *)
(* SearchData slices a sorted result.                                      *)
(***************************************************************************)
EXTENDS Integers, SequencesExt

\* "any" stands for a field of the query that is not set.
Matches(wanted, value) == wanted = "any" \/ wanted = value

\* The loop of ListData over what passes the filters: skip the first offset
\* ones, then collect until there are limit of them.
ListPage(found, limit, offset) ==
    LET visit(page, x) ==
            IF page.count < offset THEN [page EXCEPT !.count = @ + 1]
            ELSE IF limit > 0 /\ Len(page.result) >= limit THEN page
            ELSE [count |-> page.count + 1, result |-> Append(page.result, x)]
        walk[i \in 0 .. Len(found)] ==
            IF i = 0 THEN [count |-> 0, result |-> <<>>] ELSE visit(walk[i - 1], found[i])
    IN  walk[Len(found)].result

\* Mutant: the limit is counted from the start of the list.
SlicePage_LimitFromStart(found, limit, offset) ==
    LET first == IF offset > 0 THEN offset + 1 ELSE 1
    IN  IF offset >= Len(found) THEN <<>>
        ELSE SubSeq(found, first, IF 0 < limit /\ limit < Len(found) THEN limit ELSE Len(found))

\* The end of SearchData.
SlicePage(found, limit, offset) ==
    LET rest == IF offset > 0 THEN SubSeq(found, offset + 1, Len(found)) ELSE found
    IN  IF offset >= Len(found) THEN <<>>
        ELSE IF 0 < limit /\ limit < Len(rest) THEN SubSeq(rest, 1, limit) ELSE rest

-----------------------------------------------------------------------------
(* What a page is.  Limits and offsets of zero and below are none.          *)

PageLength(n, limit, offset) ==
    LET left == Max({0, n - Max({0, offset})})
    IN  IF limit > 0 THEN Min({limit, left}) ELSE left

Cut(s, limit, offset) ==
    [i \in 1 .. PageLength(Len(s), limit, offset) |-> s[Max({0, offset}) + i]]

\* A page of a walk in no order: as many records as there are left, none twice
\* and all of them from S.
PageOf(page, S, limit, offset) ==
    /\ Len(page) = PageLength(Cardinality(S), limit, offset)
    /\ IsInjective(page)
    /\ Range(page) \subseteq S

=============================================================================
