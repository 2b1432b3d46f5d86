------------------------------ MODULE DataIndex ------------------------------
(***************************************************************************)
(* DataStore of internal/archiver/store.go: the observation data with one  *)
(* index per searchable field, kept under s.mu, and the search over them.  *)
(* Every record is built once by NewObservationData, so that its fields    *)
(* are constants and only its archive status changes.  UpdateData, which   *)
(* would leave the indexes behind, has no caller.                          *)
(***************************************************************************)
EXTENDS Queries

CONSTANTS
    Data,       \* data identifiers
    Fields,     \* target, task, node, format, telescope, filter, metadata keys
    Values,     \* what such a field may hold
    Unset,      \* the empty value: not indexed, and no condition in a query
    FieldOf,    \* FieldOf[d][f], a value or Unset
    SizeOf,     \* ObservationData.Size
    CreationOf, \* ObservationData.CreatedAt
    Bounds,     \* bounds on the size that queries carry, 0 for none
    DefaultLimit, \* the limit of a search without one
    Limits, Offsets \* the pages that queries ask for

ASSUME DataAssumption ==
    /\ Unset \notin Values
    /\ FieldOf \in [Data -> [Fields -> Values \cup {Unset}]]
    /\ SizeOf \in [Data -> Int] /\ CreationOf \in [Data -> Int]
    /\ Bounds \subseteq Nat /\ Limits \subseteq Int /\ Offsets \subseteq Int
    /\ DefaultLimit \in Nat \ {0}

VARIABLES archiveStatus,  \* ObservationData.ArchiveStatus, "absent" when not stored
          index           \* the index maps: identifiers by field and value

dataVars == <<archiveStatus, index>>

ArchiveStatus == {"pending", "archived", "failed"}

DataIndexInit ==
    /\ archiveStatus = [d \in Data |-> "absent"]
    /\ index = [f \in Fields |-> [v \in Values |-> {}]]

Kept(d) == archiveStatus[d] # "absent"

addToIndexes(d) ==
    index' = [f \in Fields |-> [v \in Values |->
                IF FieldOf[d][f] = v THEN index[f][v] \cup {d} ELSE index[f][v]]]

AddData(d) ==
    /\ ~Kept(d)
    /\ archiveStatus' = [archiveStatus EXCEPT ![d] = "pending"]
    /\ addToIndexes(d)

\* MarkArchived and MarkFailed, which look at no earlier status.
Mark(d, s) ==
    /\ Kept(d)
    /\ archiveStatus' = [archiveStatus EXCEPT ![d] = s]
    /\ UNCHANGED index

DataIndexNext ==
    \E d \in Data : AddData(d) \/ Mark(d, "archived") \/ Mark(d, "failed")

DataIndexSpec == DataIndexInit /\ [][DataIndexNext]_dataVars

-----------------------------------------------------------------------------
(* SearchData.  A query is a record of the fields it wants, a status and    *)
(* bounds on the size, where 0 is no bound; the time bounds work alike.     *)

\* Mutant: no candidate left is taken for no filter given.
Candidates_EmptyMeansAll(q) ==
    LET found == {d \in Data : \A f \in Fields :
                     q.wanted[f] # Unset => d \in index[f][q.wanted[f]]}
    IN  IF found = {} THEN {d \in Data : Kept(d)} ELSE found

\* The intersection of the index entries, or everything without a filter.
Candidates(q) ==
    LET named == {f \in Fields : q.wanted[f] # Unset}
    IN  IF named = {} THEN {d \in Data : Kept(d)}
        ELSE {d \in Data : \A f \in named : d \in index[f][q.wanted[f]]}

Results(q) ==
    {d \in Candidates(q) :
        /\ Kept(d)
        /\ Matches(q.status, archiveStatus[d])
        /\ q.min > 0 => SizeOf[d] >= q.min
        /\ q.max > 0 => SizeOf[d] <= q.max}

Before(d, e, sortBy, ascending) ==
    LET key == IF sortBy = "size" THEN SizeOf ELSE CreationOf
    IN  IF ascending THEN key[d] < key[e] ELSE key[d] > key[e]

\* What sort.Slice, which is not stable, may leave behind.
Sortings(S, sortBy, ascending) ==
    {s \in SetToSeqs(S) : \A i, j \in DOMAIN s : i < j => ~Before(s[j], s[i], sortBy, ascending)}

\* ListData walks over the map in any order, another one at each call.
ListData(s, limit, offset) ==
    {ListPage(found, limit, offset) :
        found \in SetToSeqs({d \in Data : Kept(d) /\ Matches(s, archiveStatus[d])})}

DataStats ==
    [total |-> Cardinality({d \in Data : Kept(d)}),
     count |-> [s \in ArchiveStatus |-> Cardinality({d \in Data : archiveStatus[d] = s})],
     size |-> SumFunctionOnSet(SizeOf, {d \in Data : Kept(d)})]

\* The pages that SearchData may answer with, and the total beside them.
SearchData(q, sortBy, ascending, limit, offset) ==
    {[page |-> SlicePage(s, limit, offset), total |-> Len(s)] :
        s \in Sortings(Results(q), sortBy, ascending)}

\* The request for a search: no limit is a limit of 50.
PageLimit(limit) == IF limit = 0 THEN DefaultLimit ELSE limit

\* GetDistinctTargets and its like: the keys of one index map.
Offered(f) == {v \in Values : index[f][v] # {}}

-----------------------------------------------------------------------------

SearchQueries == [wanted : [Fields -> Values \cup {Unset}], status : ArchiveStatus \cup {"any"},
                  min : Bounds, max : Bounds]

Satisfies(d, q) ==
    /\ Kept(d)
    /\ \A f \in Fields : q.wanted[f] = Unset \/ FieldOf[d][f] = q.wanted[f]
    /\ Matches(q.status, archiveStatus[d])
    /\ q.min = 0 \/ SizeOf[d] >= q.min
    /\ q.max = 0 \/ SizeOf[d] <= q.max

\* The indexes that addToIndexes keeps find what a walk over all the data would
\* find, whatever the query combines, and every value that the lists of
\* targets, telescopes and filters offer finds something.
SearchExact ==
    /\ \A q \in SearchQueries : Results(q) = {d \in Data : Satisfies(d, q)}
    /\ \A f \in Fields : \A v \in Offered(f) : \E d \in Data : Kept(d) /\ FieldOf[d][f] = v

AllData == [wanted |-> [f \in Fields |-> Unset], status |-> "any", min |-> 0, max |-> 0]

\* What a client may get who asks SearchData for the newest or oldest records,
\* size at a time, for page p; the first one is page 0.
NumberedPage(p, size, ascending) ==
    {answer.page : answer \in SearchData(AllData, "created_at", ascending, size, p * size)}

\* Both ways of paging, counting in ListData and slicing in SearchData, cut
\* the same page out of the same order, whatever the limit and the offset are
\* (negative ones are none), and the total of SearchData and GetStats is that
\* of all pages.  A client that reads SearchData page by page, each call with
\* an order of its own, sees every record once, if no two tie in the sort
\* key; with ties, and with ListData, a page has the right length only.
PagesExact ==
    LET kept == {d \in Data : Kept(d)}
        untied == \A d, e \in kept : CreationOf[d] = CreationOf[e] => d = e
    IN  /\ \A limit \in Limits, offset \in Offsets :
              /\ \A s \in SetToSeqs(Results(AllData)) :
                    /\ SlicePage(s, limit, offset) = Cut(s, limit, offset)
                    /\ ListPage(s, limit, offset) = Cut(s, limit, offset)
              /\ \A page \in ListData("any", limit, offset) : PageOf(page, kept, limit, offset)
              /\ \A answer \in SearchData(AllData, "size", TRUE, PageLimit(limit), offset) :
                    /\ answer.total = DataStats.total
                    /\ PageOf(answer.page, kept, PageLimit(limit), offset)
                    /\ \A i, j \in DOMAIN answer.page :
                          i < j => SizeOf[answer.page[i]] <= SizeOf[answer.page[j]]
        /\ untied =>
              \A limit \in Limits, ascending \in BOOLEAN :
                  LET size == PageLimit(limit)
                      pages == [p \in 0 .. DataStats.total |-> NumberedPage(p, size, ascending)]
                  IN  size > 0 =>
                        /\ \A p \in DOMAIN pages : Cardinality(pages[p]) = 1
                        /\ \A d \in kept :
                              Cardinality({p \in DOMAIN pages :
                                              \E page \in pages[p] : d \in Range(page)}) = 1
        /\ DataStats.total = DataStats.count["pending"] + DataStats.count["archived"]
                                + DataStats.count["failed"]

=============================================================================
