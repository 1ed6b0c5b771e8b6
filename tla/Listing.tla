------------------------------- MODULE Listing -------------------------------
(***************************************************************************)
(* paginate: every listing of the API (transactions, users, completions,   *)
(* submissions, withdrawals, tasks, activity logs).  A page and the total  *)
(* are two queries sent at once; a client walks the pages while documents  *)
(* come into the listing and leave it.                                     *)
(*                                                                         *)
(* A document is its createdAt, the default sort field; no two share one.  *)
(* The listings have filters, and a document that begins to match one comes*)
(* in where its createdAt puts it, as old as it may be: a rejected         *)
(* submission that is submitted again, a task or a user made active again. *)
(***************************************************************************)
EXTENDS Integers, FiniteSets

CONSTANTS
    LimitCap,       \* 100
    LimitsAsked,    \* what clients ask for
    LastDocument    \* bound: documents that are ever listed

ASSUME ListingAssumption ==
    /\ LimitCap \in Nat \ {0}
    /\ LimitsAsked \subseteq Nat \ {0}
    /\ LastDocument \in Nat

VARIABLES
    listed,         \* the documents the filter matches
    walk,           \* the client: page, limit and order it asks for, and what
                    \*   the two queries of the page have answered
    shown,          \* shown[d]: how often it was shown d so far
    stayed,         \* history: listed all along the walk
    moved           \* history: what happened to the listing since it began:
                    \*   "out", a document left it;
                    \*   "ahead", one came in ahead of one that was shown, or
                    \*     is in the page that is read;
                    \*   "between", one came in ahead of one that stayed and
                    \*     was not shown, after the total of a page was read
                    \*     and before its items

listingVars == <<listed, walk, shown, stayed, moved>>

Unread == -1
NoItems == {Unread}

Documents == 1 .. LastDocument

Walk == [page : Nat \ {0}, limit : LimitsAsked, ascending : BOOLEAN,
         items : {NoItems} \cup SUBSET Documents, total : Nat \cup {Unread},
         over : BOOLEAN]

ListingInit ==
    /\ listed \in SUBSET Documents
    /\ walk \in [page : {1}, limit : LimitsAsked, ascending : BOOLEAN,
                 items : {NoItems}, total : {Unread}, over : {FALSE}]
    /\ shown = [d \in Documents |-> 0]
    /\ stayed = listed
    /\ moved = {}

-----------------------------------------------------------------------------
\* The page and the limit the helper works with.
PageOf(asked) == IF asked > 1 THEN asked ELSE 1
LimitOf(asked) == IF asked < LimitCap THEN asked ELSE LimitCap

\* Mutant of TotalPages.
TotalPagesFloor(total, limit) == total \div limit

Skipped(page, limit) == (page - 1) * limit

\* Math.ceil(total / limit)
TotalPages(total, limit) == (total + limit - 1) \div limit

\* sort by createdAt: what comes before d, and the place d has, or would have
\* if it were listed.
Ahead(e, d) == IF walk.ascending THEN e < d ELSE e > d
Place(d) == Cardinality({e \in listed : Ahead(e, d)}) + 1

\* The documents before the page the client asks for, and up to its end.
Skip == Skipped(PageOf(walk.page), LimitOf(walk.limit))
PageEnd == Skip + LimitOf(walk.limit)

\* The documents of a page: sort, skip, limit.
Items == {d \in listed : Skip < Place(d) /\ Place(d) <= PageEnd}

\* find answers.
ReadItems ==
    /\ ~ walk.over
    /\ walk.items = NoItems
    /\ walk' = [walk EXCEPT !.items = Items]
    /\ UNCHANGED <<listed, shown, stayed, moved>>

\* countDocuments answers.
ReadTotal ==
    /\ ~ walk.over
    /\ walk.total = Unread
    /\ walk' = [walk EXCEPT !.total = Cardinality(listed)]
    /\ UNCHANGED <<listed, shown, stayed, moved>>

\* Both have: the client has the page, and goes on to the next one or has seen
\* totalPages of them.
Answer ==
    /\ ~ walk.over
    /\ walk.items # NoItems
    /\ walk.total # Unread
    /\ shown' = [d \in DOMAIN shown |->
                    IF d \in walk.items THEN shown[d] + 1 ELSE shown[d]]
    /\ IF walk.page < TotalPages(walk.total, LimitOf(walk.limit))
         THEN walk' = [walk EXCEPT !.page = @ + 1, !.items = NoItems, !.total = Unread]
         ELSE walk' = [walk EXCEPT !.over = TRUE]
    /\ UNCHANGED <<listed, stayed, moved>>

\* What it does to this walk that d comes in.
Disturbs(d) ==
    (IF \E e \in Documents : Ahead(d, e) /\ (shown[e] > 0 \/ e \in walk.items)
       THEN {"ahead"} ELSE {})
    \cup
    (IF /\ walk.total # Unread /\ walk.items = NoItems
        /\ \E e \in stayed : Ahead(d, e) /\ shown[e] = 0
       THEN {"between"} ELSE {})

\* A document is made, or one that was there begins to match the filter.
ComeIn ==
    /\ \E d \in Documents \ listed :
          /\ listed' = listed \cup {d}
          /\ moved' = moved \cup Disturbs(d)
    /\ UNCHANGED <<walk, shown, stayed>>

\* One does not match the filter any more.
DropOut ==
    /\ \E d \in listed : listed' = listed \ {d} /\ stayed' = stayed \ {d}
    /\ moved' = moved \cup {"out"}
    /\ UNCHANGED <<walk, shown>>

ListingNext == ReadItems \/ ReadTotal \/ Answer \/ ComeIn \/ DropOut

ListingSpec == ListingInit /\ [][ListingNext]_listingVars
-----------------------------------------------------------------------------
\* Type invariant: the listing and the walk.
ListingTypeOK ==
    /\ listed \subseteq Documents
    /\ walk \in Walk
    /\ shown \in [Documents -> Nat]
    /\ stayed \subseteq listed
    /\ moved \subseteq {"out", "ahead", "between"}

\* A client that has walked all pages was shown every document that was listed
\* all along, unless one left the listing and the others moved up a place, or
\* one came in ahead of it between a page's two queries.  Oldest first, a new
\* document comes last and disturbs nobody.
NothingMissed ==
    walk.over /\ moved \cap {"out", "between"} = {} => \A d \in stayed : shown[d] > 0

\* No document is shown twice, unless one came in ahead of a document that had
\* been shown or was being read.
ShownOnce == "ahead" \notin moved => \A d \in Documents : shown[d] <= 1

\* What a client may rely on that walks through the pages while the listing
\* changes: both of the above.
WalkIsComplete == NothingMissed /\ ShownOnce
=============================================================================
