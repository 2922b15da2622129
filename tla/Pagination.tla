------------------------------ MODULE Pagination ------------------------------
(***************************************************************************)
(* _iter_pages(): a call of the session that reads a collection page by    *)
(* page while others write to it, and while the session may be closed.     *)
(* The controller cuts pages by position, and its first answer may carry a *)
(* totalCount, which need not be true.                                     *)
(***************************************************************************)
EXTENDS SessionSockets, Sequences, SequencesExt

CONSTANTS
    Objects,        \* what a collection may hold
    Collections,    \* the collections to start from
    Newcomers,      \* the objects others may add
    Totals,         \* the totalCounts a controller may answer with, 0 for none
    PageSize,       \* page_size
    MaxPages,       \* _MAX_PAGINATION_PAGES
    MaxEdits        \* bound: writes of others while pages are read

ASSUME PageAssumption == PageSize \in Nat \ {0} /\ MaxPages \in Nat \ {0}
ASSUME CollectionAssumption ==
    /\ Collections \subseteq Seq(Objects) /\ Newcomers \subseteq Objects
    /\ Totals \subseteq Nat /\ MaxEdits \in Nat

VARIABLES
    walk,           \* "none", "first" page, "more", "done" or "failed"
    page,           \* the page to ask for
    total,          \* the total, 0 when unknown
    fetched,        \* the objects of all pages so far
    collection      \* what the controller holds, in its order

\* What happened, for the properties.
VARIABLES
    edits,          \* writes of others so far
    stayed,         \* objects in the collection since the first request
    astray          \* what may mislead the walk: "low" for a total below the true
                    \* one, "back" for a removal among the read positions, "ahead"
                    \* for an insertion before the end

pageVars == <<walk, page, total, fetched, collection, edits, stayed, astray>>

\* The controller's page n; the last one may be short or empty.
CutPage(s, n) ==
    LET end == (n + 1) * PageSize
    IN SubSeq(s, n * PageSize + 1, IF end <= Len(s) THEN end ELSE Len(s))

-------------------------------------------------------------------------------
\* What a claimed total may do to the walk: one that is too low ends it early.
Misled(claimed) == IF 0 < claimed /\ claimed < Len(collection) THEN {"low"} ELSE {}

\* Mutant: a totalCount of 0 is believed.
FirstPageBelieving(claimed) ==
    /\ walk = "first" /\ clientOpen
    /\ fetched' = CutPage(collection, 0)
    /\ total' = claimed
    /\ walk' = IF fetched' = <<>> \/ Len(fetched') >= claimed THEN "done" ELSE "more"
    /\ page' = 1
    /\ astray' = Misled(claimed)
    /\ UNCHANGED <<collection, edits, stayed>>

\* claimed is the positive totalCount of the answer, or 0 for any other.
FirstPage(claimed) ==
    /\ walk = "first" /\ clientOpen
    /\ fetched' = CutPage(collection, 0)
    /\ total' = claimed
    /\ walk' = IF fetched' = <<>> THEN "done" ELSE "more"
    /\ page' = 1
    /\ astray' = Misled(claimed)
    /\ UNCHANGED <<collection, edits, stayed>>

Satisfied == total # 0 /\ Len(fetched) >= total

EndOfPages ==
    /\ walk = "more" /\ Satisfied
    /\ walk' = "done"
    /\ UNCHANGED <<page, total, fetched, collection, edits, stayed, astray>>

\* Mutant: no guard.
NextPageUnguarded ==
    /\ walk = "more" /\ ~Satisfied /\ clientOpen
    /\ LET batch == CutPage(collection, page)
       IN /\ fetched' = fetched \o batch
          /\ walk' = IF batch = <<>> THEN "done" ELSE "more"
          /\ page' = IF batch = <<>> THEN page ELSE page + 1
    /\ UNCHANGED <<total, collection, edits, stayed, astray>>

NextPage ==
    /\ walk = "more" /\ ~Satisfied /\ page <= MaxPages /\ clientOpen
    /\ LET batch == CutPage(collection, page)
       IN /\ fetched' = fetched \o batch
          /\ walk' = IF batch = <<>> THEN "done" ELSE "more"
          /\ page' = IF batch = <<>> THEN page ELSE page + 1
    /\ UNCHANGED <<total, collection, edits, stayed, astray>>

\* The pagination guard, or a request that fails: as every request does once
\* the session is closed.
PageError ==
    /\ walk = "first" \/ (walk = "more" /\ ~Satisfied)
    /\ walk' = "failed"
    /\ UNCHANGED <<page, total, fetched, collection, edits, stayed, astray>>

-------------------------------------------------------------------------------
(* Others write to the collection.                                         *)

ReadUpTo == page * PageSize

OtherInserts(i, o) ==
    /\ walk = "more" /\ edits < MaxEdits /\ o \notin ToSet(collection)
    /\ collection' = InsertAt(collection, i, o)
    /\ astray' = astray \cup (IF i <= Len(collection) THEN {"ahead"} ELSE {})
    /\ edits' = edits + 1
    /\ UNCHANGED <<walk, page, total, fetched, stayed>>

OtherRemoves(i) ==
    /\ walk = "more" /\ edits < MaxEdits
    /\ collection' = RemoveAt(collection, i)
    /\ stayed' = stayed \ {collection[i]}
    /\ astray' = astray \cup (IF i <= ReadUpTo THEN {"back"} ELSE {})
    /\ edits' = edits + 1
    /\ UNCHANGED <<walk, page, total, fetched>>

PageInit(asked) ==
    /\ IF asked THEN walk = "first" /\ collection \in Collections
                ELSE walk = "none" /\ collection = <<>>
    /\ page = 0 /\ total = 0 /\ fetched = <<>>
    /\ edits = 0 /\ stayed = ToSet(collection) /\ astray = {}

PageNext ==
  /\ UNCHANGED sessionVars
  /\ \/ \E c \in Totals : FirstPage(c)
     \/ EndOfPages \/ NextPage \/ PageError
     \/ \E i \in 1..Len(collection) + 1, o \in Newcomers : OtherInserts(i, o)
     \/ \E i \in 1..Len(collection) : OtherRemoves(i)

-------------------------------------------------------------------------------
(* The session: its calls, and one walk if some of them read pages.        *)

Paging == "page" \in {call[t] : t \in Callers}

Init == SessionInit /\ PageInit(Paging)
Next == PageNext \/ (SessionNext /\ UNCHANGED pageVars)
Spec == Init /\ [][Next]_<<sessionVars, pageVars>>

-------------------------------------------------------------------------------
(* Properties.                                                             *)

\* Types; and no walk, however long the collection, asks for more pages than
\* the guard allows.
PageTypeOK ==
    /\ walk \in {"none", "first", "more", "done", "failed"}
    /\ page \in 0..MaxPages + 1 /\ total \in Nat /\ edits \in 0..MaxEdits
    /\ fetched \in Seq(Objects) /\ collection \in Seq(Objects)
    /\ stayed \subseteq ToSet(collection) /\ astray \subseteq {"low", "back", "ahead"}

\* A walk that ends returns every object that was there all the time, and if
\* nobody wrote meanwhile, the collection itself; never a part because the
\* total was absent, zero or too large.  A total below the true one ends it
\* early, but with no fewer objects than that, the first ones.  Positions may
\* cheat it only if an object was removed from the part already read, or, when
\* it counts up to a total, if one was inserted before the end: an object seen
\* twice counts twice.
PagesComplete ==
    walk = "done" =>
        /\ edits = 0 => /\ IsPrefix(fetched, collection)
                        /\ \/ fetched = collection
                           \/ "low" \in astray /\ Len(fetched) >= total
        /\ "back" \notin astray /\ (total = 0 \/ astray \cap {"low", "ahead"} = {})
              => stayed \subseteq ToSet(fetched)

\* The types of both modules.
TypeOK == SessionTypeOK /\ PageTypeOK
===============================================================================
