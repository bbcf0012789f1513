----------------------------- MODULE JobListing -----------------------------
(***************************************************************************)
(* listJobs and listDeadLetterJobs: a client walks through the pages of a  *)
(* view of the jobs, those its filters match, while jobs enter and leave   *)
(* that view.  A response takes two statements that are not one snapshot,  *)
(* and a page is an offset into rows sorted by one column, with nothing to *)
(* order rows that agree in it.                                            *)
(***************************************************************************)
EXTENDS Naturals, FiniteSets

CONSTANTS
    Jobs,
    Keys,           \* values of the sort column, in the order asked for
    PageSize

ASSUME JobsAssumption == IsFiniteSet(Jobs)
ASSUME KeysAssumption == Keys \subseteq Nat
ASSUME PageSizeAssumption == PageSize \in Nat \ {0}

VARIABLES
    matching,       \* the jobs that the where clause holds of
    key,            \* key[j], the sort column of j
    walk            \* the client's walk and the response under way

vars == <<matching, key, walk>>

(* read: which statements of the response under way have been executed;    *)
(* listed: all that the client was shown.  History: known, what a complete *)
(* walk would show; calm, whether it must.                                 *)
Walk ==
    [ pc     : {"idle", "reading", "done"},
      page   : Nat \ {0},
      read   : SUBSET {"items", "total"},
      items  : SUBSET Jobs,
      total  : Nat,
      listed : SUBSET Jobs,
      known  : SUBSET Jobs,
      calm   : BOOLEAN ]

OwnKey(j) == \A i \in matching : key[i] = key[j] => i = j

NoWalk == [pc |-> "idle", page |-> 1, read |-> {}, items |-> {}, total |-> 0,
           listed |-> {}, known |-> {}, calm |-> TRUE]

Init ==
    /\ matching \in SUBSET Jobs
    /\ key \in [Jobs -> Keys]
    /\ walk = NoWalk

-----------------------------------------------------------------------------
(* The walk begins with page 1.                                            *)
ListJobs ==
    /\ walk.pc # "reading"
    /\ walk' = [NoWalk EXCEPT !.pc = "reading",
                              !.known = {j \in matching : OwnKey(j)}]
    /\ UNCHANGED <<matching, key>>

(* What the first n rows of the view can be.                               *)
Prefixes(n) ==
    {S \in SUBSET matching :
       /\ Cardinality(S) = IF n < Cardinality(matching) THEN n
                           ELSE Cardinality(matching)
       /\ \A i \in S, j \in matching \ S : key[i] <= key[j]}

(* findMany and findDeadLetterJobs: skip, take and orderBy.                *)
FindMany ==
    /\ walk.pc = "reading" /\ "items" \notin walk.read
    /\ \E skipped \in Prefixes((walk.page - 1) * PageSize),
          upTo \in Prefixes(walk.page * PageSize) :
         /\ skipped \subseteq upTo
         /\ walk' = [walk EXCEPT !.read = @ \cup {"items"},
                                 !.items = upTo \ skipped]
    /\ UNCHANGED <<matching, key>>

Count ==
    /\ walk.pc = "reading" /\ "total" \notin walk.read
    /\ walk' = [walk EXCEPT !.read = @ \cup {"total"},
                            !.total = Cardinality(matching)]
    /\ UNCHANGED <<matching, key>>

(* Variant: totalPages rounded down.                                       *)
HasNextFloor(page, total) == (page + 1) * PageSize <= total

(* page < totalPages, which is total / pageSize rounded up.                *)
HasNext(page, total) == page * PageSize < total

(* toPaginatedSummaryResponse; the client asks for the next page as long   *)
(* as there is one.                                                        *)
Respond ==
    /\ walk.pc = "reading" /\ walk.read = {"items", "total"}
    /\ walk' = [walk EXCEPT
                  !.pc = IF HasNext(walk.page, walk.total)
                         THEN "reading" ELSE "done",
                  !.page = @ + 1, !.read = {}, !.items = {}, !.total = 0,
                  !.listed = @ \cup walk.items]
    /\ UNCHANGED <<matching, key>>

-----------------------------------------------------------------------------
(* The rows move.  A walk is calm unless a job leaves the view, or enters  *)
(* it after the rows were counted and before they are fetched.             *)

Enter(j) ==
    /\ j \notin matching
    /\ matching' = matching \cup {j}
    /\ \E k \in Keys : key' = [key EXCEPT ![j] = k]
    /\ walk' = [walk EXCEPT !.known = {i \in @ : OwnKey(i)'},
                            !.calm = @ /\ walk.read # {"total"}]

Leave(j) ==
    /\ j \in matching
    /\ matching' = matching \ {j}
    /\ walk' = [walk EXCEPT !.calm = FALSE]
    /\ UNCHANGED key

Next ==
    \/ ListJobs \/ FindMany \/ Count \/ Respond
    \/ \E j \in Jobs : Enter(j) \/ Leave(j)

Spec == Init /\ [][Next]_vars

-----------------------------------------------------------------------------

(* The variables have their types.                                         *)
TypeOK ==
    /\ matching \in SUBSET Jobs
    /\ key \in [Jobs -> Keys]
    /\ walk \in Walk

(* A walk that no job leaves, and in which none is counted too late, shows *)
(* every job that was there from the beginning and shares its sort value   *)
(* with no other, however many jobs enter meanwhile: entering moves rows   *)
(* to later pages only.                                                    *)
WalkLosesNothing ==
    walk.pc = "done" /\ walk.calm => walk.known \subseteq walk.listed

=============================================================================
