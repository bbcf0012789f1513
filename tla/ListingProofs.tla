--------------------------- MODULE ListingProofs ----------------------------
(***************************************************************************)
(* What a walk through the pages of a listing shows, for every number of   *)
(* jobs, every page size and every distribution of the sort values.        *)
(***************************************************************************)
EXTENDS JobListing, FiniteSetTheorems, TLAPS

(* The rows that come before j in every order that the database may choose *)
(* if no other row has the sort value of j.                                *)
Before(j) == {i \in matching : key[i] < key[j]}

(* The types, and what stays true of a walk that is calm: a known job has  *)
(* been shown or lies beyond the pages shown so far, and if the page that  *)
(* was just fetched leaves one out, the count says that there are more.    *)
Shown == walk.listed \cup walk.items

Missing == {j \in walk.known : j \notin Shown}

CalmInv ==
    /\ walk.known \subseteq matching
    /\ \A j \in walk.known : OwnKey(j)
    /\ \A j \in walk.known :
         j \notin walk.listed =>
           (walk.page - 1) * PageSize <= Cardinality(Before(j))
    /\ "items" \in walk.read =>
         \A j \in Missing :
           /\ walk.page * PageSize <= Cardinality(Before(j))
           /\ "total" \in walk.read => walk.page * PageSize < walk.total
    /\ "items" \notin walk.read => walk.items = {}
    /\ walk.read = {"total"} => walk.total = Cardinality(matching)

ListingInv ==
    /\ TypeOK
    /\ walk.pc = "reading" /\ walk.calm => CalmInv
    /\ WalkLosesNothing

(* Sets of jobs are finite, and larger ones have more elements.            *)
LEMMA Sizes ==
    ASSUME NEW S \in SUBSET Jobs, NEW T \in SUBSET S
    PROVE  /\ Cardinality(S) \in Nat /\ Cardinality(T) \in Nat
           /\ Cardinality(T) <= Cardinality(S)
           /\ T # S => Cardinality(T) < Cardinality(S)
<1>1. IsFiniteSet(S)
  BY FS_Subset, JobsAssumption
<1>2. /\ IsFiniteSet(T)
      /\ Cardinality(T) <= Cardinality(S)
      /\ Cardinality(S) = Cardinality(T) => S = T
  BY <1>1, FS_Subset
<1>3. Cardinality(S) \in Nat /\ Cardinality(T) \in Nat
  BY <1>1, <1>2, FS_CardinalityType
<1> QED
  BY <1>2, <1>3

(* What comes before a job of the view is in the view, and not that job.   *)
LEMMA BeforeInView ==
    ASSUME TypeOK, NEW j \in matching
    PROVE  /\ matching \in SUBSET Jobs /\ Before(j) \in SUBSET matching
           /\ j \notin Before(j)
<1>1. matching \in SUBSET Jobs /\ Before(j) \in SUBSET matching
  BY DEF TypeOK, Before
<1>2. key[j] \in Nat
  BY <1>1, KeysAssumption DEF TypeOK
<1> QED
  BY <1>1, <1>2 DEF Before

(* A job of the view with a sort value of its own is among the first n     *)
(* rows exactly if fewer than n come before it.                            *)
LEMMA InPrefix ==
    ASSUME TypeOK, NEW j \in matching, OwnKey(j), NEW n \in Nat,
           NEW S \in Prefixes(n)
    PROVE  j \in S <=> Cardinality(Before(j)) < n
<1>1. /\ S \subseteq matching /\ matching \subseteq Jobs
      /\ Before(j) \subseteq matching /\ j \notin Before(j)
      /\ \A i \in matching : key[i] \in Nat
  <2>1. S \subseteq matching
    BY DEF Prefixes
  <2>2. \A i \in matching : key[i] \in Nat
    BY KeysAssumption DEF TypeOK
  <2> QED
    BY <2>1, <2>2, BeforeInView
<1>2. /\ Cardinality(matching) \in Nat /\ Cardinality(S) \in Nat
      /\ Cardinality(S) <= n
      /\ S # matching => Cardinality(S) = n
  BY <1>1, Sizes DEF Prefixes
<1>3. ASSUME j \in S PROVE Cardinality(Before(j)) < n
  <2>1. Before(j) \subseteq S
    BY <1>1, <1>3 DEF Before, Prefixes
  <2>2. Cardinality(Before(j)) \in Nat /\ Cardinality(Before(j)) < Cardinality(S)
    BY <1>1, <1>3, <2>1, Sizes
  <2> QED
    BY <1>2, <2>2
<1>4. ASSUME j \notin S PROVE n <= Cardinality(Before(j))
  <2>1. \A i \in S : key[i] <= key[j] /\ key[i] # key[j]
    BY <1>1, <1>4 DEF Prefixes, OwnKey
  <2>2. S \subseteq Before(j)
    BY <1>1, <2>1 DEF Before
  <2>3. Cardinality(S) <= Cardinality(Before(j))
    BY <1>1, <2>2, Sizes
  <2>4. Cardinality(S) = n
    BY <1>2, <1>4
  <2> QED
    BY <2>3, <2>4
<1>5. Cardinality(Before(j)) \in Nat
  BY <1>1, Sizes
<1> QED
  BY <1>3, <1>4, <1>5

(* The first n * PageSize rows are counted by a number.                    *)
LEMMA Products ==
    ASSUME NEW n \in Nat
    PROVE  n * PageSize \in Nat /\ (n + 1) * PageSize \in Nat
BY PageSizeAssumption

-----------------------------------------------------------------------------

LEMMA InitInv == Init => ListingInv
BY DEF Init, ListingInv, TypeOK, NoWalk, Walk, WalkLosesNothing

(* Every step keeps the types.                                             *)
LEMMA TypePreserved == TypeOK /\ [Next]_vars => TypeOK'
<1> SUFFICES ASSUME TypeOK, [Next]_vars PROVE TypeOK'
  OBVIOUS
<1> USE DEF TypeOK, Walk
<1>1. CASE ListJobs
  <2>1. PICK known \in SUBSET Jobs :
          walk' = [pc |-> "reading", page |-> 1, read |-> {}, items |-> {},
                   total |-> 0, listed |-> {}, known |-> known, calm |-> TRUE]
    <3>1. {j \in matching : OwnKey(j)} \in SUBSET Jobs
      OBVIOUS
    <3> QED
      BY <1>1, <3>1 DEF ListJobs, NoWalk
  <2>2. walk' \in Walk
    BY <2>1
  <2> QED
    BY <1>1, <2>2 DEF ListJobs
<1>2. CASE FindMany
  <2>1. PICK skipped \in SUBSET Jobs, upTo \in SUBSET Jobs :
          walk' = [walk EXCEPT !.read = @ \cup {"items"},
                               !.items = upTo \ skipped]
    BY <1>2 DEF FindMany, Prefixes
  <2> QED
    BY <1>2, <2>1 DEF FindMany
<1>3. CASE Count
  BY <1>3, Sizes DEF Count
<1>4. CASE Respond
  <2>1. PICK pc \in {"idle", "reading", "done"} :
          walk' = [walk EXCEPT !.pc = pc, !.page = @ + 1, !.read = {},
                     !.items = {}, !.total = 0, !.listed = @ \cup walk.items]
    BY <1>4 DEF Respond
  <2>2. /\ walk.page + 1 \in Nat \ {0}
        /\ walk.listed \cup walk.items \in SUBSET Jobs
    OBVIOUS
  <2>3. /\ walk'.page \in Nat \ {0} /\ walk'.listed \in SUBSET Jobs
        /\ walk' = [pc |-> pc, page |-> walk'.page, read |-> {},
                    items |-> {}, total |-> 0, listed |-> walk'.listed,
                    known |-> walk.known, calm |-> walk.calm]
    BY <2>1, <2>2
  <2>4. walk' \in Walk
    BY <2>3
  <2> QED
    BY <1>4, <2>4 DEF Respond
<1>5. ASSUME NEW j \in Jobs, Enter(j) PROVE TypeOK'
  <2>1. matching' \in SUBSET Jobs /\ key' \in [Jobs -> Keys]
    BY <1>5 DEF Enter
  <2>2. walk' \in Walk
    BY <1>5 DEF Enter
  <2> QED
    BY <2>1, <2>2
<1>6. ASSUME NEW j \in Jobs, Leave(j) PROVE TypeOK'
  BY <1>6 DEF Leave
<1>7. CASE UNCHANGED vars
  BY <1>7 DEF vars
<1> QED
  BY <1>1, <1>2, <1>3, <1>4, <1>5, <1>6, <1>7 DEF Next

-----------------------------------------------------------------------------
(* The steps of the client, from a state of which ListingInv holds.        *)

LEMMA ListJobsKeeps == ListingInv /\ TypeOK' /\ ListJobs => ListingInv'
<1> SUFFICES ASSUME ListingInv, TypeOK', ListJobs PROVE ListingInv'
  OBVIOUS
<1>1. /\ walk'.pc = "reading" /\ walk'.page = 1 /\ walk'.read = {}
      /\ walk'.items = {} /\ walk'.known = {j \in matching : OwnKey(j)}
      /\ matching' = matching /\ key' = key
  BY DEF ListJobs, NoWalk
<1>2. \A j \in matching : OwnKey(j)' <=> OwnKey(j)
  BY <1>1 DEF OwnKey
<1>3. \A j \in matching : 0 <= Cardinality(Before(j)')
  <2> SUFFICES ASSUME NEW j \in matching PROVE 0 <= Cardinality(Before(j)')
    OBVIOUS
  <2>1. Before(j)' \in SUBSET Jobs
    BY <1>1 DEF Before, ListingInv, TypeOK
  <2> QED
    BY <2>1, Sizes
<1>4. (1 - 1) * PageSize = 0
  BY PageSizeAssumption
<1>5. CalmInv'
  BY <1>1, <1>2, <1>3, <1>4 DEF CalmInv
<1> QED
  BY <1>1, <1>5 DEF ListingInv, WalkLosesNothing

LEMMA CountKeeps == ListingInv /\ TypeOK' /\ Count => ListingInv'
<1> SUFFICES ASSUME ListingInv, TypeOK', Count PROVE ListingInv'
  OBVIOUS
<1>1. /\ walk.pc = "reading" /\ "total" \notin walk.read
      /\ walk'.pc = walk.pc /\ walk'.page = walk.page
      /\ walk'.read = walk.read \cup {"total"}
      /\ walk'.items = walk.items /\ walk'.total = Cardinality(matching)
      /\ walk'.listed = walk.listed /\ walk'.known = walk.known
      /\ walk'.calm = walk.calm
      /\ matching' = matching /\ key' = key
  BY DEF Count, ListingInv, TypeOK, Walk
<1>2. \A j : Before(j)' = Before(j) /\ (OwnKey(j)' <=> OwnKey(j))
  BY <1>1 DEF Before, OwnKey
<1>3. Missing' = Missing
  BY <1>1 DEF Missing, Shown
<1>4. ASSUME walk.calm PROVE CalmInv'
  <2>1. CalmInv
    BY <1>1, <1>4 DEF ListingInv
  <2>2. ASSUME "items" \in walk.read, NEW j \in Missing
        PROVE  walk.page * PageSize < Cardinality(matching)
    <3>1. /\ walk.page * PageSize <= Cardinality(Before(j))
          /\ j \in matching
      BY <2>1, <2>2 DEF CalmInv, Missing
    <3>2. /\ matching \in SUBSET Jobs /\ Before(j) \in SUBSET matching
          /\ j \notin Before(j)
      BY <3>1, BeforeInView DEF ListingInv
    <3>3. /\ Cardinality(Before(j)) \in Nat /\ Cardinality(matching) \in Nat
          /\ Cardinality(Before(j)) < Cardinality(matching)
      BY <3>1, <3>2, Sizes
    <3>4. walk.page \in Nat
      BY DEF ListingInv, TypeOK, Walk
    <3> QED
      BY <3>1, <3>3, <3>4, Products
  <2> QED
    BY <1>1, <1>2, <1>3, <2>1, <2>2 DEF CalmInv
<1> QED
  BY <1>1, <1>4 DEF ListingInv, WalkLosesNothing

LEMMA FindManyKeeps == ListingInv /\ TypeOK' /\ FindMany => ListingInv'
<1> SUFFICES ASSUME ListingInv, TypeOK', FindMany PROVE ListingInv'
  OBVIOUS
<1>1. PICK skipped \in Prefixes((walk.page - 1) * PageSize),
           upTo \in Prefixes(walk.page * PageSize) :
        walk' = [walk EXCEPT !.read = @ \cup {"items"},
                             !.items = upTo \ skipped]
  BY DEF FindMany
<1>2. /\ walk.pc = "reading" /\ "items" \notin walk.read
      /\ walk'.pc = walk.pc /\ walk'.page = walk.page
      /\ walk'.read = walk.read \cup {"items"}
      /\ walk'.items = upTo \ skipped /\ walk'.total = walk.total
      /\ walk'.listed = walk.listed /\ walk'.known = walk.known
      /\ walk'.calm = walk.calm
      /\ matching' = matching /\ key' = key
  BY <1>1 DEF FindMany, ListingInv, TypeOK, Walk
<1>3. \A j : Before(j)' = Before(j) /\ (OwnKey(j)' <=> OwnKey(j))
  BY <1>2 DEF Before, OwnKey
<1>4. /\ walk.page - 1 \in Nat /\ walk.page \in Nat
      /\ (walk.page - 1) * PageSize \in Nat /\ walk.page * PageSize \in Nat
  BY Products DEF ListingInv, TypeOK, Walk
<1>5. ASSUME walk.calm PROVE CalmInv'
  <2>1. CalmInv
    BY <1>2, <1>5 DEF ListingInv
  <2>2. ASSUME NEW j \in Missing'
        PROVE  /\ walk.page * PageSize <= Cardinality(Before(j))
               /\ "total" \in walk.read => walk.page * PageSize < walk.total
    <3>1. /\ j \in walk.known /\ j \notin walk.listed /\ j \in matching
          /\ OwnKey(j) /\ (j \notin upTo \/ j \in skipped)
      BY <1>2, <2>1, <2>2 DEF CalmInv, Missing, Shown
    <3>2. /\ matching \in SUBSET Jobs /\ Before(j) \in SUBSET matching
          /\ j \notin Before(j)
      BY <3>1, BeforeInView DEF ListingInv
    <3>3. /\ Cardinality(Before(j)) \in Nat /\ Cardinality(matching) \in Nat
          /\ Cardinality(Before(j)) < Cardinality(matching)
      BY <3>1, <3>2, Sizes
    <3>4. j \notin skipped
      <4>1. (walk.page - 1) * PageSize <= Cardinality(Before(j))
        BY <2>1, <3>1 DEF CalmInv
      <4>2. j \in skipped <=>
              Cardinality(Before(j)) < (walk.page - 1) * PageSize
        BY <1>1, <1>4, <3>1, InPrefix DEF ListingInv
      <4> QED
        BY <1>4, <3>3, <4>1, <4>2
    <3>5. ~(Cardinality(Before(j)) < walk.page * PageSize)
      BY <1>1, <1>4, <3>1, <3>4, InPrefix DEF ListingInv
    <3>6. "total" \in walk.read => walk.read = {"total"}
      BY <1>2 DEF ListingInv, TypeOK, Walk
    <3>7. "total" \in walk.read => walk.total = Cardinality(matching)
      BY <2>1, <3>6 DEF CalmInv
    <3> QED
      BY <1>4, <3>3, <3>5, <3>7
  <2> QED
    BY <1>2, <1>3, <2>1, <2>2 DEF CalmInv
<1> QED
  BY <1>2, <1>5 DEF ListingInv, WalkLosesNothing

LEMMA RespondKeeps == ListingInv /\ TypeOK' /\ Respond => ListingInv'
<1> SUFFICES ASSUME ListingInv, TypeOK', Respond PROVE ListingInv'
  OBVIOUS
<1>1. /\ walk.pc = "reading" /\ walk.read = {"items", "total"}
      /\ walk'.pc = IF HasNext(walk.page, walk.total)
                    THEN "reading" ELSE "done"
      /\ walk'.page = walk.page + 1 /\ walk'.read = {}
      /\ walk'.items = {}
      /\ walk'.listed = walk.listed \cup walk.items
      /\ walk'.known = walk.known /\ walk'.calm = walk.calm
      /\ matching' = matching /\ key' = key
  BY DEF Respond, ListingInv, TypeOK, Walk
<1>2. \A j : Before(j)' = Before(j) /\ (OwnKey(j)' <=> OwnKey(j))
  BY <1>1 DEF Before, OwnKey
<1>3. ASSUME walk.calm
      PROVE  /\ walk.known \subseteq matching
             /\ \A j \in walk.known : OwnKey(j)
             /\ \A j \in walk.known :
                  j \notin walk'.listed =>
                    /\ walk.page * PageSize <= Cardinality(Before(j))
                    /\ walk.page * PageSize < walk.total
  BY <1>1, <1>3 DEF ListingInv, CalmInv, Missing, Shown
<1>4. ASSUME walk.calm PROVE CalmInv'
  <2>1. walk'.page - 1 = walk.page
    BY <1>1 DEF ListingInv, TypeOK, Walk
  <2> QED
    BY <1>1, <1>2, <1>3, <1>4, <2>1 DEF CalmInv
<1>5. WalkLosesNothing'
  <2> SUFFICES ASSUME walk'.pc = "done", walk.calm
               PROVE  walk.known \subseteq walk'.listed
    BY <1>1 DEF WalkLosesNothing
  <2>1. ~(walk.page * PageSize < walk.total)
    BY <1>1 DEF HasNext
  <2> QED
    BY <1>3, <2>1
<1> QED
  BY <1>1, <1>4, <1>5 DEF ListingInv

-----------------------------------------------------------------------------
(* The steps of the rows.                                                  *)

LEMMA EnterKeeps ==
    ASSUME ListingInv, TypeOK', NEW e \in Jobs, Enter(e) PROVE ListingInv'
<1>1. PICK k \in Keys : key' = [key EXCEPT ![e] = k]
  BY DEF Enter
<1>2. /\ e \notin matching /\ matching' = matching \cup {e}
      /\ walk'.pc = walk.pc /\ walk'.page = walk.page
      /\ walk'.read = walk.read /\ walk'.items = walk.items
      /\ walk'.total = walk.total /\ walk'.listed = walk.listed
      /\ walk'.known = {i \in walk.known : OwnKey(i)'}
      /\ walk'.calm = (walk.calm /\ walk.read # {"total"})
  BY DEF Enter, ListingInv, TypeOK, Walk
<1>3. ASSUME NEW j \in matching
      PROVE  /\ Cardinality(Before(j)) \in Nat
             /\ Cardinality(Before(j)') \in Nat
             /\ Cardinality(Before(j)) <= Cardinality(Before(j)')
  <2>1. \A i \in matching : key'[i] = key[i]
    BY <1>1, <1>2 DEF ListingInv, TypeOK
  <2>2. Before(j) \subseteq Before(j)' /\ Before(j)' \in SUBSET Jobs
    BY <1>2, <2>1 DEF Before, ListingInv, TypeOK
  <2> QED
    BY <2>2, Sizes
<1>4. ASSUME walk.pc = "reading", walk'.calm PROVE CalmInv'
  <2>1. CalmInv /\ walk.read # {"total"}
    BY <1>2, <1>4 DEF ListingInv
  <2>2. Missing' \subseteq Missing /\ Missing \subseteq matching
    BY <1>2, <2>1 DEF Missing, Shown, CalmInv
  <2>3. walk.page - 1 \in Nat /\ walk.page \in Nat
    BY DEF ListingInv, TypeOK, Walk
  <2>4. /\ walk'.known \subseteq matching'
        /\ \A j \in walk'.known : OwnKey(j)'
    BY <1>2, <2>1 DEF CalmInv
  <2>5. ASSUME NEW j \in walk'.known, j \notin walk'.listed
        PROVE  (walk'.page - 1) * PageSize <= Cardinality(Before(j)')
    <3>1. /\ j \in matching
          /\ (walk.page - 1) * PageSize <= Cardinality(Before(j))
      BY <1>2, <2>1, <2>5 DEF CalmInv
    <3> QED
      BY <1>2, <1>3, <2>3, <3>1, Products
  <2>6. ASSUME "items" \in walk'.read, NEW j \in Missing'
        PROVE  /\ walk'.page * PageSize <= Cardinality(Before(j)')
               /\ "total" \in walk'.read => walk'.page * PageSize < walk'.total
    <3>1. /\ j \in matching
          /\ walk.page * PageSize <= Cardinality(Before(j))
          /\ "total" \in walk.read => walk.page * PageSize < walk.total
      BY <1>2, <2>1, <2>2, <2>6 DEF CalmInv
    <3> QED
      BY <1>2, <1>3, <2>3, <3>1, Products
  <2> QED
    BY <1>2, <2>1, <2>4, <2>5, <2>6 DEF CalmInv
<1>5. WalkLosesNothing'
  BY <1>2 DEF ListingInv, WalkLosesNothing
<1> QED
  BY <1>2, <1>4, <1>5 DEF ListingInv

LEMMA LeaveKeeps ==
    ASSUME ListingInv, TypeOK', NEW l \in Jobs, Leave(l) PROVE ListingInv'
<1>1. walk'.calm = FALSE
  BY DEF Leave, ListingInv, TypeOK, Walk
<1> QED
  BY <1>1 DEF ListingInv, WalkLosesNothing

-----------------------------------------------------------------------------

(* A walk that no job leaves, and in which none is counted too late, shows *)
(* every job with a sort value of its own that was there when listJobs was *)
(* first called, for every page size and however many jobs come meanwhile. *)
THEOREM WalksAreComplete == Spec => []WalkLosesNothing
<1>1. ListingInv /\ [Next]_vars => ListingInv'
  <2> SUFFICES ASSUME ListingInv, [Next]_vars PROVE ListingInv'
    OBVIOUS
  <2>1. TypeOK'
    BY TypePreserved DEF ListingInv
  <2>2. CASE UNCHANGED vars
    BY <2>1, <2>2 DEF vars, ListingInv, CalmInv, WalkLosesNothing, Missing,
       Shown, Before, OwnKey
  <2> QED
    BY <2>1, <2>2, ListJobsKeeps, FindManyKeeps, CountKeeps, RespondKeeps,
       EnterKeeps, LeaveKeeps DEF Next
<1>2. ListingInv => WalkLosesNothing
  BY DEF ListingInv
<1> QED
  BY InitInv, <1>1, <1>2, PTL DEF Spec

=============================================================================
