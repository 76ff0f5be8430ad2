------------------------------ MODULE Listing ------------------------------
(***************************************************************************)
(* GET /videos: pages of the table by OFFSET, newest first, while videos   *)
(* come and go, and a client that walks through them all.  Every page is a *)
(* query of its own, and the only thing that ties one page to the next is  *)
(* the position it starts at.                                              *)
(***************************************************************************)
EXTENDS Integers, FiniteSets

CONSTANTS
    Video,
    MaxSize,        \* the largest page; 100 in the code
    DefaultSize,    \* for a page_size that is none; 20 in the code
    MaxInt,         \* the largest int
    WalkSize,       \* the page_size that the walking client may ask for
    MaxTime         \* bound: the last instant

ASSUME VideoAssumption == IsFiniteSet(Video)
ASSUME SizeAssumption == MaxSize \in Nat /\ DefaultSize \in 1..MaxSize
ASSUME IntAssumption == MaxInt \in Nat /\ MaxSize <= MaxInt
\* COUNT(*) is read into an int.
ASSUME TotalAssumption == Cardinality(Video) <= MaxInt
ASSUME WalkAssumption == WalkSize \subseteq 1..MaxInt /\ MaxTime \in Nat

VARIABLES
    now,
    row,        \* of each video: not there, in a transaction, there, deleted
    created,    \* column created_at
    size,       \* the page_size of the walking client
    page,       \* the page it asks for next; 0 once it has them all
    seen,       \* how often it has got each video
    first,      \* the videos that were there when it began
    came, went  \* how many rows came and went since

rows == <<now, row, created>>
walk == <<size, page, seen, first>>
vars == <<rows, walk, came, went>>

Listed == {v \in Video : row[v] = "there"}

Init ==
    /\ now = 0
    /\ row = [v \in Video |-> "none"]
    /\ created = [v \in Video |-> 0]
    /\ size \in WalkSize
    /\ page = 1
    /\ seen = [v \in Video |-> 0]
    /\ first = {}
    /\ came = 0 /\ went = 0

-----------------------------------------------------------------------------
(* CreateWithID and DeleteByID *)

Walking == page > 1

\* NOW() is the time at which the transaction started: rows may appear in
\* another order than that of created_at, and two may have the same.
BeginInsert(v) ==
    /\ row[v] = "none"
    /\ row' = [row EXCEPT ![v] = "inserting"]
    /\ created' = [created EXCEPT ![v] = now]
    /\ UNCHANGED <<now, walk, came, went>>

CommitInsert(v) ==
    /\ row[v] = "inserting"
    /\ row' = [row EXCEPT ![v] = "there"]
    /\ came' = IF Walking THEN came + 1 ELSE came
    /\ UNCHANGED <<now, created, walk, went>>

\* Mutant of Delete: whether there was a row is not looked at.
DeleteUnchecked(v) ==
    /\ row' = [row EXCEPT ![v] = "deleted"]
    /\ went' = IF Walking THEN went + 1 ELSE went
    /\ UNCHANGED <<now, created, walk, came>>

Delete(v) ==
    /\ row[v] = "there"
    /\ row' = [row EXCEPT ![v] = "deleted"]
    /\ went' = IF Walking THEN went + 1 ELSE went
    /\ UNCHANGED <<now, created, walk, came>>

Tick == now < MaxTime /\ now' = now + 1 /\ UNCHANGED <<row, created, walk, came, went>>

-----------------------------------------------------------------------------
(* ListVideos *)

Least(m, n) == IF m < n THEN m ELSE n

\* An int is what is left of a product.
AsInt(n) == ((n + MaxInt + 1) % (2 * (MaxInt + 1))) - (MaxInt + 1)

Limit(s) == IF s < 1 \/ s > MaxSize THEN DefaultSize ELSE s

\* Mutant of Offset: pages overlap by one row.
OffsetOverlapping(p, s) == AsInt((p - 1) * (Limit(s) - 1))

\* A page below 1 is page 1.
Offset(p, s) == AsInt(((IF p < 1 THEN 1 ELSE p) - 1) * Limit(s))

\* Mutant of Heads: there is no ORDER BY.
HeadsUnsorted(n) == {h \in SUBSET Listed : Cardinality(h) = Least(n, Cardinality(Listed))}

\* What the first n rows may be, ORDER BY created_at DESC: rows of one instant
\* come in any order, which may be another one in the next query.
Heads(n) ==
    {h \in SUBSET Listed :
        /\ Cardinality(h) = Least(n, Cardinality(Listed))
        /\ \A v \in h, w \in Listed \ h : created[v] >= created[w]}

\* Mutant of Total: what was read is counted.
TotalRead(items) == Cardinality(items)

\* COUNT(*) OVER() is a column of the rows: without a row, there is none.
Total(items) == IF items = {} THEN 0 ELSE Cardinality(Listed)

\* The pages that a request may be answered with.  A negative OFFSET is an
\* error of the database, and status 500.
Answers(p, s) ==
    IF Offset(p, s) < 0 THEN {}
    ELSE LET from == Offset(p, s)
             cut == {h \in Heads(from) \X Heads(from + Limit(s)) : h[1] \subseteq h[2]}
         IN  {[items |-> h[2] \ h[1], total |-> Total(h[2] \ h[1])] : h \in cut}

\* The client: it goes on until its pages hold as many rows as there are.
Turn ==
    /\ page > 0
    /\ \E a \in Answers(page, size) :
           /\ seen' = [v \in Video |-> IF v \in a.items THEN seen[v] + 1 ELSE seen[v]]
           /\ page' = IF page * size >= a.total THEN 0 ELSE page + 1
    /\ first' = IF Walking THEN first ELSE Listed
    /\ UNCHANGED <<rows, size, came, went>>

Next ==
    \/ Tick \/ Turn
    \/ \E v \in Video : BeginInsert(v) \/ CommitInsert(v) \/ Delete(v)

Spec == Init /\ [][Next]_vars

-----------------------------------------------------------------------------
TypeOK ==
    /\ now \in 0..MaxTime
    /\ row \in [Video -> {"none", "inserting", "there", "deleted"}]
    /\ created \in [Video -> 0..MaxTime]
    /\ size \in WalkSize
    /\ page \in 0..(Cardinality(Video) + 1)
    /\ seen \in [Video -> Nat]
    /\ first \subseteq Video
    /\ came \in 0..Cardinality(Video) /\ went \in 0..Cardinality(Video)

\* The rows that come before v, and those that may
NewerThan(v) == {w \in Listed : created[w] > created[v]}
AsNewAs(v) == {w \in Listed : created[w] >= created[v]}

(***************************************************************************)
(* Whatever a client asks for, within the pages whose offset is an int, it *)
(* gets the rows of that page and their number, except that a page behind  *)
(* the last says that there are none at all.                               *)
(***************************************************************************)
PagesAreExact ==
    \A p \in 0..(MaxInt \div MaxSize), s \in 0..(MaxSize + 1) :
        LET limit == IF s \in 1..MaxSize THEN s ELSE DefaultSize
            before == limit * (IF p < 1 THEN 0 ELSE p - 1)
            rest == Cardinality(Listed) - before
            answers == Answers(p, s)
        IN  /\ answers # {}
            /\ \A a \in answers :
                   /\ Cardinality(a.items) =
                          IF rest < 0 THEN 0 ELSE Least(rest, limit)
                   /\ a.total = IF rest <= 0 THEN 0 ELSE Cardinality(Listed)
                   /\ \A v \in a.items :
                          /\ Cardinality(NewerThan(v)) < before + limit
                          /\ Cardinality(AsNewAs(v)) > before

\* No two videos have one created_at
Distinct ==
    \A v, w \in Video : v # w /\ {row[v], row[w]} \subseteq {"there", "deleted"}
        => created[v] # created[w]

(***************************************************************************)
(* A client that walks through all pages of a size the API takes misses a  *)
(* video that was there from the first page to the last only for a row     *)
(* that was deleted meanwhile, each of which moves the rest up by one.     *)
(***************************************************************************)
MissedForDeleted ==
    page = 0 /\ Distinct /\ size <= MaxSize
        => Cardinality({v \in first \intersect Listed : seen[v] = 0}) <= went

(***************************************************************************)
(* It gets a video twice only for a row that was inserted meanwhile; which *)
(* may be one with an earlier created_at, whose transaction took longer.   *)
(***************************************************************************)
RepeatedForInserted ==
    page = 0 /\ Distinct /\ size <= MaxSize
        => Cardinality({v \in Video : seen[v] > 1}) <= came
=============================================================================
