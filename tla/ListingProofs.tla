--------------------------- MODULE ListingProofs ---------------------------
(***************************************************************************)
(* Theorems about Listing for every finite set of videos, every size of    *)
(* page and every width of an int: each page is exact, and a walk misses a *)
(* video only for a deletion and repeats one only for an insertion.        *)
(***************************************************************************)
EXTENDS Listing, FiniteSetTheorems, TLAPS

-----------------------------------------------------------------------------
(* Finite sets. *)

\* A family of subsets of a finite set has one that contains no other.
LEMMA SmallestExists ==
    ASSUME NEW S, IsFiniteSet(S), NEW F \in SUBSET SUBSET S, F # {}
    PROVE  \E x \in F : \A y \in F : y \subseteq x => y = x
  <1>1. IsWellFoundedOn(StrictSubsetOrdering(S), SUBSET S)
    BY FS_StrictSubsetOrderingWellFounded, FS_FiniteSubsetsOfFinite
  <1>2. F \subseteq SUBSET S
    OBVIOUS
  <1>3. PICK x \in F : \A y \in F : <<y, x>> \notin StrictSubsetOrdering(S)
    BY <1>1, <1>2, WFMin
  <1>4. ASSUME NEW y \in F, y \subseteq x
        PROVE  y = x
    BY <1>3, <1>4, <1>2 DEF StrictSubsetOrdering
  <1> QED BY <1>4

\* Of finitely many videos one is the newest.
LEMMA NewestExists ==
    ASSUME NEW S, IsFiniteSet(S), S # {}, NEW c, \A v \in S : c[v] \in Int
    PROVE  \E w \in S : \A v \in S : c[v] <= c[w]
  <1> DEFINE Above(w) == {v \in S : c[v] > c[w]}
             F == {Above(w) : w \in S}
  <1>1. F \in SUBSET SUBSET S /\ F # {}
    OBVIOUS
  <1>2. PICK x \in F : \A y \in F : y \subseteq x => y = x
    <2> HIDE DEF F
    <2> QED BY <1>1, SmallestExists
  <1>3. PICK w \in S : x = Above(w)
    OBVIOUS
  <1>4. ASSUME NEW v \in S, ~(c[v] <= c[w])
        PROVE  FALSE
    <2>1. c[v] > c[w]
      BY <1>4
    <2>2. Above(v) \subseteq Above(w)
      BY <2>1
    <2>3. v \in Above(w) /\ v \notin Above(v)
      BY <2>1
    <2>4. Above(v) \in F
      OBVIOUS
    <2> HIDE DEF Above, F
    <2> QED BY <1>2, <1>3, <2>2, <2>3, <2>4
  <1> QED BY <1>4, <1>3

\* Two sets differ in number by what one has more.
LEMMA DifferenceCounts ==
    ASSUME NEW S, IsFiniteSet(S), NEW T \in SUBSET S
    PROVE  Cardinality(S \ T) = Cardinality(S) - Cardinality(T)
  <1>1. S \intersect T = T
    OBVIOUS
  <1> QED BY <1>1, FS_Difference

\* One more at most: there is one x that may be new.
LEMMA OneMore ==
    ASSUME NEW S, IsFiniteSet(S), NEW T, NEW x, T \subseteq S \union {x}
    PROVE  IsFiniteSet(T) /\ Cardinality(T) <= Cardinality(S) + 1
  <1>0. Cardinality(S) \in Nat
    BY FS_CardinalityType
  <1>1. IsFiniteSet(S \union {x}) /\ Cardinality(S \union {x}) <= Cardinality(S) + 1
    <2>1. /\ IsFiniteSet(S \union {x})
          /\ Cardinality(S \union {x}) = IF x \in S THEN Cardinality(S) ELSE Cardinality(S) + 1
      BY FS_AddElement
    <2> QED BY <2>1, <1>0
  <1>2. IsFiniteSet(T) /\ Cardinality(T) <= Cardinality(S \union {x})
    BY <1>1, FS_Subset
  <1>3. Cardinality(T) \in Nat /\ Cardinality(S \union {x}) \in Nat /\ Cardinality(S) \in Nat
    BY <1>1, <1>2, FS_CardinalityType
  <1> QED BY <1>1, <1>2, <1>3

\* Every set of videos is finite.
LEMMA VideosFinite ==
    ASSUME NEW S \in SUBSET Video
    PROVE  IsFiniteSet(S) /\ Cardinality(S) \in Nat /\ Cardinality(S) <= Cardinality(Video)
  <1> QED BY VideoAssumption, FS_Subset, FS_CardinalityType
-----------------------------------------------------------------------------
(* The head of the table. *)

\* The first n rows of a table: any of which is as new as any that is not.
LEMMA HeadGrows ==
    ASSUME TypeOK, NEW n \in Nat, NEW k \in Nat, NEW h \in Heads(n)
    PROVE  \E g \in Heads(n + k) : h \subseteq g
  <1> DEFINE m == Least(n + k, Cardinality(Listed))
             Sorted(g) == \A v \in g, w \in Listed \ g : created[v] >= created[w]
             F == {u \in SUBSET Listed :
                     \E g \in SUBSET Listed :
                        u = Listed \ g /\ h \subseteq g /\ Sorted(g) /\ Cardinality(g) <= m}
  <1>1. IsFiniteSet(Listed) /\ Cardinality(Listed) \in Nat
    BY VideosFinite DEF Listed
  <1>2. /\ h \in SUBSET Listed /\ Sorted(h)
        /\ Cardinality(h) = Least(n, Cardinality(Listed))
    BY DEF Heads
  <1>3. m \in Nat /\ Cardinality(h) <= m /\ m <= Cardinality(Listed)
    BY <1>1, <1>2 DEF Least
  <1>4. F \in SUBSET SUBSET Listed /\ F # {}
    <2>1. Listed \ h \in F
      BY <1>2, <1>3
    <2> QED BY <2>1
  <1>5. PICK u \in F : \A y \in F : y \subseteq u => y = u
    <2> HIDE DEF F
    <2> QED BY <1>1, <1>4, SmallestExists
  <1>6. PICK g \in SUBSET Listed :
            u = Listed \ g /\ h \subseteq g /\ Sorted(g) /\ Cardinality(g) <= m
    BY <1>5
  <1>7. IsFiniteSet(g) /\ Cardinality(g) \in Nat
    BY <1>1, FS_Subset, FS_CardinalityType
  <1>8. Cardinality(g) = m
    <2>1. SUFFICES ASSUME Cardinality(g) < m PROVE FALSE
      BY <1>6, <1>7, <1>3
    <2>2. IsFiniteSet(u) /\ u # {}
      <3>1. IsFiniteSet(u)
        BY <1>1, <1>6, FS_Subset
      <3>2. u # {}
        BY <2>1, <1>1, <1>3, <1>6
      <3> QED BY <3>1, <3>2
    <2>3. \A v \in u : created[v] \in Int
      BY <1>6 DEF TypeOK, Listed
    <2>4. PICK w \in u : \A v \in u : created[v] <= created[w]
      <3> HIDE DEF F
      <3> QED BY <2>2, <2>3, NewestExists
    <2>5. w \in Listed /\ w \notin g
      BY <2>4, <1>6
    <2>6. Cardinality(g \union {w}) = Cardinality(g) + 1
      BY <1>7, <2>5, FS_AddElement
    <2>7. Sorted(g \union {w})
      <3>1. ASSUME NEW v \in g \union {w}, NEW x \in Listed \ (g \union {w})
            PROVE  created[v] >= created[x]
        <4>1. x \in u /\ x \in Listed \ g
          BY <1>6
        <4>2. CASE v \in g
          BY <4>1, <4>2, <1>6
        <4>3. CASE v = w
          BY <4>1, <4>3, <2>3, <2>4
        <4> QED BY <4>2, <4>3
      <3> QED BY <3>1
    <2>8. Cardinality(g \union {w}) <= m
      BY <2>1, <2>6, <1>7, <1>3
    <2>9. Listed \ (g \union {w}) \in F
      <3>1. g \union {w} \in SUBSET Listed /\ h \subseteq g \union {w}
        BY <2>5, <1>6
      <3> HIDE DEF Sorted, m
      <3> QED BY <3>1, <2>7, <2>8
    <2>10. Listed \ (g \union {w}) \subseteq u /\ w \in u
      BY <1>6, <2>4
    <2> HIDE DEF F
    <2> QED BY <2>9, <2>10, <1>5
  <1> QED BY <1>6, <1>8 DEF Heads

\* There is one, for every n.
LEMMA HeadExists ==
    ASSUME TypeOK, NEW n \in Nat
    PROVE  Heads(n) # {}
  <1>1. {} \in Heads(0)
    <2>1. Cardinality(Listed) \in Nat
      BY VideosFinite DEF Listed
    <2> QED BY <2>1, FS_EmptySet DEF Heads, Least
  <1>2. \E g \in Heads(0 + n) : {} \subseteq g
    BY <1>1, HeadGrows
  <1>3. 0 + n = n
    OBVIOUS
  <1> QED BY <1>2, <1>3
-----------------------------------------------------------------------------
(* Pages. *)

\* An int is what it is, as long as it fits.
LEMMA IntFits ==
    ASSUME NEW n \in 0..MaxInt
    PROVE  AsInt(n) = n
  <1>1. \A a \in Nat, b \in Nat : a < b => a % b = a
    OBVIOUS
  <1>2. MaxInt \in Nat
    BY IntAssumption
  <1>3. /\ n + MaxInt + 1 \in Nat /\ 2 * (MaxInt + 1) \in Nat
        /\ n + MaxInt + 1 < 2 * (MaxInt + 1)
    BY <1>2
  <1>4. (n + MaxInt + 1) % (2 * (MaxInt + 1)) = n + MaxInt + 1
    BY <1>1, <1>3
  <1> QED BY <1>2, <1>4 DEF AsInt

\* The size that a page has is a number of rows.
LEMMA LimitTyped ==
    ASSUME NEW s \in Int
    PROVE  /\ Limit(s) \in 1..MaxSize
           /\ s \in 1..MaxSize => Limit(s) = s
  BY SizeAssumption DEF Limit

\* What a request is answered with whose offset is from.
LEMMA AnswerAt ==
    ASSUME NEW p \in Int, NEW s \in Int, NEW from \in Nat, NEW limit \in Nat,
           Offset(p, s) = from, Limit(s) = limit, NEW a \in Answers(p, s)
    PROVE  \E g \in Heads(from) : \E h \in Heads(from + limit) :
                g \subseteq h /\ a.items = h \ g /\ a.total = Total(a.items)
  <1> DEFINE cut == {h \in Heads(from) \X Heads(from + limit) : h[1] \subseteq h[2]}
  <1>1. Answers(p, s) = {[items |-> h[2] \ h[1], total |-> Total(h[2] \ h[1])] : h \in cut}
    BY DEF Answers
  <1>2. PICK c \in cut : a = [items |-> c[2] \ c[1], total |-> Total(c[2] \ c[1])]
    <2> HIDE DEF cut
    <2> QED BY <1>1
  <1>3. c[1] \in Heads(from) /\ c[2] \in Heads(from + limit) /\ c[1] \subseteq c[2]
    OBVIOUS
  <1>4. a.items = c[2] \ c[1] /\ a.total = Total(a.items)
    <2> HIDE DEF cut
    <2> QED BY <1>2
  <1> HIDE DEF cut
  <1> QED BY <1>3, <1>4

\* There is an answer.
LEMMA AnswerExists ==
    ASSUME TypeOK, NEW p \in Int, NEW s \in Int, NEW from \in Nat, NEW limit \in Nat,
           Offset(p, s) = from, Limit(s) = limit
    PROVE  Answers(p, s) # {}
  <1> DEFINE cut == {h \in Heads(from) \X Heads(from + limit) : h[1] \subseteq h[2]}
  <1>1. PICK g \in Heads(from) : TRUE
    BY HeadExists
  <1>2. PICK h \in Heads(from + limit) : g \subseteq h
    BY <1>1, HeadGrows
  <1>3. <<g, h>> \in cut
    BY <1>2
  <1>4. Answers(p, s) = {[items |-> x[2] \ x[1], total |-> Total(x[2] \ x[1])] : x \in cut}
    BY DEF Answers
  <1> HIDE DEF cut
  <1> QED BY <1>3, <1>4

\* What a page holds, by where it begins.
LEMMA PageIsExact ==
    ASSUME TypeOK, NEW from \in Nat, NEW limit \in Nat, limit > 0,
           NEW g \in Heads(from), NEW h \in Heads(from + limit), g \subseteq h
    PROVE  LET rest == Cardinality(Listed) - from
           IN  /\ Cardinality(h \ g) = IF rest < 0 THEN 0 ELSE Least(rest, limit)
               /\ Total(h \ g) = IF rest <= 0 THEN 0 ELSE Cardinality(Listed)
               /\ \A v \in h \ g :
                    /\ Cardinality(NewerThan(v)) < from + limit
                    /\ Cardinality(AsNewAs(v)) > from
  <1> DEFINE rest == Cardinality(Listed) - from
  <1>1. IsFiniteSet(Listed) /\ Cardinality(Listed) \in Nat
    BY VideosFinite DEF Listed
  <1>2. /\ h \in SUBSET Listed /\ IsFiniteSet(h)
        /\ Cardinality(h) = Least(from + limit, Cardinality(Listed))
        /\ \A v \in h, w \in Listed \ h : created[v] >= created[w]
    BY <1>1, FS_Subset DEF Heads
  <1>3. /\ g \in SUBSET Listed /\ IsFiniteSet(g)
        /\ Cardinality(g) = Least(from, Cardinality(Listed))
        /\ \A v \in g, w \in Listed \ g : created[v] >= created[w]
    BY <1>1, FS_Subset DEF Heads
  <1>4. Cardinality(h \ g) = Cardinality(h) - Cardinality(g)
    BY <1>2, DifferenceCounts
  <1>5. Cardinality(h \ g) = IF rest < 0 THEN 0 ELSE Least(rest, limit)
    BY <1>1, <1>2, <1>3, <1>4 DEF Least
  <1>6. h \ g = {} <=> rest <= 0
    <2>1. IsFiniteSet(h \ g)
      BY <1>2, FS_Difference
    <2>2. h \ g = {} <=> Cardinality(h \ g) = 0
      BY <2>1, FS_EmptySet
    <2> QED BY <2>2, <1>5, <1>1 DEF Least
  <1>7. Total(h \ g) = IF rest <= 0 THEN 0 ELSE Cardinality(Listed)
    BY <1>6 DEF Total
  <1>8. ASSUME NEW v \in h \ g
        PROVE  /\ Cardinality(NewerThan(v)) < from + limit
               /\ Cardinality(AsNewAs(v)) > from
    <2>0. \A w \in Listed : created[w] \in Int
      BY DEF TypeOK, Listed
    <2>1. NewerThan(v) \subseteq h \ {v}
      BY <1>2, <2>0 DEF NewerThan
    <2>2. Cardinality(h \ {v}) = Cardinality(h) - 1 /\ IsFiniteSet(h \ {v})
      BY <1>2, FS_RemoveElement
    <2>3. Cardinality(NewerThan(v)) <= Cardinality(h) - 1
      BY <2>1, <2>2, FS_Subset
    <2>4. Cardinality(NewerThan(v)) \in Nat
      BY VideosFinite DEF NewerThan, Listed
    <2>5. g \union {v} \subseteq AsNewAs(v)
      BY <1>2, <1>3, <2>0 DEF AsNewAs
    <2>6. Cardinality(g \union {v}) = Cardinality(g) + 1
      BY <1>3, FS_AddElement
    <2>7. /\ IsFiniteSet(AsNewAs(v)) /\ Cardinality(AsNewAs(v)) \in Nat
          /\ Cardinality(AsNewAs(v)) >= Cardinality(g \union {v})
      <3>1. IsFiniteSet(AsNewAs(v)) /\ Cardinality(AsNewAs(v)) \in Nat
        BY VideosFinite DEF AsNewAs, Listed
      <3> QED BY <3>1, <2>5, FS_Subset
    <2>8. rest > 0
      BY <1>6, <1>1
    <2>9. Cardinality(g) = from
      BY <2>8, <1>1, <1>3 DEF Least
    <2>10. Cardinality(h) <= from + limit
      BY <1>1, <1>2 DEF Least
    <2>11. /\ Cardinality(g) \in Nat /\ Cardinality(h) \in Nat
           /\ Cardinality(g \union {v}) \in Nat
      BY <1>2, <1>3, <2>6, FS_CardinalityType
    <2>12. Cardinality(NewerThan(v)) < from + limit
      BY <2>3, <2>4, <2>10, <2>11
    <2>13. Cardinality(AsNewAs(v)) > from
      BY <2>6, <2>7, <2>9, <2>11
    <2> QED BY <2>12, <2>13
  <1> QED BY <1>5, <1>7, <1>8

\* Offsets that are far from the largest int are what they should be.
LEMMA OffsetFits ==
    ASSUME NEW p \in 0..(MaxInt \div MaxSize), NEW s \in Int
    PROVE  /\ Limit(s) * (IF p < 1 THEN 0 ELSE p - 1) \in Nat
           /\ Offset(p, s) = Limit(s) * (IF p < 1 THEN 0 ELSE p - 1)
  <1> DEFINE turn == IF p < 1 THEN 0 ELSE p - 1
             top == MaxInt \div MaxSize
  <1>1. MaxInt \in Nat /\ MaxSize \in Nat /\ MaxSize >= 1
    BY IntAssumption, SizeAssumption
  <1>2. top \in Nat /\ MaxSize * top <= MaxInt
    BY <1>1
  <1>3. Limit(s) \in Nat /\ Limit(s) <= MaxSize
    BY LimitTyped, <1>1
  <1>4. turn \in Nat /\ turn <= top
    BY <1>2
  <1>5. turn * Limit(s) \in Nat /\ Limit(s) * turn = turn * Limit(s)
    <2> HIDE DEF turn
    <2> QED BY <1>3, <1>4
  <1>6. turn * Limit(s) <= MaxInt
    <2> HIDE DEF turn, top
    <2>1. turn * Limit(s) <= top * Limit(s)
      BY <1>2, <1>3, <1>4
    <2>2. top * Limit(s) <= top * MaxSize
      BY <1>1, <1>2, <1>3
    <2>3. top * MaxSize <= MaxInt
      BY <1>1, <1>2
    <2>4. /\ top * Limit(s) \in Nat /\ top * MaxSize \in Nat
      BY <1>1, <1>2, <1>3
    <2> QED BY <2>1, <2>2, <2>3, <2>4, <1>1, <1>5
  <1>7. AsInt(turn * Limit(s)) = turn * Limit(s)
    BY <1>1, <1>5, <1>6, IntFits
  <1>8. Offset(p, s) = AsInt(turn * Limit(s))
    BY DEF Offset
  <1> QED BY <1>5, <1>7, <1>8
-----------------------------------------------------------------------------
(* Types. *)

Present == {v \in Video : row[v] \in {"there", "deleted"}}
Gone == {v \in Video : row[v] = "deleted"}

\* What is inductive: a row comes once and goes once.
TypeInv ==
    /\ TypeOK
    /\ came <= Cardinality(Present)
    /\ went <= Cardinality(Gone)

\* No answer counts more rows than there are videos.
LEMMA AnswerTyped ==
    ASSUME TypeOK, NEW p, NEW s, NEW a \in Answers(p, s)
    PROVE  /\ a.total \in 0..Cardinality(Video)
           /\ a.items = {} => a.total = 0
           /\ a.items # {} => a.total = Cardinality(Listed)
           /\ a.items \subseteq Listed
  <1> DEFINE cut == {h \in Heads(Offset(p, s)) \X Heads(Offset(p, s) + Limit(s)) : h[1] \subseteq h[2]}
  <1>1. a \in {[items |-> h[2] \ h[1], total |-> Total(h[2] \ h[1])] : h \in cut}
    BY DEF Answers
  <1>2. PICK c \in cut : a = [items |-> c[2] \ c[1], total |-> Total(c[2] \ c[1])]
    <2> HIDE DEF cut
    <2> QED BY <1>1
  <1>3. a.items = c[2] \ c[1] /\ a.total = Total(a.items)
    <2> HIDE DEF cut
    <2> QED BY <1>2
  <1>4. c[2] \subseteq Listed
    BY DEF Heads
  <1>5. Cardinality(Listed) \in Nat /\ Cardinality(Listed) <= Cardinality(Video) /\ Cardinality(Video) \in Nat
    BY VideosFinite DEF Listed
  <1>6. a.items \subseteq Listed
    <2> HIDE DEF cut
    <2> QED BY <1>3, <1>4
  <1> HIDE DEF cut
  <1> QED BY <1>3, <1>5, <1>6 DEF Total

\* The next page of the walk: it goes on only while rows are left.
LEMMA TurnTyped ==
    ASSUME TypeOK, Turn
    PROVE  /\ page \in 1..(Cardinality(Video) + 1) /\ size \in Nat /\ size >= 1
           /\ page' \in 0..(Cardinality(Video) + 1)
           /\ page' # 0 => page' = page + 1 /\ page * size < Cardinality(Video)
           /\ seen' \in [Video -> Nat]
           /\ first' \subseteq Video
           /\ UNCHANGED <<rows, size, came, went>>
  <1>1. page \in 1..(Cardinality(Video) + 1) /\ size \in Nat /\ size >= 1
    <2>1. Cardinality(Video) \in Nat
      BY VideosFinite
    <2> QED BY <2>1, WalkAssumption, IntAssumption DEF TypeOK, Turn
  <1>2. PICK a \in Answers(page, size) :
            /\ seen' = [v \in Video |-> IF v \in a.items THEN seen[v] + 1 ELSE seen[v]]
            /\ page' = IF page * size >= a.total THEN 0 ELSE page + 1
    BY DEF Turn
  <1>3. a.total \in 0..Cardinality(Video) /\ Cardinality(Video) \in Nat
    BY AnswerTyped, VideosFinite
  <1>4. page * size \in Nat /\ page <= page * size
    BY <1>1
  <1>5. page' # 0 => page' = page + 1 /\ page * size < Cardinality(Video)
    BY <1>1, <1>2, <1>3, <1>4
  <1>6. page' \in 0..(Cardinality(Video) + 1)
    BY <1>1, <1>2, <1>3, <1>4, <1>5
  <1>7. seen' \in [Video -> Nat]
    BY <1>2 DEF TypeOK
  <1>8. first' \subseteq Video /\ UNCHANGED <<rows, size, came, went>>
    BY DEF Turn, TypeOK, Listed
  <1> QED BY <1>1, <1>5, <1>6, <1>7, <1>8

\* A row that comes or goes.
LEMMA RowsTyped ==
    ASSUME TypeInv, NEW v \in Video, BeginInsert(v) \/ CommitInsert(v) \/ Delete(v)
    PROVE  TypeInv'
  <1>1. /\ Cardinality(Present) \in Nat /\ Cardinality(Gone) \in Nat
        /\ IsFiniteSet(Present) /\ IsFiniteSet(Gone)
    BY VideosFinite DEF Present, Gone
  <1>2. CASE BeginInsert(v)
    <2>1. Present' = Present /\ Gone' = Gone
      BY <1>2 DEF BeginInsert, Present, Gone, TypeInv, TypeOK
    <2>2. TypeOK'
      BY <1>2 DEF BeginInsert, TypeInv, TypeOK, walk
    <2> QED BY <1>2, <2>1, <2>2 DEF BeginInsert, TypeInv
  <1>3. CASE CommitInsert(v)
    <2>1. Present' = Present \union {v} /\ v \notin Present /\ Gone' = Gone
      BY <1>3 DEF CommitInsert, Present, Gone, TypeInv, TypeOK
    <2>2. Cardinality(Present') = Cardinality(Present) + 1
      BY <2>1, <1>1, FS_AddElement
    <2>3. Cardinality(Present') <= Cardinality(Video) /\ Cardinality(Video) \in Nat
      <3>1. Present' \subseteq Video
        BY DEF Present
      <3> QED BY <3>1, VideosFinite
    <2>4. came' \in 0..Cardinality(Video) /\ came' <= Cardinality(Present')
      BY <1>1, <1>3, <2>2, <2>3 DEF CommitInsert, TypeInv, TypeOK
    <2>5. TypeOK'
      BY <1>3, <2>4 DEF CommitInsert, TypeInv, TypeOK, walk
    <2> QED BY <1>3, <2>1, <2>4, <2>5 DEF CommitInsert, TypeInv
  <1>4. CASE Delete(v)
    <2>1. Gone' = Gone \union {v} /\ v \notin Gone /\ Present' = Present
      BY <1>4 DEF Delete, Present, Gone, TypeInv, TypeOK
    <2>2. Cardinality(Gone') = Cardinality(Gone) + 1
      BY <2>1, <1>1, FS_AddElement
    <2>3. Cardinality(Gone') <= Cardinality(Video) /\ Cardinality(Video) \in Nat
      <3>1. Gone' \subseteq Video
        BY DEF Gone
      <3> QED BY <3>1, VideosFinite
    <2>4. went' \in 0..Cardinality(Video) /\ went' <= Cardinality(Gone')
      BY <1>1, <1>4, <2>2, <2>3 DEF Delete, TypeInv, TypeOK
    <2>5. TypeOK'
      BY <1>4, <2>4 DEF Delete, TypeInv, TypeOK, walk
    <2> QED BY <1>4, <2>1, <2>4, <2>5 DEF Delete, TypeInv
  <1> QED BY <1>2, <1>3, <1>4

LEMMA TypeInvInit == Init => TypeInv
  <1> SUFFICES ASSUME Init PROVE TypeInv
    OBVIOUS
  <1>1. /\ Cardinality(Video) \in Nat /\ Cardinality(Present) \in Nat
        /\ Cardinality(Gone) \in Nat
    BY VideosFinite DEF Present, Gone
  <1> QED BY <1>1, WalkAssumption DEF Init, TypeInv, TypeOK

LEMMA TypeInvStep == TypeInv /\ [Next]_vars => TypeInv'
  <1> SUFFICES ASSUME TypeInv, [Next]_vars PROVE TypeInv'
    OBVIOUS
  <1>1. CASE Tick
    BY <1>1, WalkAssumption DEF Tick, walk, TypeInv, TypeOK, Present, Gone
  <1>2. CASE Turn
    <2>1. TypeOK
      BY DEF TypeInv
    <2>2. /\ page' \in 0..(Cardinality(Video) + 1)
          /\ seen' \in [Video -> Nat]
          /\ first' \subseteq Video
          /\ UNCHANGED <<rows, size, came, went>>
      BY <1>2, <2>1, TurnTyped
    <2> QED BY <2>2 DEF rows, TypeInv, TypeOK, Present, Gone
  <1>3. ASSUME NEW v \in Video, BeginInsert(v) \/ CommitInsert(v) \/ Delete(v)
        PROVE  TypeInv'
    BY <1>3, RowsTyped
  <1>4. CASE UNCHANGED vars
    BY <1>4 DEF vars, rows, walk, TypeInv, TypeOK, Present, Gone
  <1> QED BY <1>1, <1>2, <1>3, <1>4 DEF Next

(***************************************************************************)
(* The table and the walk stay well formed: the walk ends within one page  *)
(* more than there are videos, whatever comes and goes meanwhile.          *)
(***************************************************************************)
THEOREM TypeCorrect == Spec => []TypeOK
  <1>1. TypeInv => TypeOK
    BY DEF TypeInv
  <1> QED BY <1>1, TypeInvInit, TypeInvStep, PTL DEF Spec

\* In a state that is well formed, each page is exact.
LEMMA ExactWhenTyped ==
    ASSUME TypeOK
    PROVE  PagesAreExact
  <1> SUFFICES ASSUME NEW p \in 0..(MaxInt \div MaxSize), NEW s \in 0..(MaxSize + 1)
               PROVE  LET limit == IF s \in 1..MaxSize THEN s ELSE DefaultSize
                          before == limit * (IF p < 1 THEN 0 ELSE p - 1)
                          rest == Cardinality(Listed) - before
                          answers == Answers(p, s)
                      IN  /\ answers # {}
                          /\ \A a \in answers :
                               /\ Cardinality(a.items) =
                                      IF rest < 0 THEN 0 ELSE Least(rest, limit)
                               /\ a.total = IF rest <= 0 THEN 0 ELSE Cardinality(Listed)
                               /\ \A v \in a.items :
                                    /\ Cardinality(NewerThan(v)) < before + limit
                                    /\ Cardinality(AsNewAs(v)) > before
    BY DEF PagesAreExact
  <1>1. s \in Int /\ MaxSize \in Nat
    BY SizeAssumption
  <1>2. PICK limit \in Nat : limit = Limit(s) /\ limit > 0
    BY <1>1, LimitTyped
  <1>3. limit = IF s \in 1..MaxSize THEN s ELSE DefaultSize
    BY <1>1, <1>2 DEF Limit
  <1>4. PICK from \in Nat : from = Offset(p, s) /\ from = limit * (IF p < 1 THEN 0 ELSE p - 1)
    BY <1>1, <1>2, OffsetFits
  <1>5. /\ p \in Int /\ Offset(p, s) = from /\ Limit(s) = limit
        /\ s \in Int /\ from \in Nat /\ limit \in Nat /\ limit > 0
    BY <1>1, <1>2, <1>4
  <1>6. Answers(p, s) # {}
    BY <1>5, AnswerExists
  <1>7. ASSUME NEW a \in Answers(p, s)
        PROVE  LET rest == Cardinality(Listed) - from
               IN  /\ Cardinality(a.items) = IF rest < 0 THEN 0 ELSE Least(rest, limit)
                   /\ a.total = IF rest <= 0 THEN 0 ELSE Cardinality(Listed)
                   /\ \A v \in a.items :
                        /\ Cardinality(NewerThan(v)) < from + limit
                        /\ Cardinality(AsNewAs(v)) > from
    <2>1. PICK g \in Heads(from) : \E h \in Heads(from + limit) :
              g \subseteq h /\ a.items = h \ g /\ a.total = Total(a.items)
      BY <1>5, AnswerAt
    <2>3. PICK h \in Heads(from + limit) :
              g \subseteq h /\ a.items = h \ g /\ a.total = Total(h \ g)
      BY <2>1
    <2>2. LET rest == Cardinality(Listed) - from
          IN  /\ Cardinality(h \ g) = IF rest < 0 THEN 0 ELSE Least(rest, limit)
              /\ Total(h \ g) = IF rest <= 0 THEN 0 ELSE Cardinality(Listed)
              /\ \A v \in h \ g :
                    /\ Cardinality(NewerThan(v)) < from + limit
                    /\ Cardinality(AsNewAs(v)) > from
      <3>1. g \in Heads(from) /\ h \in Heads(from + limit) /\ g \subseteq h
        BY <2>1, <2>3
      <3>2. from \in Nat /\ limit \in Nat /\ limit > 0
        BY <1>5
      <3> QED BY <3>1, <3>2, PageIsExact
    <2> QED BY <2>1, <2>2, <2>3
  <1> QED BY <1>3, <1>4, <1>6, <1>7

(***************************************************************************)
(* A page holds the rows of its place in the table, in one order that the  *)
(* table may have, and the number of all; none is answered short, twice or *)
(* from another place, as long as its offset is an int.                    *)
(***************************************************************************)
THEOREM PagesCorrect == Spec => []PagesAreExact
  <1>1. TypeOK => PagesAreExact
    BY ExactWhenTyped
  <1> QED BY <1>1, TypeCorrect, PTL
-----------------------------------------------------------------------------
(* The walk, when no two videos have one created_at. *)

\* How many rows come before v: its place in the table.
Rank(v) == Cardinality(NewerThan(v))

\* How many rows the pages before this one hold.
Read == (page - 1) * size

\* What a client that asks for a size the API takes may have missed, and may
\* have or get twice, while it walks: rows move across the place where it is.
Missed == {v \in first \intersect Listed : seen[v] = 0 /\ Rank(v) < Read}
Repeated == {v \in Video : seen[v] > 1}
Moved == {v \in Listed : seen[v] > 0 /\ Rank(v) >= Read}

\* Where the walk is, and which videos it can know.
WalkShape ==
    /\ page = 1 => first = {} /\ came = 0 /\ went = 0 /\ \A v \in Video : seen[v] = 0
    /\ Walking => Read < Cardinality(Video)
    /\ \A v \in Video : v \in first \/ seen[v] > 0 => v \in Present

MissedInv ==
    /\ Walking /\ Distinct /\ size <= MaxSize => Cardinality(Missed) <= went
    /\ MissedForDeleted

RepeatedInv ==
    /\ Walking /\ Distinct /\ size <= MaxSize => Cardinality(Repeated \union Moved) <= came
    /\ RepeatedForInserted

\* What is inductive: on the way a video that is missed has been paid for by
\* a deletion, and one that will come again by an insertion.
WalkInv == TypeInv /\ WalkShape /\ MissedInv /\ RepeatedInv

-----------------------------------------------------------------------------
(* Places in the table. *)

LEMMA RankTyped ==
    ASSUME TypeOK, NEW v \in Video
    PROVE  /\ IsFiniteSet(NewerThan(v)) /\ Rank(v) \in Nat
           /\ v \in Listed => Rank(v) < Cardinality(Listed)
  <1>1. IsFiniteSet(NewerThan(v)) /\ Rank(v) \in Nat
    BY VideosFinite DEF NewerThan, Listed, Rank
  <1>2. ASSUME v \in Listed
        PROVE  Rank(v) < Cardinality(Listed)
    <2>1. IsFiniteSet(Listed) /\ Cardinality(Listed) \in Nat
      BY VideosFinite DEF Listed
    <2>2. NewerThan(v) \subseteq Listed \ {v}
      BY DEF NewerThan, TypeOK
    <2>3. /\ IsFiniteSet(Listed \ {v})
          /\ Cardinality(Listed \ {v}) = Cardinality(Listed) - 1
      BY <1>2, <2>1, FS_RemoveElement
    <2>4. Cardinality(NewerThan(v)) <= Cardinality(Listed) - 1
      BY <2>2, <2>3, FS_Subset
    <2> QED BY <1>1, <2>1, <2>4 DEF Rank
  <1> QED BY <1>1, <1>2

\* Two videos that are listed have two places.
LEMMA RankGrows ==
    ASSUME TypeOK, NEW v \in Listed, NEW w \in Listed, created[v] > created[w]
    PROVE  Rank(v) < Rank(w)
  <1>1. v \in Video /\ w \in Video
    BY DEF Listed
  <1>2. /\ IsFiniteSet(NewerThan(v)) /\ IsFiniteSet(NewerThan(w))
        /\ Rank(v) \in Nat /\ Rank(w) \in Nat
    BY <1>1, RankTyped
  <1>3. \A x \in Listed : created[x] \in Int
    BY DEF TypeOK, Listed
  <1>4. NewerThan(v) \union {v} \subseteq NewerThan(w) /\ v \notin NewerThan(v)
    BY <1>3 DEF NewerThan
  <1>5. Cardinality(NewerThan(v) \union {v}) = Rank(v) + 1
    BY <1>2, <1>4, FS_AddElement DEF Rank
  <1>6. Rank(v) + 1 <= Rank(w)
    BY <1>2, <1>4, <1>5, FS_Subset DEF Rank
  <1> QED BY <1>2, <1>6

\* At each place there is one at most.
LEMMA OnePlace ==
    ASSUME TypeOK, Distinct, NEW n
    PROVE  \E y : \A v \in Listed : Rank(v) = n => v = y
  <1>1. ASSUME NEW v \in Listed, NEW w \in Listed, Rank(v) = Rank(w), v # w
        PROVE  FALSE
    <2>1. v \in Video /\ w \in Video /\ created[v] # created[w]
      BY <1>1 DEF Distinct, Listed
    <2>2. created[v] \in Int /\ created[w] \in Int /\ Rank(v) \in Nat /\ Rank(w) \in Nat
      BY <2>1, RankTyped DEF TypeOK
    <2>3. created[v] > created[w] \/ created[w] > created[v]
      BY <2>1, <2>2
    <2>4. Rank(v) < Rank(w) \/ Rank(w) < Rank(v)
      BY <2>3, RankGrows
    <2> QED BY <1>1, <2>2, <2>4
  <1>2. CASE \E y \in Listed : Rank(y) = n
    BY <1>1, <1>2
  <1>3. CASE ~ \E y \in Listed : Rank(y) = n
    BY <1>3
  <1> QED BY <1>2, <1>3

\* The first n rows are those of the first n places.
LEMMA HeadByRank ==
    ASSUME TypeOK, Distinct, NEW n \in Nat, NEW h \in Heads(n), NEW v \in Listed
    PROVE  v \in h <=> Rank(v) < n
  <1>1. IsFiniteSet(Listed) /\ Cardinality(Listed) \in Nat /\ v \in Video
    BY VideosFinite DEF Listed
  <1>2. /\ h \in SUBSET Listed /\ IsFiniteSet(h) /\ Cardinality(h) \in Nat
        /\ Cardinality(h) = Least(n, Cardinality(Listed))
        /\ \A x \in h, w \in Listed \ h : created[x] >= created[w]
    BY <1>1, FS_Subset, FS_CardinalityType DEF Heads
  <1>3. IsFiniteSet(NewerThan(v)) /\ Rank(v) \in Nat
    BY <1>1, RankTyped
  <1>4. \A x \in Listed : created[x] \in Int
    BY DEF TypeOK, Listed
  <1>5. ASSUME v \in h
        PROVE  Rank(v) < n
    <2>1. NewerThan(v) \subseteq h \ {v}
      BY <1>2, <1>4, <1>5 DEF NewerThan
    <2>2. IsFiniteSet(h \ {v}) /\ Cardinality(h \ {v}) = Cardinality(h) - 1
      BY <1>2, <1>5, FS_RemoveElement
    <2>3. Rank(v) <= Cardinality(h) - 1
      BY <2>1, <2>2, FS_Subset DEF Rank
    <2>4. Cardinality(h) <= n
      BY <1>1, <1>2 DEF Least
    <2> QED BY <1>2, <1>3, <2>3, <2>4
  <1>6. ASSUME v \notin h
        PROVE  Rank(v) >= n
    <2>1. h \subseteq NewerThan(v)
      <3>1. ASSUME NEW x \in h
            PROVE  created[x] > created[v]
        <4>1. x \in Listed /\ x # v /\ created[x] >= created[v]
          BY <1>2, <1>6
        <4>2. created[x] # created[v]
          BY <4>1 DEF Distinct, Listed
        <4> QED BY <1>4, <4>1, <4>2
      <3> QED BY <1>2, <3>1 DEF NewerThan
    <2>2. Cardinality(h) <= Rank(v)
      BY <1>3, <2>1, FS_Subset DEF Rank
    <2>3. Cardinality(h) # Cardinality(Listed)
      BY <1>1, <1>2, <1>6, FS_Subset
    <2> QED BY <1>1, <1>2, <1>3, <2>2, <2>3 DEF Least
  <1> QED BY <1>3, <1>5, <1>6
\* Rows keep their created_at and do not come back: those of later are those
\* of now, and more.
LEMMA DistinctBefore ==
    ASSUME TypeOK, Distinct',
           NEW x \in Video, BeginInsert(x) \/ CommitInsert(x) \/ Delete(x)
    PROVE  Distinct
  <1>1. ASSUME NEW v \in Video, row[v] \in {"there", "deleted"}
        PROVE  row'[v] \in {"there", "deleted"} /\ created'[v] = created[v]
    BY <1>1 DEF BeginInsert, CommitInsert, Delete, TypeOK
  <1>2. \A v, w \in Video :
            v # w /\ {row'[v], row'[w]} \subseteq {"there", "deleted"} => created'[v] # created'[w]
    BY DEF Distinct
  <1>3. ASSUME NEW v \in Video, NEW w \in Video,
               v # w, {row[v], row[w]} \subseteq {"there", "deleted"}
        PROVE  created[v] # created[w]
    BY <1>1, <1>2, <1>3
  <1> QED BY <1>3 DEF Distinct

\* A row that goes moves those behind it up by one place.
LEMMA DeleteRank ==
    ASSUME TypeOK, NEW x \in Video, Delete(x), NEW v \in Video
    PROVE  /\ Listed' = Listed \ {x}
           /\ Rank(v)' \in Nat /\ Rank(v)' <= Rank(v) /\ Rank(v) <= Rank(v)' + 1
  <1>1. Listed' = Listed \ {x}
    BY DEF Delete, Listed, TypeOK
  <1>2. NewerThan(v)' = NewerThan(v) \ {x}
    BY <1>1 DEF Delete, NewerThan
  <1>3. IsFiniteSet(NewerThan(v)) /\ Cardinality(NewerThan(v)) \in Nat
    BY RankTyped DEF Rank
  <1>4. Cardinality(NewerThan(v) \ {x}) =
            IF x \in NewerThan(v) THEN Cardinality(NewerThan(v)) - 1 ELSE Cardinality(NewerThan(v))
    BY <1>3, FS_RemoveElement
  <1>5. Cardinality(NewerThan(v) \ {x}) \in Nat
    BY <1>3, FS_RemoveElement, FS_CardinalityType
  <1> QED BY <1>1, <1>2, <1>3, <1>4, <1>5 DEF Rank

\* A row that comes moves them down by one.
LEMMA InsertRank ==
    ASSUME TypeOK, NEW x \in Video, CommitInsert(x), NEW v \in Video
    PROVE  /\ Listed' = Listed \union {x}
           /\ Rank(v)' \in Nat /\ Rank(v)' >= Rank(v) /\ Rank(v)' <= Rank(v) + 1
  <1>1. Listed' = Listed \union {x}
    BY DEF CommitInsert, Listed, TypeOK
  <1>2. NewerThan(v)' = NewerThan(v) \/ NewerThan(v)' = NewerThan(v) \union {x}
    BY <1>1 DEF CommitInsert, NewerThan
  <1>3. IsFiniteSet(NewerThan(v)) /\ Cardinality(NewerThan(v)) \in Nat
    BY RankTyped DEF Rank
  <1>4. Cardinality(NewerThan(v) \union {x}) =
            IF x \in NewerThan(v) THEN Cardinality(NewerThan(v)) ELSE Cardinality(NewerThan(v)) + 1
    BY <1>3, FS_AddElement
  <1> QED BY <1>1, <1>2, <1>3, <1>4 DEF Rank

\* A transaction that begins moves none.
LEMMA BeginRank ==
    ASSUME TypeOK, NEW x \in Video, BeginInsert(x), NEW v \in Listed
    PROVE  Listed' = Listed /\ Rank(v)' = Rank(v)
  <1>1. Listed' = Listed /\ x \notin Listed
    BY DEF BeginInsert, Listed, TypeOK
  <1>2. \A w \in Listed : created'[w] = created[w]
    BY <1>1 DEF BeginInsert, Listed, TypeOK
  <1>3. NewerThan(v)' = NewerThan(v)
    BY <1>1, <1>2 DEF NewerThan
  <1> QED BY <1>1, <1>3 DEF Rank

\* How far the walk has come is a number, and an int.
LEMMA ReadTyped ==
    ASSUME WalkInv, page > 0
    PROVE  /\ size \in Nat /\ size >= 1 /\ page \in Nat
           /\ Read \in 0..MaxInt /\ page * size = Read + size
           /\ page = 1 => Read = 0
  <1>1. /\ size \in Nat /\ size >= 1 /\ page \in Nat /\ Cardinality(Video) \in Nat
        /\ MaxInt \in Nat
    BY VideosFinite, WalkAssumption, IntAssumption DEF WalkInv, TypeInv, TypeOK
  <1>2. Read \in Nat /\ page * size = Read + size /\ (page = 1 => Read = 0)
    BY <1>1 DEF Read
  <1>3. Read <= MaxInt
    BY <1>1, <1>2, TotalAssumption DEF WalkInv, WalkShape, Walking
  <1> QED BY <1>1, <1>2, <1>3

\* A page, when no two videos have one created_at: the rows of its places.
LEMMA TurnByRank ==
    ASSUME WalkInv, Turn, Distinct, size <= MaxSize
    PROVE  \E items \in SUBSET Listed :
              /\ seen' = [v \in Video |-> IF v \in items THEN seen[v] + 1 ELSE seen[v]]
              /\ \A v \in Listed : v \in items <=> Rank(v) >= Read /\ Rank(v) < Read + size
              /\ page' = 0 => Cardinality(Listed) <= Read + size
  <1>1. TypeOK /\ page > 0 /\ page \in Nat
    BY DEF Turn, WalkInv, TypeInv, TypeOK
  <1>2. /\ size \in Nat /\ size >= 1 /\ page \in Int /\ size \in Int
        /\ Read \in 0..MaxInt /\ page * size = Read + size
    BY <1>1, ReadTyped
  <1>0. PICK p \in Nat, limit \in Nat, from \in Nat : p = page /\ limit = size /\ from = Read
    BY <1>1, <1>2, IntAssumption
  <1>3. PICK a \in Answers(page, size) :
            /\ seen' = [v \in Video |-> IF v \in a.items THEN seen[v] + 1 ELSE seen[v]]
            /\ page' = IF page * size >= a.total THEN 0 ELSE page + 1
    BY DEF Turn
  <1>4. Limit(size) = size
    BY <1>2, LimitTyped, SizeAssumption
  <1>5. Offset(page, size) = Read
    <2>1. Offset(page, size) = AsInt((page - 1) * size)
      BY <1>1, <1>4 DEF Offset
    <2> QED BY <2>1, <1>2, IntFits DEF Read
  <1>6. /\ from \in Nat /\ limit \in Nat /\ limit > 0 /\ p \in Int /\ limit \in Int
        /\ Cardinality(Listed) \in Nat
        /\ Offset(p, limit) = from /\ Limit(limit) = limit
    BY <1>0, <1>2, <1>4, <1>5, VideosFinite DEF Listed
  <1>7. PICK g \in Heads(from) : \E h \in Heads(from + limit) :
            g \subseteq h /\ a.items = h \ g /\ a.total = Total(a.items)
    <2>1. a \in Answers(p, limit)
      BY <1>0, <1>3
    <2> QED BY <1>6, <2>1, AnswerAt
  <1>8. PICK h \in Heads(from + limit) :
            g \subseteq h /\ a.items = h \ g /\ a.total = Total(a.items)
    BY <1>7
  <1>9. g \in Heads(from) /\ h \in Heads(from + limit) /\ g \subseteq h
    BY <1>7, <1>8
  <1>10. a.items \subseteq Listed
    BY <1>8 DEF Heads
  <1>11. ASSUME NEW v \in Listed
         PROVE  v \in a.items <=> Rank(v) >= from /\ Rank(v) < from + limit
    <2>1. v \in g <=> Rank(v) < from
      BY <1>1, <1>6, <1>9, HeadByRank
    <2>2. from + limit \in Nat
      BY <1>2, <1>6
    <2>3. v \in h <=> Rank(v) < from + limit
      BY <1>1, <1>9, <2>2, HeadByRank
    <2>4. Rank(v) \in Nat
      BY <1>1, RankTyped DEF Listed
    <2> QED BY <1>6, <1>8, <2>1, <2>3, <2>4
  <1>12. ASSUME page' = 0
         PROVE  Cardinality(Listed) <= from + limit
    <2>1. page * size >= a.total
      BY <1>1, <1>3, <1>12
    <2>2. a.total = IF Cardinality(Listed) - from <= 0 THEN 0 ELSE Cardinality(Listed)
      <3>1. Total(h \ g) = IF Cardinality(Listed) - from <= 0 THEN 0 ELSE Cardinality(Listed)
        <4>1. from \in Nat /\ limit \in Nat /\ limit > 0
          BY <1>6
        <4> QED BY <4>1, <1>1, <1>9, PageIsExact
      <3> QED BY <3>1, <1>8
    <2> QED BY <1>0, <1>2, <1>6, <2>1, <2>2
  <1> QED BY <1>0, <1>3, <1>10, <1>11, <1>12
-----------------------------------------------------------------------------
(* What a client misses and gets twice. *)

LEMMA ShapeStep ==
    ASSUME WalkInv, Next
    PROVE  WalkShape'
  <1> USE DEF WalkShape, Walking, Read
  <1>1. TypeOK /\ WalkShape
    BY DEF WalkInv, TypeInv
  <1>2. CASE Tick
    BY <1>1, <1>2 DEF Tick, walk, Present
  <1>3. CASE Turn
    <2>1. /\ page \in 1..(Cardinality(Video) + 1) /\ size \in Nat /\ size >= 1
          /\ page' # 0 => page' = page + 1 /\ page * size < Cardinality(Video)
          /\ UNCHANGED <<rows, size, came, went>>
      BY <1>1, <1>3, TurnTyped
    <2>2. PICK a \in Answers(page, size) :
              seen' = [v \in Video |-> IF v \in a.items THEN seen[v] + 1 ELSE seen[v]]
      BY <1>3 DEF Turn
    <2>3. a.items \subseteq Listed
      BY <1>1, AnswerTyped
    <2>4. Cardinality(Video) \in Nat
      BY VideosFinite
    <2>5. page' # 1
      BY <2>1, <2>4
    <2>6. page' > 1 => (page' - 1) * size' < Cardinality(Video)
      BY <2>1, <2>4 DEF rows
    <2>7. ASSUME NEW v \in Video, v \in first' \/ seen'[v] > 0
          PROVE  v \in Present'
      <3>1. Present' = Present
        BY <2>1 DEF rows, Present
      <3>2. v \in first \/ v \in Listed \/ seen[v] > 0
        BY <1>3, <2>2, <2>3, <2>7 DEF Turn
      <3>3. Listed \subseteq Present
        BY DEF Listed, Present
      <3> QED BY <1>1, <3>1, <3>2, <3>3
    <2> QED BY <2>5, <2>6, <2>7
  <1>4. ASSUME NEW x \in Video, BeginInsert(x) \/ CommitInsert(x) \/ Delete(x)
        PROVE  WalkShape'
    <2>1. /\ UNCHANGED walk
          /\ page = 1 => UNCHANGED <<came, went>>
      BY <1>4 DEF BeginInsert, CommitInsert, Delete
    <2>2. Present \subseteq Present'
      BY <1>1, <1>4 DEF BeginInsert, CommitInsert, Delete, Present, TypeOK
    <2> QED BY <1>1, <2>1, <2>2 DEF walk
  <1> QED BY <1>2, <1>3, <1>4 DEF Next

LEMMA ListedFinite ==
    /\ IsFiniteSet(Missed) /\ Cardinality(Missed) \in Nat
    /\ IsFiniteSet(Repeated \union Moved) /\ Cardinality(Repeated \union Moved) \in Nat
  <1>1. Missed \subseteq Video /\ Repeated \union Moved \subseteq Video
    BY DEF Missed, Repeated, Moved, Listed
  <1> QED BY <1>1, VideosFinite

\* A row that goes lets one at most slip behind the client.
LEMMA MissedDelete ==
    ASSUME WalkInv, NEW x \in Video, Delete(x)
    PROVE  MissedInv'
  <1>1. TypeOK /\ WalkShape /\ MissedInv
    BY DEF WalkInv, TypeInv
  <1>2. /\ UNCHANGED <<created, walk, came>>
        /\ went' = IF Walking THEN went + 1 ELSE went
        /\ Listed' = Listed \ {x}
    BY <1>1, DeleteRank DEF Delete
  <1>3. SUFFICES ASSUME Distinct', size' <= MaxSize
                 PROVE  /\ Walking' => Cardinality(Missed') <= went'
                        /\ page' = 0 =>
                             Cardinality({v \in first' \intersect Listed' : seen'[v] = 0}) <= went'
    BY DEF MissedInv, MissedForDeleted
  <1>4. Distinct /\ size <= MaxSize
    BY <1>1, <1>2, <1>3, DistinctBefore DEF walk
  <1>5. ASSUME Walking
        PROVE  Cardinality(Missed') <= went'
    <2>1. PICK y : \A v \in Listed : Rank(v) = Read => v = y
      BY <1>1, <1>4, OnePlace
    <2>2. Read \in Int
      BY <1>5, ReadTyped DEF Walking, TypeInv, TypeOK, WalkInv
    <2>3. Missed' \subseteq Missed \union {y}
      <3>1. ASSUME NEW v \in Missed'
            PROVE  v \in Missed \/ v = y
        <4>1. /\ v \in first \intersect Listed /\ seen[v] = 0
              /\ Rank(v)' < Read /\ v \in Video
          BY <1>2, <3>1 DEF Missed, walk, Read, Listed
        <4>2. Rank(v)' \in Nat /\ Rank(v) <= Rank(v)' + 1 /\ Rank(v) \in Nat
          BY <1>1, <4>1, DeleteRank, RankTyped
        <4>3. Rank(v) < Read \/ Rank(v) = Read
          BY <4>1, <4>2, <2>2
        <4> QED BY <2>1, <4>1, <4>3 DEF Missed
      <3> QED BY <3>1
    <2>4. Cardinality(Missed') <= Cardinality(Missed) + 1 /\ Cardinality(Missed') \in Nat
      BY <2>3, ListedFinite, OneMore, FS_CardinalityType
    <2>5. Cardinality(Missed) <= went /\ went' = went + 1
      BY <1>1, <1>2, <1>4, <1>5 DEF MissedInv
    <2> QED BY <2>4, <2>5, <1>1, ListedFinite DEF TypeOK
  <1>6. ASSUME page' = 0
        PROVE  Cardinality({v \in first' \intersect Listed' : seen'[v] = 0}) <= went'
    <2> DEFINE S == {v \in first \intersect Listed : seen[v] = 0}
               T == {v \in first' \intersect Listed' : seen'[v] = 0}
    <2>1. page = 0 /\ went' = went
      BY <1>2, <1>6 DEF walk, Walking
    <2>2. Cardinality(S) <= went
      BY <1>1, <1>4, <2>1 DEF MissedInv, MissedForDeleted
    <2>3. T \subseteq S
      BY <1>2 DEF walk
    <2>4. /\ IsFiniteSet(S) /\ Cardinality(S) \in Nat
      BY VideosFinite DEF Listed
    <2> HIDE DEF S
    <2>5. Cardinality(T) <= Cardinality(S) /\ Cardinality(T) \in Nat
      BY <2>3, <2>4, FS_Subset, FS_CardinalityType
    <2> HIDE DEF T
    <2> QED BY <2>1, <2>2, <2>4, <2>5, <1>1 DEF T, TypeOK
  <1> QED BY <1>2, <1>5, <1>6 DEF walk, Walking
\* A row that comes is not one of those that the client began with, and moves
\* none of them back behind it.
LEMMA MissedInsert ==
    ASSUME WalkInv, NEW x \in Video, CommitInsert(x) \/ BeginInsert(x)
    PROVE  MissedInv'
  <1>1. TypeOK /\ WalkShape /\ MissedInv
    BY DEF WalkInv, TypeInv
  <1>2. UNCHANGED <<walk, went>>
    BY DEF CommitInsert, BeginInsert
  <1>3. SUFFICES ASSUME Distinct', size' <= MaxSize
                 PROVE  /\ Walking' => Cardinality(Missed') <= went'
                        /\ page' = 0 =>
                             Cardinality({v \in first' \intersect Listed' : seen'[v] = 0}) <= went'
    BY DEF MissedInv, MissedForDeleted
  <1>4. Distinct /\ size <= MaxSize
    BY <1>1, <1>2, <1>3, DistinctBefore DEF walk
  <1>5. ASSUME NEW v \in first \intersect Listed'
        PROVE  v \in Listed
    <2>1. v \in Present /\ v \in Video
      BY <1>1 DEF WalkShape, TypeOK
    <2>2. v # x
      BY <2>1, <1>1 DEF Present, CommitInsert, BeginInsert
    <2> QED BY <1>1, <2>1, <2>2 DEF CommitInsert, BeginInsert, Listed, TypeOK
  <1>6. ASSUME NEW v \in Listed
        PROVE  Rank(v)' \in Nat /\ Rank(v) \in Nat /\ Rank(v) <= Rank(v)'
    <2>1. v \in Video
      BY DEF Listed
    <2>2. Rank(v) \in Nat
      BY <1>1, <2>1, RankTyped
    <2>3. CASE CommitInsert(x)
      BY <1>1, <2>1, <2>2, <2>3, InsertRank
    <2>4. CASE BeginInsert(x)
      BY <1>1, <2>2, <2>4, BeginRank
    <2> QED BY <2>3, <2>4
  <1>7. ASSUME Walking
        PROVE  Cardinality(Missed') <= went'
    <2>1. Read \in Int
      BY <1>7, ReadTyped DEF Walking, TypeInv, TypeOK, WalkInv
    <2>2. Missed' \subseteq Missed
      <3>1. ASSUME NEW v \in Missed'
            PROVE  v \in Missed
        <4>1. v \in first \intersect Listed' /\ seen[v] = 0 /\ Rank(v)' < Read
          BY <1>2, <3>1 DEF Missed, walk, Read
        <4>2. v \in Listed
          BY <4>1, <1>5
        <4>3. Rank(v) < Read
          BY <4>1, <4>2, <1>6, <2>1
        <4> QED BY <4>1, <4>2, <4>3 DEF Missed
      <3> QED BY <3>1
    <2>3. Cardinality(Missed') <= Cardinality(Missed) /\ Cardinality(Missed') \in Nat
      BY <2>2, ListedFinite, FS_Subset, FS_CardinalityType
    <2>4. Cardinality(Missed) <= went
      BY <1>1, <1>4, <1>7 DEF MissedInv
    <2> QED BY <1>1, <1>2, <2>3, <2>4, ListedFinite DEF TypeOK
  <1>8. ASSUME page' = 0
        PROVE  Cardinality({v \in first' \intersect Listed' : seen'[v] = 0}) <= went'
    <2> DEFINE S == {v \in first \intersect Listed : seen[v] = 0}
               T == {v \in first' \intersect Listed' : seen'[v] = 0}
    <2>1. page = 0
      BY <1>2, <1>8 DEF walk
    <2>2. Cardinality(S) <= went
      BY <1>1, <1>4, <2>1 DEF MissedInv, MissedForDeleted
    <2>3. T \subseteq S
      BY <1>2, <1>5 DEF walk
    <2>4. /\ IsFiniteSet(S) /\ Cardinality(S) \in Nat
      BY VideosFinite DEF Listed
    <2> HIDE DEF S
    <2>5. Cardinality(T) <= Cardinality(S) /\ Cardinality(T) \in Nat
      BY <2>3, <2>4, FS_Subset, FS_CardinalityType
    <2> HIDE DEF T
    <2> QED BY <1>2, <2>2, <2>4, <2>5, <1>1 DEF T, TypeOK
  <1> QED BY <1>2, <1>7, <1>8 DEF walk, Walking

\* A page leaves out none of its places, and the last one no place at all.
LEMMA MissedTurn ==
    ASSUME WalkInv, Turn
    PROVE  MissedInv'
  <1>1. TypeOK /\ WalkShape /\ MissedInv
    BY DEF WalkInv, TypeInv
  <1>2. /\ page \in Nat /\ page >= 1 /\ size \in Nat
        /\ page' # 0 => page' = page + 1
        /\ UNCHANGED <<now, row, created, size, came, went>>
        /\ first' = IF Walking THEN first ELSE Listed
    <2>1. Cardinality(Video) \in Nat
      BY VideosFinite
    <2> QED BY <1>1, <2>1, TurnTyped DEF Turn, rows
  <1>3. SUFFICES ASSUME Distinct', size' <= MaxSize
                 PROVE  /\ Walking' => Cardinality(Missed') <= went'
                        /\ page' = 0 =>
                             Cardinality({v \in first' \intersect Listed' : seen'[v] = 0}) <= went'
    BY DEF MissedInv, MissedForDeleted
  <1>4. Distinct /\ size <= MaxSize
    BY <1>2, <1>3 DEF Distinct
  <1>5. PICK items \in SUBSET Listed :
            /\ seen' = [v \in Video |-> IF v \in items THEN seen[v] + 1 ELSE seen[v]]
            /\ \A v \in Listed : v \in items <=> Rank(v) >= Read /\ Rank(v) < Read + size
            /\ page' = 0 => Cardinality(Listed) <= Read + size
    BY <1>4, TurnByRank
  <1>6. /\ Read \in Nat /\ page * size = Read + size /\ (page = 1 => Read = 0)
    BY <1>2, ReadTyped
  <1>7. Listed' = Listed /\ \A v \in Listed : Rank(v)' = Rank(v)
    BY <1>2 DEF Listed, Rank, NewerThan
  <1>8. Cardinality(IF Walking THEN Missed ELSE {}) <= went
    <2>1. CASE Walking
      BY <1>1, <1>4, <2>1 DEF MissedInv
    <2>2. CASE ~Walking
      BY <1>1, <2>2, FS_EmptySet DEF TypeOK
    <2> QED BY <2>1, <2>2
  <1>9. ASSUME NEW v \in first' \intersect Listed, seen'[v] = 0, Rank(v) < Read + size
        PROVE  v \in IF Walking THEN Missed ELSE {}
    <2>1. v \in Video /\ Rank(v) \in Nat /\ seen[v] \in Nat
      BY <1>1, RankTyped DEF Listed, TypeOK
    <2>2. seen'[v] = IF v \in items THEN seen[v] + 1 ELSE seen[v]
      BY <1>5, <2>1
    <2>3. v \notin items /\ seen[v] = 0
      BY <1>9, <2>1, <2>2
    <2>4. Rank(v) < Read
      BY <1>5, <1>6, <1>9, <2>1, <2>3
    <2>5. page # 1
      BY <1>6, <2>1, <2>4
    <2>6. Walking
      BY <1>2, <2>5 DEF Walking
    <2> QED BY <1>2, <1>9, <2>3, <2>4, <2>6 DEF Missed
  <1>10. /\ IsFiniteSet(IF Walking THEN Missed ELSE {})
         /\ Cardinality(IF Walking THEN Missed ELSE {}) \in Nat
    BY ListedFinite, FS_EmptySet
  <1>11. ASSUME NEW T, T \subseteq IF Walking THEN Missed ELSE {}
         PROVE  Cardinality(T) <= went
    <2> DEFINE S == IF Walking THEN Missed ELSE {}
    <2> HIDE DEF S
    <2>1. T \subseteq S /\ IsFiniteSet(S) /\ Cardinality(S) \in Nat /\ Cardinality(S) <= went
      BY <1>8, <1>10, <1>11 DEF S
    <2>2. Cardinality(T) <= Cardinality(S) /\ Cardinality(T) \in Nat
      BY <2>1, FS_Subset, FS_CardinalityType
    <2> QED BY <1>1, <2>1, <2>2 DEF TypeOK
  <1>12. ASSUME Walking'
         PROVE  Cardinality(Missed') <= went'
    <2>1. page' = page + 1
      BY <1>2, <1>12 DEF Walking
    <2>2. Read' = Read + size
      BY <2>1, <1>2, <1>6 DEF Read
    <2>3. Missed' \subseteq IF Walking THEN Missed ELSE {}
      <3>1. ASSUME NEW v \in Missed'
            PROVE  v \in IF Walking THEN Missed ELSE {}
        <4>1. v \in first' \intersect Listed' /\ seen'[v] = 0 /\ Rank(v)' < Read'
          BY <3>1 DEF Missed
        <4> QED BY <4>1, <1>7, <1>9, <2>2
      <3> QED BY <3>1
    <2> QED BY <1>2, <1>11, <2>3
  <1>13. ASSUME page' = 0
         PROVE  Cardinality({v \in first' \intersect Listed' : seen'[v] = 0}) <= went'
    <2> DEFINE T == {v \in first' \intersect Listed' : seen'[v] = 0}
    <2>1. T \subseteq IF Walking THEN Missed ELSE {}
      <3>1. ASSUME NEW v \in T
            PROVE  v \in IF Walking THEN Missed ELSE {}
        <4>1. v \in first' \intersect Listed /\ seen'[v] = 0
          BY <1>7
        <4>2. v \in Video /\ Rank(v) < Cardinality(Listed) /\ Rank(v) \in Nat
          BY <1>1, <4>1, RankTyped DEF Listed
        <4>3. Cardinality(Listed) <= Read + size /\ Cardinality(Listed) \in Nat
          BY <1>5, <1>13, VideosFinite DEF Listed
        <4>4. Rank(v) < Read + size
          BY <4>2, <4>3, <1>2, <1>6
        <4> QED BY <4>1, <4>4, <1>9
      <3> QED BY <3>1
    <2> HIDE DEF T
    <2>2. Cardinality(T) <= went
      BY <1>11, <2>1
    <2> QED BY <1>2, <2>2 DEF T
  <1> QED BY <1>12, <1>13
\* A row that goes moves none ahead of the client.
LEMMA RepeatedDelete ==
    ASSUME WalkInv, NEW x \in Video, Delete(x) \/ BeginInsert(x)
    PROVE  RepeatedInv'
  <1>1. TypeOK /\ WalkShape /\ RepeatedInv
    BY DEF WalkInv, TypeInv
  <1>2. UNCHANGED <<walk, came>>
    BY DEF Delete, BeginInsert
  <1>3. SUFFICES ASSUME Distinct', size' <= MaxSize
                 PROVE  /\ Walking' => Cardinality((Repeated \union Moved)') <= came'
                        /\ page' = 0 => Cardinality({v \in Video : seen'[v] > 1}) <= came'
    BY DEF RepeatedInv, RepeatedForInserted
  <1>4. Distinct /\ size <= MaxSize
    BY <1>1, <1>2, <1>3, DistinctBefore DEF walk
  <1>5. ASSUME Walking
        PROVE  Cardinality((Repeated \union Moved)') <= came'
    <2>1. Read \in Int
      BY <1>5, ReadTyped DEF Walking, TypeInv, TypeOK, WalkInv
    <2>2. Moved' \subseteq Moved
      <3>1. ASSUME NEW v \in Moved'
            PROVE  v \in Moved
        <4>1. v \in Listed' /\ seen[v] > 0 /\ Rank(v)' >= Read
          BY <1>2, <3>1 DEF Moved, walk, Read
        <4>2. v \in Video /\ v \in Listed
          BY <4>1, <1>1 DEF Listed, Delete, BeginInsert, TypeOK
        <4>3. Rank(v)' \in Nat /\ Rank(v) \in Nat /\ Rank(v)' <= Rank(v)
          <5>1. Rank(v) \in Nat
            BY <1>1, <4>2, RankTyped
          <5>2. CASE Delete(x)
            BY <1>1, <4>2, <5>1, <5>2, DeleteRank
          <5>3. CASE BeginInsert(x)
            BY <1>1, <4>2, <5>1, <5>3, BeginRank
          <5> QED BY <5>2, <5>3
        <4>4. Rank(v) >= Read
          BY <4>1, <4>3, <2>1
        <4> QED BY <4>1, <4>2, <4>4 DEF Moved
      <3> QED BY <3>1
    <2>3. Repeated' = Repeated
      BY <1>2 DEF Repeated, walk
    <2>4. (Repeated \union Moved)' \subseteq Repeated \union Moved
      BY <2>2, <2>3
    <2>5. /\ Cardinality((Repeated \union Moved)') <= Cardinality(Repeated \union Moved)
          /\ Cardinality((Repeated \union Moved)') \in Nat
      BY <2>4, ListedFinite, FS_Subset, FS_CardinalityType
    <2>6. Cardinality(Repeated \union Moved) <= came
      BY <1>1, <1>4, <1>5 DEF RepeatedInv
    <2> QED BY <1>1, <1>2, <2>5, <2>6, ListedFinite DEF TypeOK
  <1>6. ASSUME page' = 0
        PROVE  Cardinality({v \in Video : seen'[v] > 1}) <= came'
    BY <1>1, <1>2, <1>4, <1>6 DEF walk, RepeatedInv, RepeatedForInserted
  <1> QED BY <1>2, <1>5, <1>6 DEF walk, Walking

\* A row that comes moves one at most ahead of the client.
LEMMA RepeatedInsert ==
    ASSUME WalkInv, NEW x \in Video, CommitInsert(x)
    PROVE  RepeatedInv'
  <1>1. TypeOK /\ WalkShape /\ RepeatedInv
    BY DEF WalkInv, TypeInv
  <1>2. /\ UNCHANGED walk
        /\ came' = IF Walking THEN came + 1 ELSE came
        /\ Listed' = Listed \union {x}
    BY <1>1, InsertRank DEF CommitInsert
  <1>3. SUFFICES ASSUME Distinct', size' <= MaxSize
                 PROVE  /\ Walking' => Cardinality((Repeated \union Moved)') <= came'
                        /\ page' = 0 => Cardinality({v \in Video : seen'[v] > 1}) <= came'
    BY DEF RepeatedInv, RepeatedForInserted
  <1>4. Distinct /\ size <= MaxSize
    BY <1>1, <1>2, <1>3, DistinctBefore DEF walk
  <1>5. ASSUME Walking
        PROVE  Cardinality((Repeated \union Moved)') <= came'
    <2>1. Read \in Int
      BY <1>5, ReadTyped DEF Walking, TypeInv, TypeOK, WalkInv
    <2>2. PICK y : \A v \in Listed : Rank(v) = Read - 1 => v = y
      BY <1>1, <1>4, OnePlace
    <2>3. Moved' \subseteq Moved \union {y}
      <3>1. ASSUME NEW v \in Moved'
            PROVE  v \in Moved \/ v = y
        <4>1. v \in Listed' /\ v \in Video /\ seen[v] > 0 /\ Rank(v)' >= Read
          BY <1>2, <3>1 DEF Moved, walk, Read, Listed
        <4>2. v \in Listed
          <5>1. v \in Present /\ x \notin Present
            BY <1>1, <4>1 DEF WalkShape, Present, CommitInsert
          <5> QED BY <1>2, <4>1, <5>1
        <4>3. Rank(v)' \in Nat /\ Rank(v) \in Nat /\ Rank(v)' <= Rank(v) + 1
          BY <1>1, <4>1, RankTyped, InsertRank
        <4>4. Rank(v) >= Read \/ Rank(v) = Read - 1
          BY <4>1, <4>3, <2>1
        <4> QED BY <2>2, <4>1, <4>2, <4>4 DEF Moved
      <3> QED BY <3>1
    <2>4. Repeated' = Repeated
      BY <1>2 DEF Repeated, walk
    <2>5. (Repeated \union Moved)' \subseteq (Repeated \union Moved) \union {y}
      BY <2>3, <2>4
    <2>6. /\ Cardinality((Repeated \union Moved)') <= Cardinality(Repeated \union Moved) + 1
          /\ Cardinality((Repeated \union Moved)') \in Nat
      BY <2>5, ListedFinite, OneMore, FS_CardinalityType
    <2>7. Cardinality(Repeated \union Moved) <= came /\ came' = came + 1
      BY <1>1, <1>2, <1>4, <1>5 DEF RepeatedInv
    <2> QED BY <1>1, <2>6, <2>7, ListedFinite DEF TypeOK
  <1>6. ASSUME page' = 0
        PROVE  Cardinality({v \in Video : seen'[v] > 1}) <= came'
    BY <1>1, <1>2, <1>4, <1>6 DEF walk, Walking, RepeatedInv, RepeatedForInserted
  <1> QED BY <1>2, <1>5, <1>6 DEF walk, Walking

\* A page repeats only what had moved ahead of the client.
LEMMA RepeatedTurn ==
    ASSUME WalkInv, Turn
    PROVE  RepeatedInv'
  <1>1. TypeOK /\ WalkShape /\ RepeatedInv
    BY DEF WalkInv, TypeInv
  <1>2. /\ page \in Nat /\ page >= 1 /\ size \in Nat
        /\ page' # 0 => page' = page + 1
        /\ UNCHANGED <<now, row, created, size, came, went>>
    <2>1. Cardinality(Video) \in Nat
      BY VideosFinite
    <2> QED BY <1>1, <2>1, TurnTyped DEF rows
  <1>3. SUFFICES ASSUME Distinct', size' <= MaxSize
                 PROVE  /\ Walking' => Cardinality((Repeated \union Moved)') <= came'
                        /\ page' = 0 => Cardinality({v \in Video : seen'[v] > 1}) <= came'
    BY DEF RepeatedInv, RepeatedForInserted
  <1>4. Distinct /\ size <= MaxSize
    BY <1>2, <1>3 DEF Distinct
  <1>5. PICK items \in SUBSET Listed :
            /\ seen' = [v \in Video |-> IF v \in items THEN seen[v] + 1 ELSE seen[v]]
            /\ \A v \in Listed : v \in items <=> Rank(v) >= Read /\ Rank(v) < Read + size
            /\ page' = 0 => Cardinality(Listed) <= Read + size
    BY <1>4, TurnByRank
  <1>6. /\ Read \in Nat /\ page * size = Read + size
    BY <1>2, ReadTyped
  <1>7. Listed' = Listed /\ \A v \in Listed : Rank(v)' = Rank(v)
    BY <1>2 DEF Listed, Rank, NewerThan
  <1> DEFINE S == IF Walking THEN Repeated \union Moved ELSE {}
  <1>8. IsFiniteSet(S) /\ Cardinality(S) \in Nat /\ Cardinality(S) <= came
    <2>1. CASE Walking
      BY <1>1, <1>4, <2>1, ListedFinite DEF RepeatedInv
    <2>2. CASE ~Walking
      BY <1>1, <2>2, FS_EmptySet DEF TypeOK
    <2> QED BY <2>1, <2>2
  <1>9. ASSUME NEW v \in Video
        PROVE  /\ seen[v] \in Nat
               /\ seen'[v] = IF v \in items THEN seen[v] + 1 ELSE seen[v]
               /\ seen[v] > 0 => Walking
    BY <1>1, <1>2, <1>5 DEF TypeOK, WalkShape, Walking
  <1>10. ASSUME NEW v \in Video, seen'[v] > 1
         PROVE  v \in S
    <2>1. CASE v \in items
      <3>1. seen[v] > 0 /\ v \in Listed /\ Rank(v) >= Read
        BY <1>5, <1>9, <1>10, <2>1
      <3> QED BY <1>9, <3>1 DEF Moved
    <2>2. CASE v \notin items
      BY <1>9, <1>10, <2>2 DEF Repeated
    <2> QED BY <2>1, <2>2
  <1>11. ASSUME NEW v \in Listed, seen'[v] > 0, Rank(v) >= Read + size
         PROVE  v \in S
    <2>1. v \in Video /\ Rank(v) \in Nat
      BY <1>1, RankTyped DEF Listed
    <2>2. v \notin items /\ Rank(v) >= Read
      BY <1>2, <1>5, <1>6, <1>11, <2>1
    <2>3. seen[v] > 0 /\ Walking
      BY <1>9, <1>11, <2>1, <2>2
    <2> QED BY <2>2, <2>3 DEF Moved
  <1>12. ASSUME NEW T, T \subseteq S
         PROVE  Cardinality(T) <= came'
    <2> HIDE DEF S
    <2>1. Cardinality(T) <= Cardinality(S) /\ Cardinality(T) \in Nat
      BY <1>8, <1>12, FS_Subset, FS_CardinalityType
    <2> QED BY <1>1, <1>2, <1>8, <2>1 DEF TypeOK
  <1>13. ASSUME Walking'
         PROVE  Cardinality((Repeated \union Moved)') <= came'
    <2>1. page' = page + 1
      BY <1>2, <1>13 DEF Walking
    <2>2. Read' = Read + size
      BY <2>1, <1>2, <1>6 DEF Read
    <2>3. Repeated' \subseteq S
      <3> HIDE DEF S
      <3> QED BY <1>10 DEF Repeated
    <2>4. Moved' \subseteq S
      <3> HIDE DEF S
      <3> QED BY <1>7, <1>11, <2>2 DEF Moved
    <2> HIDE DEF S
    <2>5. (Repeated \union Moved)' \subseteq S
      BY <2>3, <2>4
    <2> QED BY <1>12, <2>5
  <1>14. ASSUME page' = 0
         PROVE  Cardinality({v \in Video : seen'[v] > 1}) <= came'
    <2> DEFINE T == {v \in Video : seen'[v] > 1}
    <2>1. T \subseteq S
      <3> HIDE DEF S
      <3> QED BY <1>10
    <2> HIDE DEF S, T
    <2>2. Cardinality(T) <= came'
      BY <1>12, <2>1
    <2> QED BY <2>2 DEF T
  <1> QED BY <1>13, <1>14

LEMMA WalkInvInit == Init => WalkInv
  <1> SUFFICES ASSUME Init PROVE WalkInv
    OBVIOUS
  <1>1. TypeInv
    BY TypeInvInit
  <1> QED BY <1>1 DEF Init, WalkInv, WalkShape, MissedInv, RepeatedInv, Walking, MissedForDeleted, RepeatedForInserted

LEMMA WalkInvStep == WalkInv /\ [Next]_vars => WalkInv'
  <1> SUFFICES ASSUME WalkInv, [Next]_vars PROVE WalkInv'
    OBVIOUS
  <1>1. TypeInv /\ TypeInv'
    BY TypeInvStep DEF WalkInv
  <1>2. CASE UNCHANGED <<row, created, walk, came, went>>
    <2>1. /\ Listed' = Listed /\ Present' = Present /\ Distinct' = Distinct
          /\ \A v \in Video : Rank(v)' = Rank(v)
      BY <1>2 DEF Listed, Present, Distinct, Rank, NewerThan
    <2>2. Missed' = Missed /\ Repeated' = Repeated /\ Moved' = Moved
      BY <1>2, <2>1 DEF Missed, Repeated, Moved, Read, walk, Listed
    <2> QED BY <1>1, <1>2, <2>1, <2>2
            DEF WalkInv, WalkShape, MissedInv, RepeatedInv,
                MissedForDeleted, RepeatedForInserted, Walking, Read, walk
  <1>3. CASE Turn
    BY <1>1, <1>3, ShapeStep, MissedTurn, RepeatedTurn DEF WalkInv, Next
  <1>4. ASSUME NEW x \in Video, BeginInsert(x) \/ CommitInsert(x) \/ Delete(x)
        PROVE  WalkInv'
    <2>1. Next
      BY <1>4 DEF Next
    <2>2. WalkShape'
      BY <2>1, ShapeStep
    <2>3. MissedInv'
      BY <1>4, MissedDelete, MissedInsert
    <2>4. RepeatedInv'
      BY <1>4, RepeatedDelete, RepeatedInsert
    <2> QED BY <1>1, <2>2, <2>3, <2>4 DEF WalkInv
  <1>5. Tick \/ UNCHANGED vars => UNCHANGED <<row, created, walk, came, went>>
    BY DEF Tick, vars, rows
  <1> QED BY <1>2, <1>3, <1>4, <1>5 DEF Next

(***************************************************************************)
(* A client that has walked through all pages has missed no more of the    *)
(* videos that were there all the time than rows were deleted meanwhile.   *)
(***************************************************************************)
THEOREM MissedCorrect == Spec => []MissedForDeleted
  <1>1. WalkInv => MissedForDeleted
    BY DEF WalkInv, MissedInv
  <1> QED BY <1>1, WalkInvInit, WalkInvStep, PTL DEF Spec

(***************************************************************************)
(* It has got no more videos twice than rows were inserted meanwhile.      *)
(***************************************************************************)
THEOREM RepeatedCorrect == Spec => []RepeatedForInserted
  <1>1. WalkInv => RepeatedForInserted
    BY DEF WalkInv, RepeatedInv
  <1> QED BY <1>1, WalkInvInit, WalkInvStep, PTL DEF Spec
=============================================================================
