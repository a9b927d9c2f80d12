-------------------------- MODULE ProjectsPageProofs --------------------------
(***************************************************************************)
(* Proofs about the list of projects, for any projects, any sizes of pages *)
(* and machine integers, and any faults and changes by other tabs.         *)
(***************************************************************************)
EXTENDS ProjectsPage, FiniteSetTheorems, TLAPS

-----------------------------------------------------------------------------
(* The inductive invariant.                                                 *)

\* Some of S, each once.
ListOf(s, S) ==
    /\ \A i \in DOMAIN s : s[i] \in S
    /\ \A i, j \in DOMAIN s : s[i] = s[j] => i = j

\* A load that nothing disturbed has read what is there.
LoadTrue(l, S) ==
    /\ l.step # "select" => /\ ListOf(l.projects, S)
                            /\ Len(l.projects) = Length(Cardinality(S), l.page)
    /\ l.step = "answered" => l.total = Cardinality(S)

ShownTrue(shown, S) ==
    /\ shown.total = Cardinality(S)
    /\ ListOf(shown.projects, S)
    /\ Len(shown.projects) <= Length(shown.total, shown.page)
    /\ shown.page = 1 => Len(shown.projects) = Length(shown.total, 1)

\* The rows without one that was made but is not shown yet.
Made == Creating /\ create.project # None
Before == IF Made THEN rows \ {create.project} ELSE rows

CalmLoads == Loading /\ load.calm => ~Creating /\ LoadTrue(load, rows)

FreshShown ==
    fresh => /\ result # None
             /\ ShownTrue(result, Before)
             /\ Made => create.project \in rows

\* The flags say what is under way, and an error that it is over.
FlagsRight ==
    /\ (isLoading <=> Loading) /\ (isCreating <=> Creating)
    /\ error => ~Loading

IInv == TypeOK /\ FlagsRight /\ CalmLoads /\ FreshShown

-----------------------------------------------------------------------------
(* Paginate.                                                                *)

\* Nothing is wrapped that is a machine integer and not negative.
LEMMA WrappedFits ==
  ASSUME NEW x \in 0..MaxInt
  PROVE  Wrapped(x) = x
  BY PaginationAssumption DEF Wrapped

LEMMA DivCharacter ==
  ASSUME NEW k \in Nat, NEW q \in Nat, NEW size \in Nat \ {0}
  PROVE  q = k \div size <=> q * size <= k /\ k < q * size + size
  OBVIOUS

\* The pages of any list show each row once (PagesPartition).
THEOREM PagesArePartition ==
  ASSUME NEW n \in Nat
  PROVE  PagesPartition(n)
<1>. SUFFICES ASSUME NEW size \in 1..MaxInt, NEW page \in 1..MaxInt,
                     (page - 1) * size <= MaxInt, NEW i \in 1..n
              PROVE  i \in Listed(n, page, size) <=> page = ((i - 1) \div size) + 1
  BY DEF PagesPartition
<1>. DEFINE o == (page - 1) * size
<1>1. size \in Nat \ {0} /\ page - 1 \in Nat /\ i - 1 \in Nat /\ size > 0 /\ i \in Int
  BY PaginationAssumption
<1>2. o \in 0..MaxInt
  BY <1>1, PaginationAssumption
<1>3. ValueOf(page, 1) = page /\ ValueOf(size, 10) = size
  BY PaginationAssumption DEF ValueOf
<1>4. Offset(page, size) = o
  BY <1>2, WrappedFits DEF Offset
<1>. HIDE DEF o
<1>5. i \in Listed(n, page, size) <=> o < i /\ i <= o + size
  BY <1>1, <1>2, <1>3, <1>4, PaginationAssumption DEF Listed, Selected
<1>6. o < i /\ i <= o + size <=> o <= i - 1 /\ i - 1 < o + size
  BY <1>1, <1>2
<1>7. page - 1 = (i - 1) \div size <=> o <= i - 1 /\ i - 1 < o + size
  BY <1>1, DivCharacter DEF o
<1>8. (i - 1) \div size \in Int
  BY <1>1
<1>. QED
  BY <1>1, <1>5, <1>6, <1>7, <1>8

-----------------------------------------------------------------------------
(* The length of a page.                                                    *)

LEMMA PageBounded == ASSUME NEW n \in Nat, NEW page
                     PROVE  Listed(n, page, PageSize) \subseteq 1..n
  BY DEF Listed, Selected

LEMMA LengthType == ASSUME NEW n \in Nat, NEW page
                    PROVE  Length(n, page) \in Nat
<1>1. IsFiniteSet(1..n)
  BY FS_Interval
<1>2. IsFiniteSet(Listed(n, page, PageSize))
  BY <1>1, PageBounded, FS_Subset
<1>. QED
  BY <1>2, FS_CardinalityType DEF Length

\* A page is not shorter in a longer list.
LEMMA LengthGrows == ASSUME NEW n \in Nat, NEW page
                     PROVE  Length(n, page) <= Length(n + 1, page)
<1>1. IsFiniteSet(1..n + 1)
  BY FS_Interval
<1>2. n + 1 \in Nat
  OBVIOUS
<1>3. IsFiniteSet(Listed(n + 1, page, PageSize))
  BY <1>1, <1>2, PageBounded, FS_Subset
<1>4. Listed(n, page, PageSize) \subseteq Listed(n + 1, page, PageSize)
  BY DEF Listed, Selected
<1>. QED
  BY <1>3, <1>4, FS_Subset DEF Length

LEMMA FirstPageLength ==
  ASSUME NEW n \in Nat
  PROVE  Length(n, 1) = IF n < PageSize THEN n ELSE PageSize
<1>. DEFINE m == IF n < PageSize THEN n ELSE PageSize
<1>1. PageSize \in Nat /\ PageSize > 0
  BY PageAssumption, PaginationAssumption
<1>2. ValueOf(1, 1) = 1 /\ ValueOf(PageSize, 10) = PageSize
  BY <1>1, PaginationAssumption DEF ValueOf
<1>3. Offset(1, PageSize) = 0
  <2>1. (1 - 1) * PageSize = 0
    BY <1>1
  <2>. QED
    BY <2>1, WrappedFits, PaginationAssumption DEF Offset
<1>4. Listed(n, 1, PageSize) = 1..m
  BY <1>1, <1>2, <1>3 DEF Listed, Selected
<1>5. m \in Nat
  BY <1>1
<1>. HIDE DEF m
<1>6. Cardinality(1..m) = m
  BY <1>5, FS_Interval
<1>7. Length(n, 1) = m
  BY <1>4, <1>6 DEF Length
<1>. QED
  BY <1>7 DEF m

-----------------------------------------------------------------------------
(* Lists.                                                                   *)

LEMMA RowsFinite ==
  ASSUME NEW S \in SUBSET Project
  PROVE  IsFiniteSet(S) /\ Cardinality(S) \in Nat
  BY PageAssumption, FS_Subset, FS_CardinalityType

\* What `slice` keeps.
LEMMA FirstOf ==
  ASSUME NEW s \in Seq(Project), NEW n \in Nat
  PROVE  /\ First(s, n) \in Seq(Project)
         /\ Len(First(s, n)) = IF Len(s) < n THEN Len(s) ELSE n
         /\ \A i \in 1..Len(First(s, n)) : First(s, n)[i] = s[i] /\ i \in 1..Len(s)
<1>. DEFINE m == IF Len(s) < n THEN Len(s) ELSE n
<1>1. Len(s) \in Nat /\ m \in Nat /\ m <= Len(s)
  OBVIOUS
<1>2. SubSeq(s, 1, m) \in Seq(Project) /\ Len(SubSeq(s, 1, m)) = m
       /\ \A i \in 1..m : SubSeq(s, 1, m)[i] = s[i]
  <2>. HIDE DEF m
  <2>. QED
    BY <1>1
<1>. QED
  BY <1>1, <1>2 DEF First

\* The created project in front of the others.
LEMMA FrontOf ==
  ASSUME NEW s \in Seq(Project), NEW p \in Project
  PROVE  /\ <<p>> \o s \in Seq(Project)
         /\ Len(<<p>> \o s) = Len(s) + 1
         /\ (<<p>> \o s)[1] = p
         /\ \A i \in 2..Len(s) + 1 : (<<p>> \o s)[i] = s[i - 1]
<1>1. <<p>> \in Seq(Project) /\ Len(<<p>>) = 1 /\ <<p>>[1] = p
  OBVIOUS
<1>. QED
  BY <1>1

LEMMA FrontIsList ==
  ASSUME NEW S \in SUBSET Project, NEW s \in Seq(Project), ListOf(s, S),
         NEW p \in Project \ S, NEW n \in Nat
  PROVE  ListOf(First(<<p>> \o s, n), S \cup {p})
<1>. DEFINE f == <<p>> \o s
            t == First(f, n)
<1>1. f \in Seq(Project) /\ Len(f) = Len(s) + 1 /\ f[1] = p
       /\ \A i \in 2..Len(s) + 1 : f[i] = s[i - 1]
  BY FrontOf
<1>2. t \in Seq(Project) /\ \A i \in 1..Len(t) : t[i] = f[i] /\ i \in 1..Len(f)
  <2>. HIDE DEF f
  <2>. QED
    BY <1>1, FirstOf
<1>3. DOMAIN t = 1..Len(t) /\ DOMAIN s = 1..Len(s) /\ Len(s) \in Nat
  BY <1>2
<1>. HIDE DEF f, t
<1>4. \A i \in DOMAIN t : \/ i = 1 /\ t[i] = p
                          \/ i - 1 \in DOMAIN s /\ t[i] = s[i - 1]
  <2>. SUFFICES ASSUME NEW i \in DOMAIN t, i # 1
                PROVE  i - 1 \in DOMAIN s /\ t[i] = s[i - 1]
    BY <1>1, <1>2, <1>3
  <2>1. t[i] = f[i] /\ i \in 1..Len(s) + 1
    BY <1>1, <1>2, <1>3
  <2>2. i \in 2..Len(s) + 1
    BY <2>1, <1>3
  <2>. QED
    BY <1>1, <1>3, <2>1, <2>2
<1>5. \A i \in DOMAIN t : t[i] \in S \cup {p}
  BY <1>4 DEF ListOf
<1>6. ASSUME NEW i \in DOMAIN t, NEW j \in DOMAIN t, t[i] = t[j]
      PROVE  i = j
  <2>1. i \in Int /\ j \in Int
    BY <1>3
  <2>2. CASE i = 1 /\ t[i] = p
    BY <1>4, <1>6, <2>2 DEF ListOf
  <2>3. CASE i - 1 \in DOMAIN s /\ t[i] = s[i - 1]
    <3>1. s[i - 1] \in S
      BY <2>3 DEF ListOf
    <3>2. j - 1 \in DOMAIN s /\ t[j] = s[j - 1]
      BY <1>4, <1>6, <2>3, <3>1
    <3>3. i - 1 = j - 1
      BY <1>6, <2>3, <3>2 DEF ListOf
    <3>. QED
      BY <2>1, <3>3
  <2>. QED
    BY <1>4, <2>2, <2>3
<1>. QED
  BY <1>5, <1>6 DEF ListOf, t, f

LEMMA WithType ==
  ASSUME NEW shown \in Shown, NEW p \in Project
  PROVE  /\ With(shown, p) \in Shown
         /\ With(shown, p).total = shown.total + 1
         /\ With(shown, p).page = shown.page
         /\ With(shown, p).projects =
               (IF shown.page = 1 THEN First(<<p>> \o shown.projects, PageSize)
                                  ELSE shown.projects)
<1>. DEFINE s == shown.projects
            f == <<p>> \o s
            q == IF shown.page = 1 THEN First(f, PageSize) ELSE s
            w == With(shown, p)
<1>1. s \in Seq(Project) /\ shown.total + 1 \in Nat /\ shown.page \in Nat \ {0}
  BY DEF Shown
<1>2. q \in Seq(Project)
  <2>1. f \in Seq(Project)
    BY <1>1, FrontOf
  <2>2. PageSize \in Nat
    BY PageAssumption, PaginationAssumption
  <2>. HIDE DEF f
  <2>. QED
    BY <1>1, <2>1, <2>2, FirstOf
<1>3. w = [shown EXCEPT !.projects = q, !.total = shown.total + 1]
  BY DEF With
<1>. HIDE DEF q, w
<1>4. w = [projects |-> q, page |-> shown.page, total |-> shown.total + 1]
  BY <1>3 DEF Shown
<1>5. w \in Shown
  BY <1>1, <1>2, <1>4 DEF Shown
<1>. QED
  BY <1>4, <1>5 DEF q, w

\* Adding the created project keeps what is shown true.
LEMMA WithIsTrue ==
  ASSUME NEW shown \in Shown, NEW S \in SUBSET Project, ShownTrue(shown, S),
         NEW p \in Project \ S
  PROVE  ShownTrue(With(shown, p), S \cup {p})
<1>. DEFINE n == shown.total
            s == shown.projects
            w == With(shown, p)
<1>1. s \in Seq(Project) /\ n \in Nat /\ shown.page \in Nat \ {0} /\ Len(s) \in Nat
  BY DEF Shown
<1>2. n = Cardinality(S) /\ ListOf(s, S) /\ Len(s) <= Length(n, shown.page)
       /\ (shown.page = 1 => Len(s) = Length(n, 1))
  BY DEF ShownTrue
<1>3. Cardinality(S \cup {p}) = n + 1
  BY <1>2, RowsFinite, FS_AddElement
<1>4. PageSize \in Nat /\ PageSize > 0
  BY PageAssumption, PaginationAssumption
<1>5. /\ w.total = n + 1
      /\ w.page = shown.page
      /\ w.projects = (IF shown.page = 1 THEN First(<<p>> \o s, PageSize) ELSE s)
  BY WithType
<1>. HIDE DEF n, s, w
<1>6. CASE shown.page = 1
  <2>. DEFINE f == <<p>> \o s
  <2>1. f \in Seq(Project) /\ Len(f) = Len(s) + 1
    BY <1>1, FrontOf
  <2>. HIDE DEF f
  <2>2. First(f, PageSize) \in Seq(Project)
         /\ Len(First(f, PageSize)) = IF Len(f) < PageSize THEN Len(f) ELSE PageSize
    BY <1>4, <2>1, FirstOf
  <2>3. w.projects = First(f, PageSize)
    BY <1>5, <1>6 DEF f
  <2>4. ListOf(w.projects, S \cup {p})
    BY <1>1, <1>2, <1>4, <2>3, FrontIsList DEF f
  <2>5. Len(s) = IF n < PageSize THEN n ELSE PageSize
    BY <1>1, <1>2, <1>6, FirstPageLength
  <2>6. Length(n + 1, 1) = IF n + 1 < PageSize THEN n + 1 ELSE PageSize
    BY <1>1, FirstPageLength
  <2>7. Len(w.projects) = Length(n + 1, 1)
    BY <1>1, <1>4, <2>1, <2>2, <2>3, <2>5, <2>6
  <2>8. Len(w.projects) <= Length(n + 1, 1)
    BY <2>7, <1>1, LengthType
  <2>. QED
    BY <1>3, <1>5, <1>6, <2>4, <2>7, <2>8 DEF ShownTrue, w
<1>7. CASE shown.page # 1
  <2>1. w.projects = s
    BY <1>5, <1>7
  <2>2. ListOf(s, S \cup {p})
    BY <1>2 DEF ListOf
  <2>3. Length(n, shown.page) <= Length(n + 1, shown.page)
         /\ Length(n, shown.page) \in Nat /\ Length(n + 1, shown.page) \in Nat
    BY <1>1, LengthGrows, LengthType
  <2>4. Len(s) <= Length(n + 1, shown.page)
    BY <1>1, <1>2, <2>3
  <2>. QED
    BY <1>3, <1>5, <1>7, <2>1, <2>2, <2>4 DEF ShownTrue, w
<1>. QED
  BY <1>6, <1>7

\* What a SELECT answers.
LEMMA PagesAreLists ==
  ASSUME rows \in SUBSET Project, NEW page, NEW s \in Pages(page)
  PROVE  s \in Seq(Project) /\ ListOf(s, rows)
         /\ Len(s) = Length(Cardinality(rows), page)
<1>. DEFINE n == Length(Cardinality(rows), page)
<1>1. n \in Nat
  BY RowsFinite, LengthType
<1>2. s \in [1..n -> rows] /\ \A i, j \in DOMAIN s : s[i] = s[j] => i = j
  BY DEF Pages
<1>. HIDE DEF n
<1>3. s \in Seq(Project) /\ Len(s) = n
  BY <1>1, <1>2
<1>. QED
  BY <1>2, <1>3 DEF ListOf, n

-----------------------------------------------------------------------------
(* Loads.                                                                   *)

LEMMA RequestType ==
  ASSUME NEW page \in Nat \ {0}
  PROVE  /\ Request(page) \in Load
         /\ Request(page).step = "select"
         /\ Request(page).calm = ~Creating
<1>1. <<>> \in Seq(Project)
  OBVIOUS
<1>. QED
  BY <1>1, Zenon DEF Request, Load, Creating

\* What the statements of List, and a write beside them, make of a load.
LEMMA LoadUpdates ==
  ASSUME NEW l \in Load
  PROVE  /\ \A q \in Seq(Project) : [l EXCEPT !.step = "count", !.projects = q] \in Load
         /\ \A n \in Nat : [l EXCEPT !.step = "answered", !.total = n] \in Load
         /\ LET k == [l EXCEPT !.step = "answered", !.total = 0, !.calm = FALSE] IN
               k \in Load /\ k.calm = FALSE
         /\ LET k == [l EXCEPT !.calm = FALSE] IN k \in Load /\ k.calm = FALSE
  BY DEF Load

LEMMA DisturbedUnderWay ==
  ASSUME load \in Load \cup {None}, load' = Disturbed
  PROVE  load' # None <=> load # None
  BY LoadUpdates, PageAssumption DEF Disturbed, Loading

LEMMA DisturbedType ==
  ASSUME load \in Load \cup {None}, load' = Disturbed
  PROVE  load' \in Load \cup {None} /\ ~(load' # None /\ load'.calm)
  BY LoadUpdates DEF Disturbed, Loading

-----------------------------------------------------------------------------
(* Types.                                                                   *)

LEMMA TypeInit == Init => TypeOK
<1>. SUFFICES ASSUME Init PROVE TypeOK
  OBVIOUS
<1>1. Request(1) \in Load
  BY RequestType
<1>2. rows \subseteq ever /\ ever \subseteq Project
  BY DEF Init
<1>3. faults \in 0..MaxFaults /\ others \in 0..MaxOthers /\ requested \in Nat \ {0}
  BY PageAssumption DEF Init
<1>4. error \in BOOLEAN /\ open \in BOOLEAN /\ fresh \in BOOLEAN
  BY DEF Init
<1>. QED
  BY <1>1, <1>2, <1>3, <1>4, Zenon DEF Init, TypeOK

LEMMA TypeStep == TypeOK /\ [Next]_vars => TypeOK'
<1>. SUFFICES ASSUME TypeOK, [Next]_vars PROVE TypeOK'
  OBVIOUS
<1>0. /\ rows \in SUBSET Project
      /\ Cardinality(rows) \in Nat
      /\ load \in Load \cup {None}
  BY RowsFinite DEF TypeOK
<1>1. ASSUME NEW page \in Nat \ {0}, Sends(page) PROVE TypeOK'
  <2>1. load' \in Load
    BY <1>1, RequestType DEF Sends
  <2>. QED
    BY <1>1, <2>1 DEF Sends, server, busy, TypeOK
<1>2. CASE \E page \in 1..Cardinality(Project) + 1 : TurnPage(page)
  BY <1>1, <1>2, PageAssumption, FS_CardinalityType DEF TurnPage
<1>3. CASE TryAgain
  BY <1>1, <1>3 DEF TryAgain, TypeOK
<1>4. CASE Selects
  <2>1. PICK s \in Pages(load.page) : load' = [load EXCEPT !.step = "count", !.projects = s]
    BY <1>4 DEF Selects
  <2>2. s \in Seq(Project) /\ load \in Load
    BY <1>0, <1>4, PagesAreLists DEF Selects, Loading
  <2>3. load' \in Load
    BY <2>1, <2>2, LoadUpdates
  <2>. QED
    BY <1>4, <2>3 DEF Selects, server, busy, TypeOK
<1>5. CASE Counts
  <2>1. load' \in Load
    BY <1>0, <1>5, LoadUpdates DEF Counts, Loading
  <2>. QED
    BY <1>5, <2>1 DEF Counts, server, busy, TypeOK
<1>6. CASE CountFails
  <2>1. load' \in Load
    BY <1>0, <1>6, LoadUpdates DEF CountFails, Loading
  <2>. QED
    BY <1>6, <2>1, PageAssumption DEF CountFails, Fault, server, busy, TypeOK
<1>7. CASE LoadSucceeds
  <2>1. load \in Load
    BY <1>0, <1>7 DEF LoadSucceeds, Loading
  <2>2. result' \in Shown /\ requested' \in Nat \ {0} /\ fresh' \in BOOLEAN
    BY <1>7, <2>1 DEF LoadSucceeds, Load, Shown
  <2>. QED
    BY <1>7, <2>2 DEF LoadSucceeds, StopLoading, server, busy, TypeOK
<1>8. CASE LoadFails
  <2>1. faults' \in 0..MaxFaults
    BY <1>8, PageAssumption DEF LoadFails, Fault, TypeOK
  <2>2. error' \in BOOLEAN /\ isLoading' \in BOOLEAN /\ load' = None
    BY <1>8, Zenon DEF LoadFails, StopLoading
  <2>3. UNCHANGED <<rows, ever, others, isCreating, result, requested, open, create, fresh>>
    BY <1>8 DEF LoadFails, server
  <2>. QED
    BY <2>1, <2>2, <2>3, Zenon DEF TypeOK
<1>9. CASE Open \/ Cancel
  BY <1>9 DEF Open, Cancel, server, busy, TypeOK
<1>10. CASE Submit
  <2>1. create' \in Create
    BY <1>10 DEF Submit, Create
  <2>2. load' \in Load \cup {None}
    BY <1>0, <1>10, DisturbedType DEF Submit
  <2>. QED
    BY <1>10, <2>1, <2>2 DEF Submit, server, busy, TypeOK
<1>11. ASSUME NEW p \in Project, Inserts(p) PROVE TypeOK'
  <2>1. create' \in Create
    BY <1>11 DEF Inserts, Create
  <2>. QED
    BY <1>11, <2>1 DEF Inserts, busy, TypeOK
<1>12. CASE CreateSucceeds
  <2>1. create.project \in Project
    BY <1>12 DEF CreateSucceeds, Creating, TypeOK, Create
  <2>2. CASE result # None
    <3>1. With(result, create.project) \in Shown
      BY <2>1, <2>2, WithType DEF TypeOK
    <3>. QED
      BY <1>12, <2>2, <3>1 DEF CreateSucceeds, StopCreating, server, busy, TypeOK
  <2>3. CASE result = None
    <3>1. [projects |-> <<create.project>>, page |-> 1, total |-> 1] \in Shown
      BY <2>1 DEF Shown
    <3>2. requested' = 1 /\ open' = FALSE /\ result' \in Shown /\ create' = None
      BY <1>12, <2>3, <3>1, Zenon DEF CreateSucceeds
    <3>3. requested' \in Nat \ {0}
      BY <3>2
    <3>5. open' \in BOOLEAN
      BY <3>2, Zenon
    <3>4. UNCHANGED <<rows, ever, others, isLoading, load, error, fresh, faults>>
      BY <1>12 DEF CreateSucceeds, server
    <3>6. isCreating' \in BOOLEAN
      BY <1>12 DEF CreateSucceeds, StopCreating
    <3>. QED
      BY <3>2, <3>3, <3>4, <3>5, <3>6, Zenon DEF TypeOK
  <2>. QED
    BY <2>2, <2>3
<1>13. CASE CreateFails
  <2>1. fresh' \in {fresh, FALSE} /\ create' = None
    BY <1>13, Zenon DEF CreateFails
  <2>0. faults' = faults \/ (faults < MaxFaults /\ faults' = faults + 1)
    BY <1>13, Zenon DEF CreateFails, Fault
  <2>3. faults' \in 0..MaxFaults
    BY <2>0, PageAssumption DEF TypeOK
  <2>4. fresh' \in BOOLEAN
    BY <2>1, Zenon DEF TypeOK
  <2>2. UNCHANGED <<rows, ever, others, isLoading, result, load, error, requested, open>>
    BY <1>13 DEF CreateFails, server
  <2>5. isCreating' \in BOOLEAN
    BY <1>13 DEF CreateFails, StopCreating
  <2>. QED
    BY <2>1, <2>2, <2>3, <2>4, <2>5, Zenon DEF TypeOK
<1>14. ASSUME NEW p \in Project, OtherCreates(p) \/ OtherDeletes(p) PROVE TypeOK'
  <2>1. load' \in Load \cup {None}
    BY <1>0, <1>14, DisturbedType DEF OtherCreates, OtherDeletes, Other
  <2>2. rows' \subseteq ever' /\ ever' \subseteq Project
    BY <1>14 DEF OtherCreates, OtherDeletes, TypeOK
  <2>3. fresh' = FALSE /\ others < MaxOthers /\ others' = others + 1
    BY <1>14, Zenon DEF OtherCreates, OtherDeletes, Other
  <2>5. others' \in 0..MaxOthers
    BY <2>3, PageAssumption DEF TypeOK
  <2>6. fresh' \in BOOLEAN
    BY <2>3, Zenon
  <2>4. UNCHANGED <<isLoading, isCreating, result, error, requested, open, create, faults>>
    BY <1>14 DEF OtherCreates, OtherDeletes, Other, busy
  <2>. QED
    BY <2>1, <2>2, <2>4, <2>5, <2>6, Zenon DEF TypeOK
<1>15. CASE UNCHANGED vars
  BY <1>15 DEF vars, server, busy, TypeOK
<1>. QED
  BY <1>2, <1>3, <1>4, <1>5, <1>6, <1>7, <1>8, <1>9, <1>10, <1>11, <1>12, <1>13, <1>14, <1>15
  DEF Next, Server, Arrivals

-----------------------------------------------------------------------------
(* The flags.                                                               *)

LEMMA FlagsStep == TypeOK /\ FlagsRight /\ [Next]_vars => FlagsRight'
<1>. SUFFICES ASSUME TypeOK, FlagsRight, [Next]_vars PROVE FlagsRight'
  OBVIOUS
<1>. USE DEF server, busy, Loading, Creating
<1>1. ASSUME NEW page \in Nat \ {0}, Sends(page) PROVE FlagsRight'
  <2>1. load' # None
    BY <1>1, RequestType, PageAssumption DEF Sends
  <2>. QED
    BY <1>1, <2>1 DEF Sends, FlagsRight
<1>2. CASE \E page \in 1..Cardinality(Project) + 1 : TurnPage(page)
  BY <1>1, <1>2, PageAssumption, FS_CardinalityType DEF TurnPage
<1>3. CASE TryAgain
  BY <1>1, <1>3 DEF TryAgain, TypeOK
<1>4. CASE Selects \/ Counts \/ CountFails
  <2>1. load' \in Load
    <3>1. CASE Selects
      <4>1. PICK s \in Pages(load.page) : load' = [load EXCEPT !.step = "count", !.projects = s]
        BY <3>1 DEF Selects
      <4>2. s \in Seq(Project) /\ load \in Load
        BY <3>1, PagesAreLists DEF Selects, TypeOK
      <4>. QED
        BY <4>1, <4>2, LoadUpdates
    <3>2. CASE Counts
      BY <3>2, RowsFinite, LoadUpdates DEF Counts, TypeOK
    <3>3. CASE CountFails
      BY <3>3, LoadUpdates DEF CountFails, TypeOK
    <3>. QED
      BY <1>4, <3>1, <3>2, <3>3
  <2>2. load' # None /\ load # None
    BY <1>4, <2>1, PageAssumption DEF Selects, Counts, CountFails
  <2>3. UNCHANGED <<isLoading, isCreating, error, create>>
    BY <1>4 DEF Selects, Counts, CountFails
  <2>. QED
    BY <2>2, <2>3 DEF FlagsRight
<1>5. CASE LoadSucceeds \/ LoadFails
  BY <1>5 DEF LoadSucceeds, LoadFails, StopLoading, FlagsRight
<1>6. CASE Open \/ Cancel \/ UNCHANGED vars
  BY <1>6 DEF Open, Cancel, vars, FlagsRight
<1>7. CASE Submit
  <2>1. create' # None
    <3>1. [project |-> None] \in Create
      BY DEF Create
    <3>. QED
      BY <1>7, <3>1, PageAssumption DEF Submit
  <2>2. load' # None <=> load # None
    BY <1>7, DisturbedUnderWay DEF Submit, TypeOK
  <2>. QED
    BY <1>7, <2>1, <2>2 DEF Submit, FlagsRight
<1>8. ASSUME NEW p \in Project, Inserts(p) PROVE FlagsRight'
  <2>1. create' # None
    <3>1. [project |-> p] \in Create
      BY DEF Create
    <3>. QED
      BY <1>8, <3>1, PageAssumption DEF Inserts
  <2>. QED
    BY <1>8, <2>1 DEF Inserts, FlagsRight
<1>9. CASE CreateSucceeds \/ CreateFails
  BY <1>9 DEF CreateSucceeds, CreateFails, StopCreating, FlagsRight
<1>10. CASE \E p \in Project : OtherCreates(p) \/ OtherDeletes(p)
  <2>1. load' # None <=> load # None
    BY <1>10, DisturbedUnderWay DEF OtherCreates, OtherDeletes, Other, TypeOK
  <2>. QED
    BY <1>10, <2>1 DEF OtherCreates, OtherDeletes, Other, FlagsRight
<1>. QED
  BY <1>2, <1>3, <1>4, <1>5, <1>6, <1>7, <1>8, <1>9, <1>10 DEF Next, Server, Arrivals

-----------------------------------------------------------------------------
(* What was read, and what is shown.                                        *)

LEMMA InvInit == Init => CalmLoads /\ FreshShown
<1>. SUFFICES ASSUME Init PROVE CalmLoads /\ FreshShown
  OBVIOUS
<1>1. load.step = "select" /\ ~Creating
  BY RequestType DEF Init, Creating
<1>. QED
  BY <1>1 DEF Init, CalmLoads, FreshShown, LoadTrue

LEMMA SameLoads ==
  ASSUME CalmLoads, UNCHANGED <<rows, load, create>>
  PROVE  CalmLoads'
  BY DEF CalmLoads, Loading, Creating

LEMMA NoCalmLoad ==
  ASSUME ~(load' # None /\ load'.calm)
  PROVE  CalmLoads'
  BY DEF CalmLoads, Loading

LEMMA SameShown ==
  ASSUME FreshShown, UNCHANGED <<rows, result, create, fresh>>
  PROVE  FreshShown'
  BY DEF FreshShown, Before, Made, Creating

\* A request that is sent has read nothing yet.
LEMMA SendsStep ==
  ASSUME IInv, NEW page \in Nat \ {0}, Sends(page)
  PROVE  CalmLoads' /\ FreshShown'
<1>1. load' = Request(page) /\ UNCHANGED <<rows, result, create, fresh>>
  BY DEF Sends, server
<1>2. load'.step = "select" /\ load'.calm = ~Creating
  BY <1>1, RequestType
<1>3. CalmLoads'
  BY <1>1, <1>2 DEF CalmLoads, LoadTrue, Creating
<1>. QED
  BY <1>1, <1>3, SameShown DEF IInv

LEMMA ListStep ==
  ASSUME IInv, Selects \/ Counts \/ CountFails
  PROVE  CalmLoads' /\ FreshShown'
<1>0. load \in Load /\ rows \in SUBSET Project /\ Cardinality(rows) \in Nat /\ load # None
  BY RowsFinite DEF IInv, TypeOK, Selects, Counts, CountFails, Loading
<1>1. UNCHANGED <<rows, result, create, fresh>>
  BY DEF Selects, Counts, CountFails, server
<1>2. FreshShown'
  BY <1>1, SameShown DEF IInv
<1>3. load.calm => ~Creating /\ LoadTrue(load, rows)
  BY <1>0 DEF IInv, CalmLoads, Loading
<1>4. CASE Selects
  <2>1. PICK s \in Pages(load.page) : load' = [load EXCEPT !.step = "count", !.projects = s]
    BY <1>4 DEF Selects
  <2>2. s \in Seq(Project) /\ ListOf(s, rows) /\ Len(s) = Length(Cardinality(rows), load.page)
    BY <1>0, PagesAreLists
  <2>3. /\ load'.step = "count" /\ load'.projects = s
        /\ load'.page = load.page /\ load'.calm = load.calm
    BY <1>0, <2>1, <2>2 DEF Load
  <2>4. LoadTrue(load', rows)
    BY <2>2, <2>3 DEF LoadTrue
  <2>. QED
    BY <1>1, <1>3, <1>2, <2>3, <2>4 DEF CalmLoads, Creating, Loading
<1>5. CASE Counts
  <2>1. load.step = "count"
         /\ load' = [load EXCEPT !.step = "answered", !.total = Cardinality(rows)]
    BY <1>5 DEF Counts
  <2>2. /\ load'.step = "answered" /\ load'.total = Cardinality(rows)
        /\ load'.projects = load.projects /\ load'.page = load.page
        /\ load'.calm = load.calm
    BY <1>0, <2>1 DEF Load
  <2>3. LoadTrue(load, rows) => LoadTrue(load', rows)
    BY <2>1, <2>2 DEF LoadTrue
  <2>. QED
    BY <1>1, <1>3, <1>2, <2>2, <2>3 DEF CalmLoads, Creating, Loading
<1>6. CASE CountFails
  <2>1. load' = [load EXCEPT !.step = "answered", !.total = 0, !.calm = FALSE]
    BY <1>6 DEF CountFails
  <2>2. load'.calm = FALSE
    BY <1>0, <2>1 DEF Load
  <2>. QED
    BY <1>2, <2>2, NoCalmLoad
<1>. QED
  BY <1>4, <1>5, <1>6

\* An undisturbed load shows what there is.
LEMMA LoadSucceedsStep ==
  ASSUME IInv, LoadSucceeds
  PROVE  CalmLoads' /\ FreshShown'
<1>1. load \in Load /\ load.step = "answered" /\ rows \in SUBSET Project /\ load # None
  BY DEF IInv, TypeOK, LoadSucceeds, Loading
<1>2. load' = None /\ fresh' = load.calm /\ rows' = rows /\ create' = create
       /\ result' = [projects |-> load.projects, page |-> load.page, total |-> load.total]
  BY DEF LoadSucceeds, server
<1>3. ASSUME load.calm
      PROVE  result' # None /\ ShownTrue(result', Before') /\ ~Made'
  <2>1. ~Creating /\ LoadTrue(load, rows)
    BY <1>1, <1>3 DEF IInv, CalmLoads, Loading
  <2>2. ~Made' /\ Before' = rows
    BY <1>2, <2>1 DEF Made, Before, Creating
  <2>3. result' \in Shown
    BY <1>1, <1>2 DEF Load, Shown
  <2>4. result'.total = load.total /\ result'.page = load.page
         /\ result'.projects = load.projects
    BY <1>2
  <2>5. Cardinality(rows) \in Nat
    BY <1>1, RowsFinite
  <2>6. load.total = Cardinality(rows) /\ ListOf(load.projects, rows)
         /\ Len(load.projects) = Length(load.total, load.page)
    BY <1>1, <2>1 DEF LoadTrue
  <2>7. Length(load.total, load.page) \in Nat
    BY <2>5, <2>6, LengthType
  <2>8. Len(load.projects) <= Length(load.total, load.page)
    BY <2>6, <2>7
  <2>9. ShownTrue(result', rows)
    BY <2>4, <2>6, <2>8 DEF ShownTrue
  <2>. QED
    BY <2>2, <2>3, <2>9, PageAssumption
<1>4. FreshShown'
  BY <1>2, <1>3 DEF FreshShown
<1>. QED
  BY <1>2, <1>4, NoCalmLoad

LEMMA SubmitStep ==
  ASSUME IInv, Submit
  PROVE  CalmLoads' /\ FreshShown'
<1>1. ~Creating /\ create' = [project |-> None] /\ load' = Disturbed
       /\ UNCHANGED <<rows, result, fresh>>
  BY DEF Submit, server, IInv, FlagsRight
<1>2. CalmLoads'
  BY <1>1, DisturbedType, NoCalmLoad DEF IInv, TypeOK
<1>3. ~Made' /\ Before' = rows /\ Before = rows
  BY <1>1 DEF Made, Before
<1>. QED
  BY <1>1, <1>2, <1>3 DEF IInv, FreshShown

\* The row is there, but nobody shows it yet.
LEMMA InsertsStep ==
  ASSUME IInv, NEW p \in Project, Inserts(p)
  PROVE  CalmLoads' /\ FreshShown'
<1>1. Creating /\ create.project = None /\ p \notin rows
       /\ rows' = rows \cup {p} /\ create' = [project |-> p]
       /\ UNCHANGED <<result, load, fresh>>
  BY DEF Inserts, IInv, TypeOK
<1>2. ~(Loading /\ load.calm)
  BY <1>1 DEF IInv, CalmLoads
<1>3. CalmLoads'
  BY <1>1, <1>2, NoCalmLoad DEF Loading
<1>4. create'.project = p /\ create' # None /\ p # None
  <2>1. [project |-> p] \in Create
    BY DEF Create
  <2>. QED
    BY <1>1, <2>1, PageAssumption
<1>5. Made' /\ Before' = rows /\ Before = rows
  <2>1. (rows \cup {p}) \ {p} = rows
    BY <1>1
  <2>. QED
    BY <1>1, <1>4, <2>1 DEF Made, Before, Creating
<1>. QED
  BY <1>1, <1>3, <1>4, <1>5 DEF IInv, FreshShown

\* The page adds what the table has since the INSERT.
LEMMA CreateSucceedsStep ==
  ASSUME IInv, CreateSucceeds
  PROVE  CalmLoads' /\ FreshShown'
<1>. DEFINE p == create.project
<1>1. Creating /\ Made /\ create \in Create /\ p \in Project
  BY DEF CreateSucceeds, Creating, Made, IInv, TypeOK, Create
<1>2. create' = None /\ UNCHANGED <<rows, load, fresh>>
       /\ (result # None => result' = With(result, p))
  BY DEF CreateSucceeds, server
<1>3. ~(Loading /\ load.calm)
  BY <1>1 DEF IInv, CalmLoads
<1>4. CalmLoads'
  BY <1>2, <1>3, NoCalmLoad DEF Loading
<1>5. ~Made' /\ Before' = rows
  BY <1>2 DEF Made, Before, Creating
<1>6. ASSUME fresh
      PROVE  result' # None /\ ShownTrue(result', rows)
  <2>1. result # None /\ ShownTrue(result, rows \ {p}) /\ p \in rows
    BY <1>1, <1>6 DEF IInv, FreshShown, Before
  <2>2. rows \ {p} \in SUBSET Project /\ result \in Shown
    BY <2>1 DEF IInv, TypeOK
  <2>3. (rows \ {p}) \cup {p} = rows /\ p \in Project \ (rows \ {p})
    BY <1>1, <2>1
  <2>. DEFINE S == rows \ {p}
  <2>. HIDE DEF S, p
  <2>4. ShownTrue(With(result, p), S \cup {p})
    BY <2>1, <2>2, <2>3, WithIsTrue DEF S
  <2>5. With(result, p) \in Shown
    BY <1>1, <2>2, WithType
  <2>. QED
    BY <1>2, <2>1, <2>3, <2>4, <2>5, PageAssumption DEF S
<1>. QED
  BY <1>2, <1>4, <1>5, <1>6 DEF FreshShown

LEMMA CreateFailsStep ==
  ASSUME IInv, CreateFails
  PROVE  CalmLoads' /\ FreshShown'
<1>1. Creating /\ create' = None /\ UNCHANGED <<rows, load, result>>
       /\ (fresh' = FALSE \/ (create.project = None /\ fresh' = fresh))
  BY DEF CreateFails, server
<1>2. ~(Loading /\ load.calm)
  BY <1>1 DEF IInv, CalmLoads
<1>3. CalmLoads'
  BY <1>1, <1>2, NoCalmLoad DEF Loading
<1>4. ~Made' /\ Before' = rows
  BY <1>1 DEF Made, Before, Creating
<1>5. CASE fresh' = FALSE
  BY <1>3, <1>5 DEF FreshShown
<1>6. CASE create.project = None /\ fresh' = fresh
  <2>1. Before = rows
    BY <1>6 DEF Made, Before
  <2>. QED
    BY <1>1, <1>3, <1>4, <1>6, <2>1 DEF IInv, FreshShown
<1>. QED
  BY <1>1, <1>3, <1>5, <1>6

LEMMA OtherStep ==
  ASSUME IInv, Other
  PROVE  CalmLoads' /\ FreshShown'
<1>1. load' = Disturbed /\ fresh' = FALSE
  BY DEF Other
<1>. QED
  BY <1>1, DisturbedType, NoCalmLoad DEF IInv, TypeOK, FreshShown

-----------------------------------------------------------------------------
(* Theorems.                                                                *)

THEOREM Invariance == Spec => []IInv
<1>1. Init => IInv
  <2>1. Init => load # None
    BY RequestType, PageAssumption DEF Init
  <2>2. Init => FlagsRight
    BY <2>1 DEF Init, FlagsRight, Loading, Creating
  <2>. QED
    BY <2>2, TypeInit, InvInit DEF IInv
<1>2. IInv /\ [Next]_vars => IInv'
  <2>. SUFFICES ASSUME IInv, [Next]_vars PROVE CalmLoads' /\ FreshShown'
    BY TypeStep, FlagsStep DEF IInv
  <2>1. CASE \E page \in 1..Cardinality(Project) + 1 : TurnPage(page)
    BY <2>1, SendsStep, PageAssumption, FS_CardinalityType DEF TurnPage
  <2>2. CASE TryAgain
    BY <2>2, SendsStep DEF TryAgain, IInv, TypeOK
  <2>3. CASE Selects \/ Counts \/ CountFails
    BY <2>3, ListStep
  <2>4. CASE LoadSucceeds
    BY <2>4, LoadSucceedsStep
  <2>5. CASE LoadFails
    BY <2>5, NoCalmLoad, SameShown DEF LoadFails, server, IInv
  <2>6. CASE Open \/ Cancel \/ UNCHANGED vars
    BY <2>6, SameLoads, SameShown DEF Open, Cancel, vars, server, IInv
  <2>7. CASE Submit
    BY <2>7, SubmitStep
  <2>8. CASE \E p \in Project : Inserts(p)
    BY <2>8, InsertsStep
  <2>9. CASE CreateSucceeds
    BY <2>9, CreateSucceedsStep
  <2>10. CASE CreateFails
    BY <2>10, CreateFailsStep
  <2>11. CASE \E p \in Project : OtherCreates(p) \/ OtherDeletes(p)
    BY <2>11, OtherStep DEF OtherCreates, OtherDeletes
  <2>. QED
    BY <2>1, <2>2, <2>3, <2>4, <2>5, <2>6, <2>7, <2>8, <2>9, <2>10, <2>11
    DEF Next, Server, Arrivals
<1>. QED
  BY <1>1, <1>2, PTL DEF Spec

\* The variables of the page and of its requests keep their types (Projects.vue).
THEOREM TypeCorrect == Spec => []TypeOK
<1>1. IInv => TypeOK
  BY DEF IInv
<1>. QED
  BY <1>1, Invariance, PTL

\* What the page adds itself keeps the list true, as long as nobody else writes and
\* no load overlaps a write (submitProject, List).
THEOREM ListIsTrue == Spec => []ShownIsTrue
<1>1. IInv => ShownIsTrue
  BY DEF IInv, FreshShown, ShownTrue, ListOf, ShownIsTrue, Before, Made
<1>. QED
  BY <1>1, Invariance, PTL
=============================================================================
