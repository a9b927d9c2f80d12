---------------------------- MODULE StartupProofs ----------------------------
(***************************************************************************)
(* Proofs about Startup, for any processes, any releases with any migrations *)
(* in them, and any number of starts.                                      *)
(***************************************************************************)
EXTENDS Startup, FiniteSetTheorems, TLAPS

-----------------------------------------------------------------------------
(* The inductive invariant.                                                 *)

\* Applied, or passed over because it was merged late.
Covered(v) == v \in Schema \/ MergedLate(v)

\* A release applied each migration, and before it those it had that are earlier.
SchemaCovered ==
    \A w \in Schema : \E r \in Release :
        /\ w \in Embedded[r]
        /\ \A v \in Embedded[r] : v < w => Covered(v)

\* What is recorded is the last migration begun, and applied when it is clean.
RecordSound ==
    /\ ~dirty => recorded \in Schema \cup {0}
    /\ \A v \in Schema : v <= recorded

\* What a process relies on between two statements.
ProcessSound(p) ==
    /\ pc[p] \in Migrating => holder = p
    /\ pc[p] \in {"mark", "run", "clear"} =>
          /\ todo[p] \in Embedded[release[p]]
          /\ \A v \in Embedded[release[p]] : v < todo[p] => Covered(v)
    /\ At(p, "mark") => recorded < todo[p]
    /\ At(p, "run") => recorded = todo[p] /\ \A v \in Schema : v < todo[p]
    /\ At(p, "clear") => recorded = todo[p] /\ todo[p] \in Schema
    /\ pc[p] \in {"listen", "serve"} => \A v \in Embedded[release[p]] : Covered(v)

IInv ==
    /\ TypeOK
    /\ AppliedOnceInOrder
    /\ SchemaCovered
    /\ RecordSound
    /\ \A p \in Process : ProcessSound(p)

-----------------------------------------------------------------------------
(* Versions.                                                                *)

\* The order of strict inclusion of intervals gives the least of a set of numbers.
LEMMA FirstIsLeast ==
  ASSUME NEW S, S \subseteq Nat, S # {}
  PROVE  First(S) \in S /\ \A v \in S : First(S) <= v
<1>. DEFINE R == StrictSubsetOrdering(Nat)
            Below(v) == 0 .. v - 1
            T == {Below(v) : v \in S}
<1>1. T \subseteq FiniteSubsetsOf(Nat)
  <2>1. \A v \in S : IsFiniteSet(Below(v)) /\ Below(v) \subseteq Nat
    BY FS_Interval
  <2>. QED
    BY <2>1 DEF FiniteSubsetsOf
<1>2. PICK t \in T : \A u \in T : <<u, t>> \notin R
  <2>1. T # {}
    OBVIOUS
  <2>2. IsWellFoundedOn(R, FiniteSubsetsOf(Nat))
    BY FS_StrictSubsetOrderingWellFounded
  <2>. HIDE DEF R, T
  <2>. QED
    BY <1>1, <2>1, <2>2, WFMin
<1>3. PICK x \in S : t = Below(x)
  OBVIOUS
<1>4. ASSUME NEW y \in S PROVE x <= y
  <2>1. Below(y) \in T /\ <<Below(y), Below(x)>> \notin R
    BY <1>2, <1>3
  <2>2. Below(x) \in SUBSET Nat /\ Below(y) \in SUBSET Nat
    OBVIOUS
  <2>3. ~(Below(y) \subseteq Below(x) /\ Below(y) # Below(x))
    BY <2>1, <2>2 DEF StrictSubsetOrdering
  <2>. QED
    BY <2>3
<1>. QED
  BY <1>4 DEF First

LEMMA Versions ==
  ASSUME TypeOK, NEW p \in Process
  PROVE  /\ Embedded[release[p]] \subseteq Version
         /\ Version \subseteq Nat \ {0}
         /\ recorded \in Nat
         /\ todo[p] \in Nat
<1>1. release[p] \in Release /\ todo[p] \in Version \cup {0}
  BY DEF TypeOK
<1>2. Version \subseteq Nat \ {0} /\ Embedded[release[p]] \in SUBSET Version
  BY <1>1, StartupAssumption
<1>3. recorded \in Version \cup {0}
  BY DEF TypeOK
<1>4. \A v \in Version \cup {0} : v \in Nat
  BY <1>2
<1>. QED
  BY <1>1, <1>2, <1>3, <1>4

LEMMA AppliedGrows ==
  ASSUME TypeOK, NEW v \in Version, applied' = Append(applied, v)
  PROVE  /\ Schema' = Schema \cup {v}
         /\ applied' \in Seq(Version)
         /\ AppliedOnceInOrder /\ (\A w \in Schema : w < v) => AppliedOnceInOrder'
<1>1. /\ applied \in Seq(Version) /\ applied' \in Seq(Version)
      /\ Len(applied') = Len(applied) + 1 /\ Len(applied) \in Nat
      /\ \A i \in 1 .. Len(applied) : applied'[i] = applied[i]
      /\ applied'[Len(applied) + 1] = v
  BY DEF TypeOK
<1>2. DOMAIN applied = 1 .. Len(applied) /\ DOMAIN applied' = 1 .. Len(applied) + 1
  BY <1>1
<1>3. Schema' = Schema \cup {v}
  BY <1>1, <1>2 DEF Schema
<1>4. ASSUME AppliedOnceInOrder, \A w \in Schema : w < v,
             NEW i \in DOMAIN applied', NEW j \in DOMAIN applied', i < j
      PROVE  applied'[i] < applied'[j]
  <2>1. CASE j \in DOMAIN applied
    BY <1>1, <1>2, <1>4, <2>1 DEF AppliedOnceInOrder
  <2>2. CASE j = Len(applied) + 1
    <3>1. i \in DOMAIN applied /\ applied'[i] = applied[i] /\ applied'[j] = v
      BY <1>1, <1>2, <1>4, <2>2
    <3>. QED
      BY <1>4, <3>1 DEF Schema
  <2>. QED
    BY <1>2, <1>1, <2>1, <2>2
<1>. QED
  BY <1>1, <1>3, <1>4 DEF AppliedOnceInOrder

LEMMA CoveredStays ==
  ASSUME Schema \subseteq Schema'
  PROVE  \A v : Covered(v) => Covered(v)'
  BY DEF Covered, MergedLate

\* A clean record leaves nothing behind it but what was merged late.
LEMMA BehindIsCovered ==
  ASSUME IInv, ~dirty, NEW p \in Process,
         NEW v \in Embedded[release[p]], v <= recorded
  PROVE  Covered(v)
<1>1. v \in Nat \ {0} /\ recorded \in Nat
  BY Versions DEF IInv
<1>2. recorded \in Schema
  BY <1>1 DEF IInv, RecordSound
<1>3. PICK r \in Release : /\ recorded \in Embedded[r]
                           /\ \A w \in Embedded[r] : w < recorded => Covered(w)
  BY <1>2 DEF IInv, SchemaCovered
<1>4. CASE v = recorded
  BY <1>2, <1>4 DEF Covered
<1>5. CASE v # recorded /\ v \in Embedded[r]
  BY <1>1, <1>3, <1>5
<1>6. CASE v # recorded /\ v \notin Embedded[r]
  BY <1>1, <1>2, <1>3, <1>6 DEF Covered, MergedLate
<1>. QED
  BY <1>4, <1>5, <1>6

-----------------------------------------------------------------------------
(* The steps.                                                               *)

\* The other processes notice of a step that more may be covered, and of one that
\* writes to the database that they do not hold the lock.
LEMMA OthersSound ==
  ASSUME NEW q \in Process, ProcessSound(q),
         pc'[q] = pc[q], todo'[q] = todo[q], release'[q] = release[q],
         pc[q] \in Migrating => holder' = holder /\ UNCHANGED database,
         Schema \subseteq Schema'
  PROVE  ProcessSound(q)'
<1>1. \A v : Covered(v) => Covered(v)'
  BY CoveredStays
<1>2. CASE pc[q] \in Migrating
  BY <1>1, <1>2 DEF ProcessSound, At, Migrating, database, Schema
<1>3. CASE pc[q] \notin Migrating
  BY <1>1, <1>3 DEF ProcessSound, At, Migrating
<1>. QED
  BY <1>2, <1>3

\* A process that has done with `version` is sound at what it does next.
LEMMA ContinuesSound ==
  ASSUME TypeOK, NEW p \in Process, holder = p, UNCHANGED <<release, applied>>,
         NEW version \in Nat, Continues(p, version), recorded' = version,
         \A v \in Embedded[release[p]] : v <= version => Covered(v)
  PROVE  /\ ProcessSound(p)'
         /\ pc' \in [Process -> Starting \cup {"off", "serve"}]
         /\ todo' \in [Process -> Version \cup {0}]
         /\ holder' \in {p, None}
         /\ \A q \in Process \ {p} : pc'[q] = pc[q] /\ todo'[q] = todo[q]
<1>. DEFINE E == Embedded[release[p]]
            S == Pending(p, version)
<1>1. \A v : Covered(v) => Covered(v)'
  BY CoveredStays DEF Schema
<1>2. E \subseteq Version /\ release'[p] = release[p] /\ \A v \in E : v \in Nat
  BY Versions
<1>3. S \subseteq E /\ \A v \in E : v \in S <=> v > version
  BY DEF Pending
<1>. HIDE DEF S
<1>4. CASE S = {}
  <2>1. \A v \in E : Covered(v)
    <3>. SUFFICES ASSUME NEW v \in E PROVE Covered(v)
      OBVIOUS
    <3>1. v \in Nat /\ ~(v > version)
      BY <1>2, <1>3, <1>4
    <3>. QED
      BY <3>1
  <2>2. /\ pc' = [pc EXCEPT ![p] = "listen"] /\ todo' = [todo EXCEPT ![p] = 0]
        /\ holder' \in {p, None}
    BY <1>4 DEF Continues, Goes, Released, S
  <2>3. pc'[p] = "listen"
    BY <2>2 DEF TypeOK
  <2>4. ProcessSound(p)'
    BY <1>1, <1>2, <2>1, <2>3 DEF ProcessSound, At, Migrating
  <2>. QED
    BY <2>2, <2>4 DEF TypeOK, Starting
<1>5. CASE S # {}
  <2>1. First(S) \in S /\ \A v \in S : First(S) <= v
    BY <1>2, <1>3, <1>5, FirstIsLeast
  <2>2. First(S) \in E /\ First(S) > version /\ \A v \in E : v < First(S) => Covered(v)
    <3>1. First(S) \in E /\ First(S) \in Nat /\ First(S) > version
      BY <1>2, <1>3, <2>1
    <3>2. ASSUME NEW v \in E, v < First(S) PROVE Covered(v)
      <4>1. v \in Nat /\ v \notin S
        BY <1>2, <2>1, <3>1, <3>2
      <4>. QED
        BY <1>3, <4>1
    <3>. QED
      BY <3>1, <3>2
  <2>3. /\ pc' = [pc EXCEPT ![p] = "mark"] /\ todo' = [todo EXCEPT ![p] = First(S)]
        /\ holder' = holder
    BY <1>5 DEF Continues, Goes, S
  <2>4. pc'[p] = "mark" /\ todo'[p] = First(S)
    BY <2>3 DEF TypeOK
  <2>5. ProcessSound(p)'
    BY <1>1, <1>2, <2>2, <2>3, <2>4 DEF ProcessSound, At, Migrating
  <2>6. First(S) \in Version
    BY <1>2, <2>2
  <2>. QED
    BY <2>3, <2>5, <2>6 DEF TypeOK, Starting, Migrating
<1>. QED
  BY <1>4, <1>5

LEMMA InitSound == Init => IInv
<1>. SUFFICES ASSUME Init PROVE IInv
  OBVIOUS
<1>1. applied \in Seq(Version) /\ DOMAIN applied = {} /\ Schema = {}
  BY DEF Init, Schema
<1>2. TypeOK
  <2>1. starts \in 0..MaxStarts /\ recorded \in Version \cup {0}
    BY StartupAssumption DEF Init
  <2>2. dirty \in BOOLEAN
    BY Zenon DEF Init
  <2>3. /\ pc \in [Process -> Starting \cup {"off", "serve"}]
        /\ release \in [Process -> Release] /\ holder \in Process \cup {None}
    BY DEF Init
  <2>4. todo \in [Process -> Version \cup {0}]
    BY DEF Init
  <2>. QED
    BY <1>1, <2>1, <2>2, <2>3, <2>4 DEF TypeOK
<1>3. \A p \in Process : ProcessSound(p)
  BY DEF Init, ProcessSound, At, Migrating
<1>. QED
  BY <1>1, <1>2, <1>3 DEF Init, IInv, AppliedOnceInOrder, SchemaCovered, RecordSound

\* A step of p that leaves the database alone and ends outside the migrations, or at
\* their beginning with the lock.
LEMMA MovesSound ==
  ASSUME IInv, NEW p \in Process, UNCHANGED database,
         \A q \in Process \ {p} :
            pc'[q] = pc[q] /\ todo'[q] = todo[q] /\ release'[q] = release[q],
         holder' = holder \/ holder = None \/ (holder = p /\ holder' = None),
         pc'[p] \in {"off", "connect", "table", "lock"} \/ (pc'[p] = "read" /\ holder' = p)
           \/ (pc[p] = "listen" /\ pc'[p] = "serve" /\ release'[p] = release[p]),
         TypeOK'
  PROVE  IInv'
<1>1. Schema' = Schema /\ \A v : Covered(v) <=> Covered(v)'
  BY DEF database, Schema, Covered, MergedLate
<1>2. AppliedOnceInOrder' /\ SchemaCovered' /\ RecordSound'
  BY <1>1 DEF IInv, database, AppliedOnceInOrder, SchemaCovered, RecordSound
<1>3. ProcessSound(p)'
  BY <1>1 DEF IInv, ProcessSound, At, Migrating
<1>4. ASSUME NEW q \in Process \ {p} PROVE ProcessSound(q)'
  <2>1. ProcessSound(q) /\ (pc[q] \in Migrating => holder = q)
    BY DEF IInv, ProcessSound
  <2>2. pc[q] \in Migrating => holder' = holder
    BY <2>1, StartupAssumption
  <2>. QED
    BY <1>1, <2>1, <2>2, OthersSound
<1>. QED
  BY <1>2, <1>3, <1>4 DEF IInv

\* A step of the holder p that writes to the database: the lock keeps the others out.
LEMMA HolderAlone ==
  ASSUME IInv, NEW p \in Process, pc[p] \in Migrating,
         \A q \in Process \ {p} :
            pc'[q] = pc[q] /\ todo'[q] = todo[q] /\ release'[q] = release[q],
         Schema \subseteq Schema'
  PROVE  \A q \in Process \ {p} : ProcessSound(q)'
<1>. SUFFICES ASSUME NEW q \in Process \ {p} PROVE ProcessSound(q)'
  OBVIOUS
<1>1. ProcessSound(q) /\ holder = p
  BY DEF IInv, ProcessSound
<1>2. pc[q] \notin Migrating
  BY <1>1 DEF ProcessSound
<1>. QED
  BY <1>1, <1>2, OthersSound

\* The record after the dirty mark of a migration that is at hand.
LEMMA MarkSound ==
  ASSUME IInv, NEW p \in Process, At(p, "mark"), recorded' = todo[p], dirty' = TRUE,
         UNCHANGED applied
  PROVE  /\ recorded' \in Version /\ Schema' = Schema
         /\ \A v \in Schema : v < todo[p]
         /\ AppliedOnceInOrder' /\ SchemaCovered' /\ RecordSound'
<1>1. /\ ProcessSound(p) /\ todo[p] \in Embedded[release[p]]
      /\ Schema' = Schema /\ \A v : Covered(v) <=> Covered(v)'
  BY DEF IInv, ProcessSound, At, Schema, Covered, MergedLate
<1>2. /\ todo[p] \in Version /\ todo[p] \in Nat /\ recorded \in Nat /\ recorded < todo[p]
      /\ Version \subseteq Nat
  BY <1>1, Versions DEF IInv, ProcessSound
<1>3. Schema \subseteq Nat
  <2>1. \A i \in DOMAIN applied : applied[i] \in Version
    BY DEF IInv, TypeOK
  <2>. QED
    BY <1>2, <2>1 DEF Schema
<1>4. \A v \in Schema : v < todo[p]
  BY <1>2, <1>3 DEF IInv, RecordSound
<1>. QED
  BY <1>1, <1>2, <1>3, <1>4 DEF IInv, AppliedOnceInOrder, SchemaCovered, RecordSound

\* The schema after the SQL of the migration at hand.
LEMMA RunSound ==
  ASSUME IInv, NEW p \in Process, At(p, "run"), applied' = Append(applied, todo[p]),
         UNCHANGED <<recorded, dirty>>
  PROVE  /\ applied' \in Seq(Version) /\ Schema' = Schema \cup {todo[p]}
         /\ AppliedOnceInOrder' /\ SchemaCovered' /\ RecordSound'
<1>1. /\ todo[p] \in Embedded[release[p]] /\ release[p] \in Release
      /\ recorded = todo[p] /\ \A v \in Schema : v < todo[p]
      /\ \A v \in Embedded[release[p]] : v < todo[p] => Covered(v)
  BY DEF IInv, ProcessSound, At, TypeOK
<1>2. todo[p] \in Version /\ todo[p] \in Nat /\ recorded \in Nat
  BY <1>1, Versions DEF IInv
<1>3. /\ Schema' = Schema \cup {todo[p]} /\ applied' \in Seq(Version)
      /\ AppliedOnceInOrder'
  BY <1>1, <1>2, AppliedGrows DEF IInv
<1>4. \A v : Covered(v) => Covered(v)'
  BY <1>3, CoveredStays
<1>5. SchemaCovered'
  BY <1>1, <1>3, <1>4 DEF IInv, SchemaCovered
<1>6. RecordSound'
  BY <1>1, <1>2, <1>3 DEF IInv, RecordSound
<1>. QED
  BY <1>3, <1>5, <1>6

\* The record after the clean mark.
LEMMA ClearSound ==
  ASSUME IInv, NEW p \in Process, At(p, "clear"), dirty' = FALSE,
         UNCHANGED <<recorded, applied>>
  PROVE  /\ Schema' = Schema
         /\ AppliedOnceInOrder' /\ SchemaCovered' /\ RecordSound'
<1>1. Schema' = Schema /\ recorded \in Schema /\ \A v : Covered(v) <=> Covered(v)'
  BY DEF IInv, ProcessSound, At, Schema, Covered, MergedLate
<1>. QED
  BY <1>1 DEF IInv, AppliedOnceInOrder, SchemaCovered, RecordSound

-----------------------------------------------------------------------------
(* Every step keeps the invariant.                                          *)

\* What Exits does, by itself.
LEMMA ExitSound ==
  ASSUME TypeOK, NEW p \in Process, Exits(p)
  PROVE  /\ ProcessSound(p)'
         /\ pc' \in [Process -> Starting \cup {"off", "serve"}]
         /\ todo' \in [Process -> Version \cup {0}]
         /\ holder' \in Process \cup {None}
         /\ holder' = holder \/ (holder = p /\ holder' = None)
         /\ release' = release /\ starts' = starts /\ pc'[p] = "off"
         /\ \A q \in Process \ {p} :
              pc'[q] = pc[q] /\ todo'[q] = todo[q] /\ release'[q] = release[q]
  BY DEF TypeOK, Exits, Goes, Released, ProcessSound, At, Migrating

LEMMA ExitUnwritten ==
  ASSUME IInv, NEW p \in Process, Exits(p), UNCHANGED database
  PROVE  IInv'
<1>1. TypeOK'
  BY ExitSound DEF IInv, TypeOK, database
<1>. QED
  BY <1>1, ExitSound, MovesSound DEF IInv

LEMMA StopsSound == ASSUME IInv, NEW p \in Process, Stops(p) PROVE IInv'
<1>. USE DEF Stops
<1>1. CASE UNCHANGED database
  BY <1>1, ExitUnwritten
<1>2. CASE At(p, "mark") /\ recorded' = todo[p] /\ dirty' = TRUE /\ UNCHANGED applied
  <2>1. TypeOK'
    BY <1>2, ExitSound, MarkSound DEF IInv, TypeOK
  <2>2. \A q \in Process \ {p} : ProcessSound(q)'
    BY <1>2, ExitSound, MarkSound, HolderAlone DEF IInv, At, Migrating
  <2>. QED
    BY <1>2, <2>1, <2>2, ExitSound, MarkSound DEF IInv
<1>3. CASE /\ At(p, "run") /\ applied' = Append(applied, todo[p])
           /\ UNCHANGED <<recorded, dirty>>
  <2>1. TypeOK'
    BY <1>3, ExitSound, RunSound DEF IInv, TypeOK
  <2>2. \A q \in Process \ {p} : ProcessSound(q)'
    BY <1>3, ExitSound, RunSound, HolderAlone DEF IInv, At, Migrating
  <2>. QED
    BY <1>3, <2>1, <2>2, ExitSound, RunSound DEF IInv
<1>4. CASE At(p, "clear") /\ dirty' = FALSE /\ UNCHANGED <<recorded, applied>>
  <2>1. TypeOK'
    BY <1>4, ExitSound DEF IInv, TypeOK
  <2>2. \A q \in Process \ {p} : ProcessSound(q)'
    BY <1>4, ExitSound, ClearSound, HolderAlone DEF IInv, At, Migrating
  <2>. QED
    BY <1>4, <2>1, <2>2, ExitSound, ClearSound DEF IInv
<1>. QED
  BY <1>1, <1>2, <1>3, <1>4

LEMMA ReadsSound == ASSUME IInv, NEW p \in Process, Reads(p) PROVE IInv'
<1>. USE DEF Reads
<1>1. CASE Recognised(p)
  <2>1. /\ Continues(p, recorded) /\ ~dirty /\ holder = p /\ recorded \in Nat
        /\ UNCHANGED <<release, starts, database>> /\ pc[p] \in Migrating /\ Schema' = Schema
    BY <1>1, Versions DEF IInv, ProcessSound, At, Migrating, Recognised, database, Schema
  <2>2. \A v \in Embedded[release[p]] : v <= recorded => Covered(v)
    BY <2>1, BehindIsCovered
  <2>3. /\ ProcessSound(p)'
        /\ pc' \in [Process -> Starting \cup {"off", "serve"}]
        /\ todo' \in [Process -> Version \cup {0}]
        /\ holder' \in {p, None}
        /\ \A q \in Process \ {p} : pc'[q] = pc[q] /\ todo'[q] = todo[q]
    BY <2>1, <2>2, ContinuesSound DEF IInv, database
  <2>4. TypeOK'
    BY <2>1, <2>3 DEF IInv, TypeOK, database
  <2>5. \A q \in Process \ {p} : ProcessSound(q)'
    BY <2>1, <2>3, HolderAlone
  <2>6. AppliedOnceInOrder' /\ SchemaCovered' /\ RecordSound'
    BY <2>1 DEF IInv, database, AppliedOnceInOrder, SchemaCovered, RecordSound, Covered,
                MergedLate
  <2>. QED
    BY <2>3, <2>4, <2>5, <2>6 DEF IInv
<1>2. CASE ~Recognised(p)
  BY <1>2, ExitUnwritten
<1>. QED
  BY <1>1, <1>2

LEMMA MarksSound == ASSUME IInv, NEW p \in Process, Marks(p) PROVE IInv'
<1>1. /\ At(p, "mark") /\ recorded' = todo[p] /\ dirty' = TRUE /\ UNCHANGED applied
      /\ pc' = [pc EXCEPT ![p] = "run"] /\ UNCHANGED <<release, todo, holder, starts>>
  BY DEF Marks, Goes
<1>2. pc'[p] = "run" /\ \A q \in Process \ {p} : pc'[q] = pc[q]
  BY <1>1 DEF IInv, TypeOK
<1>3. TypeOK'
  BY <1>1, MarkSound DEF IInv, TypeOK, Starting, Migrating
<1>4. ProcessSound(p)'
  <2>1. \A v : Covered(v) => Covered(v)'
    BY <1>1, MarkSound, CoveredStays
  <2>. QED
    BY <1>1, <1>2, <2>1, MarkSound DEF IInv, ProcessSound, At, Migrating
<1>5. \A q \in Process \ {p} : ProcessSound(q)'
  BY <1>1, <1>2, MarkSound, HolderAlone DEF At, Migrating
<1>. QED
  BY <1>1, <1>3, <1>4, <1>5, MarkSound DEF IInv

LEMMA RunsSound == ASSUME IInv, NEW p \in Process, Runs(p) PROVE IInv'
<1>1. /\ At(p, "run") /\ applied' = Append(applied, todo[p]) /\ UNCHANGED <<recorded, dirty>>
      /\ pc' = [pc EXCEPT ![p] = "clear"] /\ UNCHANGED <<release, todo, holder, starts>>
  BY DEF Runs, Goes
<1>2. pc'[p] = "clear" /\ \A q \in Process \ {p} : pc'[q] = pc[q]
  BY <1>1 DEF IInv, TypeOK
<1>3. TypeOK'
  BY <1>1, RunSound DEF IInv, TypeOK, Starting, Migrating
<1>4. ProcessSound(p)'
  <2>1. \A v : Covered(v) => Covered(v)'
    BY <1>1, RunSound, CoveredStays
  <2>. QED
    BY <1>1, <1>2, <2>1, RunSound DEF IInv, ProcessSound, At, Migrating
<1>5. \A q \in Process \ {p} : ProcessSound(q)'
  BY <1>1, <1>2, RunSound, HolderAlone DEF At, Migrating
<1>. QED
  BY <1>1, <1>3, <1>4, <1>5, RunSound DEF IInv

LEMMA ClearsSound == ASSUME IInv, NEW p \in Process, Clears(p) PROVE IInv'
<1>1. /\ At(p, "clear") /\ dirty' = FALSE /\ Continues(p, todo[p])
      /\ UNCHANGED <<release, recorded, applied, starts>> /\ pc[p] \in Migrating
  BY DEF Clears, At, Migrating
<1>2. /\ holder = p /\ recorded = todo[p] /\ todo[p] \in Schema /\ todo[p] \in Nat
      /\ \A v \in Embedded[release[p]] : v < todo[p] => Covered(v)
  BY <1>1, Versions DEF IInv, ProcessSound, At, Migrating
<1>3. ASSUME NEW v \in Embedded[release[p]], v <= todo[p] PROVE Covered(v)
  <2>1. v \in Nat
    BY Versions DEF IInv
  <2>. QED
    BY <1>2, <1>3, <2>1 DEF Covered
<1>4. /\ ProcessSound(p)'
      /\ pc' \in [Process -> Starting \cup {"off", "serve"}]
      /\ todo' \in [Process -> Version \cup {0}]
      /\ holder' \in {p, None}
      /\ \A q \in Process \ {p} : pc'[q] = pc[q] /\ todo'[q] = todo[q]
  BY <1>1, <1>2, <1>3, ContinuesSound DEF IInv
<1>5. TypeOK'
  BY <1>1, <1>4 DEF IInv, TypeOK
<1>6. \A q \in Process \ {p} : ProcessSound(q)'
  BY <1>1, <1>4, ClearSound, HolderAlone
<1>. QED
  BY <1>1, <1>4, <1>5, <1>6, ClearSound DEF IInv

LEMMA StepSound == IInv /\ [Next]_vars => IInv'
<1>. SUFFICES ASSUME IInv, [Next]_vars PROVE IInv'
  OBVIOUS
<1>0. CASE UNCHANGED vars
  BY <1>0 DEF vars, IInv, TypeOK, AppliedOnceInOrder, SchemaCovered, RecordSound, ProcessSound,
              Schema, Covered, MergedLate, At
<1>1. ASSUME NEW p \in Process, NEW r \in Release, Starts(p, r) PROVE IInv'
  <2>1. TypeOK'
    BY <1>1, StartupAssumption DEF IInv, TypeOK, Starts, Goes, Starting, database
  <2>. QED
    BY <1>1, <2>1, MovesSound DEF IInv, TypeOK, Starts, Goes
<1>2. ASSUME NEW p \in Process, Connects(p) \/ EnsuresTable(p) PROVE IInv'
  <2>1. TypeOK'
    BY <1>2 DEF IInv, TypeOK, Connects, EnsuresTable, Goes, Starting, database
  <2>. QED
    BY <1>2, <2>1, MovesSound DEF IInv, TypeOK, Connects, EnsuresTable, Goes
<1>3. ASSUME NEW p \in Process, Locks(p) PROVE IInv'
  <2>1. TypeOK'
    BY <1>3 DEF IInv, TypeOK, Locks, Goes, Starting, Migrating, database
  <2>. QED
    BY <1>3, <2>1, MovesSound DEF IInv, TypeOK, Locks, Goes
<1>4. ASSUME NEW p \in Process, Listens(p) PROVE IInv'
  <2>1. TypeOK'
    BY <1>4 DEF IInv, TypeOK, Listens, Goes, database
  <2>. QED
    BY <1>4, <2>1, MovesSound DEF IInv, TypeOK, Listens, Goes, At
<1>5. ASSUME NEW p \in Process, LockTimesOut(p) PROVE IInv'
  BY <1>5, ExitUnwritten DEF LockTimesOut
<1>. QED
  BY <1>0, <1>1, <1>2, <1>3, <1>4, <1>5, StopsSound, ReadsSound, MarksSound, RunsSound, ClearsSound
  DEF Next, Proceeds

-----------------------------------------------------------------------------
(* The theorems.                                                            *)

\* The variables stay in their types (main.go, runner.go).
THEOREM TypeCorrect == Spec => []TypeOK
<1>1. IInv => TypeOK
  BY DEF IInv
<1>. QED
  BY <1>1, InitSound, StepSound, PTL DEF Spec

\* Whoever serves finds the schema of its release, but for migrations merged late,
\* whatever failed before and whoever else started (Up, main).
THEOREM SchemaServed == Spec => []ServesItsSchema
<1>1. IInv => ServesItsSchema
  BY DEF IInv, ProcessSound, At, Covered, ServesItsSchema
<1>. QED
  BY <1>1, InitSound, StepSound, PTL DEF Spec

\* No migration runs twice or before an earlier one (Up and its lock).
THEOREM MigrationsOrdered == Spec => []AppliedOnceInOrder
<1>1. IInv => AppliedOnceInOrder
  BY DEF IInv
<1>. QED
  BY <1>1, InitSound, StepSound, PTL DEF Spec
=============================================================================
