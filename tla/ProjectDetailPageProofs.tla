----------------------- MODULE ProjectDetailPageProofs -----------------------
(***************************************************************************)
(* Proofs about ProjectDetailPage, for any numbers of visits, projects,    *)
(* emails, edits and faults.                                               *)
(*                                                                         *)
(* The invariant IInv adds to the properties that an instance waits for    *)
(* one thing at a time (Orders), that the updates under way leave room for *)
(* the versions they make (EditsCounted), and that what is shown, the      *)
(* answers under way and the rows are ordered in time (Freshness).         *)
(***************************************************************************)
EXTENDS ProjectDetailPage, FiniteSetTheorems, TLAPS

\* What a request can be, or be answered with.
Outcome == {Idle, Sent, Failed} \cup Number \cup Version

\* Updates the server has not carried out.
Pending == {v \in Visit : call[v].update = Sent}

EditsCounted ==
    /\ IsFiniteSet(Pending)
    /\ \A p \in Project : version[p] + Cardinality(Pending) <= edits + 1

\* What an instance without a project, one that loads, and one that waits for an
\* answer have not done meanwhile.
Orderly(v) ==
    /\ id[v] = None => current # v /\ project[v] = None /\ loading[v] = "no"
                         /\ \A k \in Kind : call[v][k] = Idle
    /\ project[v] = None => editing[v] = "no" /\ deleting[v] = "no" /\ refreshes[v] = <<>>
                         /\ ~isRefreshing[v]
    /\ loading[v] # "no" => project[v] = None
    /\ call[v].update # Idle => editing[v] = "saving"
    /\ call[v].update \in {Idle, Sent, Failed} \cup Version
    /\ call[v].remove # Idle => deleting[v] = "deleting"
    /\ refreshes[v] # <<>> => isRefreshing[v] /\ Len(refreshes[v]) = 1

Orders == \A v \in Visit : Orderly(v)

\* What an instance shows is no newer than the answers under way, and those are no
\* newer than the rows.
Fresh(v) ==
    /\ project[v] # None => project[v] <= version[id[v]]
    /\ emails[v] <= mail[id[v]]
    /\ call[v].get \in Version => call[v].get <= version[id[v]]
    /\ call[v].list \in Number => call[v].list <= mail[id[v]]
    /\ call[v].update \in Version =>
          project[v] <= call[v].update /\ call[v].update <= version[id[v]]
    /\ \A i \in DOMAIN refreshes[v] : refreshes[v][i] \in Number =>
          emails[v] <= refreshes[v][i] /\ refreshes[v][i] <= mail[id[v]]

Freshness == \A v \in Visit : id[v] # None => Fresh(v)

-----------------------------------------------------------------------------
(* The requests of an instance, and the polls among them.                   *)
LEMMA CallUpdate ==
  ASSUME NEW c \in [Visit -> [Kind -> Outcome]], NEW v \in Visit, NEW k \in Kind,
         NEW x \in Outcome, NEW d, d = [c EXCEPT ![v][k] = x]
  PROVE  /\ d \in [Visit -> [Kind -> Outcome]]
         /\ d[v][k] = x
         /\ \A l \in Kind \ {k} : d[v][l] = c[v][l]
         /\ \A w \in Visit \ {v} : d[w] = c[w]
  OBVIOUS

LEMMA LoadUpdate ==
  ASSUME NEW c \in [Visit -> [Kind -> Outcome]], NEW v \in Visit, NEW x \in Outcome,
         NEW d, d = [c EXCEPT ![v].get = x, ![v].list = x]
  PROVE  /\ d \in [Visit -> [Kind -> Outcome]]
         /\ d[v].get = x /\ d[v].list = x
         /\ d[v].update = c[v].update /\ d[v].remove = c[v].remove
         /\ \A w \in Visit \ {v} : d[w] = c[w]
  BY DEF Kind

LEMMA PollStarts ==
  ASSUME NEW S, NEW s \in Seq(S), NEW x \in S
  PROVE  Append(s, x) \in Seq(S) /\ Append(s, x) # <<>>
         /\ (s = <<>> => Len(Append(s, x)) = 1 /\ Append(s, x)[1] = x)
  OBVIOUS

LEMMA PollEnds ==
  ASSUME NEW S, NEW s \in Seq(S), NEW i \in DOMAIN s
  PROVE  RemoveAt(s, i) \in Seq(S) /\ (Len(s) = 1 => RemoveAt(s, i) = <<>>)
<1>1. SubSeq(s, 1, i - 1) \in Seq(S) /\ SubSeq(s, i + 1, Len(s)) \in Seq(S)
  OBVIOUS
<1>2. ASSUME Len(s) = 1 PROVE RemoveAt(s, i) = <<>>
  <2>1. i = 1
    BY <1>2
  <2>2. SubSeq(s, 1, 0) = <<>> /\ SubSeq(s, 2, 1) = <<>>
    OBVIOUS
  <2>. QED
    BY <1>2, <2>1, <2>2 DEF RemoveAt
<1>. QED
  BY <1>1, <1>2 DEF RemoveAt

LEMMA PollUpdate ==
  ASSUME NEW S, NEW s \in Seq(S), NEW i \in DOMAIN s, NEW x \in S,
         NEW t, t = [s EXCEPT ![i] = x]
  PROVE  /\ t \in Seq(S) /\ Len(t) = Len(s) /\ DOMAIN t = DOMAIN s
         /\ t[i] = x /\ \A j \in DOMAIN s \ {i} : t[j] = s[j]
  OBVIOUS

-----------------------------------------------------------------------------
(* Types.                                                                   *)
USE DEF Kind

LEMMA OutcomeType ==
  ASSUME TypeOK
  PROVE  /\ call \in [Visit -> [Kind -> Outcome]]
         /\ {Idle, Sent, Failed} \subseteq Outcome
         /\ Number \subseteq Outcome /\ Version \subseteq Outcome
         /\ 0 \in Number /\ 1 \in Version /\ Number \subseteq Nat /\ Version \subseteq Nat
  BY PageAssumption DEF TypeOK, Outcome, Number, Version

LEMMA InitSafe == Init => TypeOK /\ EditsCounted /\ Orders
<1>. SUFFICES ASSUME Init PROVE TypeOK /\ EditsCounted /\ Orders
  OBVIOUS
<1>1. TypeOK
  <2>1. <<>> \in Seq({Sent, Failed} \cup Number)
    OBVIOUS
  <2>2. 1 \in Version /\ 0 \in Number /\ 0 \in 0..MaxEdits /\ 0 \in 0..MaxFaults
    BY PageAssumption DEF Version, Number
  <2>. QED
    BY <2>1, <2>2 DEF Init, TypeOK
<1>2. EditsCounted
  <2>1. Pending = {}
    BY PageAssumption DEF Init, Pending
  <2>. QED
    BY <2>1, FS_EmptySet DEF Init, EditsCounted
<1>3. Orders
  BY PageAssumption DEF Init, Orders, Orderly
<1>. QED
  BY <1>1, <1>2, <1>3

\* While an update is under way, there is room for one more version.
LEMMA RoomForVersion ==
  ASSUME TypeOK, EditsCounted, NEW p \in Project, Pending # {}
  PROVE  version[p] <= edits
<1>1. Cardinality(Pending) \in Nat /\ Cardinality(Pending) # 0
  BY FS_CardinalityType, FS_EmptySet DEF EditsCounted
<1>. QED
  BY <1>1 DEF EditsCounted, TypeOK, Version

\* What becomes of the rows.
Grows ==
    /\ exists' \in [Project -> BOOLEAN]
    /\ version' \in [Project -> Version]
    /\ mail' \in [Project -> Number]
    /\ access' \in BOOLEAN
    /\ \A p \in Project : version'[p] >= version[p] /\ mail'[p] >= mail[p]

LEMMA SameServer ==
  ASSUME TypeOK, UNCHANGED server
  PROVE  Grows
  BY DEF TypeOK, Grows, server, Version, Number

LEMMA EditGrows ==
  ASSUME TypeOK, NEW p \in Project, EditRow(p), version[p] <= MaxEdits
  PROVE  /\ Grows
         /\ version'[p] = version[p] + 1
         /\ \A q \in Project : version'[q] <= version[q] + 1
  BY PageAssumption DEF TypeOK, Grows, EditRow, Version, Number

LEMMA RemoveGrows ==
  ASSUME TypeOK, NEW p \in Project, RemoveRow(p)
  PROVE  Grows /\ UNCHANGED <<version, mail>>
  BY DEF TypeOK, Grows, RemoveRow, Version, Number

LEMMA ExecuteGrows ==
  ASSUME TypeOK, EditsCounted, NEW v \in Visit, NEW k \in Kind, call[v][k] = Sent,
         id[v] \in Project, Execute(id[v], k) \/ UNCHANGED server
  PROVE  /\ Grows
         /\ k # "update" => UNCHANGED <<version, mail>>
         /\ UNCHANGED mail
         /\ \A q \in Project : version'[q] <= version[q] + 1
<1>1. CASE UNCHANGED server
  BY <1>1, SameServer DEF server, TypeOK, Version
<1>2. CASE k = "update" /\ EditRow(id[v])
  <2>1. v \in Pending
    BY <1>2 DEF Pending
  <2>2. version[id[v]] <= MaxEdits
    <3>1. version[id[v]] <= edits
      BY <2>1, RoomForVersion
    <3>. QED
      BY <3>1, PageAssumption DEF TypeOK, Version
  <2>. QED
    BY <1>2, <2>2, EditGrows DEF EditRow
<1>3. CASE RemoveRow(id[v])
  BY <1>3, RemoveGrows DEF TypeOK, Version
<1>. QED
  BY <1>1, <1>2, <1>3 DEF Execute

LEMMA ResultType ==
  ASSUME TypeOK, EditsCounted, NEW v \in Visit, NEW k \in Kind, call[v][k] = Sent,
         id[v] \in Project
  PROVE  Result(id[v], k) \in Outcome
<1>1. Result(id[v], k) \in {Failed, version[id[v]], mail[id[v]], version[id[v]] + 1, 0}
  BY DEF Result
<1>2. Result(id[v], k) = version[id[v]] + 1 =>
        k = "update" \/ Result(id[v], k) \in {Failed, version[id[v]], mail[id[v]], 0}
  BY DEF Result
<1>3. k = "update" => version[id[v]] + 1 \in Version
  <2>1. k = "update" => v \in Pending
    BY DEF Pending
  <2>2. k = "update" => version[id[v]] <= edits
    BY <2>1, RoomForVersion
  <2>. QED
    BY <2>2, PageAssumption DEF TypeOK, Version
<1>. QED
  BY <1>1, <1>2, <1>3, OutcomeType DEF TypeOK

LEMMA AskedForAProject ==
  ASSUME TypeOK, Orders, NEW v \in Visit,
         project[v] # None \/ loading[v] # "no" \/ refreshes[v] # <<>>
            \/ \E k \in Kind : call[v][k] # Idle
  PROVE  id[v] \in Project
  BY DEF TypeOK, Orders, Orderly

LEMMA StartLoadType ==
  ASSUME TypeOK, NEW v \in Visit, NEW who \in {"first", "again"}, StartLoad(v, who)
  PROVE  /\ project' \in [Visit -> Version \cup {None}]
         /\ emails' \in [Visit -> Number]
         /\ loading' \in [Visit -> {"no", "first", "again"}]
         /\ call' \in [Visit -> [Kind -> Outcome]]
<1>1. call' \in [Visit -> [Kind -> Outcome]]
  BY OutcomeType, LoadUpdate DEF StartLoad
<1>. QED
  BY <1>1, OutcomeType DEF StartLoad, TypeOK

LEMMA EndLoadType ==
  ASSUME TypeOK, NEW v \in Visit, EndLoad(v)
  PROVE  /\ loading' \in [Visit -> {"no", "first", "again"}]
         /\ call' \in [Visit -> [Kind -> Outcome]]
<1>1. call' \in [Visit -> [Kind -> Outcome]]
  BY OutcomeType, LoadUpdate DEF EndLoad
<1>. QED
  BY <1>1 DEF EndLoad, TypeOK

LEMMA TimersType ==
  ASSUME TypeOK, NEW v \in Visit
  PROVE  /\ Timers(v) \in [Visit -> BOOLEAN]
         /\ TimersWithoutCurrent \in [Visit -> BOOLEAN]
  BY DEF TypeOK, Timers, TimersWithoutCurrent

LEMMA TypeStep ==
  ASSUME TypeOK, EditsCounted, Orders, [Next]_vars
  PROVE  TypeOK'
<1>. USE DEF server, tab, shown, dialogs, polls, bounds, page
<1>1. ASSUME NEW v \in Visit, NEW p \in Project, Open(v, p)
      PROVE  TypeOK'
  <2>1. StartLoad(v, "first") /\ refreshTimer' = TimersWithoutCurrent
    BY <1>1 DEF Open
  <2>. QED
    BY <1>1, <2>1, StartLoadType, TimersType DEF Open, TypeOK, Outcome
<1>2. ASSUME NEW v \in Visit, TryAgain(v)
      PROVE  TypeOK'
  <2>1. StartLoad(v, "again")
    BY <1>2 DEF TryAgain
  <2>. QED
    BY <1>2, <2>1, StartLoadType DEF TryAgain, TypeOK, Outcome
<1>3. ASSUME NEW v \in Visit, LoadSucceeds(v) \/ LoadFails(v)
      PROVE  TypeOK'
  <2>1. EndLoad(v) /\ refreshTimer' = Timers(v)
    BY <1>3 DEF LoadSucceeds, LoadFails
  <2>2. project' \in [Visit -> Version \cup {None}] /\ emails' \in [Visit -> Number]
    BY <1>3 DEF LoadSucceeds, LoadFails, BothAnswered, TypeOK
  <2>3. UNCHANGED <<server, tab, id, dialogs, polls, bounds>>
    BY <1>3 DEF LoadSucceeds, LoadFails
  <2>. QED
    BY <2>1, <2>2, <2>3, EndLoadType, TimersType DEF TypeOK, Outcome
<1>4. ASSUME NEW v \in Visit, StartRefresh(v)
      PROVE  TypeOK'
  <2>1. refreshes' \in [Visit -> Seq({Sent, Failed} \cup Number)]
    BY <1>4, PollStarts DEF StartRefresh, TypeOK
  <2>. QED
    BY <1>4, <2>1 DEF StartRefresh, TypeOK
<1>5. ASSUME NEW v \in Visit, NEW i \in DOMAIN refreshes[v], RefreshAnswered(v, i)
      PROVE  TypeOK'
  <2>1. refreshes[v] \in Seq({Sent, Failed} \cup Number)
    BY DEF TypeOK
  <2>2. refreshes' \in [Visit -> Seq({Sent, Failed} \cup Number)]
    BY <1>5, <2>1, PollEnds DEF RefreshAnswered, TypeOK
  <2>3. refreshes[v][i] \in {Sent, Failed} \cup Number
    BY <2>1
  <2>4. emails' \in [Visit -> Number]
    BY <1>5, <2>3 DEF RefreshAnswered, TypeOK
  <2>5. isRefreshing' \in [Visit -> BOOLEAN]
    BY <1>5 DEF RefreshAnswered, StopRefreshing, TypeOK
  <2>6. UNCHANGED <<server, tab, id, project, dialogs, loading, refreshTimer, call, bounds>>
    BY <1>5 DEF RefreshAnswered
  <2>. QED
    BY <2>2, <2>4, <2>5, <2>6 DEF TypeOK
<1>6. ASSUME NEW v \in Visit,
             OpenEdit(v) \/ submitUpdate(v) \/ UpdateAnswered(v) \/ OpenDelete(v)
                \/ Cancel(v) \/ confirmDelete(v) \/ DeleteFailed(v) \/ Deleted(v)
      PROVE  TypeOK'
  <2>. USE DEF OpenEdit, submitUpdate, UpdateAnswered, OpenDelete, Cancel, confirmDelete,
           DeleteFailed, Deleted
  <2>1. editing' \in [Visit -> {"no", "open", "saving"}]
        /\ deleting' \in [Visit -> {"no", "open", "deleting", "deleted"}]
    BY <1>6 DEF TypeOK, SetEditing, SetDeleting
  <2>2. call' \in [Visit -> [Kind -> Outcome]]
    <3>1. \A k \in Kind, x \in {Idle, Sent} :
            [call EXCEPT ![v][k] = x] \in [Visit -> [Kind -> Outcome]]
      BY OutcomeType, CallUpdate
    <3>2. \/ UNCHANGED call
          \/ call' = [call EXCEPT ![v]["update"] = Sent]
          \/ call' = [call EXCEPT ![v]["update"] = Idle]
          \/ call' = [call EXCEPT ![v]["remove"] = Sent]
          \/ call' = [call EXCEPT ![v]["remove"] = Idle]
      BY <1>6
    <3>. QED
      BY <3>1, <3>2, OutcomeType
  <2>3. project' \in [Visit -> Version \cup {None}]
    <3>1. call[v].update \in {Idle, Sent, Failed} \cup Version
      BY DEF Orders, Orderly
    <3>. QED
      BY <1>6, <3>1 DEF TypeOK
  <2>4. refreshTimer' \in [Visit -> BOOLEAN] /\ navigating' \in BOOLEAN
    BY <1>6 DEF TypeOK, clearTimer, replaceRoute
  <2>5. edits' \in 0..MaxEdits
    BY <1>6, PageAssumption DEF TypeOK
  <2>6. UNCHANGED <<server, current, visible, id, emails, loading, polls, faults>>
    BY <1>6
  <2>. QED
    BY <2>1, <2>2, <2>3, <2>4, <2>5, <2>6 DEF TypeOK, Outcome
<1>7. ASSUME NEW v \in Visit, NEW k \in Kind, Answer(v, k) \/ CallFails(v, k)
      PROVE  TypeOK'
  <2>1. call[v][k] = Sent
    BY <1>7 DEF Answer, CallFails
  <2>2. id[v] \in Project
    BY <2>1, AskedForAProject, PageAssumption
  <2>3. Grows
    BY <1>7, <2>1, <2>2, ExecuteGrows DEF Answer, CallFails
  <2>4. Result(id[v], k) \in Outcome
    BY <2>1, <2>2, ResultType
  <2>5. call' \in [Visit -> [Kind -> Outcome]]
    BY <1>7, <2>4, OutcomeType, CallUpdate DEF Answer, CallFails
  <2>6. faults' \in 0..MaxFaults
    BY <1>7, PageAssumption DEF TypeOK, Answer, CallFails
  <2>7. UNCHANGED <<tab, page, refreshes, edits>>
    BY <1>7 DEF Answer, CallFails
  <2>. QED
    BY <2>3, <2>5, <2>6, <2>7 DEF TypeOK, Grows, Outcome
<1>8. ASSUME NEW v \in Visit, NEW i \in DOMAIN refreshes[v],
             NEW x \in {Failed, Result(id[v], "list")},
             refreshes[v][i] = Sent, refreshes' = [refreshes EXCEPT ![v][i] = x]
      PROVE  refreshes' \in [Visit -> Seq({Sent, Failed} \cup Number)]
  <2>1. refreshes[v] \in Seq({Sent, Failed} \cup Number)
    BY DEF TypeOK
  <2>2. id[v] \in Project
    BY <2>1, AskedForAProject
  <2>3. x \in {Sent, Failed} \cup Number
    BY <2>2 DEF Result, TypeOK
  <2>4. [refreshes[v] EXCEPT ![i] = x] \in Seq({Sent, Failed} \cup Number)
    BY <2>1, <2>3, PollUpdate
  <2>. QED
    BY <1>8, <2>4 DEF TypeOK
<1>9. ASSUME NEW v \in Visit, AnswerRefresh(v) \/ RefreshFails(v)
      PROVE  TypeOK'
  <2>1. refreshes' \in [Visit -> Seq({Sent, Failed} \cup Number)]
    BY <1>9, <1>8 DEF AnswerRefresh, RefreshFails
  <2>2. faults' \in 0..MaxFaults
    BY <1>9, PageAssumption DEF TypeOK, AnswerRefresh, RefreshFails
  <2>3. UNCHANGED <<server, tab, page, call, edits>>
    BY <1>9 DEF AnswerRefresh, RefreshFails
  <2>. QED
    BY <2>1, <2>2, <2>3 DEF TypeOK
<1>10. ASSUME NEW p \in Project, MailArrives(p)
       PROVE  TypeOK'
  BY <1>10, PageAssumption DEF MailArrives, TypeOK, Number
<1>11. ASSUME NEW p \in Project, Elsewhere(p)
       PROVE  TypeOK'
  <2>1. CASE edits < MaxEdits /\ edits' = edits + 1 /\ EditRow(p)
    <3>1. version[p] <= MaxEdits
      <4>1. Cardinality(Pending) \in Nat /\ version[p] + Cardinality(Pending) <= edits + 1
        BY FS_CardinalityType DEF EditsCounted
      <4>. QED
        BY <2>1, <4>1, PageAssumption DEF TypeOK, Version
    <3>2. Grows /\ edits' \in 0..MaxEdits
      BY <2>1, <3>1, EditGrows, PageAssumption DEF TypeOK
    <3>. QED
      BY <1>11, <3>2 DEF Elsewhere, TypeOK, Grows
  <2>2. CASE RemoveRow(p) /\ UNCHANGED edits
    <3>1. Grows
      BY <2>2, RemoveGrows
    <3>. QED
      BY <1>11, <2>2, <3>1 DEF Elsewhere, TypeOK, Grows
  <2>. QED
    BY <1>11, <2>1, <2>2 DEF Elsewhere
<1>12. CASE Leave \/ Replaced \/ SwitchTab \/ AccessChanges
  BY <1>12 DEF Leave, Replaced, Gone, SwitchTab, AccessChanges, TypeOK, TimersWithoutCurrent
<1>13. CASE UNCHANGED vars
  BY <1>13 DEF vars, TypeOK
<1>. QED
  BY <1>1, <1>2, <1>3, <1>4, <1>5, <1>6, <1>7, <1>9, <1>10, <1>11, <1>12, <1>13
  DEF Next, User, Continue, Loaded, Refreshed, DeleteAnswered, ClickRefresh, Tick

-----------------------------------------------------------------------------
(* The updates under way are counted.                                       *)
LEMMA PendingShrinks ==
  ASSUME TypeOK, EditsCounted, Pending' \subseteq Pending, UNCHANGED <<version, edits>>
  PROVE  EditsCounted'
<1>. DEFINE P == Pending'
<1>1. IsFiniteSet(P) /\ Cardinality(P) <= Cardinality(Pending)
      /\ Cardinality(P) \in Nat /\ Cardinality(Pending) \in Nat
  BY FS_Subset, FS_CardinalityType DEF EditsCounted
<1>2. IsFiniteSet(Pending)' /\ Cardinality(Pending)' = Cardinality(P)
  BY <1>1
<1>. HIDE DEF P
<1>3. ASSUME NEW p \in Project PROVE (version[p] + Cardinality(Pending) <= edits + 1)'
  <2>1. version[p] + Cardinality(Pending) <= edits + 1
    BY DEF EditsCounted
  <2>2. version[p] \in Nat /\ edits \in Nat
    BY DEF TypeOK, Version
  <2>. QED
    BY <1>1, <1>2, <2>1, <2>2
<1>. QED
  BY <1>2, <1>3 DEF EditsCounted

LEMMA PendingDone ==
  ASSUME TypeOK, EditsCounted, NEW v \in Pending, Pending' = Pending \ {v},
         UNCHANGED edits, version' \in [Project -> Version],
         \A p \in Project : version'[p] <= version[p] + 1
  PROVE  EditsCounted'
<1>. DEFINE P == Pending'
<1>1. IsFiniteSet(P) /\ Cardinality(P) = Cardinality(Pending) - 1
      /\ Cardinality(P) \in Nat /\ Cardinality(Pending) \in Nat
  BY FS_RemoveElement, FS_CardinalityType DEF EditsCounted
<1>2. IsFiniteSet(Pending)' /\ Cardinality(Pending)' = Cardinality(P)
  BY <1>1
<1>. HIDE DEF P
<1>3. ASSUME NEW p \in Project PROVE (version[p] + Cardinality(Pending) <= edits + 1)'
  <2>1. version[p] + Cardinality(Pending) <= edits + 1
    BY DEF EditsCounted
  <2>2. version[p] \in Nat /\ version'[p] \in Nat /\ version'[p] <= version[p] + 1
        /\ edits \in Nat
    BY DEF TypeOK, Version
  <2>. QED
    BY <1>1, <1>2, <2>1, <2>2
<1>. QED
  BY <1>2, <1>3 DEF EditsCounted

LEMMA EditCounted ==
  ASSUME TypeOK, EditsCounted, NEW v, edits' = edits + 1,
         \/ Pending' = Pending \cup {v} /\ UNCHANGED version
         \/ /\ UNCHANGED Pending
            /\ version' \in [Project -> Version]
            /\ \A p \in Project : version'[p] <= version[p] + 1
  PROVE  EditsCounted'
<1>. DEFINE P == Pending'
<1>1. IsFiniteSet(Pending \cup {v}) /\ Cardinality(Pending \cup {v}) <= Cardinality(Pending) + 1
      /\ Cardinality(Pending) \in Nat /\ Cardinality(Pending \cup {v}) \in Nat
      /\ IsFiniteSet(Pending)
  BY FS_AddElement, FS_CardinalityType DEF EditsCounted
<1>2. IsFiniteSet(P) /\ Cardinality(P) \in Nat
      /\ \/ Cardinality(P) <= Cardinality(Pending) + 1 /\ UNCHANGED version
         \/ /\ Cardinality(P) = Cardinality(Pending)
            /\ version' \in [Project -> Version]
            /\ \A p \in Project : version'[p] <= version[p] + 1
  BY <1>1
<1>3. IsFiniteSet(Pending)' /\ Cardinality(Pending)' = Cardinality(P)
  BY <1>2
<1>. HIDE DEF P
<1>4. ASSUME NEW p \in Project PROVE (version[p] + Cardinality(Pending) <= edits + 1)'
  <2>1. version[p] + Cardinality(Pending) <= edits + 1
    BY DEF EditsCounted
  <2>2. version[p] \in Nat /\ edits \in Nat
    BY DEF TypeOK, Version
  <2>3. CASE Cardinality(P) <= Cardinality(Pending) + 1 /\ UNCHANGED version
    BY <1>1, <1>2, <1>3, <2>1, <2>2, <2>3
  <2>4. CASE /\ Cardinality(P) = Cardinality(Pending)
             /\ version'[p] \in Nat /\ version'[p] <= version[p] + 1
    BY <1>1, <1>3, <2>1, <2>2, <2>4
  <2>. QED
    BY <1>2, <2>3, <2>4 DEF Version
<1>. QED
  BY <1>3, <1>4 DEF EditsCounted

LEMMA EditsCountedStep ==
  ASSUME TypeOK, EditsCounted, Orders, [Next]_vars
  PROVE  EditsCounted'
<1>. USE DEF server, tab, shown, dialogs, polls, bounds, page
<1>1. ASSUME NEW v \in Visit, NEW k \in Kind, Answer(v, k) \/ CallFails(v, k)
      PROVE  EditsCounted'
  <2>1. call[v][k] = Sent /\ UNCHANGED edits
    BY <1>1 DEF Answer, CallFails
  <2>2. id[v] \in Project
    BY <2>1, AskedForAProject, PageAssumption
  <2>3. Grows /\ (k # "update" => UNCHANGED <<version, mail>>)
        /\ \A q \in Project : version'[q] <= version[q] + 1
    BY <1>1, <2>1, <2>2, ExecuteGrows DEF Answer, CallFails
  <2>. PICK x \in Outcome : x # Sent /\ call' = [call EXCEPT ![v][k] = x]
    <3>1. Result(id[v], k) \in Outcome
      BY <2>1, <2>2, ResultType
    <3>2. Result(id[v], k) # Sent
      <4>1. Result(id[v], k) = Failed \/ Result(id[v], k) \in Nat
        BY <2>2 DEF Result, TypeOK, Version, Number
      <4>. QED
        BY <4>1, PageAssumption
    <3>. QED
      BY <1>1, <3>1, <3>2, OutcomeType, PageAssumption DEF Answer, CallFails
  <2>4. call'[v][k] = x /\ (\A l \in Kind \ {k} : call'[v][l] = call[v][l])
        /\ \A w \in Visit \ {v} : call'[w] = call[w]
    BY OutcomeType, CallUpdate
  <2>5. CASE k = "update"
    <3>1. v \in Pending /\ Pending' = Pending \ {v}
      BY <2>1, <2>4, <2>5 DEF Pending
    <3>. QED
      BY <2>1, <2>3, <3>1, PendingDone DEF Grows
  <2>6. CASE k # "update"
    <3>1. Pending' = Pending
      BY <2>4, <2>6 DEF Pending
    <3>. QED
      BY <2>1, <2>3, <2>6, <3>1, PendingShrinks
  <2>. QED
    BY <2>5, <2>6
<1>2. ASSUME NEW v \in Visit, submitUpdate(v)
      PROVE  EditsCounted'
  <2>1. call' = [call EXCEPT ![v]["update"] = Sent]
    BY <1>2 DEF submitUpdate
  <2>2. call'[v].update = Sent /\ \A w \in Visit \ {v} : call'[w] = call[w]
    BY <2>1, OutcomeType, CallUpdate
  <2>3. Pending' = Pending \cup {v}
    BY <2>2 DEF Pending
  <2>. QED
    BY <1>2, <2>3, EditCounted DEF submitUpdate
<1>3. ASSUME NEW p \in Project, Elsewhere(p)
      PROVE  EditsCounted'
  <2>1. Pending' = Pending
    BY <1>3 DEF Elsewhere, Pending
  <2>2. CASE edits < MaxEdits /\ edits' = edits + 1 /\ EditRow(p)
    <3>1. TypeOK'
      BY TypeStep
    <3>2. \A q \in Project : version'[q] <= version[q] + 1
      BY <2>2 DEF EditRow, TypeOK, Version
    <3>. QED
      BY <2>1, <2>2, <3>1, <3>2, EditCounted DEF TypeOK
  <2>3. CASE RemoveRow(p) /\ UNCHANGED edits
    BY <2>1, <2>3, PendingShrinks DEF RemoveRow
  <2>. QED
    BY <1>3, <2>2, <2>3 DEF Elsewhere
<1>4. ASSUME NEW v \in Visit, NEW p \in Project, Open(v, p)
      PROVE  EditsCounted'
  <2>1. Pending' = Pending
    BY <1>4, OutcomeType, LoadUpdate DEF Open, StartLoad, Pending
  <2>. QED
    BY <1>4, <2>1, PendingShrinks DEF Open
<1>5. ASSUME NEW v \in Visit, TryAgain(v) \/ LoadSucceeds(v) \/ LoadFails(v)
      PROVE  EditsCounted'
  <2>. PICK x \in {Idle, Sent} : call' = [call EXCEPT ![v].get = x, ![v].list = x]
    BY <1>5 DEF TryAgain, LoadSucceeds, LoadFails, StartLoad, EndLoad
  <2>1. Pending' = Pending
    BY OutcomeType, LoadUpdate DEF Pending
  <2>. QED
    BY <1>5, <2>1, PendingShrinks DEF TryAgain, LoadSucceeds, LoadFails
<1>6. ASSUME NEW v \in Visit,
             UpdateAnswered(v) \/ confirmDelete(v) \/ DeleteFailed(v) \/ Deleted(v)
      PROVE  EditsCounted'
  <2>. USE DEF UpdateAnswered, confirmDelete, DeleteFailed, Deleted
  <2>1. \/ call' = [call EXCEPT ![v]["update"] = Idle]
        \/ call' = [call EXCEPT ![v]["remove"] = Sent]
        \/ call' = [call EXCEPT ![v]["remove"] = Idle]
    BY <1>6
  <2>2. (call'[v].update # Sent \/ call'[v].update = call[v].update)
        /\ \A w \in Visit \ {v} : call'[w] = call[w]
    BY <2>1, OutcomeType, CallUpdate, PageAssumption
  <2>3. Pending' \subseteq Pending
    BY <2>2 DEF Pending
  <2>. QED
    BY <1>6, <2>3, PendingShrinks
<1>7. CASE UNCHANGED <<version, edits, call>>
  BY <1>7, PendingShrinks DEF Pending
<1>8. ASSUME NEW v \in Visit,
             \/ OpenEdit(v) \/ OpenDelete(v) \/ Cancel(v) \/ StartRefresh(v)
             \/ (\E i \in DOMAIN refreshes[v] : RefreshAnswered(v, i))
             \/ AnswerRefresh(v) \/ RefreshFails(v)
      PROVE  UNCHANGED <<version, edits, call>>
  BY <1>8 DEF OpenEdit, OpenDelete, Cancel, StartRefresh, RefreshAnswered, AnswerRefresh,
     RefreshFails
<1>9. ASSUME \/ \E p \in Project : MailArrives(p)
             \/ Leave \/ Replaced \/ SwitchTab \/ AccessChanges \/ UNCHANGED vars
      PROVE  UNCHANGED <<version, edits, call>>
  BY <1>9 DEF MailArrives, Leave, Replaced, Gone, SwitchTab, AccessChanges, vars
<1>. QED
  BY <1>1, <1>2, <1>3, <1>4, <1>5, <1>6, <1>7, <1>8, <1>9
  DEF Next, User, Continue, Loaded, Refreshed, DeleteAnswered, ClickRefresh, Tick

-----------------------------------------------------------------------------
(* A step works on one instance at most.                                    *)
Same(w) ==
    /\ id'[w] = id[w] /\ project'[w] = project[w] /\ emails'[w] = emails[w]
    /\ loading'[w] = loading[w] /\ isRefreshing'[w] = isRefreshing[w]
    /\ editing'[w] = editing[w] /\ deleting'[w] = deleting[w]
    /\ call'[w] = call[w] /\ refreshes'[w] = refreshes[w]
    /\ current' = w => current = w

VisitStep(v) ==
    \/ \E p \in Project : Open(v, p)
    \/ User(v) \/ Tick(v) \/ Continue(v)
    \/ \E k \in Kind : Answer(v, k) \/ CallFails(v, k)
    \/ AnswerRefresh(v) \/ RefreshFails(v)

WorldStep ==
    \/ \E p \in Project : MailArrives(p) \/ Elsewhere(p)
    \/ Leave \/ Replaced \/ SwitchTab \/ AccessChanges \/ UNCHANGED vars

LEMMA StepCases == [Next]_vars => WorldStep \/ \E v \in Visit : VisitStep(v)
  BY DEF Next, WorldStep, VisitStep

LEMMA WorldKeeps ==
  ASSUME WorldStep, NEW w \in Visit
  PROVE  Same(w)
  BY PageAssumption DEF WorldStep, MailArrives, Elsewhere, Leave, Replaced, Gone, SwitchTab,
     AccessChanges, vars, Same, tab, shown, dialogs, polls, page, bounds

LEMMA VisitKeepsOthers ==
  ASSUME TypeOK, NEW v \in Visit, VisitStep(v), NEW w \in Visit \ {v}
  PROVE  Same(w)
<1>. USE DEF server, tab, shown, dialogs, polls, bounds, page, Same, TypeOK
<1>1. CASE \E p \in Project : Open(v, p)
  BY <1>1 DEF Open, StartLoad
<1>2. CASE TryAgain(v)
  BY <1>2 DEF TryAgain, StartLoad
<1>3. CASE LoadSucceeds(v) \/ LoadFails(v)
  BY <1>3 DEF LoadSucceeds, LoadFails, EndLoad
<1>4. CASE StartRefresh(v)
  BY <1>4 DEF StartRefresh
<1>5. CASE \E i \in DOMAIN refreshes[v] : RefreshAnswered(v, i)
  BY <1>5 DEF RefreshAnswered, StopRefreshing
<1>6. CASE OpenEdit(v) \/ submitUpdate(v) \/ UpdateAnswered(v) \/ OpenDelete(v) \/ Cancel(v)
  BY <1>6 DEF OpenEdit, submitUpdate, UpdateAnswered, OpenDelete, Cancel, SetEditing, SetDeleting
<1>7. CASE confirmDelete(v) \/ DeleteFailed(v) \/ Deleted(v)
  BY <1>7 DEF confirmDelete, DeleteFailed, Deleted, SetDeleting
<1>8. CASE \E k \in Kind : Answer(v, k) \/ CallFails(v, k)
  BY <1>8 DEF Answer, CallFails
<1>9. CASE AnswerRefresh(v) \/ RefreshFails(v)
  BY <1>9 DEF AnswerRefresh, RefreshFails
<1>. QED
  BY <1>1, <1>2, <1>3, <1>4, <1>5, <1>6, <1>7, <1>8, <1>9
  DEF VisitStep, User, Continue, Loaded, Refreshed, DeleteAnswered, ClickRefresh, Tick

\* How the instance a step works on changes.
LEMMA CallStep ==
  ASSUME TypeOK, EditsCounted, Orders, NEW v \in Visit, NEW k \in Kind,
         Answer(v, k) \/ CallFails(v, k)
  PROVE  /\ call[v][k] = Sent /\ id[v] \in Project /\ Grows
         /\ call'[v][k] \in {Failed, Result(id[v], k)}
         /\ call'[v][k] \in Outcome \ {Idle, Sent}
         /\ \A l \in Kind \ {k} : call'[v][l] = call[v][l]
         /\ UNCHANGED <<tab, page, refreshes>>
<1>1. call[v][k] = Sent /\ UNCHANGED <<tab, page, refreshes>>
  BY DEF Answer, CallFails
<1>2. id[v] \in Project
  BY <1>1, AskedForAProject, PageAssumption
<1>3. Grows
  BY <1>1, <1>2, ExecuteGrows DEF Answer, CallFails
<1>. PICK x \in {Failed, Result(id[v], k)} : call' = [call EXCEPT ![v][k] = x]
  BY DEF Answer, CallFails
<1>4. x \in Outcome
  BY <1>1, <1>2, ResultType, OutcomeType
<1>5. x \notin {Idle, Sent}
  <2>1. Result(id[v], k) = Failed \/ Result(id[v], k) \in Nat
    BY <1>2 DEF Result, TypeOK, Version, Number
  <2>. QED
    BY <2>1, PageAssumption
<1>6. /\ call'[v][k] = x
      /\ \A l \in Kind \ {k} : call'[v][l] = call[v][l]
  BY <1>4, OutcomeType, CallUpdate
<1>. QED
  BY <1>1, <1>2, <1>3, <1>4, <1>5, <1>6

LEMMA PollStep ==
  ASSUME TypeOK, Orders, NEW v \in Visit, AnswerRefresh(v) \/ RefreshFails(v)
  PROVE  /\ id[v] \in Project
         /\ refreshes[v] # <<>>
         /\ UNCHANGED <<server, tab, page, call>>
         /\ \E i \in DOMAIN refreshes[v], x \in {Failed, Result(id[v], "list")} :
              /\ refreshes'[v] = [refreshes[v] EXCEPT ![i] = x]
              /\ x \in {Failed} \cup Number /\ (x # Failed => x = mail[id[v]])
              /\ refreshes'[v] # <<>> /\ Len(refreshes'[v]) = Len(refreshes[v])
              /\ DOMAIN refreshes'[v] = DOMAIN refreshes[v]
<1>. PICK i \in DOMAIN refreshes[v], x \in {Failed, Result(id[v], "list")} :
       refreshes' = [refreshes EXCEPT ![v][i] = x]
  BY DEF AnswerRefresh, RefreshFails
<1>1. refreshes[v] \in Seq({Sent, Failed} \cup Number)
  BY DEF TypeOK
<1>2. id[v] \in Project /\ refreshes[v] # <<>>
  BY <1>1, AskedForAProject
<1>3. x \in {Failed} \cup Number /\ (x # Failed => x = mail[id[v]])
  BY <1>2 DEF Result, TypeOK
<1>4. refreshes'[v] = [refreshes[v] EXCEPT ![i] = x]
  BY DEF TypeOK
<1>5. /\ refreshes'[v] # <<>> /\ Len(refreshes'[v]) = Len(refreshes[v])
      /\ DOMAIN refreshes'[v] = DOMAIN refreshes[v]
  BY <1>1, <1>3, <1>4, PollUpdate
<1>. QED
  BY <1>2, <1>3, <1>4, <1>5 DEF AnswerRefresh, RefreshFails

-----------------------------------------------------------------------------
(* An instance waits for one thing at a time.                               *)
LEMMA OrdersStep ==
  ASSUME TypeOK, EditsCounted, Orders, [Next]_vars
  PROVE  Orders'
<1>1. ASSUME NEW w \in Visit, Same(w)
      PROVE  Orderly(w)'
  <2>1. Orderly(w)
    BY DEF Orders
  <2>. QED
    BY <1>1, <2>1 DEF Orderly, Same
<1>2. ASSUME NEW v \in Visit, VisitStep(v)
      PROVE  Orderly(v)'
  <2>. USE DEF server, tab, shown, dialogs, polls, bounds, page
  <2>0. Orderly(v) /\ Idle # Sent
    BY PageAssumption DEF Orders
  <2>1. ASSUME NEW p \in Project, Open(v, p)
        PROVE  Orderly(v)'
    <3>. PICK x \in {Sent} : call' = [call EXCEPT ![v].get = x, ![v].list = x]
      BY <2>1 DEF Open, StartLoad
    <3>1. call'[v].update = call[v].update /\ call'[v].remove = call[v].remove
      BY OutcomeType, LoadUpdate
    <3>2. id'[v] # None /\ project'[v] = None /\ loading'[v] = "first"
      BY <2>1, PageAssumption DEF Open, StartLoad, TypeOK
    <3>3. UNCHANGED <<dialogs, polls>>
      BY <2>1 DEF Open
    <3>. QED
      BY <2>0, <2>1, <3>1, <3>2, <3>3 DEF Orderly, Open
  <2>2. CASE TryAgain(v)
    <3>. PICK x \in {Sent} : call' = [call EXCEPT ![v].get = x, ![v].list = x]
      BY <2>2 DEF TryAgain, StartLoad
    <3>1. call'[v].update = call[v].update /\ call'[v].remove = call[v].remove
      BY OutcomeType, LoadUpdate
    <3>2. id[v] # None
      BY <2>0, <2>2 DEF Orderly, TryAgain
    <3>3. project'[v] = None /\ UNCHANGED <<id, dialogs, polls>>
      BY <2>2 DEF TryAgain, StartLoad, TypeOK
    <3>. QED
      BY <2>0, <2>2, <3>1, <3>2, <3>3 DEF Orderly, TryAgain
  <2>3. CASE LoadSucceeds(v) \/ LoadFails(v)
    <3>. PICK x \in {Idle} : call' = [call EXCEPT ![v].get = x, ![v].list = x]
      BY <2>3 DEF LoadSucceeds, LoadFails, EndLoad
    <3>1. call'[v].update = call[v].update /\ call'[v].remove = call[v].remove
      BY OutcomeType, LoadUpdate
    <3>2. loading'[v] = "no" /\ loading[v] # "no"
      BY <2>3 DEF LoadSucceeds, LoadFails, EndLoad, TypeOK
    <3>3. UNCHANGED <<id, dialogs, polls>>
      BY <2>3 DEF LoadSucceeds, LoadFails
    <3>. QED
      BY <2>0, <3>1, <3>2, <3>3 DEF Orderly
  <2>4. CASE StartRefresh(v)
    <3>1. refreshes[v] \in Seq({Sent, Failed} \cup Number)
      BY DEF TypeOK
    <3>2. refreshes[v] = <<>> /\ project[v] # None
      BY <2>0, <2>4 DEF Orderly, StartRefresh, MayRefresh
    <3>3. refreshes'[v] = Append(refreshes[v], Sent) /\ isRefreshing'[v] = TRUE
      BY <2>4 DEF StartRefresh, TypeOK
    <3>4. Len(refreshes'[v]) = 1
      BY <3>1, <3>2, <3>3
    <3>. QED
      BY <2>0, <2>4, <3>2, <3>3, <3>4 DEF Orderly, StartRefresh
  <2>5. ASSUME NEW i \in DOMAIN refreshes[v], RefreshAnswered(v, i)
        PROVE  Orderly(v)'
    <3>1. refreshes[v] \in Seq({Sent, Failed} \cup Number)
      BY DEF TypeOK
    <3>2. Len(refreshes[v]) = 1 /\ project[v] # None
      BY <2>0, <3>1 DEF Orderly
    <3>3. refreshes'[v] = <<>>
      BY <2>5, <3>1, <3>2, PollEnds DEF RefreshAnswered, TypeOK
    <3>. QED
      BY <2>0, <2>5, <3>2, <3>3 DEF Orderly, RefreshAnswered
  <2>6. CASE OpenEdit(v) \/ submitUpdate(v) \/ UpdateAnswered(v)
    <3>. USE DEF OpenEdit, submitUpdate, UpdateAnswered, SetEditing
    <3>1. project[v] # None
      BY <2>0, <2>6 DEF Orderly
    <3>2. project'[v] # None
      BY <2>0, <2>6, <3>1, PageAssumption DEF Orderly, TypeOK, Version
    <3>3. call'[v].remove = call[v].remove
          /\ \/ editing'[v] = "saving" /\ call'[v].update = Sent
             \/ call'[v].update = Idle
      <4>1. CASE OpenEdit(v)
        BY <2>0, <4>1 DEF Orderly
      <4>2. CASE submitUpdate(v)
        BY <4>2, OutcomeType, CallUpdate DEF TypeOK
      <4>3. CASE UpdateAnswered(v)
        BY <4>3, OutcomeType, CallUpdate DEF TypeOK
      <4>. QED
        BY <2>6, <4>1, <4>2, <4>3
    <3>4. UNCHANGED <<id, deleting, loading, polls>>
      BY <2>6
    <3>5. loading[v] = "no" /\ id[v] # None
      BY <2>0, <3>1 DEF Orderly
    <3>. QED
      BY <2>0, <3>1, <3>2, <3>3, <3>4, <3>5 DEF Orderly
  <2>7. CASE OpenDelete(v) \/ Cancel(v)
    <3>1. project[v] # None
      BY <2>0, <2>7 DEF Orderly, OpenDelete, Cancel
    <3>2. /\ UNCHANGED <<id, shown, loading, polls, call>>
          /\ editing'[v] = editing[v] \/ editing[v] = "open"
          /\ deleting'[v] = deleting[v] \/ deleting[v] \in {"no", "open"}
      BY <2>7 DEF OpenDelete, Cancel, SetEditing, SetDeleting, TypeOK
    <3>. QED
      BY <2>0, <3>1, <3>2 DEF Orderly
  <2>8. CASE confirmDelete(v) \/ DeleteFailed(v) \/ Deleted(v)
    <3>. USE DEF confirmDelete, DeleteFailed, Deleted, SetDeleting
    <3>1. project[v] # None
      BY <2>0, <2>8, PageAssumption DEF Orderly
    <3>2. call'[v].update = call[v].update
          /\ \/ deleting'[v] = "deleting" /\ call'[v].remove = Sent
             \/ call'[v].remove = Idle
      BY <2>8, OutcomeType, CallUpdate DEF TypeOK
    <3>3. UNCHANGED <<id, shown, loading, polls, editing>>
      BY <2>8
    <3>4. loading[v] = "no" /\ id[v] # None
      BY <2>0, <3>1 DEF Orderly
    <3>. QED
      BY <2>0, <3>1, <3>2, <3>3, <3>4 DEF Orderly
  <2>9. ASSUME NEW k \in Kind, Answer(v, k) \/ CallFails(v, k)
        PROVE  Orderly(v)'
    <3>1. call[v][k] # Idle /\ id[v] # None
      BY <2>0, <2>9, CallStep DEF Orderly
    <3>2. /\ \A l \in Kind : call'[v][l] # Idle => call[v][l] # Idle
          /\ UNCHANGED <<page, refreshes>>
      BY <2>9, <3>1, CallStep
    <3>3. call'[v].update \in {Idle, Sent, Failed} \cup Version
      <4>1. CASE k # "update"
        BY <2>0, <2>9, <4>1, CallStep DEF Orderly
      <4>2. CASE k = "update"
        <5>1. call'[v].update = Failed \/ call'[v].update = version[id[v]] + 1
          BY <2>9, <4>2, CallStep DEF Result
        <5>2. v \in Pending /\ id[v] \in Project
          BY <2>9, <4>2, CallStep DEF Pending
        <5>3. version[id[v]] + 1 \in Version
          <6>1. version[id[v]] <= edits
            BY <5>2, RoomForVersion
          <6>. QED
            BY <5>2, <6>1, PageAssumption DEF TypeOK, Version
        <5>. QED
          BY <5>1, <5>3
      <4>. QED
        BY <4>1, <4>2
    <3>. QED
      BY <2>0, <3>1, <3>2, <3>3 DEF Orderly
  <2>10. CASE AnswerRefresh(v) \/ RefreshFails(v)
    <3>1. refreshes'[v] # <<>> /\ Len(refreshes'[v]) = Len(refreshes[v])
          /\ refreshes[v] # <<>>
      BY <2>10, PollStep
    <3>2. UNCHANGED <<page, call>>
      BY <2>10, PollStep
    <3>. QED
      BY <2>0, <3>1, <3>2 DEF Orderly
  <2>. QED
    BY <1>2, <2>1, <2>2, <2>3, <2>4, <2>5, <2>6, <2>7, <2>8, <2>9, <2>10
    DEF VisitStep, User, Continue, Loaded, Refreshed, DeleteAnswered, ClickRefresh, Tick
<1>. QED
  BY <1>1, <1>2, StepCases, WorldKeeps, VisitKeepsOthers DEF Orders

-----------------------------------------------------------------------------
(* The timer.                                                               *)
TimersRight == OpenPagePolls /\ DeletedPageStops

LEMMA InitTimers == Init => TimersRight
  BY DEF Init, TimersRight, OpenPagePolls, DeletedPageStops

LEMMA TimersStep ==
  ASSUME TypeOK, Orders, TimersRight, [Next]_vars
  PROVE  TimersRight'
<1>. USE DEF server, tab, shown, dialogs, polls, bounds, page
<1>1. ASSUME NEW v \in Visit, NEW p \in Project, Open(v, p)
      PROVE  TimersRight'
  <2>1. current' = v /\ loading'[v] = "first"
        /\ refreshTimer' = TimersWithoutCurrent /\ UNCHANGED deleting
    BY <1>1 DEF Open, StartLoad, TypeOK
  <2>. QED
    BY <2>1 DEF TimersRight, OpenPagePolls, DeletedPageStops, TimersWithoutCurrent
<1>2. CASE Leave \/ Replaced
  BY <1>2 DEF Leave, Replaced, Gone, TimersRight, OpenPagePolls, DeletedPageStops,
     TimersWithoutCurrent
<1>3. ASSUME NEW v \in Visit, TryAgain(v)
      PROVE  TimersRight'
  <2>1. loading'[v] = "again" /\ current = v /\ loading[v] = "no"
        /\ UNCHANGED <<current, refreshTimer, deleting>>
    BY <1>3 DEF TryAgain, StartLoad, TypeOK
  <2>. QED
    BY <2>1 DEF TimersRight, OpenPagePolls, DeletedPageStops
<1>4. ASSUME NEW v \in Visit, LoadSucceeds(v) \/ LoadFails(v)
      PROVE  TimersRight'
  <2>1. /\ loading' = [loading EXCEPT ![v] = "no"] /\ loading[v] # "no"
        /\ refreshTimer' = Timers(v) /\ UNCHANGED <<current, deleting>>
    BY <1>4 DEF LoadSucceeds, LoadFails, EndLoad
  <2>2. deleting[v] = "no"
    BY <2>1 DEF Orders, Orderly
  <2>3. \A w \in Visit \ {v} : loading'[w] = loading[w] /\ refreshTimer'[w] = refreshTimer[w]
    BY <2>1 DEF Timers, TypeOK
  <2>4. refreshTimer'[v] = (refreshTimer[v] \/ loading[v] = "first")
    BY <2>1 DEF Timers, TypeOK
  <2>5. OpenPagePolls'
    <3>. SUFFICES ASSUME current # None, current = v \/ loading'[current] # "first",
                         deleting[current] # "deleted"
                  PROVE  refreshTimer'[current]
      BY <2>1 DEF OpenPagePolls
    <3>. QED
      BY <2>1, <2>3, <2>4 DEF TimersRight, OpenPagePolls, TypeOK
  <2>6. DeletedPageStops'
    BY <2>1, <2>2, <2>3 DEF TimersRight, DeletedPageStops
  <2>. QED
    BY <2>5, <2>6 DEF TimersRight
<1>5. ASSUME NEW v \in Visit, Deleted(v)
      PROVE  TimersRight'
  <2>1. /\ deleting' = [deleting EXCEPT ![v] = "deleted"]
        /\ refreshTimer' = [refreshTimer EXCEPT ![v] = FALSE]
        /\ UNCHANGED <<current, loading>>
    BY <1>5 DEF Deleted, SetDeleting, clearTimer
  <2>2. /\ deleting'[v] = "deleted" /\ refreshTimer'[v] = FALSE
        /\ \A w \in Visit \ {v} :
              deleting'[w] = deleting[w] /\ refreshTimer'[w] = refreshTimer[w]
    BY <2>1 DEF TypeOK
  <2>3. OpenPagePolls'
    <3>1. CASE current = v
      BY <2>1, <2>2, <3>1 DEF OpenPagePolls
    <3>2. CASE current # v
      BY <2>1, <2>2, <3>2 DEF TimersRight, OpenPagePolls, TypeOK
    <3>. QED
      BY <3>1, <3>2
  <2>4. DeletedPageStops'
    BY <2>2 DEF TimersRight, DeletedPageStops
  <2>. QED
    BY <2>3, <2>4 DEF TimersRight
<1>6. ASSUME NEW v \in Visit, OpenDelete(v) \/ Cancel(v) \/ confirmDelete(v) \/ DeleteFailed(v)
      PROVE  TimersRight'
  <2>. USE DEF OpenDelete, Cancel, confirmDelete, DeleteFailed, SetDeleting
  <2>1. /\ UNCHANGED <<current, loading, refreshTimer>>
        /\ \A w \in Visit \ {v} : deleting'[w] = deleting[w]
    BY <1>6 DEF TypeOK
  <2>2. deleting'[v] = deleting[v] \/ (deleting[v] # "deleted" /\ deleting'[v] # "deleted")
    <3>1. CASE DeleteFailed(v)
      <4>1. deleting[v] = "deleting"
        BY <3>1, PageAssumption DEF Orders, Orderly
      <4>. QED
        BY <3>1, <4>1 DEF TypeOK
    <3>2. CASE OpenDelete(v)
      BY <3>2 DEF TypeOK
    <3>3. CASE Cancel(v)
      <4>1. CASE deleting' = [deleting EXCEPT ![v] = "no"] /\ deleting[v] = "open"
        BY <4>1 DEF TypeOK
      <4>. QED
        BY <3>3, <4>1
    <3>4. CASE confirmDelete(v)
      BY <3>4 DEF TypeOK
    <3>. QED
      BY <1>6, <3>1, <3>2, <3>3, <3>4
  <2>3. \A w \in Visit : deleting'[w] = "deleted" <=> deleting[w] = "deleted"
    BY <2>1, <2>2
  <2>. QED
    BY <2>1, <2>3 DEF TimersRight, OpenPagePolls, DeletedPageStops, TypeOK
<1>7. CASE UNCHANGED <<current, loading, deleting, refreshTimer>>
  BY <1>7 DEF TimersRight, OpenPagePolls, DeletedPageStops
<1>8. ASSUME NEW v \in Visit,
             \/ OpenEdit(v) \/ submitUpdate(v) \/ UpdateAnswered(v) \/ StartRefresh(v)
             \/ (\E i \in DOMAIN refreshes[v] : RefreshAnswered(v, i))
             \/ (\E k \in Kind : Answer(v, k) \/ CallFails(v, k))
             \/ AnswerRefresh(v) \/ RefreshFails(v)
      PROVE  UNCHANGED <<current, loading, deleting, refreshTimer>>
  BY <1>8 DEF OpenEdit, submitUpdate, UpdateAnswered, StartRefresh, RefreshAnswered,
     Answer, CallFails, AnswerRefresh, RefreshFails
<1>9. ASSUME (\E p \in Project : MailArrives(p) \/ Elsewhere(p)) \/ SwitchTab
             \/ AccessChanges \/ UNCHANGED vars
      PROVE  UNCHANGED <<current, loading, deleting, refreshTimer>>
  BY <1>9 DEF MailArrives, Elsewhere, SwitchTab, AccessChanges, vars
<1>. QED
  BY <1>1, <1>2, <1>3, <1>4, <1>5, <1>6, <1>7, <1>8, <1>9
  DEF Next, User, Continue, Loaded, Refreshed, DeleteAnswered, ClickRefresh, Tick

-----------------------------------------------------------------------------
(* What is shown is no newer than the answers under way, nor those than the *)
(* rows.                                                                    *)
LEMMA InitFresh == Init => Freshness
  BY DEF Init, Freshness

\* Rows only grow, so what was no newer than them stays so.
LEMMA FreshKept ==
  ASSUME TypeOK, Freshness, Grows, NEW w \in Visit, Same(w)
  PROVE  id'[w] # None => Fresh(w)'
<1>. SUFFICES ASSUME id[w] # None PROVE Fresh(w)'
  BY DEF Same
<1>1. id[w] \in Project /\ Fresh(w)
  BY DEF TypeOK, Freshness
<1>2. version'[id[w]] >= version[id[w]] /\ mail'[id[w]] >= mail[id[w]]
      /\ version[id[w]] \in Nat /\ version'[id[w]] \in Nat
      /\ mail[id[w]] \in Nat /\ mail'[id[w]] \in Nat
  BY <1>1 DEF Grows, TypeOK, Version, Number
<1>3. Version \subseteq Nat /\ Number \subseteq Nat
      /\ project[w] \in Version \cup {None} /\ emails[w] \in Nat
  BY DEF TypeOK, Version, Number
<1>4. id'[w] = id[w] /\ project'[w] = project[w] /\ emails'[w] = emails[w]
      /\ call'[w] = call[w] /\ refreshes'[w] = refreshes[w]
  BY DEF Same
<1>5. ASSUME NEW n \in Nat
      PROVE  /\ n <= version[id[w]] => n <= version'[id[w]]
             /\ n <= mail[id[w]] => n <= mail'[id[w]]
  BY <1>2
<1>6. project[w] # None => project[w] <= version'[id[w]]
  BY <1>1, <1>3, <1>5 DEF Fresh
<1>7. emails[w] <= mail'[id[w]]
  BY <1>1, <1>3, <1>5 DEF Fresh
<1>8. /\ call[w].get \in Version => call[w].get <= version'[id[w]]
      /\ call[w].list \in Number => call[w].list <= mail'[id[w]]
      /\ call[w].update \in Version => project[w] <= call[w].update
                                         /\ call[w].update <= version'[id[w]]
  BY <1>1, <1>3, <1>5 DEF Fresh
<1>9. ASSUME NEW i \in DOMAIN refreshes[w], refreshes[w][i] \in Number
      PROVE  emails[w] <= refreshes[w][i] /\ refreshes[w][i] <= mail'[id[w]]
  <2>1. refreshes[w][i] \in Nat
    BY <1>3, <1>9
  <2>. QED
    BY <1>1, <1>5, <1>9, <2>1 DEF Fresh
<1>. QED
  BY <1>4, <1>6, <1>7, <1>8, <1>9 DEF Fresh

LEMMA WorldGrows ==
  ASSUME TypeOK, EditsCounted, Orders, WorldStep
  PROVE  Grows
<1>1. TypeOK'
  BY TypeStep DEF WorldStep, Next
<1>2. ASSUME NEW p \in Project, MailArrives(p) \/ Elsewhere(p)
      PROVE  Grows
  <2>1. CASE MailArrives(p)
    <3>1. \A q \in Project : mail'[q] >= mail[q] /\ version'[q] >= version[q]
      BY <2>1 DEF MailArrives, TypeOK, Version, Number
    <3>. QED
      BY <1>1, <3>1 DEF TypeOK, Grows
  <2>2. CASE EditRow(p)
    <3>1. \A q \in Project : mail'[q] >= mail[q] /\ version'[q] >= version[q]
      BY <2>2 DEF EditRow, TypeOK, Version, Number
    <3>. QED
      BY <1>1, <3>1 DEF TypeOK, Grows
  <2>3. CASE RemoveRow(p)
    BY <2>3, RemoveGrows
  <2>. QED
    BY <1>2, <2>1, <2>2, <2>3 DEF Elsewhere
<1>3. CASE Leave \/ Replaced \/ SwitchTab \/ UNCHANGED vars
  BY <1>3, SameServer DEF Leave, Replaced, Gone, SwitchTab, vars, server
<1>4. CASE AccessChanges
  BY <1>4 DEF AccessChanges, TypeOK, Grows, Version, Number
<1>. QED
  BY <1>2, <1>3, <1>4 DEF WorldStep

LEMMA VisitGrows ==
  ASSUME TypeOK, EditsCounted, Orders, NEW v \in Visit, VisitStep(v)
  PROVE  Grows
<1>1. CASE \E k \in Kind : Answer(v, k) \/ CallFails(v, k)
  BY <1>1, CallStep
<1>2. CASE ~\E k \in Kind : Answer(v, k) \/ CallFails(v, k)
  <2>1. UNCHANGED server
    BY <1>2 DEF VisitStep, Open, User, TryAgain, ClickRefresh, StartRefresh, OpenEdit,
       submitUpdate, OpenDelete, confirmDelete, Cancel, Tick, Continue, Loaded, LoadSucceeds,
       LoadFails, Refreshed, RefreshAnswered, UpdateAnswered, DeleteAnswered, DeleteFailed,
       Deleted, AnswerRefresh, RefreshFails, server
  <2>. QED
    BY <2>1, SameServer
<1>. QED
  BY <1>1, <1>2

\* A request that is made, fails or is dropped answers nothing.
LEMMA FreshUnanswered ==
  ASSUME TypeOK, Freshness, NEW v \in Visit, id[v] # None,
         UNCHANGED <<version, mail, id, project, emails, refreshes>>,
         \A k \in {"get", "list", "update"} :
            call'[v][k] \in {call[v][k], Idle, Sent, Failed}
  PROVE  Fresh(v)'
<1>1. Fresh(v)
  BY DEF Freshness
<1>2. {Idle, Sent, Failed} \cap (Version \cup Number) = {}
  BY PageAssumption DEF Version, Number
<1>3. /\ call'[v].get \in {call[v].get, Idle, Sent, Failed}
      /\ call'[v].list \in {call[v].list, Idle, Sent, Failed}
      /\ call'[v].update \in {call[v].update, Idle, Sent, Failed}
  OBVIOUS
<1>. QED
  BY <1>1, <1>2, <1>3 DEF Fresh

LEMMA VisitFresh ==
  ASSUME TypeOK, EditsCounted, Orders, Freshness, NEW v \in Visit, VisitStep(v)
  PROVE  id'[v] # None => Fresh(v)'
<1>. USE DEF server, tab, shown, dialogs, polls, bounds, page
<1>0. /\ {Idle, Sent, Failed, None} \cap (Version \cup Number) = {}
      /\ Idle # Sent /\ Idle # Failed /\ Sent # Failed
  BY PageAssumption DEF Version, Number
<1>1. ASSUME (\E p \in Project : Open(v, p)) \/ TryAgain(v)
      PROVE  id'[v] # None => Fresh(v)'
  <2>. PICK x \in {Sent} : call' = [call EXCEPT ![v].get = x, ![v].list = x]
    BY <1>1 DEF Open, TryAgain, StartLoad
  <2>1. project[v] = None
    BY <1>1 DEF Orders, Orderly, Open, TryAgain
  <2>2. refreshes[v] = <<>> /\ call[v].update = Idle
    BY <2>1 DEF Orders, Orderly
  <2>3. call'[v].get = Sent /\ call'[v].list = Sent /\ call'[v].update = Idle
    BY <2>2, OutcomeType, LoadUpdate
  <2>4. project'[v] = None /\ emails'[v] = 0 /\ refreshes'[v] = <<>> /\ UNCHANGED mail
    BY <1>1, <2>2 DEF Open, TryAgain, StartLoad, TypeOK
  <2>5. id'[v] # None => id'[v] \in Project
    BY <1>1 DEF Open, TryAgain, TypeOK
  <2>6. id'[v] # None => 0 <= mail'[id'[v]]
    BY <2>4, <2>5 DEF TypeOK, Number
  <2>. QED
    BY <1>0, <2>3, <2>4, <2>6 DEF Fresh
<1>2. CASE LoadSucceeds(v)
  <2>. PICK x \in {Idle} : call' = [call EXCEPT ![v].get = x, ![v].list = x]
    BY <1>2 DEF LoadSucceeds, EndLoad
  <2>1. project[v] = None /\ id[v] # None
    BY <1>2 DEF Orders, Orderly, LoadSucceeds
  <2>2. refreshes[v] = <<>> /\ call[v].update = Idle
    BY <2>1 DEF Orders, Orderly
  <2>3. call'[v].get = Idle /\ call'[v].list = Idle /\ call'[v].update = Idle
    BY <2>2, OutcomeType, LoadUpdate
  <2>4. /\ project'[v] = call[v].get /\ emails'[v] = call[v].list /\ refreshes'[v] = <<>>
        /\ call[v].get \in Version /\ call[v].list \in Number
        /\ UNCHANGED <<version, mail, id>>
    BY <1>2, <2>2 DEF LoadSucceeds, BothAnswered, TypeOK
  <2>5. project'[v] <= version[id[v]] /\ emails'[v] <= mail[id[v]]
    BY <2>1, <2>4 DEF Freshness, Fresh
  <2>. QED
    BY <1>0, <2>3, <2>4, <2>5 DEF Fresh
<1>3. CASE LoadFails(v)
  <2>. PICK x \in {Idle} : call' = [call EXCEPT ![v].get = x, ![v].list = x]
    BY <1>3 DEF LoadFails, EndLoad
  <2>1. call'[v].get = Idle /\ call'[v].list = Idle /\ call'[v].update = call[v].update
    BY OutcomeType, LoadUpdate
  <2>2. id[v] # None
    BY <1>3 DEF LoadFails, Orders, Orderly
  <2>. QED
    BY <1>3, <2>1, <2>2, FreshUnanswered DEF LoadFails
<1>4. CASE StartRefresh(v)
  <2>1. project[v] # None /\ refreshes[v] = <<>>
    BY <1>4 DEF StartRefresh, MayRefresh, Orders, Orderly
  <2>2. id[v] # None /\ Fresh(v)
    BY <2>1 DEF Orders, Orderly, Freshness
  <2>3. refreshes'[v] = Append(refreshes[v], Sent)
    BY <1>4 DEF StartRefresh, TypeOK
  <2>4. DOMAIN refreshes'[v] = {1} /\ refreshes'[v][1] = Sent
    BY <2>1, <2>3
  <2>5. UNCHANGED <<version, mail, id, project, emails, call>>
    BY <1>4 DEF StartRefresh
  <2>. QED
    BY <1>0, <2>2, <2>4, <2>5 DEF Fresh
<1>5. ASSUME NEW i \in DOMAIN refreshes[v], RefreshAnswered(v, i)
      PROVE  id'[v] # None => Fresh(v)'
  <2>1. refreshes[v] \in Seq({Sent, Failed} \cup Number)
    BY DEF TypeOK
  <2>2. Len(refreshes[v]) = 1 /\ project[v] # None
    BY <2>1 DEF Orders, Orderly
  <2>3. id[v] # None /\ Fresh(v)
    BY <2>2 DEF Orders, Orderly, Freshness
  <2>4. refreshes'[v] = <<>>
    BY <1>5, <2>1, <2>2, PollEnds DEF RefreshAnswered, TypeOK
  <2>5. UNCHANGED <<version, mail, id, project, call>>
    BY <1>5 DEF RefreshAnswered
  <2>6. emails'[v] <= mail[id[v]]
    <3>1. refreshes[v][i] \in {Failed} \cup Number
      BY <1>5, <2>1 DEF RefreshAnswered
    <3>. QED
      BY <1>5, <2>3, <3>1 DEF RefreshAnswered, Fresh, TypeOK
  <2>. QED
    BY <2>3, <2>4, <2>5, <2>6 DEF Fresh
<1>6. CASE OpenEdit(v) \/ OpenDelete(v) \/ Cancel(v)
  <2>1. UNCHANGED <<version, mail, id, project, emails, refreshes, call>>
    BY <1>6 DEF OpenEdit, OpenDelete, Cancel
  <2>. QED
    BY <2>1, FreshUnanswered
<1>7. ASSUME submitUpdate(v) \/ confirmDelete(v) \/ DeleteFailed(v) \/ Deleted(v)
                \/ (UpdateAnswered(v) /\ call[v].update = Failed)
      PROVE  id'[v] # None => Fresh(v)'
  <2>1. UNCHANGED <<version, mail, id, project, emails, refreshes>>
    BY <1>7 DEF submitUpdate, confirmDelete, DeleteFailed, Deleted, UpdateAnswered
  <2>2. \E k \in Kind, x \in {Idle, Sent} : call' = [call EXCEPT ![v][k] = x]
    BY <1>7 DEF submitUpdate, confirmDelete, DeleteFailed, Deleted, UpdateAnswered
  <2>3. \A k \in Kind : call'[v][k] \in {call[v][k], Idle, Sent}
    BY <2>2, OutcomeType, CallUpdate
  <2>. QED
    BY <2>1, <2>3, FreshUnanswered
<1>8. CASE UpdateAnswered(v) /\ call[v].update # Failed
  <2>1. call[v].update \in Version /\ project[v] # None
    BY <1>8 DEF UpdateAnswered, Orders, Orderly
  <2>2. id[v] # None /\ Fresh(v)
    BY <2>1 DEF Orders, Orderly, Freshness
  <2>3. call' = [call EXCEPT ![v]["update"] = Idle]
    BY <1>8 DEF UpdateAnswered
  <2>4. call'[v].update = Idle /\ call'[v].get = call[v].get /\ call'[v].list = call[v].list
    BY <2>3, OutcomeType, CallUpdate
  <2>5. project'[v] = call[v].update /\ UNCHANGED <<version, mail, id, emails, refreshes>>
    BY <1>8 DEF UpdateAnswered, TypeOK
  <2>. QED
    BY <1>0, <2>1, <2>2, <2>4, <2>5 DEF Fresh
<1>9. ASSUME NEW k \in Kind, Answer(v, k) \/ CallFails(v, k)
      PROVE  id'[v] # None => Fresh(v)'
  <2>. DEFINE p == id[v]
  <2>1. /\ p \in Project /\ Fresh(v) /\ call[v][k] = Sent
        /\ UNCHANGED <<id, project, emails, refreshes>>
    BY <1>9, CallStep, PageAssumption DEF Freshness
  <2>2. \A l \in Kind \ {k} : call'[v][l] = call[v][l]
    BY <1>9, CallStep
  <2>3. /\ version[p] \in Nat /\ version'[p] \in Nat /\ version[p] <= version'[p]
        /\ UNCHANGED mail
        /\ k # "update" => UNCHANGED version
    <3>1. UNCHANGED mail /\ (k # "update" => UNCHANGED version)
      BY <1>9, <2>1, ExecuteGrows DEF Answer, CallFails
    <3>. QED
      BY <1>9, <2>1, <3>1, CallStep DEF Grows, TypeOK, Version
  <2>4. CASE k # "update"
    <3>1. k = "get" => call'[v].get \in {Failed, version[p]}
      BY <1>9, CallStep DEF Result
    <3>2. k = "list" => call'[v].list \in {Failed, mail[p]}
      BY <1>9, CallStep DEF Result
    <3>3. version[p] <= version[p] /\ mail[p] <= mail[p]
      BY <2>1 DEF TypeOK, Version, Number
    <3>. QED
      BY <1>0, <2>1, <2>2, <2>3, <2>4, <3>1, <3>2, <3>3 DEF Fresh
  <2>5. CASE k = "update"
    <3>1. \/ call'[v].update = Failed
          \/ call'[v].update = version[p] + 1 /\ version'[p] = version[p] + 1
      <4>1. CASE CallFails(v, k)
        BY <2>1, <2>5, <4>1, OutcomeType, CallUpdate DEF CallFails
      <4>2. CASE Answer(v, k)
        <5>1. call'[v][k] = Result(p, k)
          BY <2>1, <4>2, OutcomeType, CallUpdate, ResultType DEF Answer
        <5>2. CASE Refused(p)
          BY <2>5, <5>1, <5>2 DEF Result
        <5>3. CASE ~Refused(p)
          <6>1. EditRow(p)
            BY <2>5, <4>2, <5>3 DEF Answer, Execute
          <6>. QED
            BY <2>1, <2>5, <5>1, <5>3, <6>1 DEF Result, EditRow, TypeOK
        <5>. QED
          BY <5>2, <5>3
      <4>. QED
        BY <1>9, <4>1, <4>2
    <3>2. project[v] # None
      BY <2>1, <2>5, <1>0 DEF Orders, Orderly
    <3>3. project[v] \in Nat /\ project[v] <= version[p]
      BY <2>1, <3>2 DEF Fresh, TypeOK, Version
    <3>4. call'[v].update \in Version => project[v] <= call'[v].update
                                         /\ call'[v].update <= version'[p]
      BY <1>0, <2>3, <3>1, <3>3
    <3>5. project[v] <= version'[p]
      BY <2>3, <3>3
    <3>6. call[v].get \in Version => call[v].get <= version'[p]
      BY <2>1, <2>3 DEF Fresh, Version
    <3>. QED
      BY <2>1, <2>2, <2>3, <2>5, <3>4, <3>5, <3>6 DEF Fresh
  <2>. QED
    BY <2>4, <2>5
<1>10. CASE AnswerRefresh(v) \/ RefreshFails(v)
  <2>1. /\ id[v] \in Project /\ Fresh(v)
        /\ UNCHANGED <<version, mail, id, project, emails, call>>
    BY <1>10, PollStep, PageAssumption DEF Freshness
  <2>. PICK i \in DOMAIN refreshes[v], x \in {Failed} \cup Number :
         /\ refreshes'[v] = [refreshes[v] EXCEPT ![i] = x]
         /\ x # Failed => x = mail[id[v]]
         /\ DOMAIN refreshes'[v] = DOMAIN refreshes[v]
    BY <1>10, PollStep
  <2>2. refreshes[v] \in Seq({Sent, Failed} \cup Number)
    BY DEF TypeOK
  <2>3. ASSUME NEW j \in DOMAIN refreshes[v], refreshes'[v][j] \in Number
        PROVE  emails[v] <= refreshes'[v][j] /\ refreshes'[v][j] <= mail[id[v]]
    <3>1. CASE j = i
      <4>1. refreshes'[v][j] = mail[id[v]] /\ mail[id[v]] \in Nat
        BY <1>0, <2>1, <2>2, <2>3, <3>1 DEF TypeOK, Number
      <4>. QED
        BY <2>1, <4>1 DEF Fresh
    <3>2. CASE j # i
      <4>1. refreshes'[v][j] = refreshes[v][j]
        BY <2>2, <3>2
      <4>. QED
        BY <2>1, <2>3, <4>1 DEF Fresh
    <3>. QED
      BY <3>1, <3>2
  <2>. QED
    BY <2>1, <2>3 DEF Fresh
<1>. QED
  BY <1>1, <1>2, <1>3, <1>4, <1>5, <1>6, <1>7, <1>8, <1>9, <1>10
  DEF VisitStep, User, Continue, Loaded, Refreshed, DeleteAnswered, ClickRefresh, Tick

-----------------------------------------------------------------------------
(* The invariant and the theorems.                                          *)
IInv == TypeOK /\ EditsCounted /\ Orders /\ TimersRight /\ Freshness

LEMMA InitInv == Init => IInv
  BY InitSafe, InitTimers, InitFresh DEF IInv

LEMMA StepInv ==
  ASSUME IInv, [Next]_vars
  PROVE  IInv'
<1>1. Freshness'
  <2>1. CASE WorldStep
    BY <2>1, WorldGrows, WorldKeeps, FreshKept DEF Freshness, IInv
  <2>2. ASSUME NEW v \in Visit, VisitStep(v)
        PROVE  Freshness'
    <3>1. Grows
      BY <2>2, VisitGrows DEF IInv
    <3>2. \A w \in Visit \ {v} : id'[w] # None => Fresh(w)'
      BY <2>2, <3>1, VisitKeepsOthers, FreshKept DEF IInv
    <3>3. id'[v] # None => Fresh(v)'
      BY <2>2, VisitFresh DEF IInv
    <3>. QED
      BY <3>2, <3>3 DEF Freshness
  <2>. QED
    BY <2>1, <2>2, StepCases
<1>. QED
  BY <1>1, TypeStep, EditsCountedStep, OrdersStep, TimersStep DEF IInv

LEMMA Invariance == Spec => []IInv
  BY InitInv, StepInv, PTL DEF Spec

(* The state of the page, its requests and the rows have their types, and   *)
(* every version stays within the bound (ProjectDetail.vue).                *)
THEOREM TypeCorrect == Spec => []TypeOK
  BY Invariance, PTL DEF IInv

(* A page that is open polls once its first load has ended, until it has    *)
(* deleted its project (startAutoRefresh, confirmDelete).                   *)
THEOREM OpenPagesPoll == Spec => []OpenPagePolls
<1>1. IInv => OpenPagePolls
  BY DEF IInv, TimersRight
<1>. QED
  BY <1>1, Invariance, PTL

(* A page that has deleted its project does not poll: no load that ends     *)
(* later starts its timer again (confirmDelete).                            *)
THEOREM DeletedPagesStop == Spec => []DeletedPageStops
<1>1. IInv => DeletedPageStops
  BY DEF IInv, TimersRight
<1>. QED
  BY <1>1, Invariance, PTL

\* What an instance shows in a step of its own.
LEMMA VisitShows ==
  ASSUME IInv, NEW v \in Visit, VisitStep(v), project[v] # None, project'[v] # None
  PROVE  project'[v] >= project[v] /\ emails'[v] >= emails[v]
<1>. USE DEF server, tab, shown, dialogs, polls, bounds, page
<1>1. /\ id[v] # None /\ Fresh(v) /\ loading[v] = "no"
      /\ project[v] \in Version /\ emails[v] \in Number /\ TypeOK /\ Orders
  BY DEF IInv, Orders, Orderly, Freshness, TypeOK
<1>2. project[v] \in Nat /\ emails[v] \in Nat
  BY <1>1 DEF Version, Number
<1>3. CASE UpdateAnswered(v)
  <2>1. call[v].update \in {Failed} \cup Version
    BY <1>1, <1>3 DEF UpdateAnswered, Orders, Orderly
  <2>2. emails'[v] = emails[v]
    BY <1>3 DEF UpdateAnswered
  <2>3. project'[v] = project[v] \/ (call[v].update \in Version /\ project'[v] = call[v].update)
    BY <1>1, <1>3, <2>1 DEF UpdateAnswered, TypeOK
  <2>. QED
    BY <1>1, <1>2, <2>2, <2>3 DEF Fresh, Version
<1>4. ASSUME NEW i \in DOMAIN refreshes[v], RefreshAnswered(v, i)
      PROVE  project'[v] >= project[v] /\ emails'[v] >= emails[v]
  <2>1. refreshes[v][i] \in {Failed} \cup Number
    BY <1>1, <1>4 DEF RefreshAnswered, TypeOK
  <2>2. project'[v] = project[v]
    BY <1>4 DEF RefreshAnswered
  <2>3. emails'[v] = emails[v] \/ (refreshes[v][i] \in Number /\ emails'[v] = refreshes[v][i])
    BY <1>1, <1>4, <2>1 DEF RefreshAnswered, TypeOK
  <2>. QED
    BY <1>1, <1>2, <2>2, <2>3 DEF Fresh, Number
<1>5. CASE /\ ~UpdateAnswered(v)
           /\ ~\E i \in DOMAIN refreshes[v] : RefreshAnswered(v, i)
  <2>1. ~LoadSucceeds(v) /\ ~LoadFails(v) /\ ~TryAgain(v)
    BY <1>1 DEF LoadSucceeds, LoadFails, TryAgain
  <2>2. ~\E p \in Project : Open(v, p)
    BY <1>1 DEF Open
  <2>3. UNCHANGED <<project, emails>>
    BY <1>5, <2>1, <2>2 DEF VisitStep, User, ClickRefresh, StartRefresh, OpenEdit,
       submitUpdate, OpenDelete, confirmDelete, Cancel, Tick, Continue, Loaded, Refreshed,
       DeleteAnswered, DeleteFailed, Deleted, Answer, CallFails, AnswerRefresh, RefreshFails
  <2>. QED
    BY <1>2, <2>3
<1>. QED
  BY <1>3, <1>4, <1>5

(* While a project is shown, no answer that comes late takes it or its list *)
(* back: polls, updates, other tabs and pages that were left included       *)
(* (load, refreshEmails, submitUpdate).                                     *)
THEOREM NeverBack == Spec => ShownNeverGoesBack
<1>. DEFINE Forward == \A v \in Visit : project[v] # None /\ project'[v] # None =>
                          project'[v] >= project[v] /\ emails'[v] >= emails[v]
<1>1. ASSUME IInv, [Next]_vars PROVE Forward
  <2>. SUFFICES ASSUME NEW w \in Visit, project[w] # None, project'[w] # None
                PROVE  project'[w] >= project[w] /\ emails'[w] >= emails[w]
    OBVIOUS
  <2>1. CASE VisitStep(w)
    BY <1>1, <2>1, VisitShows
  <2>2. CASE Same(w)
    <3>1. project[w] \in Nat /\ emails[w] \in Nat
      BY <1>1 DEF IInv, TypeOK, Version, Number
    <3>. QED
      BY <2>2, <3>1 DEF Same
  <2>. QED
    BY <1>1, <2>1, <2>2, StepCases, WorldKeeps, VisitKeepsOthers DEF IInv
<1>. HIDE DEF Forward
<1>2. IInv /\ [Next]_vars => [Forward]_vars
  BY <1>1
<1>3. [][Forward]_vars <=> ShownNeverGoesBack
  BY PTL DEF Forward, ShownNeverGoesBack
<1>. QED
  BY <1>2, <1>3, Invariance, PTL DEF Spec
=============================================================================
