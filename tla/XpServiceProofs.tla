-------------------------- MODULE XpServiceProofs ---------------------------
(***************************************************************************)
(* Proofs about the experience of a player, for any requests, levels,      *)
(* amounts and days: overlapping requests may lose experience, but never   *)
(* make any; requests that do not overlap implement the ledger.            *)
(***************************************************************************)
EXTENDS XpService, FiniteSetTheorems, WellFoundedInduction, TLAPS

RowStages == {"insert", "compare", "update", "mirror", "commit", "emit"}

\* What the local variables of a request are good for at its stage.
JobOK(j) ==
  /\ j.stage \in Stages /\ j.part = "api" => j.api \in ApiEvents
  /\ j.stage \in AwardStages /\ j.part = "streak" =>
       j.streak \in StreakRows /\ j.streak.current \in DOMAIN Milestones
  /\ j.stage \in {"compareStreak", "save"} => j.streak \in StreakRows
  /\ j.stage = "compareStreak" \/ (j.stage = "save" /\ ~j.fresh) => streak # NoRow
  /\ j.stage \in RowStages =>
       /\ j.row \in LevelRows /\ j.row.xp <= granted
       /\ j.created \/ level # NoRow

\* The unique index: an uncommitted award is the only one with its key.
KeysUnique ==
  /\ \A r \in Requests : Inserted(r) => Event(r) \notin Entered
  /\ \A r \in Requests : \A s \in Others(r) : Inserted(r) /\ Inserted(s) => Event(r) # Event(s)

IInv ==
  /\ TypeOK /\ XpWithinAwards /\ KeysUnique
  /\ \A r \in Requests : JobOK(job[r])

-----------------------------------------------------------------------------
(* Levels.                                                                 *)

\* A finite set of naturals that is not empty has a last element.
LEMMA LastExists ==
  ASSUME NEW n \in Nat, NEW S \in SUBSET (1 .. n), S # {}
  PROVE  \E x \in S : \A y \in S : y <= x
  <1> DEFINE Above(x) == {y \in S : x < y}
             T == {Above(x) : x \in S}
  <1>1. IsFiniteSet(S)
    <2>1. IsFiniteSet(1 .. n)
      BY FS_Interval
    <2> QED BY <2>1, FS_Subset
  <1>2. T \subseteq FiniteSubsetsOf(S) /\ T # {}
    <2>1. ASSUME NEW x \in S PROVE Above(x) \in FiniteSubsetsOf(S)
      <3>1. Above(x) \in SUBSET S
        OBVIOUS
      <3>2. IsFiniteSet(Above(x))
        BY <1>1, <3>1, FS_Subset
      <3> QED BY <3>1, <3>2 DEF FiniteSubsetsOf
    <2> QED BY <2>1
  <1>3. PICK A \in T : \A B \in T : ~ (<<B, A>> \in StrictSubsetOrdering(S))
    <2>1. IsWellFoundedOn(StrictSubsetOrdering(S), FiniteSubsetsOf(S))
      BY FS_StrictSubsetOrderingWellFounded
    <2> HIDE DEF T
    <2> QED BY <1>2, <2>1, WFMin
  <1>4. PICK x \in S : A = Above(x)
    OBVIOUS
  <1>5. ASSUME NEW y \in S, ~ (y <= x) PROVE FALSE
    <2>1. x < y /\ x \in Nat /\ y \in Nat
      BY <1>5
    <2>2. Above(y) \subseteq Above(x)
      <3>1. ASSUME NEW z \in S, y < z PROVE x < z
        <4>1. z \in Nat
          OBVIOUS
        <4> QED BY <2>1, <3>1, <4>1
      <3> QED BY <3>1
    <2>3. y \in Above(x) /\ y \notin Above(y)
      BY <2>1
    <2>4. <<Above(y), Above(x)>> \in StrictSubsetOrdering(S)
      BY <2>2, <2>3 DEF StrictSubsetOrdering
    <2> QED BY <2>4, <1>3, <1>4
  <1> QED BY <1>5

\* resolveLevel finds the last level reached; the next one is still ahead.
LEMMA LevelReached ==
  ASSUME NEW x \in Nat
  PROVE  /\ LevelOf(x) \in DOMAIN Thresholds
         /\ Thresholds[LevelOf(x)] <= x
         /\ \A m \in DOMAIN Thresholds : Thresholds[m] <= x => m <= LevelOf(x)
  <1> DEFINE S == {l \in DOMAIN Thresholds : Thresholds[l] <= x}
  <1>1. S \in SUBSET (1 .. Len(Thresholds)) /\ Len(Thresholds) \in Nat /\ 1 \in S
    BY XpAssumption
  <1>2. PICK l \in S : \A m \in S : m <= l
    BY <1>1, LastExists
  <1> QED BY <1>2 DEF LevelOf

LEMMA LevelRowTyped ==
  ASSUME NEW x \in Nat
  PROVE  /\ LevelRow(x) \in LevelRows /\ LevelRow(x).xp = x
         /\ LevelRow(x).level = LevelOf(x)
  <1> DEFINE l == LevelOf(x)
  <1>1. l \in DOMAIN Thresholds /\ \A m \in DOMAIN Thresholds : Thresholds[m] <= x => m <= l
    BY LevelReached
  <1>2. ASSUME l < Len(Thresholds) PROVE Thresholds[l + 1] - x \in Nat
    <2>1. l + 1 \in DOMAIN Thresholds /\ Thresholds[l + 1] \in Nat
      BY <1>1, <1>2, XpAssumption
    <2>2. ~ (Thresholds[l + 1] <= x)
      BY <1>1, <2>1, XpAssumption
    <2> QED BY <2>1, <2>2
  <1> HIDE DEF l
  <1> QED BY <1>1, <1>2 DEF LevelRow, LevelRows, l

-----------------------------------------------------------------------------
(* The parts of a request.                                                 *)

LEMMA WorthTyped ==
  ASSUME NEW e \in Awards PROVE Worth(e) \in Nat
  <1>1. CASE e \in {"base", "nohints"} \X Requests
    BY <1>1, XpAssumption DEF Worth
  <1>2. CASE e \in {"daily"} \X Days
    BY <1>2, XpAssumption DEF Worth
  <1>3. CASE e \in {"streak"} \X DOMAIN Milestones
    BY <1>3, XpAssumption DEF Worth
  <1>4. CASE e \in {"api"} \X ApiEvents
    BY <1>4, XpAssumption DEF Worth
  <1> QED BY <1>1, <1>2, <1>3, <1>4 DEF Awards

\* A request that makes an award makes a known one.
LEMMA EventTyped ==
  ASSUME IInv, NEW r \in Requests, job[r].stage \in AwardStages
  PROVE  Event(r) \in Awards /\ Worth(Event(r)) \in Nat
  <1>1. JobOK(job[r]) /\ job[r] \in Job /\ job[r].stage \in Stages
    BY DEF IInv, TypeOK, Stages
  <1>2. Event(r) \in Awards
    BY <1>1 DEF Event, Awards, JobOK, Job
  <1> QED BY <1>2, WorthTyped

LEMMA RaisedTyped ==
  ASSUME IInv, NEW r \in Requests, job[r].stage \in RowStages
  PROVE  /\ Raised(r) \in LevelRows
         /\ Raised(r).xp = job[r].row.xp + Worth(Event(r))
         /\ Raised(r).level = LevelOf(Raised(r).xp)
         /\ job[r].row.xp \in Nat /\ Worth(Event(r)) \in Nat
  <1>1. job[r].stage \in AwardStages
    BY DEF RowStages, AwardStages
  <1>2. job[r].row \in LevelRows
    BY DEF IInv, JobOK
  <1>3. job[r].row.xp + Worth(Event(r)) \in Nat /\ job[r].row.xp \in Nat /\ Worth(Event(r)) \in Nat
    BY <1>1, <1>2, EventTyped DEF LevelRows
  <1> QED BY <1>3, LevelRowTyped DEF Raised

LEMMA SavedTyped ==
  ASSUME IInv, NEW r \in Requests, job[r].stage \in RowStages
  PROVE  /\ Saved(r) \in LevelRows
         /\ Saved(r).xp = Raised(r).xp \/ (level # NoRow /\ Saved(r).xp = level.xp)
  <1>1. Raised(r) \in LevelRows
    BY RaisedTyped
  <1>2. CASE job[r].created
    BY <1>1, <1>2 DEF Saved
  <1>3. CASE ~job[r].created
    <2>1. level \in LevelRows /\ level # NoRow
      BY <1>3 DEF IInv, JobOK, TypeOK
    <2> QED BY <1>1, <1>3, <2>1 DEF Saved, LevelRows
  <1> QED BY <1>2, <1>3

LEMMA AdvancedTyped ==
  ASSUME NEW row \in StreakRows \union {NoRow}, NEW day \in Days
  PROVE  Advanced(row, day) \in StreakRows
  <1>1. CASE row = NoRow
    BY <1>1 DEF Advanced, StreakRows
  <1>2. CASE row # NoRow /\ row.last = day
    <2>1. Advanced(row, day) = row
      BY <1>2, XpAssumption DEF Advanced, Days
    <2> QED BY <1>2, <2>1
  <1>3. CASE row # NoRow /\ row.last # day
    <2>1. row.current \in Nat \ {0} /\ row.current + 1 \in Nat \ {0}
      BY <1>3 DEF StreakRows
    <2> QED BY <1>3, <2>1 DEF Advanced, StreakRows
  <1> QED BY <1>1, <1>2, <1>3

\* A request that is over or has made an award holds nothing.
LEMMA OverTyped ==
  ASSUME NEW j \in Job, NEW how \in Ended
  PROVE  /\ Over(j, how) \in Job /\ JobOK(Over(j, how))
         /\ Over(j, how).stage = how /\ ~Over(j, how).created
  <1>1. 1 \in Days
    BY XpAssumption DEF Days
  <1>2. (IF how = "done" THEN j.streak ELSE NoRow) \in StreakRows \union {NoRow}
    BY DEF Job
  <1>3. /\ Over(j, how) \in Job
        /\ Over(j, how).stage = how /\ ~Over(j, how).created
    BY <1>1, <1>2 DEF Over, Job, Ended
  <1> HIDE DEF Over
  <1>4. how \notin Stages \union RowStages
    BY DEF Ended, Stages, AwardStages, RowStages
  <1> QED BY <1>3, <1>4 DEF JobOK, Stages, AwardStages

LEMMA AfterAwardTyped ==
  ASSUME NEW j \in Job
  PROVE  /\ AfterAward(j) \in Job /\ JobOK(AfterAward(j))
         /\ AfterAward(j).stage \in {"check", "count", "advance", "done"}
         /\ ~AfterAward(j).created
  <1>1. 1 \in Days
    BY XpAssumption DEF Days
  <1> DEFINE clean == [j EXCEPT !.began = 1, !.row = NoRow, !.columns = {}, !.created = FALSE]
  <1>2. clean \in Job /\ clean.part = j.part /\ ~clean.created
    BY <1>1 DEF Job
  <1>3. CASE j.part = "base" /\ j.noHints
    <2>1. AfterAward(j) = [clean EXCEPT !.part = "nohints", !.stage = "check"]
      BY <1>3 DEF AfterAward
    <2> QED BY <2>1, <1>1, <1>3 DEF Job, JobOK, Stages, AwardStages, RowStages
  <1>4. CASE j.part = "nohints" \/ (j.part = "base" /\ ~j.noHints)
    <2>1. AfterAward(j) = [clean EXCEPT !.stage = "count"]
      BY <1>4 DEF AfterAward
    <2> QED BY <2>1, <1>1, <1>4 DEF Job, JobOK, Stages, AwardStages, RowStages
  <1>5. CASE j.part = "daily"
    <2>1. AfterAward(j) = [clean EXCEPT !.stage = "advance"]
      BY <1>5 DEF AfterAward
    <2> QED BY <2>1, <1>1, <1>5 DEF Job, JobOK, Stages, AwardStages, RowStages
  <1>6. CASE j.part \in {"streak", "api"}
    <2>1. AfterAward(j) = Over(j, "done")
      BY <1>6 DEF AfterAward
    <2> QED BY <2>1, OverTyped DEF Ended
  <1> QED BY <1>3, <1>4, <1>5, <1>6 DEF Job

-----------------------------------------------------------------------------
(* Steps that change what one request is doing, and no row.                *)

InsertedStages == {"compare", "update", "mirror", "commit"}

\* The key of the award a request is about to insert, or has inserted, is free.
KeyFree(r) ==
  /\ Event(r) \notin Entered
  /\ \A s \in Others(r) : Inserted(s) => Event(s) # Event(r)

LEMMA LocalStep ==
  ASSUME IInv, NEW r \in Requests, NEW j \in Job, JobOK(j), Become(r, j),
         UNCHANGED database, today' \in Days, failures' \in 0 .. MaxFailures,
         announced' \in [DOMAIN Thresholds -> Nat],
         j.stage \in InsertedStages => (Event(r)' = Event(r) /\ KeyFree(r))
  PROVE  IInv'
  <1> USE DEF database
  <1>1. /\ job' \in [Requests -> Job] /\ job'[r] = j
        /\ \A s \in Others(r) : s \in Requests /\ job'[s] = job[s]
    BY DEF IInv, TypeOK, Become, Others
  <1>2. TypeOK'
    BY <1>1 DEF IInv, TypeOK
  <1>3. XpWithinAwards'
    BY DEF IInv, XpWithinAwards
  <1>4. \A s \in Requests : JobOK(job[s])'
    <2>1. JobOK(job[r])'
      BY <1>1 DEF JobOK
    <2>2. ASSUME NEW s \in Others(r) PROVE JobOK(job[s])'
      <3>1. JobOK(job[s])
        BY <1>1 DEF IInv
      <3> QED BY <1>1, <3>1 DEF JobOK
    <2> QED BY <2>1, <2>2 DEF Others
  <1>5. KeysUnique'
    <2>1. \A s \in Others(r) : Event(s)' = Event(s) /\ Inserted(s)' = Inserted(s)
      BY <1>1 DEF Event, Inserted
    <2>2. Entered' = Entered
      BY DEF Entered
    <2>3. Inserted(r)' => Event(r)' = Event(r) /\ KeyFree(r)
      BY <1>1 DEF Inserted, InsertedStages
    <2>4. KeysUnique
      BY DEF IInv
    <2> QED BY <1>1, <2>1, <2>2, <2>3, <2>4 DEF KeysUnique, KeyFree, Others
  <1> QED BY <1>2, <1>3, <1>4, <1>5 DEF IInv

\* An inserted award holds its key.
LEMMA InsertedKeyFree ==
  ASSUME IInv, NEW r \in Requests, Inserted(r) PROVE KeyFree(r)
  BY DEF IInv, KeysUnique, KeyFree, Others

LEMMA AbandonStep ==
  ASSUME IInv, NEW r \in Requests, Abandon(r), UNCHANGED <<database, today, announced>>,
         failures' \in 0 .. MaxFailures
  PROVE  IInv'
  <1>1. job[r] \in Job /\ "failed" \in Ended /\ today \in Days
        /\ announced \in [DOMAIN Thresholds -> Nat]
    BY DEF IInv, TypeOK, Ended
  <1>2. Over(job[r], "failed") \in Job /\ JobOK(Over(job[r], "failed"))
        /\ Over(job[r], "failed").stage = "failed"
    BY <1>1, OverTyped
  <1>3. Become(r, Over(job[r], "failed"))
    BY DEF Abandon
  <1> HIDE DEF IInv
  <1> QED BY <1>1, <1>2, <1>3, LocalStep DEF InsertedStages

LEMMA SolvePuzzleStep ==
  ASSUME IInv, NEW r \in Requests, SolvePuzzle(r) PROVE IInv'
  <1>1. PICK noHints \in BOOLEAN :
          Become(r, [NewJob EXCEPT !.stage = "check", !.noHints = noHints, !.day = today])
    BY DEF SolvePuzzle
  <1> DEFINE j == [NewJob EXCEPT !.stage = "check", !.noHints = noHints, !.day = today]
  <1>2. TypeOK /\ 1 \in Days /\ UNCHANGED <<database, today, failures, announced>>
    BY XpAssumption DEF SolvePuzzle, IInv, Days
  <1>3. j \in Job /\ JobOK(j) /\ j.stage = "check"
    BY <1>2 DEF NewJob, Job, TypeOK, JobOK, Stages, AwardStages, RowStages
  <1> QED BY <1>1, <1>2, <1>3, LocalStep DEF InsertedStages, TypeOK

LEMMA CallAwardStep ==
  ASSUME IInv, NEW r \in Requests, CallAward(r) PROVE IInv'
  <1>1. PICK e \in ApiEvents :
          Become(r, [NewJob EXCEPT !.stage = "check", !.part = "api", !.api = e, !.day = today])
    BY DEF CallAward
  <1> DEFINE j == [NewJob EXCEPT !.stage = "check", !.part = "api", !.api = e, !.day = today]
  <1>2. TypeOK /\ 1 \in Days /\ UNCHANGED <<database, today, failures, announced>>
    BY XpAssumption DEF CallAward, IInv, Days
  <1>3. j \in Job /\ JobOK(j) /\ j.stage = "check"
    BY <1>2 DEF NewJob, Job, TypeOK, JobOK, Stages, AwardStages, RowStages
  <1> QED BY <1>1, <1>2, <1>3, LocalStep DEF InsertedStages, TypeOK

LEMMA CheckStep ==
  ASSUME IInv, NEW r \in Requests, Check(r) PROVE IInv'
  <1>1. TypeOK /\ job[r] \in Job /\ JobOK(job[r]) /\ job[r].stage = "check"
        /\ UNCHANGED <<database, today, failures, announced>>
    BY DEF Check, At, IInv, TypeOK
  <1>2. CASE Event(r) \in Entered
    <2>1. Become(r, AfterAward(job[r]))
      BY <1>2 DEF Check
    <2> QED BY <1>1, <2>1, AfterAwardTyped, LocalStep DEF InsertedStages, TypeOK
  <1>3. CASE Event(r) \notin Entered
    <2> DEFINE j == [job[r] EXCEPT !.stage = "load", !.began = today]
    <2>1. Become(r, j)
      BY <1>3 DEF Check
    <2>2. j \in Job /\ j.stage = "load"
      BY <1>1 DEF Job, TypeOK, Stages, AwardStages
    <2>3. JobOK(j)
      BY <1>1 DEF Job, TypeOK, JobOK, Stages, AwardStages, RowStages
    <2> QED BY <1>1, <2>1, <2>2, <2>3, LocalStep DEF InsertedStages, TypeOK
  <1> QED BY <1>2, <1>3

LEMMA LoadStep ==
  ASSUME IInv, NEW r \in Requests, Load(r) PROVE IInv'
  <1>1. TypeOK /\ job[r] \in Job /\ JobOK(job[r]) /\ job[r].stage = "load"
        /\ XpWithinAwards /\ UNCHANGED <<database, today, failures, announced>>
    BY DEF Load, At, IInv, TypeOK
  <1>2. CASE level = NoRow
    <2> DEFINE j == [job[r] EXCEPT !.stage = "create"]
    <2>1. Become(r, j)
      BY <1>2 DEF Load, Goto
    <2>2. j \in Job /\ j.stage = "create"
      BY <1>1 DEF Job, TypeOK, Stages, AwardStages
    <2>3. JobOK(j)
      BY <1>1 DEF Job, TypeOK, JobOK, Stages, AwardStages, RowStages
    <2> QED BY <1>1, <2>1, <2>2, <2>3, LocalStep DEF InsertedStages, TypeOK
  <1>3. CASE level # NoRow
    <2> DEFINE j == [job[r] EXCEPT !.stage = "insert", !.row = level]
    <2>1. Become(r, j)
      BY <1>3 DEF Load
    <2>2. j \in Job /\ j.stage = "insert"
      BY <1>1 DEF Job, TypeOK, Stages, AwardStages
    <2>3. JobOK(j)
      BY <1>1, <1>3 DEF Job, TypeOK, JobOK, Stages, AwardStages, RowStages, XpWithinAwards
    <2> QED BY <1>1, <2>1, <2>2, <2>3, LocalStep DEF InsertedStages, TypeOK
  <1> QED BY <1>2, <1>3

LEMMA CreateStep ==
  ASSUME IInv, NEW r \in Requests, Create(r) PROVE IInv'
  <1>1. TypeOK /\ job[r] \in Job /\ JobOK(job[r]) /\ job[r].stage = "create"
        /\ UNCHANGED <<database, today, failures, announced>>
    BY DEF Create, At, IInv, TypeOK
  <1>2. CASE level = NoRow
    <2> DEFINE j == [job[r] EXCEPT !.stage = "insert", !.row = LevelRow(0), !.created = TRUE]
    <2>1. Become(r, j)
      BY <1>2 DEF Create
    <2>2. LevelRow(0) \in LevelRows /\ LevelRow(0).xp = 0
      BY LevelRowTyped
    <2>3. j \in Job /\ j.stage = "insert"
      BY <1>1, <2>2 DEF Job, TypeOK, Stages, AwardStages
    <2>4. JobOK(j)
      BY <1>1, <2>2 DEF Job, TypeOK, JobOK, Stages, AwardStages, RowStages
    <2> QED BY <1>1, <2>1, <2>3, <2>4, LocalStep DEF InsertedStages, TypeOK
  <1>3. CASE level # NoRow
    <2>1. Abandon(r)
      BY <1>3 DEF Create
    <2> QED BY <1>1, <2>1, AbandonStep DEF TypeOK
  <1> QED BY <1>2, <1>3

\* A request goes on to the next statement of an open transaction.
LEMMA GotoStep ==
  ASSUME IInv, NEW r \in Requests, NEW stage \in InsertedStages, Goto(r, stage),
         job[r].stage \in {"insert"} \union InsertedStages, KeyFree(r),
         UNCHANGED <<database, today, failures, announced>>
  PROVE  IInv'
  <1> DEFINE j == [job[r] EXCEPT !.stage = stage]
  <1>1. TypeOK /\ job[r] \in Job /\ JobOK(job[r]) /\ Become(r, j)
    BY DEF Goto, IInv, TypeOK
  <1>2. j \in Job
    BY <1>1 DEF Job, Stages, AwardStages, InsertedStages
  <1>3. JobOK(j)
    BY <1>1 DEF Job, JobOK, Stages, AwardStages, RowStages, InsertedStages
  <1>4. Event(r)' = Event(r)
    BY <1>1 DEF Event, Become, TypeOK, Job
  <1> QED BY <1>1, <1>2, <1>3, <1>4, LocalStep DEF TypeOK

LEMMA InsertStep ==
  ASSUME IInv, NEW r \in Requests, Insert(r) PROVE IInv'
  <1>1. TypeOK /\ job[r].stage = "insert" /\ UNCHANGED <<database, today, failures, announced>>
    BY DEF Insert, At, IInv
  <1>2. CASE Event(r) \in Entered
    <2>1. Abandon(r)
      BY <1>2 DEF Insert
    <2> QED BY <1>1, <2>1, AbandonStep DEF TypeOK
  <1>3. CASE Event(r) \notin Entered
    <2>1. Goto(r, "compare") /\ KeyFree(r)
      BY <1>3 DEF Insert, KeyFree, HoldsKey, Others
    <2> QED BY <1>1, <2>1, GotoStep DEF InsertedStages
  <1> QED BY <1>2, <1>3

LEMMA CompareStep ==
  ASSUME IInv, NEW r \in Requests, Compare(r) PROVE IInv'
  <1> DEFINE j == [job[r] EXCEPT !.stage = "update", !.columns = Changed(r)]
  <1>1. /\ TypeOK /\ job[r] \in Job /\ JobOK(job[r]) /\ job[r].stage = "compare"
        /\ Become(r, j) /\ UNCHANGED <<database, today, failures, announced>>
    BY DEF Compare, At, IInv, TypeOK
  <1>2. Changed(r) \subseteq Columns
    BY DEF Changed
  <1>3. j \in Job
    BY <1>1, <1>2 DEF Job, Stages, AwardStages
  <1>4. JobOK(j)
    BY <1>1 DEF Job, JobOK, Stages, AwardStages, RowStages
  <1>5. Event(r)' = Event(r)
    BY <1>1 DEF Event, Become, TypeOK, Job
  <1>6. KeyFree(r)
    BY <1>1, InsertedKeyFree DEF Inserted
  <1> QED BY <1>1, <1>3, <1>4, <1>5, <1>6, LocalStep DEF TypeOK

LEMMA UpdateStep ==
  ASSUME IInv, NEW r \in Requests, Update(r) PROVE IInv'
  <1>1. /\ job[r].stage = "update" /\ Goto(r, "mirror")
        /\ UNCHANGED <<database, today, failures, announced>>
    BY DEF Update, At
  <1>2. KeyFree(r)
    BY <1>1, InsertedKeyFree DEF Inserted
  <1> QED BY <1>1, <1>2, GotoStep DEF InsertedStages

LEMMA MirrorStep ==
  ASSUME IInv, NEW r \in Requests, Mirror(r) PROVE IInv'
  <1>1. /\ job[r].stage = "mirror" /\ Goto(r, "commit")
        /\ UNCHANGED <<database, today, failures, announced>>
    BY DEF Mirror, At
  <1>2. KeyFree(r)
    BY <1>1, InsertedKeyFree DEF Inserted
  <1> QED BY <1>1, <1>2, GotoStep DEF InsertedStages

LEMMA EmitStep ==
  ASSUME IInv, NEW r \in Requests, Emit(r) PROVE IInv'
  <1>1. /\ TypeOK /\ job[r] \in Job /\ job[r].stage = "emit"
        /\ Become(r, AfterAward(job[r])) /\ UNCHANGED <<database, today, failures>>
    BY DEF Emit, At, IInv, TypeOK
  <1>2. announced' \in [DOMAIN Thresholds -> Nat]
    <2>1. Raised(r) \in LevelRows
      BY <1>1, RaisedTyped DEF RowStages
    <2> QED BY <1>1, <2>1 DEF Emit, TypeOK, LevelRows
  <1> QED BY <1>1, <1>2, AfterAwardTyped, LocalStep DEF InsertedStages, TypeOK

LEMMA CountStep ==
  ASSUME IInv, NEW r \in Requests, Count(r) PROVE IInv'
  <1>1. TypeOK /\ job[r] \in Job /\ JobOK(job[r]) /\ job[r].stage = "count"
        /\ UNCHANGED <<database, today, failures, announced>>
    BY DEF Count, At, IInv, TypeOK
  <1>2. CASE Goto(r, "advance")
    <2> DEFINE j == [job[r] EXCEPT !.stage = "advance"]
    <2>1. Become(r, j) /\ j \in Job /\ j.stage = "advance"
      BY <1>1, <1>2 DEF Goto, Job, Stages
    <2>2. JobOK(j)
      BY <1>1 DEF Job, JobOK, Stages, AwardStages, RowStages
    <2> QED BY <1>1, <2>1, <2>2, LocalStep DEF InsertedStages, TypeOK
  <1>3. CASE Become(r, [job[r] EXCEPT !.part = "daily", !.stage = "check"])
    <2> DEFINE j == [job[r] EXCEPT !.part = "daily", !.stage = "check"]
    <2>1. j \in Job /\ j.stage = "check"
      BY <1>1 DEF Job, Stages, AwardStages
    <2>2. JobOK(j)
      BY <1>1 DEF Job, JobOK, Stages, AwardStages, RowStages
    <2> QED BY <1>1, <1>3, <2>1, <2>2, LocalStep DEF InsertedStages, TypeOK
  <1> QED BY <1>2, <1>3 DEF Count

LEMMA AdvanceStep ==
  ASSUME IInv, NEW r \in Requests, Advance(r) PROVE IInv'
  <1> DEFINE a == Advanced(streak, job[r].day)
  <1>1. TypeOK /\ job[r] \in Job /\ JobOK(job[r]) /\ job[r].stage = "advance"
        /\ UNCHANGED <<database, today, failures, announced>>
    BY DEF Advance, At, IInv, TypeOK
  <1>2. a \in StreakRows
    BY <1>1, AdvancedTyped DEF TypeOK, Job
  <1> HIDE DEF a
  <1>3. CASE streak = NoRow
    <2> DEFINE j == [job[r] EXCEPT !.stage = "save", !.fresh = TRUE, !.streak = a]
    <2>1. Become(r, j)
      BY <1>3 DEF Advance, a
    <2>2. j \in Job /\ j.stage = "save"
      BY <1>1, <1>2 DEF Job, Stages
    <2>3. JobOK(j)
      BY <1>1, <1>2 DEF Job, JobOK, Stages, AwardStages, RowStages
    <2> QED BY <1>1, <2>1, <2>2, <2>3, LocalStep DEF InsertedStages, TypeOK
  <1>4. CASE streak # NoRow
    <2> DEFINE j == [job[r] EXCEPT !.stage = "compareStreak", !.streak = a]
    <2>1. Become(r, j)
      BY <1>4 DEF Advance, a
    <2>2. j \in Job /\ j.stage = "compareStreak"
      BY <1>1, <1>2 DEF Job, Stages
    <2>3. JobOK(j)
      BY <1>1, <1>2, <1>4 DEF Job, JobOK, Stages, AwardStages, RowStages
    <2> QED BY <1>1, <2>1, <2>2, <2>3, LocalStep DEF InsertedStages, TypeOK
  <1> QED BY <1>3, <1>4

LEMMA CompareStreakStep ==
  ASSUME IInv, NEW r \in Requests, CompareStreak(r) PROVE IInv'
  <1> DEFINE columns == {"last"} \union
                          {c \in {"current"} : job[r].streak.current # streak.current}
             j == [job[r] EXCEPT !.stage = "save", !.columns = columns]
  <1>1. /\ TypeOK /\ job[r] \in Job /\ JobOK(job[r]) /\ job[r].stage = "compareStreak"
        /\ Become(r, j) /\ UNCHANGED <<database, today, failures, announced>>
    BY DEF CompareStreak, At, IInv, TypeOK
  <1>2. columns \subseteq StreakColumns
    BY DEF StreakColumns
  <1> HIDE DEF columns
  <1>3. j \in Job /\ j.stage = "save"
    BY <1>1, <1>2 DEF Job, Stages
  <1>4. JobOK(j)
    BY <1>1 DEF Job, JobOK, Stages, AwardStages, RowStages
  <1> QED BY <1>1, <1>3, <1>4, LocalStep DEF InsertedStages, TypeOK

LEMMA FailStep ==
  ASSUME IInv, NEW r \in Requests, Fail(r) PROVE IInv'
  <1>1. Abandon(r) /\ UNCHANGED <<database, today, announced>>
    BY DEF Fail
  <1>2. failures' \in 0 .. MaxFailures
    <2>1. failures \in 0 .. MaxFailures /\ MaxFailures \in Nat
      BY XpAssumption DEF IInv, TypeOK
    <2>2. failures < MaxFailures /\ failures' = failures + 1
      BY DEF Fail
    <2> QED BY <2>1, <2>2
  <1> QED BY <1>1, <1>2, AbandonStep

-----------------------------------------------------------------------------
(* Steps that change a row.                                                *)

LEMMA CommitStep ==
  ASSUME IInv, NEW r \in Requests, Commit(r) PROVE IInv'
  <1>1. /\ TypeOK /\ XpWithinAwards /\ KeysUnique /\ \A s \in Requests : JobOK(job[s])
        /\ job[r] \in Job /\ job[r].stage = "commit"
        /\ UNCHANGED <<streak, today, failures, announced>>
        /\ level' = Saved(r)
        /\ user' = [experience |-> Raised(r).xp, level |-> Raised(r).level]
        /\ awards' = awards \union {[event |-> Event(r), created |-> job[r].began]}
    BY DEF Commit, At, IInv, TypeOK
  <1>2. /\ Raised(r) \in LevelRows /\ Raised(r).xp = job[r].row.xp + Worth(Event(r))
        /\ job[r].row.xp \in Nat /\ Worth(Event(r)) \in Nat
    BY <1>1, RaisedTyped DEF RowStages
  <1>3. Saved(r) \in LevelRows /\ (Saved(r).xp = Raised(r).xp \/ (level # NoRow /\ Saved(r).xp = level.xp))
    BY <1>1, SavedTyped DEF RowStages
  <1>4. KeyFree(r) /\ Event(r) \in Awards
    BY <1>1, InsertedKeyFree, EventTyped DEF Inserted, AwardStages
  <1>5. granted' = granted + Worth(Event(r)) /\ granted \in Nat /\ job[r].row.xp <= granted
    BY <1>1, <1>4 DEF Commit, KeyFree, TypeOK, JobOK, RowStages
  <1>6. /\ job'[r] \in Job /\ job'[r].stage \in {"check", "count", "advance", "done", "emit"}
        /\ job' \in [Requests -> Job] /\ \A s \in Others(r) : s \in Requests /\ job'[s] = job[s]
        /\ JobOK(job[r])'
    <2>1. CASE LeveledUp(r)
      <3> DEFINE j == [job[r] EXCEPT !.stage = "emit"]
      <3>1. Become(r, j)
        BY <2>1 DEF Commit, Goto
      <3>2. j \in Job
        BY <1>1 DEF Job, Stages, AwardStages
      <3>3. job' = [job EXCEPT ![r] = j] /\ job'[r] = j /\ job \in [Requests -> Job]
        BY <1>1, <3>1 DEF Become, TypeOK
      <3>4. level' # NoRow
        BY <1>1, <1>3, XpAssumption
      <3>5. JobOK(job[r])'
        BY <1>1, <1>2, <1>5, <3>3, <3>4 DEF JobOK, RowStages, AwardStages, Stages, Job
      <3> QED BY <3>2, <3>3, <3>5 DEF Others, Job
    <2>2. CASE ~LeveledUp(r)
      <3> DEFINE j == AfterAward(job[r])
      <3>1. Become(r, j)
        BY <2>2 DEF Commit
      <3>2. j \in Job /\ JobOK(j) /\ j.stage \in {"check", "count", "advance", "done"}
        BY <1>1, AfterAwardTyped
      <3> HIDE DEF j
      <3>3. job' = [job EXCEPT ![r] = j] /\ job'[r] = j /\ job \in [Requests -> Job]
        BY <1>1, <3>1 DEF Become, TypeOK
      <3>4. JobOK(job[r])'
        BY <3>2, <3>3 DEF JobOK, RowStages, AwardStages, Stages
      <3> QED BY <3>2, <3>3, <3>4 DEF Others
    <2> QED BY <2>1, <2>2
  <1>7. TypeOK'
    <2>1. [event |-> Event(r), created |-> job[r].began] \in [event : Awards, created : Days]
      BY <1>1, <1>4 DEF Job
    <2>2. user' \in [experience : Nat, level : DOMAIN Thresholds]
      BY <1>1, <1>2 DEF LevelRows
    <2> QED BY <1>1, <1>2, <1>3, <1>5, <1>6, <2>1, <2>2 DEF TypeOK
  <1>8. XpWithinAwards'
    <2>1. Raised(r).xp <= granted + Worth(Event(r))
      BY <1>2, <1>5
    <2>2. level # NoRow => level.xp <= granted + Worth(Event(r))
      BY <1>1, <1>2, <1>5 DEF XpWithinAwards, TypeOK, LevelRows
    <2>3. Saved(r).xp <= granted + Worth(Event(r))
      BY <1>3, <2>1, <2>2
    <2>4. user'.experience = Raised(r).xp
      BY <1>1
    <2> QED BY <1>1, <1>5, <2>1, <2>3, <2>4 DEF XpWithinAwards
  <1>9. KeysUnique'
    <2>1. \A s \in Others(r) : Event(s)' = Event(s) /\ Inserted(s)' = Inserted(s)
      BY <1>6 DEF Event, Inserted
    <2>2. Entered' = Entered \union {Event(r)}
      <3> DEFINE a == [event |-> Event(r), created |-> job[r].began]
      <3>1. a.event = Event(r) /\ awards' = awards \union {a}
        BY <1>1
      <3> HIDE DEF a
      <3> QED BY <3>1 DEF Entered
    <2>3. ~Inserted(r)'
      BY <1>6 DEF Inserted
    <2> QED BY <1>1, <1>4, <1>6, <2>1, <2>2, <2>3 DEF KeysUnique, KeyFree, Others
  <1>10. \A s \in Others(r) : JobOK(job[s])'
    <2> SUFFICES ASSUME NEW s \in Others(r) PROVE JobOK(job[s])'
      OBVIOUS
    <2>1. JobOK(job[s]) /\ job'[s] = job[s] /\ level' # NoRow /\ streak' = streak
      BY <1>1, <1>3, <1>6, XpAssumption
    <2>2. job[s].stage \in RowStages => job[s].row.xp <= granted'
      BY <1>2, <1>5, <2>1 DEF JobOK, LevelRows
    <2> QED BY <2>1, <2>2 DEF JobOK
  <1> QED BY <1>6, <1>7, <1>8, <1>9, <1>10 DEF IInv, Others

LEMMA SaveStreakStep ==
  ASSUME IInv, NEW r \in Requests, SaveStreak(r) PROVE IInv'
  <1>1. /\ TypeOK /\ XpWithinAwards /\ KeysUnique /\ \A s \in Requests : JobOK(job[s])
        /\ job[r] \in Job /\ job[r].stage = "save" /\ job \in [Requests -> Job]
        /\ UNCHANGED <<awards, level, user, granted, today, failures, announced>>
    BY DEF SaveStreak, At, IInv, TypeOK
  <1>2. CASE Abandon(r) /\ UNCHANGED streak
    <2>1. failures' \in 0 .. MaxFailures
      BY <1>1 DEF TypeOK
    <2> QED BY <1>1, <1>2, <2>1, AbandonStep DEF database
  <1>3. CASE ~ (job[r].fresh /\ streak # NoRow)
    <2>1. streak' = SavedStreak(r) /\ job[r].streak \in StreakRows
      BY <1>1, <1>3 DEF SaveStreak, JobOK
    <2>2. SavedStreak(r) \in StreakRows
      <3>1. CASE job[r].fresh \/ "current" \in job[r].columns
        BY <2>1, <3>1 DEF SavedStreak
      <3>2. CASE ~ (job[r].fresh \/ "current" \in job[r].columns)
        <4>1. streak \in StreakRows
          BY <1>1, <3>2 DEF JobOK, TypeOK
        <4> QED BY <2>1, <3>2, <4>1 DEF SavedStreak, StreakRows
      <3> QED BY <3>1, <3>2
    <2>3. streak' \in StreakRows /\ streak' # NoRow
      BY <2>1, <2>2, XpAssumption
    <2>4. PICK j \in Job : /\ job' = [job EXCEPT ![r] = j] /\ j.stage \in {"check", "done"}
                           /\ JobOK(j)
      <3>1. CASE job[r].streak.current \in DOMAIN Milestones
        <4> DEFINE j == [job[r] EXCEPT !.part = "streak", !.stage = "check", !.columns = {}]
        <4>1. Become(r, j)
          BY <1>3, <3>1 DEF SaveStreak
        <4>2. j \in Job /\ j.stage = "check" /\ j.part = "streak" /\ j.streak = job[r].streak
          BY <1>1 DEF Job, Stages, AwardStages
        <4>3. JobOK(j)
          BY <2>1, <3>1, <4>2 DEF JobOK, RowStages
        <4> QED BY <4>1, <4>2, <4>3 DEF Become
      <3>2. CASE job[r].streak.current \notin DOMAIN Milestones
        <4>1. Become(r, Over(job[r], "done"))
          BY <1>3, <3>2 DEF SaveStreak
        <4> QED BY <1>1, <4>1, OverTyped DEF Become, Ended
      <3> QED BY <3>1, <3>2
    <2>5. /\ job'[r] = j /\ job' \in [Requests -> Job]
          /\ \A s \in Others(r) : s \in Requests /\ job'[s] = job[s]
      BY <1>1, <2>4 DEF Others
    <2>6. TypeOK' /\ XpWithinAwards'
      BY <1>1, <2>3, <2>5 DEF TypeOK, XpWithinAwards
    <2>7. JobOK(job[r])'
      BY <2>4, <2>5 DEF JobOK, RowStages
    <2>8. \A s \in Others(r) : JobOK(job[s])'
      BY <1>1, <2>3, <2>5 DEF JobOK
    <2>9. KeysUnique'
      <3>1. \A s \in Others(r) : Event(s)' = Event(s) /\ Inserted(s)' = Inserted(s)
        BY <2>5 DEF Event, Inserted
      <3>2. Entered' = Entered /\ ~Inserted(r)'
        BY <1>1, <2>4, <2>5 DEF Entered, Inserted
      <3> QED BY <1>1, <2>5, <3>1, <3>2 DEF KeysUnique, Others
    <2> QED BY <2>6, <2>7, <2>8, <2>9 DEF IInv, Others
  <1> QED BY <1>2, <1>3 DEF SaveStreak

LEMMA GetMyLevelStep ==
  ASSUME IInv, GetMyLevel PROVE IInv'
  <1>1. /\ TypeOK /\ XpWithinAwards /\ KeysUnique /\ \A s \in Requests : JobOK(job[s])
        /\ level' = LevelRow(0)
        /\ UNCHANGED <<job, awards, user, streak, granted, today, failures, announced>>
    BY DEF GetMyLevel, IInv
  <1>2. level' \in LevelRows /\ level'.xp = 0 /\ level' # NoRow
    BY <1>1, LevelRowTyped, XpAssumption
  <1>3. TypeOK' /\ XpWithinAwards'
    BY <1>1, <1>2 DEF TypeOK, XpWithinAwards
  <1>4. \A s \in Requests : JobOK(job[s])'
    BY <1>1, <1>2 DEF JobOK
  <1>5. KeysUnique'
    BY <1>1 DEF KeysUnique, Inserted, Event, Entered
  <1> QED BY <1>3, <1>4, <1>5 DEF IInv

LEMMA NextDayStep ==
  ASSUME IInv, NextDay PROVE IInv'
  <1>1. today' \in Days
    <2>1. today \in Days /\ today < MaxDay /\ today' = today + 1 /\ MaxDay \in Nat
      BY XpAssumption DEF NextDay, IInv, TypeOK
    <2> QED BY <2>1 DEF Days
  <1>2. UNCHANGED <<job, database, failures, announced>>
    BY DEF NextDay
  <1> QED BY <1>1, <1>2 DEF IInv, TypeOK, XpWithinAwards, KeysUnique, JobOK, Inserted, Event,
                            Entered, database

-----------------------------------------------------------------------------
LEMMA InitIInv ==
  Init => IInv
  <1> SUFFICES ASSUME Init PROVE IInv
    OBVIOUS
  <1>1. 1 \in Days /\ 1 \in DOMAIN Thresholds
    BY XpAssumption DEF Days
  <1>2. NewJob \in Job /\ NewJob.stage = "new"
    BY <1>1 DEF NewJob, Job
  <1>3. TypeOK
    BY <1>1, <1>2, XpAssumption DEF Init, TypeOK
  <1>4. XpWithinAwards
    BY DEF Init, XpWithinAwards
  <1>5. \A r \in Requests : JobOK(job[r])
    BY <1>2 DEF Init, JobOK, Stages, AwardStages, RowStages
  <1>6. KeysUnique
    BY <1>2 DEF Init, KeysUnique, Inserted, Others
  <1> QED BY <1>3, <1>4, <1>5, <1>6 DEF IInv

LEMMA NextIInv ==
  IInv /\ [Next]_vars => IInv'
  <1> SUFFICES ASSUME IInv, [Next]_vars PROVE IInv'
    OBVIOUS
  <1>1. CASE UNCHANGED vars
    BY <1>1 DEF vars, database, IInv, TypeOK, XpWithinAwards, KeysUnique, JobOK, Inserted,
                Event, Entered
  <1>2. ASSUME NEW r \in Requests, Proceed(r) PROVE IInv'
    BY <1>2, CheckStep, LoadStep, CreateStep, InsertStep, CompareStep, UpdateStep, MirrorStep,
       CommitStep, EmitStep, CountStep, AdvanceStep, CompareStreakStep, SaveStreakStep
       DEF Proceed
  <1>3. ASSUME NEW r \in Requests, SolvePuzzle(r) \/ CallAward(r) \/ Fail(r) PROVE IInv'
    BY <1>3, SolvePuzzleStep, CallAwardStep, FailStep
  <1> QED BY <1>1, <1>2, <1>3, GetMyLevelStep, NextDayStep DEF Next

\* What every request knows of the rows it has read, and the unique index, hold in every
\* reachable state: the strengthening the two theorems after it follow from.
THEOREM InductiveInvariant == Spec => []IInv
  <1> QED BY InitIInv, NextIInv, PTL DEF Spec

\* The rows, the requests and the counters keep their types; in particular the way to
\* the next level is never negative.
THEOREM TypeCorrect == Spec => []TypeOK
  <1>1. IInv => TypeOK
    BY DEF IInv
  <1> QED BY <1>1, InductiveInvariant, PTL

\* However requests overlap, repeat and fail, neither row exceeds the sum of the awards.
THEOREM NoXpFromNowhere == Spec => []XpWithinAwards
  <1>1. IInv => XpWithinAwards
    BY DEF IInv
  <1> QED BY <1>1, InductiveInvariant, PTL

-----------------------------------------------------------------------------
(* The locks of overlapping requests.                                      *)

\* What Create, Insert, Update and Mirror wait for: the end of another transaction.
WaitsFor(r, s) ==
  \/ At(r, "create") /\ HoldsLevel(s)
  \/ At(r, "insert") /\ HoldsKey(s, Event(r))
  \/ At(r, "update") /\ job[r].columns # {} /\ HoldsLevel(s)
  \/ At(r, "mirror") /\ HoldsUser(s)

Blocked(r) == \E s \in Others(r) : WaitsFor(r, s)

\* The statements that wait or keep others waiting, in the order of awardXp.
LockOrder == <<"create", "insert", "compare", "update", "mirror", "commit">>

\* s is further on in its transaction than r.
FurtherOn(s, r) ==
  \E i, j \in DOMAIN LockOrder : i < j /\ At(r, LockOrder[i]) /\ At(s, LockOrder[j])

\* Whoever waits, waits for a request that is further on: the waits have no cycle.
WaitsGoForward ==
  \A r \in Requests : \A s \in Others(r) : WaitsFor(r, s) => FurtherOn(s, r)

\* As long as requests are in flight, one of them waits for nobody.
SomebodyProceeds == InFlight # {} => \E r \in InFlight : ~Blocked(r)

\* The player's row that a transaction has inserted is nobody else's yet.
HoldsNew(r) == job[r].created /\ (At(r, "insert") \/ Inserted(r))

\* Only one transaction inserts the player's row, and as long as it is open the others
\* have found none, so that none of them has entered an award.
NewRow ==
  \A r \in Requests :
    /\ job[r].created => job[r].stage \in RowStages
    /\ HoldsNew(r) => level = NoRow
    /\ \A s \in Others(r) : ~(HoldsNew(r) /\ HoldsNew(s))

\* One request goes on, and creates no row; the level stays.
LEMMA NewRowLocal ==
  ASSUME IInv, NewRow, NEW r \in Requests, NEW j, Become(r, j), UNCHANGED level,
         ~j.created \/ (job[r].created /\ job[r].stage \in {"insert"} \union InsertedStages
                        /\ j.stage \in RowStages)
  PROVE  NewRow'
  <1>1. /\ job'[r] = j
        /\ \A s \in Others(r) : s \in Requests /\ job'[s] = job[s]
    BY DEF IInv, TypeOK, Become, Others
  <1>2. HoldsNew(r)' => HoldsNew(r)
    BY <1>1 DEF HoldsNew, At, Inserted, InsertedStages
  <1>3. \A s \in Others(r) : HoldsNew(s)' <=> HoldsNew(s)
    BY <1>1 DEF HoldsNew, At, Inserted
  <1>4. \A s \in Requests : job'[s].created => job'[s].stage \in RowStages
    BY <1>1 DEF NewRow, Others
  <1>5. \A s \in Requests : HoldsNew(s)' => HoldsNew(s)
    BY <1>2, <1>3 DEF Others
  <1> QED BY <1>4, <1>5 DEF NewRow, Others

\* A request that creates the row finds none, and no open transaction with one.
LEMMA CreateNewRow ==
  ASSUME IInv, NewRow, NEW r \in Requests, Create(r) PROVE NewRow'
  <1>1. job[r] \in Job /\ job[r].stage = "create" /\ UNCHANGED level
        /\ \A s \in Others(r) : ~HoldsLevel(s)
    BY DEF Create, At, IInv, TypeOK, database
  <1>2. CASE level = NoRow
    <2> DEFINE j == [job[r] EXCEPT !.stage = "insert", !.row = LevelRow(0), !.created = TRUE]
    <2>1. Become(r, j)
      BY <1>2 DEF Create
    <2>2. /\ job'[r].created /\ job'[r].stage = "insert"
          /\ \A s \in Others(r) : s \in Requests /\ job'[s] = job[s]
      BY <1>1, <2>1 DEF IInv, TypeOK, Become, Others, Job
    <2>3. \A s \in Others(r) : ~HoldsNew(s) /\ ~HoldsNew(s)'
      BY <1>1, <2>2 DEF HoldsLevel, HoldsNew, At, Inserted
    <2>4. \A s \in Requests : job'[s].created => job'[s].stage \in RowStages
      BY <2>2 DEF NewRow, Others, RowStages
    <2>5. \A s \in Requests : HoldsNew(s)' => s = r
      BY <2>3 DEF Others
    <2> QED BY <1>1, <1>2, <2>3, <2>4, <2>5 DEF NewRow, Others
  <1>3. CASE level # NoRow
    <2>1. Become(r, Over(job[r], "failed"))
      BY <1>3 DEF Create, Abandon
    <2>2. ~Over(job[r], "failed").created
      BY <1>1, OverTyped DEF Ended
    <2> QED BY <1>1, <2>1, <2>2, NewRowLocal
  <1> QED BY <1>2, <1>3

\* A commit makes the row visible: its transaction was the only one with a new row.
LEMMA CommitNewRow ==
  ASSUME IInv, NewRow, NEW r \in Requests, Commit(r) PROVE NewRow'
  <1>1. job[r] \in Job /\ job[r].stage = "commit" /\ JobOK(job[r])
    BY DEF Commit, At, IInv, TypeOK
  <1>2. /\ job'[r].stage \notin {"insert"} \union InsertedStages
        /\ job'[r].created => job'[r].stage \in RowStages
        /\ \A s \in Others(r) : s \in Requests /\ job'[s] = job[s]
    <2>1. CASE LeveledUp(r)
      <3>1. job' = [job EXCEPT ![r] = [job[r] EXCEPT !.stage = "emit"]]
        BY <2>1 DEF Commit, Goto, Become
      <3> QED BY <1>1, <3>1 DEF IInv, TypeOK, Others, InsertedStages, RowStages, Job
    <2>2. CASE ~LeveledUp(r)
      <3> DEFINE j == AfterAward(job[r])
      <3>1. job' = [job EXCEPT ![r] = j]
        BY <2>2 DEF Commit, Become
      <3>2. j.stage \in {"check", "count", "advance", "done"} /\ ~j.created
        BY <1>1, AfterAwardTyped
      <3> HIDE DEF j
      <3> QED BY <3>1, <3>2 DEF IInv, TypeOK, Others, InsertedStages
    <2> QED BY <2>1, <2>2
  <1>3. ASSUME NEW s \in Others(r), HoldsNew(s) PROVE FALSE
    <2>1. level = NoRow /\ ~HoldsNew(r) /\ s \in Requests
      BY <1>3 DEF NewRow, Others
    <2>2. job[r].created
      BY <1>1, <2>1 DEF JobOK, RowStages
    <2> QED BY <1>1, <2>1, <2>2 DEF HoldsNew, Inserted
  <1>4. \A s \in Others(r) : ~HoldsNew(s)'
    BY <1>2, <1>3 DEF HoldsNew, At, Inserted
  <1>5. ~HoldsNew(r)'
    BY <1>2 DEF HoldsNew, At, Inserted, InsertedStages
  <1>6. \A s \in Requests : job'[s].created => job'[s].stage \in RowStages
    BY <1>2 DEF NewRow, Others
  <1>7. \A s \in Requests : ~HoldsNew(s)'
    BY <1>4, <1>5 DEF Others
  <1> QED BY <1>6, <1>7 DEF NewRow

LEMMA NextNewRow ==
  IInv /\ NewRow /\ [Next]_vars => NewRow'
  <1> SUFFICES ASSUME IInv, NewRow, [Next]_vars PROVE NewRow'
    OBVIOUS
  <1>1. CASE UNCHANGED vars
    BY <1>1 DEF vars, database, NewRow, HoldsNew, At, Inserted
  <1>2. CASE GetMyLevel
    <2>1. \A r \in Requests : ~HoldsNew(r)
      BY <1>2 DEF GetMyLevel, HoldsLevel, HoldsNew
    <2> QED BY <1>2, <2>1 DEF GetMyLevel, NewRow, HoldsNew, At, Inserted
  <1>3. CASE NextDay
    BY <1>3 DEF NextDay, database, NewRow, HoldsNew, At, Inserted
  <1>4. ASSUME NEW r \in Requests, SolvePuzzle(r) \/ CallAward(r) PROVE NewRow'
    <2>1. UNCHANGED level
      BY <1>4 DEF SolvePuzzle, CallAward, database
    <2>2. CASE SolvePuzzle(r)
      <3>1. PICK noHints \in BOOLEAN :
              Become(r, [NewJob EXCEPT !.stage = "check", !.noHints = noHints, !.day = today])
        BY <2>2 DEF SolvePuzzle
      <3> DEFINE j == [NewJob EXCEPT !.stage = "check", !.noHints = noHints, !.day = today]
      <3>2. Become(r, j) /\ ~j.created
        BY <3>1 DEF NewJob
      <3> QED BY <2>1, <3>2, NewRowLocal
    <2>3. CASE CallAward(r)
      <3>1. PICK e \in ApiEvents :
              Become(r, [NewJob EXCEPT !.stage = "check", !.part = "api", !.api = e, !.day = today])
        BY <2>3 DEF CallAward
      <3> DEFINE j == [NewJob EXCEPT !.stage = "check", !.part = "api", !.api = e, !.day = today]
      <3>2. Become(r, j) /\ ~j.created
        BY <3>1 DEF NewJob
      <3> QED BY <2>1, <3>2, NewRowLocal
    <2> QED BY <1>4, <2>2, <2>3
  <1>5. ASSUME NEW r \in Requests, Abandon(r), UNCHANGED level PROVE NewRow'
    <2>1. Become(r, Over(job[r], "failed")) /\ job[r] \in Job
      BY <1>5 DEF Abandon, IInv, TypeOK
    <2>2. ~Over(job[r], "failed").created
      BY <2>1, OverTyped DEF Ended
    <2> QED BY <1>5, <2>1, <2>2, NewRowLocal
  <1>6. ASSUME NEW r \in Requests, Become(r, AfterAward(job[r])), UNCHANGED level PROVE NewRow'
    <2>1. ~AfterAward(job[r]).created
      BY AfterAwardTyped DEF IInv, TypeOK
    <2> QED BY <1>6, <2>1, NewRowLocal
  <1>7. ASSUME NEW r \in Requests,
               Load(r) \/ Count(r) \/ Advance(r) \/ CompareStreak(r)
        PROVE  NewRow'
    <2>1. ~job[r].created /\ UNCHANGED level /\ job[r] \in Job
      BY <1>7 DEF Load, Count, Advance, CompareStreak, At, NewRow, RowStages, database, IInv,
                  TypeOK
    <2>2. ASSUME NEW stage, Goto(r, stage) PROVE NewRow'
      <3> DEFINE j == [job[r] EXCEPT !.stage = stage]
      <3>1. Become(r, j) /\ ~j.created
        BY <2>1, <2>2 DEF Goto, Job
      <3> QED BY <2>1, <3>1, NewRowLocal
    <2>3. CASE Load(r)
      <3> DEFINE j == [job[r] EXCEPT !.stage = "insert", !.row = level]
      <3>1. Goto(r, "create") \/ Become(r, j)
        BY <2>3 DEF Load
      <3>2. ~j.created
        BY <2>1 DEF Job
      <3> QED BY <2>1, <2>2, <3>1, <3>2, NewRowLocal
    <2>4. CASE Count(r)
      <3> DEFINE j == [job[r] EXCEPT !.part = "daily", !.stage = "check"]
      <3>1. Goto(r, "advance") \/ Become(r, j)
        BY <2>4 DEF Count
      <3>2. ~j.created
        BY <2>1 DEF Job
      <3> QED BY <2>1, <2>2, <3>1, <3>2, NewRowLocal
    <2>5. CASE Advance(r)
      <3> DEFINE a == Advanced(streak, job[r].day)
                 j == [job[r] EXCEPT !.stage = "save", !.fresh = TRUE, !.streak = a]
                 k == [job[r] EXCEPT !.stage = "compareStreak", !.streak = a]
      <3>1. Become(r, j) \/ Become(r, k)
        BY <2>5 DEF Advance
      <3>2. ~j.created /\ ~k.created
        BY <2>1 DEF Job
      <3> QED BY <2>1, <3>1, <3>2, NewRowLocal
    <2>6. CASE CompareStreak(r)
      <3> DEFINE columns == {"last"} \union
                              {c \in {"current"} : job[r].streak.current # streak.current}
                 j == [job[r] EXCEPT !.stage = "save", !.columns = columns]
      <3>1. Become(r, j)
        BY <2>6 DEF CompareStreak
      <3>2. ~j.created
        BY <2>1 DEF Job
      <3> QED BY <2>1, <3>1, <3>2, NewRowLocal
    <2> QED BY <1>7, <2>3, <2>4, <2>5, <2>6
  <1>8. ASSUME NEW r \in Requests, Check(r) PROVE NewRow'
    <2>1. ~job[r].created /\ UNCHANGED level /\ job[r] \in Job
      BY <1>8 DEF Check, At, NewRow, RowStages, database, IInv, TypeOK
    <2>2. CASE Event(r) \in Entered
      BY <1>6, <1>8, <2>1, <2>2 DEF Check
    <2>3. CASE Event(r) \notin Entered
      <3> DEFINE j == [job[r] EXCEPT !.stage = "load", !.began = today]
      <3>1. Become(r, j) /\ ~j.created
        BY <1>8, <2>1, <2>3 DEF Check, Job
      <3> QED BY <2>1, <3>1, NewRowLocal
    <2> QED BY <2>2, <2>3
  <1>9. ASSUME NEW r \in Requests, Compare(r) \/ Update(r) \/ Mirror(r) \/ Insert(r) PROVE NewRow'
    <2>1. /\ job[r].stage \in {"insert"} \union InsertedStages
          /\ UNCHANGED level /\ job[r] \in Job
      BY <1>9 DEF Compare, Update, Mirror, Insert, At, InsertedStages, database, IInv, TypeOK
    <2>2. CASE Abandon(r)
      BY <1>5, <2>1, <2>2
    <2>3. CASE ~Abandon(r)
      <3>1. PICK j : Become(r, j) /\ j.created = job[r].created /\ j.stage \in RowStages
        <4>1. CASE Compare(r)
          <5> DEFINE j == [job[r] EXCEPT !.stage = "update", !.columns = Changed(r)]
          <5>1. Become(r, j)
            BY <4>1 DEF Compare
          <5>2. j.created = job[r].created /\ j.stage \in RowStages
            BY <2>1 DEF Job, RowStages
          <5> HIDE DEF j
          <5> QED BY <5>1, <5>2
        <4>2. CASE Update(r)
          BY <2>1, <4>2 DEF Update, Goto, Job, RowStages
        <4>3. CASE Mirror(r)
          BY <2>1, <4>3 DEF Mirror, Goto, Job, RowStages
        <4>4. CASE Insert(r)
          BY <2>1, <2>3, <4>4 DEF Insert, Goto, Job, RowStages
        <4> QED BY <1>9, <4>1, <4>2, <4>3, <4>4
      <3>2. j.created \in BOOLEAN
        BY <2>1, <3>1 DEF Job
      <3> QED BY <2>1, <3>1, <3>2, NewRowLocal
    <2> QED BY <2>2, <2>3
  <1>10. ASSUME NEW r \in Requests, SaveStreak(r) PROVE NewRow'
    <2>1. ~job[r].created /\ UNCHANGED level /\ job[r] \in Job
      BY <1>10 DEF SaveStreak, At, NewRow, RowStages, IInv, TypeOK
    <2>2. CASE Abandon(r)
      BY <1>5, <2>1, <2>2
    <2>3. CASE ~Abandon(r)
      <3>1. PICK j : Become(r, j) /\ ~j.created
        <4> DEFINE j == [job[r] EXCEPT !.part = "streak", !.stage = "check", !.columns = {}]
        <4>1. ~j.created /\ ~Over(job[r], "done").created
          BY <2>1, OverTyped DEF Job, Ended
        <4>2. Become(r, j) \/ Become(r, Over(job[r], "done"))
          BY <1>10, <2>3 DEF SaveStreak
        <4> HIDE DEF j
        <4> QED BY <4>1, <4>2
      <3> QED BY <2>1, <3>1, NewRowLocal
    <2> QED BY <2>2, <2>3
  <1>11. ASSUME NEW r \in Requests, Emit(r) PROVE NewRow'
    BY <1>6, <1>11 DEF Emit, database
  <1>12. ASSUME NEW r \in Requests, Fail(r) PROVE NewRow'
    BY <1>5, <1>12 DEF Fail, database
  <1>13. ASSUME NEW r \in Requests, Proceed(r) PROVE NewRow'
    BY <1>7, <1>8, <1>9, <1>10, <1>11, <1>13, CreateNewRow, CommitNewRow DEF Proceed
  <1> QED BY <1>1, <1>2, <1>3, <1>4, <1>12, <1>13 DEF Next

\* Who waits for the player's row to write it has found it, so it waits for an update.
LEMMA OrderOfWaits ==
  IInv /\ NewRow => WaitsGoForward
  <1> SUFFICES ASSUME IInv, NewRow, NEW r \in Requests, NEW s \in Others(r), WaitsFor(r, s)
               PROVE  FurtherOn(s, r)
    BY DEF WaitsGoForward
  <1>1. ASSUME NEW i \in 1 .. 6, NEW j \in 1 .. 6, i < j, At(r, LockOrder[i]), At(s, LockOrder[j])
        PROVE  FurtherOn(s, r)
    BY <1>1 DEF FurtherOn, LockOrder
  <1>2. CASE At(r, "create") /\ HoldsLevel(s)
    <2>1. job[s].stage \in {"insert", "compare", "update", "mirror", "commit"}
      BY <1>2 DEF HoldsLevel, At, Inserted
    <2> QED BY <1>1, <1>2, <2>1 DEF LockOrder, At
  <1>3. CASE At(r, "insert") /\ HoldsKey(s, Event(r))
    <2>1. job[s].stage \in {"compare", "update", "mirror", "commit"}
      BY <1>3 DEF HoldsKey, Inserted
    <2> QED BY <1>1, <1>3, <2>1 DEF LockOrder, At
  <1>4. CASE At(r, "update") /\ job[r].columns # {} /\ HoldsLevel(s)
    <2>1. ~HoldsNew(s)
      <3>1. SUFFICES ASSUME HoldsNew(s) PROVE FALSE
        OBVIOUS
      <3>2. level = NoRow /\ ~HoldsNew(r) /\ s \in Requests
        BY <3>1 DEF NewRow, Others
      <3>3. job[r].created
        BY <1>4, <3>2 DEF IInv, JobOK, At, RowStages
      <3> QED BY <1>4, <3>2, <3>3 DEF HoldsNew, At, Inserted
    <2>2. job[s].stage \in {"mirror", "commit"}
      BY <1>4, <2>1 DEF HoldsLevel, HoldsNew
    <2> QED BY <1>1, <1>4, <2>2 DEF LockOrder, At
  <1>5. CASE At(r, "mirror") /\ HoldsUser(s)
    BY <1>1, <1>5 DEF LockOrder, At, HoldsUser
  <1> QED BY <1>2, <1>3, <1>4, <1>5 DEF WaitsFor

\* The request that is furthest on waits for nobody.
LEMMA FurthestProceeds ==
  WaitsGoForward => SomebodyProceeds
  <1> SUFFICES ASSUME WaitsGoForward, InFlight # {} PROVE \E r \in InFlight : ~Blocked(r)
    BY DEF SomebodyProceeds
  <1> DEFINE Reached(i) == \E s \in Requests : At(s, LockOrder[i])
  <1>1. ASSUME NEW i \in 1 .. 6, Reached(i), \A j \in 1 .. 6 : i < j => ~Reached(j)
        PROVE  \E r \in InFlight : ~Blocked(r)
    <2>1. PICK r \in Requests : At(r, LockOrder[i])
      BY <1>1
    <2>2. r \in InFlight
      BY <2>1 DEF InFlight, At, LockOrder, Stages, AwardStages
    <2>3. ASSUME Blocked(r) PROVE FALSE
      <3>1. PICK s \in Others(r) : FurtherOn(s, r)
        BY <2>3 DEF Blocked, WaitsGoForward
      <3>2. PICK k \in 1 .. 6, j \in 1 .. 6 : k < j /\ At(r, LockOrder[k]) /\ At(s, LockOrder[j])
        BY <3>1 DEF FurtherOn, LockOrder
      <3>3. k = i
        BY <2>1, <3>2 DEF At, LockOrder
      <3> QED BY <1>1, <3>2, <3>3 DEF Others
    <2> QED BY <2>2, <2>3
  <1>2. CASE \A i \in 1 .. 6 : ~Reached(i)
    <2>1. PICK r \in InFlight : TRUE
      OBVIOUS
    <2>2. r \in Requests
      BY DEF InFlight
    <2>3. ~At(r, "create") /\ ~At(r, "insert") /\ ~At(r, "update") /\ ~At(r, "mirror")
      BY <1>2, <2>2 DEF LockOrder
    <2> QED BY <2>3 DEF Blocked, WaitsFor
  <1>3. CASE \E i \in 1 .. 6 : Reached(i)
    <2> DEFINE S == {i \in 1 .. 6 : Reached(i)}
    <2>1. S \in SUBSET (1 .. 6) /\ S # {}
      BY <1>3
    <2>2. PICK i \in S : \A j \in S : j <= i
      BY <2>1, LastExists
    <2>3. i \in 1 .. 6 /\ Reached(i) /\ \A j \in 1 .. 6 : i < j => ~Reached(j)
      BY <2>2
    <2> HIDE DEF Reached, S
    <2> QED BY <1>1, <2>3
  <1> QED BY <1>2, <1>3

\* The locks form an order: the player's new row before the key of the award, the key
\* before the row that others see, the row before that of users.  A request only ever
\* waits for one that is further on.
THEOREM LocksAreOrdered == Spec => []WaitsGoForward
  <1>1. Init => NewRow
    BY DEF Init, NewJob, NewRow, HoldsNew, Others
  <1> QED BY <1>1, NextNewRow, OrderOfWaits, InductiveInvariant, PTL DEF Spec

\* However many requests overlap, repeat and fail, they never all wait for each other:
\* the state formula behind EveryRequestEnds.
THEOREM NoDeadlock == Spec => []SomebodyProceeds
  <1> QED BY LocksAreOrdered, FurthestProceeds, PTL

-----------------------------------------------------------------------------
(* What is left to do for a request.                                       *)

\* The steps of an award, from each of its stages.
StepsOf(stage) ==
  CASE stage = "check" -> 9 [] stage = "load" -> 8 [] stage = "create" -> 7
    [] stage = "insert" -> 6 [] stage = "compare" -> 5 [] stage = "update" -> 4
    [] stage = "mirror" -> 3 [] stage = "commit" -> 2 [] stage = "emit" -> 1

\* Those that may follow an award.
StepsAfter(part) ==
  CASE part = "base" -> 40 [] part = "nohints" -> 30 [] part = "daily" -> 20
    [] part \in {"streak", "api"} -> 0

\* The steps a request may still take.
Remaining(j) ==
  CASE j.stage \in AwardStages -> StepsAfter(j.part) + StepsOf(j.stage)
    [] j.stage = "count" -> 30 [] j.stage = "advance" -> 20
    [] j.stage = "compareStreak" -> 19 [] j.stage = "save" -> 18
    [] j.stage \in Ended -> 0
    [] j.stage = "new" -> 50

\* Whatever happens to a request brings it nearer to its end.
Progress == \A r \in Requests : job'[r] # job[r] => Remaining(job'[r]) < Remaining(job[r])

LEMMA AwardRemaining ==
  ASSUME NEW j \in Job, j.stage \in AwardStages
  PROVE  /\ Remaining(j) = StepsAfter(j.part) + StepsOf(j.stage)
         /\ StepsAfter(j.part) \in {0, 20, 30, 40} /\ StepsOf(j.stage) \in 1 .. 9
  <1>1. StepsAfter(j.part) \in {0, 20, 30, 40}
    BY DEF StepsAfter, Job
  <1>2. StepsOf(j.stage) \in 1 .. 9
    BY DEF StepsOf, AwardStages
  <1>3. Remaining(j) = StepsAfter(j.part) + StepsOf(j.stage)
    BY DEF Remaining, AwardStages, Ended
  <1> QED BY <1>1, <1>2, <1>3

\* What is left, by the stage and the part.
LEMMA RemainingIs ==
  ASSUME NEW j
  PROVE  /\ j.stage = "count" => Remaining(j) = 30
         /\ j.stage = "advance" => Remaining(j) = 20
         /\ j.stage = "compareStreak" => Remaining(j) = 19
         /\ j.stage = "save" => Remaining(j) = 18
         /\ j.stage = "check" /\ j.part = "base" => Remaining(j) = 49
         /\ j.stage = "check" /\ j.part = "daily" => Remaining(j) = 29
         /\ j.stage = "check" /\ j.part \in {"streak", "api"} => Remaining(j) = 9
         /\ j.stage \in Ended => Remaining(j) = 0
         /\ j.stage = "new" => Remaining(j) = 50
  <1>1. CASE j.stage = "check"
    BY <1>1 DEF Remaining, AwardStages, Ended, StepsAfter, StepsOf
  <1>2. CASE j.stage # "check"
    BY <1>2 DEF Remaining, AwardStages, Ended
  <1> QED BY <1>1, <1>2

LEMMA OverRemaining ==
  ASSUME NEW j \in Job, NEW how \in Ended PROVE Remaining(Over(j, how)) = 0
  BY OverTyped, RemainingIs

LEMMA AfterAwardRemaining ==
  ASSUME NEW j \in Job, j.stage \in AwardStages
  PROVE  Remaining(AfterAward(j)) < Remaining(j)
  <1> DEFINE k == AfterAward(j)
  <1>a. SUFFICES Remaining(k) < Remaining(j)
    OBVIOUS
  <1>1. Remaining(j) \in Nat /\ Remaining(j) > StepsAfter(j.part) /\ StepsAfter(j.part) \in Nat
    BY AwardRemaining
  <1>2. k \in Job
    BY AfterAwardTyped
  <1>3. CASE j.part = "base" /\ j.noHints
    <2>1. k.part = "nohints" /\ k.stage = "check"
      BY <1>3 DEF AfterAward, Job
    <2>2. Remaining(k) = StepsAfter("nohints") + StepsOf("check")
      BY <1>2, <2>1, AwardRemaining DEF AwardStages
    <2> QED BY <1>1, <1>3, <2>2 DEF StepsAfter, StepsOf
  <1>4. CASE j.part = "nohints" \/ (j.part = "base" /\ ~j.noHints)
    <2>1. k.stage = "count"
      BY <1>4 DEF AfterAward, Job
    <2>2. Remaining(k) = 30
      BY <2>1, RemainingIs
    <2>3. StepsAfter(j.part) >= 30
      BY <1>4 DEF StepsAfter
    <2> HIDE DEF k
    <2> QED BY <1>1, <2>2, <2>3
  <1>5. CASE j.part = "daily"
    <2>1. k.stage = "advance"
      BY <1>5 DEF AfterAward, Job
    <2>2. Remaining(k) = 20
      BY <2>1, RemainingIs
    <2>3. StepsAfter(j.part) = 20
      BY <1>5 DEF StepsAfter
    <2> HIDE DEF k
    <2> QED BY <1>1, <2>2, <2>3
  <1>6. CASE j.part \in {"streak", "api"}
    <2>1. k = Over(j, "done")
      BY <1>6 DEF AfterAward
    <2>2. Remaining(k) = 0
      BY <2>1, OverRemaining DEF Ended
    <2> HIDE DEF k
    <2> QED BY <1>1, <2>2
  <1> QED BY <1>3, <1>4, <1>5, <1>6 DEF Job

LEMMA StepProgress ==
  ASSUME IInv, NEW r \in Requests, NEW j, Become(r, j), Remaining(j) < Remaining(job[r])
  PROVE  Progress
  BY DEF IInv, TypeOK, Become, Progress

\* A request in flight has steps left, and gives them up when it fails.
LEMMA AbandonProgress ==
  ASSUME IInv, NEW r \in Requests, r \in InFlight, Abandon(r) PROVE Progress
  <1>1. job[r] \in Job /\ job[r].stage \in Stages
    BY DEF IInv, TypeOK, InFlight
  <1>2. Remaining(job[r]) > 0
    <2>1. CASE job[r].stage \in AwardStages
      BY <1>1, <2>1, AwardRemaining
    <2>2. CASE job[r].stage \notin AwardStages
      BY <1>1, <2>2 DEF Stages, Remaining, AwardStages, Ended
    <2> QED BY <2>1, <2>2
  <1>3. Remaining(Over(job[r], "failed")) = 0
    BY <1>1, OverRemaining DEF Ended
  <1> QED BY <1>2, <1>3, StepProgress DEF Abandon

\* The next stage of the same award.
LEMMA WithinAwardProgress ==
  ASSUME IInv, NEW r \in Requests, NEW j \in Job, Become(r, j), job[r].stage \in AwardStages,
         j.stage \in AwardStages, j.part = job[r].part, StepsOf(j.stage) < StepsOf(job[r].stage)
  PROVE  Progress
  <1>1. job[r] \in Job
    BY DEF IInv, TypeOK
  <1>2. Remaining(j) < Remaining(job[r])
    BY <1>1, AwardRemaining
  <1> QED BY <1>2, StepProgress

LEMMA AwardProgress ==
  ASSUME IInv, NEW r \in Requests,
         Check(r) \/ Load(r) \/ Create(r) \/ Insert(r) \/ Compare(r) \/ Update(r) \/ Mirror(r)
           \/ Commit(r) \/ Emit(r)
  PROVE  Progress
  <1>1. /\ job[r] \in Job /\ today \in Days /\ level \in LevelRows \union {NoRow}
        /\ job[r].stage \in AwardStages /\ r \in InFlight
    BY DEF Check, Load, Create, Insert, Compare, Update, Mirror, Commit, Emit, At, AwardStages,
           InFlight, Stages, IInv, TypeOK
  <1>2. ASSUME Become(r, AfterAward(job[r])) PROVE Progress
    BY <1>1, <1>2, AfterAwardRemaining, StepProgress
  <1>3. ASSUME Abandon(r) PROVE Progress
    BY <1>1, <1>3, AbandonProgress
  <1>4. ASSUME NEW stage \in AwardStages, Goto(r, stage), StepsOf(stage) < StepsOf(job[r].stage)
        PROVE  Progress
    <2> DEFINE j == [job[r] EXCEPT !.stage = stage]
    <2>1. Become(r, j) /\ j \in Job /\ j.stage = stage /\ j.part = job[r].part
      BY <1>1, <1>4 DEF Goto, Job, Stages
    <2> HIDE DEF j
    <2> QED BY <1>1, <1>4, <2>1, WithinAwardProgress
  <1>5. CASE Check(r)
    <2> DEFINE j == [job[r] EXCEPT !.stage = "load", !.began = today]
    <2>1. Become(r, AfterAward(job[r])) \/ Become(r, j)
      BY <1>5 DEF Check
    <2>2. j \in Job /\ j.stage = "load" /\ j.part = job[r].part
      BY <1>1 DEF Job, Stages, AwardStages
    <2>3. job[r].stage = "check"
      BY <1>5 DEF Check, At
    <2> HIDE DEF j
    <2> QED BY <1>1, <1>2, <2>1, <2>2, <2>3, WithinAwardProgress DEF StepsOf, AwardStages
  <1>6. CASE Load(r)
    <2> DEFINE j == [job[r] EXCEPT !.stage = "insert", !.row = level]
    <2>1. Goto(r, "create") \/ Become(r, j)
      BY <1>6 DEF Load
    <2>2. j \in Job /\ j.stage = "insert" /\ j.part = job[r].part
      BY <1>1 DEF Job, Stages, AwardStages
    <2>3. job[r].stage = "load"
      BY <1>6 DEF Load, At
    <2> HIDE DEF j
    <2> QED BY <1>1, <1>4, <2>1, <2>2, <2>3, WithinAwardProgress DEF StepsOf, AwardStages
  <1>7. CASE Create(r)
    <2> DEFINE j == [job[r] EXCEPT !.stage = "insert", !.row = LevelRow(0), !.created = TRUE]
    <2>1. Abandon(r) \/ Become(r, j)
      BY <1>7 DEF Create
    <2>2. j \in Job /\ j.stage = "insert" /\ j.part = job[r].part
      BY <1>1, LevelRowTyped DEF Job, Stages, AwardStages
    <2>3. job[r].stage = "create"
      BY <1>7 DEF Create, At
    <2> HIDE DEF j
    <2> QED BY <1>1, <1>3, <2>1, <2>2, <2>3, WithinAwardProgress DEF StepsOf, AwardStages
  <1>8. CASE Compare(r)
    <2> DEFINE j == [job[r] EXCEPT !.stage = "update", !.columns = Changed(r)]
    <2>1. Become(r, j)
      BY <1>8 DEF Compare
    <2>2. Changed(r) \subseteq Columns
      BY DEF Changed
    <2>3. j \in Job /\ j.stage = "update" /\ j.part = job[r].part
      BY <1>1, <2>2 DEF Job, Stages, AwardStages
    <2>4. job[r].stage = "compare"
      BY <1>8 DEF Compare, At
    <2> HIDE DEF j
    <2> QED BY <1>1, <2>1, <2>3, <2>4, WithinAwardProgress DEF StepsOf, AwardStages
  <1>9. CASE Insert(r)
    BY <1>3, <1>4, <1>9 DEF Insert, At, StepsOf, AwardStages
  <1>10. CASE Update(r)
    BY <1>4, <1>10 DEF Update, At, StepsOf, AwardStages
  <1>11. CASE Mirror(r)
    BY <1>4, <1>11 DEF Mirror, At, StepsOf, AwardStages
  <1>12. CASE Commit(r)
    BY <1>2, <1>4, <1>12 DEF Commit, At, StepsOf, AwardStages
  <1>13. CASE Emit(r)
    BY <1>2, <1>13 DEF Emit
  <1> QED BY <1>5, <1>6, <1>7, <1>8, <1>9, <1>10, <1>11, <1>12, <1>13

LEMMA CompletionProgress ==
  ASSUME IInv, NEW r \in Requests, Count(r) \/ Advance(r) \/ CompareStreak(r) \/ SaveStreak(r)
  PROVE  Progress
  <1>1. job[r] \in Job /\ r \in InFlight
    BY DEF Count, Advance, CompareStreak, SaveStreak, At, InFlight, Stages, IInv, TypeOK
  <1>2. CASE Count(r)
    <2> DEFINE j == [job[r] EXCEPT !.stage = "advance"]
               k == [job[r] EXCEPT !.part = "daily", !.stage = "check"]
    <2>1. Become(r, j) \/ Become(r, k)
      BY <1>2 DEF Count, Goto
    <2>2. j.stage = "advance" /\ k.stage = "check" /\ k.part = "daily"
      BY <1>1 DEF Job
    <2>3. Remaining(j) = 20 /\ Remaining(k) = 29
      BY <2>2, RemainingIs
    <2>4. Remaining(job[r]) = 30
      BY <1>2, RemainingIs DEF Count, At
    <2> HIDE DEF j, k
    <2> QED BY <2>1, <2>3, <2>4, StepProgress
  <1>3. CASE Advance(r)
    <2> DEFINE a == Advanced(streak, job[r].day)
               j == [job[r] EXCEPT !.stage = "save", !.fresh = TRUE, !.streak = a]
               k == [job[r] EXCEPT !.stage = "compareStreak", !.streak = a]
    <2>1. Become(r, j) \/ Become(r, k)
      BY <1>3 DEF Advance
    <2>2. j.stage = "save" /\ k.stage = "compareStreak"
      BY <1>1 DEF Job
    <2>3. Remaining(j) = 18 /\ Remaining(k) = 19
      BY <2>2, RemainingIs
    <2>4. Remaining(job[r]) = 20
      BY <1>3, RemainingIs DEF Advance, At
    <2> HIDE DEF j, k
    <2> QED BY <2>1, <2>3, <2>4, StepProgress
  <1>4. CASE CompareStreak(r)
    <2> DEFINE columns == {"last"} \union
                            {c \in {"current"} : job[r].streak.current # streak.current}
               j == [job[r] EXCEPT !.stage = "save", !.columns = columns]
    <2>1. Become(r, j)
      BY <1>4 DEF CompareStreak
    <2>2. j.stage = "save"
      BY <1>1 DEF Job
    <2>3. Remaining(j) = 18
      BY <2>2, RemainingIs
    <2>4. Remaining(job[r]) = 19
      BY <1>4, RemainingIs DEF CompareStreak, At
    <2> HIDE DEF j
    <2> QED BY <2>1, <2>3, <2>4, StepProgress
  <1>5. CASE SaveStreak(r)
    <2> DEFINE j == [job[r] EXCEPT !.part = "streak", !.stage = "check", !.columns = {}]
    <2>1. Abandon(r) \/ Become(r, j) \/ Become(r, Over(job[r], "done"))
      BY <1>5 DEF SaveStreak
    <2>2. j.stage = "check" /\ j.part = "streak"
      BY <1>1 DEF Job
    <2>3. Remaining(j) = 9 /\ Remaining(Over(job[r], "done")) = 0
      BY <1>1, <2>2, RemainingIs, OverRemaining DEF Ended
    <2>4. Remaining(job[r]) = 18
      BY <1>5, RemainingIs DEF SaveStreak, At
    <2> HIDE DEF j
    <2> QED BY <1>1, <2>1, <2>3, <2>4, AbandonProgress, StepProgress
  <1> QED BY <1>2, <1>3, <1>4, <1>5

LEMMA ArrivalProgress ==
  ASSUME IInv, NEW r \in Requests, SolvePuzzle(r) \/ CallAward(r) PROVE Progress
  <1>1. Remaining(job[r]) = 50
    BY DEF SolvePuzzle, CallAward, At, Remaining, AwardStages, Ended
  <1>2. CASE SolvePuzzle(r)
    <2>1. PICK noHints \in BOOLEAN :
            Become(r, [NewJob EXCEPT !.stage = "check", !.noHints = noHints, !.day = today])
      BY <1>2 DEF SolvePuzzle
    <2> DEFINE j == [NewJob EXCEPT !.stage = "check", !.noHints = noHints, !.day = today]
    <2>2. j.stage = "check" /\ j.part = "base"
      BY DEF NewJob
    <2>3. Remaining(j) = 49
      BY <2>2, RemainingIs
    <2> HIDE DEF j
    <2> QED BY <1>1, <2>1, <2>3, StepProgress DEF j
  <1>3. CASE CallAward(r)
    <2>1. PICK e \in ApiEvents :
            Become(r, [NewJob EXCEPT !.stage = "check", !.part = "api", !.api = e, !.day = today])
      BY <1>3 DEF CallAward
    <2> DEFINE j == [NewJob EXCEPT !.stage = "check", !.part = "api", !.api = e, !.day = today]
    <2>2. j.stage = "check" /\ j.part = "api"
      BY DEF NewJob
    <2>3. Remaining(j) = 9
      BY <2>2, RemainingIs
    <2> HIDE DEF j
    <2> QED BY <1>1, <2>1, <2>3, StepProgress DEF j
  <1> QED BY <1>2, <1>3

LEMMA NextProgress ==
  IInv /\ [Next]_vars => Progress
  <1> SUFFICES ASSUME IInv, [Next]_vars PROVE Progress
    OBVIOUS
  <1>1. CASE UNCHANGED job
    BY <1>1 DEF Progress
  <1>2. ASSUME NEW r \in Requests, Proceed(r) PROVE Progress
    BY <1>2, AwardProgress, CompletionProgress DEF Proceed
  <1>3. ASSUME NEW r \in Requests, Fail(r) PROVE Progress
    BY <1>3, AbandonProgress DEF Fail
  <1> QED BY <1>1, <1>2, <1>3, ArrivalProgress DEF Next, GetMyLevel, NextDay, vars

\* No step repeats or undoes what a request has done: each brings it nearer to its end,
\* of which it is never more than fifty steps away.  With NoDeadlock, requests that
\* have arrived can only end.
THEOREM EveryStepCounts == Spec => [][Progress]_vars
  <1> QED BY NextProgress, InductiveInvariant, PTL DEF Spec

-----------------------------------------------------------------------------
(* Requests that do not overlap.                                           *)

OneAtATime == \A r, s \in InFlight : r = s

\* A request knows the player's row as it is, and what its UPDATE has to set.
RowKnown(r) ==
  /\ job[r].stage \notin RowStages => ~job[r].created
  /\ job[r].stage \in RowStages \ {"emit"} =>
       IF job[r].created THEN level = NoRow /\ job[r].row = LevelRow(0) ELSE job[r].row = level
  /\ job[r].stage \in {"update", "mirror", "commit"} => job[r].columns = Changed(r)

SInv ==
  /\ OneAtATime /\ RowsAgree /\ (level = NoRow => granted = 0)
  /\ \A r \in Requests : RowKnown(r)

\* No other request is in progress while one makes a step.
LEMMA StepAlone ==
  ASSUME SInv, IInv, NEW r \in InFlight, NEW j, Become(r, j)
  PROVE  /\ OneAtATime' /\ job'[r] = j
         /\ \A s \in Others(r) : RowKnown(s) => job'[s].stage \notin RowStages /\ ~job'[s].created
  <1>1. job \in [Requests -> Job] /\ r \in Requests /\ OneAtATime
    BY DEF IInv, TypeOK, SInv, InFlight
  <1>2. /\ job'[r] = j /\ \A s \in Others(r) : job'[s] = job[s]
    BY <1>1 DEF Become, Others
  <1>3. \A s \in Others(r) : job[s].stage \notin Stages
    BY <1>1 DEF OneAtATime, InFlight, Others
  <1>4. OneAtATime'
    BY <1>2, <1>3 DEF OneAtATime, InFlight, Others
  <1>5. \A s \in Others(r) : RowKnown(s) => job'[s].stage \notin RowStages /\ ~job'[s].created
    BY <1>2, <1>3 DEF RowKnown, RowStages, Stages, AwardStages
  <1> QED BY <1>2, <1>4, <1>5

\* A step that leaves the rows alone and ends where none is in use.
LEMMA QuietStep ==
  ASSUME SInv, IInv, NEW r \in InFlight, NEW j, Become(r, j),
         j.stage \notin RowStages, ~j.created, UNCHANGED <<level, user, granted>>
  PROVE  SInv'
  <1>1. r \in Requests /\ \A s \in Requests : RowKnown(s)
    BY DEF SInv, InFlight
  <1>2. \A s \in Requests : job'[s].stage \notin RowStages /\ ~job'[s].created
    BY <1>1, StepAlone DEF Others
  <1>3. \A s \in Requests : RowKnown(s)'
    BY <1>2 DEF RowKnown, RowStages
  <1>4. RowsAgree' /\ (level = NoRow => granted = 0)'
    BY DEF SInv, RowsAgree
  <1> QED BY <1>3, <1>4, StepAlone DEF SInv

\* A step that goes on with the row it knows.
LEMMA KnowingStep ==
  ASSUME SInv, IInv, NEW r \in InFlight, NEW j, Become(r, j),
         UNCHANGED <<level, user, granted>>, RowKnown(r)'
  PROVE  SInv'
  <1>1. r \in Requests /\ \A s \in Requests : RowKnown(s)
    BY DEF SInv, InFlight
  <1>2. \A s \in Others(r) : job'[s].stage \notin RowStages /\ ~job'[s].created
    BY <1>1, StepAlone DEF Others
  <1>3. \A s \in Others(r) : RowKnown(s)'
    BY <1>2 DEF RowKnown, RowStages
  <1>4. RowsAgree' /\ (level = NoRow => granted = 0)'
    BY DEF SInv, RowsAgree
  <1> QED BY <1>3, <1>4, StepAlone DEF SInv, Others

\* An UPDATE of the columns that differ from a row nobody changed leaves the entity.
LEMMA SavedIsRaised ==
  ASSUME SInv, IInv, NEW r \in Requests, job[r].stage = "commit"
  PROVE  /\ Saved(r) = Raised(r) /\ Raised(r) = LevelRow(granted + Worth(Event(r)))
         /\ level # NoRow => level.xp = granted
  <1>1. RowKnown(r) /\ RowsAgree /\ (level = NoRow => granted = 0) /\ TypeOK /\ granted \in Nat
    BY DEF SInv, IInv, TypeOK
  <1>2. Raised(r) \in LevelRows
    BY RaisedTyped DEF RowStages
  <1>3. level # NoRow => level.xp = granted
    BY <1>1, LevelRowTyped DEF RowsAgree
  <1>4. job[r].row.xp = granted
    BY <1>1, <1>3, LevelRowTyped DEF RowKnown, RowStages, IInv, JobOK
  <1>5. CASE job[r].created
    BY <1>3, <1>4, <1>5 DEF Saved, Raised
  <1>6. CASE ~job[r].created
    <2>1. level \in LevelRows
      BY <1>1, <1>6 DEF IInv, JobOK, RowStages, TypeOK
    <2>2. job[r].columns = {c \in Columns : Raised(r)[c] # level[c]}
      BY <1>1, <1>6 DEF RowKnown, Changed
    <2>3. /\ "xp" \in job[r].columns \/ Raised(r).xp = level.xp
          /\ "level" \in job[r].columns \/ Raised(r).level = level.level
          /\ "next" \in job[r].columns \/ Raised(r).next = level.next
      BY <2>2 DEF Columns
    <2>4. Saved(r) = [xp |-> Raised(r).xp, level |-> Raised(r).level, next |-> Raised(r).next]
      BY <1>6, <2>3 DEF Saved
    <2>5. Saved(r) = Raised(r)
      BY <1>2, <2>4 DEF LevelRows
    <2> QED BY <2>5, <1>3, <1>4 DEF Raised
  <1> QED BY <1>5, <1>6

\* A request may start when none is in progress.
LEMMA StartAlone ==
  ASSUME MaxInFlight = 1, SInv, IInv, NEW r \in Requests, NEW j \in Job, Become(r, j),
         Cardinality(InFlight) < MaxInFlight, j.stage \notin RowStages, ~j.created,
         UNCHANGED <<level, user, granted>>
  PROVE  SInv'
  <1>1. InFlight = {}
    <2> SUFFICES ASSUME NEW x \in InFlight PROVE FALSE
      OBVIOUS
    <2>1. InFlight = {x}
      BY DEF SInv, OneAtATime
    <2>2. Cardinality({x}) = 1
      BY FS_Singleton
    <2> QED BY <2>1, <2>2
  <1>2. job' = [job EXCEPT ![r] = j] /\ job \in [Requests -> Job]
    BY DEF Become, IInv, TypeOK
  <1>3. \A s \in Requests : RowKnown(s) /\ job[s].stage \notin Stages
    BY <1>1 DEF SInv, InFlight
  <1>4. \A s \in Requests : job'[s].stage \notin RowStages /\ ~job'[s].created
    BY <1>2, <1>3 DEF RowKnown, RowStages, Stages, AwardStages
  <1>5. \A s \in Requests : RowKnown(s)'
    BY <1>4 DEF RowKnown, RowStages
  <1>6. OneAtATime'
    BY <1>2, <1>3 DEF OneAtATime, InFlight
  <1>7. RowsAgree' /\ (level = NoRow => granted = 0)'
    BY DEF SInv, RowsAgree
  <1> QED BY <1>5, <1>6, <1>7 DEF SInv

LEMMA RequestsSInv ==
  ASSUME MaxInFlight = 1, SInv, IInv, NEW r \in Requests, SolvePuzzle(r) \/ CallAward(r)
  PROVE  SInv'
  <1>1. 1 \in Days /\ today \in Days
    BY XpAssumption DEF Days, IInv, TypeOK
  <1>2. NewJob \in Job
    BY <1>1 DEF NewJob, Job
  <1>3. CASE SolvePuzzle(r)
    <2>1. PICK noHints \in BOOLEAN :
            Become(r, [NewJob EXCEPT !.stage = "check", !.noHints = noHints, !.day = today])
      BY <1>3 DEF SolvePuzzle
    <2> DEFINE j == [NewJob EXCEPT !.stage = "check", !.noHints = noHints, !.day = today]
    <2>2. j \in Job /\ j.stage \notin RowStages /\ ~j.created
      BY <1>1, <1>2 DEF NewJob, Job, RowStages, Stages, AwardStages
    <2> QED BY <1>3, <2>1, <2>2, StartAlone DEF SolvePuzzle, database
  <1>4. CASE CallAward(r)
    <2>1. PICK e \in ApiEvents :
            Become(r, [NewJob EXCEPT !.stage = "check", !.part = "api", !.api = e, !.day = today])
      BY <1>4 DEF CallAward
    <2> DEFINE j == [NewJob EXCEPT !.stage = "check", !.part = "api", !.api = e, !.day = today]
    <2>2. j \in Job /\ j.stage \notin RowStages /\ ~j.created
      BY <1>1, <1>2 DEF NewJob, Job, RowStages, Stages, AwardStages
    <2> QED BY <1>4, <2>1, <2>2, StartAlone DEF CallAward, database
  <1> QED BY <1>3, <1>4

LEMMA AbandonSInv ==
  ASSUME SInv, IInv, NEW r \in InFlight, Abandon(r), UNCHANGED <<level, user, granted>>
  PROVE  SInv'
  <1>1. job[r] \in Job /\ "failed" \in Ended
    BY DEF IInv, TypeOK, InFlight, Ended
  <1>2. Over(job[r], "failed").stage \notin RowStages /\ ~Over(job[r], "failed").created
    BY <1>1, OverTyped DEF RowStages
  <1> QED BY <1>2, QuietStep DEF Abandon

\* The steps outside a transaction.
LEMMA OutsideSInv ==
  ASSUME SInv, IInv, NEW r \in InFlight,
         Check(r) \/ Emit(r) \/ Count(r) \/ Advance(r) \/ CompareStreak(r) \/ SaveStreak(r)
  PROVE  SInv'
  <1>1. job[r] \in Job /\ RowKnown(r) /\ UNCHANGED <<level, user, granted>>
    BY DEF IInv, TypeOK, InFlight, SInv, Check, Emit, Count, Advance, CompareStreak, SaveStreak,
           database
  <1>2. AfterAward(job[r]).stage \notin RowStages /\ ~AfterAward(job[r]).created
    BY <1>1, AfterAwardTyped DEF RowStages
  <1>3. CASE Become(r, AfterAward(job[r]))
    BY <1>1, <1>2, <1>3, QuietStep
  <1>4. CASE job[r].stage \notin RowStages /\ \E j : /\ Become(r, j)
                                                     /\ j.stage \notin RowStages
                                                     /\ j.created = job[r].created
    BY <1>1, <1>4, QuietStep DEF RowKnown
  <1>5. CASE Abandon(r)
    BY <1>1, <1>5, AbandonSInv
  <1>6. CASE Become(r, Over(job[r], "done"))
    BY <1>1, <1>6, OverTyped, QuietStep DEF Ended, RowStages
  <1>7. CASE Check(r)
    <2>1. CASE Event(r) \notin Entered
      <3> DEFINE j == [job[r] EXCEPT !.stage = "load", !.began = today]
      <3>1. Become(r, j) /\ j.stage \notin RowStages /\ j.created = job[r].created
        BY <1>1, <1>7, <2>1 DEF Check, Job, RowStages
      <3>2. job[r].stage \notin RowStages
        BY <1>7 DEF Check, At, RowStages
      <3> QED BY <3>1, <3>2, <1>4
    <2> QED BY <1>3, <1>7, <2>1 DEF Check
  <1>8. CASE Count(r)
    <2>1. job[r].stage \notin RowStages
      BY <1>8 DEF Count, At, RowStages
    <2>2. CASE Goto(r, "advance")
      <3> DEFINE j == [job[r] EXCEPT !.stage = "advance"]
      <3>1. Become(r, j) /\ j.stage \notin RowStages /\ j.created = job[r].created
        BY <1>1, <2>2 DEF Goto, Job, RowStages
      <3> QED BY <3>1, <2>1, <1>4
    <2>3. CASE Become(r, [job[r] EXCEPT !.part = "daily", !.stage = "check"])
      <3> DEFINE j == [job[r] EXCEPT !.part = "daily", !.stage = "check"]
      <3>1. Become(r, j) /\ j.stage \notin RowStages /\ j.created = job[r].created
        BY <1>1, <2>3 DEF Job, RowStages
      <3> QED BY <3>1, <2>1, <1>4
    <2> QED BY <1>8, <2>2, <2>3 DEF Count
  <1>9. CASE Advance(r)
    <2> DEFINE a == Advanced(streak, job[r].day)
               fresh == [job[r] EXCEPT !.stage = "save", !.fresh = TRUE, !.streak = a]
               known == [job[r] EXCEPT !.stage = "compareStreak", !.streak = a]
    <2>1. job[r].stage \notin RowStages
      BY <1>9 DEF Advance, At, RowStages
    <2>2. Become(r, fresh) \/ Become(r, known)
      BY <1>9 DEF Advance
    <2> HIDE DEF a
    <2>3. /\ fresh.stage \notin RowStages /\ fresh.created = job[r].created
          /\ known.stage \notin RowStages /\ known.created = job[r].created
      BY <1>1 DEF Job, RowStages
    <2> HIDE DEF fresh, known
    <2> QED BY <2>1, <2>2, <2>3, <1>4
  <1>10. CASE CompareStreak(r)
    <2> DEFINE columns == {"last"} \union
                            {c \in {"current"} : job[r].streak.current # streak.current}
               j == [job[r] EXCEPT !.stage = "save", !.columns = columns]
    <2>1. job[r].stage \notin RowStages /\ Become(r, j)
      BY <1>10 DEF CompareStreak, At, RowStages
    <2> HIDE DEF columns
    <2>2. j.stage \notin RowStages /\ j.created = job[r].created
      BY <1>1 DEF Job, RowStages
    <2> QED BY <2>1, <2>2, <1>4
  <1>11. CASE SaveStreak(r)
    <2> DEFINE j == [job[r] EXCEPT !.part = "streak", !.stage = "check", !.columns = {}]
    <2>1. job[r].stage \notin RowStages
      BY <1>11 DEF SaveStreak, At, RowStages
    <2>2. j.stage \notin RowStages /\ j.created = job[r].created
      BY <1>1 DEF Job, RowStages
    <2>3. Abandon(r) \/ Become(r, j) \/ Become(r, Over(job[r], "done"))
      BY <1>11 DEF SaveStreak
    <2> QED BY <2>1, <2>2, <2>3, <1>4, <1>5, <1>6
  <1>12. CASE Emit(r)
    BY <1>3, <1>12 DEF Emit
  <1> QED BY <1>7, <1>8, <1>9, <1>10, <1>11, <1>12

\* The steps of a transaction before its COMMIT.
LEMMA InsideSInv ==
  ASSUME SInv, IInv, NEW r \in InFlight,
         Load(r) \/ Create(r) \/ Insert(r) \/ Compare(r) \/ Update(r) \/ Mirror(r)
  PROVE  SInv'
  <1>1. /\ job[r] \in Job /\ RowKnown(r) /\ r \in Requests /\ job \in [Requests -> Job]
        /\ UNCHANGED <<level, user, granted>>
    BY DEF IInv, TypeOK, InFlight, SInv, Load, Create, Insert, Compare, Update, Mirror, database
  <1>2. CASE Load(r)
    <2>1. ~job[r].created /\ job[r].stage = "load"
      BY <1>1, <1>2 DEF Load, At, RowKnown, RowStages
    <2>2. CASE level = NoRow
      <3> DEFINE j == [job[r] EXCEPT !.stage = "create"]
      <3>1. Become(r, j) /\ j.stage \notin RowStages /\ ~j.created
        BY <1>1, <1>2, <2>1, <2>2 DEF Load, Goto, Job, RowStages
      <3> QED BY <1>1, <3>1, QuietStep
    <2>3. CASE level # NoRow
      <3> DEFINE j == [job[r] EXCEPT !.stage = "insert", !.row = level]
      <3>1. Become(r, j) /\ j.stage = "insert" /\ ~j.created /\ j.row = level
        BY <1>1, <1>2, <2>1, <2>3 DEF Load, Job
      <3>2. RowKnown(r)'
        BY <1>1, <3>1 DEF RowKnown, RowStages, Become
      <3> QED BY <1>1, <3>1, <3>2, KnowingStep
    <2> QED BY <2>2, <2>3
  <1>3. CASE Create(r)
    <2>1. CASE level = NoRow
      <3> DEFINE j == [job[r] EXCEPT !.stage = "insert", !.row = LevelRow(0), !.created = TRUE]
      <3>1. Become(r, j)
        BY <1>3, <2>1 DEF Create
      <3>2. j.stage = "insert" /\ j.created /\ j.row = LevelRow(0)
        BY <1>1 DEF Job
      <3>3. RowKnown(r)'
        <4>1. job'[r] = j /\ level' = NoRow
          BY <1>1, <2>1, <3>1 DEF Become
        <4>2. LevelRow(0)' = LevelRow(0)
          BY DEF LevelRow, LevelOf
        <4> HIDE DEF j
        <4> QED BY <3>2, <4>1, <4>2 DEF RowKnown, RowStages
      <3> QED BY <1>1, <3>1, <3>3, KnowingStep
    <2>2. CASE level # NoRow
      BY <1>1, <1>3, <2>2, AbandonSInv DEF Create
    <2> QED BY <2>1, <2>2
  <1>4. CASE Insert(r)
    <2>1. CASE Event(r) \in Entered
      BY <1>1, <1>4, <2>1, AbandonSInv DEF Insert
    <2>2. CASE Event(r) \notin Entered
      <3> DEFINE j == [job[r] EXCEPT !.stage = "compare"]
      <3>1. Become(r, j) /\ job[r].stage = "insert"
        BY <1>4, <2>2 DEF Insert, Goto, At
      <3>2. j.stage = "compare" /\ j.created = job[r].created /\ j.row = job[r].row
        BY <1>1 DEF Job
      <3>3. job'[r] = j
        BY <1>1, <3>1 DEF Become
      <3> HIDE DEF j
      <3>4. RowKnown(r)'
        BY <1>1, <3>1, <3>2, <3>3 DEF RowKnown, RowStages, LevelRow, LevelOf
      <3> QED BY <1>1, <3>1, <3>4, KnowingStep
    <2> QED BY <2>1, <2>2
  <1>5. CASE Compare(r)
    <2> DEFINE j == [job[r] EXCEPT !.stage = "update", !.columns = Changed(r)]
    <2>1. Become(r, j) /\ job[r].stage = "compare"
      BY <1>5 DEF Compare, At
    <2>2. /\ j.stage = "update" /\ j.created = job[r].created /\ j.row = job[r].row
          /\ j.columns = Changed(r) /\ j.part = job[r].part /\ j.api = job[r].api
          /\ j.day = job[r].day /\ j.streak = job[r].streak
      BY <1>1 DEF Job
    <2>3. job'[r] = j
      BY <1>1, <2>1 DEF Become
    <2> HIDE DEF j
    <2>4. Changed(r)' = Changed(r)
      <3>1. Event(r)' = Event(r)
        BY <2>2, <2>3 DEF Event
      <3>2. Raised(r)' = Raised(r)
        BY <2>2, <2>3, <3>1 DEF Raised
      <3> QED BY <1>1, <2>2, <2>3, <3>2 DEF Changed
    <2>5. RowKnown(r)'
      BY <1>1, <2>1, <2>2, <2>3, <2>4 DEF RowKnown, RowStages, LevelRow, LevelOf
    <2> QED BY <1>1, <2>1, <2>5, KnowingStep
  <1>6. ASSUME NEW stage \in {"mirror", "commit"}, Goto(r, stage),
               job[r].stage \in {"update", "mirror"}
        PROVE  SInv'
    <2> DEFINE j == [job[r] EXCEPT !.stage = stage]
    <2>1. Become(r, j)
      BY <1>6 DEF Goto
    <2>2. /\ j.stage = stage /\ j.created = job[r].created /\ j.row = job[r].row
          /\ j.columns = job[r].columns /\ j.part = job[r].part /\ j.api = job[r].api
          /\ j.day = job[r].day /\ j.streak = job[r].streak
      BY <1>1 DEF Job
    <2>3. job'[r] = j
      BY <1>1, <2>1 DEF Become
    <2> HIDE DEF j
    <2>4. Changed(r)' = Changed(r)
      <3>1. Event(r)' = Event(r)
        BY <2>2, <2>3 DEF Event
      <3>2. Raised(r)' = Raised(r)
        BY <2>2, <2>3, <3>1 DEF Raised
      <3> QED BY <1>1, <2>2, <2>3, <3>2 DEF Changed
    <2>5. RowKnown(r)'
      BY <1>1, <1>6, <2>2, <2>3, <2>4 DEF RowKnown, RowStages, LevelRow, LevelOf
    <2> QED BY <1>1, <2>1, <2>5, KnowingStep
  <1>7. CASE Update(r) \/ Mirror(r)
    BY <1>6, <1>7 DEF Update, Mirror, At
  <1> QED BY <1>2, <1>3, <1>4, <1>5, <1>7

LEMMA CommitSInv ==
  ASSUME SInv, IInv, NEW r \in InFlight, Commit(r) PROVE SInv'
  <1>1. /\ job[r] \in Job /\ RowKnown(r) /\ r \in Requests /\ job \in [Requests -> Job]
        /\ job[r].stage = "commit" /\ granted \in Nat
        /\ \A s \in Requests : RowKnown(s)
        /\ level' = Saved(r)
        /\ user' = [experience |-> Raised(r).xp, level |-> Raised(r).level]
    BY DEF IInv, TypeOK, InFlight, SInv, Commit, At
  <1> DEFINE sum == granted + Worth(Event(r))
  <1>2. granted' = sum /\ sum \in Nat
    <2>1. Event(r) \notin Entered
      BY <1>1, InsertedKeyFree DEF Inserted, KeyFree
    <2>2. Worth(Event(r)) \in Nat
      BY <1>1, EventTyped DEF AwardStages
    <2> QED BY <1>1, <2>1, <2>2 DEF Commit
  <1>3. Saved(r) = LevelRow(sum) /\ Raised(r) = LevelRow(sum)
    BY <1>1, SavedIsRaised
  <1>4. LevelRow(sum) \in LevelRows /\ LevelRow(sum).xp = sum /\ LevelRow(sum).level = LevelOf(sum)
    BY <1>2, LevelRowTyped
  <1> HIDE DEF sum
  <1>5. level' = LevelRow(granted') /\ level' # NoRow
        /\ user' = [experience |-> granted', level |-> LevelOf(granted')]
    BY <1>1, <1>2, <1>3, <1>4, XpAssumption
  <1>6. RowsAgree' /\ (level = NoRow => granted = 0)'
    BY <1>5 DEF RowsAgree, LevelRow, LevelOf
  <1>7. \E j : /\ Become(r, j)
               /\ j.stage = "emit" \/ (j.stage \notin RowStages /\ ~j.created)
    <2>1. CASE LeveledUp(r)
      <3> DEFINE j == [job[r] EXCEPT !.stage = "emit"]
      <3>1. Become(r, j) /\ j.stage = "emit"
        BY <1>1, <2>1 DEF Commit, Goto, Job
      <3> QED BY <3>1
    <2>2. CASE ~LeveledUp(r)
      <3>1. Become(r, AfterAward(job[r]))
        BY <2>2 DEF Commit
      <3> QED BY <1>1, <3>1, AfterAwardTyped DEF RowStages
    <2> QED BY <2>1, <2>2
  <1>8. PICK j : /\ Become(r, j)
                 /\ j.stage = "emit" \/ (j.stage \notin RowStages /\ ~j.created)
    BY <1>7
  <1>9. OneAtATime' /\ job'[r] = j
        /\ \A s \in Others(r) : RowKnown(s) => job'[s].stage \notin RowStages /\ ~job'[s].created
    BY <1>8, StepAlone
  <1>10. \A s \in Requests : RowKnown(s)'
    BY <1>1, <1>8, <1>9 DEF RowKnown, RowStages, Others
  <1> QED BY <1>6, <1>9, <1>10 DEF SInv

\* A row is created for a player who has none, and nobody uses it.
LEMMA GetMyLevelSInv ==
  ASSUME SInv, IInv, GetMyLevel PROVE SInv'
  <1>1. /\ level = NoRow /\ level' = LevelRow(0) /\ granted = 0
        /\ \A r \in Requests : ~HoldsLevel(r)
        /\ UNCHANGED <<job, user, granted>>
    BY DEF GetMyLevel, SInv
  <1>2. \A r \in Requests : job[r].stage \notin RowStages \ {"emit"}
    <2> SUFFICES ASSUME NEW r \in Requests, job[r].stage \in RowStages \ {"emit"} PROVE FALSE
      OBVIOUS
    <2>1. RowKnown(r) /\ JobOK(job[r]) /\ ~HoldsLevel(r)
      BY <1>1 DEF SInv, IInv
    <2>2. ~job[r].created
      BY <2>1 DEF HoldsLevel, At, Inserted, RowStages
    <2> QED BY <1>1, <2>1, <2>2 DEF JobOK
  <1>3. \A r \in Requests : RowKnown(r)'
    BY <1>1, <1>2 DEF SInv, RowKnown, RowStages
  <1>4. LevelRow(0) \in LevelRows /\ LevelRow(0) # NoRow
    BY LevelRowTyped, XpAssumption
  <1>5. RowsAgree' /\ (level = NoRow => granted = 0)'
    BY <1>1, <1>4 DEF SInv, RowsAgree, LevelRow, LevelOf
  <1>6. OneAtATime'
    BY <1>1 DEF SInv, OneAtATime, InFlight
  <1> QED BY <1>3, <1>5, <1>6 DEF SInv

LEMMA InitSInv ==
  Init => SInv
  <1> SUFFICES ASSUME Init PROVE SInv
    OBVIOUS
  <1>1. \A r \in Requests : job[r].stage = "new" /\ ~job[r].created
    BY DEF Init, NewJob
  <1>2. OneAtATime
    BY <1>1 DEF OneAtATime, InFlight, Stages, AwardStages
  <1>3. \A r \in Requests : RowKnown(r)
    BY <1>1 DEF RowKnown, RowStages
  <1>4. LevelOf(0) = 1
    <2> DEFINE l == LevelOf(0)
    <2>1. l \in DOMAIN Thresholds /\ Thresholds[l] <= 0
      BY LevelReached
    <2> HIDE DEF l
    <2>2. l \in Nat /\ l >= 1 /\ 1 \in DOMAIN Thresholds /\ Thresholds[l] \in Nat
      BY <2>1, XpAssumption
    <2>3. ~ (1 < l)
      BY <2>1, <2>2, XpAssumption
    <2> QED BY <2>2, <2>3 DEF l
  <1> QED BY <1>2, <1>3, <1>4 DEF Init, SInv, RowsAgree

LEMMA NextSInv ==
  ASSUME MaxInFlight = 1 PROVE SInv /\ IInv /\ [Next]_vars => SInv'
  <1> SUFFICES ASSUME SInv, IInv, [Next]_vars PROVE SInv'
    OBVIOUS
  <1>1. ASSUME UNCHANGED <<job, level, user, granted>>, \A r \in Requests : Event(r)' = Event(r)
        PROVE  SInv'
    BY <1>1 DEF SInv, OneAtATime, InFlight, RowsAgree, RowKnown, Changed, Raised
  <1>2. CASE UNCHANGED vars
    BY <1>1, <1>2 DEF vars, database, Event
  <1>3. CASE NextDay
    BY <1>1, <1>3 DEF NextDay, database, Event
  <1>4. ASSUME NEW r \in Requests, Proceed(r) PROVE SInv'
    <2>1. r \in InFlight
      BY <1>4 DEF InFlight, Stages, AwardStages, Proceed, At, Check, Load, Create, Insert,
                  Compare, Update, Mirror, Commit, Emit, Count, Advance, CompareStreak, SaveStreak
    <2> QED BY <1>4, <2>1, OutsideSInv, InsideSInv, CommitSInv DEF Proceed
  <1>5. ASSUME NEW r \in Requests, Fail(r) PROVE SInv'
    BY <1>5, AbandonSInv DEF Fail, database
  <1>6. ASSUME NEW r \in Requests, SolvePuzzle(r) \/ CallAward(r) PROVE SInv'
    BY <1>6, RequestsSInv
  <1> QED BY <1>2, <1>3, <1>4, <1>5, <1>6, GetMyLevelSInv DEF Next

\* Requests that do not overlap keep the player's row and its copy in users those of the
\* sum of the awards: level and way to the next included, wherever a request fails.
THEOREM SequentialRows == ASSUME MaxInFlight = 1 PROVE Spec => []RowsAgree
  <1>1. Init => SInv
    BY InitSInv
  <1>2. SInv /\ IInv /\ [Next]_vars => SInv'
    BY NextSInv
  <1>3. SInv => RowsAgree
    BY DEF SInv
  <1> QED BY <1>1, <1>2, <1>3, InductiveInvariant, PTL DEF Spec

-----------------------------------------------------------------------------
(* awardXp implements the ledger.                                          *)

Balance == IF level = NoRow THEN 0 ELSE level.xp

LEMMA StepOfLedger ==
  ASSUME MaxInFlight = 1
  PROVE  SInv /\ IInv /\ [Next]_vars => [Ledger!Next]_(Ledger!vars)
  <1> SUFFICES ASSUME SInv, IInv, [Next]_vars PROVE [Ledger!Next]_(Ledger!vars)
    OBVIOUS
  <1>1. ASSUME UNCHANGED <<awards, level>> PROVE UNCHANGED Ledger!vars
    BY <1>1 DEF Ledger!vars, Entered
  <1>2. ASSUME NEW r \in Requests, Commit(r) PROVE Ledger!Enter(Event(r)) /\ Event(r) \in Awards
    <2>1. /\ job[r].stage = "commit" /\ level' = Saved(r)
          /\ awards' = awards \union {[event |-> Event(r), created |-> job[r].began]}
      BY <1>2 DEF Commit, At
    <2>2. Event(r) \notin Entered /\ Event(r) \in Awards /\ Worth(Event(r)) \in Nat
      BY <2>1, InsertedKeyFree, EventTyped DEF Inserted, KeyFree, AwardStages
    <2>3. Entered' = Entered \union {Event(r)}
      <3> DEFINE a == [event |-> Event(r), created |-> job[r].began]
      <3>1. a.event = Event(r) /\ awards' = awards \union {a}
        BY <2>1
      <3> HIDE DEF a
      <3> QED BY <3>1 DEF Entered
    <2>4. Balance = granted /\ granted \in Nat
      BY <2>1, SavedIsRaised DEF Balance, SInv, IInv, TypeOK
    <2>5. Balance' = granted + Worth(Event(r))
      <3> DEFINE sum == granted + Worth(Event(r))
      <3>1. level' = LevelRow(sum) /\ sum \in Nat
        BY <2>1, <2>2, <2>4, SavedIsRaised
      <3>2. LevelRow(sum) \in LevelRows /\ LevelRow(sum).xp = sum
        BY <3>1, LevelRowTyped
      <3> HIDE DEF sum
      <3>3. Balance' = sum
        BY <3>1, <3>2, XpAssumption DEF Balance
      <3> QED BY <3>3 DEF sum
    <2> QED BY <2>2, <2>3, <2>4, <2>5 DEF Ledger!Enter, Balance
  <1>3. CASE GetMyLevel
    <2>1. level = NoRow /\ level' = LevelRow(0) /\ awards' = awards
      BY <1>3 DEF GetMyLevel
    <2>2. LevelRow(0) \in LevelRows /\ LevelRow(0).xp = 0
      BY LevelRowTyped
    <2> QED BY <2>1, <2>2, XpAssumption DEF Ledger!vars, Entered
  <1>4. CASE UNCHANGED vars \/ NextDay
    BY <1>1, <1>4 DEF vars, database, NextDay
  <1>5. ASSUME NEW r \in Requests, Proceed(r), ~Commit(r) PROVE UNCHANGED <<awards, level>>
    BY <1>5 DEF Proceed, Check, Load, Create, Insert, Compare, Update, Mirror, Emit, Count,
                Advance, CompareStreak, SaveStreak, database
  <1>6. ASSUME NEW r \in Requests, SolvePuzzle(r) \/ CallAward(r) \/ Fail(r)
        PROVE  UNCHANGED <<awards, level>>
    BY <1>6 DEF SolvePuzzle, CallAward, Fail, database
  <1>7. (\E r \in Requests : Commit(r)) => Ledger!Next
    BY <1>2 DEF Ledger!Next
  <1> QED BY <1>1, <1>3, <1>4, <1>5, <1>6, <1>7 DEF Next

\* With requests that do not overlap, awardXp is a ledger: each source event is entered at
\* most once, and the experience is the sum of the entries, whatever fails in between.
THEOREM RefinesLedger == ASSUME MaxInFlight = 1 PROVE Spec => ImplementsXpLedger
  <1>1. Init => Ledger!Init
    BY DEF Init, Ledger!Init, Entered
  <1>2. Init => SInv
    BY InitSInv
  <1>3. SInv /\ IInv /\ [Next]_vars => SInv'
    BY NextSInv
  <1>4. SInv /\ IInv /\ [Next]_vars => [Ledger!Next]_(Ledger!vars)
    BY StepOfLedger
  <1> QED BY <1>1, <1>2, <1>3, <1>4, InductiveInvariant, PTL
          DEF Spec, ImplementsXpLedger, Ledger!Spec
=============================================================================
