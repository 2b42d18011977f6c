------------------------- MODULE XpCompletionProofs -------------------------
(***************************************************************************)
(* Proofs about the completion of puzzles: what a completion has paid when *)
(* it returns, however requests overlap; and, of requests that do not      *)
(* overlap, that streaks and their bonuses are earned and that a level is  *)
(* announced once.                                                         *)
(***************************************************************************)
EXTENDS XpServiceProofs

Keys(aw) == {a.event : a \in aw}
DailyIn(aw, d) ==
  \E a \in aw : a.event = <<"daily", d>> \/ (IsDaily(a.event) /\ a.created = d)

\* The source event of the award that a job j of request r is making.
EventOf(r, j) ==
  CASE j.part \in {"base", "nohints"} -> <<j.part, r>>
    [] j.part = "daily" -> <<"daily", j.day>>
    [] j.part = "streak" -> <<"streak", j.streak.current>>
    [] j.part = "api" -> <<"api", j.api>>

Between == {"count", "advance", "compareStreak", "save"}

\* What a job j of request r has paid, with the awards aw and the row s of user_streaks.
Paid(r, j, aw, s) ==
  /\ j.stage = "new" => <<"base", r>> \notin Keys(aw)
  /\ j.part = "api" => j.api # NoRow /\ j.stage \notin Between
  /\ j.stage = "emit" => EventOf(r, j) \in Keys(aw)
  /\ j.stage \in Stages \union {"done"} /\ j.part # "api" =>
       /\ j.part # "base" \/ j.stage \in Between \union {"done"} => <<"base", r>> \in Keys(aw)
       /\ j.part \notin {"base", "nohints"} \/ j.stage \in Between \union {"done"} =>
            (j.noHints => <<"nohints", r>> \in Keys(aw))
       /\ j.part = "streak" \/ j.stage \in (Between \ {"count"}) \union {"done"} =>
            DailyIn(aw, j.day)
       /\ (j.part = "streak" /\ j.stage \in AwardStages) \/ j.stage = "done" =>
            s # NoRow /\ j.streak # NoRow
       /\ j.stage = "done" /\ j.streak.current \in DOMAIN Milestones =>
            <<"streak", j.streak.current>> \in Keys(aw)

PInv == \A r \in Requests : Paid(r, job[r], awards, streak)

-----------------------------------------------------------------------------
(* What was paid stays paid.                                               *)

LEMMA PaidStays ==
  ASSUME NEW r, NEW j, NEW aw, NEW aw2, aw \subseteq aw2, NEW s, NEW s2, Paid(r, j, aw, s),
         s # NoRow => s2 # NoRow,
         j.stage = "new" /\ <<"base", r>> \in Keys(aw2) => <<"base", r>> \in Keys(aw)
  PROVE  Paid(r, j, aw2, s2)
  <1>1. Keys(aw) \subseteq Keys(aw2)
    BY DEF Keys
  <1>2. \A d : DailyIn(aw, d) => DailyIn(aw2, d)
    BY DEF DailyIn
  <1> QED BY <1>1, <1>2 DEF Paid

\* A request that failed owes nothing.
LEMMA FailedPaid ==
  ASSUME NEW r, NEW j \in Job, NEW aw, NEW s, Paid(r, j, aw, s)
  PROVE  Paid(r, Over(j, "failed"), aw, s)
  <1> DEFINE k == Over(j, "failed")
  <1>1. k.stage = "failed" /\ k.part = j.part /\ k.api = j.api
    BY DEF Over, Job
  <1> HIDE DEF k
  <1>2. Paid(r, k, aw, s)
    BY <1>1 DEF Paid, Stages, AwardStages, Between
  <1> QED BY <1>2 DEF k

\* After an award that is entered.
LEMMA AfterAwardPaid ==
  ASSUME NEW r, NEW j \in Job, NEW aw, NEW s, Paid(r, j, aw, s), j.stage \in AwardStages,
         EventOf(r, j) \in Keys(aw)
  PROVE  Paid(r, AfterAward(j), aw, s)
  <1> DEFINE k == AfterAward(j)
  <1>1. j.stage \in Stages /\ j.stage \notin Between \union {"done"}
    BY DEF Stages, AwardStages, Between
  <1>2. CASE j.part = "base" /\ j.noHints
    <2>1. /\ k.part = "nohints" /\ k.stage = "check" /\ k.noHints = j.noHints
          /\ EventOf(r, j) = <<"base", r>>
      BY <1>2 DEF AfterAward, Job, EventOf
    <2> HIDE DEF k
    <2>2. Paid(r, k, aw, s)
      BY <2>1 DEF Paid, Between
    <2> QED BY <2>2 DEF k
  <1>3. CASE j.part = "nohints" \/ (j.part = "base" /\ ~j.noHints)
    <2>1. /\ k.part = j.part /\ k.stage = "count" /\ k.noHints = j.noHints
          /\ EventOf(r, j) = <<j.part, r>>
      BY <1>3 DEF AfterAward, Job, EventOf
    <2> HIDE DEF k
    <2>2. Paid(r, k, aw, s)
      BY <1>1, <1>3, <2>1 DEF Paid, Between
    <2> QED BY <2>2 DEF k
  <1>4. CASE j.part = "daily"
    <2>1. /\ k.part = "daily" /\ k.stage = "advance" /\ k.noHints = j.noHints /\ k.day = j.day
          /\ EventOf(r, j) = <<"daily", j.day>>
      BY <1>4 DEF AfterAward, Job, EventOf
    <2>2. DailyIn(aw, j.day)
      <3>1. PICK a \in aw : a.event = <<"daily", j.day>>
        BY <2>1 DEF Keys
      <3> QED BY <3>1 DEF DailyIn
    <2> HIDE DEF k
    <2>3. Paid(r, k, aw, s)
      BY <1>1, <1>4, <2>1, <2>2 DEF Paid, Between
    <2> QED BY <2>3 DEF k
  <1>5. CASE j.part \in {"streak", "api"}
    <2>1. k = Over(j, "done")
      BY <1>5 DEF AfterAward
    <2>2. /\ k.part = j.part /\ k.stage = "done" /\ k.noHints = j.noHints /\ k.day = j.day
          /\ k.api = j.api /\ k.streak = j.streak
          /\ j.part = "streak" => EventOf(r, j) = <<"streak", j.streak.current>>
      BY <2>1 DEF Over, Job, EventOf
    <2> HIDE DEF k
    <2>3. Paid(r, k, aw, s)
      BY <1>1, <1>5, <2>2 DEF Paid, Between
    <2> QED BY <2>3 DEF k
  <1> QED BY <1>2, <1>3, <1>4, <1>5 DEF Job

-----------------------------------------------------------------------------
(* The steps.                                                              *)

LEMMA EventIs ==
  ASSUME NEW r PROVE Event(r) = EventOf(r, job[r])
  BY DEF Event, EventOf

\* A step of one request that enters no base award of another.
LEMMA PaidStep ==
  ASSUME IInv, PInv, NEW r \in Requests, NEW j, Become(r, j), awards \subseteq awards',
         streak # NoRow => streak' # NoRow,
         \A s \in Others(r) : <<"base", s>> \in Keys(awards') => <<"base", s>> \in Keys(awards),
         Paid(r, j, awards', streak')
  PROVE  PInv'
  <1>1. /\ job'[r] = j
        /\ \A s \in Others(r) : s \in Requests /\ job'[s] = job[s]
    BY DEF IInv, TypeOK, Become, Others
  <1>2. ASSUME NEW s \in Others(r) PROVE Paid(s, job'[s], awards', streak')
    <2>1. Paid(s, job[s], awards, streak)
      BY <1>1 DEF PInv
    <2> QED BY <1>1, <2>1, PaidStays
  <1> QED BY <1>1, <1>2 DEF PInv, Others

\* One that changes no row.
LEMMA PaidLocalStep ==
  ASSUME IInv, PInv, NEW r \in Requests, NEW j, Become(r, j), UNCHANGED <<awards, streak>>,
         Paid(r, j, awards, streak)
  PROVE  PInv'
  BY PaidStep

LEMMA SolvePuzzlePaid ==
  ASSUME IInv, PInv, NEW r \in Requests, SolvePuzzle(r) PROVE PInv'
  <1>1. PICK noHints \in BOOLEAN :
          Become(r, [NewJob EXCEPT !.stage = "check", !.noHints = noHints, !.day = today])
    BY DEF SolvePuzzle
  <1> DEFINE j == [NewJob EXCEPT !.stage = "check", !.noHints = noHints, !.day = today]
  <1>2. j.stage = "check" /\ j.part = "base"
    BY DEF NewJob
  <1>3. Become(r, j)
    BY <1>1
  <1> HIDE DEF j
  <1>4. Paid(r, j, awards, streak)
    BY <1>2 DEF Paid, Between
  <1> QED BY <1>3, <1>4, PaidLocalStep DEF SolvePuzzle, database

LEMMA CallAwardPaid ==
  ASSUME IInv, PInv, NEW r \in Requests, CallAward(r) PROVE PInv'
  <1>1. PICK e \in ApiEvents :
          Become(r, [NewJob EXCEPT !.stage = "check", !.part = "api", !.api = e, !.day = today])
    BY DEF CallAward
  <1> DEFINE j == [NewJob EXCEPT !.stage = "check", !.part = "api", !.api = e, !.day = today]
  <1>2. j.stage = "check" /\ j.part = "api" /\ j.api # NoRow
    BY XpAssumption DEF NewJob
  <1>3. Become(r, j)
    BY <1>1
  <1> HIDE DEF j
  <1>4. Paid(r, j, awards, streak)
    BY <1>2 DEF Paid, Between
  <1> QED BY <1>3, <1>4, PaidLocalStep DEF CallAward, database

LEMMA AbandonPaid ==
  ASSUME IInv, PInv, NEW r \in Requests, Abandon(r), UNCHANGED <<awards, streak>> PROVE PInv'
  <1>1. job[r] \in Job /\ Paid(r, job[r], awards, streak)
    BY DEF IInv, TypeOK, PInv
  <1> QED BY <1>1, FailedPaid, PaidLocalStep DEF Abandon

\* The steps within an award: the part and what it is about stay the same.
LEMMA WithinAwardPaid ==
  ASSUME IInv, PInv, NEW r \in Requests, NEW j, Become(r, j), UNCHANGED <<awards, streak>>,
         job[r].stage \in AwardStages, j.stage \in AwardStages \ {"emit"},
         j.part = job[r].part, j.api = job[r].api, j.noHints = job[r].noHints,
         j.day = job[r].day, j.streak = job[r].streak
  PROVE  PInv'
  <1>1. Paid(r, job[r], awards, streak)
    BY DEF PInv
  <1>2. Paid(r, j, awards, streak)
    BY <1>1 DEF Paid, Stages, AwardStages, Between
  <1> QED BY <1>2, PaidLocalStep

LEMMA InsidePaid ==
  ASSUME IInv, PInv, NEW r \in Requests,
         Load(r) \/ Create(r) \/ Insert(r) \/ Compare(r) \/ Update(r) \/ Mirror(r)
  PROVE  PInv'
  <1>1. /\ job[r] \in Job /\ job[r].stage \in AwardStages /\ UNCHANGED <<awards, streak>>
    BY DEF IInv, TypeOK, Load, Create, Insert, Compare, Update, Mirror, At, AwardStages, database
  <1>2. ASSUME NEW stage \in AwardStages \ {"emit"}, Goto(r, stage) PROVE PInv'
    <2> DEFINE j == [job[r] EXCEPT !.stage = stage]
    <2>1. /\ Become(r, j) /\ j.stage = stage /\ j.part = job[r].part /\ j.api = job[r].api
          /\ j.noHints = job[r].noHints /\ j.day = job[r].day /\ j.streak = job[r].streak
      BY <1>1, <1>2 DEF Goto, Job
    <2> HIDE DEF j
    <2> QED BY <1>1, <2>1, WithinAwardPaid
  <1>3. CASE Abandon(r)
    BY <1>1, <1>3, AbandonPaid
  <1>4. CASE Load(r) /\ level # NoRow
    <2> DEFINE j == [job[r] EXCEPT !.stage = "insert", !.row = level]
    <2>1. /\ Become(r, j) /\ j.stage = "insert" /\ j.part = job[r].part /\ j.api = job[r].api
          /\ j.noHints = job[r].noHints /\ j.day = job[r].day /\ j.streak = job[r].streak
      BY <1>1, <1>4 DEF Load, Job
    <2> HIDE DEF j
    <2> QED BY <1>1, <2>1, WithinAwardPaid DEF AwardStages
  <1>5. CASE Create(r) /\ level = NoRow
    <2> DEFINE j == [job[r] EXCEPT !.stage = "insert", !.row = LevelRow(0), !.created = TRUE]
    <2>1. /\ Become(r, j) /\ j.stage = "insert" /\ j.part = job[r].part /\ j.api = job[r].api
          /\ j.noHints = job[r].noHints /\ j.day = job[r].day /\ j.streak = job[r].streak
      BY <1>1, <1>5 DEF Create, Job
    <2> HIDE DEF j
    <2> QED BY <1>1, <2>1, WithinAwardPaid DEF AwardStages
  <1>6. CASE Compare(r)
    <2> DEFINE j == [job[r] EXCEPT !.stage = "update", !.columns = Changed(r)]
    <2>1. /\ Become(r, j) /\ j.stage = "update" /\ j.part = job[r].part /\ j.api = job[r].api
          /\ j.noHints = job[r].noHints /\ j.day = job[r].day /\ j.streak = job[r].streak
      BY <1>1, <1>6 DEF Compare, Job
    <2> HIDE DEF j
    <2> QED BY <1>1, <2>1, WithinAwardPaid DEF AwardStages
  <1> QED BY <1>2, <1>3, <1>4, <1>5, <1>6 DEF Load, Create, Insert, Update, Mirror, AwardStages

LEMMA CheckPaid ==
  ASSUME IInv, PInv, NEW r \in Requests, Check(r) PROVE PInv'
  <1>1. /\ job[r] \in Job /\ job[r].stage \in AwardStages /\ UNCHANGED <<awards, streak>>
        /\ Paid(r, job[r], awards, streak)
    BY DEF IInv, TypeOK, PInv, Check, At, AwardStages, database
  <1>2. CASE Event(r) \in Entered
    <2>1. Paid(r, AfterAward(job[r]), awards, streak)
      BY <1>1, <1>2, EventIs, AfterAwardPaid DEF Entered, Keys
    <2> QED BY <1>1, <1>2, <2>1, PaidLocalStep DEF Check
  <1>3. CASE Event(r) \notin Entered
    <2> DEFINE j == [job[r] EXCEPT !.stage = "load", !.began = today]
    <2>1. /\ Become(r, j) /\ j.stage = "load" /\ j.part = job[r].part /\ j.api = job[r].api
          /\ j.noHints = job[r].noHints /\ j.day = job[r].day /\ j.streak = job[r].streak
      BY <1>1, <1>3 DEF Check, Job
    <2> HIDE DEF j
    <2> QED BY <1>1, <2>1, WithinAwardPaid DEF AwardStages
  <1> QED BY <1>2, <1>3

LEMMA EmitPaid ==
  ASSUME IInv, PInv, NEW r \in Requests, Emit(r) PROVE PInv'
  <1>1. /\ job[r] \in Job /\ job[r].stage = "emit" /\ UNCHANGED <<awards, streak>>
        /\ Paid(r, job[r], awards, streak) /\ Become(r, AfterAward(job[r]))
    BY DEF IInv, TypeOK, PInv, Emit, At, database
  <1>2. EventOf(r, job[r]) \in Keys(awards)
    BY <1>1 DEF Paid
  <1> QED BY <1>1, <1>2, AfterAwardPaid, PaidLocalStep DEF AwardStages

LEMMA CommitPaid ==
  ASSUME IInv, PInv, NEW r \in Requests, Commit(r) PROVE PInv'
  <1> DEFINE a == [event |-> Event(r), created |-> job[r].began]
  <1>1. /\ job[r] \in Job /\ job[r].stage = "commit" /\ streak' = streak
        /\ Paid(r, job[r], awards, streak) /\ awards' = awards \union {a}
    BY DEF IInv, TypeOK, PInv, Commit, At
  <1>2. a.event = EventOf(r, job[r])
    BY EventIs
  <1> HIDE DEF a
  <1>3. Keys(awards') = Keys(awards) \union {EventOf(r, job[r])}
    BY <1>1, <1>2 DEF Keys
  <1>4. Paid(r, job[r], awards', streak')
    BY <1>1, PaidStays
  <1>5. \A s \in Others(r) : EventOf(r, job[r]) # <<"base", s>>
    BY <1>1 DEF EventOf, Others, Job
  <1>6. \E j : Become(r, j) /\ Paid(r, j, awards', streak')
    <2>1. CASE LeveledUp(r)
      <3> DEFINE j == [job[r] EXCEPT !.stage = "emit"]
      <3>1. Become(r, j)
        BY <2>1 DEF Commit, Goto
      <3>2. /\ j.stage = "emit" /\ j.part = job[r].part /\ j.api = job[r].api
            /\ j.noHints = job[r].noHints /\ j.day = job[r].day /\ j.streak = job[r].streak
        BY <1>1 DEF Job
      <3> HIDE DEF j
      <3>3. EventOf(r, j) = EventOf(r, job[r])
        BY <3>2 DEF EventOf
      <3>4. Paid(r, j, awards', streak')
        BY <1>1, <1>3, <1>4, <3>2, <3>3 DEF Paid, Stages, AwardStages, Between
      <3> QED BY <3>1, <3>4
    <2>2. CASE ~LeveledUp(r)
      <3>1. Become(r, AfterAward(job[r]))
        BY <2>2 DEF Commit
      <3>2. Paid(r, AfterAward(job[r]), awards', streak')
        BY <1>1, <1>3, <1>4, AfterAwardPaid DEF AwardStages
      <3> QED BY <3>1, <3>2
    <2> QED BY <2>1, <2>2
  <1>7. PICK j : Become(r, j) /\ Paid(r, j, awards', streak')
    BY <1>6
  <1> QED BY <1>1, <1>3, <1>5, <1>7, PaidStep

LEMMA CountPaid ==
  ASSUME IInv, PInv, NEW r \in Requests, Count(r) PROVE PInv'
  <1>1. /\ job[r] \in Job /\ job[r].stage = "count" /\ UNCHANGED <<awards, streak>>
        /\ Paid(r, job[r], awards, streak)
    BY DEF IInv, TypeOK, PInv, Count, At, database
  <1>2. CASE \E a \in awards : IsDaily(a.event) /\ a.created = job[r].day
    <2> DEFINE j == [job[r] EXCEPT !.stage = "advance"]
    <2>1. /\ Become(r, j) /\ j.stage = "advance" /\ j.part = job[r].part /\ j.api = job[r].api
          /\ j.noHints = job[r].noHints /\ j.day = job[r].day
      BY <1>1, <1>2 DEF Count, Goto, Job
    <2> HIDE DEF j
    <2>2. DailyIn(awards, j.day)
      BY <1>2, <2>1 DEF DailyIn
    <2>3. Paid(r, j, awards, streak)
      BY <1>1, <2>1, <2>2 DEF Paid, Stages, AwardStages, Between
    <2> QED BY <1>1, <2>1, <2>3, PaidLocalStep
  <1>3. CASE ~ \E a \in awards : IsDaily(a.event) /\ a.created = job[r].day
    <2> DEFINE j == [job[r] EXCEPT !.part = "daily", !.stage = "check"]
    <2>1. /\ Become(r, j) /\ j.stage = "check" /\ j.part = "daily" /\ j.api = job[r].api
          /\ j.noHints = job[r].noHints /\ j.day = job[r].day
      BY <1>1, <1>3 DEF Count, Job
    <2> HIDE DEF j
    <2>2. job[r].part # "api"
      BY <1>1 DEF Paid, Between
    <2>3. Paid(r, j, awards, streak)
      BY <1>1, <2>1, <2>2 DEF Paid, Stages, AwardStages, Between
    <2> QED BY <1>1, <2>1, <2>3, PaidLocalStep
  <1> QED BY <1>2, <1>3

LEMMA StreakPaid ==
  ASSUME IInv, PInv, NEW r \in Requests, Advance(r) \/ CompareStreak(r) PROVE PInv'
  <1>1. /\ job[r] \in Job /\ job[r].stage \in {"advance", "compareStreak"}
        /\ Paid(r, job[r], awards, streak) /\ UNCHANGED <<awards, streak>>
    BY DEF IInv, TypeOK, PInv, Advance, CompareStreak, At, database
  <1>2. ASSUME NEW j, Become(r, j), j.stage \in {"compareStreak", "save"}, j.part = job[r].part,
               j.api = job[r].api, j.noHints = job[r].noHints, j.day = job[r].day
        PROVE  PInv'
    <2>1. Paid(r, j, awards, streak)
      BY <1>1, <1>2 DEF Paid, Stages, AwardStages, Between
    <2> QED BY <1>1, <1>2, <2>1, PaidLocalStep
  <1>3. CASE Advance(r)
    <2> DEFINE a == Advanced(streak, job[r].day)
               fresh == [job[r] EXCEPT !.stage = "save", !.fresh = TRUE, !.streak = a]
               known == [job[r] EXCEPT !.stage = "compareStreak", !.streak = a]
    <2>1. Become(r, fresh) \/ Become(r, known)
      BY <1>3 DEF Advance
    <2> HIDE DEF a
    <2>2. /\ fresh.stage = "save" /\ fresh.part = job[r].part /\ fresh.api = job[r].api
          /\ fresh.noHints = job[r].noHints /\ fresh.day = job[r].day
          /\ known.stage = "compareStreak" /\ known.part = job[r].part /\ known.api = job[r].api
          /\ known.noHints = job[r].noHints /\ known.day = job[r].day
      BY <1>1 DEF Job
    <2> HIDE DEF fresh, known
    <2> QED BY <2>1, <2>2, <1>2
  <1>4. CASE CompareStreak(r)
    <2> DEFINE columns == {"last"} \union
                            {c \in {"current"} : job[r].streak.current # streak.current}
               j == [job[r] EXCEPT !.stage = "save", !.columns = columns]
    <2>1. Become(r, j)
      BY <1>4 DEF CompareStreak
    <2> HIDE DEF columns
    <2>2. /\ j.stage = "save" /\ j.part = job[r].part /\ j.api = job[r].api
          /\ j.noHints = job[r].noHints /\ j.day = job[r].day
      BY <1>1 DEF Job
    <2> HIDE DEF j
    <2> QED BY <2>1, <2>2, <1>2
  <1> QED BY <1>3, <1>4

\* A save that succeeds leaves a row.
LEMMA SavedStreakTyped ==
  ASSUME IInv, NEW r \in Requests, job[r].stage = "save", ~ (job[r].fresh /\ streak # NoRow)
  PROVE  job[r].streak \in StreakRows /\ SavedStreak(r) \in StreakRows
  <1>1. job[r].streak \in StreakRows /\ (~job[r].fresh => streak \in StreakRows)
    BY DEF IInv, JobOK, TypeOK
  <1> QED BY <1>1 DEF SavedStreak, StreakRows

LEMMA SaveStreakPaid ==
  ASSUME IInv, PInv, NEW r \in Requests, SaveStreak(r) PROVE PInv'
  <1>1. /\ job[r] \in Job /\ job[r].stage = "save" /\ awards' = awards
        /\ Paid(r, job[r], awards, streak)
    BY DEF IInv, TypeOK, PInv, SaveStreak, At
  <1>2. CASE job[r].fresh /\ streak # NoRow
    BY <1>1, <1>2, AbandonPaid DEF SaveStreak
  <1>3. CASE ~ (job[r].fresh /\ streak # NoRow)
    <2>1. /\ streak' \in StreakRows /\ streak' # NoRow
          /\ job[r].streak # NoRow
      BY <1>1, <1>3, SavedStreakTyped, XpAssumption DEF SaveStreak
    <2>2. ASSUME NEW j, Become(r, j), j.part \in {job[r].part, "streak"},
                 \/ j.stage = "done" /\ j.streak.current \notin DOMAIN Milestones
                 \/ j.stage = "check" /\ j.part = "streak",
                 j.noHints = job[r].noHints, j.day = job[r].day, j.streak = job[r].streak
          PROVE  PInv'
      <3>1. job[r].part # "api" /\ j.part # "api"
        BY <1>1, <2>2 DEF Paid, Between
      <3>2. Paid(r, j, awards', streak')
        BY <1>1, <2>1, <2>2, <3>1 DEF Paid, Stages, Between
      <3> QED BY <1>1, <2>1, <2>2, <3>2, PaidStep
    <2>3. CASE job[r].streak.current \in DOMAIN Milestones
      <3> DEFINE j == [job[r] EXCEPT !.part = "streak", !.stage = "check", !.columns = {}]
      <3>1. Become(r, j)
        BY <1>3, <2>3 DEF SaveStreak
      <3>2. /\ j.part = "streak" /\ j.stage = "check" /\ j.noHints = job[r].noHints
            /\ j.day = job[r].day /\ j.streak = job[r].streak
        BY <1>1 DEF Job
      <3> HIDE DEF j
      <3> QED BY <3>1, <3>2, <2>2
    <2>4. CASE job[r].streak.current \notin DOMAIN Milestones
      <3> DEFINE j == Over(job[r], "done")
      <3>1. Become(r, j)
        BY <1>3, <2>4 DEF SaveStreak
      <3>2. /\ j.part = job[r].part /\ j.stage = "done" /\ j.noHints = job[r].noHints
            /\ j.day = job[r].day /\ j.streak = job[r].streak
        BY <1>1 DEF Job, Over
      <3> HIDE DEF j
      <3> QED BY <2>4, <3>1, <3>2, <2>2
    <2> QED BY <2>3, <2>4
  <1> QED BY <1>2, <1>3

LEMMA InitPInv == Init => PInv
  <1> SUFFICES ASSUME Init, NEW r \in Requests PROVE Paid(r, job[r], awards, streak)
    BY DEF PInv
  <1>1. job[r].stage = "new" /\ job[r].part = "base" /\ awards = {}
    BY DEF Init, NewJob
  <1> QED BY <1>1 DEF Paid, Keys, Stages, AwardStages, Between

LEMMA NextPInv == IInv /\ PInv /\ [Next]_vars => PInv'
  <1> SUFFICES ASSUME IInv, PInv, [Next]_vars PROVE PInv'
    OBVIOUS
  <1>1. ASSUME UNCHANGED <<job, awards, streak>> PROVE PInv'
    BY <1>1 DEF PInv
  <1>2. ASSUME NEW r \in Requests, Proceed(r) PROVE PInv'
    BY <1>2, CheckPaid, InsidePaid, CommitPaid, EmitPaid, CountPaid, StreakPaid, SaveStreakPaid
       DEF Proceed
  <1>3. ASSUME NEW r \in Requests, SolvePuzzle(r) \/ CallAward(r) \/ Fail(r) PROVE PInv'
    BY <1>3, SolvePuzzlePaid, CallAwardPaid, AbandonPaid DEF Fail, database
  <1>4. CASE UNCHANGED vars \/ GetMyLevel \/ NextDay
    BY <1>1, <1>4 DEF vars, database, GetMyLevel, NextDay
  <1> QED BY <1>2, <1>3, <1>4 DEF Next

\* However requests overlap and die, a completion that returns has made every award it
\* owed: each part has paid what comes before it.
THEOREM CompletionPaid == Spec => []DoneWasPaid
  <1>1. PInv => DoneWasPaid
    <2> SUFFICES ASSUME PInv, NEW r \in Requests, job[r].stage = "done", job[r].api = NoRow
                 PROVE  /\ <<"base", r>> \in Entered
                        /\ job[r].noHints => <<"nohints", r>> \in Entered
                        /\ DailyIn(awards, job[r].day)
                        /\ streak # NoRow /\ job[r].streak # NoRow
                        /\ job[r].streak.current \in DOMAIN Milestones =>
                             <<"streak", job[r].streak.current>> \in Entered
      BY DEF DoneWasPaid, At, DailyIn
    <2>1. Paid(r, job[r], awards, streak) /\ Keys(awards) = Entered
      BY DEF PInv, Keys, Entered
    <2>2. job[r].part # "api"
      BY <2>1 DEF Paid
    <2> QED BY <2>1, <2>2 DEF Paid, Between
  <1> QED BY <1>1, InitPInv, NextPInv, InductiveInvariant, PTL DEF Spec

-----------------------------------------------------------------------------
(* Streaks, of requests that do not overlap.                               *)

SolvedDays == {d \in Int : Solved(d)}

\* The days behind a streak s are among the days D.
EarnedIn(s, D) == \A k \in 0 .. (s.current - 1) : s.last - k \in D

HoldsStreak(j) ==
  j.stage \in {"compareStreak", "save"} \/ (j.stage \in AwardStages /\ j.part = "streak")

\* What a job j knows of the streak it is about to write or to be rewarded for.
KnowsStreak(j) ==
  /\ HoldsStreak(j) => EarnedIn(j.streak, SolvedDays)
  /\ j.stage = "save" /\ ~j.fresh /\ "current" \notin j.columns =>
       streak.current = j.streak.current

TInv ==
  /\ streak # NoRow => EarnedIn(streak, SolvedDays)
  /\ \A m \in DOMAIN Milestones :
       <<"streak", m>> \in Entered =>
         \E s \in StreakRows : s.current = m /\ EarnedIn(s, SolvedDays)
  /\ \A r \in Requests : KnowsStreak(job[r])

LEMMA EarnedStays ==
  ASSUME NEW s, NEW D, NEW E, D \subseteq E, EarnedIn(s, D) PROVE EarnedIn(s, E)
  BY DEF EarnedIn

\* A solution of a day makes of an earned streak another.
LEMMA AdvancedEarned ==
  ASSUME NEW row \in StreakRows \union {NoRow}, NEW day \in Days, NEW D, day \in D,
         row # NoRow => EarnedIn(row, D)
  PROVE  EarnedIn(Advanced(row, day), D)
  <1>1. day \in Int /\ MaxDay \in Nat
    BY XpAssumption DEF Days
  <1>2. EarnedIn([current |-> 1, last |-> day], D)
    BY <1>1 DEF EarnedIn
  <1>3. CASE row # NoRow /\ row.last = day - 1
    <2>1. row.current \in Nat \ {0} /\ row.last \in Int
      BY <1>3, <1>1 DEF StreakRows, Days
    <2> DEFINE s == [current |-> row.current + 1, last |-> day]
    <2>2. ASSUME NEW k \in 0 .. (s.current - 1) PROVE s.last - k \in D
      <3>1. CASE k = 0
        BY <3>1, <1>1
      <3>2. CASE k # 0
        <4>1. k - 1 \in 0 .. (row.current - 1) /\ row.last - (k - 1) = day - k
          BY <3>2, <2>1, <1>3, <1>1
        <4> QED BY <4>1, <1>3 DEF EarnedIn
      <3> QED BY <3>1, <3>2
    <2>3. EarnedIn(s, D)
      BY <2>2 DEF EarnedIn
    <2>4. Advanced(row, day) = s
      BY <1>3, <1>1 DEF Advanced
    <2> QED BY <2>3, <2>4
  <1>4. CASE row # NoRow /\ row.last = day
    <2>1. Advanced(row, day) = row
      BY <1>4, <1>1 DEF Advanced
    <2> QED BY <1>4, <2>1
  <1>5. CASE row = NoRow \/ (row # NoRow /\ row.last # day /\ row.last # day - 1)
    <2>1. Advanced(row, day) = [current |-> 1, last |-> day]
      BY <1>5, <1>1 DEF Advanced
    <2> QED BY <2>1, <1>2
  <1> QED BY <1>3, <1>4, <1>5

\* The day of a request that came stays.
LEMMA DaysStay ==
  ASSUME IInv, [Next]_vars, NEW s \in Requests, job[s].stage # "new"
  PROVE  job'[s].day = job[s].day
  <1>1. job \in [Requests -> Job] /\ job[s] \in Job
    BY DEF IInv, TypeOK
  <1>2. ASSUME NEW r \in Requests, NEW j, Become(r, j), r = s => j.day = job[s].day
        PROVE  job'[s].day = job[s].day
    BY <1>1, <1>2 DEF Become
  <1>3. ASSUME NEW stage PROVE [job[s] EXCEPT !.stage = stage].day = job[s].day
    BY <1>1 DEF Job
  <1>4. ASSUME NEW how PROVE Over(job[s], how).day = job[s].day
    BY <1>1 DEF Job, Over
  <1>5. AfterAward(job[s]).day = job[s].day
    <2>1. job[s].part \in {"base", "nohints", "daily", "streak", "api"}
          /\ job[s].noHints \in BOOLEAN
      BY <1>1 DEF Job
    <2> QED BY <1>1, <1>4, <2>1 DEF AfterAward, Job
  <1>6. ASSUME NEW r \in Requests, Goto(r, "create") \/ Goto(r, "compare") \/ Goto(r, "mirror")
                 \/ Goto(r, "commit") \/ Goto(r, "emit") \/ Goto(r, "advance")
        PROVE  job'[s].day = job[s].day
    <2>1. PICK stage : Goto(r, stage)
      BY <1>6
    <2> DEFINE j == [job[r] EXCEPT !.stage = stage]
    <2>2. Become(r, j)
      BY <2>1 DEF Goto
    <2>3. r = s => j.day = job[s].day
      BY <1>3
    <2> HIDE DEF j
    <2> QED BY <2>2, <2>3, <1>2
  <1>7. ASSUME NEW r \in Requests, Abandon(r) PROVE job'[s].day = job[s].day
    BY <1>2, <1>4, <1>7 DEF Abandon
  <1>8. ASSUME NEW r \in Requests, Become(r, AfterAward(job[r])) PROVE job'[s].day = job[s].day
    BY <1>2, <1>5, <1>8
  <1>9. ASSUME NEW r \in Requests, SolvePuzzle(r) \/ CallAward(r)
        PROVE  job'[s].day = job[s].day
    <2>1. r # s /\ \E j : Become(r, j)
      BY <1>9 DEF SolvePuzzle, CallAward, At
    <2> QED BY <1>2, <2>1
  <1>10. ASSUME NEW r \in Requests, Check(r) PROVE job'[s].day = job[s].day
    <2>1. CASE Event(r) \notin Entered
      <3> DEFINE j == [job[r] EXCEPT !.stage = "load", !.began = today]
      <3>1. Become(r, j)
        BY <1>10, <2>1 DEF Check
      <3>2. r = s => j.day = job[s].day
        BY <1>1 DEF Job
      <3> QED BY <3>1, <3>2, <1>2
    <2> QED BY <1>8, <1>10, <2>1 DEF Check
  <1>11. ASSUME NEW r \in Requests, Load(r) PROVE job'[s].day = job[s].day
    <2>1. CASE level # NoRow
      <3> DEFINE j == [job[r] EXCEPT !.stage = "insert", !.row = level]
      <3>1. Become(r, j)
        BY <1>11, <2>1 DEF Load
      <3>2. r = s => j.day = job[s].day
        BY <1>1 DEF Job
      <3> QED BY <3>1, <3>2, <1>2
    <2> QED BY <1>6, <1>11, <2>1 DEF Load
  <1>12. ASSUME NEW r \in Requests, Create(r) PROVE job'[s].day = job[s].day
    <2>1. CASE level = NoRow
      <3> DEFINE j == [job[r] EXCEPT !.stage = "insert", !.row = LevelRow(0), !.created = TRUE]
      <3>1. Become(r, j)
        BY <1>12, <2>1 DEF Create
      <3>2. r = s => j.day = job[s].day
        BY <1>1 DEF Job
      <3> QED BY <3>1, <3>2, <1>2
    <2> QED BY <1>7, <1>12, <2>1 DEF Create
  <1>13. ASSUME NEW r \in Requests, Compare(r) PROVE job'[s].day = job[s].day
    <2> DEFINE j == [job[r] EXCEPT !.stage = "update", !.columns = Changed(r)]
    <2>1. Become(r, j)
      BY <1>13 DEF Compare
    <2>2. r = s => j.day = job[s].day
      BY <1>1 DEF Job
    <2> QED BY <2>1, <2>2, <1>2
  <1>14. ASSUME NEW r \in Requests, Count(r) PROVE job'[s].day = job[s].day
    <2> DEFINE j == [job[r] EXCEPT !.part = "daily", !.stage = "check"]
    <2>1. r = s => j.day = job[s].day
      BY <1>1 DEF Job
    <2>2. Become(r, j) \/ Goto(r, "advance")
      BY <1>14 DEF Count
    <2> QED BY <2>1, <2>2, <1>2, <1>6
  <1>15. ASSUME NEW r \in Requests, Advance(r) PROVE job'[s].day = job[s].day
    <2> DEFINE a == Advanced(streak, job[r].day)
               fresh == [job[r] EXCEPT !.stage = "save", !.fresh = TRUE, !.streak = a]
               known == [job[r] EXCEPT !.stage = "compareStreak", !.streak = a]
    <2>1. Become(r, fresh) \/ Become(r, known)
      BY <1>15 DEF Advance
    <2> HIDE DEF a
    <2>2. r = s => fresh.day = job[s].day /\ known.day = job[s].day
      BY <1>1 DEF Job
    <2> HIDE DEF fresh, known
    <2> QED BY <2>1, <2>2, <1>2
  <1>16. ASSUME NEW r \in Requests, CompareStreak(r) PROVE job'[s].day = job[s].day
    <2> DEFINE columns == {"last"} \union
                            {c \in {"current"} : job[r].streak.current # streak.current}
               j == [job[r] EXCEPT !.stage = "save", !.columns = columns]
    <2>1. Become(r, j)
      BY <1>16 DEF CompareStreak
    <2> HIDE DEF columns
    <2>2. r = s => j.day = job[s].day
      BY <1>1 DEF Job
    <2> HIDE DEF j
    <2> QED BY <2>1, <2>2, <1>2
  <1>17. ASSUME NEW r \in Requests, SaveStreak(r) PROVE job'[s].day = job[s].day
    <2> DEFINE j == [job[r] EXCEPT !.part = "streak", !.stage = "check", !.columns = {}]
               k == Over(job[r], "done")
    <2>1. r = s => j.day = job[s].day /\ k.day = job[s].day
      BY <1>1, <1>4 DEF Job
    <2>2. Become(r, j) \/ Become(r, k) \/ Abandon(r)
      BY <1>17 DEF SaveStreak
    <2> HIDE DEF j, k
    <2> QED BY <2>1, <2>2, <1>2, <1>7
  <1>18. ASSUME NEW r \in Requests, Proceed(r) PROVE job'[s].day = job[s].day
    <2>1. CASE Insert(r) \/ Update(r) \/ Mirror(r)
      BY <1>6, <1>7, <2>1 DEF Insert, Update, Mirror
    <2>2. CASE Commit(r)
      BY <1>6, <1>8, <2>2 DEF Commit
    <2>3. CASE Emit(r)
      BY <1>8, <2>3 DEF Emit
    <2> QED BY <1>10, <1>11, <1>12, <1>13, <1>14, <1>15, <1>16, <1>17, <1>18, <2>1, <2>2, <2>3
            DEF Proceed
  <1>19. ASSUME UNCHANGED job PROVE job'[s].day = job[s].day
    BY <1>19
  <1> QED BY <1>7, <1>9, <1>18, <1>19 DEF Next, Fail, GetMyLevel, NextDay, vars

LEMMA EnteredGrows ==
  ASSUME [Next]_vars PROVE awards \subseteq awards'
  BY DEF Next, vars, database, Proceed, Check, Load, Create, Insert, Compare, Update, Mirror,
         Commit, Emit, Count, Advance, CompareStreak, SaveStreak, SolvePuzzle, CallAward, Fail,
         GetMyLevel, NextDay

\* A day that was solved stays solved.
LEMMA SolvedStays ==
  ASSUME IInv, PInv, [Next]_vars PROVE SolvedDays \subseteq SolvedDays'
  <1> SUFFICES ASSUME NEW d \in Int, Solved(d) PROVE Solved(d)'
    BY DEF SolvedDays
  <1>1. PICK r \in Requests : job[r].day = d /\ <<"base", r>> \in Entered
    BY DEF Solved
  <1>2. job[r].stage # "new"
    BY <1>1 DEF PInv, Paid, Keys, Entered
  <1>3. job'[r].day = d
    BY <1>1, <1>2, DaysStay
  <1>4. <<"base", r>> \in Entered'
    BY <1>1, EnteredGrows DEF Entered
  <1> QED BY <1>3, <1>4 DEF Solved

\* A step of one request to a job j that knows its streak.
LEMMA TStep ==
  ASSUME IInv, PInv, TInv, [Next]_vars, NEW r \in Requests, NEW j, Become(r, j),
         streak' = streak \/ \A s \in Others(r) : job[s].stage # "save",
         streak' # NoRow => EarnedIn(streak', SolvedDays'),
         \A m \in DOMAIN Milestones :
           <<"streak", m>> \in Entered' =>
             \/ <<"streak", m>> \in Entered
             \/ \E s \in StreakRows : s.current = m /\ EarnedIn(s, SolvedDays),
         KnowsStreak(j)'
  PROVE  TInv'
  <1>1. SolvedDays \subseteq SolvedDays'
    BY SolvedStays
  <1>2. /\ job'[r] = j /\ \A s \in Others(r) : job'[s] = job[s]
        /\ Requests = Others(r) \union {r}
    BY DEF Become, Others, IInv, TypeOK
  <1>3. ASSUME NEW s, EarnedIn(s, SolvedDays) PROVE EarnedIn(s, SolvedDays')
    BY <1>1, <1>3, EarnedStays
  <1>4. ASSUME NEW s \in Others(r) PROVE KnowsStreak(job[s])'
    <2>1. KnowsStreak(job[s]) /\ job'[s] = job[s]
      BY <1>2 DEF TInv
    <2>2. HoldsStreak(job'[s]) => EarnedIn(job'[s].streak, SolvedDays')
      BY <1>3, <2>1 DEF KnowsStreak
    <2>3. job'[s].stage = "save" /\ ~job'[s].fresh /\ "current" \notin job'[s].columns =>
            streak'.current = job'[s].streak.current
      BY <2>1 DEF KnowsStreak
    <2> QED BY <2>2, <2>3 DEF KnowsStreak
  <1>5. ASSUME NEW s \in Requests PROVE KnowsStreak(job[s])'
    <2>1. CASE s = r
      BY <1>2, <2>1 DEF KnowsStreak, HoldsStreak
    <2> QED BY <1>2, <1>4, <2>1
  <1>6. ASSUME NEW m \in DOMAIN Milestones, <<"streak", m>> \in Entered'
        PROVE  \E s \in StreakRows : s.current = m /\ EarnedIn(s, SolvedDays')
    BY <1>3, <1>6 DEF TInv
  <1> QED BY <1>5, <1>6 DEF TInv, EarnedIn

\* A step that leaves the streak and the awards alone.
LEMMA TQuiet ==
  ASSUME IInv, PInv, TInv, [Next]_vars, NEW r \in Requests, NEW j, Become(r, j),
         UNCHANGED <<streak, awards>>,
         HoldsStreak(j) => EarnedIn(j.streak, SolvedDays),
         j.stage = "save" /\ ~j.fresh /\ "current" \notin j.columns =>
           streak.current = j.streak.current
  PROVE  TInv'
  <1>1. SolvedDays \subseteq SolvedDays' /\ Entered' = Entered
    BY SolvedStays DEF Entered
  <1>2. KnowsStreak(j)'
    BY <1>1, EarnedStays DEF KnowsStreak
  <1>3. streak' # NoRow => EarnedIn(streak', SolvedDays')
    BY <1>1, EarnedStays DEF TInv
  <1> QED BY <1>1, <1>2, <1>3, TStep

LEMMA NothingHeld ==
  ASSUME NEW j \in Job
  PROVE  /\ ~HoldsStreak(AfterAward(j)) /\ AfterAward(j).stage # "save"
         /\ \A how \in Ended : ~HoldsStreak(Over(j, how)) /\ Over(j, how).stage # "save"
  <1>1. ASSUME NEW how \in Ended
        PROVE  ~HoldsStreak(Over(j, how)) /\ Over(j, how).stage # "save"
    <2>1. Over(j, how).stage = how
      BY DEF Over, Job
    <2> QED BY <2>1 DEF Ended, HoldsStreak, AwardStages
  <1>2. CASE j.part \in {"streak", "api"}
    BY <1>1, <1>2 DEF AfterAward, Ended
  <1> DEFINE k == AfterAward(j)
  <1>3. CASE j.part = "base" /\ j.noHints
    <2>1. k.part = "nohints" /\ k.stage = "check"
      BY <1>3 DEF AfterAward, Job
    <2> QED BY <1>1, <2>1 DEF HoldsStreak
  <1>4. CASE j.part = "nohints" \/ (j.part = "base" /\ ~j.noHints)
    <2>1. k.stage = "count"
      BY <1>4 DEF AfterAward, Job
    <2> QED BY <1>1, <2>1 DEF HoldsStreak, AwardStages
  <1>5. CASE j.part = "daily"
    <2>1. k.stage = "advance"
      BY <1>5 DEF AfterAward, Job
    <2> QED BY <1>1, <2>1 DEF HoldsStreak, AwardStages
  <1> QED BY <1>1, <1>2, <1>3, <1>4, <1>5 DEF Job

LEMMA StartTInv ==
  ASSUME IInv, PInv, TInv, [Next]_vars, NEW r \in Requests, SolvePuzzle(r) \/ CallAward(r)
  PROVE  TInv'
  <1>1. \E j : Become(r, j) /\ j.stage = "check" /\ j.part \in {"base", "api"}
    <2>1. CASE SolvePuzzle(r)
      <3>1. PICK noHints \in BOOLEAN :
              Become(r, [NewJob EXCEPT !.stage = "check", !.noHints = noHints, !.day = today])
        BY <2>1 DEF SolvePuzzle
      <3> DEFINE j == [NewJob EXCEPT !.stage = "check", !.noHints = noHints, !.day = today]
      <3>2. j.stage = "check" /\ j.part = "base"
        BY DEF NewJob
      <3> QED BY <3>1, <3>2
    <2>2. CASE CallAward(r)
      <3>1. PICK e \in ApiEvents :
              Become(r, [NewJob EXCEPT !.stage = "check", !.part = "api", !.api = e,
                                       !.day = today])
        BY <2>2 DEF CallAward
      <3> DEFINE j == [NewJob EXCEPT !.stage = "check", !.part = "api", !.api = e, !.day = today]
      <3>2. j.stage = "check" /\ j.part = "api"
        BY DEF NewJob
      <3> QED BY <3>1, <3>2
    <2> QED BY <2>1, <2>2
  <1>2. PICK j : Become(r, j) /\ j.stage = "check" /\ j.part \in {"base", "api"}
    BY <1>1
  <1>3. ~HoldsStreak(j) /\ j.stage # "save"
    BY <1>2 DEF HoldsStreak
  <1>4. UNCHANGED <<streak, awards>>
    BY DEF SolvePuzzle, CallAward, database
  <1> QED BY <1>2, <1>3, <1>4, TQuiet

LEMMA AbandonTInv ==
  ASSUME IInv, PInv, TInv, [Next]_vars, NEW r \in Requests, Abandon(r),
         UNCHANGED <<streak, awards>>
  PROVE  TInv'
  <1>1. job[r] \in Job /\ "failed" \in Ended
    BY DEF IInv, TypeOK, Ended
  <1>2. ~HoldsStreak(Over(job[r], "failed")) /\ Over(job[r], "failed").stage # "save"
    BY <1>1, NothingHeld
  <1> QED BY <1>2, TQuiet DEF Abandon

\* The steps inside an award that stay in it.
LEMMA AwardTInv ==
  ASSUME IInv, PInv, TInv, [Next]_vars, NEW r \in Requests,
         NEW j, Become(r, j), UNCHANGED <<streak, awards>>,
         job[r].stage \in AwardStages, j.stage \in AwardStages,
         j.part = job[r].part, j.streak = job[r].streak
  PROVE  TInv'
  <1>1. HoldsStreak(j) => EarnedIn(j.streak, SolvedDays)
    BY DEF HoldsStreak, AwardStages, TInv, KnowsStreak
  <1>2. j.stage # "save"
    BY DEF AwardStages
  <1> QED BY <1>1, <1>2, TQuiet

LEMMA InsideTInv ==
  ASSUME IInv, PInv, TInv, [Next]_vars, NEW r \in Requests,
         Check(r) \/ Load(r) \/ Create(r) \/ Insert(r) \/ Compare(r) \/ Update(r) \/ Mirror(r)
           \/ Emit(r)
  PROVE  TInv'
  <1>1. job[r] \in Job /\ job[r].stage \in AwardStages /\ UNCHANGED <<streak, awards>>
    BY DEF IInv, TypeOK, AwardStages, At, database, Check, Load, Create, Insert, Compare, Update,
           Mirror, Emit
  <1>2. ASSUME Become(r, AfterAward(job[r])) PROVE TInv'
    <2>1. ~HoldsStreak(AfterAward(job[r])) /\ AfterAward(job[r]).stage # "save"
      BY <1>1, NothingHeld
    <2> QED BY <1>1, <1>2, <2>1, TQuiet
  <1>3. ASSUME NEW stage \in {"create", "compare", "mirror", "commit"}, Goto(r, stage)
        PROVE  TInv'
    <2> DEFINE j == [job[r] EXCEPT !.stage = stage]
    <2>1. Become(r, j) /\ j.stage \in AwardStages /\ j.part = job[r].part
          /\ j.streak = job[r].streak
      BY <1>1, <1>3 DEF Goto, Job, AwardStages
    <2> HIDE DEF j
    <2> QED BY <1>1, <2>1, AwardTInv
  <1>4. ASSUME Abandon(r) PROVE TInv'
    BY <1>1, <1>4, AbandonTInv
  <1>5. CASE Check(r)
    <2>1. CASE Event(r) \notin Entered
      <3> DEFINE j == [job[r] EXCEPT !.stage = "load", !.began = today]
      <3>1. Become(r, j)
        BY <1>5, <2>1 DEF Check
      <3>2. j.stage \in AwardStages /\ j.part = job[r].part /\ j.streak = job[r].streak
        BY <1>1 DEF Job, AwardStages
      <3> HIDE DEF j
      <3> QED BY <1>1, <3>1, <3>2, AwardTInv
    <2> QED BY <1>2, <1>5, <2>1 DEF Check
  <1>6. CASE Load(r)
    <2>1. CASE level # NoRow
      <3> DEFINE j == [job[r] EXCEPT !.stage = "insert", !.row = level]
      <3>1. Become(r, j)
        BY <1>6, <2>1 DEF Load
      <3>2. j.stage \in AwardStages /\ j.part = job[r].part /\ j.streak = job[r].streak
        BY <1>1 DEF Job, AwardStages
      <3> HIDE DEF j
      <3> QED BY <1>1, <3>1, <3>2, AwardTInv
    <2> QED BY <1>3, <1>6, <2>1 DEF Load
  <1>7. CASE Create(r)
    <2>1. CASE level = NoRow
      <3> DEFINE j == [job[r] EXCEPT !.stage = "insert", !.row = LevelRow(0), !.created = TRUE]
      <3>1. Become(r, j)
        BY <1>7, <2>1 DEF Create
      <3>2. j.stage \in AwardStages /\ j.part = job[r].part /\ j.streak = job[r].streak
        BY <1>1 DEF Job, AwardStages
      <3> HIDE DEF j
      <3> QED BY <1>1, <3>1, <3>2, AwardTInv
    <2> QED BY <1>4, <1>7, <2>1 DEF Create
  <1>8. CASE Compare(r)
    <2> DEFINE j == [job[r] EXCEPT !.stage = "update", !.columns = Changed(r)]
    <2>1. Become(r, j)
      BY <1>8 DEF Compare
    <2>2. j.stage \in AwardStages /\ j.part = job[r].part /\ j.streak = job[r].streak
      BY <1>1 DEF Job, AwardStages
    <2> HIDE DEF j
    <2> QED BY <1>1, <2>1, <2>2, AwardTInv
  <1>9. CASE Insert(r) \/ Update(r) \/ Mirror(r)
    BY <1>3, <1>4, <1>9 DEF Insert, Update, Mirror
  <1>10. CASE Emit(r)
    BY <1>2, <1>10 DEF Emit
  <1> QED BY <1>5, <1>6, <1>7, <1>8, <1>9, <1>10

LEMMA CommitTInv ==
  ASSUME IInv, PInv, TInv, [Next]_vars, NEW r \in Requests, Commit(r) PROVE TInv'
  <1>1. /\ job[r] \in Job /\ job[r].stage = "commit" /\ streak' = streak
        /\ awards' = awards \union {[event |-> Event(r), created |-> job[r].began]}
    BY DEF IInv, TypeOK, Commit, At
  <1>2. SolvedDays \subseteq SolvedDays'
    BY SolvedStays
  <1>3. HoldsStreak(job[r]) => EarnedIn(job[r].streak, SolvedDays)
    BY DEF TInv, KnowsStreak
  <1>4. ASSUME NEW m \in DOMAIN Milestones, <<"streak", m>> \in Entered'
        PROVE  \/ <<"streak", m>> \in Entered
               \/ \E s \in StreakRows : s.current = m /\ EarnedIn(s, SolvedDays)
    <2>1. CASE <<"streak", m>> = Event(r)
      <3>1. job[r].part = "streak" /\ job[r].streak.current = m
        BY <1>1, <2>1 DEF Event, Job
      <3>2. job[r].streak \in StreakRows
        BY <1>1, <3>1 DEF IInv, JobOK, AwardStages
      <3>3. HoldsStreak(job[r])
        BY <1>1, <3>1 DEF HoldsStreak, AwardStages
      <3> QED BY <1>3, <3>1, <3>2, <3>3
    <2>2. CASE <<"streak", m>> # Event(r)
      <3> DEFINE a == [event |-> Event(r), created |-> job[r].began]
      <3>1. a.event = Event(r) /\ awards' = awards \union {a}
        BY <1>1
      <3> HIDE DEF a
      <3> QED BY <1>4, <2>2, <3>1 DEF Entered
    <2> QED BY <2>1, <2>2
  <1>5. \E j : /\ Become(r, j) /\ j.stage # "save"
               /\ HoldsStreak(j) => EarnedIn(j.streak, SolvedDays)
    <2>1. CASE LeveledUp(r)
      <3> DEFINE j == [job[r] EXCEPT !.stage = "emit"]
      <3>1. Become(r, j)
        BY <2>1 DEF Commit, Goto
      <3>2. j.stage = "emit" /\ j.part = job[r].part /\ j.streak = job[r].streak
        BY <1>1 DEF Job
      <3> HIDE DEF j
      <3> QED BY <1>1, <1>3, <3>1, <3>2 DEF HoldsStreak, AwardStages
    <2>2. CASE ~LeveledUp(r)
      BY <1>1, <2>2, NothingHeld DEF Commit
    <2> QED BY <2>1, <2>2
  <1>6. PICK j : /\ Become(r, j) /\ j.stage # "save"
                 /\ HoldsStreak(j) => EarnedIn(j.streak, SolvedDays)
    BY <1>5
  <1>7. KnowsStreak(j)'
    BY <1>2, <1>6, EarnedStays DEF KnowsStreak
  <1>8. streak' # NoRow => EarnedIn(streak', SolvedDays')
    BY <1>1, <1>2, EarnedStays DEF TInv
  <1> QED BY <1>1, <1>4, <1>6, <1>7, <1>8, TStep

LEMMA CountTInv ==
  ASSUME IInv, PInv, TInv, [Next]_vars, NEW r \in Requests, Count(r) PROVE TInv'
  <1>1. job[r] \in Job /\ UNCHANGED <<streak, awards>>
    BY DEF IInv, TypeOK, Count, database
  <1>2. \E j : Become(r, j) /\ (j.stage = "advance" \/ (j.stage = "check" /\ j.part = "daily"))
    <2> DEFINE go == [job[r] EXCEPT !.stage = "advance"]
               pay == [job[r] EXCEPT !.part = "daily", !.stage = "check"]
    <2>1. Become(r, go) \/ Become(r, pay)
      BY DEF Count, Goto
    <2>2. go.stage = "advance" /\ pay.stage = "check" /\ pay.part = "daily"
      BY <1>1 DEF Job
    <2> HIDE DEF go, pay
    <2> QED BY <2>1, <2>2
  <1>3. PICK j : /\ Become(r, j)
                 /\ j.stage = "advance" \/ (j.stage = "check" /\ j.part = "daily")
    BY <1>2
  <1>4. ~HoldsStreak(j) /\ j.stage # "save"
    BY <1>3 DEF HoldsStreak, AwardStages
  <1> QED BY <1>1, <1>3, <1>4, TQuiet

\* The day of a request whose base award is entered was solved.
LEMMA AdvanceTInv ==
  ASSUME IInv, PInv, TInv, [Next]_vars, NEW r \in Requests, Advance(r) PROVE TInv'
  <1>1. /\ job[r] \in Job /\ job[r].stage = "advance" /\ UNCHANGED <<streak, awards>>
        /\ streak \in StreakRows \union {NoRow} /\ job[r].day \in Days /\ job[r].day \in Int
    BY DEF IInv, TypeOK, Advance, At, database, Job, Days
  <1>2. job[r].day \in SolvedDays
    <2>1. Paid(r, job[r], awards, streak) /\ Keys(awards) = Entered
      BY DEF PInv, Keys, Entered
    <2>2. <<"base", r>> \in Entered
      BY <1>1, <2>1 DEF Paid, Between, Stages
    <2> QED BY <1>1, <2>2 DEF SolvedDays, Solved
  <1> DEFINE a == Advanced(streak, job[r].day)
             fresh == [job[r] EXCEPT !.stage = "save", !.fresh = TRUE, !.streak = a]
             known == [job[r] EXCEPT !.stage = "compareStreak", !.streak = a]
  <1>3. EarnedIn(a, SolvedDays)
    BY <1>1, <1>2, AdvancedEarned DEF TInv
  <1>4. Become(r, fresh) \/ Become(r, known)
    BY DEF Advance
  <1> HIDE DEF a
  <1>5. /\ fresh.stage = "save" /\ fresh.fresh /\ fresh.streak = a
        /\ known.stage = "compareStreak" /\ known.streak = a
    BY <1>1 DEF Job
  <1> HIDE DEF fresh, known
  <1>6. CASE Become(r, fresh)
    BY <1>1, <1>3, <1>5, <1>6, TQuiet
  <1>7. CASE Become(r, known)
    BY <1>1, <1>3, <1>5, <1>7, TQuiet
  <1> QED BY <1>4, <1>6, <1>7

LEMMA CompareStreakTInv ==
  ASSUME IInv, PInv, TInv, [Next]_vars, NEW r \in Requests, CompareStreak(r) PROVE TInv'
  <1>1. job[r] \in Job /\ job[r].stage = "compareStreak" /\ UNCHANGED <<streak, awards>>
    BY DEF IInv, TypeOK, CompareStreak, At, database
  <1> DEFINE columns == {"last"} \union
                          {c \in {"current"} : job[r].streak.current # streak.current}
             j == [job[r] EXCEPT !.stage = "save", !.columns = columns]
  <1>2. Become(r, j)
    BY DEF CompareStreak
  <1>3. "current" \notin columns => streak.current = job[r].streak.current
    OBVIOUS
  <1> HIDE DEF columns
  <1>4. j.stage = "save" /\ j.columns = columns /\ j.streak = job[r].streak
    BY <1>1 DEF Job
  <1>5. EarnedIn(job[r].streak, SolvedDays)
    BY <1>1 DEF TInv, KnowsStreak, HoldsStreak
  <1> HIDE DEF j
  <1> QED BY <1>1, <1>2, <1>3, <1>4, <1>5, TQuiet

\* Nobody changed the row since the entity was compared with it: the row becomes the entity.
LEMMA SaveStreakTInv ==
  ASSUME OneAtATime, IInv, PInv, TInv, [Next]_vars, NEW r \in Requests, SaveStreak(r) PROVE TInv'
  <1>1. /\ job[r] \in Job /\ job[r].stage = "save" /\ awards' = awards /\ Entered' = Entered
        /\ EarnedIn(job[r].streak, SolvedDays)
    BY DEF IInv, TypeOK, SaveStreak, At, TInv, KnowsStreak, HoldsStreak, Entered
  <1>2. SolvedDays \subseteq SolvedDays'
    BY SolvedStays
  <1>3. EarnedIn(job[r].streak, SolvedDays')
    BY <1>1, <1>2, EarnedStays
  <1>4. CASE job[r].fresh /\ streak # NoRow
    BY <1>1, <1>4, AbandonTInv DEF SaveStreak
  <1>5. CASE ~ (job[r].fresh /\ streak # NoRow)
    <2>1. streak' = SavedStreak(r) /\ job[r].streak \in StreakRows
      BY <1>1, <1>5, SavedStreakTyped DEF SaveStreak
    <2>2. SavedStreak(r) = job[r].streak
      <3>1. CASE job[r].fresh \/ "current" \in job[r].columns
        BY <3>1 DEF SavedStreak
      <3>2. CASE ~ (job[r].fresh \/ "current" \in job[r].columns)
        <4>1. streak \in StreakRows /\ streak.current = job[r].streak.current
          BY <1>1, <3>2 DEF IInv, JobOK, TypeOK, TInv, KnowsStreak
        <4> QED BY <2>1, <3>2, <4>1 DEF SavedStreak, StreakRows
      <3> QED BY <3>1, <3>2
    <2>3. \A s \in Others(r) : job[s].stage # "save"
      BY <1>1 DEF OneAtATime, InFlight, Others, Stages
    <2>4. \E j : /\ Become(r, j) /\ j.stage # "save"
                 /\ HoldsStreak(j) => j.streak = job[r].streak
      <3>1. CASE job[r].streak.current \in DOMAIN Milestones
        <4> DEFINE j == [job[r] EXCEPT !.part = "streak", !.stage = "check", !.columns = {}]
        <4>1. Become(r, j)
          BY <1>5, <3>1 DEF SaveStreak
        <4>2. j.stage = "check" /\ j.streak = job[r].streak
          BY <1>1 DEF Job
        <4> HIDE DEF j
        <4> QED BY <4>1, <4>2
      <3>2. CASE job[r].streak.current \notin DOMAIN Milestones
        <4>1. Become(r, Over(job[r], "done")) /\ "done" \in Ended
          BY <1>5, <3>2 DEF SaveStreak, Ended
        <4> QED BY <1>1, <4>1, NothingHeld
      <3> QED BY <3>1, <3>2
    <2>5. PICK j : /\ Become(r, j) /\ j.stage # "save"
                   /\ HoldsStreak(j) => j.streak = job[r].streak
      BY <2>4
    <2>6. KnowsStreak(j)'
      BY <1>3, <2>5 DEF KnowsStreak
    <2>7. streak' # NoRow => EarnedIn(streak', SolvedDays')
      BY <1>3, <2>1, <2>2
    <2> QED BY <1>1, <2>3, <2>5, <2>6, <2>7, TStep
  <1> QED BY <1>4, <1>5

LEMMA InitTInv == Init => TInv
  <1> SUFFICES ASSUME Init PROVE TInv
    OBVIOUS
  <1>1. streak = NoRow /\ Entered = {} /\ \A r \in Requests : job[r].stage = "new"
    BY DEF Init, Entered, NewJob
  <1>2. \A r \in Requests : KnowsStreak(job[r])
    BY <1>1 DEF KnowsStreak, HoldsStreak, AwardStages
  <1> QED BY <1>1, <1>2 DEF TInv

LEMMA NextTInv == OneAtATime /\ IInv /\ PInv /\ TInv /\ [Next]_vars => TInv'
  <1> SUFFICES ASSUME OneAtATime, IInv, PInv, TInv, [Next]_vars PROVE TInv'
    OBVIOUS
  <1>1. ASSUME UNCHANGED <<job, awards, streak>> PROVE TInv'
    BY <1>1 DEF TInv, KnowsStreak, HoldsStreak, EarnedIn, SolvedDays, Solved, Entered
  <1>2. ASSUME NEW r \in Requests, Proceed(r) PROVE TInv'
    BY <1>2, InsideTInv, CommitTInv, CountTInv, AdvanceTInv, CompareStreakTInv, SaveStreakTInv
       DEF Proceed
  <1>3. ASSUME NEW r \in Requests, SolvePuzzle(r) \/ CallAward(r) \/ Fail(r) PROVE TInv'
    BY <1>3, StartTInv, AbandonTInv DEF Fail, database
  <1>4. CASE UNCHANGED vars \/ GetMyLevel \/ NextDay
    BY <1>1, <1>4 DEF vars, database, GetMyLevel, NextDay
  <1> QED BY <1>2, <1>3, <1>4 DEF Next

\* Of requests that do not overlap: whatever fails on the way and wherever midnight falls,
\* advanceStreak never counts a day on which the player solved nothing.
THEOREM StreaksAreEarned == ASSUME MaxInFlight = 1 PROVE Spec => []StreakIsEarned
  <1>1. TInv => StreakIsEarned
    BY DEF TInv, StreakIsEarned, EarnedIn, SolvedDays
  <1>2. SInv /\ IInv /\ [Next]_vars => SInv'
    BY NextSInv
  <1>3. SInv => OneAtATime
    BY DEF SInv
  <1> QED BY <1>1, <1>2, <1>3, InitSInv, InitPInv, InitTInv, NextPInv, NextTInv,
             InductiveInvariant, PTL DEF Spec

\* Nor does a bonus for m days in a row reach a player who did not solve on m such days.
THEOREM MilestonesAreEarned == ASSUME MaxInFlight = 1 PROVE Spec => []MilestoneIsEarned
  <1>1. TInv => MilestoneIsEarned
    <2> SUFFICES ASSUME TInv, NEW m \in DOMAIN Milestones, <<"streak", m>> \in Entered
                 PROVE  \E d \in Days : \A k \in 0 .. (m - 1) : Solved(d - k)
      BY DEF MilestoneIsEarned
    <2>1. PICK s \in StreakRows : s.current = m /\ EarnedIn(s, SolvedDays)
      BY DEF TInv
    <2>2. s.last \in Days /\ \A k \in 0 .. (m - 1) : Solved(s.last - k)
      BY <2>1 DEF StreakRows, EarnedIn, SolvedDays
    <2> QED BY <2>2
  <1>2. SInv /\ IInv /\ [Next]_vars => SInv'
    BY NextSInv
  <1>3. SInv => OneAtATime
    BY DEF SInv
  <1> QED BY <1>1, <1>2, <1>3, InitSInv, InitPInv, InitTInv, NextPInv, NextTInv,
             InductiveInvariant, PTL DEF Spec

-----------------------------------------------------------------------------
(* Announcements, of requests that do not overlap.                         *)

AInv ==
  /\ \A l \in DOMAIN Thresholds :
       announced[l] <= 1 /\ (announced[l] > 0 => l <= LevelOf(granted))
  /\ \A r \in Requests :
       job[r].stage = "emit" =>
         Raised(r).level = LevelOf(granted) /\ announced[LevelOf(granted)] = 0

LEMMA LevelsGrow ==
  ASSUME NEW x \in Nat, NEW y \in Nat, x <= y
  PROVE  /\ LevelOf(x) <= LevelOf(y)
         /\ LevelOf(x) \in DOMAIN Thresholds /\ LevelOf(y) \in DOMAIN Thresholds
  <1>1. /\ LevelOf(x) \in DOMAIN Thresholds /\ Thresholds[LevelOf(x)] <= x
        /\ LevelOf(y) \in DOMAIN Thresholds
        /\ \A m \in DOMAIN Thresholds : Thresholds[m] <= y => m <= LevelOf(y)
    BY LevelReached
  <1>2. Thresholds[LevelOf(x)] \in Nat
    BY <1>1, XpAssumption
  <1> QED BY <1>1, <1>2

\* A step that announces nothing and does not come to an announcement.
LEMMA AQuiet ==
  ASSUME IInv, AInv, NEW r \in Requests, NEW j, Become(r, j), j.stage # "emit",
         UNCHANGED <<granted, announced>>
  PROVE  AInv'
  <1>1. /\ job'[r] = j /\ \A s \in Others(r) : job'[s] = job[s]
        /\ Requests = Others(r) \union {r}
    BY DEF Become, Others, IInv, TypeOK
  <1>2. ASSUME NEW s \in Requests, job'[s].stage = "emit"
        PROVE  (Raised(s).level = LevelOf(granted) /\ announced[LevelOf(granted)] = 0)'
    <2>1. job'[s] = job[s]
      BY <1>1, <1>2
    <2>2. Raised(s)' = Raised(s)
      BY <2>1 DEF Raised, Event
    <2>3. LevelOf(granted)' = LevelOf(granted)
      BY DEF LevelOf
    <2> QED BY <1>2, <2>1, <2>2, <2>3 DEF AInv
  <1>3. LevelOf(granted)' = LevelOf(granted)
    BY DEF LevelOf
  <1> QED BY <1>2, <1>3 DEF AInv

\* The level a COMMIT raises the player to was not announced.
LEMMA CommitAInv ==
  ASSUME SInv, IInv, AInv, NEW r \in Requests, Commit(r) PROVE AInv'
  <1>1. /\ job[r] \in Job /\ job[r].stage = "commit" /\ RowKnown(r) /\ r \in InFlight
        /\ job \in [Requests -> Job] /\ announced' = announced /\ granted \in Nat
        /\ announced \in [DOMAIN Thresholds -> Nat]
    BY DEF IInv, TypeOK, SInv, Commit, At, InFlight, Stages, AwardStages
  <1> DEFINE sum == granted + Worth(Event(r))
  <1>2. granted' = sum /\ sum \in Nat /\ granted <= sum
    <2>1. Event(r) \notin Entered
      BY <1>1, InsertedKeyFree DEF Inserted, KeyFree
    <2>2. Worth(Event(r)) \in Nat
      BY <1>1, EventTyped DEF AwardStages
    <2> QED BY <1>1, <2>1, <2>2 DEF Commit
  <1>3. Raised(r) = LevelRow(sum)
    BY <1>1, SavedIsRaised
  <1> HIDE DEF sum
  <1>4. Raised(r).level = LevelOf(sum)
    BY <1>2, <1>3, LevelRowTyped
  <1>5. /\ LevelOf(granted) <= LevelOf(sum)
        /\ LevelOf(granted) \in DOMAIN Thresholds /\ LevelOf(sum) \in DOMAIN Thresholds
    BY <1>1, <1>2, LevelsGrow
  <1>6. LevelOf(granted) \in Nat /\ LevelOf(sum) \in Nat /\ DOMAIN Thresholds \subseteq Nat
    BY <1>5, XpAssumption
  <1>7. job[r].row.level = LevelOf(granted)
    <2>1. job[r].row = LevelRow(granted)
      BY <1>1, XpAssumption DEF SInv, RowKnown, RowsAgree, RowStages, IInv, JobOK
    <2> QED BY <1>1, <2>1, LevelRowTyped
  <1>8. LevelOf(granted)' = LevelOf(sum)
    BY <1>2 DEF LevelOf
  <1>9. ASSUME NEW l \in DOMAIN Thresholds
        PROVE  (announced[l] <= 1 /\ (announced[l] > 0 => l <= LevelOf(granted)))'
    <2>1. announced[l] > 0 => l <= LevelOf(granted)
      BY DEF AInv
    <2>2. announced[l] <= 1
      BY DEF AInv
    <2>3. announced[l] > 0 => l <= LevelOf(sum)
      BY <1>5, <1>6, <2>1
    <2> QED BY <1>1, <1>8, <2>2, <2>3
  <1>10. \E j : /\ Become(r, j)
                /\ j.stage = "emit" =>
                     /\ LeveledUp(r) /\ j.row = job[r].row /\ j.part = job[r].part
                     /\ j.day = job[r].day /\ j.streak = job[r].streak /\ j.api = job[r].api
    <2>1. CASE LeveledUp(r)
      <3> DEFINE j == [job[r] EXCEPT !.stage = "emit"]
      <3>1. Become(r, j)
        BY <2>1 DEF Commit, Goto
      <3>2. /\ j.row = job[r].row /\ j.part = job[r].part /\ j.day = job[r].day
            /\ j.streak = job[r].streak /\ j.api = job[r].api
        BY <1>1 DEF Job
      <3> HIDE DEF j
      <3> QED BY <2>1, <3>1, <3>2
    <2>2. CASE ~LeveledUp(r)
      <3>1. Become(r, AfterAward(job[r]))
        BY <2>2 DEF Commit
      <3>2. AfterAward(job[r]).stage # "emit"
        BY <1>1, AfterAwardTyped DEF RowStages
      <3> QED BY <3>1, <3>2
    <2> QED BY <2>1, <2>2
  <1>11. PICK j : /\ Become(r, j)
                  /\ j.stage = "emit" =>
                       /\ LeveledUp(r) /\ j.row = job[r].row /\ j.part = job[r].part
                       /\ j.day = job[r].day /\ j.streak = job[r].streak /\ j.api = job[r].api
    BY <1>10
  <1>12. job'[r] = j /\ \A s \in Others(r) : job'[s].stage # "emit"
    BY <1>1, <1>11, StepAlone DEF SInv, RowStages, Others
  <1>13. ASSUME NEW s \in Requests, job'[s].stage = "emit"
         PROVE  (Raised(s).level = LevelOf(granted) /\ announced[LevelOf(granted)] = 0)'
    <2>1. s = r
      BY <1>12, <1>13 DEF Others
    <2>2. Raised(r)' = Raised(r) /\ LeveledUp(r)
      BY <1>11, <1>12, <1>13, <2>1 DEF Raised, Event
    <2>3. announced[LevelOf(sum)] = 0
      <3>1. LevelOf(sum) > LevelOf(granted)
        BY <1>4, <1>7, <2>2 DEF LeveledUp
      <3>2. announced[LevelOf(sum)] > 0 => LevelOf(sum) <= LevelOf(granted)
        BY <1>5 DEF AInv
      <3>3. announced[LevelOf(sum)] \in Nat
        BY <1>1, <1>5
      <3> QED BY <1>6, <3>1, <3>2, <3>3
    <2> QED BY <1>1, <1>4, <1>8, <2>1, <2>2, <2>3
  <1> QED BY <1>9, <1>13 DEF AInv

LEMMA EmitAInv ==
  ASSUME SInv, IInv, AInv, NEW r \in Requests, Emit(r) PROVE AInv'
  <1> DEFINE l == LevelOf(granted)
  <1>1. /\ job[r] \in Job /\ job[r].stage = "emit" /\ r \in InFlight /\ granted \in Nat
        /\ granted' = granted /\ announced \in [DOMAIN Thresholds -> Nat]
        /\ Become(r, AfterAward(job[r]))
    BY DEF IInv, TypeOK, Emit, At, InFlight, Stages, AwardStages, database
  <1>2. Raised(r).level = l /\ announced[l] = 0
    BY <1>1 DEF AInv
  <1>3. l \in DOMAIN Thresholds /\ l \in Nat
    <2>1. l \in DOMAIN Thresholds
      BY <1>1, LevelReached
    <2> HIDE DEF l
    <2> QED BY <2>1, XpAssumption
  <1>4. announced' = [announced EXCEPT ![l] = announced[l] + 1]
    BY <1>2 DEF Emit
  <1>5. LevelOf(granted)' = l
    BY <1>1 DEF LevelOf
  <1> HIDE DEF l
  <1>6. ASSUME NEW m \in DOMAIN Thresholds
        PROVE  announced'[m] <= 1 /\ (announced'[m] > 0 => m <= l)
    <2>1. CASE m = l
      BY <1>1, <1>2, <1>3, <1>4, <2>1
    <2>2. CASE m # l
      <3>1. announced'[m] = announced[m]
        BY <1>1, <1>4, <2>2
      <3> QED BY <3>1 DEF AInv, l
    <2> QED BY <2>1, <2>2
  <1>7. \A s \in Requests : job'[s].stage # "emit"
    <2>1. AfterAward(job[r]).stage # "emit"
      BY <1>1, AfterAwardTyped DEF RowStages
    <2> QED BY <1>1, <2>1, StepAlone DEF SInv, RowStages, Others
  <1> QED BY <1>5, <1>6, <1>7 DEF AInv

LEMMA QuietAInv ==
  ASSUME IInv, AInv, NEW r \in Requests,
         \/ Proceed(r) /\ ~Commit(r) /\ ~Emit(r)
         \/ SolvePuzzle(r) \/ CallAward(r) \/ Fail(r)
  PROVE  AInv'
  <1>1. job[r] \in Job /\ UNCHANGED <<granted, announced>>
    BY DEF IInv, TypeOK, Proceed, Check, Load, Create, Insert, Compare, Update, Mirror, Count,
           Advance, CompareStreak, SaveStreak, SolvePuzzle, CallAward, Fail, database
  <1>2. ASSUME NEW stage, stage # "emit", Goto(r, stage) PROVE AInv'
    <2> DEFINE j == [job[r] EXCEPT !.stage = stage]
    <2>1. Become(r, j) /\ j.stage # "emit"
      BY <1>1, <1>2 DEF Goto, Job
    <2> HIDE DEF j
    <2> QED BY <1>1, <2>1, AQuiet
  <1>3. ASSUME NEW how \in Ended, Become(r, Over(job[r], how)) PROVE AInv'
    <2>1. Over(job[r], how).stage # "emit"
      BY <1>1, <1>3 DEF Over, Job, Ended
    <2> QED BY <1>1, <1>3, <2>1, AQuiet
  <1>4. ASSUME Abandon(r) PROVE AInv'
    BY <1>3, <1>4 DEF Abandon, Ended
  <1>5. CASE Check(r)
    <2> DEFINE j == [job[r] EXCEPT !.stage = "load", !.began = today]
    <2>1. Become(r, AfterAward(job[r])) \/ Become(r, j)
      BY <1>5 DEF Check
    <2>2. AfterAward(job[r]).stage # "emit" /\ j.stage # "emit"
      BY <1>1, AfterAwardTyped DEF RowStages, Job
    <2> HIDE DEF j
    <2> QED BY <1>1, <2>1, <2>2, AQuiet
  <1>6. CASE Load(r)
    <2> DEFINE j == [job[r] EXCEPT !.stage = "insert", !.row = level]
    <2>1. Goto(r, "create") \/ Become(r, j)
      BY <1>6 DEF Load
    <2>2. j.stage # "emit"
      BY <1>1 DEF Job
    <2> HIDE DEF j
    <2> QED BY <1>1, <1>2, <2>1, <2>2, AQuiet
  <1>7. CASE Create(r)
    <2> DEFINE j == [job[r] EXCEPT !.stage = "insert", !.row = LevelRow(0), !.created = TRUE]
    <2>1. Abandon(r) \/ Become(r, j)
      BY <1>7 DEF Create
    <2>2. j.stage # "emit"
      BY <1>1 DEF Job
    <2> HIDE DEF j
    <2> QED BY <1>1, <1>4, <2>1, <2>2, AQuiet
  <1>8. CASE Insert(r) \/ Update(r) \/ Mirror(r)
    BY <1>2, <1>4, <1>8 DEF Insert, Update, Mirror
  <1>9. CASE Compare(r)
    <2> DEFINE j == [job[r] EXCEPT !.stage = "update", !.columns = Changed(r)]
    <2>1. Become(r, j)
      BY <1>9 DEF Compare
    <2>2. j.stage # "emit"
      BY <1>1 DEF Job
    <2> HIDE DEF j
    <2> QED BY <1>1, <2>1, <2>2, AQuiet
  <1>10. CASE Count(r)
    <2> DEFINE j == [job[r] EXCEPT !.part = "daily", !.stage = "check"]
    <2>1. Goto(r, "advance") \/ Become(r, j)
      BY <1>10 DEF Count
    <2>2. j.stage # "emit"
      BY <1>1 DEF Job
    <2> HIDE DEF j
    <2> QED BY <1>1, <1>2, <2>1, <2>2, AQuiet
  <1>11. CASE Advance(r)
    <2> DEFINE a == Advanced(streak, job[r].day)
               fresh == [job[r] EXCEPT !.stage = "save", !.fresh = TRUE, !.streak = a]
               known == [job[r] EXCEPT !.stage = "compareStreak", !.streak = a]
    <2>1. Become(r, fresh) \/ Become(r, known)
      BY <1>11 DEF Advance
    <2> HIDE DEF a
    <2>2. fresh.stage # "emit" /\ known.stage # "emit"
      BY <1>1 DEF Job
    <2> HIDE DEF fresh, known
    <2> QED BY <1>1, <2>1, <2>2, AQuiet
  <1>12. CASE CompareStreak(r)
    <2> DEFINE columns == {"last"} \union
                            {c \in {"current"} : job[r].streak.current # streak.current}
               j == [job[r] EXCEPT !.stage = "save", !.columns = columns]
    <2>1. Become(r, j)
      BY <1>12 DEF CompareStreak
    <2> HIDE DEF columns
    <2>2. j.stage # "emit"
      BY <1>1 DEF Job
    <2> HIDE DEF j
    <2> QED BY <1>1, <2>1, <2>2, AQuiet
  <1>13. CASE SaveStreak(r)
    <2> DEFINE j == [job[r] EXCEPT !.part = "streak", !.stage = "check", !.columns = {}]
    <2>1. Abandon(r) \/ Become(r, j) \/ Become(r, Over(job[r], "done"))
      BY <1>13 DEF SaveStreak
    <2>2. j.stage # "emit"
      BY <1>1 DEF Job
    <2> HIDE DEF j
    <2> QED BY <1>1, <1>3, <1>4, <2>1, <2>2, AQuiet DEF Ended
  <1>14. CASE SolvePuzzle(r)
    <2>1. PICK noHints \in BOOLEAN :
            Become(r, [NewJob EXCEPT !.stage = "check", !.noHints = noHints, !.day = today])
      BY <1>14 DEF SolvePuzzle
    <2> DEFINE j == [NewJob EXCEPT !.stage = "check", !.noHints = noHints, !.day = today]
    <2>2. j.stage # "emit"
      BY DEF NewJob
    <2> HIDE DEF j
    <2> QED BY <1>1, <2>1, <2>2, AQuiet DEF j
  <1>15. CASE CallAward(r)
    <2>1. PICK e \in ApiEvents :
            Become(r, [NewJob EXCEPT !.stage = "check", !.part = "api", !.api = e, !.day = today])
      BY <1>15 DEF CallAward
    <2> DEFINE j == [NewJob EXCEPT !.stage = "check", !.part = "api", !.api = e, !.day = today]
    <2>2. j.stage # "emit"
      BY DEF NewJob
    <2> HIDE DEF j
    <2> QED BY <1>1, <2>1, <2>2, AQuiet DEF j
  <1>16. CASE Fail(r)
    BY <1>4, <1>16 DEF Fail
  <1> QED BY <1>5, <1>6, <1>7, <1>8, <1>9, <1>10, <1>11, <1>12, <1>13, <1>14, <1>15, <1>16
          DEF Proceed

\* Of requests that do not overlap: a player hears of a level at most once, wherever a
\* request fails or its process dies.
THEOREM LevelsAnnouncedOnce == ASSUME MaxInFlight = 1 PROVE Spec => []LevelAnnouncedOnce
  <1>1. Init => AInv
    BY DEF Init, AInv, NewJob
  <1>2. SInv /\ IInv /\ AInv /\ [Next]_vars => AInv'
    <2> SUFFICES ASSUME SInv, IInv, AInv, [Next]_vars PROVE AInv'
      OBVIOUS
    <2>1. ASSUME UNCHANGED <<job, granted, announced>> PROVE AInv'
      BY <2>1 DEF AInv, Raised, Event, LevelOf
    <2>2. ASSUME NEW r \in Requests,
                 Proceed(r) \/ SolvePuzzle(r) \/ CallAward(r) \/ Fail(r)
          PROVE  AInv'
      BY <2>2, CommitAInv, EmitAInv, QuietAInv
    <2>3. CASE UNCHANGED vars \/ GetMyLevel \/ NextDay
      BY <2>1, <2>3 DEF vars, database, GetMyLevel, NextDay
    <2> QED BY <2>2, <2>3 DEF Next
  <1>3. SInv /\ IInv /\ [Next]_vars => SInv'
    BY NextSInv
  <1>4. AInv => LevelAnnouncedOnce
    BY DEF AInv, LevelAnnouncedOnce
  <1> QED BY <1>1, <1>2, <1>3, <1>4, InitSInv, InductiveInvariant, PTL DEF Spec
=============================================================================
