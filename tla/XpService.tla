----------------------------- MODULE XpService ------------------------------
(***************************************************************************)
(* The experience of one player: XpService (src/src/xp/xp.service.ts).     *)
(*                                                                         *)
(* awardXp enters a source event in xp_awards and adds its amount to       *)
(* player_levels, in one transaction that locks no row it reads;           *)
(* awardPuzzleCompletionXp makes up to four such awards around the update  *)
(* of the player's streak.  Requests of one player overlap at every await. *)
(* Postgres runs transactions at READ COMMITTED: a SELECT sees what is     *)
(* committed, an UPDATE or an INSERT under a unique index waits for an     *)
(* uncommitted one of the same row or key.                                 *)
(*                                                                         *)
(* Days stand for UTC days.  A puzzle's difficulty is abstracted: a base   *)
(* award has one amount.                                                   *)
(***************************************************************************)
EXTENDS Integers, Sequences, FiniteSets

CONSTANTS
  Requests,      \* requests: solved puzzles and calls of POST xp/award
  ApiEvents,     \* the sourceEventIds used with POST xp/award
  ApiDaily,      \* those it is called with the reason first_daily_solve for
  Thresholds,    \* the minXp of each level, ascending
  Milestones,    \* streak length -> experience
  BaseXp, NoHintsXp, DailyXp, ApiXp,
  NoRow,         \* a row that does not exist
  MaxInFlight,   \* bound of the model: requests in progress at a time
  MaxDay,        \* bound of the model: days
  MaxFailures    \* bound of the model: requests that fail or die with a process

Days == 1..MaxDay

Awards ==
  ({"base", "nohints"} \X Requests) \union ({"daily"} \X Days)
    \union ({"streak"} \X DOMAIN Milestones) \union ({"api"} \X ApiEvents)

\* The awards whose reason is first_daily_solve: a caller of the API is free to choose it.
IsDaily(e) == e[1] = "daily" \/ e \in {"api"} \X ApiDaily

\* What a source event is worth.
Worth(e) ==
  CASE e[1] = "base" -> BaseXp
    [] e[1] = "nohints" -> NoHintsXp
    [] e[1] = "daily" -> DailyXp
    [] e[1] = "streak" -> Milestones[e[2]]
    [] e[1] = "api" -> ApiXp

\* resolveLevel: the last level whose threshold is reached, and the way to the next.
LevelOf(xp) ==
  CHOOSE l \in DOMAIN Thresholds :
    Thresholds[l] <= xp /\ \A m \in DOMAIN Thresholds : Thresholds[m] <= xp => m <= l

\* Slip: the way to the next level, counted from the wrong end.
LevelRowBackwards(xp) ==
  [xp |-> xp, level |-> LevelOf(xp),
   next |-> IF LevelOf(xp) < Len(Thresholds) THEN xp - Thresholds[LevelOf(xp) + 1] ELSE 0]

LevelRow(xp) ==
  [xp |-> xp, level |-> LevelOf(xp),
   next |-> IF LevelOf(xp) < Len(Thresholds) THEN Thresholds[LevelOf(xp) + 1] - xp ELSE 0]

Columns == {"xp", "level", "next"}
StreakColumns == {"current", "last"}

LevelRows == [xp : Nat, level : DOMAIN Thresholds, next : Nat]
StreakRows == [current : Nat \ {0}, last : Days]

ASSUME XpAssumption ==
  /\ MaxInFlight \in Nat /\ MaxDay \in Nat \ {0} /\ MaxFailures \in Nat
  /\ BaseXp \in Nat /\ NoHintsXp \in Nat /\ DailyXp \in Nat /\ ApiXp \in Nat
  /\ Milestones \in [DOMAIN Milestones -> Nat]
  /\ Thresholds \in Seq(Nat) /\ Len(Thresholds) > 0 /\ Thresholds[1] = 0
  /\ \A l, m \in DOMAIN Thresholds : l < m => Thresholds[l] < Thresholds[m]
  /\ ApiDaily \subseteq ApiEvents
  /\ NoRow \notin LevelRows /\ NoRow \notin StreakRows /\ NoRow \notin ApiEvents

VARIABLES
  job,        \* what each request is doing
  awards,     \* xp_awards: the source events, and the day each was created
  level,      \* the player's row of player_levels
  user,       \* experience and level in the player's row of users
  streak,     \* the player's row of user_streaks
  today,      \* the day
  failures,   \* how many requests have failed or died
  granted,    \* history: what the source events entered are worth together
  announced   \* history: how often each level was announced

database == <<awards, level, user, streak, granted>>
vars == <<job, awards, level, user, streak, today, failures, granted, announced>>

\* The stages of awardXp, in order, and those of awardPuzzleCompletionXp between awards.
AwardStages == {"check", "load", "create", "insert", "compare", "update", "mirror", "commit", "emit"}
Stages == AwardStages \union {"count", "advance", "compareStreak", "save"}
Ended == {"done", "failed"}

Job ==
  [stage : Stages \union Ended \union {"new"},
   part : {"base", "nohints", "daily", "streak", "api"},   \* the award being made
   api : ApiEvents \union {NoRow},
   noHints : BOOLEAN,
   day : Days,                                \* of solvedAt
   began : Days,                              \* of the transaction, now() in Postgres
   row : LevelRows \union {NoRow},            \* player_levels as it was read
   columns : SUBSET (Columns \union StreakColumns),   \* what the UPDATE sets
   created : BOOLEAN,                         \* this transaction inserted the row
   streak : StreakRows \union {NoRow},        \* user_streaks as it will be or was saved
   fresh : BOOLEAN]                           \* by an INSERT

NewJob ==
  [stage |-> "new", part |-> "base", api |-> NoRow, noHints |-> FALSE, day |-> 1, began |-> 1,
   row |-> NoRow, columns |-> {}, created |-> FALSE, streak |-> NoRow, fresh |-> FALSE]

TypeOK ==
  /\ job \in [Requests -> Job]
  /\ awards \subseteq [event : Awards, created : Days]
  /\ level \in LevelRows \union {NoRow}
  /\ user \in [experience : Nat, level : DOMAIN Thresholds]
  /\ streak \in StreakRows \union {NoRow}
  /\ today \in Days /\ failures \in 0..MaxFailures
  /\ granted \in Nat /\ announced \in [DOMAIN Thresholds -> Nat]

Init ==
  /\ job = [r \in Requests |-> NewJob]
  /\ awards = {} /\ level = NoRow
  /\ user = [experience |-> 0, level |-> 1]
  /\ streak = NoRow
  /\ today = 1 /\ failures = 0
  /\ granted = 0 /\ announced = [l \in DOMAIN Thresholds |-> 0]

Entered == {a.event : a \in awards}
InFlight == {r \in Requests : job[r].stage \in Stages}
At(r, stage) == job[r].stage = stage

\* The source event of the award a request is making.
Event(r) ==
  CASE job[r].part \in {"base", "nohints"} -> <<job[r].part, r>>
    [] job[r].part = "daily" -> <<"daily", job[r].day>>
    [] job[r].part = "streak" -> <<"streak", job[r].streak.current>>
    [] job[r].part = "api" -> <<"api", job[r].api>>

\* The row a request is going to save.
Raised(r) == LevelRow(job[r].row.xp + Worth(Event(r)))

\* Slip: the level is not resolved again.
ChangedXp(r) == {"xp"}

\* save(currentLevel), its SELECT: the columns in which the entity and the row differ.
Changed(r) ==
  LET stored == IF job[r].created THEN job[r].row ELSE level
  IN  {c \in Columns : Raised(r)[c] # stored[c]}

\* Slip: a new player's row keeps what it was inserted with.
SavedFresh(r) == IF job[r].created THEN job[r].row ELSE Raised(r)

\* The row after the UPDATE of those columns.
Saved(r) ==
  LET set == job[r].columns IN
  IF job[r].created
    THEN Raised(r)
    ELSE [xp |-> IF "xp" \in set THEN Raised(r).xp ELSE level.xp,
          level |-> IF "level" \in set THEN Raised(r).level ELSE level.level,
          next |-> IF "next" \in set THEN Raised(r).next ELSE level.next]

\* Slip: every award announces the level.
LeveledUpOrNot(r) == TRUE

LeveledUp(r) == Raised(r).level > job[r].row.level

-----------------------------------------------------------------------------
(* What an open transaction keeps the others from doing.                   *)

Inserted(r) == job[r].stage \in {"compare", "update", "mirror", "commit"}

HoldsKey(r, e) == Inserted(r) /\ Event(r) = e

HoldsLevel(r) ==
  \/ job[r].created /\ (At(r, "insert") \/ Inserted(r))
  \/ job[r].columns # {} /\ job[r].stage \in {"mirror", "commit"}

HoldsUser(r) == At(r, "commit")

Others(r) == Requests \ {r}

-----------------------------------------------------------------------------
(* How a request goes on and ends.                                         *)

Become(r, j) == job' = [job EXCEPT ![r] = j]
Goto(r, stage) == Become(r, [job[r] EXCEPT !.stage = stage])

\* A request that is over remembers nothing but what it was about and the streak it saved.
Over(j, how) ==
  [j EXCEPT !.stage = how, !.began = 1, !.row = NoRow, !.columns = {}, !.created = FALSE,
            !.streak = IF how = "done" THEN @ ELSE NoRow, !.fresh = FALSE]

\* An exception leaves awardXp and its caller; an open transaction is rolled back.
Abandon(r) == Become(r, Over(job[r], "failed"))

\* What follows an award: the next part of awardPuzzleCompletionXp, if there is one.
AfterAward(j) ==
  LET clean == [j EXCEPT !.began = 1, !.row = NoRow, !.columns = {}, !.created = FALSE] IN
  CASE j.part = "base" /\ j.noHints -> [clean EXCEPT !.part = "nohints", !.stage = "check"]
    [] j.part = "base" /\ ~j.noHints -> [clean EXCEPT !.stage = "count"]
    [] j.part = "nohints" -> [clean EXCEPT !.stage = "count"]
    [] j.part = "daily" -> [clean EXCEPT !.stage = "advance"]
    [] j.part \in {"streak", "api"} -> Over(j, "done")

-----------------------------------------------------------------------------
(* Requests arrive.                                                        *)

\* submitSolution recorded a correct answer and calls awardPuzzleCompletionXp, once,
\* with the id of the new attempt: its base award cannot exist yet.
SolvePuzzle(r) ==
  /\ At(r, "new") /\ Cardinality(InFlight) < MaxInFlight
  /\ \E noHints \in BOOLEAN :
       Become(r, [NewJob EXCEPT !.stage = "check", !.noHints = noHints, !.day = today])
  /\ UNCHANGED <<database, today, failures, announced>>

\* POST xp/award, by another service, which may repeat a call it got no answer to.
CallAward(r) ==
  /\ At(r, "new") /\ Cardinality(InFlight) < MaxInFlight
  /\ \E e \in ApiEvents :
       Become(r, [NewJob EXCEPT !.stage = "check", !.part = "api", !.api = e, !.day = today])
  /\ UNCHANGED <<database, today, failures, announced>>

\* GET players/me/level creates the row of a player who has none.
GetMyLevel ==
  /\ level = NoRow /\ \A r \in Requests : ~HoldsLevel(r)
  /\ level' = LevelRow(0)
  /\ UNCHANGED <<job, awards, user, streak, granted, today, failures, announced>>

-----------------------------------------------------------------------------
(* awardXp.                                                                *)

\* Looks the source event up, before the transaction and again in it: what the first
\* lookup finds the second one would find too.
Check(r) ==
  /\ At(r, "check")
  /\ IF Event(r) \in Entered 
       THEN Become(r, AfterAward(job[r]))
       ELSE Become(r, [job[r] EXCEPT !.stage = "load", !.began = today])
  /\ UNCHANGED <<database, today, failures, announced>>

\* findOrCreateLevelInManager, the lookup.
Load(r) ==
  /\ At(r, "load")
  /\ IF level = NoRow
       THEN Goto(r, "create")
       ELSE Become(r, [job[r] EXCEPT !.stage = "insert", !.row = level])
  /\ UNCHANGED <<database, today, failures, announced>>

\* findOrCreateLevelInManager, the creation: one row per user, or the insert throws.
Create(r) ==
  /\ At(r, "create") /\ \A s \in Others(r) : ~HoldsLevel(s)
  /\ IF level = NoRow
       THEN Become(r, [job[r] EXCEPT !.stage = "insert", !.row = LevelRow(0), !.created = TRUE])
       ELSE Abandon(r)
  /\ UNCHANGED <<database, today, failures, announced>>

\* Slip: without the unique index.
InsertUnchecked(r) ==
  /\ At(r, "insert") /\ Goto(r, "compare")
  /\ UNCHANGED <<database, today, failures, announced>>

\* Slip: an insert that throws is tried again.
InsertRetried(r) ==
  /\ At(r, "insert") /\ \A s \in Others(r) : ~HoldsKey(s, Event(r))
  /\ IF Event(r) \in Entered THEN Goto(r, "insert") ELSE Goto(r, "compare")
  /\ UNCHANGED <<database, today, failures, announced>>

\* Inserts the award; it is unique by user and source event, or the insert throws.
Insert(r) ==
  /\ At(r, "insert") /\ \A s \in Others(r) : ~HoldsKey(s, Event(r))
  /\ IF Event(r) \in Entered THEN Abandon(r) ELSE Goto(r, "compare")
  /\ UNCHANGED <<database, today, failures, announced>>

\* save(currentLevel) compares the entity with the row.
Compare(r) ==
  /\ At(r, "compare")
  /\ Become(r, [job[r] EXCEPT !.stage = "update", !.columns = Changed(r)])
  /\ UNCHANGED <<database, today, failures, announced>>

\* save(currentLevel) updates the columns that differ; without any there is no UPDATE.
Update(r) ==
  /\ At(r, "update")
  /\ job[r].columns = {} \/ \A s \in Others(r) : ~HoldsLevel(s)
  /\ Goto(r, "mirror")
  /\ UNCHANGED <<database, today, failures, announced>>

\* Copies experience and level to the user.
Mirror(r) ==
  /\ At(r, "mirror") /\ \A s \in Others(r) : ~HoldsUser(s)
  /\ Goto(r, "commit")
  /\ UNCHANGED <<database, today, failures, announced>>

\* COMMIT, which makes the three writes visible.
Commit(r) ==
  /\ At(r, "commit")
  /\ awards' = awards \union {[event |-> Event(r), created |-> job[r].began]}
  /\ level' = Saved(r)
  /\ user' = [experience |-> Raised(r).xp, level |-> Raised(r).level]
  /\ granted' = IF Event(r) \in Entered THEN granted ELSE granted + Worth(Event(r))
  /\ IF LeveledUp(r)
       THEN Goto(r, "emit")
       ELSE Become(r, AfterAward(job[r]))
  /\ UNCHANGED <<streak, today, failures, announced>>

\* Emits player.level_up.
Emit(r) ==
  /\ At(r, "emit")
  /\ announced' = [announced EXCEPT ![Raised(r).level] = @ + 1]
  /\ Become(r, AfterAward(job[r]))
  /\ UNCHANGED <<database, today, failures>>

-----------------------------------------------------------------------------
(* awardPuzzleCompletionXp, between its awards.                            *)

\* Slip: counts the daily awards of all days.
CountEver(r) ==
  /\ At(r, "count")
  /\ IF \E a \in awards : IsDaily(a.event)
       THEN Goto(r, "advance")
       ELSE Become(r, [job[r] EXCEPT !.part = "daily", !.stage = "check"])
  /\ UNCHANGED <<database, today, failures, announced>>

\* isFirstDailySolve: counts the awards of that reason created on the day of the solution.
Count(r) ==
  /\ At(r, "count")
  /\ IF \E a \in awards : IsDaily(a.event) /\ a.created = job[r].day
       THEN Goto(r, "advance")
       ELSE Become(r, [job[r] EXCEPT !.part = "daily", !.stage = "check"])
  /\ UNCHANGED <<database, today, failures, announced>>

\* Slip: a second solution of a day counts as another day.
AdvancedAgain(row, day) ==
  IF row = NoRow \/ row.last \notin {day - 1, day}
    THEN [current |-> 1, last |-> day]
    ELSE [current |-> row.current + 1, last |-> day]

\* The streak a solution on a day makes of a row.
Advanced(row, day) ==
  CASE row = NoRow -> [current |-> 1, last |-> day]
    [] row # NoRow /\ row.last = day -> row
    [] row # NoRow /\ row.last = day - 1 -> [current |-> row.current + 1, last |-> day]
    [] OTHER -> [current |-> 1, last |-> day]

\* Slip: the day it is, instead of the day the puzzle was solved.
AdvanceToday(r) ==
  /\ At(r, "advance")
  /\ IF streak = NoRow
       THEN Become(r, [job[r] EXCEPT !.stage = "save", !.fresh = TRUE,
                                     !.streak = Advanced(streak, today)])
       ELSE Become(r, [job[r] EXCEPT !.stage = "compareStreak",
                                     !.streak = Advanced(streak, today)])
  /\ UNCHANGED <<database, today, failures, announced>>

\* advanceStreak, up to its save.
Advance(r) ==
  /\ At(r, "advance")
  /\ IF streak = NoRow
       THEN Become(r, [job[r] EXCEPT !.stage = "save", !.fresh = TRUE,
                                     !.streak = Advanced(streak, job[r].day)])
       ELSE Become(r, [job[r] EXCEPT !.stage = "compareStreak",
                                     !.streak = Advanced(streak, job[r].day)])
  /\ UNCHANGED <<database, today, failures, announced>>

\* save(streak) compares the entity with the row.  The times of two solutions differ,
\* even on one day.
CompareStreak(r) ==
  /\ At(r, "compareStreak")
  /\ Become(r, [job[r] EXCEPT !.stage = "save",
                   !.columns = {"last"} \union
                     {c \in {"current"} : job[r].streak.current # streak.current}])
  /\ UNCHANGED <<database, today, failures, announced>>

\* The row an UPDATE of those columns leaves, or the row inserted.
SavedStreak(r) ==
  IF job[r].fresh \/ "current" \in job[r].columns
    THEN job[r].streak
    ELSE [streak EXCEPT !.last = job[r].streak.last]

\* Writes the streak; one row per user, or the insert throws.  Then the milestone.
SaveStreak(r) ==
  /\ At(r, "save")
  /\ IF job[r].fresh /\ streak # NoRow
       THEN Abandon(r) /\ UNCHANGED streak
       ELSE /\ streak' = SavedStreak(r)
            /\ IF job[r].streak.current \in DOMAIN Milestones
                 THEN Become(r, [job[r] EXCEPT !.part = "streak", !.stage = "check",
                                               !.columns = {}])
                 ELSE Become(r, Over(job[r], "done"))
  /\ UNCHANGED <<awards, level, user, granted, today, failures, announced>>

-----------------------------------------------------------------------------
(* Failures and time.                                                      *)

\* A statement fails or the process dies: the request ends where it is.
Fail(r) ==
  /\ r \in InFlight /\ failures < MaxFailures
  /\ failures' = failures + 1
  /\ Abandon(r)
  /\ UNCHANGED <<database, today, announced>>

\* Midnight.
NextDay ==
  /\ today < MaxDay
  /\ today' = today + 1
  /\ UNCHANGED <<job, database, failures, announced>>

\* The next statement of a request.
Proceed(r) ==
  \/ Check(r) \/ Load(r) \/ Create(r) \/ Insert(r) \/ Compare(r) \/ Update(r)
  \/ Mirror(r) \/ Commit(r) \/ Emit(r)
  \/ Count(r) \/ Advance(r) \/ CompareStreak(r) \/ SaveStreak(r)

Next ==
  \/ \E r \in Requests : SolvePuzzle(r) \/ CallAward(r) \/ Proceed(r) \/ Fail(r)
  \/ GetMyLevel
  \/ NextDay

Spec == Init /\ [][Next]_vars

\* A process goes on with the requests it has accepted; the database answers and
\* grants a lock that becomes free.
FairSpec == Spec /\ \A r \in Requests : WF_vars(Proceed(r))

-----------------------------------------------------------------------------
(* What holds of overlapping requests.                                     *)

\* Lost updates lose experience, but nothing makes any: neither the player's row nor
\* its copy in users exceeds the sum of the awards, however often a call is repeated
\* and wherever it dies.
XpWithinAwards ==
  /\ level # NoRow => level.xp <= granted
  /\ user.experience <= granted

\* A completion that returns has made every award it owed: the base award, that for
\* using no hints, a daily one for its day or one of that reason created on it, and,
\* with the streak written, that of the milestone the streak it saved has reached.
DoneWasPaid ==
  \A r \in Requests :
    At(r, "done") /\ job[r].api = NoRow =>
      /\ <<"base", r>> \in Entered
      /\ job[r].noHints => <<"nohints", r>> \in Entered
      /\ \E a \in awards :
           a.event = <<"daily", job[r].day>> \/ (IsDaily(a.event) /\ a.created = job[r].day)
      /\ streak # NoRow /\ job[r].streak # NoRow
      /\ job[r].streak.current \in DOMAIN Milestones =>
           <<"streak", job[r].streak.current>> \in Entered

\* No request waits for ever: transactions take their locks in an order without cycles.
EveryRequestEnds ==
  \A r \in Requests : [](r \in InFlight => <>(r \notin InFlight))

-----------------------------------------------------------------------------
(* What holds of requests that do not overlap.                             *)

\* The experience is the sum of the awards.
XpIsSumOfAwards == level # NoRow => level.xp = granted

\* The level and the way to the next are those of the sum of the awards, in the
\* player's row and in users.
RowsAgree ==
  /\ level = IF level = NoRow THEN NoRow ELSE LevelRow(granted)
  /\ user = [experience |-> granted, level |-> LevelOf(granted)]

\* A puzzle was solved on a day, and its base award is entered.
Solved(day) == \E r \in Requests : job[r].day = day /\ <<"base", r>> \in Entered

\* A streak of n days has n consecutive solved days behind it, whatever failed on the
\* way and wherever midnight falls.
StreakIsEarned ==
  streak # NoRow => \A k \in 0..(streak.current - 1) : Solved(streak.last - k)

\* So has a streak bonus that was paid.
MilestoneIsEarned ==
  \A m \in DOMAIN Milestones :
    <<"streak", m>> \in Entered => \E d \in Days : \A k \in 0..(m - 1) : Solved(d - k)

\* A player hears of a level at most once.
LevelAnnouncedOnce == \A l \in DOMAIN Thresholds : announced[l] <= 1

\* awardXp is a ledger.
Ledger == INSTANCE XpLedger WITH
  Entries <- Awards, entered <- Entered,
  balance <- IF level = NoRow THEN 0 ELSE level.xp

ImplementsXpLedger == Ledger!Spec
=============================================================================
