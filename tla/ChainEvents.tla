---------------------------- MODULE ChainEvents ----------------------------
(***************************************************************************)
(* BlockchainEventsService: a cron job polls the events of each registered *)
(* contract from Stellar Horizon, records each in onchain_events under its *)
(* transaction hash, runs its handler, and moves failures to a dead letter *)
(* table.  A cursor in memory, one for all contracts, says from which      *)
(* ledger to ask.                                                          *)
(*                                                                         *)
(* The cron job does not wait for its previous tick, so ticks overlap;     *)
(* every await is a point where they interleave.  The ledger and Postgres  *)
(* are external.                                                           *)
(***************************************************************************)
EXTENDS Integers, Sequences, FiniteSets, Functions

CONSTANTS
  ContractList,   \* QUEST_CONTRACT_ADDRESSES, in the order they are polled
  Ticks,          \* the polling ticks that may overlap
  PageLimit,      \* params.limit: the events of one response
  Histories,      \* what the ledgers may contain: a set of sequences of events
  MaxUpsets       \* bound of the model: how many crashes, replays and failures to save
                  \* a dead letter there may be, together

Contracts == {ContractList[k] : k \in DOMAIN ContractList}

\* An event of a history.  Several events may come from one transaction.
Event == [contract : Contracts, tx : Nat, ledger : Nat \ {0}, registered : BOOLEAN]

ASSUME ContractListAssumption == ContractList \in Seq(Contracts) /\ ContractList # <<>>
ASSUME PageLimitAssumption == PageLimit \in Nat \ {0}
ASSUME HistoriesAssumption == \A h \in Histories :
  h \in Seq(Event) /\ \A i, j \in DOMAIN h : i < j => h[i].ledger <= h[j].ledger
ASSUME MaxUpsetsAssumption == MaxUpsets \in Nat

VARIABLES
  history,   \* all the events the ledgers will ever contain, in order
  height,    \* the last ledger that closed
  cursor,    \* lastProcessedLedger: its number, and whether it is held as text
  boot,      \* initializeLastProcessedLedger: its stage, and the ledger it read
  tick,      \* the state of each polling tick
  rows,      \* onchain_events: the status of the row of each transaction
  dead,      \* dead_letter_events: the events with an entry
  replay,    \* the transactions a running replayEvents still has to replay
  replaying, \* whether it awaits the handler or the save of the first of them
  handled,   \* history: how often the handler of a transaction completed
  misread,   \* history: whether the cursor was ever held as text
  upsets,    \* crashes, and dead letters that could not be saved, so far
  lost,      \* history: the transactions a tick was at when one of those cut it short
  replays    \* history: replays requested

chainVars == <<history, height>>
replayVars == <<replay, replaying, replays>>
vars == <<history, height, cursor, boot, tick, rows, dead, replay, replaying, handled,
          misread, upsets, lost, replays>>

Indices == DOMAIN history
Txs == {history[i].tx : i \in Indices}
Ledgers == {history[i].ledger : i \in Indices}
Stages == {"idle", "response", "find", "insert", "handle", "mark", "deadLetter"}
\* contract: the position in the list; min: the ledger asked from; page: the events of
\* the response still to process, the first one being processed; last: its last ledger.
TickState == [stage : Stages, contract : DOMAIN ContractList, min : Nat,
              page : Seq(Indices), last : Nat]
UpsetsLeft == upsets + replays < MaxUpsets
Idle == [stage |-> "idle", contract |-> 1, min |-> 0, page |-> <<>>, last |-> 0]

TypeOK ==
  /\ history \in Histories
  /\ height \in Nat
  /\ cursor \in [ledger : Nat, text : BOOLEAN]
  /\ boot \in [stage : {"read", "assign", "done"}, ledger : Nat]
  /\ tick \in [Ticks -> TickState]
  /\ rows \in [Txs -> {"none", "pending", "processed"}]
  /\ dead \subseteq Indices
  /\ replay \in Seq(Txs)
  /\ replaying \in {"idle", "handle", "mark"}
  /\ handled \in [Txs -> Nat]
  /\ misread \in BOOLEAN
  /\ upsets \in Nat
  /\ lost \subseteq Txs
  /\ replays \in Nat

Init ==
  /\ history \in Histories
  /\ height = 0
  /\ cursor = [ledger |-> 0, text |-> FALSE]
  /\ boot = [stage |-> "read", ledger |-> 0]
  /\ tick = [t \in Ticks |-> Idle]
  /\ rows = [x \in Txs |-> "none"]
  /\ dead = {}
  /\ replay = <<>>
  /\ replaying = "idle"
  /\ handled = [x \in Txs |-> 0]
  /\ misread = FALSE
  /\ upsets = 0
  /\ lost = {}
  /\ replays = 0

-----------------------------------------------------------------------------
(* The ledger, external: ledgers close one after the other (those without  *)
(* an event of a registered contract are passed over).                     *)

CloseLedger ==
  /\ \E l \in Ledgers :
       /\ l > height /\ \A m \in Ledgers : m > height => l <= m
       /\ height' = l
  /\ UNCHANGED <<history, cursor, boot, tick, rows, dead, handled, misread, upsets, lost>>
  /\ UNCHANGED replayVars

Matching(c, min) == {i \in Indices : /\ history[i].contract = ContractList[c]
                                    /\ history[i].ledger \in min .. height}

\* GET /contracts/{address}/events, ascending, from min_ledger: one page, the first
\* PageLimit of the events that match, or all of them.
IsPage(page, c, min) ==
  /\ \A j, k \in DOMAIN page : j < k => page[j] < page[k]
  /\ Range(page) \subseteq Matching(c, min)
  /\ \A i \in Matching(c, min), k \in DOMAIN page : i < page[k] => i \in Range(page)
  /\ Len(page) = PageLimit \/ Range(page) = Matching(c, min)

\* What a response may hold.
Pages == UNION {[1 .. n -> Indices] : n \in 0 .. PageLimit}

-----------------------------------------------------------------------------
(* The start of the process, and its crash.                                *)

ProcessedLedgers == {history[i].ledger : i \in {j \in Indices : rows[history[j].tx] = "processed"}}

\* initializeLastProcessedLedger() is not awaited: ticks run while it is under way.
BootRead ==
  /\ boot.stage = "read"
  \* the last ledger of a processed row, or 0
  /\ \E l \in {0} \union ProcessedLedgers :
       /\ \A m \in ProcessedLedgers : m <= l
       /\ boot' = [stage |-> "assign", ledger |-> l]
  /\ UNCHANGED <<cursor, tick, rows, dead, handled, misread, upsets, lost>>
  /\ UNCHANGED chainVars /\ UNCHANGED replayVars

\* The query throws: the catch sets the cursor to 0.
BootFails ==
  /\ boot.stage = "read"
  /\ boot' = [stage |-> "done", ledger |-> 0]
  /\ cursor' = [ledger |-> 0, text |-> FALSE]
  /\ UNCHANGED <<tick, rows, dead, handled, misread, upsets, lost>>
  /\ UNCHANGED chainVars /\ UNCHANGED replayVars

\* The driver returns a bigint column as text; without a row the cursor is the number 0.
BootAssign ==
  /\ boot.stage = "assign"
  /\ boot' = [stage |-> "done", ledger |-> 0]
  /\ cursor' = [ledger |-> boot.ledger, text |-> boot.ledger > 0]
  /\ misread' = (misread \/ boot.ledger > 0)
  /\ UNCHANGED <<tick, rows, dead, handled, upsets, lost>>
  /\ UNCHANGED chainVars /\ UNCHANGED replayVars

Current(t) == Head(tick[t].page)
CurrentTx(t) == history[Current(t)].tx
Working(x) ==
  \E t \in Ticks : tick[t].stage \in {"handle", "mark", "deadLetter"} /\ CurrentTx(t) = x

Crash ==
  /\ UpsetsLeft
  /\ upsets' = upsets + 1
  /\ cursor' = [ledger |-> 0, text |-> FALSE]
  /\ boot' = [stage |-> "read", ledger |-> 0]
  /\ tick' = [t \in Ticks |-> Idle]
  /\ replay' = <<>>
  /\ replaying' = "idle"
  /\ lost' = lost \union {x \in Txs : Working(x)}
  /\ UNCHANGED <<rows, dead, handled, misread, replays>> /\ UNCHANGED chainVars

-----------------------------------------------------------------------------
(* pollForEvents, pollContractEvents and processEvent, cut at each await.  *)

\* (lastProcessedLedger + 1).toString(): on text, + appends the digit.
MinLedger(from) ==
  IF from.ledger = 0 THEN 0 ELSE IF from.text THEN 10 * from.ledger + 1 ELSE from.ledger + 1

\* pollContractEvents(c) up to the await of the response: min_ledger is read here.
Asking(c, from) == [Idle EXCEPT !.stage = "response", !.contract = c, !.min = MinLedger(from)]

\* Slip: the loop over the contracts runs one too far.
NextContractOffByOne(t, from) ==
  tick' = [tick EXCEPT ![t] = IF tick[t].contract <= Len(ContractList)
                              THEN Asking(tick[t].contract + 1, from)
                              ELSE Idle]

\* The loop of pollForEvents goes on to the next contract, or the tick ends.
NextContract(t, from) ==
  tick' = [tick EXCEPT ![t] = IF tick[t].contract < Len(ContractList)
                              THEN Asking(tick[t].contract + 1, from)
                              ELSE Idle]

\* The loop of pollContractEvents goes on to the next event of the page; after the last
\* one the cursor is set, backwards too, and for every contract.
NextEvent(t) ==
  IF Len(tick[t].page) > 1
  THEN /\ tick' = [tick EXCEPT ![t].page = Tail(@), ![t].stage = "find"]
       /\ UNCHANGED cursor
  ELSE /\ cursor' = [ledger |-> tick[t].last, text |-> FALSE]
       /\ NextContract(t, cursor')

StartTick(t) ==
  /\ tick[t].stage = "idle"
  /\ tick' = [tick EXCEPT ![t] = Asking(1, cursor)]
  /\ UNCHANGED <<cursor, boot, rows, dead, handled, misread, upsets, lost>>
  /\ UNCHANGED chainVars /\ UNCHANGED replayVars

\* The loop over the page begins; the last event has the highest ledger.
Processing(c, page) == [stage |-> "find", contract |-> c, min |-> 0, page |-> page,
                        last |-> history[page[Len(page)]].ledger]

\* Slip: the ledger of the last event is taken over when the response arrives.
ResponseAdvancesFirst(t) ==
  /\ tick[t].stage = "response"
  /\ \E page \in Pages :
       /\ IsPage(page, tick[t].contract, tick[t].min)
       /\ IF page = <<>>
          THEN NextContract(t, cursor) /\ UNCHANGED cursor
          ELSE /\ tick' = [tick EXCEPT ![t] = Processing(tick[t].contract, page)]
               /\ cursor' = [ledger |-> history[page[Len(page)]].ledger, text |-> FALSE]
  /\ UNCHANGED <<boot, rows, dead, handled, misread, upsets, lost>>
  /\ UNCHANGED chainVars /\ UNCHANGED replayVars

Response(t) ==
  /\ tick[t].stage = "response"
  /\ \E page \in Pages :
       /\ IsPage(page, tick[t].contract, tick[t].min)
       /\ IF page = <<>>
          THEN NextContract(t, cursor)
          ELSE tick' = [tick EXCEPT ![t] = Processing(tick[t].contract, page)]
  /\ UNCHANGED <<cursor, boot, rows, dead, handled, misread, upsets, lost>>
  /\ UNCHANGED chainVars /\ UNCHANGED replayVars

RequestFails(t) ==
  /\ tick[t].stage = "response"
  /\ NextContract(t, cursor)
  /\ UNCHANGED <<cursor, boot, rows, dead, handled, misread, upsets, lost>>
  /\ UNCHANGED chainVars /\ UNCHANGED replayVars

\* A recorded transaction and an unregistered topic are skipped alike.
Find(t) ==
  /\ tick[t].stage = "find"
  /\ IF rows[CurrentTx(t)] # "none" \/ ~history[Current(t)].registered
     THEN NextEvent(t)
     ELSE tick' = [tick EXCEPT ![t].stage = "insert"] /\ UNCHANGED cursor
  /\ UNCHANGED <<boot, rows, dead, handled, misread, upsets, lost>>
  /\ UNCHANGED chainVars /\ UNCHANGED replayVars

\* Slip: no unique index on tx_hash.
InsertWithoutIndex(t) ==
  /\ tick[t].stage = "insert"
  /\ rows' = [rows EXCEPT ![CurrentTx(t)] = "pending"]
  /\ tick' = [tick EXCEPT ![t].stage = "handle"]
  /\ UNCHANGED <<cursor, boot, dead, handled, misread, upsets, lost>>
  /\ UNCHANGED chainVars /\ UNCHANGED replayVars

\* The unique index on tx_hash decides between overlapping ticks: the loser's save
\* throws, and its event goes to the dead letters.
Insert(t) ==
  /\ tick[t].stage = "insert"
  /\ IF rows[CurrentTx(t)] = "none"
     THEN /\ rows' = [rows EXCEPT ![CurrentTx(t)] = "pending"]
          /\ tick' = [tick EXCEPT ![t].stage = "handle"]
     ELSE /\ tick' = [tick EXCEPT ![t].stage = "deadLetter"]
          /\ UNCHANGED rows
  /\ UNCHANGED <<cursor, boot, dead, handled, misread, upsets, lost>>
  /\ UNCHANGED chainVars /\ UNCHANGED replayVars

Handle(t) ==
  /\ tick[t].stage = "handle"
  /\ handled' = [handled EXCEPT ![CurrentTx(t)] = @ + 1]
  /\ tick' = [tick EXCEPT ![t].stage = "mark"]
  /\ UNCHANGED <<cursor, boot, rows, dead, misread, upsets, lost>>
  /\ UNCHANGED chainVars /\ UNCHANGED replayVars

Mark(t) ==
  /\ tick[t].stage = "mark"
  /\ rows' = [rows EXCEPT ![CurrentTx(t)] = "processed"]
  /\ NextEvent(t)
  /\ UNCHANGED <<boot, dead, handled, misread, upsets, lost>>
  /\ UNCHANGED chainVars /\ UNCHANGED replayVars

\* Slip: the catch of processEvent carries on as if the event were processed.
FailsButMarks(t) ==
  /\ tick[t].stage \in {"find", "insert", "handle", "mark"}
  /\ tick' = [tick EXCEPT ![t].stage = "mark"]
  /\ UNCHANGED <<cursor, boot, rows, dead, handled, misread, upsets, lost>>
  /\ UNCHANGED chainVars /\ UNCHANGED replayVars

\* Slip: the catch of processEvent only logs.
FailsSilently(t) ==
  /\ tick[t].stage \in {"find", "insert", "handle", "mark"}
  /\ NextEvent(t)
  /\ UNCHANGED <<boot, rows, dead, handled, misread, upsets, lost>>
  /\ UNCHANGED chainVars /\ UNCHANGED replayVars

\* A query, a save or the handler throws: the catch of processEvent.  A row that was
\* inserted stays pending.
Fails(t) ==
  /\ tick[t].stage \in {"find", "insert", "handle", "mark"}
  /\ tick' = [tick EXCEPT ![t].stage = "deadLetter"]
  /\ UNCHANGED <<cursor, boot, rows, dead, handled, misread, upsets, lost>>
  /\ UNCHANGED chainVars /\ UNCHANGED replayVars

DeadLetter(t) ==
  /\ tick[t].stage = "deadLetter"
  /\ dead' = dead \union {Current(t)}
  /\ NextEvent(t)
  /\ UNCHANGED <<boot, rows, handled, misread, upsets, lost>>
  /\ UNCHANGED chainVars /\ UNCHANGED replayVars

\* The save throws out of the catch: the rest of the page is given up and the cursor
\* stays (the catch of pollContractEvents).
DeadLetterFails(t) ==
  /\ tick[t].stage = "deadLetter"
  /\ UpsetsLeft
  /\ upsets' = upsets + 1
  /\ lost' = lost \union {CurrentTx(t)}
  /\ NextContract(t, cursor)
  /\ UNCHANGED <<cursor, boot, rows, dead, handled, misread>>
  /\ UNCHANGED chainVars /\ UNCHANGED replayVars

-----------------------------------------------------------------------------
(* replayEvents, one request at a time.                                    *)

\* The recorded transactions of a range.  A toLedger replaces the condition on fromLedger.
InRange(from, to) ==
  {x \in Txs : /\ rows[x] # "none"
               /\ \E i \in Indices : /\ history[i].tx = x
                                     /\ IF to = 0 THEN history[i].ledger >= from
                                                  ELSE history[i].ledger < to + 1}

\* Their rows, by ledger; in which order those of one ledger come is not said.
ByLedger(found) ==
  {s \in [1 .. Cardinality(found) -> found] :
     \A j, k \in DOMAIN s : j < k => /\ s[j] # s[k]
                                    /\ \E i, h \in Indices :
                                         /\ history[i].tx = s[j] /\ history[h].tx = s[k]
                                         /\ history[i].ledger <= history[h].ledger}

StartReplay(from, to) ==
  /\ replay = <<>>
  /\ UpsetsLeft
  /\ replays' = replays + 1
  /\ replay' \in ByLedger(InRange(from, to))
  /\ replaying' = IF replay' = <<>> THEN "idle" ELSE "handle"
  /\ UNCHANGED <<cursor, boot, tick, rows, dead, handled, misread, upsets, lost>>
  /\ UNCHANGED chainVars

NextReplay ==
  /\ replay' = Tail(replay)
  /\ replaying' = IF Len(replay) > 1 THEN "handle" ELSE "idle"

ReplayHandle ==
  /\ replaying = "handle"
  /\ handled' = [handled EXCEPT ![Head(replay)] = @ + 1]
  /\ replaying' = "mark"
  /\ UNCHANGED <<cursor, boot, tick, rows, dead, replay, replays, misread, upsets, lost>>
  /\ UNCHANGED chainVars

ReplayMark ==
  /\ replaying = "mark"
  /\ rows' = [rows EXCEPT ![Head(replay)] = "processed"]
  /\ NextReplay
  /\ UNCHANGED <<cursor, boot, tick, dead, replays, handled, misread, upsets, lost>>
  /\ UNCHANGED chainVars

ReplayFails ==
  /\ replaying \in {"handle", "mark"}
  /\ NextReplay
  /\ UNCHANGED <<cursor, boot, tick, rows, dead, replays, handled, misread, upsets, lost>>
  /\ UNCHANGED chainVars

-----------------------------------------------------------------------------
\* The steps of a tick under way.
Poll(t) ==
  \/ Response(t) \/ RequestFails(t)
  \/ Find(t) \/ Insert(t) \/ Handle(t) \/ Mark(t)
  \/ Fails(t) \/ DeadLetter(t) \/ DeadLetterFails(t)

Next ==
  \/ CloseLedger \/ BootRead \/ BootFails \/ BootAssign \/ Crash
  \/ \E t \in Ticks : StartTick(t) \/ Poll(t)
  \/ \E from \in Ledgers, to \in {0} \union Ledgers : StartReplay(from, to)
  \/ ReplayHandle \/ ReplayMark \/ ReplayFails

\* The cron job ticks forever, awaits return, and no contract's requests fail forever.
Fairness ==
  /\ WF_vars(BootRead \/ BootFails) /\ WF_vars(BootAssign)
  /\ \A t \in Ticks : WF_vars(StartTick(t)) /\ WF_vars(Poll(t))
  /\ \A t \in Ticks, c \in DOMAIN ContractList : SF_vars(tick[t].contract = c /\ Response(t))

Spec == Init /\ [][Next]_vars /\ Fairness

-----------------------------------------------------------------------------
(* What the indexer guarantees.                                            *)

\* The handler of a transaction completes once, whatever ticks overlap, crashes happen
\* or ledgers are asked for again; each replay the operator requests adds one.
HandledOnce == \A x \in Txs : handled[x] <= 1 + replays

\* A row says processed only when its handler completed.
ProcessedWasHandled == \A x \in Txs : rows[x] = "processed" => handled[x] > 0

DeadLettered(x) == \E i \in dead : history[i].tx = x

\* A row left pending never goes unnoticed: a tick is at it, the operator finds it in
\* the dead letters, or a crash or a dead letter that could not be saved cut short a
\* tick that was at this very transaction.
PendingIsNoticed ==
  \A x \in Txs : rows[x] = "pending" => Working(x) \/ DeadLettered(x) \/ x \in lost

\* An event is settled when its transaction is recorded, it is in the dead letters, or
\* no handler is registered for it.
Settled(i) == rows[history[i].tx] # "none" \/ i \in dead \/ ~history[i].registered

\* A page that begins with the first event of a ledger ends with the last one of a ledger.
PagesEndLedgers ==
  \A i, k \in Indices :
    /\ k = i + PageLimit
    /\ \A j \in 1 .. i - 1 : history[j].ledger < history[i].ledger
    => history[k - 1].ledger < history[k].ledger

\* The cursor is sound while one contract is the only one to emit events, no page ends
\* within a ledger and the cursor was never read back from the database.
CursorReliable ==
  /\ ~misread
  /\ \A i, j \in Indices : history[i].contract = history[j].contract
  /\ PagesEndLedgers

\* Then ledgers at or below the cursor are settled, even though overlapping ticks work
\* on stale pages, give pages up halfway, and move the cursor backwards.
CursorLeavesNothingBehind ==
  CursorReliable => \A i \in Indices : history[i].ledger <= cursor.ledger => Settled(i)

\* And then every event of a closed ledger is settled in the end.
EventuallySettled ==
  \A k \in UNION {DOMAIN h : h \in Histories} :
    (k \in Indices /\ history[k].ledger <= height) ~>
      (~CursorReliable \/ (k \in Indices /\ Settled(k)))

-----------------------------------------------------------------------------
(* What the documentation says and the code does not do.                   *)

\* "Events synced within 60 seconds of on-chain confirmation": leaving the delay aside,
\* every event of a closed ledger is settled, for any contracts and across restarts.
EventsSynced ==
  \A k \in UNION {DOMAIN h : h \in Histories} :
    (k \in Indices /\ history[k].ledger <= height) ~> (k \in Indices /\ Settled(k))
=============================================================================
