------------------------- MODULE ChainEventsProofs -------------------------
(***************************************************************************)
(* Proofs about the indexer of on-chain events, for any contracts, ticks,  *)
(* histories, page limit and number of upsets.                             *)
(***************************************************************************)
EXTENDS ChainEvents, FiniteSetTheorems, SequenceTheorems, TLAPS

Cursors == [ledger : Nat, text : BOOLEAN]

\* The stages at which a tick has an event of a page in hand.
Work == {"find", "insert", "handle", "mark", "deadLetter"}

\* Tick t goes on to the state q.
Moves(t, q) == tick' = [tick EXCEPT ![t] = q]

-----------------------------------------------------------------------------
(* The data.                                                               *)

LEMMA HistoryFacts ==
  ASSUME history \in Histories
  PROVE  /\ Len(history) \in Nat
         /\ Indices = 1 .. Len(history)
         /\ \A i \in Indices : /\ history[i] \in Event
                               /\ history[i].tx \in Txs
                               /\ history[i].ledger \in Ledgers
                               /\ history[i].ledger \in Nat
                               /\ history[i].ledger > 0
         /\ \A i, j \in Indices : i < j => history[i].ledger <= history[j].ledger
<1>1. history \in Seq(Event)
  BY HistoriesAssumption
<1>2. Len(history) \in Nat /\ Indices = 1 .. Len(history)
  BY <1>1 DEF Indices
<1>3. ASSUME NEW i \in Indices  PROVE history[i] \in Event
  BY <1>1, <1>2, <1>3
<1>4. ASSUME NEW i \in Indices
      PROVE  history[i].ledger \in Nat /\ history[i].ledger > 0
  BY <1>3 DEF Event
<1>5. ASSUME NEW i \in Indices
      PROVE  history[i].tx \in Txs /\ history[i].ledger \in Ledgers
  BY DEF Txs, Ledgers
<1>6. \A i, j \in Indices : i < j => history[i].ledger <= history[j].ledger
  BY HistoriesAssumption DEF Indices
<1> QED
  BY <1>2, <1>3, <1>4, <1>5, <1>6

LEMMA LedgersAreNumbers ==
  ASSUME history \in Histories
  PROVE  Ledgers \subseteq Nat
BY HistoryFacts DEF Ledgers

LEMMA ContractsInTheList ==
  /\ Len(ContractList) \in Nat
  /\ 1 \in DOMAIN ContractList
  /\ DOMAIN ContractList = 1 .. Len(ContractList)
BY ContractListAssumption

LEMMA TailOfALongerSequence ==
  ASSUME NEW S, NEW s \in Seq(S), s # <<>>
  PROVE  /\ Len(s) \in Nat \ {0}
         /\ Len(s) > 1 => Tail(s) \in Seq(S) /\ Tail(s) # <<>>
         /\ ~(Len(s) > 1) => Len(s) = 1
<1>1. Len(s) \in Nat /\ Len(s) # 0
  BY EmptySeq
<1>2. Tail(s) \in Seq(S) /\ Len(Tail(s)) = Len(s) - 1
  BY HeadTailProperties
<1> DEFINE rest == Tail(s)
<1>3. rest \in Seq(S) /\ Len(rest) = Len(s) - 1
  BY <1>2
<1> HIDE DEF rest
<1>4. Len(s) > 1 => rest # <<>>
  BY <1>1, <1>3, EmptySeq
<1> USE DEF rest
<1> QED
  BY <1>1, <1>2, <1>4

LEMMA CurrentIsAnEvent ==
  ASSUME TypeOK, NEW t \in Ticks, tick[t].page # <<>>
  PROVE  /\ tick[t] \in TickState
         /\ Len(tick[t].page) \in Nat \ {0}
         /\ Current(t) = tick[t].page[1]
         /\ Current(t) \in Indices
         /\ CurrentTx(t) \in Txs
<1>1. tick[t] \in TickState
  BY DEF TypeOK
<1>2. tick[t].page \in Seq(Indices)
  BY <1>1 DEF TickState
<1>3. Len(tick[t].page) \in Nat \ {0} /\ Current(t) = tick[t].page[1] /\ Current(t) \in Indices
  BY <1>2 DEF Current
<1>4. CurrentTx(t) \in Txs
  BY <1>3 DEF CurrentTx, Txs
<1> QED
  BY <1>1, <1>3, <1>4

-----------------------------------------------------------------------------
(* How a tick goes on.                                                     *)

LEMMA IdleIsAState == Idle \in TickState
BY ContractsInTheList DEF Idle, TickState, Stages

LEMMA MinLedgerIsANumber ==
  ASSUME NEW from \in Cursors
  PROVE  MinLedger(from) \in Nat
BY DEF Cursors, MinLedger

LEMMA AskingIsAState ==
  ASSUME NEW c \in DOMAIN ContractList, NEW from \in Cursors
  PROVE  /\ Asking(c, from) \in TickState
         /\ Asking(c, from).stage = "response"
         /\ Asking(c, from).min = MinLedger(from)
<1>1. MinLedger(from) \in Nat
  BY MinLedgerIsANumber
<1> HIDE DEF Idle
<1> QED
  BY <1>1, IdleIsAState DEF Asking, TickState, Stages

LEMMA NextContractMoves ==
  ASSUME TypeOK, NEW t \in Ticks, NEW from \in Cursors, NextContract(t, from)
  PROVE  \E q \in TickState : /\ Moves(t, q)
                              /\ q.stage \in {"idle", "response"}
                              /\ q.stage = "response" => q.min = MinLedger(from)
<1>1. tick[t].contract \in 1 .. Len(ContractList)
  BY ContractsInTheList DEF TypeOK, TickState
<1>2. CASE tick[t].contract < Len(ContractList)
  <2>1. tick[t].contract + 1 \in DOMAIN ContractList
    BY <1>1, <1>2, ContractsInTheList
  <2>2. Moves(t, Asking(tick[t].contract + 1, from))
    BY <1>2 DEF NextContract, Moves
  <2> QED
    BY <2>1, <2>2, AskingIsAState
<1>3. CASE ~(tick[t].contract < Len(ContractList))
  <2>1. Moves(t, Idle)
    BY <1>3 DEF NextContract, Moves
  <2>2. Idle.stage = "idle"
    BY DEF Idle
  <2> QED
    BY <2>1, <2>2, IdleIsAState
<1> QED
  BY <1>2, <1>3

\* What a tick does after an event of its page.
GoesOn(t, q) ==
  /\ Moves(t, q)
  /\ q.stage \in {"idle", "response", "find"}
  /\ q.stage = "find" => /\ q.page = Tail(tick[t].page)
                         /\ q.page # <<>>
                         /\ q.last = tick[t].last
                         /\ cursor' = cursor
  /\ q.stage # "find" => /\ Len(tick[t].page) = 1
                         /\ cursor' = [ledger |-> tick[t].last, text |-> FALSE]
  /\ q.stage = "response" => q.min = MinLedger(cursor')

LEMMA NextEventMoves ==
  ASSUME TypeOK, NEW t \in Ticks, tick[t].page # <<>>, NextEvent(t)
  PROVE  /\ cursor' \in Cursors
         /\ \E q \in TickState : GoesOn(t, q)
<1>1. /\ tick[t] \in TickState
      /\ tick[t].page \in Seq(Indices)
      /\ tick[t].last \in Nat
      /\ Len(tick[t].page) \in Nat \ {0}
  BY CurrentIsAnEvent DEF TickState
<1>2. CASE Len(tick[t].page) > 1
  <2> DEFINE q == [tick[t] EXCEPT !.page = Tail(@), !.stage = "find"]
  <2>1. Tail(tick[t].page) \in Seq(Indices) /\ Tail(tick[t].page) # <<>>
    BY <1>1, <1>2, TailOfALongerSequence
  <2>2. q \in TickState /\ q.page = Tail(tick[t].page) /\ q.stage = "find" /\ q.last = tick[t].last
    BY <1>1, <2>1 DEF TickState, Stages
  <2>3. Moves(t, q) /\ cursor' = cursor
    BY <1>2 DEF NextEvent, Moves, TypeOK
  <2> HIDE DEF q
  <2>4. GoesOn(t, q)
    BY <2>1, <2>2, <2>3 DEF GoesOn
  <2> QED
    BY <2>2, <2>3, <2>4 DEF TypeOK, Cursors
<1>3. CASE ~(Len(tick[t].page) > 1)
  <2>1. Len(tick[t].page) = 1
    BY <1>1, <1>3, TailOfALongerSequence
  <2>2. cursor' = [ledger |-> tick[t].last, text |-> FALSE] /\ NextContract(t, cursor')
    BY <1>3 DEF NextEvent
  <2>3. cursor' \in Cursors
    BY <1>1, <2>2 DEF Cursors
  <2>4. PICK q \in TickState : /\ Moves(t, q)
                               /\ q.stage \in {"idle", "response"}
                               /\ q.stage = "response" => q.min = MinLedger(cursor')
    BY <2>2, <2>3, NextContractMoves
  <2>5. GoesOn(t, q)
    BY <2>1, <2>2, <2>4 DEF GoesOn
  <2> QED
    BY <2>3, <2>5
<1> QED
  BY <1>2, <1>3

LEMMA ProcessingIsAState ==
  ASSUME history \in Histories, NEW c \in DOMAIN ContractList, NEW page \in Pages, page # <<>>
  PROVE  /\ Processing(c, page) \in TickState
         /\ Processing(c, page).stage = "find"
         /\ Processing(c, page).page = page
         /\ Processing(c, page).last = history[page[Len(page)]].ledger
         /\ page \in Seq(Indices)
         /\ Len(page) \in Nat \ {0}
         /\ Len(page) \in DOMAIN page
<1>1. PICK n \in 0 .. PageLimit : page \in [1 .. n -> Indices]
  BY DEF Pages
<1>2. n \in Nat
  BY <1>1, PageLimitAssumption
<1>3. page \in Seq(Indices) /\ Len(page) = n
  BY <1>1, <1>2
<1>4. n # 0
  BY <1>3
<1>5. page[Len(page)] \in Indices
  BY <1>1, <1>2, <1>3, <1>4
<1>6. history[page[Len(page)]].ledger \in Nat
  BY <1>5, HistoryFacts
<1> QED
  BY <1>1, <1>2, <1>3, <1>4, <1>6 DEF Processing, TickState, Stages

-----------------------------------------------------------------------------
(* Type correctness.                                                       *)

LEMMA MovesKeepType ==
  ASSUME TypeOK, NEW t \in Ticks, NEW q \in TickState, Moves(t, q), UNCHANGED history
  PROVE  tick' \in [Ticks -> TickState]'
<1>1. tick' \in [Ticks -> TickState]
  BY DEF TypeOK, Moves
<1>2. TickState' = TickState
  BY DEF TickState, Indices
<1> QED
  BY <1>1, <1>2

LEMMA FinitelyManyTxs ==
  ASSUME history \in Histories
  PROVE  IsFiniteSet(Txs)
<1>1. IsFiniteSet(Indices)
  BY HistoryFacts, FS_Interval
<1> DEFINE f == [i \in Indices |-> history[i].tx]
<1>2. f \in Surjection(Indices, Txs)
  BY DEF Txs, Surjection
<1> HIDE DEF f
<1> QED
  BY <1>1, <1>2, FS_Surjection

\* What a replay selects is a sequence of different recorded transactions.
LEMMA RecordedTxs ==
  ASSUME history \in Histories, NEW from, NEW to, NEW s \in ByLedger(InRange(from, to))
  PROVE  /\ s \in Seq(Txs)
         /\ \A k \in DOMAIN s : s[k] \in Txs /\ rows[s[k]] # "none"
         /\ \A j, k \in DOMAIN s : j < k => s[j] # s[k]
<1> DEFINE found == InRange(from, to)
<1>1. found \subseteq Txs /\ \A x \in found : rows[x] # "none"
  BY DEF InRange
<1>2. IsFiniteSet(found)
  BY <1>1, FinitelyManyTxs, FS_Subset
<1>3. Cardinality(found) \in Nat
  BY <1>2, FS_CardinalityType
<1>4. s \in [1 .. Cardinality(found) -> found] /\ \A j, k \in DOMAIN s : j < k => s[j] # s[k]
  BY DEF ByLedger
<1> HIDE DEF found
<1>5. s \in Seq(Txs) /\ \A k \in DOMAIN s : s[k] \in found
  BY <1>1, <1>3, <1>4
<1> QED
  BY <1>1, <1>4, <1>5

\* What the tick and the replay leave alone.
LEMMA SameData ==
  ASSUME UNCHANGED history
  PROVE  Indices' = Indices /\ Txs' = Txs /\ Ledgers' = Ledgers /\ TickState' = TickState
BY DEF Indices, Txs, Ledgers, TickState

LEMMA InitType == Init => TypeOK
<1> SUFFICES ASSUME Init  PROVE TypeOK
  OBVIOUS
<1>1. tick \in [Ticks -> TickState]
  BY IdleIsAState DEF Init
<1>2. replay \in Seq(Txs)
  BY EmptySeq DEF Init
<1> QED
  BY <1>1, <1>2 DEF Init, TypeOK

LEMMA ChainAndBootType ==
  ASSUME TypeOK, CloseLedger \/ BootRead \/ BootFails \/ BootAssign \/ Crash
  PROVE  TypeOK'
<1>1. UNCHANGED history
  BY DEF CloseLedger, BootRead, BootFails, BootAssign, Crash, chainVars
<1>2. Indices' = Indices /\ Txs' = Txs /\ TickState' = TickState
  BY <1>1, SameData
<1>3. CASE CloseLedger
  <2>1. height' \in Nat
    BY <1>3, LedgersAreNumbers DEF CloseLedger, TypeOK
  <2> QED
    BY <1>2, <1>3, <2>1 DEF CloseLedger, TypeOK, replayVars
<1>4. CASE BootRead
  <2>1. \A i \in Indices : history[i].ledger \in Nat
    BY HistoryFacts DEF TypeOK
  <2>2. {0} \union ProcessedLedgers \subseteq Nat
    BY <2>1 DEF ProcessedLedgers
  <2>3. boot' \in [stage : {"read", "assign", "done"}, ledger : Nat]
    BY <1>4, <2>2 DEF BootRead
  <2> QED
    BY <1>2, <1>4, <2>3 DEF BootRead, TypeOK, chainVars, replayVars
<1>5. CASE BootFails
  BY <1>2, <1>5 DEF BootFails, TypeOK, chainVars, replayVars
<1>6. CASE BootAssign
  <2>1. boot.ledger \in Nat
    BY DEF TypeOK
  <2>2. /\ cursor' \in [ledger : Nat, text : BOOLEAN]
        /\ boot' \in [stage : {"read", "assign", "done"}, ledger : Nat]
        /\ misread' \in BOOLEAN
    BY <1>6, <2>1 DEF BootAssign, TypeOK
  <2> QED
    BY <1>2, <1>6, <2>2 DEF BootAssign, TypeOK, chainVars, replayVars
<1>7. CASE Crash
  <2>1. tick' \in [Ticks -> TickState]
    BY <1>7, IdleIsAState DEF Crash
  <2>2. replay' \in Seq(Txs)
    BY <1>7, EmptySeq DEF Crash
  <2> QED
    BY <1>1, <1>2, <1>7, <2>1, <2>2 DEF Crash, TypeOK, chainVars
<1> QED
  BY <1>3, <1>4, <1>5, <1>6, <1>7

\* A tick only ever goes on to a state of its type, and leaves the data alone.
LEMMA TickMoves ==
  ASSUME TypeOK, NEW t \in Ticks, StartTick(t) \/ Poll(t),
         tick[t].stage \in Work => tick[t].page # <<>>
  PROVE  /\ UNCHANGED <<history, height, boot, misread, replays, replay, replaying>>
         /\ cursor' \in Cursors
         /\ \E q \in TickState : Moves(t, q)
<1>1. UNCHANGED <<history, height, boot, misread, replays, replay, replaying>>
  BY DEF StartTick, Poll, Response, RequestFails, Find, Insert, Handle, Mark, Fails,
         DeadLetter, DeadLetterFails, chainVars, replayVars
<1>2. cursor \in Cursors /\ history \in Histories /\ tick[t] \in TickState
  BY DEF TypeOK, Cursors
<1>3. ASSUME NEW s \in Stages  PROVE [tick[t] EXCEPT !.stage = s] \in TickState
  BY <1>2 DEF TickState
<1>4. CASE StartTick(t)
  <2>1. Moves(t, Asking(1, cursor)) /\ cursor' = cursor
    BY <1>4 DEF StartTick, Moves
  <2> QED
    BY <1>1, <1>2, <2>1, AskingIsAState, ContractsInTheList
<1>5. CASE Response(t)
  <2>1. cursor' = cursor
    BY <1>5 DEF Response
  <2>2. PICK page \in Pages :
           IF page = <<>> THEN NextContract(t, cursor)
           ELSE tick' = [tick EXCEPT ![t] = Processing(tick[t].contract, page)]
    BY <1>5 DEF Response
  <2>3. CASE page = <<>>
    BY <1>1, <1>2, <2>1, <2>2, <2>3, NextContractMoves
  <2>4. CASE page # <<>>
    <3>1. tick[t].contract \in DOMAIN ContractList
      BY <1>2 DEF TickState
    <3>2. Processing(tick[t].contract, page) \in TickState
      BY <1>2, <2>4, <3>1, ProcessingIsAState
    <3>3. Moves(t, Processing(tick[t].contract, page))
      BY <2>2, <2>4 DEF Moves
    <3> QED
      BY <1>1, <1>2, <2>1, <3>2, <3>3
  <2> QED
    BY <2>3, <2>4
<1>6. CASE RequestFails(t)
  BY <1>1, <1>2, <1>6, NextContractMoves DEF RequestFails
<1>7. CASE Find(t)
  <2>1. tick[t].page # <<>>
    BY <1>7 DEF Find, Work
  <2>2. CASE NextEvent(t)
    BY <1>1, <2>1, <2>2, NextEventMoves DEF GoesOn
  <2>3. CASE ~NextEvent(t)
    <3>1. Moves(t, [tick[t] EXCEPT !.stage = "insert"]) /\ cursor' = cursor
      BY <1>7, <2>3 DEF Find, Moves
    <3> QED
      BY <1>1, <1>2, <1>3, <3>1 DEF Stages
  <2> QED
    BY <2>2, <2>3
<1>8. CASE Insert(t)
  <2>1. cursor' = cursor
    BY <1>8 DEF Insert
  <2>2. \/ Moves(t, [tick[t] EXCEPT !.stage = "handle"])
        \/ Moves(t, [tick[t] EXCEPT !.stage = "deadLetter"])
    BY <1>8 DEF Insert, Moves
  <2> QED
    BY <1>1, <1>2, <1>3, <2>1, <2>2 DEF Stages
<1>9. CASE Handle(t)
  <2>1. Moves(t, [tick[t] EXCEPT !.stage = "mark"]) /\ cursor' = cursor
    BY <1>9 DEF Handle, Moves
  <2> QED
    BY <1>1, <1>2, <1>3, <2>1 DEF Stages
<1>10. CASE Mark(t)
  BY <1>1, <1>10, NextEventMoves DEF Mark, Work, GoesOn
<1>11. CASE Fails(t)
  <2>1. Moves(t, [tick[t] EXCEPT !.stage = "deadLetter"]) /\ cursor' = cursor
    BY <1>11 DEF Fails, Moves
  <2> QED
    BY <1>1, <1>2, <1>3, <2>1 DEF Stages
<1>12. CASE DeadLetter(t)
  BY <1>1, <1>12, NextEventMoves DEF DeadLetter, Work, GoesOn
<1>13. CASE DeadLetterFails(t)
  BY <1>1, <1>2, <1>13, NextContractMoves DEF DeadLetterFails
<1> QED
  BY <1>4, <1>5, <1>6, <1>7, <1>8, <1>9, <1>10, <1>11, <1>12, <1>13 DEF Poll

LEMMA TickType ==
  ASSUME TypeOK, NEW t \in Ticks, StartTick(t) \/ Poll(t),
         tick[t].stage \in Work => tick[t].page # <<>>
  PROVE  TypeOK'
<1>1. /\ UNCHANGED <<history, height, boot, misread, replays, replay, replaying>>
      /\ cursor' \in Cursors
      /\ \E q \in TickState : Moves(t, q)
  BY TickMoves
<1>2. Indices' = Indices /\ Txs' = Txs /\ TickState' = TickState
  BY <1>1, SameData
<1>3. tick' \in [Ticks -> TickState]'
  BY <1>1, MovesKeepType
<1>4. /\ rows' \in [Txs -> {"none", "pending", "processed"}]
      /\ dead' \subseteq Indices
      /\ handled' \in [Txs -> Nat]
      /\ upsets' \in Nat /\ lost' \subseteq Txs
  <2>1. tick[t].stage \in Work => Current(t) \in Indices /\ CurrentTx(t) \in Txs
    BY CurrentIsAnEvent
  <2>2. CASE Insert(t)
    BY <2>1, <2>2 DEF Insert, TypeOK, Work
  <2>3. CASE Handle(t)
    BY <2>1, <2>3 DEF Handle, TypeOK, Work
  <2>4. CASE Mark(t)
    BY <2>1, <2>4 DEF Mark, TypeOK, Work
  <2>5. CASE DeadLetter(t)
    BY <2>1, <2>5 DEF DeadLetter, TypeOK, Work
  <2>6. CASE DeadLetterFails(t)
    BY <2>1, <2>6 DEF DeadLetterFails, TypeOK, Work
  <2>7. CASE StartTick(t) \/ Response(t) \/ RequestFails(t) \/ Find(t) \/ Fails(t)
    BY <2>7 DEF StartTick, Response, RequestFails, Find, Fails, TypeOK
  <2> QED
    BY <2>2, <2>3, <2>4, <2>5, <2>6, <2>7 DEF Poll
<1> QED
  BY <1>1, <1>2, <1>3, <1>4 DEF TypeOK, Cursors

LEMMA ReplayType ==
  ASSUME TypeOK, replaying # "idle" => replay # <<>>,
         \/ \E from \in Ledgers, to \in {0} \union Ledgers : StartReplay(from, to)
         \/ ReplayHandle \/ ReplayMark \/ ReplayFails
  PROVE  TypeOK'
<1>1. UNCHANGED <<history, height, cursor, boot, tick, dead, misread, upsets, lost>>
  BY DEF StartReplay, ReplayHandle, ReplayMark, ReplayFails, chainVars
<1>2. Indices' = Indices /\ Txs' = Txs /\ TickState' = TickState
  BY <1>1, SameData
<1>3. replay # <<>> => Head(replay) \in Txs /\ Tail(replay) \in Seq(Txs)
  BY HeadTailProperties DEF TypeOK
<1>4. CASE \E from \in Ledgers, to \in {0} \union Ledgers : StartReplay(from, to)
  <2>1. PICK from \in Ledgers, to \in {0} \union Ledgers : StartReplay(from, to)
    BY <1>4
  <2>2. replay' \in Seq(Txs)
    <3>1. replay' \in ByLedger(InRange(from, to))
      BY <2>1 DEF StartReplay
    <3> QED
      BY <3>1, RecordedTxs DEF TypeOK
  <2>3. replays' \in Nat /\ replaying' \in {"idle", "handle", "mark"}
    BY <2>1 DEF StartReplay, TypeOK
  <2>4. UNCHANGED <<rows, handled>>
    BY <2>1 DEF StartReplay
  <2> QED
    BY <1>1, <1>2, <2>2, <2>3, <2>4 DEF TypeOK
<1>5. CASE ReplayHandle
  BY <1>1, <1>2, <1>3, <1>5 DEF ReplayHandle, TypeOK
<1>6. CASE ReplayMark
  BY <1>1, <1>2, <1>3, <1>6 DEF ReplayMark, NextReplay, TypeOK
<1>7. CASE ReplayFails
  BY <1>1, <1>2, <1>3, <1>7 DEF ReplayFails, NextReplay, TypeOK
<1> QED
  BY <1>4, <1>5, <1>6, <1>7

-----------------------------------------------------------------------------
(* Handled once.                                                           *)

PagesInHand == \A t \in Ticks : tick[t].stage \in Work => tick[t].page # <<>>

\* The handler runs for a recorded transaction, in one tick.
OneHandler ==
  \A t \in Ticks : tick[t].stage = "handle" =>
    /\ rows[CurrentTx(t)] # "none"
    /\ \A u \in Ticks : u # t /\ tick[u].stage = "handle" => CurrentTx(u) # CurrentTx(t)

\* A transaction is marked after its handler.
MarkedAfterHandler ==
  /\ \A t \in Ticks : tick[t].stage = "mark" => handled[CurrentTx(t)] > 0
  /\ replaying = "mark" => handled[Head(replay)] > 0

\* A replay holds recorded transactions, each once.
ReplayInHand ==
  /\ replaying = "idle" <=> replay = <<>>
  /\ \A k \in DOMAIN replay : rows[replay[k]] # "none"
  /\ \A j, k \in DOMAIN replay : j < k => replay[j] # replay[k]

\* The handler of x has yet to complete in a tick.
Unhandled(x) ==
  rows[x] = "none" \/ \E t \in Ticks : tick[t].stage = "handle" /\ CurrentTx(t) = x

\* The handler of x has yet to complete in the replay under way.
OnReplay(x) == \E k \in DOMAIN replay : replay[k] = x /\ (k # 1 \/ replaying = "handle")

\* A transaction was handled once by a tick, and once by each replay.
Counted ==
  \A x \in Txs : handled[x] <= (IF Unhandled(x) THEN 0 ELSE 1)
                               + (IF OnReplay(x) THEN replays - 1 ELSE replays)

HInv == /\ PagesInHand /\ OneHandler /\ MarkedAfterHandler /\ ReplayInHand
        /\ Counted /\ ProcessedWasHandled

\* A step after which tick t is at no handler.
Quiet(t) ==
  /\ \E q \in TickState : /\ Moves(t, q)
                          /\ q.stage \notin {"handle", "mark"}
                          /\ q.stage \in Work => q.page # <<>>
  /\ handled' = handled
  /\ \/ rows' = rows
     \/ /\ tick[t].stage = "mark"
        /\ rows' = [rows EXCEPT ![CurrentTx(t)] = "processed"]

LEMMA StepsOfATick ==
  ASSUME TypeOK, PagesInHand, NEW t \in Ticks, StartTick(t) \/ Poll(t)
  PROVE  \/ Quiet(t)
         \/ Insert(t) /\ rows[CurrentTx(t)] = "none"
         \/ Handle(t)
<1>1. cursor \in Cursors /\ history \in Histories /\ tick[t] \in TickState
  BY DEF TypeOK, Cursors
<1>2. tick[t].stage \in Work => tick[t].page # <<>>
  BY DEF PagesInHand
<1>3. ASSUME NEW s \in {"insert", "deadLetter"}, tick[t].stage \in Work,
             tick' = [tick EXCEPT ![t].stage = s], rows' = rows, handled' = handled
      PROVE  Quiet(t)
  <2> DEFINE q == [tick[t] EXCEPT !.stage = s]
  <2>1. q \in TickState /\ q.stage = s /\ q.page = tick[t].page
    BY <1>1 DEF TickState, Stages
  <2>2. Moves(t, q)
    BY <1>3 DEF Moves
  <2> HIDE DEF q
  <2>3. q.stage \notin {"handle", "mark"} /\ q.page # <<>>
    BY <1>2, <1>3, <2>1
  <2> QED
    BY <1>3, <2>1, <2>2, <2>3 DEF Quiet
<1>4. ASSUME tick[t].stage \in Work, NextEvent(t), handled' = handled,
             \/ rows' = rows
             \/ /\ tick[t].stage = "mark"
                /\ rows' = [rows EXCEPT ![CurrentTx(t)] = "processed"]
      PROVE  Quiet(t)
  <2>1. PICK q \in TickState : GoesOn(t, q)
    BY <1>2, <1>4, NextEventMoves
  <2>2. Moves(t, q) /\ q.stage \notin {"handle", "mark"} /\ (q.stage \in Work => q.page # <<>>)
    BY <2>1 DEF GoesOn, Work
  <2> QED
    BY <1>4, <2>2 DEF Quiet
<1>5. ASSUME NextContract(t, cursor), handled' = handled, rows' = rows
      PROVE  Quiet(t)
  <2>1. PICK q \in TickState : Moves(t, q) /\ q.stage \in {"idle", "response"}
    BY <1>1, <1>5, NextContractMoves
  <2> QED
    BY <1>5, <2>1 DEF Quiet, Work
<1>6. CASE StartTick(t)
  <2>1. Moves(t, Asking(1, cursor)) /\ rows' = rows /\ handled' = handled
    BY <1>6 DEF StartTick, Moves
  <2>2. Asking(1, cursor) \in TickState /\ Asking(1, cursor).stage = "response"
    BY <1>1, AskingIsAState, ContractsInTheList
  <2> QED
    BY <2>1, <2>2 DEF Quiet, Work
<1>7. CASE Response(t)
  <2>1. rows' = rows /\ handled' = handled
    BY <1>7 DEF Response
  <2>2. PICK page \in Pages :
           IF page = <<>> THEN NextContract(t, cursor)
           ELSE tick' = [tick EXCEPT ![t] = Processing(tick[t].contract, page)]
    BY <1>7 DEF Response
  <2>3. CASE page # <<>>
    <3>1. tick[t].contract \in DOMAIN ContractList
      BY <1>1 DEF TickState
    <3> DEFINE q == Processing(tick[t].contract, page)
    <3>2. q \in TickState /\ q.stage = "find" /\ q.page # <<>>
      BY <1>1, <2>3, <3>1, ProcessingIsAState
    <3>3. Moves(t, q)
      BY <2>2, <2>3 DEF Moves
    <3> HIDE DEF q
    <3> QED
      BY <2>1, <3>2, <3>3 DEF Quiet
  <2> QED
    BY <1>5, <2>1, <2>2, <2>3
<1>8. CASE RequestFails(t)
  BY <1>5, <1>8 DEF RequestFails
<1>9. CASE Find(t)
  <2>1. rows' = rows /\ handled' = handled /\ tick[t].stage \in Work
    BY <1>9 DEF Find, Work
  <2>2. NextEvent(t) \/ tick' = [tick EXCEPT ![t].stage = "insert"]
    BY <1>9 DEF Find
  <2> QED
    BY <1>3, <1>4, <2>1, <2>2
<1>10. CASE Insert(t) /\ rows[CurrentTx(t)] # "none"
  <2>1. rows' = rows /\ handled' = handled /\ tick[t].stage \in Work
    BY <1>10 DEF Insert, Work
  <2>2. tick' = [tick EXCEPT ![t].stage = "deadLetter"]
    BY <1>10 DEF Insert
  <2> QED
    BY <1>3, <2>1, <2>2
<1>11. CASE Mark(t)
  BY <1>4, <1>11 DEF Mark, Work
<1>12. CASE Fails(t)
  <2>1. rows' = rows /\ handled' = handled /\ tick[t].stage \in Work
    BY <1>12 DEF Fails, Work
  <2>2. tick' = [tick EXCEPT ![t].stage = "deadLetter"]
    BY <1>12 DEF Fails
  <2> QED
    BY <1>3, <2>1, <2>2
<1>13. CASE DeadLetter(t)
  BY <1>4, <1>13 DEF DeadLetter, Work
<1>14. CASE DeadLetterFails(t)
  BY <1>5, <1>14 DEF DeadLetterFails
<1> QED
  BY <1>6, <1>7, <1>8, <1>9, <1>10, <1>11, <1>12, <1>13, <1>14 DEF Poll

LEMMA QuietKeepsHInv ==
  ASSUME TypeOK, HInv, NEW t \in Ticks, Quiet(t),
         UNCHANGED <<history, replay, replaying, replays>>
  PROVE  HInv'
<1>1. PICK q \in TickState : /\ Moves(t, q)
                             /\ q.stage \notin {"handle", "mark"}
                             /\ q.stage \in Work => q.page # <<>>
  BY DEF Quiet
<1>2. tick'[t] = q /\ \A u \in Ticks : u # t => tick'[u] = tick[u]
  BY <1>1 DEF Moves, TypeOK
<1>3. handled' = handled /\ Txs' = Txs
  BY SameData DEF Quiet
<1>4. \A u \in Ticks : u # t => CurrentTx(u)' = CurrentTx(u)
  BY <1>2 DEF CurrentTx, Current
<1>5. \A x \in Txs : /\ rows'[x] = "none" => rows[x] = "none"
                     /\ rows'[x] = "processed" => handled[x] > 0
  <2>1. CASE rows' = rows
    BY <2>1 DEF HInv, ProcessedWasHandled
  <2>2. CASE tick[t].stage = "mark" /\ rows' = [rows EXCEPT ![CurrentTx(t)] = "processed"]
    BY <2>2 DEF TypeOK, HInv, MarkedAfterHandler, ProcessedWasHandled
  <2> QED
    BY <2>1, <2>2 DEF Quiet
<1>6. PagesInHand'
  BY <1>1, <1>2 DEF HInv, PagesInHand
<1>7. \A u \in Ticks : tick'[u].stage \in {"handle", "mark"} =>
         /\ u # t /\ tick'[u] = tick[u] /\ CurrentTx(u)' = CurrentTx(u)
         /\ CurrentTx(u) \in Txs
  <2> SUFFICES ASSUME NEW u \in Ticks, tick'[u].stage \in {"handle", "mark"}
               PROVE  u # t /\ CurrentTx(u) \in Txs
    BY <1>2, <1>4
  <2>1. u # t
    BY <1>1, <1>2
  <2>2. tick[u].page # <<>>
    BY <1>2, <2>1 DEF HInv, PagesInHand, Work
  <2> QED
    BY <2>1, <2>2, CurrentIsAnEvent
<1>8. OneHandler'
  BY <1>5, <1>7 DEF HInv, OneHandler
<1>9. MarkedAfterHandler'
  BY <1>3, <1>7 DEF HInv, MarkedAfterHandler
<1>10. ReplayInHand'
  <2>1. \A k \in DOMAIN replay : replay[k] \in Txs
    BY DEF TypeOK
  <2> QED
    BY <1>5, <2>1 DEF HInv, ReplayInHand
<1>11. Counted'
  <2>1. \A x \in Txs : Unhandled(x)' => Unhandled(x)
    BY <1>5, <1>7 DEF Unhandled
  <2>2. \A x \in Txs : OnReplay(x)' <=> OnReplay(x)
    BY DEF OnReplay
  <2> SUFFICES ASSUME NEW x \in Txs
               PROVE  handled[x] <= (IF Unhandled(x)' THEN 0 ELSE 1)
                                    + (IF OnReplay(x)' THEN replays - 1 ELSE replays)
    BY <1>3 DEF Counted
  <2>3. handled[x] \in Nat /\ replays \in Nat
    BY DEF TypeOK
  <2>4. handled[x] <= (IF Unhandled(x) THEN 0 ELSE 1)
                      + (IF OnReplay(x) THEN replays - 1 ELSE replays)
    BY DEF HInv, Counted
  <2> QED
    BY <2>1, <2>2, <2>3, <2>4
<1>12. ProcessedWasHandled'
  BY <1>3, <1>5 DEF ProcessedWasHandled
<1> QED
  BY <1>6, <1>8, <1>9, <1>10, <1>11, <1>12 DEF HInv

LEMMA InsertKeepsHInv ==
  ASSUME TypeOK, HInv, NEW t \in Ticks, Insert(t), rows[CurrentTx(t)] = "none"
  PROVE  HInv'
<1>1. PICK x \in Txs : x = CurrentTx(t)
  BY CurrentIsAnEvent DEF HInv, PagesInHand, Insert, Work
<1>2. /\ UNCHANGED <<history, handled, replay, replaying, replays>>
      /\ rows' = [rows EXCEPT ![x] = "pending"]
      /\ tick' = [tick EXCEPT ![t].stage = "handle"]
      /\ tick[t].stage = "insert"
  BY <1>1 DEF Insert, chainVars, replayVars
<1>3. /\ tick'[t].stage = "handle"
      /\ tick'[t].page = tick[t].page
      /\ \A u \in Ticks : u # t => tick'[u] = tick[u]
  BY <1>2 DEF TypeOK, TickState
<1>4. Txs' = Txs
  BY <1>2, SameData
<1>5. \A u \in Ticks : CurrentTx(u)' = CurrentTx(u)
  BY <1>2, <1>3 DEF CurrentTx, Current
<1>6. /\ rows[x] = "none" /\ rows'[x] = "pending"
      /\ \A y \in Txs : y # x => rows'[y] = rows[y]
  BY <1>1, <1>2 DEF TypeOK
<1>7. \A u \in Ticks : tick[u].stage \in Work => CurrentTx(u) \in Txs
  BY CurrentIsAnEvent DEF HInv, PagesInHand
<1>8. PagesInHand'
  BY <1>2, <1>3 DEF HInv, PagesInHand, Work
<1>9. \A u \in Ticks : u # t /\ tick'[u].stage = "handle" =>
         tick[u].stage = "handle" /\ CurrentTx(u) \in Txs /\ CurrentTx(u) # x
  BY <1>3, <1>6, <1>7 DEF HInv, OneHandler, Work
<1>10. OneHandler'
  <2> SUFFICES ASSUME NEW u \in Ticks, tick'[u].stage = "handle"
               PROVE  /\ rows'[CurrentTx(u)] # "none"
                      /\ \A w \in Ticks : w # u /\ tick'[w].stage = "handle"
                                            => CurrentTx(w) # CurrentTx(u)
    BY <1>5 DEF OneHandler
  <2>1. CASE u = t
    BY <1>1, <1>6, <1>9, <2>1
  <2>2. CASE u # t
    <3>1. rows[CurrentTx(u)] # "none" /\ rows'[CurrentTx(u)] = rows[CurrentTx(u)]
      BY <1>6, <1>9, <2>2 DEF HInv, OneHandler
    <3>2. \A w \in Ticks : w # u /\ tick'[w].stage = "handle" => CurrentTx(w) # CurrentTx(u)
      BY <1>1, <1>9, <2>2 DEF HInv, OneHandler
    <3> QED
      BY <3>1, <3>2
  <2> QED
    BY <2>1, <2>2
<1>11. MarkedAfterHandler'
  BY <1>2, <1>3, <1>5 DEF HInv, MarkedAfterHandler
<1>12. ReplayInHand'
  <2>1. \A k \in DOMAIN replay : replay[k] \in Txs
    BY DEF TypeOK
  <2> QED
    BY <1>2, <1>6, <2>1 DEF HInv, ReplayInHand
<1>13. Counted'
  <2> SUFFICES ASSUME NEW y \in Txs
               PROVE  handled[y] <= (IF Unhandled(y)' THEN 0 ELSE 1)
                                    + (IF OnReplay(y)' THEN replays - 1 ELSE replays)
    BY <1>2, <1>4 DEF Counted
  <2>1. Unhandled(y)' => Unhandled(y)
    <3>1. CASE y = x
      BY <1>6, <3>1 DEF Unhandled
    <3>2. CASE y # x
      BY <1>1, <1>3, <1>5, <1>6, <1>9, <3>2 DEF Unhandled
    <3> QED
      BY <3>1, <3>2
  <2>2. OnReplay(y)' <=> OnReplay(y)
    BY <1>2 DEF OnReplay
  <2>3. handled[y] \in Nat /\ replays \in Nat
    BY DEF TypeOK
  <2>4. handled[y] <= (IF Unhandled(y) THEN 0 ELSE 1)
                      + (IF OnReplay(y) THEN replays - 1 ELSE replays)
    BY DEF HInv, Counted
  <2> QED
    BY <2>1, <2>2, <2>3, <2>4
<1>14. ProcessedWasHandled'
  BY <1>2, <1>4, <1>6 DEF HInv, ProcessedWasHandled
<1> QED
  BY <1>8, <1>10, <1>11, <1>12, <1>13, <1>14 DEF HInv

LEMMA HandleKeepsHInv ==
  ASSUME TypeOK, HInv, NEW t \in Ticks, Handle(t)
  PROVE  HInv'
<1>1. PICK x \in Txs : x = CurrentTx(t)
  BY CurrentIsAnEvent DEF HInv, PagesInHand, Handle, Work
<1>2. /\ UNCHANGED <<history, rows, replay, replaying, replays>>
      /\ handled' = [handled EXCEPT ![x] = @ + 1]
      /\ tick' = [tick EXCEPT ![t].stage = "mark"]
      /\ tick[t].stage = "handle"
  BY <1>1 DEF Handle, chainVars, replayVars
<1>3. /\ tick'[t].stage = "mark"
      /\ tick'[t].page = tick[t].page
      /\ \A u \in Ticks : u # t => tick'[u] = tick[u]
  BY <1>2 DEF TypeOK, TickState
<1>4. Txs' = Txs
  BY <1>2, SameData
<1>5. \A u \in Ticks : CurrentTx(u)' = CurrentTx(u)
  BY <1>2, <1>3 DEF CurrentTx, Current
<1>6. /\ handled'[x] = handled[x] + 1
      /\ \A y \in Txs : y # x => handled'[y] = handled[y]
      /\ \A y \in Txs : handled[y] \in Nat /\ handled'[y] \in Nat
      /\ \A y \in Txs : handled[y] > 0 => handled'[y] > 0
  BY <1>2 DEF TypeOK
<1>7. \A u \in Ticks : tick[u].stage \in Work => CurrentTx(u) \in Txs
  BY CurrentIsAnEvent DEF HInv, PagesInHand
<1>8. PagesInHand'
  BY <1>2, <1>3 DEF HInv, PagesInHand, Work
<1>9. OneHandler'
  BY <1>2, <1>3, <1>5 DEF HInv, OneHandler
<1>10. MarkedAfterHandler'
  <2>1. handled[x] + 1 > 0
    BY <1>6
  <2>2. \A u \in Ticks : tick'[u].stage = "mark" => handled'[CurrentTx(u)] > 0
    <3> SUFFICES ASSUME NEW u \in Ticks, tick'[u].stage = "mark"
                 PROVE  handled'[CurrentTx(u)] > 0
      OBVIOUS
    <3>1. CASE u = t
      BY <1>1, <1>6, <2>1, <3>1
    <3>2. CASE u # t
      BY <1>3, <1>6, <1>7, <3>2 DEF HInv, MarkedAfterHandler, Work
    <3> QED
      BY <3>1, <3>2
  <2>3. replaying = "mark" => handled'[Head(replay)] > 0
    <3>1. replaying = "mark" => Head(replay) \in Txs
      BY HeadTailProperties DEF TypeOK, HInv, ReplayInHand
    <3> QED
      BY <1>6, <3>1 DEF HInv, MarkedAfterHandler
  <2> QED
    BY <1>2, <1>5, <2>2, <2>3 DEF MarkedAfterHandler
<1>11. ReplayInHand'
  BY <1>2 DEF HInv, ReplayInHand
<1>12. Counted'
  <2> SUFFICES ASSUME NEW y \in Txs
               PROVE  handled'[y] <= (IF Unhandled(y)' THEN 0 ELSE 1)
                                     + (IF OnReplay(y)' THEN replays - 1 ELSE replays)
    BY <1>2, <1>4 DEF Counted
  <2>1. Unhandled(y)' => Unhandled(y)
    BY <1>2, <1>3, <1>5 DEF Unhandled
  <2>2. OnReplay(y)' <=> OnReplay(y)
    BY <1>2 DEF OnReplay
  <2>3. handled[y] \in Nat /\ replays \in Nat
    BY DEF TypeOK
  <2>4. handled[y] <= (IF Unhandled(y) THEN 0 ELSE 1)
                      + (IF OnReplay(y) THEN replays - 1 ELSE replays)
    BY DEF HInv, Counted
  <2>5. CASE y = x
    <3>1. Unhandled(y)
      BY <1>1, <1>2, <2>5 DEF Unhandled
    <3>2. ~Unhandled(y)'
      <4>1. rows[x] # "none"
        BY <1>1, <1>2 DEF HInv, OneHandler
      <4>2. \A u \in Ticks : tick'[u].stage = "handle" => CurrentTx(u) # x
        BY <1>1, <1>2, <1>3 DEF HInv, OneHandler
      <4> QED
        BY <1>2, <1>5, <2>5, <4>1, <4>2 DEF Unhandled
    <3> QED
      BY <1>6, <2>2, <2>3, <2>4, <2>5, <3>1, <3>2
  <2>6. CASE y # x
    BY <1>6, <2>1, <2>2, <2>3, <2>4, <2>6
  <2> QED
    BY <2>5, <2>6
<1>13. ProcessedWasHandled'
  BY <1>2, <1>4, <1>6 DEF HInv, ProcessedWasHandled
<1> QED
  BY <1>8, <1>9, <1>10, <1>11, <1>12, <1>13 DEF HInv

LEMMA ChainAndBootKeepHInv ==
  ASSUME TypeOK, HInv, CloseLedger \/ BootRead \/ BootFails \/ BootAssign \/ Crash
  PROVE  HInv'
<1>1. UNCHANGED <<history, rows, handled, replays>>
  BY DEF CloseLedger, BootRead, BootFails, BootAssign, Crash, chainVars, replayVars
<1>2. Txs' = Txs
  BY <1>1, SameData
<1>3. CASE UNCHANGED <<tick, replay, replaying>>
  <2>1. \A u \in Ticks : CurrentTx(u)' = CurrentTx(u)
    BY <1>1, <1>3 DEF CurrentTx, Current
  <2>2. PagesInHand' /\ OneHandler' /\ MarkedAfterHandler' /\ ReplayInHand' /\ ProcessedWasHandled'
    BY <1>1, <1>2, <1>3, <2>1
    DEF HInv, PagesInHand, OneHandler, MarkedAfterHandler, ReplayInHand, ProcessedWasHandled
  <2>3. Counted'
    BY <1>1, <1>2, <1>3, <2>1 DEF HInv, Counted, Unhandled, OnReplay
  <2> QED
    BY <2>2, <2>3 DEF HInv
<1>4. CASE Crash
  <2>1. \A u \in Ticks : tick'[u].stage = "idle"
    BY <1>4 DEF Crash, Idle
  <2>2. replay' = <<>> /\ replaying' = "idle" /\ DOMAIN replay' = {}
    BY <1>4 DEF Crash
  <2>3. PagesInHand' /\ OneHandler' /\ MarkedAfterHandler' /\ ReplayInHand' /\ ProcessedWasHandled'
    BY <1>1, <1>2, <2>1, <2>2
    DEF HInv, PagesInHand, OneHandler, MarkedAfterHandler, ReplayInHand, ProcessedWasHandled, Work
  <2>4. Counted'
    <3> SUFFICES ASSUME NEW y \in Txs
                 PROVE  handled[y] <= (IF Unhandled(y)' THEN 0 ELSE 1)
                                      + (IF OnReplay(y)' THEN replays - 1 ELSE replays)
      BY <1>1, <1>2 DEF Counted
    <3>1. Unhandled(y)' => Unhandled(y)
      BY <1>1, <2>1 DEF Unhandled
    <3>2. ~OnReplay(y)'
      BY <2>2 DEF OnReplay
    <3>3. handled[y] \in Nat /\ replays \in Nat
      BY DEF TypeOK
    <3>4. handled[y] <= (IF Unhandled(y) THEN 0 ELSE 1)
                        + (IF OnReplay(y) THEN replays - 1 ELSE replays)
      BY DEF HInv, Counted
    <3> QED
      BY <3>1, <3>2, <3>3, <3>4
  <2> QED
    BY <2>3, <2>4 DEF HInv
<1> QED
  BY <1>3, <1>4 DEF CloseLedger, BootRead, BootFails, BootAssign, replayVars

LEMMA StartReplayKeepsHInv ==
  ASSUME TypeOK, HInv, NEW from, NEW to, StartReplay(from, to)
  PROVE  HInv'
<1>1. UNCHANGED <<history, rows, handled, tick>>
  BY DEF StartReplay, chainVars
<1>2. Txs' = Txs /\ \A u \in Ticks : CurrentTx(u)' = CurrentTx(u)
  BY <1>1, SameData DEF CurrentTx, Current
<1>3. /\ replays' = replays + 1
      /\ replay = <<>>
      /\ replay' \in ByLedger(InRange(from, to))
      /\ replaying' = IF replay' = <<>> THEN "idle" ELSE "handle"
  BY DEF StartReplay
<1>4. PICK s \in ByLedger(InRange(from, to)) : s = replay'
  BY <1>3
<1>5. /\ \A k \in DOMAIN s : s[k] \in Txs /\ rows[s[k]] # "none"
      /\ \A j, k \in DOMAIN s : j < k => s[j] # s[k]
  BY RecordedTxs DEF TypeOK
<1>6. PagesInHand' /\ OneHandler' /\ MarkedAfterHandler' /\ ReplayInHand' /\ ProcessedWasHandled'
  BY <1>1, <1>2, <1>3, <1>4, <1>5
  DEF HInv, PagesInHand, OneHandler, MarkedAfterHandler, ReplayInHand, ProcessedWasHandled
<1>7. Counted'
  <2> SUFFICES ASSUME NEW y \in Txs
               PROVE  handled[y] <= (IF Unhandled(y)' THEN 0 ELSE 1)
                                    + (IF OnReplay(y)' THEN replays' - 1 ELSE replays')
    BY <1>1, <1>2 DEF Counted
  <2>1. Unhandled(y)' <=> Unhandled(y)
    BY <1>1, <1>2 DEF Unhandled
  <2>2. ~OnReplay(y)
    BY <1>3 DEF OnReplay
  <2>3. handled[y] \in Nat /\ replays \in Nat
    BY DEF TypeOK
  <2>4. handled[y] <= (IF Unhandled(y) THEN 0 ELSE 1)
                      + (IF OnReplay(y) THEN replays - 1 ELSE replays)
    BY DEF HInv, Counted
  <2>5. handled[y] <= (IF Unhandled(y)' THEN 0 ELSE 1) + replays
    BY <2>1, <2>2, <2>4
  <2> QED
    BY <1>3, <2>3, <2>5
<1> QED
  BY <1>6, <1>7 DEF HInv

LEMMA ReplayHandleKeepsHInv ==
  ASSUME TypeOK, HInv, ReplayHandle
  PROVE  HInv'
<1>1. UNCHANGED <<history, rows, tick, replay, replays>>
  BY DEF ReplayHandle, chainVars
<1>2. Txs' = Txs /\ \A u \in Ticks : CurrentTx(u)' = CurrentTx(u)
  BY <1>1, SameData DEF CurrentTx, Current
<1>3. replay # <<>> /\ replay \in Seq(Txs) /\ replaying = "handle" /\ replaying' = "mark"
  BY DEF ReplayHandle, HInv, ReplayInHand, TypeOK
<1>4. PICK x \in Txs : x = Head(replay) /\ x = replay[1] /\ 1 \in DOMAIN replay
  BY <1>3
<1>5. handled' = [handled EXCEPT ![x] = @ + 1]
  BY <1>4 DEF ReplayHandle
<1>6. /\ handled'[x] = handled[x] + 1
      /\ \A y \in Txs : y # x => handled'[y] = handled[y]
      /\ \A y \in Txs : handled[y] \in Nat /\ handled'[y] \in Nat
      /\ \A y \in Txs : handled[y] > 0 => handled'[y] > 0
  BY <1>5 DEF TypeOK
<1>7. \A u \in Ticks : tick[u].stage \in Work => CurrentTx(u) \in Txs
  BY CurrentIsAnEvent DEF HInv, PagesInHand
<1>8. PagesInHand' /\ OneHandler' /\ ReplayInHand' /\ ProcessedWasHandled'
  BY <1>1, <1>2, <1>3, <1>6
  DEF HInv, PagesInHand, OneHandler, ReplayInHand, ProcessedWasHandled
<1>9. MarkedAfterHandler'
  <2>1. handled'[Head(replay)] > 0
    BY <1>4, <1>6
  <2>2. \A u \in Ticks : tick[u].stage = "mark" => handled'[CurrentTx(u)] > 0
    BY <1>6, <1>7 DEF HInv, MarkedAfterHandler, Work
  <2> QED
    BY <1>1, <1>2, <2>1, <2>2 DEF MarkedAfterHandler
<1>10. Counted'
  <2> SUFFICES ASSUME NEW y \in Txs
               PROVE  handled'[y] <= (IF Unhandled(y)' THEN 0 ELSE 1)
                                     + (IF OnReplay(y)' THEN replays - 1 ELSE replays)
    BY <1>1, <1>2 DEF Counted
  <2>1. Unhandled(y)' <=> Unhandled(y)
    BY <1>1, <1>2 DEF Unhandled
  <2>2. OnReplay(y)' => OnReplay(y)
    BY <1>1, <1>3 DEF OnReplay
  <2>3. handled[y] \in Nat /\ replays \in Nat
    BY DEF TypeOK
  <2>4. handled[y] <= (IF Unhandled(y) THEN 0 ELSE 1)
                      + (IF OnReplay(y) THEN replays - 1 ELSE replays)
    BY DEF HInv, Counted
  <2>5. CASE y = x
    <3>1. OnReplay(y)
      BY <1>3, <1>4, <2>5 DEF OnReplay
    <3>2. ~OnReplay(y)'
      <4>1. \A k \in DOMAIN replay : k # 1 => replay[k] # replay[1]
        BY <1>3, <1>4 DEF HInv, ReplayInHand
      <4> QED
        BY <1>1, <1>3, <1>4, <2>5, <4>1 DEF OnReplay
    <3> QED
      BY <1>6, <2>1, <2>3, <2>4, <2>5, <3>1, <3>2
  <2>6. CASE y # x
    BY <1>6, <2>1, <2>2, <2>3, <2>4, <2>6
  <2> QED
    BY <2>5, <2>6
<1> QED
  BY <1>8, <1>9, <1>10 DEF HInv

LEMMA NextReplayKeepsHInv ==
  ASSUME TypeOK, HInv, ReplayMark \/ ReplayFails
  PROVE  HInv'
<1>1. /\ UNCHANGED <<history, handled, tick, replays>>
      /\ replaying \in {"handle", "mark"}
      /\ NextReplay
  BY DEF ReplayMark, ReplayFails, chainVars
<1>2. Txs' = Txs /\ \A u \in Ticks : CurrentTx(u)' = CurrentTx(u)
  BY <1>1, SameData DEF CurrentTx, Current
<1>3. replay # <<>> /\ replay \in Seq(Txs) /\ Head(replay) \in Txs
  BY <1>1 DEF HInv, ReplayInHand, TypeOK
<1>4. /\ replay' = Tail(replay)
      /\ Len(replay) \in Nat \ {0}
      /\ DOMAIN replay = 1 .. Len(replay)
      /\ DOMAIN replay' = 1 .. Len(replay) - 1
      /\ \A k \in DOMAIN replay' : k + 1 \in DOMAIN replay /\ replay'[k] = replay[k + 1]
      /\ replay' = <<>> <=> ~(Len(replay) > 1)
  <2>1. replay' = Tail(replay) /\ Len(replay) \in Nat \ {0}
    BY <1>1, <1>3, TailOfALongerSequence DEF NextReplay
  <2>2. DOMAIN replay = 1 .. Len(replay) /\ DOMAIN replay' = 1 .. Len(replay) - 1
    BY <1>3, <2>1
  <2>3. \A k \in DOMAIN replay' : k + 1 \in DOMAIN replay /\ replay'[k] = replay[k + 1]
    BY <1>3, <2>1, <2>2
  <2>4. replay' = <<>> <=> ~(Len(replay) > 1)
    <3>1. Len(replay) > 1 => Tail(replay) # <<>>
      BY <1>3, TailOfALongerSequence
    <3>2. Tail(replay) \in Seq(Txs) /\ Len(Tail(replay)) = Len(replay) - 1
      BY <1>3, HeadTailProperties
    <3>3. PICK n \in Nat : n = Len(replay) /\ n # 0
      BY <2>1
    <3>4. ~(Len(replay) > 1) => Len(Tail(replay)) = 0
      BY <3>2, <3>3
    <3>5. ~(Len(replay) > 1) => Tail(replay) = <<>>
      BY <3>2, <3>4, EmptySeq
    <3> QED
      BY <2>1, <3>1, <3>5
  <2> QED
    BY <2>1, <2>2, <2>3, <2>4
<1>5. replaying' = IF Len(replay) > 1 THEN "handle" ELSE "idle"
  BY <1>1 DEF NextReplay
<1>6. \A x \in Txs : /\ rows'[x] = "none" => rows[x] = "none"
                     /\ rows'[x] = "processed" => handled[x] > 0
  <2>1. CASE ReplayMark
    BY <1>3, <2>1 DEF ReplayMark, HInv, MarkedAfterHandler, ProcessedWasHandled, TypeOK
  <2>2. CASE ReplayFails
    BY <2>2 DEF ReplayFails, HInv, ProcessedWasHandled
  <2> QED
    BY <2>1, <2>2
<1>7. \A u \in Ticks : tick[u].stage \in Work => CurrentTx(u) \in Txs
  BY CurrentIsAnEvent DEF HInv, PagesInHand
<1>8. PagesInHand' /\ ProcessedWasHandled'
  BY <1>1, <1>2, <1>6 DEF HInv, PagesInHand, ProcessedWasHandled
<1>9. OneHandler'
  BY <1>1, <1>2, <1>6, <1>7 DEF HInv, OneHandler, Work
<1>10. MarkedAfterHandler'
  BY <1>1, <1>2, <1>5 DEF HInv, MarkedAfterHandler
<1>11. ReplayInHand'
  <2>1. replaying' = "idle" <=> replay' = <<>>
    BY <1>4, <1>5
  <2>2. \A k \in DOMAIN replay' : rows'[replay'[k]] # "none"
    <3>1. \A k \in DOMAIN replay : replay[k] \in Txs /\ rows[replay[k]] # "none"
      BY <1>3 DEF HInv, ReplayInHand
    <3> QED
      BY <1>4, <1>6, <3>1
  <2>3. \A j, k \in DOMAIN replay' : j < k => replay'[j] # replay'[k]
    <3> SUFFICES ASSUME NEW j \in DOMAIN replay', NEW k \in DOMAIN replay', j < k
                 PROVE  replay[j + 1] # replay[k + 1]
      BY <1>4
    <3>1. j \in Nat /\ k \in Nat /\ j + 1 < k + 1
      BY <1>4
    <3> QED
      BY <1>4, <3>1 DEF HInv, ReplayInHand
  <2> QED
    BY <2>1, <2>2, <2>3 DEF ReplayInHand
<1>12. Counted'
  <2> SUFFICES ASSUME NEW y \in Txs
               PROVE  handled[y] <= (IF Unhandled(y)' THEN 0 ELSE 1)
                                    + (IF OnReplay(y)' THEN replays - 1 ELSE replays)
    BY <1>1, <1>2 DEF Counted
  <2>1. Unhandled(y)' => Unhandled(y)
    BY <1>1, <1>2, <1>6 DEF Unhandled
  <2>2. OnReplay(y)' => OnReplay(y)
    <3> SUFFICES ASSUME NEW k \in DOMAIN replay', replay'[k] = y
                 PROVE  OnReplay(y)
      BY DEF OnReplay
    <3>1. k + 1 \in DOMAIN replay /\ replay[k + 1] = y /\ k + 1 # 1
      BY <1>4
    <3> QED
      BY <3>1 DEF OnReplay
  <2>3. handled[y] \in Nat /\ replays \in Nat
    BY DEF TypeOK
  <2>4. handled[y] <= (IF Unhandled(y) THEN 0 ELSE 1)
                      + (IF OnReplay(y) THEN replays - 1 ELSE replays)
    BY DEF HInv, Counted
  <2> QED
    BY <2>1, <2>2, <2>3, <2>4
<1> QED
  BY <1>8, <1>9, <1>10, <1>11, <1>12 DEF HInv

LEMMA InitHInv == Init => HInv
<1> SUFFICES ASSUME Init  PROVE HInv
  OBVIOUS
<1>1. \A t \in Ticks : tick[t].stage = "idle"
  BY DEF Init, Idle
<1>2. \A x \in Txs : rows[x] = "none" /\ handled[x] = 0
  BY DEF Init
<1>3. replay = <<>> /\ replaying = "idle" /\ replays = 0 /\ DOMAIN replay = {}
  BY DEF Init
<1>4. PagesInHand /\ OneHandler /\ MarkedAfterHandler /\ ReplayInHand /\ ProcessedWasHandled
  BY <1>1, <1>2, <1>3
  DEF PagesInHand, OneHandler, MarkedAfterHandler, ReplayInHand, ProcessedWasHandled, Work
<1>5. Counted
  BY <1>2, <1>3 DEF Counted, OnReplay
<1> QED
  BY <1>4, <1>5 DEF HInv

LEMMA NextKeepsHInv ==
  ASSUME TypeOK, HInv, [Next]_vars
  PROVE  TypeOK' /\ HInv'
<1>1. PagesInHand /\ (replaying # "idle" => replay # <<>>)
  BY DEF HInv, ReplayInHand
<1>2. CASE CloseLedger \/ BootRead \/ BootFails \/ BootAssign \/ Crash
  BY <1>2, ChainAndBootType, ChainAndBootKeepHInv
<1>3. ASSUME NEW t \in Ticks, StartTick(t) \/ Poll(t)
      PROVE  TypeOK' /\ HInv'
  <2>1. tick[t].stage \in Work => tick[t].page # <<>>
    BY <1>1 DEF PagesInHand
  <2>2. TypeOK'
    BY <1>3, <2>1, TickType
  <2>3. UNCHANGED <<history, replay, replaying, replays>>
    BY <1>3, <2>1, TickMoves
  <2>4. \/ Quiet(t)
        \/ Insert(t) /\ rows[CurrentTx(t)] = "none"
        \/ Handle(t)
    BY <1>1, <1>3, StepsOfATick
  <2>5. HInv'
    BY <2>3, <2>4, QuietKeepsHInv, InsertKeepsHInv, HandleKeepsHInv
  <2> QED
    BY <2>2, <2>5
<1>4. CASE \E from \in Ledgers, to \in {0} \union Ledgers : StartReplay(from, to)
  BY <1>1, <1>4, ReplayType, StartReplayKeepsHInv
<1>5. CASE ReplayHandle \/ ReplayMark \/ ReplayFails
  BY <1>1, <1>5, ReplayType, ReplayHandleKeepsHInv, NextReplayKeepsHInv
<1>6. CASE UNCHANGED vars
  <2>1. Indices' = Indices /\ Txs' = Txs /\ TickState' = TickState
    BY <1>6, SameData DEF vars
  <2>2. TypeOK'
    BY <1>6, <2>1 DEF TypeOK, vars
  <2>3. \A u \in Ticks : CurrentTx(u)' = CurrentTx(u)
    BY <1>6 DEF CurrentTx, Current, vars
  <2>4. PagesInHand' /\ OneHandler' /\ MarkedAfterHandler' /\ ReplayInHand' /\ ProcessedWasHandled'
    BY <1>6, <2>1, <2>3
    DEF HInv, PagesInHand, OneHandler, MarkedAfterHandler, ReplayInHand, ProcessedWasHandled, vars
  <2>5. Counted'
    BY <1>6, <2>1, <2>3 DEF HInv, Counted, Unhandled, OnReplay, vars
  <2> QED
    BY <2>2, <2>4, <2>5 DEF HInv
<1> QED
  BY <1>2, <1>3, <1>4, <1>5, <1>6 DEF Next

LEMMA CountedIsEnough ==
  ASSUME TypeOK, HInv
  PROVE  HandledOnce
<1> SUFFICES ASSUME NEW x \in Txs  PROVE handled[x] <= 1 + replays
  BY DEF HandledOnce
<1>1. handled[x] \in Nat /\ replays \in Nat
  BY DEF TypeOK
<1>2. handled[x] <= (IF Unhandled(x) THEN 0 ELSE 1)
                    + (IF OnReplay(x) THEN replays - 1 ELSE replays)
  BY DEF HInv, Counted
<1> QED
  BY <1>1, <1>2

-----------------------------------------------------------------------------
(* Noticed.                                                                *)

AtWork == {"handle", "mark", "deadLetter"}

\* What becomes of the transaction that tick t is working on.
LEMMA WorkIsHandedOn ==
  ASSUME TypeOK, PagesInHand, NEW t \in Ticks, StartTick(t) \/ Poll(t),
         tick[t].stage \in AtWork
  PROVE  \/ tick'[t].stage \in AtWork /\ CurrentTx(t)' = CurrentTx(t)
         \/ rows'[CurrentTx(t)] = "processed"
         \/ Current(t) \in dead'
         \/ CurrentTx(t) \in lost'
<1>1. UNCHANGED history
  BY TickMoves DEF PagesInHand
<1>2. CASE Handle(t) \/ Fails(t)
  <2>1. PICK s \in {"mark", "deadLetter"} : tick' = [tick EXCEPT ![t].stage = s]
    BY <1>2 DEF Handle, Fails
  <2>2. tick'[t].stage = s /\ tick'[t].page = tick[t].page
    BY <2>1 DEF TypeOK, TickState
  <2> QED
    BY <1>1, <2>2 DEF AtWork, CurrentTx, Current
<1>3. CASE Mark(t)
  <2>1. CurrentTx(t) \in Txs
    BY <1>3, CurrentIsAnEvent DEF Mark, PagesInHand, Work
  <2> QED
    BY <1>3, <2>1 DEF Mark, TypeOK
<1>4. CASE DeadLetter(t)
  BY <1>4 DEF DeadLetter
<1>5. CASE DeadLetterFails(t)
  BY <1>5 DEF DeadLetterFails, TypeOK
<1>6. CASE StartTick(t) \/ Response(t) \/ RequestFails(t) \/ Find(t) \/ Insert(t)
  BY <1>6 DEF StartTick, Response, RequestFails, Find, Insert, AtWork
<1> QED
  BY <1>2, <1>3, <1>4, <1>5, <1>6 DEF Poll

LEMMA DeadStayDead ==
  ASSUME UNCHANGED history, dead \subseteq dead', NEW x, DeadLettered(x)
  PROVE  DeadLettered(x)'
BY DEF DeadLettered

LEMMA TickKeepsNotice ==
  ASSUME TypeOK, PagesInHand, PendingIsNoticed, NEW t \in Ticks, StartTick(t) \/ Poll(t)
  PROVE  PendingIsNoticed'
<1>1. /\ UNCHANGED history
      /\ \E q \in TickState : Moves(t, q)
  BY TickMoves DEF PagesInHand
<1>2. Txs' = Txs
  BY <1>1, SameData
<1>3. \A u \in Ticks : u # t => tick'[u] = tick[u] /\ CurrentTx(u)' = CurrentTx(u)
  BY <1>1 DEF Moves, TypeOK, CurrentTx, Current
<1>4. dead \subseteq dead' /\ lost \subseteq lost'
  BY DEF TypeOK, Poll, StartTick, Response, RequestFails, Find, Insert, Handle, Mark, Fails,
         DeadLetter, DeadLetterFails
<1> SUFFICES ASSUME NEW x \in Txs, rows'[x] = "pending"
             PROVE  (Working(x) \/ DeadLettered(x) \/ x \in lost)'
  BY <1>2 DEF PendingIsNoticed
<1>5. CASE rows[x] = "pending"
  <2>1. CASE Working(x)
    <3>1. PICK u \in Ticks : tick[u].stage \in AtWork /\ CurrentTx(u) = x
      BY <2>1 DEF Working, AtWork
    <3>2. CASE u # t
      BY <1>3, <3>1, <3>2 DEF Working, AtWork
    <3>3. CASE u = t
      <4>1. \/ tick'[t].stage \in AtWork /\ CurrentTx(t)' = x
            \/ rows'[x] = "processed"
            \/ Current(t) \in dead'
            \/ x \in lost'
        BY <3>1, <3>3, WorkIsHandedOn
      <4>2. CASE tick'[t].stage \in AtWork /\ CurrentTx(t)' = x
        BY <4>2 DEF Working, AtWork
      <4>3. CASE Current(t) \in dead'
        BY <1>1, <3>1, <3>3, <4>3 DEF DeadLettered, CurrentTx
      <4> QED
        BY <4>1, <4>2, <4>3
    <3> QED
      BY <3>2, <3>3
  <2>2. CASE DeadLettered(x)
    BY <1>1, <1>4, <2>2, DeadStayDead
  <2>3. CASE x \in lost
    BY <1>1, <1>4, <2>3
  <2> QED
    BY <1>5, <2>1, <2>2, <2>3 DEF PendingIsNoticed
<1>6. CASE rows[x] # "pending"
  <2>1. Insert(t) /\ rows' = [rows EXCEPT ![CurrentTx(t)] = "pending"]
                  /\ tick' = [tick EXCEPT ![t].stage = "handle"]
    <3>1. CASE Insert(t)
      BY <1>6, <3>1 DEF Insert
    <3>2. CASE Mark(t)
      <4>1. CurrentTx(t) \in Txs
        BY <3>2, CurrentIsAnEvent DEF Mark, PagesInHand, Work
      <4> QED
        BY <1>6, <3>2, <4>1 DEF Mark, TypeOK
    <3>3. CASE ~Insert(t) /\ ~Mark(t)
      BY <1>6, <3>3 DEF Poll, StartTick, Response, RequestFails, Find, Handle, Fails,
                        DeadLetter, DeadLetterFails
    <3> QED
      BY <3>1, <3>2, <3>3
  <2>2. CurrentTx(t) = x
    BY <1>6, <2>1 DEF TypeOK
  <2>3. tick'[t].stage = "handle" /\ tick'[t].page = tick[t].page
    BY <2>1 DEF TypeOK, TickState
  <2> QED
    BY <1>1, <2>2, <2>3 DEF Working, CurrentTx, Current
<1> QED
  BY <1>5, <1>6

LEMMA NextKeepsNotice ==
  ASSUME TypeOK, HInv, PendingIsNoticed, [Next]_vars
  PROVE  PendingIsNoticed'
<1>1. ASSUME UNCHANGED <<history, tick, dead, lost>>,
             \A x \in Txs : rows'[x] = "pending" => rows[x] = "pending"
      PROVE  PendingIsNoticed'
  <2>1. Txs' = Txs
    BY <1>1, SameData
  <2>2. \A x \in Txs : (Working(x)' <=> Working(x)) /\ (DeadLettered(x)' <=> DeadLettered(x))
    BY <1>1 DEF Working, DeadLettered, CurrentTx, Current
  <2> QED
    BY <1>1, <2>1, <2>2 DEF PendingIsNoticed
<1>2. CASE \E t \in Ticks : StartTick(t) \/ Poll(t)
  BY <1>2, TickKeepsNotice DEF HInv
<1>3. CASE CloseLedger \/ BootRead \/ BootFails \/ BootAssign
  BY <1>1, <1>3 DEF CloseLedger, BootRead, BootFails, BootAssign, chainVars, replayVars
<1>4. CASE Crash
  <2>1. UNCHANGED <<history, rows, dead>> /\ lost' = lost \union {x \in Txs : Working(x)}
    BY <1>4 DEF Crash, chainVars
  <2>2. Txs' = Txs
    BY <2>1, SameData
  <2>3. \A x : DeadLettered(x)' <=> DeadLettered(x)
    BY <2>1 DEF DeadLettered
  <2> QED
    BY <2>1, <2>2, <2>3 DEF PendingIsNoticed
<1>5. CASE \E from \in Ledgers, to \in {0} \union Ledgers : StartReplay(from, to)
  BY <1>1, <1>5 DEF StartReplay, chainVars
<1>6. CASE ReplayHandle
  BY <1>1, <1>6 DEF ReplayHandle, chainVars
<1>7. CASE ReplayMark
  <2>1. UNCHANGED <<history, tick, dead, lost>>
    BY <1>7 DEF ReplayMark, chainVars
  <2>2. \A x \in Txs : rows'[x] = "pending" => rows[x] = "pending"
    BY <1>7 DEF ReplayMark, TypeOK
  <2> QED
    BY <1>1, <2>1, <2>2
<1>8. CASE ReplayFails
  BY <1>1, <1>8 DEF ReplayFails, chainVars
<1>9. CASE UNCHANGED vars
  BY <1>1, <1>9 DEF vars
<1> QED
  BY <1>2, <1>3, <1>4, <1>5, <1>6, <1>7, <1>8, <1>9 DEF Next

-----------------------------------------------------------------------------
(* The cursor leaves nothing behind.                                       *)

SettledUpTo(l) == \A i \in Indices : history[i].ledger <= l => Settled(i)

\* Below the ledger a tick asked from, and in the ledgers of its page outside what is left
\* of the page, everything is settled.
Behind(t) ==
  /\ tick[t].stage = "response" =>
       \A i \in Indices : history[i].ledger < tick[t].min => Settled(i)
  /\ tick[t].stage \in Work =>
       \A i \in Indices : history[i].ledger <= tick[t].last =>
                            Settled(i) \/ i \in Range(tick[t].page)

CInv == CursorReliable => /\ ~cursor.text
                          /\ SettledUpTo(cursor.ledger)
                          /\ \A t \in Ticks : Behind(t)

LEMMA SettledStays ==
  ASSUME UNCHANGED history, dead \subseteq dead',
         \A x \in Txs : rows'[x] = "none" => rows[x] = "none"
  PROVE  \A i \in Indices : Settled(i) => Settled(i)'
BY DEF Settled, Txs

LEMMA ReliableBefore ==
  ASSUME TypeOK, UNCHANGED history, misread => misread', CursorReliable'
  PROVE  CursorReliable
BY DEF CursorReliable, PagesEndLedgers, Indices, TypeOK

\* The ledger asked from is the one after the cursor.
LEMMA AskedFromTheCursor ==
  ASSUME history \in Histories, NEW from \in Cursors, ~from.text,
         NEW i \in Indices, history[i].ledger < MinLedger(from)
  PROVE  history[i].ledger <= from.ledger
<1>1. history[i].ledger \in Nat /\ from.ledger \in Nat
  BY HistoryFacts DEF Cursors
<1> QED
  BY <1>1 DEF MinLedger

\* The events of a page, when one contract emits events, are consecutive.
LEMMA PageIsAnInterval ==
  ASSUME history \in Histories, height \in Nat,
         \A i, j \in Indices : history[i].contract = history[j].contract,
         NEW c, NEW min \in Nat, NEW page \in Seq(Indices), page # <<>>, IsPage(page, c, min)
  PROVE  /\ page[1] \in Indices /\ page[Len(page)] \in Indices
         /\ Range(page) = page[1] .. page[Len(page)]
         /\ Len(page) = page[Len(page)] - page[1] + 1
         /\ history[page[1]].ledger >= min
         /\ \A j \in 1 .. page[1] - 1 : j \in Indices /\ history[j].ledger < min
<1> DEFINE a == page[1]
           b == page[Len(page)]
<1>1. Len(page) \in Nat /\ Len(page) # 0 /\ DOMAIN page = 1 .. Len(page)
  BY EmptySeq
<1>2. 1 \in DOMAIN page /\ Len(page) \in DOMAIN page /\ \A k \in DOMAIN page : page[k] \in Indices
  BY <1>1
<1>3. a \in Indices /\ b \in Indices
  BY <1>2
<1>4. \A k \in DOMAIN page : page[k] \in Matching(c, min)
  BY DEF IsPage, Range
<1>5. \A j, k \in DOMAIN page : j < k => page[j] < page[k]
  BY DEF IsPage
<1>6. \A i \in Matching(c, min), k \in DOMAIN page : i < page[k] => i \in Range(page)
  BY DEF IsPage
<1>7. Indices = 1 .. Len(history) /\ Len(history) \in Nat
  BY HistoryFacts
<1>8. /\ history[a].ledger >= min /\ history[b].ledger <= height
      /\ history[a].ledger \in min .. height /\ history[b].ledger \in min .. height
      /\ history[a].contract = ContractList[c]
  <2>1. a \in Matching(c, min) /\ b \in Matching(c, min)
    BY <1>2, <1>4
  <2>2. history[a].ledger \in Nat
    BY <1>3, HistoryFacts
  <2> QED
    BY <2>1, <2>2 DEF Matching
<1>9. \A k \in DOMAIN page : a <= page[k] /\ page[k] <= b
  <2> SUFFICES ASSUME NEW k \in DOMAIN page  PROVE a <= page[k] /\ page[k] <= b
    OBVIOUS
  <2>1. a \in Int /\ b \in Int /\ page[k] \in Int
    BY <1>2, <1>3, <1>7
  <2>2. k = 1 \/ 1 < k
    BY <1>1
  <2>3. k = Len(page) \/ k < Len(page)
    BY <1>1
  <2> QED
    BY <1>2, <1>5, <2>1, <2>2, <2>3
<1>10. \A i \in a .. b : i \in Indices /\ i \in Matching(c, min)
  <2> SUFFICES ASSUME NEW i \in a .. b  PROVE i \in Indices /\ i \in Matching(c, min)
    OBVIOUS
  <2>1. i \in Indices
    BY <1>3, <1>7
  <2>2. history[a].ledger <= history[i].ledger /\ history[i].ledger <= history[b].ledger
    <3>1. a = i \/ a < i
      BY <1>3, <1>7
    <3>2. b = i \/ i < b
      BY <1>3, <1>7
    <3>3. history[i].ledger \in Nat
      BY <2>1, HistoryFacts
    <3> HIDE DEF a, b
    <3> QED
      BY <1>3, <2>1, <3>1, <3>2, <3>3, HistoryFacts
  <2>3. history[i].ledger \in min .. height
    <3>1. history[i].ledger \in Nat /\ history[a].ledger \in Nat /\ history[b].ledger \in Nat
      BY <1>3, <2>1, HistoryFacts
    <3> QED
      BY <1>8, <2>2, <3>1
  <2>4. history[i].contract = ContractList[c]
    BY <1>3, <1>8, <2>1
  <2> QED
    BY <2>1, <2>3, <2>4 DEF Matching
<1>11. Range(page) = a .. b
  <2>1. Range(page) \subseteq a .. b
    <3>1. \A k \in DOMAIN page : page[k] \in Int /\ a \in Int /\ b \in Int
      BY <1>2, <1>3, <1>7
    <3> QED
      BY <1>9, <3>1 DEF Range
  <2>2. ASSUME NEW i \in a .. b  PROVE i \in Range(page)
    <3>1. i = b \/ i < b
      BY <1>3, <1>7
    <3>2. CASE i = b
      BY <1>2, <3>2 DEF Range
    <3>3. CASE i < b
      BY <1>2, <1>6, <1>10, <3>3
    <3> QED
      BY <3>1, <3>2, <3>3
  <2> QED
    BY <2>1, <2>2
<1>12. Len(page) = b - a + 1
  <2>1. Cardinality(1 .. Len(page)) = Len(page) /\ IsFiniteSet(1 .. Len(page))
    BY <1>1, FS_Interval
  <2>2. page \in Bijection(1 .. Len(page), Range(page))
    <3>1. \A j, k \in DOMAIN page : page[j] = page[k] => j = k
      <4> SUFFICES ASSUME NEW j \in DOMAIN page, NEW k \in DOMAIN page, page[j] = page[k]
                   PROVE  j = k
        OBVIOUS
      <4>1. j \in Nat /\ k \in Nat /\ page[j] \in Int
        BY <1>1, <1>2, <1>7
      <4>2. ~(j < k) /\ ~(k < j)
        BY <1>5, <4>1
      <4> QED
        BY <4>1, <4>2
    <3>2. page \in [1 .. Len(page) -> Range(page)]
      BY <1>1 DEF Range
    <3> QED
      BY <1>1, <3>1, <3>2 DEF Bijection, Injection, Surjection, IsInjective, Range
  <2>3. Cardinality(Range(page)) = Len(page)
    <3>1. ExistsBijection(1 .. Len(page), Range(page))
      BY <2>2 DEF ExistsBijection
    <3> QED
      BY <2>1, <3>1, FS_Bijection
  <2>4. a \in Int /\ b \in Int /\ a <= b
    BY <1>2, <1>3, <1>7, <1>9
  <2>5. Cardinality(a .. b) = b - a + 1
    <3> HIDE DEF a, b
    <3> QED
      BY <2>4, FS_Interval
  <2> QED
    BY <1>11, <2>3, <2>5
<1>13. ASSUME NEW j \in 1 .. a - 1  PROVE j \in Indices /\ history[j].ledger < min
  <2>1. j \in Indices /\ j < a
    BY <1>3, <1>7
  <2>2. j \notin Matching(c, min)
    <3>1. j \notin a .. b
      BY <1>3, <1>7, <2>1
    <3> QED
      BY <1>2, <1>6, <1>11, <2>1, <3>1
  <2>3. history[j].contract = ContractList[c] /\ history[j].ledger <= history[a].ledger
    BY <1>3, <1>8, <2>1, HistoryFacts
  <2>4. history[j].ledger \in Nat /\ history[a].ledger \in Nat
    BY <1>3, <2>1, HistoryFacts
  <2>5. ~(history[j].ledger \in min .. height)
    BY <2>1, <2>2, <2>3 DEF Matching
  <2> QED
    BY <1>8, <2>1, <2>3, <2>4, <2>5
<1> QED
  BY <1>3, <1>8, <1>11, <1>12, <1>13

\* A page holds every event up to its last ledger that is not below the ledger asked from.
LEMMA PageCovers ==
  ASSUME TypeOK, CursorReliable, NEW c, NEW min \in Nat, NEW page \in Seq(Indices),
         page # <<>>, IsPage(page, c, min),
         \A i \in Indices : history[i].ledger < min => Settled(i)
  PROVE  \A i \in Indices : history[i].ledger <= history[page[Len(page)]].ledger
                              => Settled(i) \/ i \in Range(page)
<1>1. history \in Histories /\ height \in Nat
  BY DEF TypeOK
<1>2. \A i, j \in Indices : history[i].contract = history[j].contract
  BY DEF CursorReliable
<1>3. PICK a, b \in Indices :
         /\ a = page[1] /\ b = page[Len(page)]
         /\ Range(page) = a .. b
         /\ Len(page) = b - a + 1
         /\ history[a].ledger >= min
         /\ \A j \in 1 .. a - 1 : j \in Indices /\ history[j].ledger < min
  BY <1>1, <1>2, PageIsAnInterval
<1>4. Indices = 1 .. Len(history) /\ Len(history) \in Nat
  BY <1>1, HistoryFacts
<1> SUFFICES ASSUME NEW i \in Indices, history[i].ledger <= history[b].ledger
             PROVE  Settled(i) \/ i \in Range(page)
  BY <1>3
<1>5. /\ i \in Nat /\ a \in Nat /\ b \in Nat
      /\ history[i].ledger \in Nat /\ history[a].ledger \in Nat /\ history[b].ledger \in Nat
  BY <1>1, <1>4, HistoryFacts
<1>6. CASE i < a
  <2>1. i \in 1 .. a - 1
    BY <1>4, <1>5, <1>6
  <2> QED
    BY <1>3, <2>1
<1>7. CASE a <= i /\ i <= b
  BY <1>3, <1>5, <1>7
<1>8. CASE b < i
  <2>1. b \in Matching(c, min)
    <3>1. a <= b
      <4>1. PICK n \in Nat : n = Len(page) /\ n # 0
        BY EmptySeq
      <4> QED
        BY <1>3, <1>5, <4>1
    <3>2. b \in Range(page)
      BY <1>3, <1>5, <3>1
    <3> QED
      BY <3>2 DEF IsPage
  <2>2. history[i].ledger = history[b].ledger
    BY <1>1, <1>5, <1>8, HistoryFacts
  <2>3. i \in Matching(c, min) /\ i \notin Range(page)
    BY <1>2, <1>3, <1>5, <1>8, <2>1, <2>2 DEF Matching
  <2>4. Len(page) = PageLimit
    BY <2>3 DEF IsPage
  <2>5. b + 1 = a + PageLimit /\ b + 1 \in Indices
    <3>1. PICK n \in Nat : n = PageLimit
      BY PageLimitAssumption
    <3>2. n = b - a + 1
      BY <1>3, <2>4, <3>1
    <3>3. b + 1 = a + n
      BY <1>5, <3>2
    <3>4. PICK m \in Nat : m = Len(history)
      BY <1>4
    <3>5. i \in 1 .. m /\ b + 1 \in 1 .. m
      BY <1>4, <1>5, <1>8, <3>4
    <3> QED
      BY <1>4, <3>1, <3>3, <3>4, <3>5
  <2>6. \A j \in 1 .. a - 1 : history[j].ledger < history[a].ledger
    <3> SUFFICES ASSUME NEW j \in 1 .. a - 1  PROVE history[j].ledger < history[a].ledger
      OBVIOUS
    <3>1. j \in Indices /\ history[j].ledger < min
      BY <1>3
    <3>2. PICK x, y \in Nat : x = history[j].ledger /\ y = history[a].ledger
      BY <1>1, <1>5, <3>1, HistoryFacts
    <3>3. x < min /\ y >= min
      BY <1>3, <3>1, <3>2
    <3>4. x < y
      BY <3>3
    <3> QED
      BY <3>2, <3>4
  <2>7. history[(b + 1) - 1].ledger < history[b + 1].ledger
    BY <2>5, <2>6 DEF CursorReliable, PagesEndLedgers
  <2>8. history[b].ledger < history[b + 1].ledger
    <3>1. (b + 1) - 1 = b
      BY <1>5
    <3> QED
      BY <2>7, <3>1
  <2>9. history[b + 1].ledger <= history[i].ledger
    <3>1. b + 1 = i \/ b + 1 < i
      BY <1>5, <1>8
    <3> QED
      BY <1>1, <1>5, <2>5, <3>1, HistoryFacts
  <2>10. history[b + 1].ledger \in Nat
    BY <1>1, <2>5, HistoryFacts
  <2> QED
    BY <1>5, <2>2, <2>8, <2>9, <2>10
<1> QED
  BY <1>5, <1>6, <1>7, <1>8

\* Where tick t stands after a step; the others stand where they stood.
LEMMA OthersStayBehind ==
  ASSUME TypeOK, UNCHANGED history, NEW t \in Ticks, NEW q, Moves(t, q),
         \A i \in Indices : Settled(i) => Settled(i)',
         \A u \in Ticks : Behind(u),
         q.stage = "response" =>
           \A i \in Indices : history[i].ledger < q.min => Settled(i)',
         q.stage \in Work =>
           \A i \in Indices : history[i].ledger <= q.last => Settled(i)' \/ i \in Range(q.page)
  PROVE  \A u \in Ticks : Behind(u)'
<1>1. tick'[t] = q /\ \A u \in Ticks : u # t => tick'[u] = tick[u]
  BY DEF Moves, TypeOK
<1>2. Indices' = Indices
  BY SameData
<1>3. Behind(t)'
  BY <1>1, <1>2 DEF Behind
<1>4. ASSUME NEW u \in Ticks, u # t  PROVE Behind(u)'
  BY <1>1, <1>2, <1>4 DEF Behind
<1> QED
  BY <1>3, <1>4

LEMMA RangeOfTail ==
  ASSUME NEW S, NEW s \in Seq(S), s # <<>>
  PROVE  \A i \in Range(s) : i = s[1] \/ i \in Range(Tail(s))
<1> SUFFICES ASSUME NEW k \in DOMAIN s, k # 1  PROVE s[k] \in Range(Tail(s))
  BY DEF Range
<1>1. PICK n \in Nat : n = Len(s) /\ DOMAIN s = 1 .. n
  OBVIOUS
<1>2. Tail(s) \in Seq(S) /\ Len(Tail(s)) = n - 1
  BY <1>1, HeadTailProperties
<1>3. k - 1 \in 1 .. n - 1
  BY <1>1
<1>4. DOMAIN Tail(s) = 1 .. n - 1
  BY <1>2
<1>5. Tail(s)[k - 1] = s[k]
  BY <1>1, <1>3
<1> QED
  BY <1>3, <1>4, <1>5 DEF Range

LEMMA RangeOfOne ==
  ASSUME NEW S, NEW s \in Seq(S), Len(s) = 1
  PROVE  \A i \in Range(s) : i = s[1]
BY DEF Range

LEMMA TickKeepsCInv ==
  ASSUME TypeOK, PagesInHand, CInv, NEW t \in Ticks, StartTick(t) \/ Poll(t)
  PROVE  CInv'
<1>1. /\ UNCHANGED <<history, height, misread>>
      /\ cursor' \in Cursors
  BY TickMoves DEF PagesInHand
<1>2. Indices' = Indices /\ Txs' = Txs
  BY <1>1, SameData
<1>3. history \in Histories /\ cursor \in Cursors /\ tick[t] \in TickState
  BY DEF TypeOK, Cursors
<1>4. tick[t].stage \in Work =>
         /\ tick[t].page # <<>> /\ Current(t) \in Indices /\ CurrentTx(t) \in Txs
         /\ tick[t].page \in Seq(Indices)
         /\ Current(t) = tick[t].page[1]
  BY <1>3, CurrentIsAnEvent DEF PagesInHand, TickState
<1> SUFFICES ASSUME CursorReliable'
             PROVE  (~cursor.text /\ SettledUpTo(cursor.ledger) /\ \A u \in Ticks : Behind(u))'
  BY DEF CInv
<1>5. CursorReliable
  BY <1>1, ReliableBefore
<1>6. ~cursor.text /\ SettledUpTo(cursor.ledger) /\ \A u \in Ticks : Behind(u)
  BY <1>5 DEF CInv
<1>7. dead \subseteq dead' /\ \A x \in Txs : rows'[x] = "none" => rows[x] = "none"
  <2>1. CASE Insert(t)
    BY <1>4, <2>1 DEF Insert, TypeOK, Work
  <2>2. CASE Mark(t)
    BY <1>4, <2>2 DEF Mark, TypeOK, Work
  <2>3. CASE ~Insert(t) /\ ~Mark(t)
    BY <2>3 DEF Poll, StartTick, Response, RequestFails, Find, Handle, Fails,
                DeadLetter, DeadLetterFails
  <2> QED
    BY <2>1, <2>2, <2>3
<1>8. \A i \in Indices : Settled(i) => Settled(i)'
  BY <1>1, <1>7, SettledStays
<1>9. ASSUME NEW l \in Nat, \A i \in Indices : history[i].ledger <= l => Settled(i)'
      PROVE  SettledUpTo(l)'
  BY <1>1, <1>2, <1>9 DEF SettledUpTo
<1>10. cursor' = cursor => (~cursor.text /\ SettledUpTo(cursor.ledger))'
  BY <1>1, <1>2, <1>6, <1>8 DEF SettledUpTo
<1>11. ASSUME NEW q \in TickState, Moves(t, q), q.stage \in {"idle", "response"},
              q.stage = "response" => q.min = MinLedger(cursor), cursor' = cursor
       PROVE  (~cursor.text /\ SettledUpTo(cursor.ledger) /\ \A u \in Ticks : Behind(u))'
  <2>1. \A i \in Indices : q.stage = "response" /\ history[i].ledger < q.min => Settled(i)'
    BY <1>3, <1>6, <1>8, <1>11, AskedFromTheCursor DEF SettledUpTo
  <2>2. \A u \in Ticks : Behind(u)'
    BY <1>1, <1>6, <1>8, <1>11, <2>1, OthersStayBehind DEF Work
  <2> QED
    BY <1>10, <1>11, <2>2
<1>12. ASSUME NEW s \in Work, tick[t].stage \in Work, tick' = [tick EXCEPT ![t].stage = s],
              cursor' = cursor
       PROVE  (~cursor.text /\ SettledUpTo(cursor.ledger) /\ \A u \in Ticks : Behind(u))'
  <2> DEFINE moved == [tick[t] EXCEPT !.stage = s]
  <2>1. /\ moved.stage = s /\ moved.page = tick[t].page /\ moved.last = tick[t].last
        /\ moved \in TickState /\ Moves(t, moved)
    BY <1>3, <1>12 DEF TickState, Moves, Stages, Work
  <2> HIDE DEF moved
  <2>2. PICK q \in TickState : q = moved
    BY <2>1
  <2>3. q.stage = s /\ q.page = tick[t].page /\ q.last = tick[t].last
    BY <2>1, <2>2
  <2>4. Moves(t, q)
    BY <2>1, <2>2
  <2>5. \A i \in Indices : history[i].ledger <= q.last => Settled(i)' \/ i \in Range(q.page)
    BY <1>6, <1>8, <1>12, <2>3 DEF Behind
  <2>6. q.stage # "response"
    BY <2>3 DEF Work
  <2>7. \A u \in Ticks : Behind(u)'
    BY <1>1, <1>6, <1>8, <2>4, <2>5, <2>6, OthersStayBehind
  <2> QED
    BY <1>10, <1>12, <2>7
<1>13. ASSUME tick[t].stage \in Work, NextEvent(t),
              NEW e \in Indices, e = Current(t), Settled(e)'
       PROVE  (~cursor.text /\ SettledUpTo(cursor.ledger) /\ \A u \in Ticks : Behind(u))'
  <2>1. PICK q \in TickState : GoesOn(t, q)
    BY <1>4, <1>13, NextEventMoves
  <2>2. \A i \in Indices : history[i].ledger <= tick[t].last =>
                             Settled(i)' \/ i \in Range(tick[t].page)
    BY <1>6, <1>8, <1>13 DEF Behind
  <2>3. Moves(t, q) /\ q.stage \in {"idle", "response", "find"}
    BY <2>1 DEF GoesOn
  <2>4. CASE q.stage = "find"
    <3>1. q.page = Tail(tick[t].page) /\ q.last = tick[t].last /\ cursor' = cursor
      BY <2>1, <2>4 DEF GoesOn
    <3>2. \A i \in Range(tick[t].page) : i = Current(t) \/ i \in Range(Tail(tick[t].page))
      BY <1>4, <1>13, RangeOfTail
    <3>3. \A i \in Indices : history[i].ledger <= q.last => Settled(i)' \/ i \in Range(q.page)
      BY <1>13, <2>2, <3>1, <3>2
    <3>4. \A u \in Ticks : Behind(u)'
      BY <1>1, <1>6, <1>8, <2>3, <2>4, <3>3, OthersStayBehind
    <3> QED
      BY <1>10, <3>1, <3>4
  <2>5. CASE q.stage # "find"
    <3>1. /\ Len(tick[t].page) = 1
          /\ cursor' = [ledger |-> tick[t].last, text |-> FALSE]
          /\ q.stage = "response" => q.min = MinLedger(cursor')
      BY <2>1, <2>5 DEF GoesOn
    <3>2. \A i \in Range(tick[t].page) : i = Current(t)
      BY <1>4, <1>13, <3>1, RangeOfOne
    <3>3. \A i \in Indices : history[i].ledger <= tick[t].last => Settled(i)'
      BY <1>13, <2>2, <3>2
    <3>4. ~cursor'.text /\ cursor'.ledger = tick[t].last /\ tick[t].last \in Nat
      BY <1>3, <3>1 DEF TickState
    <3>5. SettledUpTo(cursor.ledger)'
      BY <1>1, <1>2, <3>3, <3>4 DEF SettledUpTo
    <3>6. \A i \in Indices : q.stage = "response" /\ history[i].ledger < q.min => Settled(i)'
      BY <1>1, <1>3, <3>1, <3>3, <3>4, AskedFromTheCursor
    <3>7. \A u \in Ticks : Behind(u)'
      BY <1>1, <1>6, <1>8, <2>3, <2>5, <3>6, OthersStayBehind DEF Work
    <3> QED
      BY <3>4, <3>5, <3>7
  <2> QED
    BY <2>4, <2>5
<1>14. CASE StartTick(t)
  <2>1. Moves(t, Asking(1, cursor)) /\ cursor' = cursor
    BY <1>14 DEF StartTick, Moves
  <2> QED
    BY <1>3, <1>11, <2>1, AskingIsAState, ContractsInTheList
<1>15. CASE Response(t)
  <2>1. cursor' = cursor /\ tick[t].stage = "response"
    BY <1>15 DEF Response
  <2>2. PICK page \in Pages :
           /\ IsPage(page, tick[t].contract, tick[t].min)
           /\ IF page = <<>> THEN NextContract(t, cursor)
              ELSE tick' = [tick EXCEPT ![t] = Processing(tick[t].contract, page)]
    BY <1>15 DEF Response
  <2>3. CASE page = <<>>
    BY <1>3, <1>11, <2>1, <2>2, <2>3, NextContractMoves
  <2>4. CASE page # <<>>
    <3>1. tick[t].contract \in DOMAIN ContractList /\ tick[t].min \in Nat
      BY <1>3 DEF TickState
    <3>2. PICK q \in TickState : q = Processing(tick[t].contract, page)
      BY <1>3, <2>4, <3>1, ProcessingIsAState
    <3>3. /\ q.stage = "find" /\ q.page = page
          /\ q.last = history[page[Len(page)]].ledger
          /\ page \in Seq(Indices)
          /\ Moves(t, q)
      BY <1>3, <2>2, <2>4, <3>1, <3>2, ProcessingIsAState DEF Moves
    <3>4. \A i \in Indices : history[i].ledger < tick[t].min => Settled(i)
      BY <1>6, <2>1 DEF Behind
    <3>5. \A i \in Indices : history[i].ledger <= history[page[Len(page)]].ledger
                               => Settled(i) \/ i \in Range(page)
      BY <1>5, <2>2, <2>4, <3>1, <3>3, <3>4, PageCovers
    <3>6. \A i \in Indices : history[i].ledger <= q.last => Settled(i)' \/ i \in Range(q.page)
      BY <1>8, <3>3, <3>5
    <3>7. \A u \in Ticks : Behind(u)'
      BY <1>1, <1>6, <1>8, <3>3, <3>6, OthersStayBehind
    <3> QED
      BY <1>10, <2>1, <3>7
  <2> QED
    BY <2>3, <2>4
<1>16. CASE RequestFails(t)
  <2>1. NextContract(t, cursor) /\ cursor' = cursor
    BY <1>16 DEF RequestFails
  <2> QED
    BY <1>3, <1>11, <2>1, NextContractMoves
<1>17. CASE Find(t)
  <2>1. tick[t].stage \in Work /\ rows' = rows /\ dead' = dead
    BY <1>17 DEF Find, Work
  <2>2. CASE rows[CurrentTx(t)] # "none" \/ ~history[Current(t)].registered
    <3>1. PICK e \in Indices : e = Current(t)
      BY <1>4, <2>1
    <3>2. Settled(e)'
      BY <1>8, <2>2, <3>1 DEF Settled, CurrentTx
    <3> QED
      BY <1>13, <1>17, <2>1, <2>2, <3>1, <3>2 DEF Find
  <2>3. CASE ~(rows[CurrentTx(t)] # "none" \/ ~history[Current(t)].registered)
    BY <1>12, <1>17, <2>1, <2>3 DEF Find, Work
  <2> QED
    BY <2>2, <2>3
<1>18. CASE Insert(t) \/ Handle(t) \/ Fails(t)
  <2>1. tick[t].stage \in Work /\ cursor' = cursor
    BY <1>18 DEF Insert, Handle, Fails, Work
  <2>2. \E s \in Work : tick' = [tick EXCEPT ![t].stage = s]
    BY <1>18 DEF Insert, Handle, Fails, Work
  <2> QED
    BY <1>12, <2>1, <2>2
<1>19. CASE Mark(t)
  <2>1. /\ tick[t].stage \in Work /\ NextEvent(t)
        /\ rows' = [rows EXCEPT ![CurrentTx(t)] = "processed"]
    BY <1>19 DEF Mark, Work
  <2>2. PICK e \in Indices : e = Current(t)
    BY <1>4, <2>1
  <2>3. history[e].tx = CurrentTx(t) /\ rows'[history[e].tx] = "processed"
    BY <1>4, <2>1, <2>2 DEF TypeOK, CurrentTx
  <2>4. Settled(e)'
    BY <1>1, <2>3 DEF Settled
  <2> QED
    BY <1>13, <2>1, <2>2, <2>4
<1>20. CASE DeadLetter(t)
  <2>1. tick[t].stage \in Work /\ NextEvent(t) /\ dead' = dead \union {Current(t)}
    BY <1>20 DEF DeadLetter, Work
  <2>2. PICK e \in Indices : e = Current(t)
    BY <1>4, <2>1
  <2>3. Settled(e)'
    BY <2>1, <2>2 DEF Settled
  <2> QED
    BY <1>13, <2>1, <2>2, <2>3
<1>21. CASE DeadLetterFails(t)
  <2>1. NextContract(t, cursor) /\ cursor' = cursor
    BY <1>21 DEF DeadLetterFails
  <2> QED
    BY <1>3, <1>11, <2>1, NextContractMoves
<1> QED
  BY <1>14, <1>15, <1>16, <1>17, <1>18, <1>19, <1>20, <1>21 DEF Poll

LEMMA NextKeepsCInv ==
  ASSUME TypeOK, HInv, CInv, [Next]_vars
  PROVE  CInv'
<1>1. CASE \E t \in Ticks : StartTick(t) \/ Poll(t)
  BY <1>1, TickKeepsCInv DEF HInv
<1>2. ASSUME UNCHANGED <<history, misread, cursor, tick, dead>>,
             \A x \in Txs : rows'[x] = "none" => rows[x] = "none"
      PROVE  CInv'
  <2>1. \A i \in Indices : Settled(i) => Settled(i)'
    BY <1>2, SettledStays
  <2>2. CursorReliable' => CursorReliable
    BY <1>2, ReliableBefore
  <2>3. Indices' = Indices
    BY <1>2, SameData
  <2>4. SettledUpTo(cursor.ledger) => SettledUpTo(cursor.ledger)'
    BY <1>2, <2>1, <2>3 DEF SettledUpTo
  <2>5. \A u \in Ticks : Behind(u) => Behind(u)'
    BY <1>2, <2>1, <2>3 DEF Behind
  <2> QED
    BY <1>2, <2>2, <2>4, <2>5 DEF CInv
<1>3. ASSUME UNCHANGED <<history, tick, rows, dead>>, misread => misread',
             CursorReliable' => cursor' = [ledger |-> 0, text |-> FALSE]
      PROVE  CInv'
  <2> SUFFICES ASSUME CursorReliable'
               PROVE  (~cursor.text /\ SettledUpTo(cursor.ledger) /\ \A u \in Ticks : Behind(u))'
    BY DEF CInv
  <2>1. Indices' = Indices /\ CursorReliable
    BY <1>3, SameData, ReliableBefore
  <2>2. \A u \in Ticks : Behind(u)
    BY <2>1 DEF CInv
  <2>3. \A u \in Ticks : Behind(u)'
    BY <1>3, <2>1, <2>2 DEF Behind, Settled
  <2>4. SettledUpTo(cursor.ledger)'
    <3>1. cursor'.ledger = 0
      BY <1>3
    <3>2. \A i \in Indices : history[i].ledger \in Nat /\ history[i].ledger > 0
      BY HistoryFacts DEF TypeOK
    <3>3. \A i \in Indices : ~(history[i].ledger <= 0)
      BY <3>2
    <3> QED
      BY <1>3, <2>1, <3>1, <3>3 DEF SettledUpTo
  <2> QED
    BY <1>3, <2>3, <2>4
<1>4. CASE CloseLedger \/ BootRead
  BY <1>2, <1>4 DEF CloseLedger, BootRead, chainVars, replayVars
<1>5. CASE BootFails
  BY <1>3, <1>5 DEF BootFails, chainVars
<1>6. CASE BootAssign
  <2>1. UNCHANGED <<history, tick, rows, dead>> /\ (misread => misread')
    BY <1>6 DEF BootAssign, chainVars
  <2>2. CursorReliable' => cursor' = [ledger |-> 0, text |-> FALSE]
    <3> SUFFICES ASSUME CursorReliable'  PROVE cursor' = [ledger |-> 0, text |-> FALSE]
      OBVIOUS
    <3>1. ~(boot.ledger > 0)
      BY <1>6 DEF BootAssign, CursorReliable
    <3>2. boot.ledger = 0
      BY <3>1 DEF TypeOK
    <3>3. cursor' = [ledger |-> boot.ledger, text |-> boot.ledger > 0]
      BY <1>6 DEF BootAssign
    <3>4. (boot.ledger > 0) = FALSE
      BY <3>2
    <3> QED
      BY <3>2, <3>3, <3>4
  <2> QED
    BY <1>3, <2>1, <2>2
<1>7. CASE Crash
  <2> SUFFICES ASSUME CursorReliable'
               PROVE  (~cursor.text /\ SettledUpTo(cursor.ledger) /\ \A u \in Ticks : Behind(u))'
    BY DEF CInv
  <2>1. cursor' = [ledger |-> 0, text |-> FALSE] /\ history' = history
    BY <1>7 DEF Crash, chainVars
  <2>2. \A u \in Ticks : tick'[u].stage = "idle"
    BY <1>7 DEF Crash, Idle
  <2>3. \A u \in Ticks : Behind(u)'
    BY <2>2 DEF Behind, Work
  <2>4. SettledUpTo(cursor.ledger)'
    <3>1. cursor'.ledger = 0 /\ Indices' = Indices
      BY <2>1, SameData
    <3>2. \A i \in Indices : history[i].ledger \in Nat /\ history[i].ledger > 0
      BY HistoryFacts DEF TypeOK
    <3>3. \A i \in Indices : ~(history[i].ledger <= 0)
      BY <3>2
    <3> QED
      BY <2>1, <3>1, <3>3 DEF SettledUpTo
  <2> QED
    BY <2>1, <2>3, <2>4
<1>8. CASE \E from \in Ledgers, to \in {0} \union Ledgers : StartReplay(from, to)
  BY <1>2, <1>8 DEF StartReplay, chainVars
<1>9. CASE ReplayHandle \/ ReplayFails
  BY <1>2, <1>9 DEF ReplayHandle, ReplayFails, chainVars
<1>10. CASE ReplayMark
  <2>1. \A x \in Txs : rows'[x] = "none" => rows[x] = "none"
    BY <1>10 DEF ReplayMark, TypeOK
  <2>2. UNCHANGED <<history, misread, cursor, tick, dead>>
    BY <1>10 DEF ReplayMark, chainVars
  <2> QED
    BY <1>2, <2>1, <2>2
<1>11. CASE UNCHANGED vars
  BY <1>2, <1>11 DEF vars
<1> QED
  BY <1>1, <1>4, <1>5, <1>6, <1>7, <1>8, <1>9, <1>10, <1>11 DEF Next

-----------------------------------------------------------------------------
(* Every tick goes forward, and passes no event over.                      *)

\* How many awaits an event of the page may still take.
StepsOf(stage) ==
  CASE stage = "find" -> 5 [] stage = "insert" -> 4 [] stage = "handle" -> 3
    [] stage = "mark" -> 2 [] stage = "deadLetter" -> 1

\* A tick that goes from now to next is over, or at a later contract, or at the page it
\* asked for, or at a shorter rest of it, or at a later step of the same event.
Onward(now, next) ==
  \/ next.stage = "idle"
  \/ next.contract > now.contract
  \/ /\ next.contract = now.contract
     /\ now.stage = "response"
     /\ next.stage = "find"
     /\ Len(next.page) \in 1 .. PageLimit
  \/ /\ next.contract = now.contract
     /\ now.stage \in Work /\ next.stage \in Work
     /\ \/ Len(next.page) < Len(now.page)
        \/ next.page = now.page /\ StepsOf(next.stage) < StepsOf(now.stage)

\* A step of a tick takes it onward.
TicksGoOn ==
  \A t \in Ticks : tick[t].stage # "idle" /\ tick'[t] # tick[t] => Onward(tick[t], tick'[t])

\* A tick leaves an event only when it is settled, unless this step is an upset.
NothingPassedOver ==
  upsets' = upsets =>
    \A t \in Ticks, i \in Indices :
      tick[t].stage \in Work /\ i = Current(t) /\ tick'[t].page # tick[t].page => Settled(i)'

LEMMA NextContractIsOnward ==
  ASSUME TypeOK, NEW t \in Ticks, NEW from, NextContract(t, from)
  PROVE  tick'[t].stage = "idle" \/ tick'[t].contract > tick[t].contract
<1>1. tick[t].contract \in Nat
  BY ContractsInTheList DEF TypeOK, TickState
<1>2. CASE tick[t].contract < Len(ContractList)
  <2>1. tick'[t] = Asking(tick[t].contract + 1, from)
    BY <1>2 DEF NextContract, TypeOK
  <2>2. Asking(tick[t].contract + 1, from).contract = tick[t].contract + 1
    BY DEF Asking, Idle
  <2> QED
    BY <1>1, <2>1, <2>2
<1>3. CASE ~(tick[t].contract < Len(ContractList))
  BY <1>3 DEF NextContract, TypeOK, Idle
<1> QED
  BY <1>2, <1>3

LEMMA NextEventIsOnward ==
  ASSUME TypeOK, NEW t \in Ticks, tick[t].stage \in Work, tick[t].page # <<>>, NextEvent(t)
  PROVE  Onward(tick[t], tick'[t])
<1>1. tick[t] \in TickState /\ tick[t].page \in Seq(Indices) /\ Len(tick[t].page) \in Nat \ {0}
  BY CurrentIsAnEvent DEF TickState
<1>2. CASE Len(tick[t].page) > 1
  <2>1. tick'[t] = [tick[t] EXCEPT !.page = Tail(@), !.stage = "find"]
    BY <1>2 DEF NextEvent, TypeOK
  <2>2. /\ tick'[t].stage = "find" /\ tick'[t].page = Tail(tick[t].page)
        /\ tick'[t].contract = tick[t].contract
    BY <1>1, <2>1 DEF TickState
  <2>3. Len(Tail(tick[t].page)) = Len(tick[t].page) - 1
    BY <1>1, HeadTailProperties
  <2>4. Len(tick'[t].page) < Len(tick[t].page)
    BY <1>1, <2>2, <2>3
  <2> QED
    BY <2>2, <2>4 DEF Onward, Work
<1>3. CASE ~(Len(tick[t].page) > 1)
  BY <1>3, NextContractIsOnward DEF NextEvent, Onward
<1> QED
  BY <1>2, <1>3

LEMMA NextStageIsOnward ==
  ASSUME TypeOK, NEW t \in Ticks, NEW s \in Work, tick[t].stage \in Work,
         tick' = [tick EXCEPT ![t].stage = s], StepsOf(s) < StepsOf(tick[t].stage)
  PROVE  Onward(tick[t], tick'[t]) /\ tick'[t].page = tick[t].page
<1>1. tick[t] \in TickState /\ tick'[t] = [tick[t] EXCEPT !.stage = s]
  BY DEF TypeOK
<1>2. /\ tick'[t].stage = s /\ tick'[t].page = tick[t].page
      /\ tick'[t].contract = tick[t].contract
  BY <1>1 DEF TickState
<1> QED
  BY <1>2 DEF Onward

\* What one step of a tick does to its place, and to the event in hand.
LEMMA TickIsOnward ==
  ASSUME TypeOK, PagesInHand, NEW t \in Ticks, Poll(t)
  PROVE  /\ Onward(tick[t], tick'[t])
         /\ upsets' = upsets /\ tick[t].stage \in Work /\ tick'[t].page # tick[t].page
              => \A i \in Indices : i = Current(t) => Settled(i)'
<1>1. UNCHANGED history
  BY TickMoves DEF PagesInHand
<1>2. tick[t].stage \in Work => tick[t].page # <<>> /\ CurrentTx(t) \in Txs
  BY CurrentIsAnEvent DEF PagesInHand
<1>3. /\ StepsOf("find") = 5 /\ StepsOf("insert") = 4 /\ StepsOf("handle") = 3
      /\ StepsOf("mark") = 2 /\ StepsOf("deadLetter") = 1
  BY DEF StepsOf
<1>4. CASE Response(t)
  <2>1. tick[t].stage = "response" /\ tick[t] \in TickState
    BY <1>4 DEF Response, TypeOK
  <2>2. PICK page \in Pages :
           IF page = <<>> THEN NextContract(t, cursor)
           ELSE tick' = [tick EXCEPT ![t] = Processing(tick[t].contract, page)]
    BY <1>4 DEF Response
  <2>3. CASE page = <<>>
    BY <2>1, <2>2, <2>3, NextContractIsOnward DEF Onward, Work
  <2>4. CASE page # <<>>
    <3>1. tick'[t] = Processing(tick[t].contract, page)
      BY <2>2, <2>4 DEF TypeOK
    <3>2. Processing(tick[t].contract, page).contract = tick[t].contract
      BY DEF Processing
    <3>3. PICK n \in 0 .. PageLimit : page \in [1 .. n -> Indices]
      BY DEF Pages
    <3>4. tick[t].contract \in DOMAIN ContractList /\ history \in Histories
      BY <2>1 DEF TickState, TypeOK
    <3>5. tick'[t].stage = "find" /\ tick'[t].page = page /\ Len(page) \in Nat \ {0}
      BY <2>4, <3>1, <3>4, ProcessingIsAState
    <3>6. Len(page) = n
      BY <3>3, PageLimitAssumption
    <3>7. Len(page) \in 1 .. PageLimit
      BY <3>3, <3>5, <3>6, PageLimitAssumption
    <3> QED
      BY <2>1, <3>1, <3>2, <3>5, <3>7 DEF Onward, Work
  <2> QED
    BY <2>3, <2>4
<1>5. CASE RequestFails(t)
  BY <1>5, NextContractIsOnward DEF RequestFails, Onward, Work
<1>6. CASE Find(t)
  <2>1. tick[t].stage \in Work /\ tick[t].stage = "find" /\ rows' = rows
    BY <1>6 DEF Find, Work
  <2>2. CASE rows[CurrentTx(t)] # "none" \/ ~history[Current(t)].registered
    <3>1. NextEvent(t)
      BY <1>6, <2>2 DEF Find
    <3>2. \A i \in Indices : i = Current(t) => Settled(i)'
      BY <1>1, <2>1, <2>2 DEF Settled, CurrentTx
    <3> QED
      BY <1>2, <2>1, <3>1, <3>2, NextEventIsOnward
  <2>3. CASE ~(rows[CurrentTx(t)] # "none" \/ ~history[Current(t)].registered)
    <3>1. tick' = [tick EXCEPT ![t].stage = "insert"]
      BY <1>6, <2>3 DEF Find
    <3>2. "insert" \in Work /\ StepsOf("insert") < StepsOf(tick[t].stage)
      BY <1>3, <2>1 DEF Work
    <3>3. Onward(tick[t], tick'[t]) /\ tick'[t].page = tick[t].page
      BY <2>1, <3>1, <3>2, NextStageIsOnward
    <3> QED
      BY <3>3
  <2> QED
    BY <2>2, <2>3
<1>7. CASE Insert(t) \/ Handle(t) \/ Fails(t)
  <2>1. PICK s \in Work : /\ tick[t].stage \in Work
                          /\ tick' = [tick EXCEPT ![t].stage = s]
                          /\ StepsOf(s) < StepsOf(tick[t].stage) \/ Fails(t)
    BY <1>3, <1>7 DEF Insert, Handle, Fails, Work
  <2>2. StepsOf(s) < StepsOf(tick[t].stage) => Onward(tick[t], tick'[t])
                                                 /\ tick'[t].page = tick[t].page
    BY <2>1, NextStageIsOnward
  <2>3. CASE Fails(t)
    <3>1. /\ tick[t].stage \in {"find", "insert", "handle", "mark"}
          /\ tick' = [tick EXCEPT ![t].stage = "deadLetter"]
      BY <2>3 DEF Fails
    <3>2. StepsOf("deadLetter") < StepsOf(tick[t].stage)
      BY <1>3, <3>1
    <3> QED
      BY <3>1, <3>2, NextStageIsOnward DEF Work
  <2> QED
    BY <2>1, <2>2, <2>3
<1>8. CASE Mark(t)
  <2>1. /\ tick[t].stage \in Work /\ NextEvent(t)
        /\ rows' = [rows EXCEPT ![CurrentTx(t)] = "processed"]
    BY <1>8 DEF Mark, Work
  <2>2. \A i \in Indices : i = Current(t) => Settled(i)'
    BY <1>1, <1>2, <2>1 DEF Settled, CurrentTx, TypeOK
  <2> QED
    BY <1>2, <2>1, <2>2, NextEventIsOnward
<1>9. CASE DeadLetter(t)
  <2>1. tick[t].stage \in Work /\ NextEvent(t) /\ Current(t) \in dead'
    BY <1>9 DEF DeadLetter, Work
  <2>2. \A i \in Indices : i = Current(t) => Settled(i)'
    BY <2>1 DEF Settled
  <2> QED
    BY <1>2, <2>1, <2>2, NextEventIsOnward
<1>10. CASE DeadLetterFails(t)
  <2>1. upsets' # upsets
    BY <1>10 DEF DeadLetterFails, TypeOK
  <2> QED
    BY <1>10, <2>1, NextContractIsOnward DEF DeadLetterFails, Onward
<1> QED
  BY <1>4, <1>5, <1>6, <1>7, <1>8, <1>9, <1>10 DEF Poll

LEMMA EveryStepIsOnward ==
  ASSUME TypeOK, PagesInHand, [Next]_vars
  PROVE  TicksGoOn /\ NothingPassedOver
<1>1. ASSUME UNCHANGED tick  PROVE TicksGoOn /\ NothingPassedOver
  BY <1>1 DEF TicksGoOn, NothingPassedOver
<1>2. CASE Crash
  <2>1. upsets' # upsets /\ \A t \in Ticks : tick'[t].stage = "idle"
    BY <1>2 DEF Crash, TypeOK, Idle
  <2> QED
    BY <2>1 DEF TicksGoOn, NothingPassedOver, Onward
<1>3. ASSUME NEW t \in Ticks, StartTick(t) \/ Poll(t)
      PROVE  TicksGoOn /\ NothingPassedOver
  <2>1. \A u \in Ticks : u # t => tick'[u] = tick[u]
    BY <1>3, TickMoves DEF PagesInHand, Moves, TypeOK
  <2>2. CASE StartTick(t)
    BY <2>1, <2>2 DEF StartTick, TicksGoOn, NothingPassedOver, Work
  <2>3. CASE Poll(t)
    BY <2>1, <2>3, TickIsOnward DEF TicksGoOn, NothingPassedOver
  <2> QED
    BY <1>3, <2>2, <2>3
<1>4. CASE \/ CloseLedger \/ BootRead \/ BootFails \/ BootAssign
           \/ \E from \in Ledgers, to \in {0} \union Ledgers : StartReplay(from, to)
           \/ ReplayHandle \/ ReplayMark \/ ReplayFails
  BY <1>1, <1>4 DEF CloseLedger, BootRead, BootFails, BootAssign, StartReplay, ReplayHandle,
                    ReplayMark, ReplayFails
<1>5. CASE UNCHANGED vars
  BY <1>1, <1>5 DEF vars
<1> QED
  BY <1>2, <1>3, <1>4, <1>5 DEF Next

-----------------------------------------------------------------------------
(* The theorems.                                                           *)

IInv == TypeOK /\ HInv /\ PendingIsNoticed /\ CInv

LEMMA InitIInv == Init => IInv
<1> SUFFICES ASSUME Init  PROVE IInv
  OBVIOUS
<1>1. TypeOK /\ HInv
  BY InitType, InitHInv
<1>2. PendingIsNoticed
  BY DEF Init, PendingIsNoticed
<1>3. CInv
  <2>1. cursor = [ledger |-> 0, text |-> FALSE] /\ \A t \in Ticks : tick[t].stage = "idle"
    BY DEF Init, Idle
  <2>2. \A i \in Indices : history[i].ledger \in Nat /\ history[i].ledger > 0
    BY <1>1, HistoryFacts DEF TypeOK
  <2>3. \A i \in Indices : ~(history[i].ledger <= 0)
    BY <2>2
  <2> QED
    BY <2>1, <2>3 DEF CInv, SettledUpTo, Behind, Work
<1> QED
  BY <1>1, <1>2, <1>3 DEF IInv

\* The inductive invariant: where each page, each row and each replay stands (HInv), what
\* is known below the cursor and behind each tick (CInv), and that nothing pending is lost
\* from sight.
THEOREM InductiveInvariant == Spec => []IInv
<1>1. Init => IInv
  BY InitIInv
<1>2. IInv /\ [Next]_vars => IInv'
  BY NextKeepsHInv, NextKeepsNotice, NextKeepsCInv DEF IInv
<1> QED
  BY <1>1, <1>2, PTL DEF Spec

\* Every variable keeps its type: pages hold events of the history, cursors are ledgers.
THEOREM TypeCorrect == Spec => []TypeOK
<1>1. IInv => TypeOK
  BY DEF IInv
<1> QED
  BY <1>1, InductiveInvariant, PTL

\* However ticks overlap, and whatever upsets and fails, the handler of a transaction
\* completes at most once, plus once for each replay an operator requests.
THEOREM NoSecondHandling == Spec => []HandledOnce
<1>1. IInv => HandledOnce
  BY CountedIsEnough DEF IInv
<1> QED
  BY <1>1, InductiveInvariant, PTL

\* A row marked processed had its handler run to completion.
THEOREM NoFalseMark == Spec => []ProcessedWasHandled
<1>1. IInv => ProcessedWasHandled
  BY DEF IInv, HInv
<1> QED
  BY <1>1, InductiveInvariant, PTL

\* A row left pending is at work, in the dead letters, or behind a crash or a dead letter
\* that could not be saved.
THEOREM NothingPendingUnseen == Spec => []PendingIsNoticed
<1>1. IInv => PendingIsNoticed
  BY DEF IInv
<1> QED
  BY <1>1, InductiveInvariant, PTL

\* While the cursor is reliable, no event at or below it is unsettled, whatever stale pages
\* overlapping ticks work on and wherever they move the cursor.
THEOREM NothingBehindTheCursor == Spec => []CursorLeavesNothingBehind
<1>1. IInv => CursorLeavesNothingBehind
  BY DEF IInv, CInv, SettledUpTo, CursorLeavesNothingBehind
<1> QED
  BY <1>1, InductiveInvariant, PTL

\* However ticks overlap, and whatever fails, each step of a tick brings it nearer to its
\* end: a later contract, the page it asked for (of at most PageLimit events), a shorter
\* rest of the page, or a later await of the same event.  What keeps a tick from its end
\* is only an await that never returns.
THEOREM TicksComeToAnEnd == Spec => [][TicksGoOn]_vars
<1>1. IInv /\ [Next]_vars => TicksGoOn
  BY EveryStepIsOnward DEF IInv, HInv
<1> QED
  BY <1>1, InductiveInvariant, PTL DEF Spec

\* Unless the process crashes or a dead letter cannot be saved in that very step, a tick
\* leaves an event of its page only when the event is settled: recorded, in the dead
\* letters, or without a handler.  This needs nothing of the cursor.
THEOREM EventsAreNotPassedOver == Spec => [][NothingPassedOver]_vars
<1>1. IInv /\ [Next]_vars => NothingPassedOver
  BY EveryStepIsOnward DEF IInv, HInv
<1> QED
  BY <1>1, InductiveInvariant, PTL DEF Spec
=============================================================================
