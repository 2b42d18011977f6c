----------------------------- MODULE CoCreation -----------------------------
(***************************************************************************)
(* The CoCreation contract: several creators sign off on a puzzle, publish *)
(* it, and share its royalties by basis points.  A transaction is atomic,  *)
(* so every external function is one action; a revert is a disabled one.   *)
(*                                                                         *)
(* The two mappings of the contract record the signatures twice (hasSigned *)
(* by address, creators[i].hasSigned by slot) and count them once more, in *)
(* signatureCount, which alone decides whether the puzzle may be published.*)
(***************************************************************************)
EXTENDS Integers, Sequences, FiniteSets, Functions

CONSTANTS
  Accounts,        \* the addresses that send transactions or receive ether
  Refusing,        \* the accounts that revert when they are sent ether
  MaxCoCreations,  \* bound of the model: how many co-creations are initiated
  Splits,          \* bound of the model: the vectors of basis points proposed
  Deposits,        \* bound of the model: the amounts of ether sent to the contract
  Amounts,         \* bound of the model: the amounts of royalty distributed
  MaxReceived,     \* bound of the model: the ether the contract ever receives
  MaxRounds        \* bound of the model: how often one co-creation distributes

Whole == 10000     \* 100% in basis points

ASSUME MaxCoCreationsAssumption == MaxCoCreations \in Nat \ {0}
ASSUME SplitsAssumption == \A s \in Splits : s \in Seq(0 .. Whole)
ASSUME AmountsAssumption == Amounts \subseteq Nat \ {0} /\ Deposits \subseteq Nat \ {0}
ASSUME BoundsAssumption == MaxReceived \in Nat /\ MaxRounds \in Nat

VARIABLES
  coCreationCounter,
  coCreations,  \* id -> [creators, status, signatureCount]
  hasSigned,    \* id -> the addresses whose signature is recorded
  balance,      \* the ether the contract holds, for all co-creations together
  lead,         \* history: id -> {the account that initiated it}
  received,     \* history: the ether the contract was ever sent
  offered,      \* history: id -> the total of the amounts distributed
  rounds,       \* history: id -> how many distributions made it up
  paid          \* history: id -> slot -> the ether the slot was paid

teamVars == <<coCreationCounter, coCreations, hasSigned, lead>>
moneyVars == <<balance, received, offered, rounds, paid>>
vars == <<coCreationCounter, coCreations, hasSigned, lead,
          balance, received, offered, rounds, paid>>

Ids == 1 .. MaxCoCreations
Status == {"Draft", "PendingSignatures", "Published"}
Creator == [creatorAddress : Accounts, basisPoints : 0 .. Whole, hasSigned : BOOLEAN]
CoCreationData == [creators : Seq(Creator), status : Status, signatureCount : Nat]

TypeOK ==
  /\ coCreationCounter \in 0 .. MaxCoCreations
  /\ coCreations \in [Ids -> CoCreationData]
  /\ hasSigned \in [Ids -> SUBSET Accounts]
  /\ lead \in [Ids -> SUBSET Accounts]
  /\ balance \in Nat /\ received \in Nat
  /\ offered \in [Ids -> Nat]
  /\ rounds \in [Ids -> Nat]
  /\ DOMAIN paid = Ids
  /\ \A id \in Ids : paid[id] \in [DOMAIN coCreations[id].creators -> Nat]

\* Every unallocated id reads as zeros: no creators, and the first Status.
Init ==
  /\ coCreationCounter = 0
  /\ coCreations =
       [id \in Ids |-> [creators |-> <<>>, status |-> "Draft", signatureCount |-> 0]]
  /\ hasSigned = [id \in Ids |-> {}]
  /\ lead = [id \in Ids |-> {}]
  /\ balance = 0
  /\ received = 0
  /\ offered = [id \in Ids |-> 0]
  /\ rounds = [id \in Ids |-> 0]
  /\ paid = [id \in Ids |-> <<>>]

-----------------------------------------------------------------------------
Valid(id) == id \in 1 .. coCreationCounter

Team(creators) == {creators[i].creatorAddress : i \in DOMAIN creators}

IsCreator(a, id) == a \in Team(coCreations[id].creators)

\* The loops over creators stop at the first slot of the address (break), and
\* find none when the address is not a creator's.
FirstSlot(creators, a, i) ==
  /\ creators[i].creatorAddress = a
  /\ \A j \in 1 .. i - 1 : creators[j].creatorAddress # a

\* Slip: the loop of withdrawSignature is copied from _addSignature unchanged.
FlaggedTrue(creators, a, flag) ==
  [i \in DOMAIN creators |->
     [creatorAddress |-> creators[i].creatorAddress,
      basisPoints    |-> creators[i].basisPoints,
      hasSigned      |-> FirstSlot(creators, a, i) \/ creators[i].hasSigned]]

Flagged(creators, a, flag) ==
  [i \in DOMAIN creators |->
     [creatorAddress |-> creators[i].creatorAddress,
      basisPoints    |-> creators[i].basisPoints,
      hasSigned      |-> IF FirstSlot(creators, a, i)
                         THEN flag
                         ELSE creators[i].hasSigned]]

\* Slip: the shares may leave a part of the whole to nobody.
AtMostWhole(basisPoints) == SumFunction(basisPoints) <= Whole

\* InvalidShareTotal
AddUpToWhole(basisPoints) == SumFunction(basisPoints) = Whole

\* initiate: _addSignature signs for the sender, who need not be a creator, and
\* nothing stops an address from being listed twice.
Initiate(sender, addresses, basisPoints) ==
  LET id == coCreationCounter + 1
      creators == [i \in 1 .. Len(addresses) |->
                     [creatorAddress |-> addresses[i],
                      basisPoints    |-> basisPoints[i],
                      hasSigned      |-> FALSE]]
  IN  /\ coCreationCounter < MaxCoCreations
      /\ Len(addresses) = Len(basisPoints) /\ Len(addresses) > 0
      /\ AddUpToWhole(basisPoints)
      /\ coCreationCounter' = id
      /\ coCreations' = [coCreations EXCEPT ![id] =
                           [creators       |-> Flagged(creators, sender, TRUE),
                            status         |-> "PendingSignatures",
                            signatureCount |-> 1]]
      /\ hasSigned' = [hasSigned EXCEPT ![id] = {sender}]
      /\ lead' = [lead EXCEPT ![id] = {sender}]
      /\ paid' = [paid EXCEPT ![id] = [i \in 1 .. Len(addresses) |-> 0]]
      /\ UNCHANGED <<balance, received, offered, rounds>>

\* Slip: the AlreadySigned check is dropped.
SignTwice(sender, id) ==
  /\ Valid(id) /\ IsCreator(sender, id)
  /\ coCreations[id].status # "Published"
  /\ coCreations[id].signatureCount <= Len(coCreations[id].creators)
  /\ hasSigned' = [hasSigned EXCEPT ![id] = @ \union {sender}]
  /\ coCreations' = [coCreations EXCEPT ![id] =
                       [creators       |-> Flagged(@.creators, sender, TRUE),
                        status         |-> @.status,
                        signatureCount |-> @.signatureCount + 1]]
  /\ UNCHANGED <<coCreationCounter, lead>> /\ UNCHANGED moneyVars

\* sign: allowed in Draft too, and Draft it remains.
Sign(sender, id) ==
  /\ Valid(id) /\ IsCreator(sender, id)
  /\ coCreations[id].status # "Published"
  /\ sender \notin hasSigned[id]
  /\ hasSigned' = [hasSigned EXCEPT ![id] = @ \union {sender}]
  /\ coCreations' = [coCreations EXCEPT ![id] =
                       [creators       |-> Flagged(@.creators, sender, TRUE),
                        status         |-> @.status,
                        signatureCount |-> @.signatureCount + 1]]
  /\ UNCHANGED <<coCreationCounter, lead>> /\ UNCHANGED moneyVars

\* Slip: status # Draft instead of status == PendingSignatures.
WithdrawAfterPublication(sender, id) ==
  /\ Valid(id) /\ IsCreator(sender, id)
  /\ coCreations[id].status # "Draft"
  /\ sender \in hasSigned[id]
  /\ hasSigned' = [hasSigned EXCEPT ![id] = @ \ {sender}]
  /\ coCreations' = [coCreations EXCEPT ![id] =
                       [creators       |-> Flagged(@.creators, sender, FALSE),
                        status         |-> IF @.signatureCount = 1 THEN "Draft" ELSE @.status,
                        signatureCount |-> @.signatureCount - 1]]
  /\ UNCHANGED <<coCreationCounter, lead>> /\ UNCHANGED moneyVars

\* withdrawSignature: the last signature withdrawn takes the status to Draft, from
\* where no signature can be withdrawn any more.
WithdrawSignature(sender, id) ==
  /\ Valid(id) /\ IsCreator(sender, id)
  /\ coCreations[id].status = "PendingSignatures"
  /\ sender \in hasSigned[id]
  /\ hasSigned' = [hasSigned EXCEPT ![id] = @ \ {sender}]
  /\ coCreations' = [coCreations EXCEPT ![id] =
                       [creators       |-> Flagged(@.creators, sender, FALSE),
                        status         |-> IF @.signatureCount = 1 THEN "Draft" ELSE @.status,
                        signatureCount |-> @.signatureCount - 1]]
  /\ UNCHANGED <<coCreationCounter, lead>> /\ UNCHANGED moneyVars

\* Slip: >= a majority instead of all.
PublishByMajority(sender, id) ==
  /\ Valid(id) /\ IsCreator(sender, id)
  /\ coCreations[id].status # "Published"
  /\ 2 * coCreations[id].signatureCount > Len(coCreations[id].creators)
  /\ coCreations' = [coCreations EXCEPT ![id].status = "Published"]
  /\ UNCHANGED <<coCreationCounter, hasSigned, lead>> /\ UNCHANGED moneyVars

Publish(sender, id) ==
  /\ Valid(id) /\ IsCreator(sender, id)
  /\ coCreations[id].status # "Published"
  /\ coCreations[id].signatureCount = Len(coCreations[id].creators)
  /\ coCreations' = [coCreations EXCEPT ![id].status = "Published"]
  /\ UNCHANGED <<coCreationCounter, hasSigned, lead>> /\ UNCHANGED moneyVars

-----------------------------------------------------------------------------
\* Slip: the division rounds up.
ShareRoundedUp(amount, basisPoints) == (amount * basisPoints + Whole - 1) \div Whole

Share(amount, basisPoints) == (amount * basisPoints) \div Whole

Shares(id, amount) ==
  [i \in DOMAIN coCreations[id].creators |->
     Share(amount, coCreations[id].creators[i].basisPoints)]

\* Slip: the shares are credited whether or not the contract holds the ether.
DistributeUnfunded(id, amount) ==
  LET shares == Shares(id, amount)
  IN  /\ Valid(id)
      /\ coCreations[id].status = "Published"
      /\ rounds[id] < MaxRounds
      /\ balance' = balance - SumFunction(shares)
      /\ offered' = [offered EXCEPT ![id] = @ + amount]
      /\ rounds' = [rounds EXCEPT ![id] = @ + 1]
      /\ paid' = [paid EXCEPT ![id] = [i \in DOMAIN shares |-> @[i] + shares[i]]]
      /\ UNCHANGED received /\ UNCHANGED teamVars

\* Slip: what the division leaves over is sent to the caller.
DistributeDustToCaller(id, amount) ==
  LET shares == Shares(id, amount)
  IN  /\ Valid(id)
      /\ coCreations[id].status = "Published"
      /\ rounds[id] < MaxRounds
      /\ \A i \in DOMAIN shares :
           shares[i] > 0 => coCreations[id].creators[i].creatorAddress \notin Refusing
      /\ balance - amount \in Nat
      /\ balance' = balance - amount
      /\ offered' = [offered EXCEPT ![id] = @ + amount]
      /\ rounds' = [rounds EXCEPT ![id] = @ + 1]
      /\ paid' = [paid EXCEPT ![id] = [i \in DOMAIN shares |-> @[i] + shares[i]]]
      /\ UNCHANGED received /\ UNCHANGED teamVars

\* distributeRoyalty: anyone may call it; it pays out of the whole balance, and one
\* failed transfer reverts the distribution for every creator.
DistributeRoyalty(id, amount) ==
  LET shares == Shares(id, amount)
      total == SumFunction(shares)
  IN  /\ Valid(id)
      /\ coCreations[id].status = "Published"
      /\ rounds[id] < MaxRounds
      /\ \A i \in DOMAIN shares :
           shares[i] > 0 => coCreations[id].creators[i].creatorAddress \notin Refusing
      /\ balance - total \in Nat
      /\ balance' = balance - total
      /\ offered' = [offered EXCEPT ![id] = @ + amount]
      /\ rounds' = [rounds EXCEPT ![id] = @ + 1]
      /\ paid' = [paid EXCEPT ![id] = [i \in DOMAIN shares |-> @[i] + shares[i]]]
      /\ UNCHANGED received /\ UNCHANGED teamVars

\* receive(): the contract takes any ether it is sent.
Receive(amount) ==
  /\ received + amount <= MaxReceived
  /\ balance' = balance + amount
  /\ received' = received + amount
  /\ UNCHANGED <<offered, rounds, paid>> /\ UNCHANGED teamVars

Next ==
  \/ \E sender \in Accounts, basisPoints \in Splits :
       \E addresses \in [DOMAIN basisPoints -> Accounts] :
         Initiate(sender, addresses, basisPoints)
  \/ \E sender \in Accounts, id \in Ids :
       Sign(sender, id) \/ WithdrawSignature(sender, id) \/ Publish(sender, id)
  \/ \E id \in Ids, amount \in Amounts : DistributeRoyalty(id, amount)
  \/ \E amount \in Deposits : Receive(amount)

Spec == Init /\ [][Next]_vars

-----------------------------------------------------------------------------
(* What the contract guarantees.                                           *)

Published(id) == Valid(id) /\ coCreations[id].status = "Published"

\* The counter that decides about publication is the number of accounts whose
\* signature is on record: signing twice, withdrawing twice or a withdrawal by the
\* initiator, who may be no creator, never makes the two differ.
SignatureCountExact == \A id \in Ids : coCreations[id].signatureCount = Cardinality(hasSigned[id])

\* The statuses getCoCreation reports agree with the signatures on record: a slot
\* reads as signed exactly when it is its creator's first slot and the creator signed.
ReportedStatusesAgree ==
  \A id \in Ids : \A i \in DOMAIN coCreations[id].creators :
    LET creators == coCreations[id].creators
        a == creators[i].creatorAddress
    IN  creators[i].hasSigned <=> (a \in hasSigned[id] /\ FirstSlot(creators, a, i))

\* Among distinct creators of whom one took the lead, publication is unanimous, and
\* stays so.  The premise is needed: see AllCreatorsSignOff.
PublishedUnanimously ==
  \A id \in Ids :
    Published(id) /\ IsInjective([i \in DOMAIN coCreations[id].creators |->
                                    coCreations[id].creators[i].creatorAddress])
                  /\ lead[id] \subseteq Team(coCreations[id].creators)
      => hasSigned[id] = Team(coCreations[id].creators)

\* Publication is final: no later call changes the status, the creators, their shares
\* or the signatures of a published co-creation.
PublicationIsFinal ==
  [][\A id \in Ids : Published(id) => UNCHANGED <<coCreations[id], hasSigned[id]>>]_vars

\* However often and in whatever portions royalties are distributed, a creator is never
\* ahead of the exact share of the total, and behind it by less than one unit per
\* distribution: at most the Whole - 1 parts of a unit that the division drops.
RoyaltiesFair ==
  \A id \in Ids : \A i \in DOMAIN paid[id] :
    LET exact == offered[id] * coCreations[id].creators[i].basisPoints
    IN  exact - paid[id][i] * Whole \in 0 .. rounds[id] * (Whole - 1)

\* Of all the ether a co-creation was told to distribute, its creators get no more than
\* that, and what they do not get is the dust of the divisions: less than a unit for each
\* slot but one, in each distribution.  A creator alone gets everything.
OnlyDustStays ==
  \A id \in Ids :
    offered[id] - SumFunction(paid[id]) \in
      0 .. rounds[id] * (Len(coCreations[id].creators) - 1)

\* No ether appears or vanishes: what came in is still in the contract, dust
\* included, or was paid to a creator of one of the co-creations that share it.
EtherConserved ==
  received = balance + SumFunction([id \in Ids |-> SumFunction(paid[id])])

-----------------------------------------------------------------------------
(* What the documentation says and the code does not do.                   *)

\* "All creators must sign off before the puzzle can be published."
AllCreatorsSignOff ==
  \A id \in Ids : Published(id) => Team(coCreations[id].creators) \subseteq hasSigned[id]
=============================================================================
