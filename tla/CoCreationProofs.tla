-------------------------- MODULE CoCreationProofs --------------------------
(***************************************************************************)
(* Proofs about the CoCreation contract, for any accounts, any teams and   *)
(* any sequence of calls: the signature counter is exact, publication is   *)
(* unanimous under its premise and final, and royalties are fair.          *)
(***************************************************************************)
EXTENDS CoCreation, FiniteSetTheorems, WellFoundedInduction, TLAPS

(* The inductive invariant, about one co-creation: c is its record, S the   *)
(* signatures on record, l its initiator, p what its slots were paid, o    *)
(* and r the history of its distributions.                                 *)

\* Finitely many accounts sign, creators and the initiator only; the counter counts
\* them, and what publish() checked stays true of a published co-creation.
Counted(c, S, l) ==
  /\ IsFiniteSet(S)
  /\ S \subseteq Team(c.creators) \union l
  /\ c.signatureCount = Cardinality(S)
  /\ c.status = "Published" => c.signatureCount = Len(c.creators)

Reported(creators, S) ==
  \A i \in DOMAIN creators :
    creators[i].hasSigned <=>
      (creators[i].creatorAddress \in S /\ FirstSlot(creators, creators[i].creatorAddress, i))

Fair(creators, p, o, r) ==
  \A i \in DOMAIN creators :
    /\ p[i] * Whole <= o * creators[i].basisPoints
    /\ o * creators[i].basisPoints <= p[i] * Whole + r * (Whole - 1)

SoundAt(id) ==
  /\ Counted(coCreations[id], hasSigned[id], lead[id])
  /\ Reported(coCreations[id].creators, hasSigned[id])
  /\ Fair(coCreations[id].creators, paid[id], offered[id], rounds[id])

\* Nothing was distributed for an id before it is allocated.
UnallocatedUnpaid == \A id \in Ids : id > coCreationCounter => offered[id] = 0

IInv == TypeOK /\ UnallocatedUnpaid /\ \A id \in Ids : SoundAt(id)

-----------------------------------------------------------------------------
LEMMA ElementsTyped ==
  ASSUME NEW T, NEW s \in Seq(T) PROVE \A i \in 1 .. Len(s) : s[i] \in T
  OBVIOUS

LEMMA TeamTyped ==
  ASSUME NEW creators \in Seq(Creator)
  PROVE  /\ DOMAIN creators = 1 .. Len(creators) /\ Len(creators) \in Nat
         /\ \A i \in DOMAIN creators : creators[i].hasSigned \in BOOLEAN
         /\ \A i \in DOMAIN creators : creators[i].basisPoints \in 0 .. Whole
         /\ \A i \in DOMAIN creators : creators[i].creatorAddress \in Accounts
  <1>1. DOMAIN creators = 1 .. Len(creators) /\ Len(creators) \in Nat
    OBVIOUS
  <1>2. \A i \in DOMAIN creators : creators[i] \in Creator
    BY <1>1
  <1> QED BY <1>1, <1>2 DEF Creator

\* The flag loop changes at most one flag: the team and the shares stay.
LEMMA FlaggedFacts ==
  ASSUME NEW creators \in Seq(Creator), NEW a, NEW flag \in BOOLEAN
  PROVE  /\ Flagged(creators, a, flag) \in Seq(Creator)
         /\ DOMAIN Flagged(creators, a, flag) = DOMAIN creators
         /\ Len(Flagged(creators, a, flag)) = Len(creators)
         /\ \A i \in DOMAIN creators :
              Flagged(creators, a, flag)[i].creatorAddress = creators[i].creatorAddress
         /\ \A i \in DOMAIN creators :
              Flagged(creators, a, flag)[i].basisPoints = creators[i].basisPoints
         /\ \A i \in DOMAIN creators :
              Flagged(creators, a, flag)[i].hasSigned =
                IF FirstSlot(creators, a, i) THEN flag ELSE creators[i].hasSigned
  <1> DEFINE f == Flagged(creators, a, flag)
  <1>1. DOMAIN f = 1 .. Len(creators) /\ DOMAIN creators = 1 .. Len(creators) /\ Len(creators) \in Nat
    BY DEF Flagged
  <1>2. /\ \A i \in DOMAIN creators : f[i].creatorAddress = creators[i].creatorAddress
        /\ \A i \in DOMAIN creators : f[i].basisPoints = creators[i].basisPoints
        /\ \A i \in DOMAIN creators : f[i].hasSigned =
                IF FirstSlot(creators, a, i) THEN flag ELSE creators[i].hasSigned
    BY DEF Flagged
  <1>3. \A i \in DOMAIN creators : creators[i] \in Creator
    BY <1>1
  <1>4. \A i \in 1 .. Len(creators) : f[i] \in Creator
    BY <1>1, <1>3 DEF Flagged, Creator
  <1>5. f = [i \in 1 .. Len(creators) |-> f[i]]
    BY <1>1 DEF Flagged
  <1>6. f \in Seq(Creator) /\ Len(f) = Len(creators)
    BY <1>1, <1>4, <1>5
  <1> QED BY <1>1, <1>2, <1>6

LEMMA FlaggedTeam ==
  ASSUME NEW creators \in Seq(Creator), NEW a, NEW flag \in BOOLEAN
  PROVE  /\ Team(Flagged(creators, a, flag)) = Team(creators)
         /\ \A b : \A i \in DOMAIN creators :
              FirstSlot(Flagged(creators, a, flag), b, i) <=> FirstSlot(creators, b, i)
  <1> DEFINE f == Flagged(creators, a, flag)
  <1>0. /\ DOMAIN f = DOMAIN creators
        /\ \A i \in DOMAIN creators : f[i].creatorAddress = creators[i].creatorAddress
    BY FlaggedFacts
  <1>1. Team(f) = Team(creators)
    <2> HIDE DEF f
    <2> QED BY <1>0 DEF Team
  <1>2. ASSUME NEW b, NEW i \in DOMAIN creators
        PROVE  FirstSlot(Flagged(creators, a, flag), b, i) <=> FirstSlot(creators, b, i)
    <2>1. \A j \in 1 .. i - 1 : j \in DOMAIN creators
      OBVIOUS
    <2> QED BY <2>1, FlaggedFacts DEF FirstSlot
  <1> QED BY <1>1, <1>2

\* Integer division loses less than one unit.
LEMMA ShareFacts ==
  ASSUME NEW amount \in Nat, NEW b \in 0 .. Whole
  PROVE  /\ Share(amount, b) \in Nat
         /\ Share(amount, b) * Whole <= amount * b
         /\ amount * b <= Share(amount, b) * Whole + (Whole - 1)
         /\ amount * b < (Share(amount, b) + 1) * Whole
  <1> DEFINE p == amount * b
  <1>1. p \in Nat
    BY DEF Whole
  <1> HIDE DEF p
  <1>2. /\ p \div 10000 \in Nat
        /\ (p \div 10000) * 10000 <= p
        /\ p <= (p \div 10000) * 10000 + 9999
        /\ p < (p \div 10000 + 1) * 10000
    BY <1>1
  <1> QED BY <1>2 DEF p, Share, Whole

-----------------------------------------------------------------------------
(* What a signature or its withdrawal does to one co-creation.             *)

LEMMA SigningIsReported ==
  ASSUME NEW creators \in Seq(Creator), NEW S, NEW a, Reported(creators, S)
  PROVE  /\ Reported(Flagged(creators, a, TRUE), S \union {a})
         /\ Reported(Flagged(creators, a, FALSE), S \ {a})
  <1> DEFINE t == Flagged(creators, a, TRUE)
             f == Flagged(creators, a, FALSE)
  <1>1. /\ \A i \in DOMAIN creators : t[i].creatorAddress = creators[i].creatorAddress
        /\ \A i \in DOMAIN creators : f[i].creatorAddress = creators[i].creatorAddress
        /\ DOMAIN t = DOMAIN creators /\ DOMAIN f = DOMAIN creators
    BY FlaggedFacts
  <1>2. /\ \A b : \A i \in DOMAIN creators : FirstSlot(t, b, i) <=> FirstSlot(creators, b, i)
        /\ \A b : \A i \in DOMAIN creators : FirstSlot(f, b, i) <=> FirstSlot(creators, b, i)
    BY FlaggedTeam
  <1>3. /\ \A i \in DOMAIN creators :
             t[i].hasSigned = IF FirstSlot(creators, a, i) THEN TRUE ELSE creators[i].hasSigned
        /\ \A i \in DOMAIN creators :
             f[i].hasSigned = IF FirstSlot(creators, a, i) THEN FALSE ELSE creators[i].hasSigned
    BY FlaggedFacts
  <1>4. \A i \in DOMAIN creators : creators[i].hasSigned \in BOOLEAN
    BY TeamTyped
  <1>5. \A i \in DOMAIN creators : FirstSlot(creators, a, i) => creators[i].creatorAddress = a
    BY DEF FirstSlot
  <1> HIDE DEF t, f
  <1>6. ASSUME NEW i \in DOMAIN creators
        PROVE  t[i].hasSigned <=>
                 (t[i].creatorAddress \in S \union {a} /\ FirstSlot(t, t[i].creatorAddress, i))
    <2> DEFINE b == creators[i].creatorAddress
    <2>1. creators[i].hasSigned <=> (b \in S /\ FirstSlot(creators, b, i))
      BY DEF Reported
    <2>2. t[i].creatorAddress = b /\ (FirstSlot(t, b, i) <=> FirstSlot(creators, b, i))
      BY <1>1, <1>2
    <2>3. CASE FirstSlot(creators, a, i)
      BY <1>3, <1>5, <2>2, <2>3
    <2>4. CASE ~FirstSlot(creators, a, i)
      <3>1. t[i].hasSigned = creators[i].hasSigned
        BY <1>3, <2>4
      <3>2. FirstSlot(creators, b, i) => b # a
        BY <2>4
      <3> HIDE DEF b
      <3> QED BY <2>1, <2>2, <3>1, <3>2
    <2> QED BY <2>3, <2>4
  <1>7. ASSUME NEW i \in DOMAIN creators
        PROVE  f[i].hasSigned <=>
                 (f[i].creatorAddress \in S \ {a} /\ FirstSlot(f, f[i].creatorAddress, i))
    <2> DEFINE b == creators[i].creatorAddress
    <2>1. creators[i].hasSigned <=> (b \in S /\ FirstSlot(creators, b, i))
      BY DEF Reported
    <2>2. f[i].creatorAddress = b /\ (FirstSlot(f, b, i) <=> FirstSlot(creators, b, i))
      BY <1>1, <1>2
    <2>3. CASE FirstSlot(creators, a, i)
      BY <1>3, <1>5, <2>2, <2>3
    <2>4. CASE ~FirstSlot(creators, a, i)
      <3>1. f[i].hasSigned = creators[i].hasSigned
        BY <1>3, <2>4
      <3>2. FirstSlot(creators, b, i) => b # a
        BY <2>4
      <3> HIDE DEF b
      <3> QED BY <2>1, <2>2, <3>1, <3>2
    <2> QED BY <2>3, <2>4
  <1> QED BY <1>1, <1>6, <1>7 DEF Reported, t, f

LEMMA FlagsKeepShares ==
  ASSUME NEW creators \in Seq(Creator), NEW a, NEW flag \in BOOLEAN,
         NEW p, NEW o, NEW r, Fair(creators, p, o, r)
  PROVE  Fair(Flagged(creators, a, flag), p, o, r)
  <1> DEFINE f == Flagged(creators, a, flag)
  <1>1. /\ DOMAIN f = DOMAIN creators
        /\ \A i \in DOMAIN creators : f[i].basisPoints = creators[i].basisPoints
    BY FlaggedFacts
  <1> HIDE DEF f
  <1>2. Fair(f, p, o, r)
    BY <1>1 DEF Fair
  <1> QED BY <1>2 DEF f

-----------------------------------------------------------------------------
LEMMA InitIInv == Init => IInv
  <1> SUFFICES ASSUME Init PROVE IInv
    OBVIOUS
  <1>1. TypeOK
    BY MaxCoCreationsAssumption DEF Init, TypeOK, Ids, CoCreationData, Status
  <1>2. ASSUME NEW id \in Ids PROVE SoundAt(id)
    BY <1>2, FS_EmptySet DEF Init, SoundAt, Counted, Reported, Fair
  <1> QED BY <1>1, <1>2 DEF IInv, Init, UnallocatedUnpaid

\* Actions that leave a co-creation alone keep it sound.
LEMMA OthersSound ==
  ASSUME NEW id \in Ids, SoundAt(id),
         coCreations'[id] = coCreations[id], hasSigned'[id] = hasSigned[id],
         lead'[id] = lead[id], paid'[id] = paid[id],
         offered'[id] = offered[id], rounds'[id] = rounds[id]
  PROVE  SoundAt(id)'
  BY DEF SoundAt

LEMMA InitiateIInv ==
  ASSUME IInv, NEW sender \in Accounts, NEW basisPoints \in Splits,
         NEW addresses \in [DOMAIN basisPoints -> Accounts],
         Initiate(sender, addresses, basisPoints)
  PROVE  IInv'
  <1>0. PICK id \in Ids : id = coCreationCounter + 1
    BY MaxCoCreationsAssumption DEF IInv, TypeOK, Ids, Initiate
  <1> DEFINE n == Len(addresses)
             blank == [i \in 1 .. n |-> [creatorAddress |-> addresses[i],
                                         basisPoints    |-> basisPoints[i],
                                         hasSigned      |-> FALSE]]
             team == Flagged(blank, sender, TRUE)
  <1>1. id \in Ids /\ coCreationCounter' = id
    BY <1>0 DEF Initiate
  <1>2. basisPoints \in Seq(0 .. Whole) /\ n = Len(basisPoints)
    BY SplitsAssumption DEF Initiate
  <1>3. n \in Nat /\ n > 0 /\ DOMAIN addresses = 1 .. n /\ DOMAIN basisPoints = 1 .. n
    BY <1>2 DEF Initiate
  <1>4. /\ blank \in Seq(Creator) /\ DOMAIN blank = 1 .. n /\ Len(blank) = n
        /\ \A i \in 1 .. n : ~blank[i].hasSigned
    <2> HIDE DEF n
    <2>1. \A i \in 1 .. n : addresses[i] \in Accounts
      BY <1>3
    <2>4. \A i \in 1 .. n : basisPoints[i] \in 0 .. Whole
      BY <1>2, ElementsTyped
    <2>2. \A i \in 1 .. n : [creatorAddress |-> addresses[i], basisPoints |-> basisPoints[i],
                             hasSigned |-> FALSE] \in Creator
      BY <2>1, <2>4 DEF Creator
    <2>3. \A i \in 1 .. n : ~blank[i].hasSigned
      OBVIOUS
    <2> QED BY <1>3, <2>2, <2>3
  <1>5. team \in Seq(Creator) /\ DOMAIN team = 1 .. n /\ Len(team) = n
    BY <1>4, FlaggedFacts
  <1>6. /\ coCreations' = [coCreations EXCEPT ![id] = [creators       |-> team,
                                                      status         |-> "PendingSignatures",
                                                      signatureCount |-> 1]]
        /\ hasSigned' = [hasSigned EXCEPT ![id] = {sender}]
        /\ lead' = [lead EXCEPT ![id] = {sender}]
        /\ paid' = [paid EXCEPT ![id] = [i \in 1 .. n |-> 0]]
        /\ UNCHANGED <<balance, received, offered, rounds>>
    BY <1>0 DEF Initiate
  <1> HIDE DEF team, blank, n
  <1>7. TypeOK'
    BY <1>1, <1>5, <1>6 DEF IInv, TypeOK, Ids, CoCreationData, Status
  <1>8. /\ coCreations'[id] = [creators       |-> team,
                              status         |-> "PendingSignatures",
                              signatureCount |-> 1]
        /\ hasSigned'[id] = {sender} /\ lead'[id] = {sender}
        /\ paid'[id] = [i \in 1 .. n |-> 0]
        /\ offered'[id] = offered[id] /\ rounds'[id] = rounds[id]
    BY <1>1, <1>6 DEF IInv, TypeOK
  <1>9. Counted(coCreations[id], hasSigned[id], lead[id])'
    <2>1. IsFiniteSet({sender}) /\ Cardinality({sender}) = 1
      BY FS_Singleton
    <2> QED BY <1>8, <2>1 DEF Counted
  <1>10. Reported(coCreations[id].creators, hasSigned[id])'
    <2>1. Reported(blank, {})
      BY <1>4 DEF Reported
    <2>2. Reported(team, {} \union {sender})
      BY <1>4, <2>1, SigningIsReported DEF team
    <2>3. coCreations'[id].creators = team /\ hasSigned'[id] = {} \union {sender}
      BY <1>8
    <2> QED BY <2>2, <2>3
  <1>11. Fair(coCreations[id].creators, paid[id], offered[id], rounds[id])'
    <2>1. offered[id] = 0 /\ rounds[id] \in Nat
      BY <1>0 DEF IInv, UnallocatedUnpaid, TypeOK, Ids
    <2>2. \A i \in 1 .. n : team[i].basisPoints \in Nat
      <3>1. \A i \in DOMAIN team : team[i].basisPoints \in 0 .. Whole
        BY <1>5, TeamTyped
      <3>2. \A b \in 0 .. Whole : b \in Nat
        BY DEF Whole
      <3> QED BY <1>5, <3>1, <3>2
    <2>3. Fair(team, [i \in 1 .. n |-> 0], 0, rounds[id])
      BY <1>5, <2>1, <2>2 DEF Fair, Whole
    <2>4. coCreations'[id].creators = team
      BY <1>8
    <2> QED BY <1>8, <2>1, <2>3, <2>4
  <1>12. ASSUME NEW k \in Ids PROVE SoundAt(k)'
    <2>1. CASE k = id
      BY <1>9, <1>10, <1>11, <2>1 DEF SoundAt
    <2>2. CASE k # id
      BY <1>1, <1>6, <2>2, OthersSound DEF IInv, TypeOK
    <2> QED BY <2>1, <2>2
  <1>13. UnallocatedUnpaid'
    BY <1>0, <1>1, <1>6 DEF IInv, TypeOK, UnallocatedUnpaid, Ids
  <1> QED BY <1>7, <1>12, <1>13 DEF IInv

LEMMA SignIInv ==
  ASSUME IInv, NEW sender \in Accounts, NEW id \in Ids, Sign(sender, id)
  PROVE  IInv'
  <1> DEFINE c == coCreations[id]
             team == Flagged(c.creators, sender, TRUE)
  <1>1. /\ c \in CoCreationData /\ c.creators \in Seq(Creator) /\ c.signatureCount \in Nat
        /\ c.status \in Status
    BY DEF IInv, TypeOK, CoCreationData
  <1>2. team \in Seq(Creator) /\ DOMAIN team = DOMAIN c.creators /\ Len(team) = Len(c.creators)
    BY <1>1, FlaggedFacts
  <1>3. /\ sender \notin hasSigned[id] /\ sender \in Team(c.creators)
        /\ c.status # "Published"
        /\ hasSigned' = [hasSigned EXCEPT ![id] = @ \union {sender}]
        /\ coCreations' = [coCreations EXCEPT ![id] = [creators       |-> team,
                                                      status         |-> c.status,
                                                      signatureCount |-> c.signatureCount + 1]]
        /\ UNCHANGED <<coCreationCounter, lead, balance, received, offered, rounds, paid>>
    BY DEF Sign, moneyVars, IsCreator
  <1>4. Team(team) = Team(c.creators)
    BY <1>1, FlaggedTeam
  <1>5. /\ Reported(team, hasSigned[id] \union {sender})
        /\ Fair(team, paid[id], offered[id], rounds[id])
    BY <1>1, SigningIsReported, FlagsKeepShares DEF IInv, SoundAt
  <1> HIDE DEF team
  <1>6. /\ coCreations'[id] = [creators       |-> team,
                              status         |-> c.status,
                              signatureCount |-> c.signatureCount + 1]
        /\ hasSigned'[id] = hasSigned[id] \union {sender}
    BY <1>3 DEF IInv, TypeOK
  <1>7. TypeOK'
    BY <1>1, <1>2, <1>3 DEF IInv, TypeOK, CoCreationData
  <1>8. Counted(coCreations[id], hasSigned[id], lead[id])'
    <2>1. Counted(c, hasSigned[id], lead[id])
      BY DEF IInv, SoundAt
    <2> QED BY <1>1, <1>3, <1>4, <1>6, <2>1, FS_AddElement DEF Counted
  <1>9. ASSUME NEW k \in Ids PROVE SoundAt(k)'
    <2>1. CASE k = id
      BY <1>3, <1>5, <1>6, <1>8, <2>1 DEF SoundAt
    <2>2. CASE k # id
      BY <1>3, <2>2, OthersSound DEF IInv, TypeOK
    <2> QED BY <2>1, <2>2
  <1> QED BY <1>3, <1>7, <1>9 DEF IInv, UnallocatedUnpaid

LEMMA WithdrawIInv ==
  ASSUME IInv, NEW sender \in Accounts, NEW id \in Ids, WithdrawSignature(sender, id)
  PROVE  IInv'
  <1> DEFINE c == coCreations[id]
             team == Flagged(c.creators, sender, FALSE)
             after == IF c.signatureCount = 1 THEN "Draft" ELSE c.status
  <1>1. /\ c \in CoCreationData /\ c.creators \in Seq(Creator) /\ c.signatureCount \in Nat
        /\ c.status \in Status
    BY DEF IInv, TypeOK, CoCreationData
  <1>2. team \in Seq(Creator) /\ DOMAIN team = DOMAIN c.creators /\ Len(team) = Len(c.creators)
    BY <1>1, FlaggedFacts
  <1>3. /\ sender \in hasSigned[id] /\ c.status = "PendingSignatures"
        /\ hasSigned' = [hasSigned EXCEPT ![id] = @ \ {sender}]
        /\ coCreations' = [coCreations EXCEPT ![id] = [creators       |-> team,
                                                      status         |-> after,
                                                      signatureCount |-> c.signatureCount - 1]]
        /\ UNCHANGED <<coCreationCounter, lead, balance, received, offered, rounds, paid>>
    BY DEF WithdrawSignature, moneyVars
  <1>4. Team(team) = Team(c.creators)
    BY <1>1, FlaggedTeam
  <1>5. /\ Reported(team, hasSigned[id] \ {sender})
        /\ Fair(team, paid[id], offered[id], rounds[id])
    BY <1>1, SigningIsReported, FlagsKeepShares DEF IInv, SoundAt
  <1>6. after \in Status /\ after # "Published"
    BY <1>3 DEF Status
  <1> HIDE DEF team, after
  <1>7. /\ coCreations'[id] = [creators       |-> team,
                              status         |-> after,
                              signatureCount |-> c.signatureCount - 1]
        /\ hasSigned'[id] = hasSigned[id] \ {sender}
    BY <1>3 DEF IInv, TypeOK
  <1>8. Counted(c, hasSigned[id], lead[id])
    BY DEF IInv, SoundAt
  <1>9. Cardinality(hasSigned[id] \ {sender}) = c.signatureCount - 1
    BY <1>3, <1>8, FS_RemoveElement DEF Counted
  <1>10. IsFiniteSet(hasSigned[id] \ {sender}) /\ c.signatureCount - 1 \in Nat
    <2>1. IsFiniteSet(hasSigned[id] \ {sender})
      BY <1>8, FS_RemoveElement DEF Counted
    <2> HIDE DEF c
    <2> QED BY <1>9, <2>1, FS_CardinalityType
  <1>11. TypeOK'
    BY <1>1, <1>2, <1>3, <1>6, <1>10 DEF IInv, TypeOK, CoCreationData
  <1>12. Counted(coCreations[id], hasSigned[id], lead[id])'
    <2>1. hasSigned[id] \ {sender} \subseteq Team(team) \union lead'[id]
      BY <1>3, <1>4, <1>8 DEF Counted
    <2>2. /\ coCreations'[id].creators = team /\ coCreations'[id].status = after
          /\ coCreations'[id].signatureCount = c.signatureCount - 1
      BY <1>7
    <2> HIDE DEF c
    <2> QED BY <1>6, <1>7, <1>9, <1>10, <2>1, <2>2 DEF Counted
  <1>13. ASSUME NEW k \in Ids PROVE SoundAt(k)'
    <2>1. CASE k = id
      BY <1>3, <1>5, <1>7, <1>12, <2>1 DEF SoundAt
    <2>2. CASE k # id
      BY <1>3, <2>2, OthersSound DEF IInv, TypeOK
    <2> QED BY <2>1, <2>2
  <1> QED BY <1>3, <1>11, <1>13 DEF IInv, UnallocatedUnpaid

LEMMA PublishIInv ==
  ASSUME IInv, NEW sender \in Accounts, NEW id \in Ids, Publish(sender, id)
  PROVE  IInv'
  <1> DEFINE c == coCreations[id]
  <1>1. /\ coCreations' = [coCreations EXCEPT ![id].status = "Published"]
        /\ c.signatureCount = Len(c.creators)
        /\ UNCHANGED <<coCreationCounter, hasSigned, lead, balance, received, offered, rounds, paid>>
    BY DEF Publish, moneyVars
  <1>2. /\ coCreations'[id].creators = c.creators
        /\ coCreations'[id].signatureCount = c.signatureCount
        /\ coCreations'[id] \in CoCreationData
    BY <1>1 DEF IInv, TypeOK, CoCreationData, Status
  <1>3. TypeOK'
    BY <1>1, <1>2 DEF IInv, TypeOK
  <1>4. SoundAt(id)'
    BY <1>1, <1>2 DEF IInv, SoundAt, Counted
  <1>5. ASSUME NEW k \in Ids, k # id PROVE SoundAt(k)'
    BY <1>1, <1>5, OthersSound DEF IInv, TypeOK
  <1> QED BY <1>1, <1>3, <1>4, <1>5 DEF IInv, UnallocatedUnpaid

LEMMA ReceiveIInv ==
  ASSUME IInv, NEW amount \in Deposits, Receive(amount)
  PROVE  IInv'
  <1>1. /\ UNCHANGED <<coCreationCounter, coCreations, hasSigned, lead, offered, rounds, paid>>
        /\ balance' \in Nat /\ received' \in Nat
    BY AmountsAssumption DEF Receive, teamVars, IInv, TypeOK
  <1>2. TypeOK'
    BY <1>1 DEF IInv, TypeOK
  <1> QED BY <1>1, <1>2, OthersSound DEF IInv, UnallocatedUnpaid

\* One more distribution keeps a slot fair: t is its share, b its basis points.
LEMMA FairStep ==
  ASSUME NEW p \in Nat, NEW o \in Nat, NEW r \in Nat, NEW b \in 0 .. Whole,
         NEW amount \in Nat, NEW t \in Nat,
         p * Whole <= o * b, o * b <= p * Whole + r * (Whole - 1),
         t * Whole <= amount * b, amount * b <= t * Whole + (Whole - 1)
  PROVE  /\ (p + t) * Whole <= (o + amount) * b
         /\ (o + amount) * b <= (p + t) * Whole + (r + 1) * (Whole - 1)
  <1> DEFINE ob == o * b
             ab == amount * b
  <1>1. ob \in Nat /\ ab \in Nat
    BY DEF Whole
  <1>2. (o + amount) * b = ob + ab
    BY DEF Whole
  <1> HIDE DEF ob, ab
  <1>3. /\ p * 10000 <= ob /\ ob <= p * 10000 + r * 9999
        /\ t * 10000 <= ab /\ ab <= t * 10000 + 9999
    BY DEF Whole, ob, ab
  <1>4. (p + t) * 10000 <= ob + ab /\ ob + ab <= (p + t) * 10000 + (r + 1) * 9999
    BY <1>1, <1>3
  <1> QED BY <1>2, <1>4 DEF Whole

LEMMA DistributeIInv ==
  ASSUME IInv, NEW id \in Ids, NEW amount \in Amounts, DistributeRoyalty(id, amount)
  PROVE  IInv'
  <1> DEFINE creators == coCreations[id].creators
             shares == Shares(id, amount)
             total == SumFunction(shares)
  <1>1. /\ balance' \in Nat
        /\ offered' = [offered EXCEPT ![id] = @ + amount]
        /\ rounds' = [rounds EXCEPT ![id] = @ + 1]
        /\ paid' = [paid EXCEPT ![id] = [i \in DOMAIN shares |-> @[i] + shares[i]]]
        /\ UNCHANGED <<received, coCreationCounter, coCreations, hasSigned, lead>>
        /\ id <= coCreationCounter
    BY DEF DistributeRoyalty, teamVars, Valid
  <1>2. /\ creators \in Seq(Creator) /\ amount \in Nat
        /\ paid[id] \in [DOMAIN creators -> Nat] /\ offered[id] \in Nat /\ rounds[id] \in Nat
    BY AmountsAssumption DEF IInv, TypeOK, CoCreationData
  <1>3. /\ DOMAIN shares = DOMAIN creators
        /\ \A i \in DOMAIN creators : shares[i] = Share(amount, creators[i].basisPoints)
    BY DEF Shares
  <1>4. \A i \in DOMAIN creators : creators[i].basisPoints \in 0 .. Whole
    BY <1>2, TeamTyped
  <1>5. \A i \in DOMAIN creators :
          /\ shares[i] \in Nat
          /\ shares[i] * Whole <= amount * creators[i].basisPoints
          /\ amount * creators[i].basisPoints <= shares[i] * Whole + (Whole - 1)
    BY <1>2, <1>3, <1>4, ShareFacts
  <1> HIDE DEF shares
  <1>6. /\ paid'[id] = [i \in DOMAIN creators |-> paid[id][i] + shares[i]]
        /\ offered'[id] = offered[id] + amount /\ rounds'[id] = rounds[id] + 1
    BY <1>1, <1>3 DEF IInv, TypeOK
  <1>7. paid'[id] \in [DOMAIN creators -> Nat]
    BY <1>2, <1>5, <1>6
  <1>8. Fair(creators, paid'[id], offered'[id], rounds'[id])
    <2> SUFFICES ASSUME NEW i \in DOMAIN creators
                 PROVE  /\ paid'[id][i] * Whole <= offered'[id] * creators[i].basisPoints
                        /\ offered'[id] * creators[i].basisPoints
                             <= paid'[id][i] * Whole + rounds'[id] * (Whole - 1)
      BY DEF Fair
    <2>1. /\ paid[id][i] * Whole <= offered[id] * creators[i].basisPoints
          /\ offered[id] * creators[i].basisPoints
               <= paid[id][i] * Whole + rounds[id] * (Whole - 1)
      BY DEF IInv, SoundAt, Fair
    <2>2. /\ paid[id][i] \in Nat /\ paid'[id][i] = paid[id][i] + shares[i]
          /\ creators[i].basisPoints \in 0 .. Whole
      BY <1>2, <1>4, <1>6
    <2>3. /\ shares[i] \in Nat
          /\ shares[i] * Whole <= amount * creators[i].basisPoints
          /\ amount * creators[i].basisPoints <= shares[i] * Whole + (Whole - 1)
      BY <1>5
    <2> DEFINE slotPaid == paid[id][i]
               share == shares[i]
               points == creators[i].basisPoints
    <2>4. /\ slotPaid \in Nat /\ offered[id] \in Nat /\ rounds[id] \in Nat
          /\ points \in 0 .. Whole /\ amount \in Nat /\ share \in Nat
          /\ slotPaid * Whole <= offered[id] * points
          /\ offered[id] * points <= slotPaid * Whole + rounds[id] * (Whole - 1)
          /\ share * Whole <= amount * points
          /\ amount * points <= share * Whole + (Whole - 1)
      BY <1>2, <2>1, <2>2, <2>3
    <2>5. /\ paid'[id][i] = slotPaid + share
          /\ offered'[id] = offered[id] + amount /\ rounds'[id] = rounds[id] + 1
      BY <1>6, <2>2
    <2> HIDE DEF creators, slotPaid, share, points
    <2>6. /\ (slotPaid + share) * Whole <= (offered[id] + amount) * points
          /\ (offered[id] + amount) * points
               <= (slotPaid + share) * Whole + (rounds[id] + 1) * (Whole - 1)
      BY <2>4, FairStep
    <2> QED BY <2>5, <2>6 DEF points
  <1>9. TypeOK'
    BY <1>1, <1>2, <1>7 DEF IInv, TypeOK
  <1>10. SoundAt(id)'
    BY <1>1, <1>8 DEF IInv, SoundAt
  <1>11. ASSUME NEW k \in Ids, k # id PROVE SoundAt(k)'
    BY <1>1, <1>11, OthersSound DEF IInv, TypeOK
  <1>12. UnallocatedUnpaid'
    BY <1>1 DEF IInv, TypeOK, UnallocatedUnpaid, Ids
  <1> QED BY <1>9, <1>10, <1>11, <1>12 DEF IInv

LEMMA NextIInv == ASSUME IInv, [Next]_vars PROVE IInv'
  <1>1. CASE UNCHANGED vars
    BY <1>1 DEF vars, IInv, TypeOK, UnallocatedUnpaid, SoundAt
  <1> QED BY <1>1, InitiateIInv, SignIInv, WithdrawIInv, PublishIInv, DistributeIInv, ReceiveIInv
          DEF Next

\* The inductive invariant holds after any sequence of transactions.
THEOREM InductiveInvariant == Spec => []IInv
  BY InitIInv, NextIInv, PTL DEF Spec

-----------------------------------------------------------------------------
\* Every variable keeps its type; in particular signatureCount-- never underflows.
THEOREM TypeCorrect == Spec => []TypeOK
  BY InductiveInvariant, PTL DEF IInv

\* signatureCount is the number of accounts whose signature is on record.
THEOREM CounterExact == Spec => []SignatureCountExact
  <1>1. IInv => SignatureCountExact
    BY DEF IInv, SoundAt, Counted, SignatureCountExact
  <1> QED BY <1>1, InductiveInvariant, PTL

\* getCoCreation reports the signatures that are on record.
THEOREM ReportsAgree == Spec => []ReportedStatusesAgree
  <1>1. IInv => ReportedStatusesAgree
    BY DEF IInv, SoundAt, Reported, ReportedStatusesAgree
  <1> QED BY <1>1, InductiveInvariant, PTL

\* However royalties are portioned, every creator is paid fairly.
THEOREM FairRoyalties == Spec => []RoyaltiesFair
  <1>1. ASSUME IInv PROVE RoyaltiesFair
    <2> SUFFICES ASSUME NEW id \in Ids, NEW i \in DOMAIN paid[id]
                 PROVE  offered[id] * coCreations[id].creators[i].basisPoints
                          - paid[id][i] * Whole \in 0 .. rounds[id] * (Whole - 1)
      BY DEF RoyaltiesFair
    <2> DEFINE creators == coCreations[id].creators
               points == creators[i].basisPoints
               exact == offered[id] * points
    <2>1. /\ creators \in Seq(Creator) /\ i \in DOMAIN creators
          /\ paid[id][i] \in Nat /\ offered[id] \in Nat /\ rounds[id] \in Nat
      BY <1>1 DEF IInv, TypeOK, CoCreationData
    <2>2. /\ paid[id][i] * Whole <= exact
          /\ exact <= paid[id][i] * Whole + rounds[id] * (Whole - 1)
      <3>1. Fair(creators, paid[id], offered[id], rounds[id])
        BY <1>1 DEF IInv, SoundAt
      <3> HIDE DEF creators
      <3> QED BY <2>1, <3>1 DEF Fair
    <2>3. points \in Nat
      <3>1. points \in 0 .. Whole
        BY <2>1, TeamTyped
      <3> HIDE DEF points
      <3> QED BY <3>1 DEF Whole
    <2>4. exact \in Nat
      <3> HIDE DEF points
      <3> QED BY <2>1, <2>3
    <2> HIDE DEF exact
    <2>5. exact - paid[id][i] * Whole \in 0 .. rounds[id] * (Whole - 1)
      BY <2>1, <2>2, <2>4 DEF Whole
    <2> QED BY <2>5 DEF exact
  <1> QED BY <1>1, InductiveInvariant, PTL

\* A team of distinct creators has as many members as slots.
LEMMA DistinctTeamSize ==
  ASSUME NEW creators \in Seq(Creator),
         IsInjective([i \in DOMAIN creators |-> creators[i].creatorAddress])
  PROVE  IsFiniteSet(Team(creators)) /\ Cardinality(Team(creators)) = Len(creators)
  <1> DEFINE f == [i \in DOMAIN creators |-> creators[i].creatorAddress]
             slots == DOMAIN creators
  <1>1. slots = 1 .. Len(creators) /\ Len(creators) \in Nat
    OBVIOUS
  <1>2. IsFiniteSet(slots) /\ Cardinality(slots) = Len(creators)
    <2> DEFINE n == Len(creators)
    <2>1. n \in Nat
      OBVIOUS
    <2> HIDE DEF n
    <2>2. IsFiniteSet(1 .. n) /\ Cardinality(1 .. n) = IF 1 > n THEN 0 ELSE n - 1 + 1
      BY <2>1, FS_Interval
    <2>3. IsFiniteSet(1 .. n) /\ Cardinality(1 .. n) = n
      BY <2>1, <2>2
    <2> QED BY <1>1, <2>3 DEF n
  <1>3. f \in Bijection(slots, Team(creators))
    BY DEF Bijection, Injection, Surjection, Team, IsInjective
  <1>4. ExistsBijection(slots, Team(creators))
    BY <1>3 DEF ExistsBijection
  <1> HIDE DEF slots, f
  <1> QED BY <1>2, <1>4, FS_Bijection

\* Publication is unanimous when the creators are distinct and one of them led: as
\* many creators signed as there are slots, and nobody else can have.
THEOREM Unanimity == Spec => []PublishedUnanimously
  <1>1. ASSUME IInv, NEW id \in Ids, Published(id),
               IsInjective([i \in DOMAIN coCreations[id].creators |->
                              coCreations[id].creators[i].creatorAddress]),
               lead[id] \subseteq Team(coCreations[id].creators)
        PROVE  hasSigned[id] = Team(coCreations[id].creators)
    <2> DEFINE T == Team(coCreations[id].creators)
               S == hasSigned[id]
    <2>1. coCreations[id].creators \in Seq(Creator)
      BY <1>1 DEF IInv, TypeOK, CoCreationData
    <2>2. IsFiniteSet(T) /\ Cardinality(T) = Len(coCreations[id].creators)
      BY <1>1, <2>1, DistinctTeamSize
    <2>3. S \subseteq T /\ Cardinality(S) = Len(coCreations[id].creators)
      BY <1>1 DEF IInv, SoundAt, Counted, Published
    <2> HIDE DEF S, T
    <2>4. S = T
      BY <2>2, <2>3, FS_Subset
    <2> QED BY <2>4 DEF S, T
  <1>2. IInv => PublishedUnanimously
    BY <1>1 DEF PublishedUnanimously
  <1> QED BY <1>2, InductiveInvariant, PTL

\* No call changes a published co-creation.
THEOREM Finality == Spec => PublicationIsFinal
  <1> DEFINE Kept == \A id \in Ids : Published(id) => UNCHANGED <<coCreations[id], hasSigned[id]>>
  <1>1. ASSUME IInv, Next PROVE Kept
    <2> SUFFICES ASSUME NEW id \in Ids, Published(id)
                 PROVE  coCreations'[id] = coCreations[id] /\ hasSigned'[id] = hasSigned[id]
      OBVIOUS
    <2>1. CASE \E sender \in Accounts, basisPoints \in Splits :
                 \E addresses \in [DOMAIN basisPoints -> Accounts] :
                   Initiate(sender, addresses, basisPoints)
      <3>1. PICK sender \in Accounts, basisPoints \in Splits,
                 addresses \in UNION {[DOMAIN b -> Accounts] : b \in Splits} :
                   Initiate(sender, addresses, basisPoints)
        BY <2>1
      <3>2. id # coCreationCounter + 1
        BY <1>1 DEF Published, Valid, IInv, TypeOK
      <3>3. /\ \E v : coCreations' = [coCreations EXCEPT ![coCreationCounter + 1] = v]
            /\ hasSigned' = [hasSigned EXCEPT ![coCreationCounter + 1] = {sender}]
        BY <3>1 DEF Initiate
      <3> QED BY <1>1, <3>2, <3>3 DEF IInv, TypeOK
    <2>2. ASSUME NEW sender \in Accounts, NEW k \in Ids,
                 Sign(sender, k) \/ WithdrawSignature(sender, k) \/ Publish(sender, k)
          PROVE  coCreations'[id] = coCreations[id] /\ hasSigned'[id] = hasSigned[id]
      <3>1. k # id
        BY <2>2 DEF Sign, WithdrawSignature, Publish, Published
      <3> QED BY <1>1, <2>2, <3>1 DEF Sign, WithdrawSignature, Publish, IInv, TypeOK
    <2>3. CASE \/ \E k \in Ids, amount \in Amounts : DistributeRoyalty(k, amount)
               \/ \E amount \in Deposits : Receive(amount)
      BY <2>3 DEF DistributeRoyalty, Receive, teamVars
    <2> QED BY <1>1, <2>1, <2>2, <2>3 DEF Next
  <1>2. IInv /\ [Next]_vars => [Kept]_vars
    <2> HIDE DEF Kept
    <2> QED BY <1>1
  <1> QED BY <1>2, InductiveInvariant, PTL DEF Spec, PublicationIsFinal
-----------------------------------------------------------------------------
(* Sums: SumFunction, which folds over a set in an order of its own.       *)

\* The element a fold over a set takes next.
Pick(s) == CHOOSE x \in s : TRUE

\* What the fold of SumFunction makes of the subsets of s in the family D.
SumsOver(g, f, D) ==
  g = [s \in D |-> IF s = {} THEN 0 ELSE f[Pick(s)] + g[s \ {Pick(s)}]]

LEMMA NatSetInduction ==
  ASSUME NEW P, 0 \in P, \A n \in Nat : n \in P => n + 1 \in P
  PROVE  Nat \subseteq P
<1> DEFINE R == OpToRel(<, Nat)
           T == {n \in Nat : n \notin P}
<1>1. IsWellFoundedOn(R, Nat)
  BY NatLessThanWellFounded
<1>2. SUFFICES ASSUME T # {} PROVE FALSE
  OBVIOUS
<1>3. T \subseteq Nat
  OBVIOUS
<1>4. PICK m \in T : \A n \in T : <<n, m>> \notin R
  <2> HIDE DEF T, R
  <2> QED BY <1>1, <1>2, <1>3, WFMin
<1>5. m - 1 \in Nat /\ m - 1 < m
  OBVIOUS
<1>6. <<m - 1, m>> \in R
  BY <1>5 DEF OpToRel
<1>7. m - 1 \in P
  BY <1>4, <1>5, <1>6
<1> QED BY <1>5, <1>7

LEMMA SubsetInduction ==
  ASSUME NEW T, IsFiniteSet(T), NEW P, {} \in P,
         \A s \in SUBSET T : s # {} /\ s \ {Pick(s)} \in P => s \in P
  PROVE  SUBSET T \subseteq P
<1> DEFINE R == StrictSubsetOrdering(T)
           Q == {s \in SUBSET T : s \notin P}
<1>1. IsWellFoundedOn(R, SUBSET T)
  BY FS_StrictSubsetOrderingWellFounded, FS_FiniteSubsetsOfFinite
<1>2. SUFFICES ASSUME Q # {} PROVE FALSE
  OBVIOUS
<1>3. PICK s \in Q : \A t \in Q : <<t, s>> \notin R
  <2>1. Q \subseteq SUBSET T
    OBVIOUS
  <2> HIDE DEF Q, R
  <2> QED BY <1>1, <1>2, <2>1, WFMin
<1>4. s # {} /\ s \in SUBSET T
  OBVIOUS
<1>5. Pick(s) \in s
  BY <1>4 DEF Pick
<1>6. <<s \ {Pick(s)}, s>> \in R
  BY <1>4, <1>5 DEF StrictSubsetOrdering
<1>7. s \ {Pick(s)} \in P
  BY <1>3, <1>4, <1>6
<1> QED BY <1>3, <1>4, <1>7

\* The recursion of the fold has a solution over the subsets of a finite set.
LEMMA SumsExist ==
  ASSUME NEW T, IsFiniteSet(T), NEW f PROVE \E g : SumsOver(g, f, SUBSET T)
<1> DEFINE Upto(n) == {s \in SUBSET T : Cardinality(s) <= n}
           P == {n \in Nat : \E g : SumsOver(g, f, Upto(n))}
<1>1. 0 \in P
  <2> DEFINE g == [s \in Upto(0) |-> 0]
  <2>1. \A s \in Upto(0) : s = {}
    <3> SUFFICES ASSUME NEW s \in SUBSET T, Cardinality(s) <= 0 PROVE s = {}
      OBVIOUS
    <3>1. IsFiniteSet(s) /\ Cardinality(s) \in Nat
      BY FS_Subset, FS_CardinalityType
    <3> QED BY <3>1, FS_EmptySet
  <2>2. g = [s \in Upto(0) |-> IF s = {} THEN 0 ELSE f[Pick(s)] + g[s \ {Pick(s)}]]
    BY <2>1
  <2>3. SumsOver(g, f, Upto(0))
    BY <2>2 DEF SumsOver
  <2> QED BY <2>3
<1>2. ASSUME NEW n \in Nat, n \in P PROVE n + 1 \in P
  <2>1. PICK g : SumsOver(g, f, Upto(n))
    BY <1>2
  <2> DEFINE h == [s \in Upto(n + 1) |-> IF s = {} THEN 0 ELSE f[Pick(s)] + g[s \ {Pick(s)}]]
  <2>2. ASSUME NEW s \in Upto(n + 1), s # {}
        PROVE  h[s \ {Pick(s)}] = g[s \ {Pick(s)}]
    <3> DEFINE t == s \ {Pick(s)}
    <3>1. Pick(s) \in s /\ IsFiniteSet(s) /\ Cardinality(s) \in Nat
      BY <2>2, FS_Subset, FS_CardinalityType DEF Pick
    <3>2. Cardinality(t) = Cardinality(s) - 1
      BY <3>1, FS_RemoveElement
    <3>3. t \in Upto(n) /\ t \in Upto(n + 1)
      BY <3>1, <3>2
    <3>4. g[t] = IF t = {} THEN 0 ELSE f[Pick(t)] + g[t \ {Pick(t)}]
      <4> HIDE DEF t, Upto
      <4> QED BY <2>1, <3>3 DEF SumsOver
    <3>5. h[t] = IF t = {} THEN 0 ELSE f[Pick(t)] + g[t \ {Pick(t)}]
      <4> HIDE DEF t, Upto
      <4> QED BY <3>3
    <3> QED BY <3>4, <3>5
  <2>3. h = [s \in Upto(n + 1) |-> IF s = {} THEN 0 ELSE f[Pick(s)] + h[s \ {Pick(s)}]]
    <3> DEFINE k == [s \in Upto(n + 1) |-> IF s = {} THEN 0 ELSE f[Pick(s)] + h[s \ {Pick(s)}]]
    <3>1. ASSUME NEW s \in Upto(n + 1) PROVE h[s] = k[s]
      <4>1. CASE s = {}
        BY <4>1
      <4>2. CASE s # {}
        <5>1. h[s \ {Pick(s)}] = g[s \ {Pick(s)}]
          BY <2>2, <4>2
        <5>2. h[s] = f[Pick(s)] + g[s \ {Pick(s)}]
          BY <4>2
        <5>3. k[s] = f[Pick(s)] + h[s \ {Pick(s)}]
          <6> HIDE DEF h, Upto
          <6> QED BY <4>2
        <5> QED BY <5>1, <5>2, <5>3
      <4> QED BY <4>1, <4>2
    <3>2. h = [s \in Upto(n + 1) |-> h[s]] /\ k = [s \in Upto(n + 1) |-> k[s]]
      OBVIOUS
    <3> HIDE DEF h, k, Upto
    <3>3. h = k
      BY <3>1, <3>2
    <3> QED BY <3>3 DEF k
  <2>4. SumsOver(h, f, Upto(n + 1))
    BY <2>3 DEF SumsOver
  <2>5. n + 1 \in Nat
    OBVIOUS
  <2> HIDE DEF h, Upto
  <2> QED BY <2>4, <2>5
<1>3. Nat \subseteq P
  <2> HIDE DEF P
  <2> QED BY <1>1, <1>2, NatSetInduction
<1>4. Cardinality(T) \in Nat /\ \A s \in SUBSET T : Cardinality(s) <= Cardinality(T)
  BY FS_Subset, FS_CardinalityType
<1>5. Upto(Cardinality(T)) = SUBSET T
  BY <1>4
<1> QED BY <1>3, <1>4, <1>5

\* What is known of SumFunction(f): it is the last of the sums g over subsets of T.
AddsUp(g, f, T) ==
  /\ g[{}] = 0
  /\ \A s \in SUBSET T :
       s # {} => /\ Pick(s) \in s /\ Pick(s) \in T
                 /\ g[s] = f[Pick(s)] + g[s \ {Pick(s)}]

LEMMA SumFunctionAddsUp ==
  ASSUME NEW T, IsFiniteSet(T), NEW f, DOMAIN f = T
  PROVE  \E g : AddsUp(g, f, T) /\ SumFunction(f) = g[T]
<1> DEFINE it == CHOOSE g : g = [s \in SUBSET T |->
                    IF s = {} THEN 0 ELSE f[Pick(s)] + g[s \ {Pick(s)}]]
<1>1. SumsOver(it, f, SUBSET T)
  <2>1. \E g : g = [s \in SUBSET T |->
                    IF s = {} THEN 0 ELSE f[Pick(s)] + g[s \ {Pick(s)}]]
    <3>1. PICK g : SumsOver(g, f, SUBSET T)
      BY SumsExist
    <3> QED BY <3>1 DEF SumsOver
  <2> QED BY <2>1 DEF SumsOver
<1>2. SumFunction(f) = it[T]
  BY DEF SumFunction, SumFunctionOnSet, FoldFunctionOnSet, MapThenFoldSet, Pick
<1> HIDE DEF it
<1>3. ASSUME NEW s \in SUBSET T
      PROVE  it[s] = IF s = {} THEN 0 ELSE f[Pick(s)] + it[s \ {Pick(s)}]
  BY <1>1 DEF SumsOver
<1>4. \A s \in SUBSET T : s # {} => Pick(s) \in s /\ Pick(s) \in T
  BY DEF Pick
<1>5. AddsUp(it, f, T)
  BY <1>3, <1>4 DEF AddsUp
<1> QED BY <1>2, <1>5

LEMMA SumType ==
  ASSUME NEW T, IsFiniteSet(T), NEW f \in [T -> Int]
  PROVE  SumFunction(f) \in Int
<1>1. PICK g : AddsUp(g, f, T) /\ SumFunction(f) = g[T]
  BY SumFunctionAddsUp
<1> DEFINE P == {s \in SUBSET T : g[s] \in Int}
<1>2. {} \in P
  BY <1>1 DEF AddsUp
<1>3. ASSUME NEW s \in SUBSET T, s # {}, s \ {Pick(s)} \in P PROVE s \in P
  BY <1>1, <1>3 DEF AddsUp
<1>4. SUBSET T \subseteq P
  <2> HIDE DEF P
  <2> QED BY <1>2, <1>3, SubsetInduction
<1> QED BY <1>1, <1>4

\* Sums are ordered as their terms are.
LEMMA SumMonotonic ==
  ASSUME NEW T, IsFiniteSet(T), NEW f \in [T -> Int], NEW h \in [T -> Int],
         \A x \in T : f[x] <= h[x]
  PROVE  SumFunction(f) <= SumFunction(h)
<1>1. PICK g : AddsUp(g, f, T) /\ SumFunction(f) = g[T]
  BY SumFunctionAddsUp
<1>2. PICK k : AddsUp(k, h, T) /\ SumFunction(h) = k[T]
  BY SumFunctionAddsUp
<1> DEFINE P == {s \in SUBSET T : g[s] \in Int /\ k[s] \in Int /\ g[s] <= k[s]}
<1>3. {} \in P
  BY <1>1, <1>2 DEF AddsUp
<1>4. ASSUME NEW s \in SUBSET T, s # {}, s \ {Pick(s)} \in P PROVE s \in P
  <2>1. Pick(s) \in T /\ g[s] = f[Pick(s)] + g[s \ {Pick(s)}]
    BY <1>1, <1>4 DEF AddsUp
  <2>2. k[s] = h[Pick(s)] + k[s \ {Pick(s)}]
    BY <1>2, <1>4 DEF AddsUp
  <2> QED BY <1>4, <2>1, <2>2
<1>5. SUBSET T \subseteq P
  <2> HIDE DEF P
  <2> QED BY <1>3, <1>4, SubsetInduction
<1> QED BY <1>1, <1>2, <1>5

\* A sum of terms c * f[x] + h[x] is c times the sum of the f[x], and that of the h[x].
LEMMA SumLinear ==
  ASSUME NEW T, IsFiniteSet(T), NEW c \in Int, NEW f \in [T -> Int], NEW h \in [T -> Int],
         NEW l \in [T -> Int], \A x \in T : l[x] = c * f[x] + h[x]
  PROVE  SumFunction(l) = c * SumFunction(f) + SumFunction(h)
<1>1. PICK g : AddsUp(g, f, T) /\ SumFunction(f) = g[T]
  BY SumFunctionAddsUp
<1>2. PICK k : AddsUp(k, h, T) /\ SumFunction(h) = k[T]
  BY SumFunctionAddsUp
<1>3. PICK m : AddsUp(m, l, T) /\ SumFunction(l) = m[T]
  BY SumFunctionAddsUp
<1> DEFINE P == {s \in SUBSET T : /\ g[s] \in Int /\ k[s] \in Int
                                  /\ m[s] = c * g[s] + k[s]}
<1>4. {} \in P
  <2>1. c * 0 = 0
    OBVIOUS
  <2> QED BY <1>1, <1>2, <1>3, <2>1 DEF AddsUp
<1>5. ASSUME NEW s \in SUBSET T, s # {}, s \ {Pick(s)} \in P PROVE s \in P
  <2> DEFINE t == s \ {Pick(s)}
  <2>1. Pick(s) \in T /\ g[s] = f[Pick(s)] + g[t]
    BY <1>1, <1>5 DEF AddsUp
  <2>2. k[s] = h[Pick(s)] + k[t]
    BY <1>2, <1>5 DEF AddsUp
  <2>3. m[s] = l[Pick(s)] + m[t] /\ l[Pick(s)] = c * f[Pick(s)] + h[Pick(s)]
    BY <1>3, <1>5, <2>1 DEF AddsUp
  <2>4. \A u, v \in Int : c * (u + v) = c * u + c * v /\ c * u \in Int /\ c * v \in Int
    OBVIOUS
  <2>5. g[t] \in Int /\ k[t] \in Int /\ m[t] = c * g[t] + k[t] /\ f[Pick(s)] \in Int
        /\ h[Pick(s)] \in Int
    BY <1>5, <2>1
  <2>6. c * (f[Pick(s)] + g[t]) = c * f[Pick(s)] + c * g[t]
        /\ c * f[Pick(s)] \in Int /\ c * g[t] \in Int
    BY <2>4, <2>5
  <2> HIDE DEF t
  <2>7. g[s] \in Int /\ k[s] \in Int
    BY <2>1, <2>2, <2>5
  <2>8. c * g[s] = c * f[Pick(s)] + c * g[t]
    BY <2>1, <2>6
  <2>9. m[s] = (c * f[Pick(s)] + h[Pick(s)]) + (c * g[t] + k[t])
    BY <2>3, <2>5
  <2>10. m[s] = c * g[s] + k[s]
    BY <2>2, <2>5, <2>6, <2>8, <2>9
  <2> QED BY <2>7, <2>10
<1>6. SUBSET T \subseteq P
  <2> HIDE DEF P
  <2> QED BY <1>4, <1>5, SubsetInduction
<1> QED BY <1>1, <1>2, <1>3, <1>6

\* Of one term that is not zero, the sum is that term.
LEMMA SumSingle ==
  ASSUME NEW T, IsFiniteSet(T), NEW k \in T, NEW v \in Int
  PROVE  SumFunction([x \in T |-> IF x = k THEN v ELSE 0]) = v
<1> DEFINE f == [x \in T |-> IF x = k THEN v ELSE 0]
<1>1. DOMAIN f = T /\ \A x \in T : f[x] = IF x = k THEN v ELSE 0
  OBVIOUS
<1> HIDE DEF f
<1>2. PICK g : AddsUp(g, f, T) /\ SumFunction(f) = g[T]
  BY <1>1, SumFunctionAddsUp
<1> DEFINE P == {s \in SUBSET T : g[s] = IF k \in s THEN v ELSE 0}
<1>3. {} \in P
  BY <1>2 DEF AddsUp
<1>4. ASSUME NEW s \in SUBSET T, s # {}, s \ {Pick(s)} \in P PROVE s \in P
  <2>1. Pick(s) \in s /\ Pick(s) \in T /\ g[s] = f[Pick(s)] + g[s \ {Pick(s)}]
    BY <1>2, <1>4 DEF AddsUp
  <2>2. g[s \ {Pick(s)}] = IF k \in s \ {Pick(s)} THEN v ELSE 0
    BY <1>4
  <2>3. CASE Pick(s) = k
    BY <1>1, <2>1, <2>2, <2>3
  <2>4. CASE Pick(s) # k
    BY <1>1, <2>1, <2>2, <2>4
  <2> QED BY <2>3, <2>4
<1>5. SUBSET T \subseteq P
  <2> HIDE DEF P
  <2> QED BY <1>3, <1>4, SubsetInduction
<1> QED BY <1>2, <1>5 DEF f

LEMMA SumConstant ==
  ASSUME NEW T, IsFiniteSet(T), NEW v \in Int, NEW f \in [T -> Int], \A x \in T : f[x] = v
  PROVE  SumFunction(f) = v * Cardinality(T)
<1>2. PICK g : AddsUp(g, f, T) /\ SumFunction(f) = g[T]
  BY SumFunctionAddsUp
<1> DEFINE P == {s \in SUBSET T : g[s] = v * Cardinality(s)}
<1>3. {} \in P
  <2>1. v * 0 = 0
    OBVIOUS
  <2> QED BY <1>2, <2>1, FS_EmptySet DEF AddsUp
<1>4. ASSUME NEW s \in SUBSET T, s # {}, s \ {Pick(s)} \in P PROVE s \in P
  <2>1. Pick(s) \in s /\ Pick(s) \in T /\ g[s] = f[Pick(s)] + g[s \ {Pick(s)}]
    BY <1>2, <1>4 DEF AddsUp
  <2>2. IsFiniteSet(s) /\ Cardinality(s) \in Nat
    BY FS_Subset, FS_CardinalityType
  <2>3. Cardinality(s \ {Pick(s)}) = Cardinality(s) - 1
    BY <2>1, <2>2, FS_RemoveElement
  <2>4. v * (Cardinality(s) - 1) = v * Cardinality(s) - v
        /\ v * Cardinality(s) \in Int
    BY <2>2
  <2> QED BY <1>4, <2>1, <2>3, <2>4
<1>5. SUBSET T \subseteq P
  <2> HIDE DEF P
  <2> QED BY <1>3, <1>4, SubsetInduction
<1> QED BY <1>2, <1>5

LEMMA SumZero ==
  ASSUME NEW T, IsFiniteSet(T), NEW f \in [T -> Int], \A x \in T : f[x] = 0
  PROVE  SumFunction(f) = 0
<1>1. 0 \in Int
  OBVIOUS
<1>2. PICK z \in Int : z = 0
  BY <1>1
<1>3. SumFunction(f) = z * Cardinality(T)
  BY <1>2, SumConstant
<1>4. Cardinality(T) \in Nat
  BY FS_CardinalityType
<1> QED BY <1>2, <1>3, <1>4

LEMMA SumAdd ==
  ASSUME NEW T, IsFiniteSet(T), NEW f \in [T -> Int], NEW h \in [T -> Int],
         NEW l \in [T -> Int], \A x \in T : l[x] = f[x] + h[x]
  PROVE  SumFunction(l) = SumFunction(f) + SumFunction(h)
<1>1. 1 \in Int
  OBVIOUS
<1>2. PICK c \in Int : c = 1
  BY <1>1
<1>3. \A x \in T : l[x] = c * f[x] + h[x]
  BY <1>2
<1>4. SumFunction(l) = c * SumFunction(f) + SumFunction(h)
  BY <1>3, SumLinear
<1>5. SumFunction(f) \in Int
  BY SumType
<1> QED BY <1>2, <1>4, <1>5

\* A changed term changes the sum by as much.
LEMMA SumExcept ==
  ASSUME NEW T, IsFiniteSet(T), NEW f \in [T -> Int], NEW k \in T, NEW v \in Int
  PROVE  SumFunction([f EXCEPT ![k] = v]) = SumFunction(f) - f[k] + v
<1> DEFINE h == [x \in T |-> IF x = k THEN v - f[k] ELSE 0]
           l == [f EXCEPT ![k] = v]
<1>1. h \in [T -> Int] /\ l \in [T -> Int] /\ \A x \in T : l[x] = f[x] + h[x]
  OBVIOUS
<1>2. SumFunction(h) = v - f[k]
  BY SumSingle
<1>3. SumFunction(f) \in Int
  BY SumType
<1> HIDE DEF h, l
<1>4. SumFunction(l) = SumFunction(f) + SumFunction(h)
  BY <1>1, SumAdd
<1>5. SumFunction(l) = SumFunction(f) - f[k] + v
  BY <1>2, <1>3, <1>4
<1> QED BY <1>5 DEF l

-----------------------------------------------------------------------------
(* The ether, summed over slots and co-creations.                          *)

Points(creators) == [i \in DOMAIN creators |-> creators[i].basisPoints]
PaidOut(id) == SumFunction(paid[id])

\* Every co-creation has a creator, and their shares make up the whole.
SharedOut == \A id \in Ids :
  Valid(id) => /\ Len(coCreations[id].creators) > 0
               /\ SumFunction(Points(coCreations[id].creators)) = Whole

MoneyInv == SharedOut /\ OnlyDustStays /\ EtherConserved

LEMMA SlotsFinite ==
  ASSUME IInv, NEW id \in Ids
  PROVE  /\ DOMAIN coCreations[id].creators = 1 .. Len(coCreations[id].creators)
         /\ Len(coCreations[id].creators) \in Nat
         /\ IsFiniteSet(DOMAIN coCreations[id].creators)
         /\ Cardinality(DOMAIN coCreations[id].creators) = Len(coCreations[id].creators)
         /\ paid[id] \in [DOMAIN coCreations[id].creators -> Nat]
         /\ Points(coCreations[id].creators) \in
              [DOMAIN coCreations[id].creators -> 0 .. Whole]
  <1> DEFINE creators == coCreations[id].creators
  <1>1. creators \in Seq(Creator)
    BY DEF IInv, TypeOK, CoCreationData
  <1>2. DOMAIN creators = 1 .. Len(creators) /\ Len(creators) \in Nat
        /\ \A i \in DOMAIN creators : creators[i].basisPoints \in 0 .. Whole
    BY <1>1, TeamTyped
  <1>3. IsFiniteSet(1 .. Len(creators)) /\ Cardinality(1 .. Len(creators)) = Len(creators)
    BY <1>2, FS_Interval
  <1> QED BY <1>2, <1>3 DEF IInv, TypeOK, Points

LEMMA PaidOutType ==
  ASSUME IInv, NEW id \in Ids PROVE PaidOut(id) \in Int
  BY SlotsFinite, SumType DEF PaidOut

LEMMA IdsFinite == IsFiniteSet(Ids)
  BY MaxCoCreationsAssumption, FS_Interval DEF Ids

\* What one co-creation's slots get adds to what all of them got.
LEMMA OnePaid ==
  ASSUME IInv, IInv', NEW id \in Ids, \A k \in Ids : k # id => paid'[k] = paid[k]
  PROVE  SumFunction([k \in Ids |-> SumFunction(paid'[k])]) =
           SumFunction([k \in Ids |-> SumFunction(paid[k])]) - PaidOut(id) + PaidOut(id)'
  <1> DEFINE f == [k \in Ids |-> SumFunction(paid[k])]
             h == [k \in Ids |-> SumFunction(paid'[k])]
  <1>1. f \in [Ids -> Int]
    BY PaidOutType DEF PaidOut
  <1>2. PaidOut(id)' \in Int
    <2>1. /\ IsFiniteSet(DOMAIN coCreations'[id].creators)
          /\ paid'[id] \in [DOMAIN coCreations'[id].creators -> Nat]
      <3>1. coCreations'[id].creators \in Seq(Creator)
        BY DEF IInv, TypeOK, CoCreationData
      <3>2. DOMAIN coCreations'[id].creators = 1 .. Len(coCreations'[id].creators)
            /\ Len(coCreations'[id].creators) \in Nat
        BY <3>1
      <3>3. IsFiniteSet(1 .. Len(coCreations'[id].creators))
        BY <3>2, FS_Interval
      <3>4. paid'[id] \in [DOMAIN coCreations'[id].creators -> Nat]
        BY DEF IInv, TypeOK
      <3> QED BY <3>2, <3>3, <3>4
    <2>2. paid'[id] \in [DOMAIN coCreations'[id].creators -> Int]
      BY <2>1
    <2> QED BY <2>1, <2>2, SumType DEF PaidOut
  <1>3. h = [f EXCEPT ![id] = PaidOut(id)']
    BY DEF PaidOut
  <1>4. f[id] = PaidOut(id)
    BY DEF PaidOut
  <1> HIDE DEF f, h
  <1>5. SumFunction(h) = SumFunction(f) - f[id] + PaidOut(id)'
    BY <1>1, <1>2, <1>3, IdsFinite, SumExcept
  <1> QED BY <1>4, <1>5 DEF f, h

LEMMA InitMoneyInv == Init => MoneyInv
  <1> SUFFICES ASSUME Init PROVE MoneyInv
    OBVIOUS
  <1>1. SumFunction(<<>>) = 0
    <2>1. IsFiniteSet({}) /\ DOMAIN <<>> = {}
      BY FS_EmptySet
    <2>2. PICK g : AddsUp(g, <<>>, {}) /\ SumFunction(<<>>) = g[{}]
      BY <2>1, SumFunctionAddsUp
    <2> QED BY <2>2 DEF AddsUp
  <1>2. SumFunction([k \in Ids |-> SumFunction(paid[k])]) = 0
    <2> DEFINE f == [k \in Ids |-> SumFunction(paid[k])]
    <2>1. f \in [Ids -> Int] /\ \A k \in Ids : f[k] = 0
      BY <1>1 DEF Init
    <2> HIDE DEF f
    <2>2. SumFunction(f) = 0
      BY <2>1, IdsFinite, SumZero
    <2> QED BY <2>2 DEF f
  <1>3. EtherConserved
    BY <1>2 DEF Init, EtherConserved
  <1>4. OnlyDustStays
    BY <1>1 DEF Init, OnlyDustStays
  <1>5. SharedOut
    BY DEF Init, SharedOut, Valid, Ids
  <1> QED BY <1>3, <1>4, <1>5 DEF MoneyInv

\* Calls that pay nothing and change neither the shares nor the number of the creators.
LEMMA NothingPaid ==
  ASSUME IInv, MoneyInv, UNCHANGED moneyVars, UNCHANGED coCreationCounter,
         \A k \in Ids : /\ Len(coCreations'[k].creators) = Len(coCreations[k].creators)
                        /\ Points(coCreations'[k].creators) = Points(coCreations[k].creators)
  PROVE  MoneyInv'
  BY DEF MoneyInv, SharedOut, OnlyDustStays, EtherConserved, moneyVars, Valid

LEMMA SigningMoneyInv ==
  ASSUME IInv, MoneyInv, NEW sender \in Accounts, NEW id \in Ids,
         Sign(sender, id) \/ WithdrawSignature(sender, id) \/ Publish(sender, id)
  PROVE  MoneyInv'
  <1> DEFINE creators == coCreations[id].creators
  <1>1. creators \in Seq(Creator)
    BY DEF IInv, TypeOK, CoCreationData
  <1>2. UNCHANGED moneyVars /\ UNCHANGED coCreationCounter
    BY DEF Sign, WithdrawSignature, Publish
  <1>3. \E flag \in BOOLEAN :
          coCreations'[id].creators \in {creators, Flagged(creators, sender, flag)}
    <2>1. CASE Sign(sender, id)
      BY <2>1 DEF Sign, IInv, TypeOK
    <2>2. CASE WithdrawSignature(sender, id)
      BY <2>2 DEF WithdrawSignature, IInv, TypeOK
    <2>3. CASE Publish(sender, id)
      BY <2>3 DEF Publish, IInv, TypeOK, CoCreationData
    <2> QED BY <2>1, <2>2, <2>3
  <1>4. /\ Len(coCreations'[id].creators) = Len(creators)
        /\ Points(coCreations'[id].creators) = Points(creators)
    <2>1. CASE coCreations'[id].creators = creators
      BY <2>1
    <2>2. CASE \E flag \in BOOLEAN : coCreations'[id].creators = Flagged(creators, sender, flag)
      <3>1. PICK flag \in BOOLEAN : coCreations'[id].creators = Flagged(creators, sender, flag)
        BY <2>2
      <3> DEFINE team == Flagged(creators, sender, flag)
      <3>2. /\ DOMAIN team = DOMAIN creators /\ Len(team) = Len(creators)
            /\ \A i \in DOMAIN creators : team[i].basisPoints = creators[i].basisPoints
        BY <1>1, FlaggedFacts
      <3> HIDE DEF team
      <3>3. Points(team) = Points(creators)
        BY <3>2 DEF Points
      <3> QED BY <3>1, <3>2, <3>3 DEF team
    <2> QED BY <1>3, <2>1, <2>2
  <1>5. \A k \in Ids : k # id => coCreations'[k] = coCreations[k]
    BY DEF Sign, WithdrawSignature, Publish, IInv, TypeOK
  <1> QED BY <1>2, <1>4, <1>5, NothingPaid

LEMMA ReceiveMoneyInv ==
  ASSUME IInv, MoneyInv, NEW amount \in Deposits, Receive(amount)
  PROVE  MoneyInv'
  <1> DEFINE out == SumFunction([k \in Ids |-> SumFunction(paid[k])])
  <1>1. out \in Int
    <2>1. [k \in Ids |-> SumFunction(paid[k])] \in [Ids -> Int]
      BY PaidOutType DEF PaidOut
    <2> QED BY <2>1, IdsFinite, SumType
  <1>2. received \in Nat /\ balance \in Nat /\ amount \in Nat /\ received = balance + out
    BY AmountsAssumption DEF MoneyInv, EtherConserved, IInv, TypeOK
  <1>3. UNCHANGED <<coCreationCounter, coCreations, offered, rounds, paid>>
        /\ balance' = balance + amount /\ received' = received + amount
    BY DEF Receive, teamVars
  <1> HIDE DEF out
  <1>4. received' = balance' + out
    BY <1>1, <1>2, <1>3
  <1>5. EtherConserved'
    BY <1>3, <1>4 DEF out, EtherConserved
  <1> QED BY <1>3, <1>5 DEF MoneyInv, SharedOut, OnlyDustStays, Valid

LEMMA InitiateMoneyInv ==
  ASSUME IInv, IInv', MoneyInv, NEW sender \in Accounts, NEW basisPoints \in Splits,
         NEW addresses \in [DOMAIN basisPoints -> Accounts],
         Initiate(sender, addresses, basisPoints)
  PROVE  MoneyInv'
  <1>0. PICK id \in Ids : id = coCreationCounter + 1
    BY MaxCoCreationsAssumption DEF IInv, TypeOK, Ids, Initiate
  <1> DEFINE n == Len(addresses)
             blank == [i \in 1 .. n |-> [creatorAddress |-> addresses[i],
                                         basisPoints    |-> basisPoints[i],
                                         hasSigned      |-> FALSE]]
             team == Flagged(blank, sender, TRUE)
  <1>1. /\ basisPoints \in Seq(0 .. Whole) /\ n = Len(basisPoints)
        /\ SumFunction(basisPoints) = Whole
    BY SplitsAssumption DEF Initiate, AddUpToWhole
  <1>2. n \in Nat /\ n > 0 /\ DOMAIN basisPoints = 1 .. n
    BY <1>1 DEF Initiate
  <1>3. /\ coCreationCounter' = id
        /\ coCreations' = [coCreations EXCEPT ![id] = [creators       |-> team,
                                                      status         |-> "PendingSignatures",
                                                      signatureCount |-> 1]]
        /\ paid' = [paid EXCEPT ![id] = [i \in 1 .. n |-> 0]]
        /\ UNCHANGED <<balance, received, offered, rounds>>
    BY <1>0 DEF Initiate
  <1>4. /\ DOMAIN team = 1 .. n /\ \A i \in 1 .. n : team[i].basisPoints = basisPoints[i]
    BY DEF Flagged
  <1>5. Len(team) = n
    BY <1>2 DEF Flagged
  <1> HIDE DEF team, n
  <1>6. Points(team) = basisPoints
    <2>1. basisPoints = [i \in 1 .. n |-> basisPoints[i]]
      BY <1>1, <1>2
    <2> QED BY <1>4, <2>1 DEF Points
  <1>7. /\ coCreations'[id].creators = team /\ paid'[id] = [i \in 1 .. n |-> 0]
        /\ \A k \in Ids : k # id => coCreations'[k] = coCreations[k] /\ paid'[k] = paid[k]
    BY <1>3 DEF IInv, TypeOK
  <1>8. SharedOut'
    <2> SUFFICES ASSUME NEW k \in Ids, Valid(k)'
                 PROVE  /\ Len(coCreations'[k].creators) > 0
                        /\ SumFunction(Points(coCreations'[k].creators)) = Whole
      BY DEF SharedOut
    <2>1. CASE k = id
      BY <1>1, <1>2, <1>5, <1>6, <1>7, <2>1
    <2>2. CASE k # id
      <3>1. Valid(k)
        BY <1>0, <1>3, <2>2 DEF Valid, IInv, TypeOK, Ids
      <3> QED BY <1>7, <2>2, <3>1 DEF MoneyInv, SharedOut
    <2> QED BY <2>1, <2>2
  <1>9. PaidOut(id)' = 0
    <2>1. IsFiniteSet(1 .. n) /\ Cardinality(1 .. n) = n
      BY <1>2, FS_Interval
    <2>2. paid'[id] \in [1 .. n -> Int] /\ \A i \in 1 .. n : paid'[id][i] = 0
      BY <1>7
    <2> QED BY <2>1, <2>2, SumZero DEF PaidOut
  <1>10. offered[id] = 0 /\ offered'[id] = 0 /\ rounds[id] \in Nat
    BY <1>0, <1>3 DEF IInv, UnallocatedUnpaid, TypeOK, Ids
  <1>11. PaidOut(id) = 0
    <2>1. PaidOut(id) >= 0
      <3> DEFINE T == DOMAIN coCreations[id].creators
                 z == [i \in T |-> 0]
      <3>1. IsFiniteSet(T) /\ paid[id] \in [T -> Nat] /\ Cardinality(T) \in Nat
        BY SlotsFinite
      <3>2. z \in [T -> Int] /\ paid[id] \in [T -> Int] /\ \A i \in T : z[i] <= paid[id][i]
        BY <3>1
      <3>3. SumFunction(z) = 0
        <4>1. \A i \in T : z[i] = 0
          OBVIOUS
        <4> HIDE DEF z, T
        <4> QED BY <3>1, <3>2, <4>1, SumZero
      <3> HIDE DEF z, T
      <3>4. SumFunction(z) <= SumFunction(paid[id])
        BY <3>1, <3>2, SumMonotonic
      <3> QED BY <3>3, <3>4, PaidOutType DEF PaidOut
    <2>2. offered[id] - PaidOut(id) >= 0
      BY <1>10, PaidOutType DEF MoneyInv, OnlyDustStays, PaidOut
    <2> QED BY <1>10, <2>1, <2>2, PaidOutType
  <1>12. OnlyDustStays'
    <2> SUFFICES ASSUME NEW k \in Ids
                 PROVE  offered'[k] - SumFunction(paid'[k]) \in
                          0 .. rounds'[k] * (Len(coCreations'[k].creators) - 1)
      BY DEF OnlyDustStays
    <2>1. CASE k = id
      <3>1. rounds[id] * (n - 1) \in Nat
        <4>1. n - 1 \in Nat
          BY <1>2
        <4> QED BY <1>10, <4>1
      <3>2. offered'[id] - SumFunction(paid'[id]) = 0
        BY <1>9, <1>10 DEF PaidOut
      <3>3. rounds'[id] = rounds[id] /\ Len(coCreations'[id].creators) = n
        BY <1>3, <1>5, <1>7
      <3>4. 0 \in 0 .. rounds[id] * (n - 1)
        BY <3>1
      <3> QED BY <2>1, <3>2, <3>3, <3>4
    <2>2. CASE k # id
      BY <1>3, <1>7, <2>2 DEF MoneyInv, OnlyDustStays
    <2> QED BY <2>1, <2>2
  <1>13. EtherConserved'
    <2> DEFINE out == SumFunction([k \in Ids |-> SumFunction(paid[k])])
               out2 == SumFunction([k \in Ids |-> SumFunction(paid'[k])])
    <2>1. out \in Int
      <3>1. [k \in Ids |-> SumFunction(paid[k])] \in [Ids -> Int]
        BY PaidOutType DEF PaidOut
      <3> QED BY <3>1, IdsFinite, SumType
    <2>2. out2 = out - PaidOut(id) + PaidOut(id)'
      BY <1>7, OnePaid
    <2>3. received = balance + out
      BY DEF MoneyInv, EtherConserved
    <2> HIDE DEF out, out2
    <2>4. out2 = out
      BY <1>9, <1>11, <2>1, <2>2
    <2>5. received' = balance' + out2
      BY <1>3, <2>3, <2>4
    <2> QED BY <2>5 DEF out2, EtherConserved
  <1> QED BY <1>8, <1>12, <1>13 DEF MoneyInv

\* In one distribution the divisions lose less than a unit for each slot but one.
LEMMA DustOfOne ==
  ASSUME NEW T, IsFiniteSet(T), NEW n \in Nat, n = Cardinality(T), n > 0,
         NEW points \in [T -> 0 .. Whole], SumFunction(points) = Whole,
         NEW amount \in Nat, NEW shares \in [T -> Nat],
         \A i \in T : /\ shares[i] * Whole <= amount * points[i]
                      /\ amount * points[i] < (shares[i] + 1) * Whole
  PROVE  SumFunction(shares) \in Int /\ amount - SumFunction(shares) \in 0 .. n - 1
  <1> DEFINE zero == [i \in T |-> 0]
             most == [i \in T |-> Whole - 1]
             low == [i \in T |-> Whole * shares[i] + zero[i]]
             exact == [i \in T |-> amount * points[i] + zero[i]]
             high == [i \in T |-> Whole * shares[i] + most[i]]
             total == SumFunction(shares)
  <1>0. Whole = 10000
    BY DEF Whole
  <1>1. /\ zero \in [T -> Int] /\ most \in [T -> Int] /\ shares \in [T -> Int]
        /\ points \in [T -> Int]
    <2>1. zero \in [T -> Int] /\ shares \in [T -> Int]
      OBVIOUS
    <2>2. Whole - 1 \in Int /\ \A b \in 0 .. Whole : b \in Int
      BY <1>0
    <2>3. most \in [T -> Int] /\ points \in [T -> Int]
      BY <2>2
    <2> QED BY <2>1, <2>3
  <1>2. SumFunction(zero) = 0 /\ SumFunction(most) = 9999 * n
    <2>1. \A i \in T : zero[i] = 0 /\ most[i] = Whole - 1
      OBVIOUS
    <2>2. PICK v \in Int : v = Whole - 1
      BY <1>0
    <2> HIDE DEF zero, most
    <2>3. SumFunction(zero) = 0
      BY <1>1, <2>1, SumZero
    <2>4. SumFunction(most) = v * n
      BY <1>1, <2>1, <2>2, SumConstant
    <2> QED BY <1>0, <2>2, <2>3, <2>4
  <1>3. ASSUME NEW i \in T
        PROVE  /\ low[i] \in Int /\ exact[i] \in Int /\ high[i] \in Int
               /\ low[i] <= exact[i] /\ exact[i] <= high[i]
    <2> DEFINE a == amount * points[i]
    <2>1. a \in Int
      BY <1>1
    <2>2. shares[i] \in Nat /\ shares[i] * 10000 <= a /\ a < (shares[i] + 1) * 10000
      BY <1>0
    <2>3. low[i] = 10000 * shares[i] + 0 /\ exact[i] = a + 0
          /\ high[i] = 10000 * shares[i] + 9999
      BY <1>0
    <2> HIDE DEF a, low, exact, high
    <2> QED BY <2>1, <2>2, <2>3
  <1>4. low \in [T -> Int] /\ exact \in [T -> Int] /\ high \in [T -> Int]
    BY <1>3
  <1>5. /\ \A i \in T : low[i] = Whole * shares[i] + zero[i]
        /\ \A i \in T : exact[i] = amount * points[i] + zero[i]
        /\ \A i \in T : high[i] = Whole * shares[i] + most[i]
    OBVIOUS
  <1> HIDE DEF zero, most, low, exact, high
  <1>6. total \in Int /\ \E c \in Int : c = Whole
    BY <1>0, <1>1, SumType
  <1>7. SumFunction(low) = Whole * total + SumFunction(zero)
    <2>1. PICK c \in Int : c = Whole
      BY <1>6
    <2>2. \A i \in T : low[i] = c * shares[i] + zero[i]
      BY <1>5, <2>1
    <2>3. shares \in [T -> Int] /\ zero \in [T -> Int] /\ low \in [T -> Int]
      BY <1>1, <1>4
    <2>4. SumFunction(low) = c * SumFunction(shares) + SumFunction(zero)
      BY ONLY IsFiniteSet(T), <2>2, <2>3, SumLinear
    <2> QED BY <2>1, <2>4
  <1>8. SumFunction(exact) = amount * SumFunction(points) + SumFunction(zero)
    BY <1>1, <1>4, <1>5, SumLinear
  <1>9. SumFunction(high) = Whole * total + SumFunction(most)
    <2>1. PICK c \in Int : c = Whole
      BY <1>6
    <2>2. \A i \in T : high[i] = c * shares[i] + most[i]
      BY <1>5, <2>1
    <2>3. shares \in [T -> Int] /\ most \in [T -> Int] /\ high \in [T -> Int]
      BY <1>1, <1>4
    <2>4. SumFunction(high) = c * SumFunction(shares) + SumFunction(most)
      BY ONLY IsFiniteSet(T), <2>2, <2>3, SumLinear
    <2> QED BY <2>1, <2>4
  <1>10. SumFunction(low) <= SumFunction(exact) /\ SumFunction(exact) <= SumFunction(high)
    BY <1>3, <1>4, SumMonotonic
  <1> HIDE DEF total
  <1>11. 10000 * total <= amount * 10000 /\ amount * 10000 <= 10000 * total + 9999 * n
    BY <1>0, <1>2, <1>6, <1>7, <1>8, <1>9, <1>10
  <1>12. amount - total \in 0 .. n - 1
    BY <1>6, <1>11
  <1> QED BY <1>6, <1>12 DEF total

LEMMA DistributeMoneyInv ==
  ASSUME IInv, IInv', MoneyInv, NEW id \in Ids, NEW amount \in Amounts,
         DistributeRoyalty(id, amount)
  PROVE  MoneyInv'
  <1> DEFINE creators == coCreations[id].creators
             T == DOMAIN creators
             n == Len(creators)
             points == Points(creators)
             shares == Shares(id, amount)
             total == SumFunction(shares)
  <1>1. /\ balance' = balance - total
        /\ offered' = [offered EXCEPT ![id] = @ + amount]
        /\ rounds' = [rounds EXCEPT ![id] = @ + 1]
        /\ paid' = [paid EXCEPT ![id] = [i \in DOMAIN shares |-> @[i] + shares[i]]]
        /\ UNCHANGED <<received, coCreationCounter, coCreations>>
        /\ Valid(id)
    BY DEF DistributeRoyalty, teamVars
  <1>2. amount \in Nat /\ offered[id] \in Nat /\ rounds[id] \in Nat /\ balance \in Nat
    BY AmountsAssumption DEF IInv, TypeOK
  <1>3. /\ n \in Nat /\ IsFiniteSet(T) /\ Cardinality(T) = n
        /\ paid[id] \in [T -> Nat] /\ points \in [T -> 0 .. Whole]
    BY SlotsFinite
  <1>4. n > 0 /\ SumFunction(points) = Whole
    BY <1>1 DEF MoneyInv, SharedOut
  <1>5. shares \in [T -> Nat] /\ \A i \in T : /\ shares[i] * Whole <= amount * points[i]
                                             /\ amount * points[i] < (shares[i] + 1) * Whole
    <2>1. DOMAIN shares = T /\ \A i \in T : shares[i] = Share(amount, points[i])
      BY DEF Shares, Points
    <2>2. \A i \in T : points[i] \in 0 .. Whole
      BY <1>3
    <2>3. shares = [i \in T |-> shares[i]]
      BY DEF Shares
    <2> HIDE DEF T, points, shares
    <2> QED BY <1>2, <2>1, <2>2, <2>3, ShareFacts
  <1> HIDE DEF T, n, points, shares
  <1>6. total \in Int /\ amount - total \in 0 .. n - 1
    BY <1>2, <1>3, <1>4, <1>5, DustOfOne
  <1>7. /\ paid'[id] = [i \in T |-> paid[id][i] + shares[i]]
        /\ offered'[id] = offered[id] + amount /\ rounds'[id] = rounds[id] + 1
        /\ \A k \in Ids : k # id => /\ paid'[k] = paid[k] /\ offered'[k] = offered[k]
                                    /\ rounds'[k] = rounds[k]
    BY <1>1, <1>5 DEF IInv, TypeOK
  <1>8. PaidOut(id) \in Int /\ PaidOut(id)' = PaidOut(id) + total
    <2> DEFINE l == [i \in T |-> paid[id][i] + shares[i]]
    <2>1. /\ paid[id] \in [T -> Int] /\ shares \in [T -> Int] /\ l \in [T -> Int]
          /\ \A i \in T : l[i] = paid[id][i] + shares[i]
      BY <1>3, <1>5
    <2>2. PaidOut(id) \in Int
      BY PaidOutType
    <2> HIDE DEF l
    <2>3. SumFunction(l) = SumFunction(paid[id]) + SumFunction(shares)
      BY <1>3, <2>1, SumAdd
    <2>4. PaidOut(id)' = SumFunction(l)
      BY <1>7 DEF l, PaidOut
    <2> QED BY <2>2, <2>3, <2>4 DEF PaidOut
  <1> HIDE DEF total
  <1>9. SharedOut'
    BY <1>1 DEF MoneyInv, SharedOut, Valid
  <1>10. OnlyDustStays'
    <2> SUFFICES ASSUME NEW k \in Ids
                 PROVE  offered'[k] - SumFunction(paid'[k]) \in
                          0 .. rounds'[k] * (Len(coCreations'[k].creators) - 1)
      BY DEF OnlyDustStays
    <2>1. CASE k = id
      <3> DEFINE old == rounds[id] * (n - 1)
      <3>1. n - 1 \in Nat /\ old \in Nat /\ (rounds[id] + 1) * (n - 1) = old + (n - 1)
        <4>1. n - 1 \in Nat
          BY <1>3, <1>4
        <4>2. \A r, m \in Nat : r * m \in Nat /\ (r + 1) * m = r * m + m
          OBVIOUS
        <4> QED BY <1>2, <4>1, <4>2
      <3>2. offered[id] - PaidOut(id) \in 0 .. old
        BY DEF MoneyInv, OnlyDustStays, PaidOut, n
      <3>3. rounds'[k] * (Len(coCreations'[k].creators) - 1) = old + (n - 1)
        BY <1>1, <1>7, <2>1, <3>1 DEF n
      <3>4. offered'[k] - SumFunction(paid'[k]) = (offered[id] + amount) - (PaidOut(id) + total)
        BY <1>7, <1>8, <2>1 DEF PaidOut
      <3> HIDE DEF old
      <3>5. (offered[id] + amount) - (PaidOut(id) + total) \in 0 .. old + (n - 1)
        BY <1>2, <1>6, <1>8, <3>1, <3>2
      <3> QED BY <3>3, <3>4, <3>5
    <2>2. CASE k # id
      BY <1>1, <1>7, <2>2 DEF MoneyInv, OnlyDustStays
    <2> QED BY <2>1, <2>2
  <1>11. EtherConserved'
    <2> DEFINE out == SumFunction([k \in Ids |-> SumFunction(paid[k])])
               out2 == SumFunction([k \in Ids |-> SumFunction(paid'[k])])
    <2>1. out \in Int
      <3>1. [k \in Ids |-> SumFunction(paid[k])] \in [Ids -> Int]
        BY PaidOutType DEF PaidOut
      <3> QED BY <3>1, IdsFinite, SumType
    <2>2. out2 = out - PaidOut(id) + PaidOut(id)'
      BY <1>7, OnePaid
    <2>3. received = balance + out
      BY DEF MoneyInv, EtherConserved
    <2> HIDE DEF out, out2
    <2>4. received' = balance' + out2
      BY <1>1, <1>2, <1>6, <1>8, <2>1, <2>2, <2>3
    <2> QED BY <2>4 DEF out2, EtherConserved
  <1> QED BY <1>9, <1>10, <1>11 DEF MoneyInv

LEMMA NextMoneyInv == ASSUME IInv, IInv', MoneyInv, [Next]_vars PROVE MoneyInv'
  <1>1. CASE UNCHANGED vars
    BY <1>1 DEF vars, MoneyInv, SharedOut, OnlyDustStays, EtherConserved, Valid
  <1> QED BY <1>1, InitiateMoneyInv, SigningMoneyInv, DistributeMoneyInv, ReceiveMoneyInv
          DEF Next

LEMMA MoneyInvariant == Spec => []MoneyInv
  BY InitMoneyInv, NextMoneyInv, InductiveInvariant, PTL DEF Spec

\* What a co-creation's creators do not get of the royalties is dust, less than a unit
\* for each slot but one in each distribution; and they never get more.
THEOREM DustIsBounded == Spec => []OnlyDustStays
  BY MoneyInvariant, PTL DEF MoneyInv

\* All ether the contract was ever sent is in it or was paid to creators.
THEOREM EtherIsConserved == Spec => []EtherConserved
  BY MoneyInvariant, PTL DEF MoneyInv
=============================================================================
