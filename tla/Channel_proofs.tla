---------------------------- MODULE Channel_proofs ----------------------------
(***************************************************************************)
(* Proofs about Channel, for limits, buffers, packets and calls of any     *)
(* size: the composition is made of steps of its two parts, and each part  *)
(* keeps its invariant.                                                    *)
(***************************************************************************)
EXTENDS Channel, SequenceTheorems, FunctionTheorems,
        FiniteSetTheorems, TLAPS

-----------------------------------------------------------------------------
(* The audio feed                                                          *)

LEMMA FeedStart ==
  ASSUME FeedInit PROVE FeedIInv
<1>1. FeedTypeOK
  <2>1. <<>> \in Seq(Nat)
    BY EmptySeq
  <2> QED BY <2>1 DEF FeedInit, FeedTypeOK
<1>2. OneAnswer
  BY DEF FeedInit, OneAnswer, Asking
<1>3. OffersFit
  BY FeedAssumption DEF FeedInit, OffersFit, Asking
<1> QED BY <1>1, <1>2, <1>3 DEF FeedIInv

\* The length of a packet lies within the credit and within what is left.
LEMMA PushLenFits ==
  ASSUME FeedTypeOK
  PROVE  PushLen \in Nat /\ PushLen <= credit /\ PushLen <= feeder.remain
BY FeedAssumption DEF FeedTypeOK, PushLen, Smaller

\* An answer less is still a sequence of numbers.
LEMMA WithoutType ==
  ASSUME NEW s \in Seq(Nat), NEW i \in DOMAIN s
  PROVE  Without(s, i) \in Seq(Nat)
<1>1. i \in 1..Len(s) /\ Len(s) \in Nat /\ \A j \in 1..Len(s) : s[j] \in Nat
  BY LenProperties, ElementOfSeq
<1>2. SubSeq(s, 1, i - 1) \in Seq(Nat)
  BY <1>1, SubSeqProperties
<1>3. SubSeq(s, i + 1, Len(s)) \in Seq(Nat)
  BY <1>1, SubSeqProperties
<1> QED BY <1>2, <1>3, ConcatProperties DEF Without

LEMMA FeedTypeKept ==
  ASSUME FeedTypeOK, FeedNext PROVE FeedTypeOK'
<1> USE FeedTypeOK DEF FeedTypeOK
<1>1. ASSUME NEW len \in Nat \ {0}, FeedBegin(len) PROVE FeedTypeOK'
  BY <1>1 DEF FeedBegin
<1>2. CASE Query
  BY <1>2 DEF Query, Trouble
<1>3. CASE QueryReturns
  BY <1>3 DEF QueryReturns, Trouble
<1>4. CASE GetToken
  <2>1. sem' \in Nat
    BY <1>4 DEF GetToken
  <2>2. feeder' = [feeder EXCEPT !.at = "read"]
    BY <1>4 DEF GetToken
  <2> QED BY <1>4, <2>1, <2>2 DEF GetToken
<1>5. CASE TimeOut
  BY <1>5 DEF TimeOut, Trouble
<1>6. CASE ReadLen
  BY <1>6 DEF ReadLen
<1>7. CASE Push
  BY <1>7, PushLenFits DEF Push, Trouble
<1>8. CASE FeedReturn
  BY <1>8 DEF FeedReturn
<1>9. CASE StoreLen
  <2>1. Head(answers) \in Nat /\ Tail(answers) \in Seq(Nat)
    BY <1>9, HeadTailProperties DEF StoreLen
  <2> QED BY <1>9, <2>1 DEF StoreLen
<1>10. CASE SignalLen
  <2>1. sem' = sem + 1 /\ sem \in Nat
    BY <1>10, Zenon DEF SignalLen
  <2>2. sem' \in Nat
    BY ONLY <2>1
  <2>3. stored' \in BOOLEAN
    BY <1>10, Zenon DEF SignalLen
  <2> QED BY <1>10, <2>2, <2>3, Zenon DEF SignalLen
<1>11. CASE Answer
  <2>1. Room \in Nat
    BY FeedAssumption DEF Room
  <2>2. asked' \in Nat
    BY <1>11 DEF Answer
  <2>3. CASE answers' = Append(answers, Room) /\ UNCHANGED troubles
    <3>1. answers' \in Seq(Nat)
      BY <2>1, <2>3
    <3> QED BY <1>11, <2>2, <2>3, <3>1 DEF Answer
  <2>4. CASE Trouble /\ UNCHANGED answers
    BY <1>11, <2>2, <2>4 DEF Answer, Trouble
  <2> QED BY <1>11, <2>3, <2>4 DEF Answer
<1>12. CASE Play
  BY <1>12 DEF Play
<1>13. ASSUME NEW i \in DOMAIN answers, LoseAnswer(i) PROVE FeedTypeOK'
  BY <1>13, WithoutType DEF LoseAnswer
<1> QED
  BY <1>1, <1>2, <1>3, <1>4, <1>5, <1>6, <1>7, <1>8, <1>9, <1>10, <1>11, <1>12, <1>13
  DEF FeedNext

\* A step without trouble keeps the one answer and the offers.
LEMMA FeedOffersKept ==
  ASSUME FeedTypeOK, OneAnswer, OffersFit, troubles = 0, FeedNext, troubles' = 0
  PROVE  OneAnswer' /\ OffersFit'
<1> USE FeedTypeOK, FeedAssumption, troubles = 0, troubles' = 0
<1>0. /\ Len(answers) \in Nat /\ DOMAIN answers = 1..Len(answers)
      /\ \A i \in 1..Len(answers) : answers[i] \in Nat
  BY LenProperties, ElementOfSeq DEF FeedTypeOK
<1>1. ASSUME NEW len \in Nat \ {0}, FeedBegin(len) PROVE OneAnswer' /\ OffersFit'
  BY <1>1, OneAnswer, OffersFit DEF FeedBegin, OneAnswer, OffersFit, Asking, FeedTypeOK
<1>2. CASE Query
  <2>1. feeder' = [feeder EXCEPT !.at = "sent"] /\ asked' = asked + 1
        /\ feeder.at = "loop" /\ credit = 0
    BY <1>2 DEF Query, Trouble
  <2>2. OneAnswer'
    <3>1. ~Asking /\ Asking'
      BY <2>1 DEF Asking, FeedTypeOK
    <3>2. asked + Len(answers) + (IF stored THEN 1 ELSE 0) + sem = 0
      BY <3>1, OneAnswer DEF OneAnswer
    <3>3. answers' = answers /\ stored' = stored /\ sem' = sem
      BY <1>2 DEF Query
    <3> DEFINE rest == Len(answers) + (IF stored THEN 1 ELSE 0) + sem
    <3>4. rest' = rest /\ rest \in Nat
      BY <1>0, <3>3 DEF FeedTypeOK
    <3>5. asked = 0 /\ rest = 0
      BY <1>0, <3>2, <3>4 DEF FeedTypeOK
    <3>6. asked' + Len(answers') + (IF stored' THEN 1 ELSE 0) + sem' = 1
      BY <1>0, <2>1, <3>3, <3>5 DEF FeedTypeOK
    <3> QED BY <3>1, <3>6 DEF OneAnswer
  <2>3. OffersFit'
    BY <1>2, <2>1, OffersFit DEF Query, OffersFit, Asking, FeedTypeOK
  <2> QED BY <2>2, <2>3
<1>3. CASE QueryReturns
  <2>1. feeder' = [feeder EXCEPT !.at = "wait"] /\ feeder.at = "sent"
    BY <1>3 DEF QueryReturns, Trouble
  <2> QED
    BY <1>3, <2>1, OneAnswer, OffersFit
    DEF QueryReturns, OneAnswer, OffersFit, Asking, FeedTypeOK
<1>4. CASE GetToken
  <2>1. OneAnswer'
    BY <1>0, <1>4, OneAnswer DEF GetToken, OneAnswer, Asking, FeedTypeOK
  <2>2. OffersFit'
    BY <1>4, OffersFit DEF GetToken, OffersFit, Asking, FeedTypeOK
  <2> QED BY <2>1, <2>2
<1>5. CASE TimeOut
  <2>1. feeder.at = "wait" /\ AnswerComes
    BY <1>0, <1>5, OneAnswer DEF TimeOut, OneAnswer, AnswerComes, Asking, FeedTypeOK
  <2> QED BY <1>5, <2>1 DEF TimeOut, Trouble
<1>6. CASE ReadLen
  <2>1. OneAnswer'
    BY <1>6, OneAnswer DEF ReadLen, OneAnswer, Asking, FeedTypeOK
  <2>2. OffersFit'
    BY <1>0, <1>6, OneAnswer, OffersFit DEF ReadLen, OneAnswer, OffersFit, Asking, FeedTypeOK
  <2> QED BY <2>1, <2>2
<1>7. CASE Push
  <2>1. used' = used + PushLen /\ credit' = credit - PushLen
        /\ feeder'.at = "loop" /\ feeder.at \in {"loop", "push"}
    BY <1>7 DEF Push, Trouble
  <2>2. asked = 0 /\ answers = <<>> /\ ~stored /\ sem = 0
    BY <1>0, <2>1, OneAnswer DEF OneAnswer, Asking, FeedTypeOK
  <2>3. OneAnswer'
    BY <1>7, <2>1, <2>2 DEF Push, OneAnswer, Asking
  <2>4. OffersFit'
    BY <1>7, <2>1, <2>2, PushLenFits, OffersFit DEF Push, OffersFit, Asking, FeedTypeOK
  <2> QED BY <2>3, <2>4
<1>8. CASE FeedReturn
  BY <1>8, OneAnswer, OffersFit DEF FeedReturn, OneAnswer, OffersFit, Asking, FeedTypeOK
<1>9. CASE StoreLen
  <2>1. /\ Head(answers) = answers[1] /\ 1 \in DOMAIN answers
        /\ Len(Tail(answers)) = Len(answers) - 1
    BY <1>0, <1>9, HeadTailProperties DEF StoreLen, FeedTypeOK
  <2>2. OneAnswer'
    BY <1>0, <1>9, <2>1, OneAnswer DEF StoreLen, OneAnswer, Asking, FeedTypeOK
  <2>3. Len(answers) = 1 /\ sem = 0 /\ Asking
    BY <1>0, <1>9, <2>1, OneAnswer DEF StoreLen, OneAnswer, FeedTypeOK
  <2>4. Tail(answers) = <<>>
    BY <2>1, <2>3, HeadTailProperties, EmptySeq, <1>9 DEF StoreLen, FeedTypeOK
  <2>5. OffersFit'
    BY <1>9, <2>1, <2>3, <2>4, OffersFit DEF StoreLen, OffersFit, Asking, FeedTypeOK
  <2> QED BY <2>2, <2>5
<1>10. CASE SignalLen
  <2>1. OneAnswer'
    BY <1>0, <1>10, OneAnswer DEF SignalLen, OneAnswer, Asking, FeedTypeOK
  <2>2. OffersFit'
    BY <1>10, OffersFit DEF SignalLen, OffersFit, Asking, FeedTypeOK
  <2> QED BY <2>1, <2>2
<1>11. CASE Answer
  <2>1. /\ answers' = Append(answers, Room) /\ asked > 0 /\ asked' = asked - 1
    BY <1>11 DEF Answer, Trouble
  <2>2. answers = <<>> /\ asked = 1 /\ Asking /\ ~stored /\ sem = 0
    BY <1>0, <2>1, OneAnswer DEF OneAnswer, FeedTypeOK
  <2>3. answers' = <<Room>> /\ Len(answers') = 1 /\ DOMAIN answers' = {1} /\ answers'[1] = Room
    BY <2>1, <2>2
  <2>4. OneAnswer'
    BY <1>11, <2>1, <2>2, <2>3 DEF Answer, OneAnswer, Asking
  <2>5. Room + used <= ChipSize
    BY <2>2, OffersFit DEF Room, OffersFit, FeedTypeOK
  <2>6. OffersFit'
    BY <1>11, <2>2, <2>3, <2>5, OffersFit DEF Answer, OffersFit, Asking, FeedTypeOK
  <2> QED BY <2>4, <2>6
<1>12. CASE Play
  <2>1. used' \in Nat /\ used' <= used
    BY <1>12 DEF Play, FeedTypeOK
  <2>2. OneAnswer'
    BY <1>12, OneAnswer DEF Play, OneAnswer, Asking
  <2>3. OffersFit'
    BY <1>0, <1>12, <2>1, OffersFit DEF Play, OffersFit, Asking, FeedTypeOK
  <2> QED BY <2>2, <2>3
<1>13. ASSUME NEW i \in DOMAIN answers, LoseAnswer(i) PROVE FALSE
  BY <1>13 DEF LoseAnswer
<1> QED
  BY <1>1, <1>2, <1>3, <1>4, <1>5, <1>6, <1>7, <1>8, <1>9, <1>10, <1>11, <1>12, <1>13,
     FeedNext DEF FeedNext

\* Troubles are never forgotten.
LEMMA TroublesCount ==
  ASSUME FeedTypeOK, FeedNext, troubles' = 0 PROVE troubles = 0
BY DEF FeedTypeOK, FeedNext, FeedBegin, Query, QueryReturns, GetToken, TimeOut, ReadLen,
   Push, FeedReturn, StoreLen, SignalLen, Answer, Play, LoseAnswer, Trouble

LEMMA FeedKept ==
  ASSUME FeedIInv, [FeedNext]_feedVars PROVE FeedIInv'
<1>1. CASE FeedNext
  BY <1>1, FeedTypeKept, FeedOffersKept, TroublesCount DEF FeedIInv
<1>2. CASE UNCHANGED feedVars
  BY <1>2 DEF feedVars, FeedIInv, FeedTypeOK, OneAnswer, OffersFit, Asking
<1> QED BY <1>1, <1>2

-----------------------------------------------------------------------------
(* Counting in sequences                                                   *)

Positions(q, c) == {i \in DOMAIN q : q[i] = c}

LEMMA PositionsFinite ==
  ASSUME NEW S, NEW q \in Seq(S), NEW c
  PROVE  IsFiniteSet(Positions(q, c)) /\ Cardinality(Positions(q, c)) \in Nat
<1>1. DOMAIN q = 1..Len(q) /\ Len(q) \in Nat
  BY LenProperties
<1>2. IsFiniteSet(1..Len(q))
  BY <1>1, FS_Interval
<1>3. Positions(q, c) \in SUBSET (1..Len(q))
  BY <1>1 DEF Positions
<1>4. IsFiniteSet(Positions(q, c))
  BY <1>2, <1>3, FS_Subset
<1> QED BY <1>4, FS_CardinalityType

\* An appended element counts one more.
LEMMA CountAppend ==
  ASSUME NEW S, NEW q \in Seq(S), NEW d \in S, NEW c
  PROVE  Cardinality(Positions(Append(q, d), c))
           = Cardinality(Positions(q, c)) + One(d = c)
<1> DEFINE P == Positions(q, c)
           n == Len(q) + 1
<1>1. DOMAIN q = 1..Len(q) /\ Len(q) \in Nat
  BY LenProperties
<1>2. /\ DOMAIN Append(q, d) = 1..n
      /\ \A i \in 1..Len(q) : Append(q, d)[i] = q[i]
      /\ Append(q, d)[n] = d
  BY <1>1
<1>3. n \notin P /\ IsFiniteSet(P) /\ Cardinality(P) \in Nat
  <2>1. n \notin P
    BY <1>1 DEF Positions
  <2> QED BY <2>1, PositionsFinite
<1>4. CASE d = c
  <2>1. Positions(Append(q, d), c) = P \cup {n}
    BY <1>1, <1>2, <1>4 DEF Positions
  <2>2. Cardinality(P \cup {n}) = Cardinality(P) + 1
    BY <1>3, FS_AddElement
  <2> QED BY <2>1, <2>2, <1>4 DEF One
<1>5. CASE d # c
  <2>1. Positions(Append(q, d), c) = P
    BY <1>1, <1>2, <1>5 DEF Positions
  <2> QED BY <2>1, <1>3, <1>5 DEF One
<1> QED BY <1>4, <1>5

\* Without its head a sequence counts one less of it.
LEMMA CountTail ==
  ASSUME NEW S, NEW q \in Seq(S), q # <<>>, NEW c
  PROVE  Cardinality(Positions(Tail(q), c)) + One(Head(q) = c)
           = Cardinality(Positions(q, c))
<1> DEFINE P == Positions(q, c) \ {1}
           T == Positions(Tail(q), c)
           f == [i \in T |-> i + 1]
<1>1. /\ DOMAIN q = 1..Len(q) /\ Len(q) \in Nat
      /\ Head(q) = q[1] /\ 1 \in DOMAIN q
  BY LenProperties, EmptySeq
<1>2. /\ Tail(q) \in Seq(S) /\ Len(Tail(q)) = Len(q) - 1
      /\ \A i \in 1..Len(Tail(q)) : Tail(q)[i] = q[i + 1]
      /\ DOMAIN Tail(q) = 1..Len(Tail(q))
  BY HeadTailProperties, LenProperties
<1>3. f \in [T -> P]
  BY <1>1, <1>2 DEF Positions
<1>4. \A a, b \in T : f[a] = f[b] => a = b
  BY <1>2 DEF Positions
<1>5. \A p \in P : \E i \in T : f[i] = p
  <2> TAKE p \in P
  <2>1. p - 1 \in T
    BY <1>1, <1>2 DEF Positions
  <2>2. f[p - 1] = p
    BY <1>1, <2>1 DEF Positions
  <2> QED BY <2>1, <2>2
<1>6. IsFiniteSet(T) /\ Cardinality(T) \in Nat
  BY <1>2, PositionsFinite
<1>7. Cardinality(P) = Cardinality(T)
  <2> HIDE DEF f, P, T
  <2>1. f \in Bijection(T, P)
    BY <1>3, <1>4, <1>5, Fun_IsBij
  <2>2. ExistsBijection(T, P)
    BY <2>1, Fun_ExistsBij
  <2> QED BY <2>2, <1>6, FS_Bijection
<1>8. IsFiniteSet(Positions(q, c)) /\ Cardinality(Positions(q, c)) \in Nat
  BY PositionsFinite
<1>9. Cardinality(P) = IF 1 \in Positions(q, c) THEN Cardinality(Positions(q, c)) - 1
                                                ELSE Cardinality(Positions(q, c))
  BY <1>8, FS_RemoveElement
<1>10. 1 \in Positions(q, c) <=> Head(q) = c
  BY <1>1 DEF Positions
<1> QED BY <1>6, <1>7, <1>8, <1>9, <1>10 DEF One

-----------------------------------------------------------------------------
(* The filters and the workers: types and places                           *)

Count8 == 0..(CntMod - 1)

LEMMA CountBounds ==
  /\ CntMod \in Nat /\ MaxCached \in Nat \ {0} /\ MaxCached < CntMod
  /\ 0 \in Count8
  /\ \A n \in Count8 : (n + 1) % CntMod \in Count8 /\ (n + CntMod - 1) % CntMod \in Count8
BY CountsAssumption DEF Count8

LEMMA Commands ==
  /\ Rasr \subseteq Cmd /\ Adpcm \in Cmd \ Rasr /\ "none" \notin Cmd
  /\ \A c \in Cmd : ListOf(c) \in List
  /\ \A c \in Rasr \cup {Adpcm} : ListOf(c) = "event"
BY DEF Cmd, Rasr, Adpcm, List, ListOf, IsIotCmd, IsNonBlockCmd

Hand == [at : {"idle", "handle", "store", "call"}, cmd : Cmd \cup {"none"}, seen : Count8]
Recv == [at : {"idle", "filter", "load", "store", "mark", "alloc"},
         cmd : Cmd \cup {"none"}, seen : Count8]

LEMMA TypeUnfolded ==
  DispatchTypeOK <=>
    /\ adpcmCnt \in Count8 /\ rasrCnt \in [Rasr -> {0, 1}]
    /\ recv \in Recv /\ queue \in [List -> Seq(Cmd)] /\ hand \in [List -> Hand]
    /\ torn \in BOOLEAN /\ failed \in [Cmd -> Nat]
BY DEF DispatchTypeOK, Count8, Recv, Hand

LEMMA TypeUnfoldedNext ==
  DispatchTypeOK' <=>
    /\ adpcmCnt' \in Count8 /\ rasrCnt' \in [Rasr -> {0, 1}]
    /\ recv' \in Recv /\ queue' \in [List -> Seq(Cmd)] /\ hand' \in [List -> Hand]
    /\ torn' \in BOOLEAN /\ failed' \in [Cmd -> Nat]
BY DEF DispatchTypeOK, Count8, Recv, Hand

LEMMA HoldingType ==
  /\ Idle \in Hand /\ Idle \in Recv
  /\ \A c \in Cmd : Holding("handle", c) \in Hand
  /\ \A c \in Cmd : \A place \in {"filter", "load", "mark", "alloc"} : Holding(place, c) \in Recv
BY CountBounds DEF Idle, Holding, Hand, Recv

LEMMA DispatchStart ==
  ASSUME DispatchInit PROVE DispatchIInv
<1>1. DispatchTypeOK
  <2>1. <<>> \in Seq(Cmd)
    BY EmptySeq
  <2> QED BY <2>1, CountBounds, HoldingType, TypeUnfolded DEF DispatchInit
<1>2. PlacesInv
  BY DEF DispatchInit, PlacesInv, Idle
<1>3. RoomInv
  BY CountBounds DEF DispatchInit, RoomInv, Idle
<1>4. \A c \in Rasr \cup {Adpcm} : UnderWay(c) = 0 /\ failed[c] = 0
  <2> TAKE c \in Rasr \cup {Adpcm}
  <2>1. queue[ListOf(c)] = <<>> /\ hand[ListOf(c)].cmd = "none" /\ recv.at = "idle"
    BY Commands DEF DispatchInit, Idle, List
  <2>2. Waiting(c) = {}
    BY <2>1 DEF Waiting
  <2>3. Cardinality(Waiting(c)) = 0
    BY <2>2, FS_EmptySet
  <2>4. c # "none" /\ failed[c] = 0
    BY Commands DEF DispatchInit
  <2> QED BY <2>1, <2>3, <2>4 DEF UnderWay, Cached, One
<1>5. CountsMatchPackets
  BY <1>4 DEF DispatchInit, CountsMatchPackets
<1> QED BY <1>1, <1>2, <1>3, <1>5 DEF DispatchIInv

LEMMA DispatchTypeKept ==
  ASSUME DispatchTypeOK, PlacesInv, DispatchNext PROVE DispatchTypeOK'
<1> USE TypeUnfolded, TypeUnfoldedNext, DispatchTypeOK
<1>0. recv.cmd \in Cmd \cup {"none"} /\ (recv.at # "idle" => recv.cmd \in Cmd)
  BY DEF PlacesInv, Recv
<1>1. ASSUME NEW c \in Cmd, Receive(c) PROVE DispatchTypeOK'
  BY <1>1, HoldingType DEF Receive
<1>2. CASE Filter
  <2>1. recv' \in Recv
    BY <1>0, <1>2, HoldingType DEF Filter
  <2> QED BY <1>2, <2>1 DEF Filter
<1>3. CASE LoadUp
  <2>1. recv' \in Recv
    BY <1>3 DEF LoadUp, Recv
  <2> QED BY <1>3, <2>1 DEF LoadUp
<1>4. CASE StoreUp
  <2>1. recv.seen \in Count8
    BY DEF Recv
  <2>2. adpcmCnt' \in Count8
    BY <1>4, <2>1, CountBounds DEF StoreUp
  <2>3. recv' \in Recv
    BY <1>0, <1>4, HoldingType DEF StoreUp
  <2>4. torn' \in BOOLEAN
    BY <1>4 DEF StoreUp
  <2> QED BY <1>4, <2>2, <2>3, <2>4 DEF StoreUp
<1>5. CASE Mark
  <2>1. recv' \in Recv
    BY <1>0, <1>5, HoldingType DEF Mark
  <2>2. rasrCnt' \in [Rasr -> {0, 1}]
    BY <1>5 DEF Mark
  <2> QED BY <1>5, <2>1, <2>2 DEF Mark
<1>6. CASE Add
  <2>1. Append(queue[ListOf(recv.cmd)], recv.cmd) \in Seq(Cmd)
    BY <1>0, <1>6, Commands DEF Add
  <2>2. queue' \in [List -> Seq(Cmd)]
    BY <1>6, <2>1 DEF Add
  <2> QED BY <1>6, <2>2, HoldingType DEF Add
<1>7. CASE AllocFails
  <2>1. failed[recv.cmd] + 1 \in Nat
    BY <1>0, <1>7 DEF AllocFails
  <2>2. failed' \in [Cmd -> Nat]
    BY <1>7, <2>1 DEF AllocFails
  <2> QED BY <1>7, <2>2, HoldingType DEF AllocFails
<1>8. ASSUME NEW l \in List, Take(l) PROVE DispatchTypeOK'
  <2>1. Head(queue[l]) \in Cmd /\ Tail(queue[l]) \in Seq(Cmd)
    BY <1>8, HeadTailProperties DEF Take
  <2>2. queue' \in [List -> Seq(Cmd)]
    BY <1>8, <2>1 DEF Take
  <2>3. hand' \in [List -> Hand]
    BY <1>8, <2>1, HoldingType DEF Take
  <2> QED BY <1>8, <2>2, <2>3 DEF Take
<1>9. ASSUME NEW l \in List, ResetRasr(l) PROVE DispatchTypeOK'
  <2>1. rasrCnt' \in [Rasr -> {0, 1}]
    BY <1>9 DEF ResetRasr
  <2>2. hand' \in [List -> Hand]
    BY <1>9, HoldingType DEF ResetRasr
  <2> QED BY <1>9, <2>1, <2>2 DEF ResetRasr
<1>10. ASSUME NEW l \in List, LoadDown(l) PROVE DispatchTypeOK'
  <2>1. [hand[l] EXCEPT !.at = "store", !.seen = adpcmCnt] \in Hand
    BY DEF Hand
  <2>2. hand' \in [List -> Hand]
    BY <1>10, <2>1 DEF LoadDown
  <2> QED BY <1>10, <2>2 DEF LoadDown
<1>11. ASSUME NEW l \in List, StoreDown(l) PROVE DispatchTypeOK'
  <2>1. hand[l].seen \in Count8
    BY DEF Hand
  <2>2. adpcmCnt' \in Count8
    BY <1>11, <2>1, CountBounds DEF StoreDown
  <2>3. hand' \in [List -> Hand]
    BY <1>11, HoldingType DEF StoreDown
  <2>4. torn' \in BOOLEAN
    BY <1>11 DEF StoreDown
  <2> QED BY <1>11, <2>2, <2>3, <2>4 DEF StoreDown
<1>12. ASSUME NEW l \in List, Call(l) PROVE DispatchTypeOK'
  <2>1. [hand[l] EXCEPT !.at = "call"] \in Hand
    BY DEF Hand
  <2>2. hand' \in [List -> Hand]
    BY <1>12, <2>1 DEF Call
  <2> QED BY <1>12, <2>2 DEF Call
<1>13. ASSUME NEW l \in List, Return(l) PROVE DispatchTypeOK'
  <2>1. hand' \in [List -> Hand]
    BY <1>13, HoldingType DEF Return
  <2> QED BY <1>13, <2>1 DEF Return
<1> QED
  BY <1>1, <1>2, <1>3, <1>4, <1>5, <1>6, <1>7, <1>8, <1>9, <1>10, <1>11, <1>12, <1>13,
     DispatchNext DEF DispatchNext

\* What PlacesInv says of the protocol thread, and of one list.
RecvPlace ==
  /\ recv.at = "idle" <=> recv.cmd = "none"
  /\ recv.at \in {"load", "store"} => recv.cmd = Adpcm
  /\ recv.at = "mark" => recv.cmd \in Rasr /\ rasrCnt[recv.cmd] = 0
HandPlace(h, l) ==
  /\ h.at = "idle" <=> h.cmd = "none"
  /\ h.at = "store" => h.cmd = Adpcm
  /\ h.at = "call" => h.cmd \notin Rasr \cup {Adpcm}
  /\ h.cmd # "none" => ListOf(h.cmd) = l
QueuePlace(q, l) == \A i \in DOMAIN q : ListOf(q[i]) = l

LEMMA PlacesUnfolded ==
  PlacesInv <=> RecvPlace /\ \A l \in List : HandPlace(hand[l], l) /\ QueuePlace(queue[l], l)
BY DEF PlacesInv, RecvPlace, HandPlace, QueuePlace

LEMMA PlacesUnfoldedNext ==
  PlacesInv' <=> RecvPlace' /\ \A l \in List : HandPlace(hand'[l], l) /\ QueuePlace(queue'[l], l)
BY DEF PlacesInv, RecvPlace, HandPlace, QueuePlace

LEMMA PlacesKept ==
  ASSUME DispatchTypeOK, PlacesInv, DispatchNext PROVE PlacesInv'
<1> USE TypeUnfolded, PlacesUnfolded, PlacesUnfoldedNext, DispatchTypeOK, PlacesInv
<1>0. recv.cmd \in Cmd \cup {"none"} /\ (recv.at # "idle" => recv.cmd \in Cmd)
  BY DEF RecvPlace, Recv
<1>i. \A l \in List : HandPlace(Idle, l)
  BY DEF HandPlace, Idle
<1>1. ASSUME NEW c \in Cmd, Receive(c) PROVE PlacesInv'
  <2>1. RecvPlace'
    BY <1>1, Commands DEF Receive, RecvPlace, Holding
  <2> QED BY <1>1, <2>1 DEF Receive
<1>2. CASE Filter
  <2>1. CASE Skipped(recv.cmd)
    <3>1. RecvPlace'
      BY <1>2, <2>1 DEF Filter, RecvPlace, Idle
    <3> QED BY <1>2, <3>1 DEF Filter
  <2>2. CASE ~Skipped(recv.cmd)
    <3>1. recv.cmd \in Rasr => rasrCnt[recv.cmd] = 0
      BY <2>2 DEF Skipped
    <3>2. RecvPlace'
      BY <1>0, <1>2, <2>2, <3>1, Commands DEF Filter, RecvPlace, Holding
    <3> QED BY <1>2, <3>2 DEF Filter
  <2> QED BY <2>1, <2>2
<1>3. CASE LoadUp
  <2>1. RecvPlace'
    BY <1>3, Commands DEF LoadUp, RecvPlace, Recv
  <2> QED BY <1>3, <2>1 DEF LoadUp
<1>4. CASE StoreUp
  <2>1. RecvPlace'
    BY <1>0, <1>4, Commands DEF StoreUp, RecvPlace, Holding
  <2> QED BY <1>4, <2>1 DEF StoreUp
<1>5. CASE Mark
  <2>1. RecvPlace'
    BY <1>0, <1>5, Commands DEF Mark, RecvPlace, Holding
  <2> QED BY <1>5, <2>1 DEF Mark
<1>6. CASE Add
  <2>1. RecvPlace'
    BY <1>6 DEF Add, RecvPlace, Idle
  <2>2. QueuePlace(Append(queue[ListOf(recv.cmd)], recv.cmd), ListOf(recv.cmd))
    BY <1>0, <1>6, Commands DEF Add, QueuePlace
  <2>3. \A l \in List : QueuePlace(queue'[l], l)
    BY <1>6, <2>2 DEF Add
  <2> QED BY <1>6, <2>1, <2>3 DEF Add
<1>7. CASE AllocFails
  <2>1. RecvPlace'
    BY <1>7 DEF AllocFails, RecvPlace, Idle
  <2> QED BY <1>7, <2>1 DEF AllocFails
<1>8. ASSUME NEW l \in List, Take(l) PROVE PlacesInv'
  <2>1. /\ queue[l] \in Seq(Cmd) /\ queue[l] # <<>>
        /\ Head(queue[l]) = queue[l][1] /\ 1 \in DOMAIN queue[l]
    BY <1>8, EmptySeq, LenProperties DEF Take
  <2>2. Head(queue[l]) \in Cmd /\ ListOf(Head(queue[l])) = l
    BY <2>1, HeadTailProperties DEF QueuePlace
  <2>3. HandPlace(Holding("handle", Head(queue[l])), l)
    BY <2>2, Commands DEF HandPlace, Holding
  <2>4. QueuePlace(Tail(queue[l]), l)
    BY <2>1, HeadTailProperties, LenProperties DEF QueuePlace
  <2>5. /\ \A k \in List : HandPlace(hand'[k], k)
        /\ \A k \in List : QueuePlace(queue'[k], k)
    BY <1>8, <2>3, <2>4 DEF Take
  <2>6. RecvPlace'
    BY <1>8 DEF Take, RecvPlace
  <2> QED BY <2>5, <2>6
<1>9. ASSUME NEW l \in List, ResetRasr(l) PROVE PlacesInv'
  <2>1. RecvPlace'
    BY <1>9 DEF ResetRasr, RecvPlace
  <2>2. \A k \in List : HandPlace(hand'[k], k)
    BY <1>i, <1>9 DEF ResetRasr
  <2> QED BY <1>9, <2>1, <2>2 DEF ResetRasr
<1>10. ASSUME NEW l \in List, LoadDown(l) PROVE PlacesInv'
  <2>1. HandPlace([hand[l] EXCEPT !.at = "store", !.seen = adpcmCnt], l)
    BY <1>10, Commands DEF LoadDown, HandPlace, Hand
  <2>2. \A k \in List : HandPlace(hand'[k], k)
    BY <1>10, <2>1 DEF LoadDown
  <2>3. RecvPlace'
    BY <1>10 DEF LoadDown, RecvPlace
  <2> QED BY <1>10, <2>2, <2>3 DEF LoadDown
<1>11. ASSUME NEW l \in List, StoreDown(l) PROVE PlacesInv'
  <2>1. \A k \in List : HandPlace(hand'[k], k)
    BY <1>i, <1>11 DEF StoreDown
  <2>2. RecvPlace'
    BY <1>11 DEF StoreDown, RecvPlace
  <2> QED BY <1>11, <2>1, <2>2 DEF StoreDown
<1>12. ASSUME NEW l \in List, Call(l) PROVE PlacesInv'
  <2>1. HandPlace([hand[l] EXCEPT !.at = "call"], l)
    BY <1>12 DEF Call, HandPlace, Hand
  <2>2. \A k \in List : HandPlace(hand'[k], k)
    BY <1>12, <2>1 DEF Call
  <2>3. RecvPlace'
    BY <1>12 DEF Call, RecvPlace
  <2> QED BY <1>12, <2>2, <2>3 DEF Call
<1>13. ASSUME NEW l \in List, Return(l) PROVE PlacesInv'
  <2>1. \A k \in List : HandPlace(hand'[k], k)
    BY <1>i, <1>13 DEF Return
  <2>2. RecvPlace'
    BY <1>13 DEF Return, RecvPlace
  <2> QED BY <1>13, <2>1, <2>2 DEF Return
<1> QED
  BY <1>1, <1>2, <1>3, <1>4, <1>5, <1>6, <1>7, <1>8, <1>9, <1>10, <1>11, <1>12, <1>13,
     DispatchNext DEF DispatchNext

-----------------------------------------------------------------------------
(* The counts                                                              *)

Counted == Rasr \cup {Adpcm}

\* What a counter of command c stands for.
Claimed(c) == UnderWay(c) + failed[c]

Total(q, h, r, c) ==
  Cardinality(Positions(q, c)) + One(h.cmd = c) + One(r.at = "alloc" /\ r.cmd = c)

LEMMA ClaimedUnfolded ==
  ASSUME DispatchTypeOK, NEW c \in Counted
  PROVE  /\ Claimed(c) = Total(queue["event"], hand["event"], recv, c) + failed[c]
         /\ Total(queue["event"], hand["event"], recv, c) \in Nat
         /\ Cardinality(Positions(queue["event"], c)) \in Nat
         /\ failed[c] \in Nat /\ Claimed(c) \in Nat
<1>1. ListOf(c) = "event" /\ "event" \in List /\ c \in Cmd
  BY Commands DEF Counted, List
<1>2. Cardinality(Positions(queue["event"], c)) \in Nat
  BY <1>1, TypeUnfolded, PositionsFinite
<1>3. UnderWay(c) = Total(queue["event"], hand["event"], recv, c)
  BY <1>1 DEF UnderWay, Cached, Waiting, Positions, Total
<1>4. Total(queue["event"], hand["event"], recv, c) \in Nat
  BY <1>2 DEF Total, One
<1>5. failed[c] \in Nat
  BY <1>1, TypeUnfolded
<1> QED BY <1>2, <1>3, <1>4, <1>5 DEF Claimed

LEMMA ClaimedUnfoldedNext ==
  ASSUME DispatchTypeOK', NEW c \in Counted
  PROVE  /\ Claimed(c)' = Total(queue'["event"], hand'["event"], recv', c) + failed'[c]
         /\ Total(queue'["event"], hand'["event"], recv', c) \in Nat
         /\ Claimed(c)' \in Nat
<1>1. ListOf(c) = "event" /\ "event" \in List /\ c \in Cmd
  BY Commands DEF Counted, List
<1>2. Cardinality(Positions(queue'["event"], c)) \in Nat
  BY <1>1, TypeUnfoldedNext, PositionsFinite
<1>3. UnderWay(c)' = Total(queue'["event"], hand'["event"], recv', c)
  BY <1>1 DEF UnderWay, Cached, Waiting, Positions, Total
<1>4. Total(queue'["event"], hand'["event"], recv', c) \in Nat
  BY <1>2 DEF Total, One
<1>5. failed'[c] \in Nat
  BY <1>1, TypeUnfoldedNext
<1> QED BY <1>3, <1>4, <1>5 DEF Claimed

\* A step of the protocol thread before or after it counts changes no claim;
\* the packet passes from its hands to the list, or is lost for ever.
LEMMA ProtocolThreadClaims ==
  ASSUME DispatchTypeOK, DispatchTypeOK', PlacesInv,
         \/ \E d \in Cmd : Receive(d)
         \/ Filter \/ LoadUp \/ Add \/ AllocFails,
         NEW c \in Counted
  PROVE  Claimed(c)' = Claimed(c)
<1> USE ClaimedUnfolded, ClaimedUnfoldedNext
<1>0. c \in Cmd /\ c # "none" /\ ListOf(c) = "event" /\ "event" \in List
  BY Commands DEF Counted, List
<1>1. ASSUME NEW d \in Cmd, Receive(d) PROVE Claimed(c)' = Claimed(c)
  BY <1>1 DEF Receive, Holding, Total, One
<1>2. CASE Filter
  BY <1>0, <1>2 DEF Filter, Holding, Idle, Total, One, Counted
<1>3. CASE LoadUp
  BY <1>3 DEF LoadUp, Total, One
<1>4. CASE Add
  <2>1. recv.cmd \in Cmd /\ recv.at = "alloc" /\ recv' = Idle /\ hand' = hand /\ failed' = failed
    BY <1>4, TypeUnfolded DEF Add, PlacesInv, Recv
  <2>2. CASE ListOf(recv.cmd) = "event"
    <3>1. queue'["event"] = Append(queue["event"], recv.cmd) /\ queue["event"] \in Seq(Cmd)
      BY <1>0, <1>4, <2>2, TypeUnfolded DEF Add
    <3>2. Cardinality(Positions(queue'["event"], c))
            = Cardinality(Positions(queue["event"], c)) + One(recv.cmd = c)
      BY <2>1, <3>1, CountAppend
    <3> QED BY <2>1, <3>2 DEF Total, One, Idle
  <2>3. CASE ListOf(recv.cmd) # "event"
    <3>1. queue'["event"] = queue["event"] /\ recv.cmd # c
      BY <1>0, <1>4, <2>3, TypeUnfolded DEF Add
    <3> QED BY <2>1, <3>1 DEF Total, One, Idle
  <2> QED BY <2>2, <2>3
<1>5. CASE AllocFails
  <2>1. recv.cmd \in Cmd /\ recv.at = "alloc" /\ recv' = Idle
        /\ hand' = hand /\ queue' = queue
    BY <1>5, TypeUnfolded DEF AllocFails, PlacesInv, Recv
  <2>2. failed'[c] = failed[c] + One(recv.cmd = c)
    BY <1>0, <1>5, TypeUnfolded DEF AllocFails, One
  <2> QED BY <2>1, <2>2 DEF Total, One, Idle
<1> QED BY <1>1, <1>2, <1>3, <1>4, <1>5

\* Nor does a worker that takes a packet, or handles one that is not counted.
LEMMA WorkerClaims ==
  ASSUME DispatchTypeOK, DispatchTypeOK', PlacesInv, NEW l \in List,
         Take(l) \/ LoadDown(l) \/ Call(l) \/ Return(l),
         NEW c \in Counted
  PROVE  Claimed(c)' = Claimed(c)
<1> USE ClaimedUnfolded, ClaimedUnfoldedNext
<1>0. c \in Cmd /\ c # "none" /\ ListOf(c) = "event" /\ "event" \in List
  BY Commands DEF Counted, List
<1>1. CASE Take(l)
  <2>1. failed' = failed /\ recv' = recv
    BY <1>1 DEF Take
  <2>2. CASE l = "event"
    <3>1. /\ queue["event"] \in Seq(Cmd) /\ queue["event"] # <<>>
          /\ queue'["event"] = Tail(queue["event"])
          /\ hand["event"].cmd = "none"
          /\ hand'["event"].cmd = Head(queue["event"])
      BY <1>0, <1>1, <2>2, TypeUnfolded DEF Take, Holding, PlacesInv
    <3>2. Cardinality(Positions(queue'["event"], c)) + One(Head(queue["event"]) = c)
            = Cardinality(Positions(queue["event"], c))
      BY <3>1, CountTail
    <3>3. Cardinality(Positions(queue'["event"], c)) \in Nat
      BY <1>0, TypeUnfoldedNext, PositionsFinite
    <3> QED BY <1>0, <2>1, <3>1, <3>2, <3>3 DEF Total, One
  <2>3. CASE l # "event"
    <3>1. queue'["event"] = queue["event"] /\ hand'["event"] = hand["event"]
      BY <1>0, <1>1, <2>3, TypeUnfolded DEF Take
    <3> QED BY <2>1, <3>1
  <2> QED BY <2>2, <2>3
<1>2. CASE LoadDown(l)
  <2>1. hand'["event"].cmd = hand["event"].cmd
    BY <1>0, <1>2, TypeUnfolded DEF LoadDown, Hand
  <2> QED BY <1>2, <2>1 DEF LoadDown, Total
<1>3. CASE Call(l)
  <2>1. hand'["event"].cmd = hand["event"].cmd
    BY <1>0, <1>3, TypeUnfolded DEF Call, Hand
  <2> QED BY <1>3, <2>1 DEF Call, Total
<1>4. CASE Return(l)
  <2>1. hand[l].cmd # c /\ Idle.cmd # c
    BY <1>0, <1>4 DEF Return, PlacesInv, Counted, Idle
  <2>2. hand'["event"].cmd = c <=> hand["event"].cmd = c
    BY <1>0, <1>4, <2>1, TypeUnfolded DEF Return
  <2> QED BY <1>4, <2>2 DEF Return, Total, One
<1> QED BY <1>1, <1>2, <1>3, <1>4

\* Counting up and down claims and gives back one.
LEMMA StoreUpClaims ==
  ASSUME DispatchTypeOK, DispatchTypeOK', PlacesInv, StoreUp, NEW c \in Counted
  PROVE  Claimed(c)' = Claimed(c) + One(c = Adpcm)
<1>1. recv.cmd = Adpcm /\ recv.at = "store" /\ recv' = Holding("alloc", Adpcm)
  BY DEF StoreUp, PlacesInv
<1> QED BY <1>1, ClaimedUnfolded, ClaimedUnfoldedNext DEF StoreUp, Holding, Total, One

LEMMA MarkClaims ==
  ASSUME DispatchTypeOK, DispatchTypeOK', PlacesInv, Mark, NEW c \in Counted
  PROVE  Claimed(c)' = Claimed(c) + One(c = recv.cmd)
BY ClaimedUnfolded, ClaimedUnfoldedNext DEF Mark, Holding, Total, One

LEMMA DoneClaims ==
  ASSUME DispatchTypeOK, DispatchTypeOK', PlacesInv, NEW l \in List,
         ResetRasr(l) \/ StoreDown(l), NEW c \in Counted
  PROVE  /\ Claimed(c)' + One(c = hand[l].cmd) = Claimed(c)
         /\ hand[l].cmd \in Counted
<1>1. hand[l].cmd \in Counted /\ hand' = [hand EXCEPT ![l] = Idle]
      /\ recv' = recv /\ queue' = queue /\ failed' = failed
  BY DEF ResetRasr, StoreDown, PlacesInv, Counted
<1>2. l = "event"
  BY <1>1, Commands DEF PlacesInv, Counted
<1>3. hand'["event"].cmd = "none" /\ c # "none"
  BY <1>1, <1>2, Commands, TypeUnfolded DEF Idle, Counted
<1>4. Total(queue'["event"], hand'["event"], recv', c) + One(c = hand[l].cmd)
        = Total(queue["event"], hand["event"], recv, c)
  BY <1>1, <1>2, <1>3, ClaimedUnfolded DEF Total, One
<1>5. One(c = hand[l].cmd) \in Nat
  BY DEF One
<1> QED BY <1>1, <1>4, <1>5, ClaimedUnfolded, ClaimedUnfoldedNext

LEMMA CountsUnfolded ==
  CountsMatchPackets <=> /\ \A c \in Rasr : rasrCnt[c] = Claimed(c)
                         /\ ~torn => adpcmCnt = Claimed(Adpcm)
BY DEF CountsMatchPackets, Claimed

LEMMA CountsUnfoldedNext ==
  CountsMatchPackets' <=> /\ \A c \in Rasr : rasrCnt'[c] = Claimed(c)'
                          /\ ~torn' => adpcmCnt' = Claimed(Adpcm)'
BY DEF CountsMatchPackets, Claimed

\* The counters change as the claims do, unless the thread has stored the
\* successor of a count that is no longer the one it loaded.
LEMMA CountsKept ==
  ASSUME DispatchIInv, DispatchTypeOK', PlacesInv', DispatchNext
  PROVE  CountsMatchPackets' /\ RoomInv'
<1> USE DispatchIInv DEF DispatchIInv
<1> USE CountsUnfolded, CountsUnfoldedNext
<1>0. Rasr \subseteq Counted /\ Adpcm \in Counted /\ Adpcm \notin Rasr
  BY Commands DEF Counted
<1>1. CASE (\E d \in Cmd : Receive(d)) \/ Filter \/ LoadUp \/ Add \/ AllocFails
  <2>1. \A c \in Counted : Claimed(c)' = Claimed(c)
    BY <1>1, ProtocolThreadClaims
  <2>2. adpcmCnt' = adpcmCnt /\ rasrCnt' = rasrCnt /\ torn' = torn
    BY <1>1 DEF Receive, Filter, LoadUp, Add, AllocFails
  <2>3. recv'.at \in {"load", "store"} =>
          recv.at \in {"load", "store"} \/ adpcmCnt < MaxCached
    <3>1. CASE Filter
      <4>1. adpcmCnt \in Nat
        BY CountBounds, TypeUnfolded DEF Count8
      <4> QED BY <3>1, <4>1, CountBounds DEF Filter, Skipped, Holding, Idle
    <3>2. CASE (\E d \in Cmd : Receive(d)) \/ LoadUp \/ Add \/ AllocFails
      BY <3>2 DEF Receive, LoadUp, Add, AllocFails, Holding, Idle
    <3> QED BY <1>1, <3>1, <3>2
  <2>4. RoomInv'
    BY <2>2, <2>3 DEF RoomInv
  <2> QED BY <1>0, <2>1, <2>2, <2>4
<1>2. CASE StoreUp
  <2>1. \A c \in Counted : Claimed(c)' = Claimed(c) + One(c = Adpcm)
    BY <1>2, StoreUpClaims
  <2>2. \A c \in Rasr : rasrCnt'[c] = Claimed(c)'
    BY <1>0, <1>2, <2>1, ClaimedUnfolded DEF StoreUp, One
  <2>3. ASSUME ~torn' PROVE adpcmCnt' = Claimed(Adpcm)'
    <3>1. ~torn /\ adpcmCnt = recv.seen /\ adpcmCnt < MaxCached
      BY <1>2, <2>3, Zenon DEF StoreUp, RoomInv
    <3>2. adpcmCnt' = (adpcmCnt + 1) % CntMod
      BY <1>2, <3>1 DEF StoreUp
    <3>3. adpcmCnt \in Nat /\ adpcmCnt + 1 \in 0..(CntMod - 1)
      BY <3>1, CountBounds, TypeUnfolded DEF Count8
    <3>4. adpcmCnt' = adpcmCnt + 1
      BY <3>2, <3>3, CountBounds
    <3>5. Claimed(Adpcm)' = Claimed(Adpcm) + 1
      BY <1>0, <2>1 DEF One
    <3> QED BY <3>1, <3>4, <3>5
  <2>4. RoomInv'
    BY <1>2 DEF StoreUp, RoomInv, Holding
  <2> QED BY <2>2, <2>3, <2>4
<1>3. CASE Mark
  <2>1. recv.cmd \in Rasr /\ rasrCnt[recv.cmd] = 0
    BY <1>3 DEF Mark, PlacesInv
  <2>2. \A c \in Counted : Claimed(c)' = Claimed(c) + One(c = recv.cmd)
    BY <1>3, MarkClaims
  <2>3. \A c \in Rasr : rasrCnt'[c] = Claimed(c)'
    BY <1>0, <1>3, <2>1, <2>2, ClaimedUnfolded, TypeUnfolded DEF Mark, One
  <2>4. Claimed(Adpcm)' = Claimed(Adpcm)
    BY <1>0, <2>1, <2>2, ClaimedUnfolded DEF One
  <2>5. RoomInv'
    BY <1>3 DEF Mark, RoomInv, Holding
  <2> QED BY <1>3, <2>3, <2>4, <2>5 DEF Mark
<1>4. ASSUME NEW l \in List, Take(l) \/ LoadDown(l) \/ Call(l) \/ Return(l)
      PROVE  CountsMatchPackets' /\ RoomInv'
  <2>1. \A c \in Counted : Claimed(c)' = Claimed(c)
    BY <1>4, WorkerClaims
  <2>2. adpcmCnt' = adpcmCnt /\ rasrCnt' = rasrCnt /\ torn' = torn /\ recv' = recv
    BY <1>4 DEF Take, LoadDown, Call, Return
  <2>3. RoomInv'
    BY <2>2 DEF RoomInv
  <2> QED BY <1>0, <2>1, <2>2, <2>3
<1>5. ASSUME NEW l \in List, ResetRasr(l) PROVE CountsMatchPackets' /\ RoomInv'
  <2>1. hand[l].cmd \in Rasr /\ rasrCnt' = [rasrCnt EXCEPT ![hand[l].cmd] = 0]
        /\ adpcmCnt' = adpcmCnt /\ torn' = torn /\ recv' = recv
    BY <1>5 DEF ResetRasr
  <2>2. \A c \in Counted : Claimed(c)' + One(c = hand[l].cmd) = Claimed(c)
    BY <1>5, DoneClaims
  <2>3. \A c \in Counted : Claimed(c)' \in Nat
    BY ClaimedUnfoldedNext
  <2>4. ASSUME NEW c \in Rasr PROVE rasrCnt'[c] = Claimed(c)'
    <3>1. rasrCnt[c] \in {0, 1} /\ rasrCnt[c] = Claimed(c)
          /\ Claimed(c)' \in Nat /\ Claimed(c)' + One(c = hand[l].cmd) = Claimed(c)
      BY <1>0, <2>2, <2>3, TypeUnfolded
    <3>2. CASE c = hand[l].cmd
      <4>1. Claimed(c)' = 0
        BY <3>1, <3>2 DEF One
      <4> QED BY <2>1, <3>2, <4>1, TypeUnfolded
    <3>3. CASE c # hand[l].cmd
      <4>1. Claimed(c)' = Claimed(c)
        BY <3>1, <3>3 DEF One
      <4> QED BY <2>1, <3>1, <3>3, <4>1, TypeUnfolded
    <3> QED BY <3>2, <3>3
  <2>5. Claimed(Adpcm)' = Claimed(Adpcm)
    BY <1>0, <2>1, <2>2, <2>3 DEF One
  <2>6. RoomInv'
    BY <2>1 DEF RoomInv
  <2> QED BY <2>1, <2>4, <2>5, <2>6
<1>6. ASSUME NEW l \in List, StoreDown(l) PROVE CountsMatchPackets' /\ RoomInv'
  <2>1. hand[l].cmd = Adpcm /\ rasrCnt' = rasrCnt /\ recv' = recv
    BY <1>6 DEF StoreDown, PlacesInv
  <2>2. \A c \in Counted : Claimed(c)' + One(c = Adpcm) = Claimed(c)
    BY <1>6, <2>1, DoneClaims
  <2>3. \A c \in Counted : Claimed(c)' \in Nat
    BY ClaimedUnfoldedNext
  <2>4. \A c \in Rasr : rasrCnt'[c] = Claimed(c)'
    BY <1>0, <2>1, <2>2, <2>3 DEF One
  <2>5. ASSUME ~torn' PROVE adpcmCnt' = Claimed(Adpcm)' /\ adpcmCnt' < adpcmCnt /\ ~torn
    <3>1. ~torn /\ adpcmCnt = hand[l].seen
      BY <1>6, <2>5, Zenon DEF StoreDown
    <3>2. adpcmCnt' = (adpcmCnt + CntMod - 1) % CntMod
      BY <1>6, <3>1 DEF StoreDown
    <3>3. Claimed(Adpcm)' \in Nat /\ Claimed(Adpcm)' + 1 = Claimed(Adpcm)
          /\ adpcmCnt = Claimed(Adpcm)
      BY <1>0, <2>2, <2>3, <3>1 DEF One
    <3>4. adpcmCnt \in 1..(CntMod - 1) /\ CntMod \in Nat \ {0}
      BY <3>3, CountBounds, TypeUnfolded DEF Count8
    <3>5. (adpcmCnt + CntMod - 1) % CntMod = adpcmCnt - 1
      BY <3>4
    <3> QED BY <3>1, <3>2, <3>3, <3>4, <3>5
  <2>6. RoomInv'
    <3>1. adpcmCnt \in Nat /\ adpcmCnt' \in Nat /\ MaxCached \in Nat
      BY CountBounds, TypeUnfolded, TypeUnfoldedNext DEF Count8
    <3> QED BY <2>1, <2>5, <3>1 DEF RoomInv
  <2> QED BY <2>4, <2>5, <2>6
<1> QED
  BY <1>1, <1>2, <1>3, <1>4, <1>5, <1>6, DispatchNext DEF DispatchNext

LEMMA DispatchKept ==
  ASSUME DispatchIInv, [DispatchNext]_dispatchVars PROVE DispatchIInv'
<1>1. CASE DispatchNext
  BY <1>1, DispatchTypeKept, PlacesKept, CountsKept DEF DispatchIInv
<1>2. CASE UNCHANGED dispatchVars
  BY <1>2 DEF dispatchVars, DispatchIInv, DispatchTypeOK, PlacesInv, RoomInv,
     CountsMatchPackets, UnderWay, Cached, Waiting, One
<1> QED BY <1>1, <1>2

-----------------------------------------------------------------------------
(* The composition                                                         *)

LEMMA Parts ==
  ASSUME [Next]_vars PROVE [DispatchNext]_dispatchVars /\ [FeedNext]_feedVars
<1> USE DEF List, Cmd
<1>1. ASSUME NEW c \in Offered, ArriveOf(c)
      PROVE  [DispatchNext]_dispatchVars /\ [FeedNext]_feedVars
  BY <1>1, BoundsAssumption DEF ArriveOf, DispatchNext
<1>2. CASE ArriveAnswer
  BY <1>2 DEF ArriveAnswer, DispatchNext, LenAck
<1>3. CASE ProtocolThread
  <2>1. CASE NoMemory
    BY <2>1 DEF NoMemory, DispatchNext, FeedNext, LoseAnswer
  <2>2. CASE ~NoMemory
    BY <1>3, <2>2 DEF ProtocolThread, DispatchNext
  <2> QED BY <2>1, <2>2
<1>4. ASSUME NEW l \in List, Worker(l)
      PROVE  [DispatchNext]_dispatchVars /\ [FeedNext]_feedVars
  <2>1. CASE Count(l)
    BY <2>1 DEF Count, DispatchNext
  <2>2. CASE LenAckBegin(l)
    BY <2>2 DEF LenAckBegin, DispatchNext, FeedNext
  <2>3. CASE LenAckEnd(l)
    BY <2>3 DEF LenAckEnd, DispatchNext, FeedNext
  <2>4. CASE Callback(l) \/ CallbackEnd(l) \/ Challenge(l) \/ ChallengeEnd(l)
    BY <2>4 DEF Callback, CallbackEnd, Challenge, ChallengeEnd, DispatchNext
  <2>5. CASE CallbackFeeds(l)
    <3>1. \E len \in Nat \ {0} : FeedBegin(len)
      BY <2>5, BoundsAssumption DEF CallbackFeeds
    <3> QED BY <2>5, <3>1 DEF CallbackFeeds, FeedNext
  <2>6. CASE FeedRuns(l)
    BY <2>6 DEF FeedRuns, FeedNext
  <2> QED BY <1>4, <2>1, <2>2, <2>3, <2>4, <2>5, <2>6 DEF Worker
<1>5. CASE ChipAnswers \/ ChipPlays
  BY <1>5 DEF ChipAnswers, ChipPlays, FeedNext
<1>6. CASE Finished \/ UNCHANGED vars
  BY <1>6 DEF Finished, vars
<1> QED BY <1>1, <1>2, <1>3, <1>4, <1>5, <1>6 DEF Next

\* The channel is a behaviour of the filters and workers and, at the same
\* time, one of the audio feed.
THEOREM Composition == Spec => DispatchSpec /\ FeedSpec
<1>1. Init => DispatchInit /\ FeedInit
  BY DEF Init
<1>2. [Next]_vars => [DispatchNext]_dispatchVars /\ [FeedNext]_feedVars
  BY Parts
<1> QED BY <1>1, <1>2, PTL DEF Spec, DispatchSpec, FeedSpec

\* Every part keeps its invariant: packets are where their commands lead them,
\* counts stand for packets, and what the chip has offered fits its buffer.
THEOREM Invariant == Spec => []IInv
<1>1. Init => IInv
  BY DispatchStart, FeedStart DEF Init, IInv
<1>2. IInv /\ [Next]_vars => IInv'
  BY Parts, DispatchKept, FeedKept DEF IInv
<1> QED BY <1>1, <1>2, PTL DEF Spec

\* The flags of START and STOP, and the ADPCM count as long as no store has
\* undone one of the other thread, stand exactly for the packets under way.
THEOREM CountsAreRight == Spec => []CountsMatchPackets
<1>1. IInv => CountsMatchPackets
  BY DEF IInv, DispatchIInv
<1> QED BY <1>1, Invariant, PTL

\* Without a failed send or a late answer the chip's buffer is never overrun.
THEOREM CreditIsSafe == Spec => []NoOverrun
<1>1. IInv => NoOverrun
  BY FeedAssumption DEF IInv, FeedIInv, FeedTypeOK, OffersFit, NoOverrun
<1> QED BY <1>1, Invariant, PTL
=============================================================================
