--------------------------- MODULE KnowledgeProofs ---------------------------
(***************************************************************************)
(* Proofs about Knowledge and its gateway, for any uploads, documents,     *)
(* callers, providers, keys and retries.                                   *)
(***************************************************************************)
EXTENDS Knowledge, FiniteLemmas

\* How many rotations of the keys have gone by since k was in use.
Ago(c, k) == IF k <= ApiKey(c) THEN ApiKey(c) - k ELSE ApiKey(c) + Keys[Provider(c)] - k

\* The loops of _call_api, read off the history of one completion, which may
\* have begun with any key: the keys counted are those in use before the one
\* that is, each tried to the end, and the others were not tried yet.
Progress(c) ==
    /\ call[c].nth \in DOMAIN Chain[c] /\ call[c].keysTried \in 0 .. Keys[Provider(c)] - 1
    /\ call[c].attempt \in 0 .. MaxRetries
    /\ Len(logged[c]) = call[c].nth - 1
    /\ tries[c][call[c].nth][ApiKey(c)] = call[c].attempt
    /\ \A k \in 1 .. Keys[Provider(c)] \ {ApiKey(c)} :
        tries[c][call[c].nth][k] = IF Ago(c, k) <= call[c].keysTried THEN MaxRetries + 1 ELSE 0
    /\ \A n \in DOMAIN Chain[c] : n > call[c].nth => \A k \in KeyIds : tries[c][n][k] = 0

CallType ==
    [state : {"idle", "asking", "answered", "raised"}, nth : Nat, attempt : Nat, keysTried : Nat]

CallInv(c) ==
    /\ Len(logged[c]) <= Len(Chain[c])
    /\ call[c].state = "idle" => call[c] = NoCall /\ tries[c] = Fresh(c) /\ logged[c] = << >>
    /\ call[c].state = "asking" => Progress(c)
    /\ call[c].state \in {"answered", "raised"} => Len(logged[c]) = call[c].nth
    /\ call[c].state = "answered" =>
        /\ call[c].nth > 0 /\ logged[c][call[c].nth] = "ok" /\ lastUsed[c] = Provider(c)
    /\ \A n \in DOMAIN logged[c] : logged[c][n] = "limited" =>
        \A k \in 1 .. Keys[Chain[c][n]] : tries[c][n][k] = MaxRetries + 1

KeysInUse(c) ==
    /\ keyInUse[c] \in [DOMAIN Chain[c] -> Nat]
    /\ \A n \in DOMAIN Chain[c] : keyInUse[c][n] \in 1 .. Keys[Chain[c][n]]

CallTypes ==
    /\ call \in [Callers -> CallType]
    /\ DOMAIN keyInUse = Callers /\ \A c \in Callers : KeysInUse(c)
    /\ DOMAIN tries = Callers
    /\ \A c \in Callers : tries[c] \in [DOMAIN Chain[c] -> [KeyIds -> Nat]]
    /\ logged \in [Callers -> Seq({"ok", "limited", "refused"})]
    /\ DOMAIN lastUsed = Callers

GatewayInv == CallTypes /\ \A c \in Callers : CallInv(c)

LEMMA KeysAreKeyIds ==
    ASSUME NEW c \in Callers, NEW n \in DOMAIN Chain[c]
    PROVE /\ Keys[Chain[c][n]] \in Nat \ {0}
          /\ \A k \in 1 .. Keys[Chain[c][n]] : k \in KeyIds
BY GatewayAssumption DEF KeyIds

LEMMA KeyIdsNat == KeyIds \subseteq Nat \ {0}
<1> SUFFICES ASSUME NEW p \in DOMAIN Keys, NEW k \in 1 .. Keys[p] PROVE k \in Nat \ {0}
  BY DEF KeyIds
<1> QED
  BY GatewayAssumption

\* Nothing happens to a caller whose rows do not change.
LEMMA CallFrame ==
    ASSUME NEW d \in Callers, CallInv(d), call'[d] = call[d], keyInUse'[d] = keyInUse[d],
           tries'[d] = tries[d], logged'[d] = logged[d], lastUsed'[d] = lastUsed[d]
    PROVE CallInv(d)'
BY DEF CallInv, Progress, Provider, ApiKey, Ago

LEMMA KeyInUse ==
    ASSUME GatewayInv, NEW c \in Callers, call[c].nth \in DOMAIN Chain[c]
    PROVE /\ ApiKey(c) \in 1 .. Keys[Provider(c)] /\ ApiKey(c) \in KeyIds
          /\ Keys[Provider(c)] \in Nat \ {0}
<1>1. ApiKey(c) \in 1 .. Keys[Provider(c)]
  BY DEF GatewayInv, CallTypes, KeysInUse, ApiKey, Provider
<1> QED
  BY <1>1, KeysAreKeyIds DEF Provider

\* A key is rotated to the next, and the last to the first; the keys of the
\* other providers and of other clients stay.
LEMMA KeysMoved ==
    ASSUME GatewayInv, NEW c \in Callers, call[c].nth \in DOMAIN Chain[c],
           UNCHANGED keyInUse \/ Rotated(c)
    PROVE /\ DOMAIN keyInUse' = Callers /\ \A d \in Callers : KeysInUse(d)'
          /\ \A d \in Callers \ {c} : keyInUse'[d] = keyInUse[d]
<1>1. ApiKey(c) \in 1 .. Keys[Provider(c)] /\ Keys[Provider(c)] \in Nat \ {0}
  BY KeyInUse
<1>2. \A k \in Nat, w \in Nat \ {0} : (k % w) + 1 \in 1 .. w
  OBVIOUS
<1>3. NextKey(c) \in 1 .. Keys[Provider(c)]
  BY <1>1, <1>2 DEF NextKey
<1>4. CASE Rotated(c)
  <2>1. keyInUse' = [keyInUse EXCEPT ![c] = [keyInUse[c] EXCEPT ![call[c].nth] = NextKey(c)]]
    BY <1>4 DEF Rotated
  <2>2. DOMAIN keyInUse = Callers /\ \A d \in Callers : KeysInUse(d)
    BY DEF GatewayInv, CallTypes
  <2>3. KeysInUse(c)'
    BY <1>3, <2>1, <2>2 DEF KeysInUse, Provider
  <2>4. \A d \in Callers \ {c} : keyInUse'[d] = keyInUse[d]
    BY <2>1, <2>2
  <2>5. \A d \in Callers \ {c} : KeysInUse(d)'
    BY <2>2, <2>4 DEF KeysInUse
  <2> QED
    BY <2>1, <2>2, <2>3, <2>4, <2>5
<1>5. CASE UNCHANGED keyInUse
  BY <1>5 DEF GatewayInv, CallTypes, KeysInUse
<1> QED
  BY <1>4, <1>5

LEMMA AskStep ==
    ASSUME GatewayInv, NEW c \in Callers, Ask(c) \/ AskAgain(c) PROVE GatewayInv'
<1> USE DEF GatewayInv
<1>1. CallTypes'
  <2>1. call' \in [Callers -> CallType]
    <3>1. NewCall("asking", 1) \in CallType
      BY DEF CallType, NewCall
    <3>2. call' = [call EXCEPT ![c] = NewCall("asking", 1)]
      BY DEF Ask, AskAgain, Begin
    <3> QED
      BY <3>1, <3>2 DEF CallTypes
  <2>2. DOMAIN keyInUse' = Callers /\ \A d \in Callers : KeysInUse(d)'
    <3>1. CASE Ask(c)
      <4>1. \A n \in DOMAIN Chain[c] : 1 \in 1 .. Keys[Chain[c][n]]
        BY GatewayAssumption
      <4>2. keyInUse' = [keyInUse EXCEPT ![c] = [n \in DOMAIN Chain[c] |-> 1]]
        BY <3>1 DEF Ask, FirstKeys
      <4>3. KeysInUse(c)'
        BY <4>1, <4>2 DEF CallTypes, KeysInUse
      <4> QED
        BY <4>2, <4>3 DEF CallTypes, KeysInUse
    <3>2. CASE AskAgain(c)
      BY <3>2 DEF AskAgain, CallTypes, KeysInUse
    <3> QED
      BY <3>1, <3>2
  <2> QED
    BY <2>1, <2>2 DEF CallTypes, Ask, AskAgain
<1>2. CallInv(c)'
  <2>1. call[c] = NoCall /\ tries[c] = Fresh(c) /\ logged[c] = << >>
    BY DEF Ask, AskAgain, Begin, CallInv
  <2>2. call'[c] = NewCall("asking", 1) /\ tries'[c] = Fresh(c) /\ logged'[c] = << >>
    BY <2>1 DEF Ask, AskAgain, Begin, CallTypes
  <2>3. 1 \in DOMAIN Chain[c] /\ Keys[Chain[c][1]] \in Nat \ {0}
    BY GatewayAssumption
  <2>4. Progress(c)'
    <3>1. /\ call'[c].nth = 1 /\ call'[c].attempt = 0 /\ call'[c].keysTried = 0
          /\ Provider(c)' = Chain[c][1] /\ ApiKey(c)' = keyInUse'[c][1] /\ Len(logged'[c]) = 0
      BY <2>2 DEF NewCall, Provider, ApiKey
    <3>2. \A n \in DOMAIN Chain[c], k \in KeyIds : tries'[c][n][k] = 0
      BY <2>2 DEF Fresh
    <3>3. ApiKey(c)' \in 1 .. Keys[Chain[c][1]]
      BY <1>1, <2>3, <3>1 DEF CallTypes, KeysInUse
    <3>4. \A k \in 1 .. Keys[Chain[c][1]] : tries'[c][1][k] = 0
      BY <2>3, <3>2, KeysAreKeyIds
    <3>5. \A k \in 1 .. Keys[Chain[c][1]] \ {ApiKey(c)'} : ~(Ago(c, k)' <= 0)
      BY <2>3, <3>1, <3>3 DEF Ago
    <3> QED
      BY <2>3, <3>1, <3>2, <3>3, <3>4, <3>5, GatewayAssumption DEF Progress
  <2> QED
    BY <2>2, <2>4, GatewayAssumption DEF CallInv, NewCall, NoCall
<1>3. \A d \in Callers \ {c} : CallInv(d)'
  <2> SUFFICES ASSUME NEW d \in Callers \ {c} PROVE CallInv(d)'
    OBVIOUS
  <2>1. /\ call'[d] = call[d] /\ keyInUse'[d] = keyInUse[d] /\ tries'[d] = tries[d]
        /\ logged'[d] = logged[d] /\ lastUsed'[d] = lastUsed[d]
    BY DEF Ask, AskAgain, Begin, CallTypes
  <2> QED
    BY <2>1, CallFrame
<1> QED
  BY <1>1, <1>2, <1>3

LEMMA DoneStep ==
    ASSUME GatewayInv, NEW c \in Callers, Done(c) PROVE GatewayInv'
<1> USE DEF GatewayInv
<1>1. CallTypes'
  BY GatewayAssumption DEF CallTypes, CallType, KeysInUse, Done, NewCall, NoCall, Fresh
<1>2. CallInv(c)'
  <2>1. call'[c] = NoCall /\ tries'[c] = Fresh(c) /\ logged'[c] = << >>
    BY DEF Done, CallTypes
  <2> QED
    BY <2>1, GatewayAssumption DEF CallInv, NewCall, NoCall
<1>3. \A d \in Callers \ {c} : CallInv(d)'
  BY CallFrame DEF Done, CallTypes
<1> QED
  BY <1>1, <1>2, <1>3

\* What sending a request does to the history, and what a row does to the log.
LEMMA SentOnce ==
    ASSUME GatewayInv, NEW c \in Callers, call[c].state = "asking", Sent(c)
    PROVE /\ DOMAIN tries' = Callers
          /\ \A d \in Callers : tries'[d] \in [DOMAIN Chain[d] -> [KeyIds -> Nat]]
          /\ \A d \in Callers \ {c} : tries'[d] = tries[d]
          /\ \A n \in DOMAIN Chain[c], k \in KeyIds :
                tries'[c][n][k] = IF n = call[c].nth /\ k = ApiKey(c) THEN tries[c][n][k] + 1
                                  ELSE tries[c][n][k]
          /\ call[c].nth \in DOMAIN Chain[c] /\ ApiKey(c) \in KeyIds
<1> USE DEF GatewayInv, CallTypes
<1>1. Progress(c)
  BY DEF CallInv
<1>2. call[c].nth \in DOMAIN Chain[c] /\ ApiKey(c) \in KeyIds
  BY <1>1, KeyInUse DEF Progress
<1>3. tries' = [tries EXCEPT ![c] =
                  [tries[c] EXCEPT ![call[c].nth] =
                    [tries[c][call[c].nth] EXCEPT ![ApiKey(c)] = tries[c][call[c].nth][ApiKey(c)] + 1]]]
  BY DEF Sent
<1> QED
  BY <1>2, <1>3

LEMMA RowAdded ==
    ASSUME GatewayInv, NEW c \in Callers, NEW end \in {"ok", "limited", "refused"}, Row(c, end)
    PROVE /\ logged' \in [Callers -> Seq({"ok", "limited", "refused"})]
          /\ \A d \in Callers \ {c} : logged'[d] = logged[d]
          /\ Len(logged'[c]) = Len(logged[c]) + 1
          /\ \A n \in DOMAIN logged[c] : logged'[c][n] = logged[c][n]
          /\ logged'[c][Len(logged[c]) + 1] = end
BY DEF GatewayInv, CallTypes, Row

\* The log and the history keep what the rows before say: the requests of
\* providers that were given up are not touched again.
LEMMA LimitedStays ==
    ASSUME GatewayInv, NEW c \in Callers, call[c].state = "asking", Sent(c),
           NEW n \in DOMAIN logged[c], logged[c][n] = "limited", NEW k \in 1 .. Keys[Chain[c][n]]
    PROVE tries'[c][n][k] = MaxRetries + 1
<1>1. Progress(c) /\ n \in DOMAIN Chain[c] /\ n # call[c].nth
  <2>1. Progress(c) /\ Len(logged[c]) <= Len(Chain[c])
    BY DEF GatewayInv, CallInv
  <2>2. Len(logged[c]) = call[c].nth - 1 /\ call[c].nth \in Nat
    BY <2>1 DEF Progress, GatewayInv, CallTypes, CallType
  <2>3. Len(logged[c]) \in Nat /\ n \in 1 .. Len(logged[c])
    BY DEF GatewayInv, CallTypes
  <2>4. Len(Chain[c]) \in Nat /\ DOMAIN Chain[c] = 1 .. Len(Chain[c])
    BY GatewayAssumption
  <2> QED
    BY <2>1, <2>2, <2>3, <2>4
<1>2. tries[c][n][k] = MaxRetries + 1
  BY DEF GatewayInv, CallInv
<1>3. k \in KeyIds
  BY <1>1, KeysAreKeyIds
<1> QED
  BY <1>1, <1>2, <1>3, SentOnce

\* The keys of the providers not asked yet have not been used.
LEMMA LaterUntouched ==
    ASSUME GatewayInv, NEW c \in Callers, call[c].state = "asking", Sent(c),
           NEW n \in DOMAIN Chain[c], n > call[c].nth, NEW k \in KeyIds
    PROVE tries'[c][n][k] = 0
<1>1. Progress(c)
  BY DEF GatewayInv, CallInv
<1>2. tries[c][n][k] = 0
  BY <1>1 DEF Progress
<1>3. n # call[c].nth
  BY <1>1, GatewayAssumption DEF Progress
<1> QED
  BY <1>2, <1>3, SentOnce

LEMMA AnswerStep ==
    ASSUME GatewayInv, NEW c \in Callers, Answer(c) PROVE GatewayInv'
<1>1. call[c].state = "asking" /\ Sent(c) /\ Row(c, "ok") /\ Progress(c)
  BY DEF Answer, GatewayInv, CallInv
<1>2. /\ call' = [call EXCEPT ![c] = [call[c] EXCEPT !.state = "answered"]]
      /\ lastUsed' = [lastUsed EXCEPT ![c] = Provider(c)] /\ UNCHANGED keyInUse
  BY DEF Answer
<1>3. CallTypes'
  <2>1. [call[c] EXCEPT !.state = "answered"] \in CallType
    BY DEF GatewayInv, CallTypes, CallType
  <2>2. call' \in [Callers -> CallType] /\ DOMAIN lastUsed' = Callers
    BY <1>2, <2>1 DEF GatewayInv, CallTypes
  <2> QED
    BY <1>1, <1>2, <2>2, SentOnce, RowAdded, KeysMoved DEF CallTypes, Progress
<1>4. CallInv(c)'
  <2>1. call'[c] = [call[c] EXCEPT !.state = "answered"] /\ lastUsed'[c] = Provider(c)
    BY <1>2 DEF GatewayInv, CallTypes
  <2>2. /\ call'[c].state = "answered" /\ call'[c].nth = call[c].nth
        /\ call[c].nth \in 1 .. Len(Chain[c])
    BY <1>1, <2>1, GatewayAssumption DEF Progress, GatewayInv, CallTypes, CallType
  <2>3. Len(logged'[c]) = call[c].nth /\ logged'[c][call[c].nth] = "ok"
    BY <1>1, <2>2, RowAdded DEF Progress
  <2>4. \A n \in DOMAIN logged'[c] : logged'[c][n] = "limited" =>
          \A k \in 1 .. Keys[Chain[c][n]] : tries'[c][n][k] = MaxRetries + 1
    <3> SUFFICES ASSUME NEW n \in DOMAIN logged'[c], logged'[c][n] = "limited"
                 PROVE \A k \in 1 .. Keys[Chain[c][n]] : tries'[c][n][k] = MaxRetries + 1
      OBVIOUS
    <3>1. n \in DOMAIN logged[c] /\ logged[c][n] = "limited"
      BY <1>1, <2>3, RowAdded DEF Progress, GatewayInv, CallTypes
    <3> QED
      BY <1>1, <3>1, LimitedStays
  <2> QED
    BY <2>1, <2>2, <2>3, <2>4, GatewayAssumption DEF CallInv, Provider
<1>5. \A d \in Callers \ {c} : CallInv(d)'
  BY <1>1, <1>2, SentOnce, RowAdded, CallFrame DEF GatewayInv, CallTypes
<1> QED
  BY <1>3, <1>4, <1>5 DEF GatewayInv

\* A provider is given up, for whatever reason the row tells; if it is the rate
\* limit, all its keys have been tried to the end.
LEMMA GiveUpStep ==
    ASSUME GatewayInv, NEW c \in Callers, NEW reason \in {"limited", "refused"},
           call[c].state = "asking", Sent(c), GiveUp(c, reason), UNCHANGED lastUsed,
           UNCHANGED keyInUse \/ Rotated(c),
           reason = "limited" =>
               \A k \in 1 .. Keys[Provider(c)] : tries'[c][call[c].nth][k] = MaxRetries + 1
    PROVE GatewayInv'
<1>1. Row(c, reason) /\ Progress(c)
  BY DEF GiveUp, GatewayInv, CallInv
<1>0. /\ DOMAIN keyInUse' = Callers /\ \A d \in Callers : KeysInUse(d)'
      /\ \A d \in Callers \ {c} : keyInUse'[d] = keyInUse[d]
  BY <1>1, KeysMoved DEF Progress
<1>2. CASE call[c].nth = Len(Chain[c])
  <2>1. call' = [call EXCEPT ![c] = [call[c] EXCEPT !.state = "raised"]]
    BY <1>2 DEF GiveUp
  <2>2. CallTypes'
    <3>1. [call[c] EXCEPT !.state = "raised"] \in CallType
      BY DEF GatewayInv, CallTypes, CallType
    <3>2. call' \in [Callers -> CallType]
      BY <2>1, <3>1 DEF GatewayInv, CallTypes
    <3> QED
      BY <1>0, <1>1, <3>2, SentOnce, RowAdded DEF GatewayInv, CallTypes
  <2>3. CallInv(c)'
    <3>1. call'[c] = [call[c] EXCEPT !.state = "raised"]
      BY <2>1 DEF GatewayInv, CallTypes
    <3>2. call'[c].state = "raised" /\ call'[c].nth = call[c].nth
      BY <3>1 DEF GatewayInv, CallTypes, CallType
    <3>3. Len(logged'[c]) = call[c].nth
      BY <1>1, RowAdded, GatewayAssumption DEF Progress
    <3>4. \A n \in DOMAIN logged'[c] : logged'[c][n] = "limited" =>
            \A k \in 1 .. Keys[Chain[c][n]] : tries'[c][n][k] = MaxRetries + 1
      <4> SUFFICES ASSUME NEW n \in DOMAIN logged'[c], logged'[c][n] = "limited"
                   PROVE \A k \in 1 .. Keys[Chain[c][n]] : tries'[c][n][k] = MaxRetries + 1
        OBVIOUS
      <4>1. CASE n = call[c].nth
        <5>1. logged'[c][n] = reason
          BY <1>1, <4>1, RowAdded, GatewayAssumption DEF Progress
        <5> QED
          BY <4>1, <5>1 DEF Provider
      <4>2. CASE n # call[c].nth
        <5>1. n \in 1 .. call[c].nth - 1 /\ Len(logged[c]) = call[c].nth - 1
          BY <1>1, <3>3, <4>2, RowAdded, GatewayAssumption DEF Progress
        <5>2. n \in DOMAIN logged[c]
          BY <5>1 DEF GatewayInv, CallTypes
        <5>3. logged[c][n] = "limited"
          BY <1>1, <5>2, RowAdded
        <5> QED
          BY <5>2, <5>3, LimitedStays
      <4> QED
        BY <4>1, <4>2
    <3> QED
      BY <1>2, <3>2, <3>3, <3>4 DEF CallInv
  <2>4. \A d \in Callers \ {c} : CallInv(d)'
    BY <1>0, <1>1, <2>1, SentOnce, RowAdded, CallFrame DEF GatewayInv, CallTypes
  <2> QED
    BY <2>2, <2>3, <2>4 DEF GatewayInv
<1>3. CASE call[c].nth # Len(Chain[c])
  <2> DEFINE fresh == [state |-> "asking", nth |-> call[c].nth + 1, attempt |-> 0, keysTried |-> 0]
  <2>1. call' = [call EXCEPT ![c] = fresh]
    BY <1>3 DEF GiveUp, NewCall
  <2>2. /\ fresh.state = "asking" /\ fresh.nth = call[c].nth + 1
        /\ fresh.attempt = 0 /\ fresh.keysTried = 0 /\ fresh \in CallType
    BY DEF CallType, GatewayInv, CallTypes
  <2>3. CallTypes'
    BY <1>0, <1>1, <2>1, <2>2, SentOnce, RowAdded DEF GatewayInv, CallTypes
  <2>4. CallInv(c)'
    <3>1. call'[c] = fresh
      BY <2>1 DEF GatewayInv, CallTypes
    <3>2. fresh.nth \in DOMAIN Chain[c] /\ call[c].nth \in 1 .. Len(Chain[c])
      BY <1>1, <1>3, <2>2, GatewayAssumption DEF Progress
    <3>3. Len(logged'[c]) = call[c].nth
      BY <1>1, RowAdded, GatewayAssumption DEF Progress
    <3>4. \A n \in DOMAIN logged'[c] : logged'[c][n] = "limited" =>
            \A k \in 1 .. Keys[Chain[c][n]] : tries'[c][n][k] = MaxRetries + 1
      <4> SUFFICES ASSUME NEW n \in DOMAIN logged'[c], logged'[c][n] = "limited"
                   PROVE \A k \in 1 .. Keys[Chain[c][n]] : tries'[c][n][k] = MaxRetries + 1
        OBVIOUS
      <4>1. CASE n = call[c].nth
        <5>1. logged'[c][n] = reason
          BY <1>1, <4>1, RowAdded, GatewayAssumption DEF Progress
        <5> QED
          BY <4>1, <5>1 DEF Provider
      <4>2. CASE n # call[c].nth
        <5>1. n \in 1 .. call[c].nth - 1 /\ Len(logged[c]) = call[c].nth - 1
          BY <1>1, <3>3, <4>2, RowAdded, GatewayAssumption DEF Progress
        <5>2. n \in DOMAIN logged[c]
          BY <5>1 DEF GatewayInv, CallTypes
        <5>3. logged[c][n] = "limited"
          BY <1>1, <5>2, RowAdded
        <5> QED
          BY <5>2, <5>3, LimitedStays
      <4> QED
        BY <4>1, <4>2
    <3>5. Progress(c)'
      <4> HIDE DEF fresh
      <4>1. ASSUME NEW n \in DOMAIN Chain[c], NEW k \in KeyIds, n >= fresh.nth
            PROVE tries'[c][n][k] = 0
        <5>1. n > call[c].nth /\ n # call[c].nth
          BY <2>2, <3>2, <4>1, GatewayAssumption
        <5>2. tries[c][n][k] = 0
          BY <1>1, <5>1 DEF Progress
        <5> QED
          BY <5>1, <5>2, SentOnce
      <4>2. /\ call'[c].nth = fresh.nth /\ call'[c].attempt = 0 /\ call'[c].keysTried = 0
            /\ Provider(c)' = Chain[c][fresh.nth] /\ ApiKey(c)' = keyInUse'[c][fresh.nth]
        BY <2>2, <3>1 DEF Provider, ApiKey
      <4>3. /\ ApiKey(c)' \in 1 .. Keys[Chain[c][fresh.nth]]
            /\ Keys[Chain[c][fresh.nth]] \in Nat \ {0}
        BY <1>0, <3>2, <4>2, KeysAreKeyIds DEF KeysInUse
      <4>4. Len(logged'[c]) = fresh.nth - 1
        BY <2>2, <3>2, <3>3, GatewayAssumption
      <4>5. fresh.nth \in Nat /\ 0 \in 0 .. MaxRetries
        BY <3>2, GatewayAssumption
      <4>6. \A k \in 1 .. Keys[Chain[c][fresh.nth]] : tries'[c][fresh.nth][k] = 0
        BY <3>2, <4>1, <4>5, KeysAreKeyIds
      <4>7. \A n \in DOMAIN Chain[c] : n > fresh.nth => \A k \in KeyIds : tries'[c][n][k] = 0
        BY <4>1, <4>5, GatewayAssumption
      <4>8. \A k \in 1 .. Keys[Chain[c][fresh.nth]] \ {ApiKey(c)'} : ~(Ago(c, k)' <= 0)
        BY <4>2, <4>3 DEF Ago
      <4> QED
        BY <3>2, <4>2, <4>3, <4>4, <4>5, <4>6, <4>7, <4>8 DEF Progress
    <3> QED
      <4> HIDE DEF fresh
      <4>1. call'[c].state = "asking"
        BY <2>2, <3>1
      <4>2. Len(logged'[c]) <= Len(Chain[c])
        BY <3>2, <3>3, GatewayAssumption
      <4> QED
        BY <3>4, <3>5, <4>1, <4>2 DEF CallInv
  <2>5. \A d \in Callers \ {c} : CallInv(d)'
    BY <1>0, <1>1, <2>1, SentOnce, RowAdded, CallFrame DEF GatewayInv, CallTypes
  <2> QED
    BY <2>3, <2>4, <2>5 DEF GatewayInv
<1> QED
  BY <1>2, <1>3

\* A rotation puts every key one further back, and the one furthest back in use.
LEMMA Rotation ==
    ASSUME NEW w \in Nat \ {0}, NEW key \in 1 .. w, NEW k \in 1 .. w
    PROVE LET next == (key % w) + 1
              ago == IF k <= key THEN key - k ELSE key + w - k
              then == IF k <= next THEN next - k ELSE next + w - k
          IN  /\ next \in 1 .. w /\ ago \in 0 .. w - 1
              /\ k = next <=> ago = w - 1
              /\ k # next => then = ago + 1
<1>1. key % w = IF key = w THEN 0 ELSE key
  OBVIOUS
<1> QED
  BY <1>1

LEMMA RateLimitedStep ==
    ASSUME GatewayInv, NEW c \in Callers, RateLimited(c) PROVE GatewayInv'
<1>1. call[c].state = "asking" /\ Sent(c) /\ Progress(c) /\ UNCHANGED lastUsed
  BY DEF RateLimited, GatewayInv, CallInv
<1>2. CASE call[c].attempt < MaxRetries /\ UNCHANGED <<keyInUse, logged>>
           /\ call' = [call EXCEPT ![c].attempt = @ + 1]
  <2>1. CallTypes'
    <3>1. call' = [call EXCEPT ![c] = [call[c] EXCEPT !.attempt = call[c].attempt + 1]]
      BY <1>2
    <3>2. [call[c] EXCEPT !.attempt = call[c].attempt + 1] \in CallType
      <4>1. call[c] \in CallType
        BY DEF GatewayInv, CallTypes
      <4>2. call[c].attempt + 1 \in Nat
        BY <4>1 DEF CallType
      <4> QED
        BY <4>1, <4>2 DEF CallType
    <3>3. call' \in [Callers -> CallType]
      BY <3>1, <3>2 DEF GatewayInv, CallTypes
    <3> QED
      BY <1>1, <1>2, <3>3, SentOnce, KeysMoved DEF GatewayInv, CallTypes, Progress
  <2>2. CallInv(c)'
    <3>1. call'[c] = [call[c] EXCEPT !.attempt = @ + 1] /\ call[c] \in CallType
      BY <1>2 DEF GatewayInv, CallTypes
    <3>2. /\ call'[c].state = "asking" /\ call'[c].nth = call[c].nth
          /\ ApiKey(c)' = ApiKey(c) /\ call'[c].keysTried = call[c].keysTried
          /\ call'[c].attempt = call[c].attempt + 1 /\ Provider(c)' = Provider(c)
      BY <1>1, <1>2, <3>1 DEF CallType, Provider, ApiKey
    <3>3. Progress(c)'
      <4>1. call[c].attempt + 1 \in 0 .. MaxRetries
        BY <1>1, <1>2, GatewayAssumption DEF Progress
      <4>2. tries'[c][call[c].nth][ApiKey(c)] = call[c].attempt + 1
        BY <1>1, SentOnce DEF Progress
      <4>3. ASSUME NEW k \in 1 .. Keys[Provider(c)] \ {ApiKey(c)}
            PROVE tries'[c][call[c].nth][k] = tries[c][call[c].nth][k] /\ Ago(c, k)' = Ago(c, k)
        <5>1. k \in KeyIds
          BY <1>1, KeysAreKeyIds DEF Progress, Provider
        <5> QED
          BY <1>1, <3>2, <5>1, SentOnce DEF Ago
      <4>4. \A n \in DOMAIN Chain[c] : n > call[c].nth => \A k \in KeyIds : tries'[c][n][k] = 0
        BY <1>1, LaterUntouched
      <4> QED
        BY <1>1, <1>2, <3>2, <4>1, <4>2, <4>3, <4>4 DEF Progress
    <3> QED
      BY <1>1, <1>2, <3>2, <3>3, LimitedStays DEF GatewayInv, CallInv
  <2>3. \A d \in Callers \ {c} : CallInv(d)'
    BY <1>1, <1>2, SentOnce, CallFrame DEF GatewayInv, CallTypes
  <2> QED
    BY <2>1, <2>2, <2>3 DEF GatewayInv
<1> DEFINE width == Keys[Provider(c)]
           used == tries'[c][call[c].nth]
\* The key that is left has now been tried to the end, like those before it.
<1>3. ASSUME call[c].attempt = MaxRetries, NEW k \in 1 .. width
      PROVE used[k] = IF Ago(c, k) <= call[c].keysTried THEN MaxRetries + 1 ELSE 0
  <2>1. /\ k \in KeyIds /\ call[c].nth \in DOMAIN Chain[c] /\ ApiKey(c) \in 1 .. width
        /\ width \in Nat \ {0} /\ call[c].keysTried \in Nat
    BY <1>1, KeysAreKeyIds, KeyInUse DEF Progress, Provider
  <2>2. CASE k = ApiKey(c)
    <3>1. used[k] = MaxRetries + 1
      BY <1>1, <1>3, <2>1, <2>2, SentOnce DEF Progress
    <3>2. Ago(c, k) = 0
      BY <2>1, <2>2 DEF Ago
    <3> QED
      BY <2>1, <3>1, <3>2
  <2>3. CASE k # ApiKey(c)
    BY <1>1, <2>1, <2>3, SentOnce DEF Progress
  <2> QED
    BY <2>2, <2>3
<1>4. CASE call[c].attempt = MaxRetries /\ Rotated(c) /\ Exhausted(c) /\ GiveUp(c, "limited")
  <2>1. ASSUME NEW k \in 1 .. width PROVE used[k] = MaxRetries + 1
    <3>1. width \in Nat \ {0} /\ ApiKey(c) \in 1 .. width /\ call[c].keysTried \in Nat
      BY <1>1, KeyInUse DEF Progress
    <3>2. Ago(c, k) <= call[c].keysTried
      BY <1>4, <3>1 DEF Exhausted, Counted, Ago
    <3> QED
      BY <1>3, <1>4, <3>2
  <2> QED
    BY <1>1, <1>4, <2>1, GiveUpStep
<1>5. CASE /\ call[c].attempt = MaxRetries /\ Rotated(c) /\ ~Exhausted(c) /\ UNCHANGED logged
           /\ call' = [call EXCEPT ![c].attempt = 0, ![c].keysTried = Counted(c)]
  <2>1. /\ ApiKey(c) \in 1 .. width /\ width \in Nat \ {0} /\ call[c].nth \in DOMAIN Chain[c]
        /\ call[c].keysTried \in Nat /\ Counted(c) = call[c].keysTried + 1
        /\ call[c].keysTried + 1 \in 1 .. width - 1
    BY <1>1, <1>5, KeyInUse DEF Progress, Exhausted, Counted
  <2>2. CallTypes'
    <3> DEFINE next == [call[c] EXCEPT !.attempt = 0, !.keysTried = call[c].keysTried + 1]
    <3>1. call' = [call EXCEPT ![c] = next]
      BY <1>5, <2>1
    <3>2. next \in CallType
      <4>1. call[c] \in CallType
        BY DEF GatewayInv, CallTypes
      <4>2. call[c].keysTried + 1 \in Nat
        BY <2>1
      <4> QED
        BY <4>1, <4>2 DEF CallType
    <3>3. call' \in [Callers -> CallType]
      BY <3>1, <3>2 DEF GatewayInv, CallTypes
    <3> QED
      BY <1>1, <1>5, <2>1, <3>3, SentOnce, KeysMoved DEF GatewayInv, CallTypes
  <2>3. CallInv(c)'
    <3>1. /\ call'[c].state = "asking" /\ call'[c].nth = call[c].nth
          /\ call'[c].keysTried = call[c].keysTried + 1
          /\ call'[c].attempt = 0 /\ Provider(c)' = Provider(c)
      BY <1>1, <1>5, <2>1 DEF CallType, Provider, GatewayInv, CallTypes
    <3>2. ApiKey(c)' = NextKey(c)
      <4>1. keyInUse' = [keyInUse EXCEPT ![c] = [keyInUse[c] EXCEPT ![call[c].nth] = NextKey(c)]]
        BY <1>5 DEF Rotated
      <4> QED
        BY <2>1, <3>1, <4>1 DEF ApiKey, GatewayInv, CallTypes, KeysInUse
    <3>3. Progress(c)'
      <4>1. ASSUME NEW k \in 1 .. width
            PROVE /\ Ago(c, k) \in 0 .. width - 1
                  /\ k = NextKey(c) <=> Ago(c, k) = width - 1
                  /\ k # NextKey(c) => Ago(c, k)' = Ago(c, k) + 1
        <5>1. Ago(c, k)' = IF k <= NextKey(c) THEN NextKey(c) - k ELSE NextKey(c) + width - k
          BY <3>1, <3>2 DEF Ago
        <5> QED
          BY <2>1, <5>1, Rotation DEF NextKey, Ago
      <4>2. NextKey(c) \in 1 .. width
        BY <2>1, Rotation DEF NextKey
      <4>3. used[NextKey(c)] = 0
        <5>1. ~(Ago(c, NextKey(c)) <= call[c].keysTried)
          BY <2>1, <4>1, <4>2
        <5> QED
          BY <1>3, <1>5, <4>2, <5>1
      <4>4. ASSUME NEW k \in 1 .. width \ {NextKey(c)}
            PROVE used[k] = IF Ago(c, k)' <= call'[c].keysTried THEN MaxRetries + 1 ELSE 0
        <5>1. Ago(c, k)' <= call'[c].keysTried <=> Ago(c, k) <= call[c].keysTried
          BY <2>1, <3>1, <4>1
        <5> QED
          BY <1>3, <1>5, <5>1
      <4>5. \A n \in DOMAIN Chain[c] : n > call[c].nth => \A k \in KeyIds : tries'[c][n][k] = 0
        BY <1>1, LaterUntouched
      <4>6. call'[c].attempt \in 0 .. MaxRetries /\ call'[c].keysTried \in 0 .. width - 1
        BY <2>1, <3>1, GatewayAssumption
      <4> QED
        BY <1>1, <1>5, <2>1, <3>1, <3>2, <4>3, <4>4, <4>5, <4>6 DEF Progress
    <3> QED
      BY <1>1, <1>5, <3>1, <3>3, LimitedStays DEF GatewayInv, CallInv
  <2>4. \A d \in Callers \ {c} : CallInv(d)'
    BY <1>1, <1>5, <2>1, SentOnce, KeysMoved, CallFrame DEF GatewayInv, CallTypes
  <2> QED
    BY <2>2, <2>3, <2>4 DEF GatewayInv
<1> QED
  BY <1>2, <1>4, <1>5 DEF RateLimited

LEMMA GatewayInvInit == GatewayInit => GatewayInv
<1> SUFFICES ASSUME GatewayInit PROVE GatewayInv
  OBVIOUS
<1>1. \A c \in Callers : KeysInUse(c)
  BY GatewayAssumption DEF GatewayInit, KeysInUse, FirstKeys
<1> QED
  BY <1>1, GatewayAssumption
     DEF GatewayInit, GatewayInv, CallTypes, CallType, CallInv, NewCall, NoCall, Fresh

LEMMA GatewayInvStep ==
    ASSUME GatewayInv, NEW c \in Callers, GatewayStep(c) \/ Ask(c) \/ AskAgain(c) \/ Done(c)
    PROVE GatewayInv'
<1>1. CASE Refused(c)
  BY <1>1, GiveUpStep DEF Refused
<1> QED
  BY <1>1, AnswerStep, RateLimitedStep, AskStep, DoneStep DEF GatewayStep

LEMMA GatewayInvNext == GatewayInv /\ [Next]_vars => GatewayInv'
<1> SUFFICES ASSUME GatewayInv, [Next]_vars PROVE GatewayInv'
  OBVIOUS
<1>1. ASSUME UNCHANGED gatewayVars PROVE GatewayInv'
  BY <1>1, CallFrame DEF GatewayInv, CallTypes, KeysInUse, gatewayVars
<1>2. ASSUME NEW u \in Uploads, Start(u) \/ UploadStep(u) \/ Abort(u) \/ Deadlock(u) PROVE GatewayInv'
  <2>1. u \in Callers
    BY KnowledgeAssumption
  <2>2. CASE AskModel(u)
    BY <2>1, <2>2, GatewayInvStep DEF AskModel
  <2>3. CASE ExtractFromChunk(u)
    BY <2>1, <2>3, GatewayInvStep DEF ExtractFromChunk
  <2> QED
    BY <1>1, <1>2, <2>2, <2>3
       DEF Start, UploadStep, Abort, Deadlock, IngestDocument, Chunk, CreateChunks, CheckCache,
           SaveHit, PersistCache, MaterializeGraph, Report
<1>3. ASSUME NEW c \in Callers, Asked(c) PROVE GatewayInv'
  BY <1>3, GatewayInvStep DEF Asked
<1>4. ASSUME NEW c \in Others, AskOther(c) \/ CollectOther(c) PROVE GatewayInv'
  BY <1>4, GatewayInvStep, KnowledgeAssumption DEF AskOther, CollectOther
<1>5. CASE ChooseCandidates \/ DeleteCandidates \/ \E k \in CacheKeys : Age(k)
  BY <1>1, <1>5 DEF ChooseCandidates, DeleteCandidates, Age
<1> QED
  BY <1>1, <1>2, <1>3, <1>4, <1>5 DEF Next, vars

\* A provider is given up for its rate limit only after each of its keys was
\* tried MaxRetries + 1 times, whatever the number of providers, keys and
\* retries, whichever key the client's last completion has left in use, and
\* whoever else asks meanwhile.
THEOREM AllKeysAreTried == Spec => []EveryKeyTried
<1>1. GatewayInv => EveryKeyTried
  BY GatewayAssumption DEF GatewayInv, CallTypes, CallType, CallInv, Progress, EveryKeyTried
<1>2. Init => GatewayInv
  BY GatewayInvInit DEF Init
<1> QED
  BY <1>1, <1>2, GatewayInvNext, PTL DEF Spec

-----------------------------------------------------------------------------
(* The graphs rest on the cache: from the time an upload has counted its   *)
(* hit or inserted its extraction until it is over it holds the row, so    *)
(* that no other upload and no cleanup comes between; once it is over, its *)
(* graph protects the row.                                                 *)

Entry(u) == cache[Key(u)]

\* The row is u's own, or u has updated it and keeps it locked.
Holds(u) == Entry(u).by = u \/ (Entry(u).by = Kept /\ Entry(u).hitBy = u)

Shapes ==
    /\ DOMAIN job = Uploads /\ DOMAIN graph = Uploads /\ DOMAIN cache = CacheKeys
    /\ \A u \in Uploads :
        /\ DOMAIN job[u] = {"step", "doc", "todo", "data", "hits"}
        /\ DOMAIN graph[u] = {"status", "data"}
    /\ \A k \in CacheKeys : DOMAIN cache[k] = {"by", "hitBy", "data", "hits", "old"}

Locks ==
    /\ \A k \in CacheKeys :
        /\ cache[k].by \in Owners /\ cache[k].hitBy \in Uploads \cup {NoOne}
        /\ cache[k].hitBy # NoOne => cache[k].by = Kept
    /\ \A k \in doomed : k \in CacheKeys /\ cache[k].by = Kept

UploadInv(u) ==
    /\ graph[u].status # "none" => At(u, "report") \/ Over(u)
    /\ At(u, "graph") \/ At(u, "report") => Holds(u)
    /\ Entry(u).by = u => At(u, "graph") \/ At(u, "report")
    /\ Over(u) /\ graph[u].status # "none" => Entry(u).by = Kept
    /\ ~swept /\ At(u, "hit") => Entry(u).by = Kept /\ Entry(u).data = job[u].data
    /\ ~swept /\ At(u, "graph") => Entry(u).data = job[u].data
    /\ ~swept /\ graph[u].status = "ready" =>
        graph[u].data = [mentions |-> Entry(u).data.mentions, relations |-> Resolved(Entry(u).data)]

CacheInv == Shapes /\ Locks /\ \A u \in Uploads : UploadInv(u)

\* Committed rows stay as they are, and so do the rows and locks of the others.
OthersKeep(u) ==
    /\ \A k \in CacheKeys :
        /\ cache[k].by \in (Uploads \cup {Kept}) \ {u} =>
            cache'[k].by = cache[k].by /\ cache'[k].data = cache[k].data
        /\ cache'[k].by \in Uploads \ {u} => cache[k].by = cache'[k].by
        /\ cache[k].hitBy \in Uploads \ {u} => cache'[k].hitBy = cache[k].hitBy
    /\ \A v \in Uploads \ {u} : job'[v] = job[v] /\ graph'[v] = graph[v]
    /\ swept' = swept

LEMMA KeyInCache == \A u \in Uploads : Key(u) \in CacheKeys
BY DEF CacheKeys

LEMMA OwnersDiffer == \A u \in Uploads : u # Kept /\ u # NoOne /\ Kept # NoOne
BY KnowledgeAssumption

LEMMA OthersUndisturbed ==
    ASSUME CacheInv, NEW u \in Uploads, OthersKeep(u), NEW v \in Uploads \ {u}
    PROVE UploadInv(v)'
<1>1. /\ job'[v] = job[v] /\ graph'[v] = graph[v] /\ swept' = swept
  BY DEF OthersKeep
<1>2. UploadInv(v) /\ Key(v) \in CacheKeys /\ v # Kept /\ v # NoOne
  BY KeyInCache, OwnersDiffer DEF CacheInv
<1>3. Entry(v).by \in {v, Kept} => Entry(v)'.by = Entry(v).by /\ Entry(v)'.data = Entry(v).data
  BY <1>2, OwnersDiffer DEF OthersKeep, Entry
<1>4. Holds(v) => Holds(v)'
  BY <1>2, <1>3 DEF OthersKeep, Entry, Holds
<1>5. graph[v].status # "none" => Entry(v).by \in {v, Kept}
  BY <1>2 DEF UploadInv, Holds
<1>6. Entry(v)'.by = v => Entry(v).by = v
  BY <1>2 DEF OthersKeep, Entry
<1> QED
  BY <1>1, <1>2, <1>3, <1>4, <1>5, <1>6 DEF UploadInv, At, Over, Holds

\* The end of an upload, either way, leaves the rows of the others alone; one
\* that commits keeps the row it holds.
LEMMA SettleStep ==
    ASSUME CacheInv, NEW u \in Uploads, NEW keep \in BOOLEAN, Settle(u, keep),
           UNCHANGED <<doomed, swept>>,
           \A v \in Uploads \ {u} : job'[v] = job[v] /\ graph'[v] = graph[v]
    PROVE /\ DOMAIN cache' = CacheKeys
          /\ \A k \in CacheKeys : DOMAIN cache'[k] = {"by", "hitBy", "data", "hits", "old"}
          /\ Locks' /\ OthersKeep(u) /\ Entry(u)'.by # u
          /\ keep /\ Holds(u) => Entry(u)'.by = Kept /\ Entry(u)'.data = Entry(u).data
<1> USE DEF CacheInv, Shapes, Locks
<1>1. /\ DOMAIN cache' = CacheKeys
      /\ \A k \in CacheKeys :
            /\ cache[k].by = u => cache'[k] = IF keep THEN [cache[k] EXCEPT !.by = Kept] ELSE NoEntry
            /\ cache[k].by # u /\ cache[k].hitBy = u =>
                cache'[k] = [cache[k] EXCEPT !.hitBy = NoOne,
                                             !.hits = IF keep THEN job[u].hits + 1 ELSE cache[k].hits]
            /\ cache[k].by # u /\ cache[k].hitBy # u => cache'[k] = cache[k]
  BY DEF Settle
<1>2. /\ NoEntry.by = NoOne /\ NoEntry.hitBy = NoOne
      /\ DOMAIN NoEntry = {"by", "hitBy", "data", "hits", "old"}
  BY DEF NoEntry
<1>3. ASSUME NEW k \in CacheKeys
      PROVE /\ DOMAIN cache'[k] = {"by", "hitBy", "data", "hits", "old"}
            /\ cache'[k].by = IF cache[k].by = u THEN (IF keep THEN Kept ELSE NoOne) ELSE cache[k].by
            /\ cache'[k].hitBy = IF cache[k].hitBy = u THEN NoOne ELSE cache[k].hitBy
            /\ cache[k].by # u \/ keep => cache'[k].data = cache[k].data
  <2>1. CASE cache[k].by = u
    <3>1. CASE keep
      <4>1. cache'[k] = [cache[k] EXCEPT !.by = Kept]
        BY <1>1, <2>1, <3>1
      <4> QED
        BY <2>1, <3>1, <4>1, OwnersDiffer
    <3>2. CASE ~keep
      <4>1. cache'[k] = NoEntry
        BY <1>1, <2>1, <3>2
      <4> QED
        BY <1>2, <2>1, <3>2, <4>1, OwnersDiffer
    <3> QED
      BY <3>1, <3>2
  <2>2. CASE cache[k].by # u /\ cache[k].hitBy = u
    <3>1. cache'[k] = [cache[k] EXCEPT !.hitBy = NoOne,
                                       !.hits = IF keep THEN job[u].hits + 1 ELSE cache[k].hits]
      BY <1>1, <2>2
    <3> QED
      BY <2>2, <3>1
  <2>3. CASE cache[k].by # u /\ cache[k].hitBy # u
    BY <1>1, <2>3
  <2> QED
    BY <2>1, <2>2, <2>3
<1>4. Locks'
  <2>1. ASSUME NEW k \in CacheKeys
        PROVE /\ cache'[k].by \in Owners /\ cache'[k].hitBy \in Uploads \cup {NoOne}
              /\ cache'[k].hitBy # NoOne => cache'[k].by = Kept
    BY <1>3, OwnersDiffer DEF Owners
  <2>2. \A k \in doomed' : k \in CacheKeys /\ cache'[k].by = Kept
    BY <1>3, OwnersDiffer
  <2> QED
    BY <2>1, <2>2
<1>5. OthersKeep(u)
  BY <1>3, OwnersDiffer DEF OthersKeep
<1>6. /\ Entry(u)'.by # u
      /\ keep /\ Holds(u) => Entry(u)'.by = Kept /\ Entry(u)'.data = Entry(u).data
  BY <1>3, KeyInCache, OwnersDiffer DEF Holds, Entry
<1> QED
  BY <1>1, <1>3, <1>4, <1>5, <1>6

\* The job goes to another step and nothing else of it is looked at.
LEMMA JobStep ==
    ASSUME CacheInv, NEW u \in Uploads, NEW step, Goto(u, step)
    PROVE /\ DOMAIN job' = Uploads
          /\ \A v \in Uploads : DOMAIN job'[v] = {"step", "doc", "todo", "data", "hits"}
          /\ \A v \in Uploads \ {u} : job'[v] = job[v]
          /\ job'[u].step = step /\ job'[u].data = job[u].data
BY DEF CacheInv, Shapes, Goto

LEMMA FailStep ==
    ASSUME CacheInv, NEW u \in Uploads, ~Over(u), Fail(u), UNCHANGED <<doomed, swept>>
    PROVE CacheInv'
<1>1. Goto(u, "failed") /\ Settle(u, TRUE)
  BY DEF Fail
<1>2. /\ DOMAIN graph' = Uploads /\ \A v \in Uploads : DOMAIN graph'[v] = {"status", "data"}
      /\ \A v \in Uploads \ {u} : graph'[v] = graph[v]
      /\ graph'[u].status = IF graph[u].status = "none" THEN "none" ELSE "failed"
  BY DEF Fail, CacheInv, Shapes
<1>3. Shapes' /\ Locks' /\ OthersKeep(u) /\ Entry(u)'.by # u /\ (Holds(u) => Entry(u)'.by = Kept)
  BY <1>1, <1>2, JobStep, SettleStep DEF Shapes
<1>4. UploadInv(u)'
  <2>1. graph[u].status # "none" => Holds(u)
    BY DEF CacheInv, UploadInv
  <2>2. job'[u].step = "failed"
    BY <1>1, JobStep
  <2> QED
    BY <1>2, <1>3, <2>1, <2>2 DEF UploadInv, At, Over
<1> QED
  BY <1>3, <1>4, OthersUndisturbed DEF CacheInv

LEMMA RollBackStep ==
    ASSUME CacheInv, NEW u \in Uploads, RollBack(u), UNCHANGED <<doomed, swept>>
    PROVE CacheInv'
<1>1. Goto(u, "failed") /\ Settle(u, FALSE)
  BY DEF RollBack
<1>2. /\ DOMAIN graph' = Uploads /\ \A v \in Uploads : DOMAIN graph'[v] = {"status", "data"}
      /\ \A v \in Uploads \ {u} : graph'[v] = graph[v]
      /\ graph'[u].status = "none"
  BY DEF RollBack, CacheInv, Shapes, NoGraph
<1>3. Shapes' /\ Locks' /\ OthersKeep(u) /\ Entry(u)'.by # u
  <2>1. /\ DOMAIN job' = Uploads
        /\ \A v \in Uploads : DOMAIN job'[v] = {"step", "doc", "todo", "data", "hits"}
        /\ \A v \in Uploads \ {u} : job'[v] = job[v] /\ graph'[v] = graph[v]
    BY <1>1, <1>2, JobStep
  <2>2. /\ DOMAIN cache' = CacheKeys
        /\ \A k \in CacheKeys : DOMAIN cache'[k] = {"by", "hitBy", "data", "hits", "old"}
        /\ Locks' /\ OthersKeep(u) /\ Entry(u)'.by # u
    BY <1>1, <2>1, SettleStep
  <2> QED
    BY <1>2, <2>1, <2>2 DEF Shapes
<1>4. UploadInv(u)'
  <2>1. job'[u].step = "failed"
    BY <1>1, JobStep
  <2> QED
    BY <1>2, <1>3, <2>1 DEF UploadInv, At, Over
<1> QED
  BY <1>3, <1>4, OthersUndisturbed DEF CacheInv

\* A step that leaves cache, graphs and cleanup alone, before the graph is made.
LEMMA EarlyStep ==
    ASSUME CacheInv, NEW u \in Uploads, UNCHANGED <<cache, graph, doomed, swept>>,
           job[u].step \notin {"graph", "report", "done", "failed"},
           job'[u].step \notin {"hit", "graph", "report", "done", "failed"},
           DOMAIN job' = Uploads,
           \A v \in Uploads : DOMAIN job'[v] = {"step", "doc", "todo", "data", "hits"},
           \A v \in Uploads \ {u} : job'[v] = job[v]
    PROVE CacheInv'
<1>1. Shapes' /\ Locks' /\ OthersKeep(u)
  BY DEF CacheInv, Shapes, Locks, OthersKeep
<1>2. UploadInv(u)'
  BY DEF CacheInv, UploadInv, At, Over, Holds, Entry
<1> QED
  BY <1>1, <1>2, OthersUndisturbed DEF CacheInv

LEMMA NextDocStep ==
    ASSUME CacheInv, NEW u \in Uploads, NEW here, NEW next, NextDoc(u, here, next)
    PROVE /\ DOMAIN job' = Uploads
          /\ \A v \in Uploads : DOMAIN job'[v] = {"step", "doc", "todo", "data", "hits"}
          /\ \A v \in Uploads \ {u} : job'[v] = job[v]
          /\ job'[u].step \in {here, next}
<1>1. CASE job[u].doc < Len(DocsOf[u])
  <2>1. job' = [job EXCEPT ![u] = [job[u] EXCEPT !.step = here, !.doc = job[u].doc + 1]]
    BY <1>1 DEF NextDoc
  <2> QED
    BY <2>1 DEF CacheInv, Shapes
<1>2. CASE ~(job[u].doc < Len(DocsOf[u]))
  <2>1. job' = [job EXCEPT ![u] = [job[u] EXCEPT !.step = next, !.doc = 1]]
    BY <1>2 DEF NextDoc
  <2> QED
    BY <2>1 DEF CacheInv, Shapes
<1> QED
  BY <1>1, <1>2

LEMMA CheckCacheStep ==
    ASSUME CacheInv, NEW u \in Uploads, CheckCache(u) PROVE CacheInv'
<1> DEFINE entry == cache[Key(u)]
<1>1. At(u, "check") /\ UNCHANGED <<cache, graph, doomed, swept>>
  BY DEF CheckCache, rows, cleanup
<1>2. CASE Sees(u, entry.by)
  <2>1. job' = [job EXCEPT ![u] = [job[u] EXCEPT !.step = "hit", !.data = entry.data, !.hits = entry.hits]]
    BY <1>2 DEF CheckCache
  <2>2. /\ DOMAIN job' = Uploads
        /\ \A v \in Uploads : DOMAIN job'[v] = {"step", "doc", "todo", "data", "hits"}
        /\ \A v \in Uploads \ {u} : job'[v] = job[v]
        /\ job'[u].step = "hit" /\ job'[u].data = entry.data
    BY <2>1 DEF CacheInv, Shapes
  <2>3. Shapes' /\ Locks' /\ OthersKeep(u)
    BY <1>1, <2>2 DEF CacheInv, Shapes, Locks, OthersKeep
  <2>4. UploadInv(u)'
    <3>1. graph'[u].status = "none" /\ cache' = cache
      BY <1>1 DEF CacheInv, UploadInv, At, Over
    <3>2. ~swept' => Entry(u)'.by = Kept /\ Entry(u)'.data = job'[u].data
      <4>1. entry.by = u \/ entry.by = Kept
        BY <1>2 DEF Sees
      <4>2. entry.by # u
        BY <1>1 DEF CacheInv, UploadInv, At, Entry
      <4> QED
        BY <2>2, <3>1, <4>1, <4>2 DEF Entry
    <3>3. Entry(u)'.by # u
      BY <1>1, <3>1 DEF CacheInv, UploadInv, At, Entry
    <3> QED
      BY <2>2, <3>1, <3>2, <3>3 DEF UploadInv, At, Over
  <2> QED
    BY <2>3, <2>4, OthersUndisturbed DEF CacheInv
<1>3. CASE ~Sees(u, entry.by)
  <2>1. job' = [job EXCEPT ![u] = [job[u] EXCEPT !.step = "extract", !.todo = ChunkList(u)]]
    BY <1>3 DEF CheckCache
  <2>2. /\ DOMAIN job' = Uploads
        /\ \A v \in Uploads : DOMAIN job'[v] = {"step", "doc", "todo", "data", "hits"}
        /\ \A v \in Uploads \ {u} : job'[v] = job[v]
        /\ job'[u].step = "extract"
    BY <2>1 DEF CacheInv, Shapes
  <2> QED
    BY <1>1, <2>2, EarlyStep DEF At
<1> QED
  BY <1>2, <1>3

LEMMA SaveHitStep ==
    ASSUME CacheInv, NEW u \in Uploads, SaveHit(u) PROVE CacheInv'
<1>1. At(u, "hit") /\ Entry(u).hitBy \in {u, NoOne} /\ UNCHANGED <<doomed, swept>>
  BY KeyInCache DEF SaveHit, Ready, Blocker, At, Entry, cleanup, CacheInv, Locks
<1>2. CASE RollBack(u)
  BY <1>1, <1>2, RollBackStep
<1>3. CASE /\ Sees(u, cache[Key(u)].by) /\ Goto(u, "graph")
           /\ cache' = [cache EXCEPT ![Key(u)].hitBy = u]
           /\ UNCHANGED <<documents, access, chunked, graph>>
  <2>1. Entry(u).by = Kept /\ graph[u].status = "none"
    BY <1>1, <1>3 DEF Sees, Entry, CacheInv, UploadInv, At, Over
  <2>2. /\ DOMAIN cache' = CacheKeys
        /\ \A k \in CacheKeys :
            /\ DOMAIN cache'[k] = {"by", "hitBy", "data", "hits", "old"}
            /\ cache'[k].by = cache[k].by /\ cache'[k].data = cache[k].data
            /\ cache'[k].hitBy = IF k = Key(u) THEN u ELSE cache[k].hitBy
    BY <1>3, KeyInCache DEF CacheInv, Shapes
  <2>3. Shapes'
    BY <1>3, <2>2, JobStep DEF CacheInv, Shapes
  <2>4. Locks'
    BY <1>1, <2>1, <2>2 DEF CacheInv, Locks, Entry
  <2>5. OthersKeep(u)
    BY <1>1, <1>3, <2>2, JobStep, OwnersDiffer DEF OthersKeep, Entry
  <2>6. UploadInv(u)'
    <3>1. Holds(u)' /\ Entry(u)'.data = Entry(u).data
      BY <2>1, <2>2, KeyInCache DEF Holds, Entry
    <3>2. job'[u].step = "graph" /\ job'[u].data = job[u].data /\ graph' = graph
      BY <1>3, JobStep
    <3>3. ~swept => Entry(u).data = job[u].data
      BY <1>1 DEF CacheInv, UploadInv
    <3> QED
      BY <1>1, <2>1, <3>1, <3>2, <3>3 DEF UploadInv, At, Over
  <2> QED
    BY <2>3, <2>4, <2>5, <2>6, OthersUndisturbed DEF CacheInv
<1> QED
  BY <1>2, <1>3 DEF SaveHit

LEMMA PersistCacheStep ==
    ASSUME CacheInv, NEW u \in Uploads, PersistCache(u) PROVE CacheInv'
<1>1. At(u, "persist") /\ Entry(u).by \in {u, Kept, NoOne} /\ UNCHANGED <<doomed, swept>>
  BY KeyInCache DEF PersistCache, Ready, Blocker, At, Entry, cleanup, CacheInv, Locks, Owners
<1>2. CASE RollBack(u)
  BY <1>1, <1>2, RollBackStep
<1>3. CASE /\ ~EntryInTheWay(u) /\ Goto(u, "graph")
           /\ cache' = [cache EXCEPT ![Key(u)] = [NoEntry EXCEPT !.by = u, !.data = job[u].data]]
           /\ UNCHANGED <<documents, access, chunked, graph>>
  <2> DEFINE entry == [NoEntry EXCEPT !.by = u, !.data = job[u].data]
  <2>1. /\ entry.by = u /\ entry.hitBy = NoOne /\ entry.data = job[u].data
        /\ DOMAIN entry = {"by", "hitBy", "data", "hits", "old"}
    BY DEF NoEntry
  <2>2. Entry(u).by = NoOne /\ Entry(u).hitBy = NoOne /\ graph[u].status = "none"
    BY <1>1, <1>3, OwnersDiffer, KeyInCache
       DEF EntryInTheWay, Entry, CacheInv, Locks, UploadInv, At, Over
  <2>3. /\ DOMAIN cache' = CacheKeys /\ cache'[Key(u)] = entry
        /\ \A k \in CacheKeys \ {Key(u)} : cache'[k] = cache[k]
    BY <1>3, KeyInCache DEF CacheInv, Shapes
  <2> HIDE DEF entry
  <2>4. Shapes'
    BY <1>3, <2>1, <2>3, JobStep DEF CacheInv, Shapes
  <2>5. Locks'
    <3>1. Key(u) \notin doomed
      BY <2>2, OwnersDiffer DEF CacheInv, Locks, Entry
    <3> QED
      BY <1>1, <2>1, <2>3, <3>1 DEF CacheInv, Locks, Owners
  <2>6. OthersKeep(u)
    BY <1>1, <1>3, <2>1, <2>2, <2>3, JobStep, OwnersDiffer DEF OthersKeep, Entry
  <2>7. UploadInv(u)'
    <3>1. Entry(u)'.by = u /\ Entry(u)'.data = job[u].data
      BY <2>1, <2>3 DEF Entry
    <3>2. job'[u].step = "graph" /\ job'[u].data = job[u].data /\ graph' = graph
      BY <1>3, JobStep
    <3> QED
      BY <2>2, <3>1, <3>2 DEF UploadInv, At, Over, Holds
  <2> QED
    BY <2>4, <2>5, <2>6, <2>7, OthersUndisturbed DEF CacheInv
<1> QED
  BY <1>2, <1>3 DEF PersistCache

LEMMA MaterializeGraphStep ==
    ASSUME CacheInv, NEW u \in Uploads, MaterializeGraph(u) PROVE CacheInv'
<1>1. At(u, "graph") /\ ~Over(u) /\ UNCHANGED <<doomed, swept>>
  BY DEF MaterializeGraph, At, Over, cleanup
<1>2. CASE Fail(u)
  BY <1>1, <1>2, FailStep
<1>3. CASE /\ Goto(u, "report") /\ UNCHANGED <<documents, access, chunked, cache>>
           /\ graph' = [graph EXCEPT ![u] =
                [status |-> "ready",
                 data |-> [mentions |-> job[u].data.mentions, relations |-> Resolved(job[u].data)]]]
  <2>1. /\ DOMAIN graph' = Uploads /\ \A v \in Uploads : DOMAIN graph'[v] = {"status", "data"}
        /\ \A v \in Uploads \ {u} : graph'[v] = graph[v]
        /\ graph'[u].status = "ready"
        /\ graph'[u].data = [mentions |-> job[u].data.mentions, relations |-> Resolved(job[u].data)]
    BY <1>3 DEF CacheInv, Shapes
  <2>2. Shapes' /\ Locks' /\ OthersKeep(u)
    BY <1>1, <1>3, <2>1, JobStep DEF CacheInv, Shapes, Locks, OthersKeep
  <2>3. UploadInv(u)'
    <3>1. Holds(u) /\ (~swept => Entry(u).data = job[u].data)
      BY <1>1 DEF CacheInv, UploadInv
    <3>2. Holds(u)' /\ Entry(u)' = Entry(u)
      BY <1>3, <3>1 DEF Holds, Entry
    <3>3. job'[u].step = "report"
      BY <1>3, JobStep
    <3> QED
      BY <1>1, <2>1, <3>1, <3>2, <3>3 DEF UploadInv, At, Over
  <2> QED
    BY <2>2, <2>3, OthersUndisturbed DEF CacheInv
<1> QED
  BY <1>2, <1>3 DEF MaterializeGraph

LEMMA ReportStep ==
    ASSUME CacheInv, NEW u \in Uploads, Report(u) PROVE CacheInv'
<1>1. At(u, "report") /\ Goto(u, "done") /\ Settle(u, TRUE) /\ UNCHANGED <<graph, doomed, swept>>
  BY DEF Report, cleanup
<1>2. /\ Shapes' /\ Locks' /\ OthersKeep(u) /\ Entry(u)'.by # u
      /\ Holds(u) => Entry(u)'.by = Kept /\ Entry(u)'.data = Entry(u).data
  BY <1>1, JobStep, SettleStep DEF CacheInv, Shapes
<1>3. UploadInv(u)'
  <2>1. UploadInv(u) /\ Holds(u)
    BY <1>1 DEF CacheInv, UploadInv
  <2>2. job'[u].step = "done"
    BY <1>1, JobStep
  <2> QED
    BY <1>1, <1>2, <2>1, <2>2 DEF UploadInv, At, Over
<1> QED
  BY <1>2, <1>3, OthersUndisturbed DEF CacheInv

\* Only rows that no graph refers to are deleted, and none that is locked.
LEMMA DeleteCandidatesStep ==
    ASSUME CacheInv, DeleteCandidates PROVE CacheInv'
<1> DEFINE gone == IF \E k \in doomed : Referenced(k) THEN {} ELSE doomed
<1>1. /\ DOMAIN cache' = CacheKeys /\ doomed' = {} /\ swept' = (swept \/ gone # {})
      /\ \A k \in CacheKeys : cache'[k] = IF k \in gone THEN NoEntry ELSE cache[k]
      /\ UNCHANGED <<job, graph>>
  BY DEF DeleteCandidates
<1>2. \A k \in gone : cache[k].by = Kept /\ cache[k].hitBy = NoOne /\ ~Referenced(k)
  BY DEF DeleteCandidates, CacheInv, Locks
<1>3. /\ NoEntry.by = NoOne /\ NoEntry.hitBy = NoOne
      /\ DOMAIN NoEntry = {"by", "hitBy", "data", "hits", "old"}
  BY DEF NoEntry
<1> HIDE DEF gone
<1>4. Shapes' /\ Locks'
  BY <1>1, <1>3 DEF CacheInv, Shapes, Locks, Owners
<1>5. ASSUME NEW u \in Uploads PROVE UploadInv(u)'
  <2>1. UploadInv(u) /\ Key(u) \in CacheKeys
    BY KeyInCache DEF CacheInv
  <2>2. CASE Key(u) \notin gone
    <3>1. Entry(u)' = Entry(u) /\ (~swept' => ~swept)
      BY <1>1, <2>1, <2>2 DEF Entry
    <3> QED
      BY <1>1, <2>1, <3>1 DEF UploadInv, At, Over, Holds
  <2>3. CASE Key(u) \in gone
    <3>1. swept' /\ Entry(u)'.by = NoOne
      BY <1>1, <1>3, <2>1, <2>3 DEF Entry
    <3>2. ~At(u, "graph") /\ ~At(u, "report") /\ ~(Over(u) /\ graph[u].status # "none")
      BY <1>2, <2>1, <2>3, OwnersDiffer DEF UploadInv, Holds, Entry, Referenced
    <3> QED
      BY <1>1, <2>1, <3>1, <3>2, OwnersDiffer DEF UploadInv, At, Over
  <2> QED
    BY <2>2, <2>3
<1> QED
  BY <1>4, <1>5 DEF CacheInv

LEMMA CacheInvInit == Init => CacheInv
<1> SUFFICES ASSUME Init PROVE CacheInv
  OBVIOUS
<1>1. PICK far \in Earlier :
        cache = [k \in CacheKeys |->
            IF far = "extraction" THEN [NoEntry EXCEPT !.by = Kept, !.old = TRUE] ELSE NoEntry]
  BY DEF Init
<1>2. ASSUME NEW k \in CacheKeys
      PROVE /\ DOMAIN cache[k] = {"by", "hitBy", "data", "hits", "old"}
            /\ cache[k].by \in {Kept, NoOne} /\ cache[k].hitBy = NoOne
  <2>1. CASE far = "extraction"
    <3>1. cache[k] = [NoEntry EXCEPT !.by = Kept, !.old = TRUE]
      BY <1>1, <2>1
    <3> QED
      BY <3>1 DEF NoEntry
  <2>2. CASE far # "extraction"
    BY <1>1, <2>2 DEF NoEntry
  <2> QED
    BY <2>1, <2>2
<1>3. /\ DOMAIN job = Uploads /\ DOMAIN graph = Uploads /\ DOMAIN cache = CacheKeys /\ doomed = {}
      /\ \A u \in Uploads :
            /\ DOMAIN job[u] = {"step", "doc", "todo", "data", "hits"} /\ job[u].step = "start"
            /\ DOMAIN graph[u] = {"status", "data"} /\ graph[u].status = "none"
  BY <1>1 DEF Init, NewJob, NoGraph
<1> QED
  BY <1>2, <1>3, KeyInCache, OwnersDiffer
     DEF CacheInv, Shapes, Locks, UploadInv, Owners, At, Over, Entry

LEMMA CacheInvNext == CacheInv /\ [Next]_vars => CacheInv'
<1> SUFFICES ASSUME CacheInv, [Next]_vars PROVE CacheInv'
  OBVIOUS
<1>1. ASSUME UNCHANGED <<job, cache, graph, doomed, swept>> PROVE CacheInv'
  BY <1>1 DEF CacheInv, Shapes, Locks, UploadInv, At, Over, Holds, Entry
<1>2. ASSUME NEW u \in Uploads, Start(u) \/ IngestDocument(u) \/ Chunk(u) PROVE CacheInv'
  <2>1. CASE Start(u)
    <3>1. At(u, "start") /\ Goto(u, "ingest") /\ UNCHANGED <<cache, graph, doomed, swept>>
      BY <2>1 DEF Start, rows, cleanup
    <3> QED
      BY <3>1, JobStep, EarlyStep DEF At
  <2>2. CASE IngestDocument(u)
    <3>1. At(u, "ingest") /\ NextDoc(u, "ingest", "chunk") /\ UNCHANGED <<cache, graph, doomed, swept>>
      BY <2>2 DEF IngestDocument, Ready, cleanup
    <3>2. job'[u].step \in {"ingest", "chunk"}
      BY <3>1, NextDocStep
    <3> QED
      BY <3>1, <3>2, NextDocStep, EarlyStep DEF At
  <2>3. CASE Chunk(u)
    <3>1. At(u, "chunk") /\ UNCHANGED <<cache, graph, doomed, swept>>
      BY <2>3 DEF Chunk, rows, cleanup
    <3>2. CASE NextDoc(u, "chunk", "check")
      <4>1. job'[u].step \in {"chunk", "check"}
        BY <3>2, NextDocStep
      <4> QED
        BY <3>1, <3>2, <4>1, NextDocStep, EarlyStep DEF At
    <3>3. CASE Goto(u, "split")
      BY <3>1, <3>3, JobStep, EarlyStep DEF At
    <3> QED
      BY <2>3, <3>2, <3>3 DEF Chunk
  <2> QED
    BY <1>2, <2>1, <2>2, <2>3
<1>3. ASSUME NEW u \in Uploads, CreateChunks(u) PROVE CacheInv'
  <2>1. At(u, "split") /\ UNCHANGED <<doomed, swept>>
    BY <1>3 DEF CreateChunks, Ready, cleanup
  <2>2. CASE RollBack(u)
    BY <2>1, <2>2, RollBackStep
  <2>3. CASE NextDoc(u, "chunk", "check") /\ UNCHANGED <<cache, graph>>
    <3>1. job'[u].step \in {"chunk", "check"}
      BY <2>3, NextDocStep
    <3> QED
      BY <2>1, <2>3, <3>1, NextDocStep, EarlyStep DEF At
  <2> QED
    BY <1>3, <2>2, <2>3 DEF CreateChunks
<1>4. ASSUME NEW u \in Uploads, AskModel(u) PROVE CacheInv'
  BY <1>1, <1>4 DEF AskModel, knowledgeVars, rows, cleanup
<1>5. ASSUME NEW u \in Uploads, ExtractFromChunk(u) PROVE CacheInv'
  <2>1. At(u, "extract") /\ UNCHANGED <<cache, graph, doomed, swept>>
    BY <1>5 DEF ExtractFromChunk, rows, cleanup
  <2>2. PICK f : job' = [job EXCEPT ![u] = [job[u] EXCEPT
                    !.todo = Rest(u), !.data = Both(job[u].data, Validated(f)),
                    !.step = IF Rest(u) = << >> THEN "persist" ELSE job[u].step]]
    BY <1>5 DEF ExtractFromChunk
  <2>3. /\ DOMAIN job' = Uploads
        /\ \A v \in Uploads : DOMAIN job'[v] = {"step", "doc", "todo", "data", "hits"}
        /\ \A v \in Uploads \ {u} : job'[v] = job[v]
        /\ job'[u].step \in {"persist", "extract"}
    BY <2>1, <2>2 DEF CacheInv, Shapes, At
  <2> QED
    BY <2>1, <2>3, EarlyStep DEF At
<1>6. ASSUME NEW u \in Uploads, Abort(u) \/ Deadlock(u) PROVE CacheInv'
  <2>1. UNCHANGED <<doomed, swept>> /\ (RollBack(u) \/ (~Over(u) /\ Fail(u)))
    BY <1>6 DEF Abort, Deadlock, At, Over, cleanup
  <2> QED
    BY <2>1, RollBackStep, FailStep
<1>7. ASSUME NEW u \in Uploads, UploadStep(u) PROVE CacheInv'
  BY <1>2, <1>3, <1>4, <1>5, <1>7, CheckCacheStep, SaveHitStep, PersistCacheStep,
     MaterializeGraphStep, ReportStep DEF UploadStep
<1>8. CASE ChooseCandidates
  <2>1. /\ UNCHANGED <<job, cache, graph, swept>>
        /\ \A k \in doomed' : k \in CacheKeys /\ cache[k].by = Kept
    BY <1>8 DEF ChooseCandidates, rows
  <2> QED
    BY <2>1 DEF CacheInv, Shapes, Locks, UploadInv, At, Over, Holds, Entry
<1>9. ASSUME NEW k \in CacheKeys, Age(k) PROVE CacheInv'
  <2>1. /\ UNCHANGED <<job, graph, doomed, swept>> /\ DOMAIN cache' = CacheKeys
        /\ \A j \in CacheKeys :
            /\ DOMAIN cache'[j] = {"by", "hitBy", "data", "hits", "old"}
            /\ cache'[j].by = cache[j].by /\ cache'[j].hitBy = cache[j].hitBy
            /\ cache'[j].data = cache[j].data
    BY <1>9 DEF Age, cleanup, CacheInv, Shapes
  <2>2. Shapes' /\ Locks'
    BY <2>1 DEF CacheInv, Shapes, Locks
  <2>3. ASSUME NEW u \in Uploads PROVE UploadInv(u)'
    BY <2>1, KeyInCache DEF CacheInv, UploadInv, At, Over, Holds, Entry
  <2> QED
    BY <2>2, <2>3 DEF CacheInv
<1>10. ASSUME NEW c \in Callers, Asked(c) PROVE CacheInv'
  BY <1>1, <1>10 DEF Asked, knowledgeVars, rows, cleanup
<1>11. ASSUME NEW c \in Others, AskOther(c) \/ CollectOther(c) PROVE CacheInv'
  BY <1>1, <1>11 DEF AskOther, CollectOther, knowledgeVars, rows, cleanup
<1>12. CASE UNCHANGED vars
  BY <1>1, <1>12 DEF vars, knowledgeVars, rows, cleanup
<1> QED
  BY <1>2, <1>6, <1>7, <1>8, <1>9, <1>10, <1>11, <1>12, DeleteCandidatesStep DEF Next

\* A graph's cache row is there for good, and what the explorer shows agrees
\* with it as long as the cleanup has deleted nothing, for any number of uploads
\* and documents, whoever waits, fails or is rolled back.
THEOREM GraphsKeepTheirCache == Spec => []GraphsRestOnCache
<1>1. CacheInv => GraphsRestOnCache
  <2> SUFFICES ASSUME CacheInv, NEW u \in Uploads
               PROVE /\ graph[u].status # "none" => Sees(u, cache[Key(u)].by)
                     /\ graph[u].status = "ready" /\ ~swept =>
                          /\ Shown(u).mentions = cache[Key(u)].data.mentions
                          /\ Shown(u).relations = Resolved(cache[Key(u)].data)
    BY DEF GraphsRestOnCache
  <2>1. UploadInv(u)
    BY DEF CacheInv
  <2>2. graph[u].status # "none" => Sees(u, cache[Key(u)].by)
    BY <2>1 DEF UploadInv, Holds, Entry, Sees
  <2>3. ASSUME graph[u].status = "ready", ~swept
        PROVE Shown(u) = [mentions |-> cache[Key(u)].data.mentions,
                          relations |-> Resolved(cache[Key(u)].data)]
    BY <2>1, <2>3 DEF UploadInv, Entry, Shown
  <2> QED
    BY <2>2, <2>3
<1> QED
  BY <1>1, CacheInvInit, CacheInvNext, PTL DEF Spec

-----------------------------------------------------------------------------
(* The rows of the gateway keep their types: a key is asked once more only  *)
(* while it has attempts left, so that its requests never exceed them.      *)

CallRow(c) ==
    [state : {"idle", "asking", "answered", "raised"}, nth : DOMAIN Chain[c],
     attempt : 0 .. MaxRetries, keysTried : {0} \cup KeyIds]
GatewayRow(c) ==
    /\ call[c] \in CallRow(c) /\ lastUsed[c] \in DOMAIN Keys
    /\ \A n \in DOMAIN Chain[c] : keyInUse[c][n] \in 1 .. Keys[Chain[c][n]]
    /\ tries[c] \in [DOMAIN Chain[c] -> [KeyIds -> 0 .. MaxRetries + 1]]
    /\ logged[c] \in Seq({"ok", "limited", "refused"})

LEMMA RowsAreTyped == GatewayTypeOK <=> \A c \in Callers : GatewayRow(c)
BY DEF GatewayTypeOK, GatewayRow, CallRow

LEMMA FirstCallIn ==
    ASSUME NEW c \in Callers, NEW n \in DOMAIN Chain[c],
           NEW state \in {"idle", "asking", "answered", "raised"}
    PROVE NewCall(state, n) \in CallRow(c) /\ Chain[c][n] \in DOMAIN Keys
<1>1. 1 \in KeyIds
  <2>1. 1 \in 1 .. Keys[Chain[c][n]]
    BY KeysAreKeyIds
  <2> QED
    BY <2>1, KeysAreKeyIds
<1>2. 0 \in 0 .. MaxRetries
  BY GatewayAssumption
<1> QED
  BY <1>1, <1>2, GatewayAssumption DEF NewCall, CallRow

LEMMA SentIn ==
    ASSUME GatewayInv, NEW c \in Callers, GatewayRow(c), call[c].state = "asking", Sent(c)
    PROVE tries'[c] \in [DOMAIN Chain[c] -> [KeyIds -> 0 .. MaxRetries + 1]]
<1>1. Progress(c)
  BY DEF GatewayInv, CallInv
<1>2. ASSUME NEW n \in DOMAIN Chain[c], NEW k \in KeyIds PROVE tries'[c][n][k] \in 0 .. MaxRetries + 1
  <2>1. tries[c][n][k] \in 0 .. MaxRetries + 1
    BY DEF GatewayRow
  <2>2. CASE n = call[c].nth /\ k = ApiKey(c)
    <3>1. tries[c][n][k] \in 0 .. MaxRetries
      BY <1>1, <2>2 DEF Progress
    <3>2. tries'[c][n][k] = tries[c][n][k] + 1
      BY <2>2, SentOnce
    <3> QED
      BY <3>1, <3>2, GatewayAssumption
  <2>3. CASE ~(n = call[c].nth /\ k = ApiKey(c))
    BY <2>1, <2>3, SentOnce
  <2> QED
    BY <2>2, <2>3
<1>3. tries'[c] \in [DOMAIN Chain[c] -> [KeyIds -> Nat]]
  BY SentOnce
<1>4. \A n \in DOMAIN Chain[c] : tries'[c][n] \in [KeyIds -> 0 .. MaxRetries + 1]
  BY <1>2, <1>3
<1> QED
  BY <1>3, <1>4

LEMMA GaveUpIn ==
    ASSUME GatewayInv, NEW c \in Callers, GatewayRow(c), NEW reason, call[c].state = "asking",
           GiveUp(c, reason)
    PROVE call'[c] \in CallRow(c)
<1>1. call[c] \in CallRow(c) /\ DOMAIN call = Callers
  BY DEF GatewayRow, GatewayInv, CallTypes
<1>2. CASE call[c].nth = Len(Chain[c])
  <2>1. call'[c] = [call[c] EXCEPT !.state = "raised"]
    BY <1>1, <1>2 DEF GiveUp
  <2> QED
    BY <1>1, <2>1 DEF CallRow
<1>3. CASE call[c].nth # Len(Chain[c])
  <2>1. call'[c] = NewCall("asking", call[c].nth + 1)
    BY <1>1, <1>3 DEF GiveUp
  <2>2. call[c].nth + 1 \in DOMAIN Chain[c]
    BY <1>1, <1>3, GatewayAssumption DEF CallRow
  <2> QED
    BY <2>1, <2>2, FirstCallIn
<1> QED
  BY <1>2, <1>3

LEMMA RateLimitedIn ==
    ASSUME GatewayInv, NEW c \in Callers, GatewayRow(c), RateLimited(c)
    PROVE call'[c] \in CallRow(c)
<1>1. call[c].state = "asking" /\ Progress(c)
  BY DEF RateLimited, GatewayInv, CallInv
<1>2. call[c] \in CallRow(c) /\ DOMAIN call = Callers
  BY DEF GatewayRow, GatewayInv, CallTypes
<1>3. CASE call[c].attempt < MaxRetries /\ call' = [call EXCEPT ![c].attempt = @ + 1]
  <2>1. call'[c] = [call[c] EXCEPT !.attempt = call[c].attempt + 1]
    BY <1>2, <1>3
  <2>2. call[c].attempt + 1 \in 0 .. MaxRetries
    BY <1>1, <1>3, GatewayAssumption DEF Progress
  <2> QED
    BY <1>2, <2>1, <2>2 DEF CallRow
<1>4. CASE /\ ~Exhausted(c)
           /\ call' = [call EXCEPT ![c].attempt = 0, ![c].keysTried = Counted(c)]
  <2>1. call'[c] = [call[c] EXCEPT !.attempt = 0, !.keysTried = Counted(c)]
    BY <1>2, <1>4
  <2>2. /\ Keys[Provider(c)] \in Nat \ {0} /\ call[c].keysTried \in 0 .. Keys[Provider(c)] - 1
        /\ call[c].nth \in DOMAIN Chain[c]
    BY <1>1, KeyInUse DEF Progress
  <2>3. Counted(c) \in 1 .. Keys[Provider(c)]
    BY <2>2 DEF Counted
  <2>4. Counted(c) \in KeyIds /\ 0 \in 0 .. MaxRetries
    BY <2>2, <2>3, KeysAreKeyIds, GatewayAssumption DEF Provider
  <2> QED
    BY <1>2, <2>1, <2>4 DEF CallRow
<1> QED
  BY <1>1, <1>3, <1>4, GaveUpIn DEF RateLimited

LEMMA GatewayTypeStep ==
    ASSUME GatewayInv, GatewayTypeOK, NEW c \in Callers,
           GatewayStep(c) \/ Ask(c) \/ AskAgain(c) \/ Done(c)
    PROVE GatewayTypeOK'
<1>1. GatewayRow(c) /\ DOMAIN call = Callers /\ DOMAIN lastUsed = Callers /\ DOMAIN tries = Callers
  BY RowsAreTyped DEF GatewayInv, CallTypes
<1>2. \A n \in DOMAIN Chain[c] : Chain[c][n] \in DOMAIN Keys
  BY FirstCallIn
<1>3. 1 \in DOMAIN Chain[c]
  BY GatewayAssumption
<1>4. /\ logged' \in [Callers -> Seq({"ok", "limited", "refused"})]
      /\ \A d \in Callers : KeysInUse(d)'
  BY GatewayInvStep DEF GatewayInv, CallTypes
<1>5. call'[c] \in CallRow(c)
  <2>1. CASE Answer(c)
    <3>1. call'[c] = [call[c] EXCEPT !.state = "answered"]
      BY <1>1, <2>1 DEF Answer
    <3> QED
      BY <1>1, <3>1 DEF GatewayRow, CallRow
  <2>2. CASE RateLimited(c)
    BY <1>1, <2>2, RateLimitedIn
  <2>3. CASE Refused(c)
    BY <1>1, <2>3, GaveUpIn DEF Refused
  <2>4. CASE Begin(c)
    BY <1>1, <1>3, <2>4, FirstCallIn DEF Begin
  <2>5. CASE Done(c)
    BY <1>1, <1>3, <2>5, FirstCallIn DEF Done, NoCall
  <2> QED
    BY <2>1, <2>2, <2>3, <2>4, <2>5 DEF GatewayStep, Ask, AskAgain
<1>6. lastUsed'[c] \in DOMAIN Keys
  <2>1. lastUsed[c] \in DOMAIN Keys /\ call[c].nth \in DOMAIN Chain[c]
    BY <1>1 DEF GatewayRow, CallRow
  <2> QED
    BY <1>1, <1>2, <1>3, <2>1 DEF GatewayStep, Answer, RateLimited, Refused, Ask, AskAgain, Done, Provider
<1>7. tries'[c] \in [DOMAIN Chain[c] -> [KeyIds -> 0 .. MaxRetries + 1]]
  <2>1. CASE GatewayStep(c)
    BY <1>1, <2>1, SentIn DEF GatewayStep, Answer, RateLimited, Refused
  <2>2. CASE Ask(c) \/ AskAgain(c)
    BY <1>1, <2>2 DEF Ask, AskAgain, GatewayRow
  <2>3. CASE Done(c)
    BY <1>1, <2>3, GatewayAssumption DEF Done, Fresh
  <2> QED
    BY <2>1, <2>2, <2>3
<1>8. ASSUME NEW d \in Callers \ {c} PROVE GatewayRow(d)'
  <2>1. call'[d] = call[d] /\ lastUsed'[d] = lastUsed[d] /\ tries'[d] = tries[d]
    <3>1. call'[d] = call[d]
      BY <1>1 DEF GatewayStep, Answer, RateLimited, Refused, GiveUp, Ask, AskAgain, Begin, Done
    <3>2. lastUsed'[d] = lastUsed[d]
      BY <1>1 DEF GatewayStep, Answer, RateLimited, Refused, Ask, AskAgain, Done
    <3>3. tries'[d] = tries[d]
      BY <1>1 DEF GatewayStep, Answer, RateLimited, Refused, Sent, Ask, AskAgain, Done
    <3> QED
      BY <3>1, <3>2, <3>3
  <2>2. GatewayRow(d)
    BY RowsAreTyped
  <2> QED
    BY <1>4, <2>1, <2>2 DEF GatewayRow, KeysInUse
<1>9. GatewayRow(c)'
  BY <1>4, <1>5, <1>6, <1>7 DEF GatewayRow, KeysInUse
<1>10. \A d \in Callers : GatewayRow(d)'
  BY <1>8, <1>9
<1> QED
  BY <1>10 DEF GatewayTypeOK, GatewayRow, CallRow

LEMMA GatewayTypeInit == GatewayInit => GatewayTypeOK
<1> SUFFICES ASSUME GatewayInit, NEW c \in Callers PROVE GatewayRow(c)
  BY RowsAreTyped
<1>1. 1 \in DOMAIN Chain[c] /\ 0 \in 0 .. MaxRetries + 1
  BY GatewayAssumption
<1>2. NoCall \in CallRow(c) /\ Chain[c][1] \in DOMAIN Keys
  BY <1>1, FirstCallIn DEF NoCall
<1> QED
  BY <1>1, <1>2, GatewayAssumption DEF GatewayInit, GatewayRow, Fresh, FirstKeys

-----------------------------------------------------------------------------
(* The rows of the pipeline keep their types.  An upload is left with a     *)
(* chunk to extract from until it goes on; the documents it has access to   *)
(* are its own or committed, since nobody writes over the row of an upload  *)
(* that goes on; and a hit is counted once per upload, at its end, so that  *)
(* the count it has read is at most the number of those that were over.     *)

Mentions == UNION {f.mentions : f \in Findings}
Relations == UNION {f.relations : f \in Findings}
JobType == [step : Steps, doc : Nat, todo : Seq(DOMAIN Found), data : Extraction, hits : Nat]
EntryType == [by : Owners, hitBy : Uploads \cup {NoOne}, data : Extraction, hits : Nat, old : BOOLEAN]
GraphType == [status : {"none", "ready", "failed"}, data : Extraction]

JobsIn ==
    /\ job \in [Uploads -> JobType] /\ graph \in [Uploads -> GraphType]
    /\ \A u \in Uploads : /\ job[u].doc \in DOMAIN DocsOf[u]
                          /\ At(u, "extract") => job[u].todo # << >>
RowsIn ==
    /\ cache \in [CacheKeys -> EntryType]
    /\ documents \in [Docs -> Owners] /\ chunked \in [Docs -> Owners]
    /\ access \subseteq Uploads \X Docs /\ \A a \in access : Sees(a[1], documents[a[2]])
    /\ doomed \subseteq CacheKeys
Ended == {u \in Uploads : Over(u)}
HitsIn ==
    /\ \A u \in Uploads : job[u].hits <= Cardinality(Ended)
    /\ \A k \in CacheKeys : cache[k].hits <= Cardinality(Ended)
PipelineInv == JobsIn /\ RowsIn /\ HitsIn

LEMMA DocsAre ==
    ASSUME NEW u \in Uploads
    PROVE /\ DOMAIN DocsOf[u] = 1 .. Len(DocsOf[u]) /\ Len(DocsOf[u]) \in Nat /\ 1 \in DOMAIN DocsOf[u]
          /\ \A n \in DOMAIN DocsOf[u] : DocsOf[u][n] \in Docs
BY KnowledgeAssumption

LEMMA UploadsFinite == IsFiniteSet(Uploads)
BY KnowledgeAssumption, FS_Subset

LEMMA ExtractionIs ==
    /\ Extraction = [mentions : SUBSET Mentions, relations : SUBSET Relations]
    /\ Nothing \in Extraction
    /\ \A f, g \in Extraction : Both(f, g) \in Extraction
    /\ \A f \in Findings : Validated(f) \in Extraction
    /\ \A f \in Extraction : [mentions |-> f.mentions, relations |-> Resolved(f)] \in Extraction
<1>1. Extraction = [mentions : SUBSET Mentions, relations : SUBSET Relations]
  BY DEF Extraction, Mentions, Relations
<1>2. ASSUME NEW f \in Findings
      PROVE /\ f = [mentions |-> f.mentions, relations |-> f.relations]
            /\ f.mentions \subseteq Mentions /\ f.relations \subseteq Relations
  <2>1. f = [mentions |-> f.mentions, relations |-> f.relations]
    <3>1. CASE f = Nothing
      BY <3>1 DEF Nothing
    <3>2. ASSUME NEW x \in DOMAIN Found, f \in Found[x]
          PROVE f = [mentions |-> f.mentions, relations |-> f.relations]
      BY <3>2, KnowledgeAssumption
    <3> QED
      BY <3>1, <3>2 DEF Findings
  <2> QED
    BY <2>1 DEF Mentions, Relations
<1>3. Nothing \in Extraction
  BY <1>1 DEF Nothing
<1> HIDE DEF Mentions, Relations
<1>4. ASSUME NEW f \in Extraction, NEW g \in Extraction PROVE Both(f, g) \in Extraction
  BY <1>1, <1>4 DEF Both
<1>5. ASSUME NEW f \in Findings PROVE Validated(f) \in Extraction
  <2> DEFINE m == f.mentions
             r == f.relations
             v == {x \in m : x[1] \in Ontology}
  <2>1. f = [mentions |-> m, relations |-> r] /\ v \subseteq Mentions /\ r \subseteq Relations
    BY <1>2
  <2>2. Validated(f) = [f EXCEPT !.mentions = v]
    BY DEF Validated
  <2> HIDE DEF m, r, v
  <2>3. Validated(f) = [mentions |-> v, relations |-> r]
    BY <2>1, <2>2
  <2> QED
    BY <1>1, <2>1, <2>3
<1>6. ASSUME NEW f \in Extraction PROVE [mentions |-> f.mentions, relations |-> Resolved(f)] \in Extraction
  BY <1>1, <1>6 DEF Resolved
<1> QED
  BY <1>1, <1>3, <1>4, <1>5, <1>6

\* The places are those from the first to the last, each taken once: whoever
\* comes later has more chunks up to it.
LEMMA ChunkListIs ==
    ASSUME NEW u \in Uploads PROVE ChunkList(u) \in Seq(DOMAIN Found) /\ ChunkList(u) # << >>
<1> DEFINE S == ChunksOf(u)
           n == Cardinality(S)
           place == [x \in S |-> Cardinality(UpTo(u, x))]
<1>1. S \subseteq DOMAIN Found /\ S \subseteq Nat \X Nat /\ S # {} /\ IsFiniteSet(S)
  <2>1. ASSUME NEW d \in ToSet(DocsOf[u])
        PROVE d \in Docs /\ d \in Nat /\ ChunkCount[d] \in Nat \ {0} /\ IsFiniteSet({d} \X (1 .. ChunkCount[d]))
    <3>1. d \in Docs
      BY DocsAre DEF ToSet
    <3>2. d \in Nat /\ ChunkCount[d] \in Nat \ {0}
      BY <3>1, KnowledgeAssumption
    <3>3. IsFiniteSet({d})
      BY FS_Singleton
    <3>4. \A m \in Nat : IsFiniteSet(1 .. m)
      BY FS_Interval
    <3>5. IsFiniteSet(1 .. ChunkCount[d])
      BY <3>2, <3>4
    <3>6. IsFiniteSet({d} \X (1 .. ChunkCount[d]))
      BY <3>3, <3>5, FS_Product
    <3> QED
      BY <3>1, <3>2, <3>6
  <2>2. IsFiniteSet(ToSet(DocsOf[u]))
    <3>1. ToSet(DocsOf[u]) \subseteq Docs
      BY <2>1
    <3> QED
      BY <3>1, KnowledgeAssumption, FS_Subset
  <2>3. IsFiniteSet(S)
    <3> DEFINE T == {{d} \X (1 .. ChunkCount[d]) : d \in ToSet(DocsOf[u])}
    <3>1. IsFiniteSet(T)
      <4> DEFINE f == [d \in ToSet(DocsOf[u]) |-> {d} \X (1 .. ChunkCount[d])]
      <4>1. IsFiniteSet({f[d] : d \in ToSet(DocsOf[u])})
        <5>1. DOMAIN f = ToSet(DocsOf[u])
          OBVIOUS
        <5> HIDE DEF f
        <5> QED
          BY <2>2, <5>1, ImageIsFinite
      <4>2. T = {f[d] : d \in ToSet(DocsOf[u])}
        OBVIOUS
      <4> QED
        BY <4>1, <4>2
    <3>2. \A t \in T : IsFiniteSet(t)
      BY <2>1
    <3>3. S = UNION T
      BY DEF ChunksOf
    <3> HIDE DEF S, T
    <3> QED
      BY <3>1, <3>2, <3>3, FS_UNION
  <2>4. S \subseteq Nat \X Nat /\ S \subseteq DOMAIN Found
    <3>1. ASSUME NEW x \in S PROVE x \in Nat \X Nat /\ x \in DOMAIN Found
      <4>1. PICK d \in ToSet(DocsOf[u]) : x \in {d} \X (1 .. ChunkCount[d])
        BY <3>1 DEF ChunksOf
      <4>2. PICK i \in 1 .. ChunkCount[d] : x = <<d, i>>
        BY <4>1
      <4>3. d \in Docs /\ d \in Nat /\ i \in Nat
        <5>1. d \in Docs /\ d \in Nat /\ ChunkCount[d] \in Nat
          BY <2>1
        <5>2. \A w \in Nat : \A j \in 1 .. w : j \in Nat
          OBVIOUS
        <5> QED
          BY <5>1, <5>2
      <4>4. <<d, i>> \in DOMAIN Found
        BY <4>3, KnowledgeAssumption
      <4> QED
        BY <4>2, <4>3, <4>4
    <3> QED
      BY <3>1
  <2>5. S # {}
    <3>1. DocsOf[u][1] \in ToSet(DocsOf[u])
      BY DocsAre DEF ToSet
    <3>2. ChunkCount[DocsOf[u][1]] \in Nat \ {0}
      BY <2>1, <3>1
    <3> DEFINE w == ChunkCount[DocsOf[u][1]]
    <3>4. 1 \in 1 .. w
      <4> HIDE DEF w
      <4>1. w \in Nat \ {0}
        BY <3>2 DEF w
      <4> QED
        BY <4>1
    <3>3. <<DocsOf[u][1], 1>> \in S
      BY <3>1, <3>4 DEF ChunksOf
    <3> QED
      BY <3>3
  <2> QED
    BY <2>3, <2>4, <2>5
<1>2. n \in Nat /\ n # 0
  BY <1>1, FS_CardinalityType, FS_EmptySet
<1>3. ASSUME NEW x \in S
      PROVE UpTo(u, x) \subseteq S /\ x \in UpTo(u, x) /\ IsFiniteSet(UpTo(u, x)) /\ place[x] \in 1 .. n
  <2>1. UpTo(u, x) \subseteq S /\ x \in UpTo(u, x)
    BY <1>1 DEF UpTo
  <2>2. IsFiniteSet(UpTo(u, x)) /\ Cardinality(UpTo(u, x)) <= n
    BY <1>1, <2>1, FS_Subset
  <2>3. Cardinality(UpTo(u, x)) \in Nat /\ Cardinality(UpTo(u, x)) # 0
    BY <2>1, <2>2, FS_CardinalityType, FS_EmptySet
  <2> QED
    BY <1>2, <2>1, <2>2, <2>3
<1>4. ASSUME NEW x \in S, NEW y \in S, place[x] = place[y] PROVE x = y
  <2>1. UpTo(u, x) \subseteq UpTo(u, y) \/ UpTo(u, y) \subseteq UpTo(u, x)
    <3>1. \A z \in S : z[1] \in Nat /\ z[2] \in Nat
      BY <1>1
    <3> QED
      BY <3>1 DEF UpTo
  <2>2. Cardinality(UpTo(u, x)) = Cardinality(UpTo(u, y))
    BY <1>4
  <2>3. UpTo(u, x) = UpTo(u, y)
    BY <1>3, <2>1, <2>2, FS_Subset
  <2>4. x \in UpTo(u, y) /\ y \in UpTo(u, x)
    BY <1>3, <2>3
  <2>5. x = <<x[1], x[2]>> /\ y = <<y[1], y[2]>> /\ x[1] \in Nat /\ x[2] \in Nat /\ y[1] \in Nat /\ y[2] \in Nat
    BY <1>1
  <2>6. x[1] = y[1] /\ x[2] = y[2]
    BY <2>4, <2>5 DEF UpTo
  <2> QED
    BY <2>5, <2>6
<1>5. \A i \in 1 .. n : \E x \in S : place[x] = i
  <2>1. place \in Injection(S, 1 .. n)
    BY <1>3, <1>4 DEF Injection, IsInjective
  <2>2. IsFiniteSet(1 .. n) /\ Cardinality(1 .. n) = n
    BY <1>2, FS_Interval
  <2> HIDE DEF place
  <2>3. place \in Surjection(S, 1 .. n)
    BY <2>1, <2>2, FS_Injection
  <2> QED
    BY <2>3 DEF Surjection
<1>6. ChunkList(u) = [i \in 1 .. n |-> CHOOSE x \in S : place[x] = i]
  BY DEF ChunkList
<1> HIDE DEF S, n, place
<1>7. \A i \in 1 .. n : (CHOOSE x \in S : place[x] = i) \in S
  BY <1>5
<1>8. ChunkList(u) \in [1 .. n -> DOMAIN Found]
  BY <1>1, <1>6, <1>7
<1>9. ChunkList(u) \in Seq(DOMAIN Found) /\ Len(ChunkList(u)) = n
  BY <1>2, <1>8
<1> QED
  BY <1>2, <1>9

\* What the steps of a job do to it.
LEMMA GotoIn ==
    ASSUME JobsIn, NEW u \in Uploads, NEW step \in Steps, Goto(u, step)
    PROVE /\ job' \in [Uploads -> JobType] /\ \A v \in Uploads \ {u} : job'[v] = job[v]
          /\ job'[u].step = step /\ job'[u].doc = job[u].doc /\ job'[u].hits = job[u].hits
<1>1. job' = [job EXCEPT ![u] = [job[u] EXCEPT !.step = step]] /\ job[u] \in JobType
  BY DEF Goto, JobsIn
<1>2. /\ [job[u] EXCEPT !.step = step] \in JobType
      /\ [job[u] EXCEPT !.step = step].step = step
      /\ [job[u] EXCEPT !.step = step].doc = job[u].doc
      /\ [job[u] EXCEPT !.step = step].hits = job[u].hits
  BY <1>1 DEF JobType
<1> HIDE DEF JobType
<1> QED
  BY <1>1, <1>2 DEF JobsIn

LEMMA NextDocIn ==
    ASSUME JobsIn, NEW u \in Uploads, NEW here \in Steps, NEW next \in Steps, NextDoc(u, here, next)
    PROVE /\ job' \in [Uploads -> JobType] /\ \A v \in Uploads \ {u} : job'[v] = job[v]
          /\ job'[u].step \in {here, next} /\ job'[u].doc \in DOMAIN DocsOf[u]
          /\ job'[u].hits = job[u].hits
<1>1. job[u] \in JobType /\ job[u].doc \in DOMAIN DocsOf[u] /\ job \in [Uploads -> JobType]
  BY DEF JobsIn
<1>2. \A n \in DOMAIN DocsOf[u] : n \in Nat /\ n + 1 \in Nat /\ (n < Len(DocsOf[u]) => n + 1 \in DOMAIN DocsOf[u])
  BY DocsAre
<1>3. ASSUME NEW n \in DOMAIN DocsOf[u], NEW step \in {here, next},
             job' = [job EXCEPT ![u] = [job[u] EXCEPT !.step = step, !.doc = n]]
      PROVE /\ job' \in [Uploads -> JobType] /\ \A v \in Uploads \ {u} : job'[v] = job[v]
            /\ job'[u].step = step /\ job'[u].doc = n /\ job'[u].hits = job[u].hits
  <2> DEFINE j == [job[u] EXCEPT !.step = step, !.doc = n]
  <2>1. j \in JobType /\ j.step = step /\ j.doc = n /\ j.hits = job[u].hits
    BY <1>1, <1>2 DEF JobType
  <2> HIDE DEF j, JobType
  <2>2. job' = [job EXCEPT ![u] = j]
    BY <1>3 DEF j
  <2> QED
    BY <1>1, <2>1, <2>2
<1>4. CASE job[u].doc < Len(DocsOf[u])
  <2>1. job' = [job EXCEPT ![u] = [job[u] EXCEPT !.step = here, !.doc = job[u].doc + 1]]
    BY <1>4 DEF NextDoc
  <2> QED
    BY <1>1, <1>2, <1>3, <1>4, <2>1
<1>5. CASE ~(job[u].doc < Len(DocsOf[u]))
  <2>1. job' = [job EXCEPT ![u] = [job[u] EXCEPT !.step = next, !.doc = 1]]
    BY <1>5 DEF NextDoc
  <2> QED
    BY <1>3, <2>1, DocsAre
<1> QED
  BY <1>4, <1>5

LEMMA JobsNext ==
    ASSUME JobsIn, NEW u \in Uploads, graph' \in [Uploads -> GraphType],
           job' \in [Uploads -> JobType], \A v \in Uploads \ {u} : job'[v] = job[v],
           job'[u].doc \in DOMAIN DocsOf[u], job'[u].step = "extract" => job'[u].todo # << >>
    PROVE JobsIn'
<1>1. ASSUME NEW v \in Uploads
      PROVE job'[v].doc \in DOMAIN DocsOf[v] /\ (job'[v].step = "extract" => job'[v].todo # << >>)
  BY DEF JobsIn, At
<1> QED
  BY <1>1 DEF JobsIn, At

LEMMA EndedIs == Cardinality(Ended) \in Nat /\ IsFiniteSet(Ended) /\ Cardinality(Ended) <= Cardinality(Uploads)
<1>1. Ended \subseteq Uploads
  BY DEF Ended
<1> QED
  BY <1>1, UploadsFinite, FS_Subset, FS_CardinalityType

LEMMA EndedGrows ==
    ASSUME NEW u \in Uploads, ~Over(u), \A v \in Uploads \ {u} : job'[v] = job[v]
    PROVE /\ Cardinality(Ended) \in Nat /\ Cardinality(Ended') \in Nat
          /\ Cardinality(Ended) <= Cardinality(Ended')
          /\ Over(u)' => Cardinality(Ended') = Cardinality(Ended) + 1
<1>1. u \notin Ended /\ IsFiniteSet(Ended) /\ Cardinality(Ended) \in Nat
  BY EndedIs DEF Ended
<1>2. CASE Over(u)'
  <2>1. Ended' = Ended \cup {u}
    BY <1>2 DEF Ended, Over
  <2> QED
    BY <1>1, <2>1, FS_AddElement
<1>3. CASE ~Over(u)'
  <2>1. Ended' = Ended
    BY <1>3 DEF Ended, Over
  <2> QED
    BY <1>1, <1>3, <2>1
<1> QED
  BY <1>2, <1>3

\* A step of an upload that counts nothing.
LEMMA HitsKept ==
    ASSUME PipelineInv, JobsIn', RowsIn', NEW u \in Uploads, ~Over(u),
           \A v \in Uploads \ {u} : job'[v] = job[v],
           job'[u].hits = job[u].hits \/ \E k \in CacheKeys : job'[u].hits = cache[k].hits,
           \A k \in CacheKeys : \/ cache'[k].hits \in {0, cache[k].hits}
                                \/ Over(u)' /\ cache'[k].hits = job[u].hits + 1
    PROVE HitsIn'
<1> DEFINE n == Cardinality(Ended)
           m == Cardinality(Ended')
<1>1. n \in Nat /\ m \in Nat /\ n <= m /\ (Over(u)' => m = n + 1)
  BY EndedGrows
<1>2. /\ \A v \in Uploads : job[v].hits \in Nat /\ job'[v].hits \in Nat
      /\ \A k \in CacheKeys : cache[k].hits \in Nat /\ cache'[k].hits \in Nat
  BY DEF PipelineInv, JobsIn, RowsIn, JobType, EntryType
<1>3. /\ \A v \in Uploads : job[v].hits <= n
      /\ \A k \in CacheKeys : cache[k].hits <= n
  BY DEF PipelineInv, HitsIn
<1> HIDE DEF n, m
<1>4. ASSUME NEW v \in Uploads PROVE job'[v].hits <= m
  <2>1. job'[v].hits <= n
    BY <1>3
  <2> QED
    BY <1>1, <1>2, <2>1
<1>5. ASSUME NEW k \in CacheKeys PROVE cache'[k].hits <= m
  <2>1. CASE cache'[k].hits \in {0, cache[k].hits}
    BY <1>1, <1>2, <1>3, <2>1
  <2>2. CASE Over(u)' /\ cache'[k].hits = job[u].hits + 1
    BY <1>1, <1>2, <1>3, <2>2
  <2> QED
    BY <2>1, <2>2
<1> QED
  BY <1>4, <1>5 DEF HitsIn, m

LEMMA NoEntryIn == NoEntry \in EntryType /\ NoEntry.hits = 0
BY ExtractionIs DEF NoEntry, EntryType, Owners

\* The end of an upload's transaction, either way.
LEMMA SettleIn ==
    ASSUME JobsIn, RowsIn, NEW u \in Uploads, NEW keep \in BOOLEAN, Settle(u, keep), UNCHANGED doomed
    PROVE /\ RowsIn'
          /\ \A k \in CacheKeys : \/ cache'[k].hits \in {0, cache[k].hits}
                                  \/ keep /\ cache'[k].hits = job[u].hits + 1
<1>1. \A o \in Owners : Settled(u, o, keep) \in Owners
  BY DEF Settled, Owners
<1>2. documents' \in [Docs -> Owners] /\ chunked' \in [Docs -> Owners]
  <2>1. \A d \in Docs : documents[d] \in Owners /\ chunked[d] \in Owners
    BY DEF RowsIn
  <2> QED
    BY <1>1, <2>1 DEF Settle
<1>3. ASSUME NEW k \in CacheKeys
      PROVE /\ cache'[k] \in EntryType
            /\ \/ cache'[k].hits \in {0, cache[k].hits}
               \/ keep /\ cache'[k].hits = job[u].hits + 1
  <2>1. cache[k] \in EntryType /\ job[u].hits + 1 \in Nat
    BY DEF RowsIn, JobsIn, JobType
  <2>2. CASE cache[k].by = u /\ keep
    <3>1. cache'[k] = [cache[k] EXCEPT !.by = Kept] /\ Kept \in Owners
      BY <2>2 DEF Settle, Owners
    <3> QED
      BY <2>1, <3>1 DEF EntryType
  <2>3. CASE cache[k].by = u /\ ~keep
    <3>1. cache'[k] = NoEntry
      BY <2>3 DEF Settle
    <3> QED
      BY <3>1, NoEntryIn
  <2>4. CASE cache[k].by # u /\ cache[k].hitBy = u
    <3>1. cache'[k] = [cache[k] EXCEPT !.hitBy = NoOne, !.hits = IF keep THEN job[u].hits + 1 ELSE cache[k].hits]
      BY <2>4 DEF Settle
    <3>2. CASE keep
      <4>1. cache'[k] = [cache[k] EXCEPT !.hitBy = NoOne, !.hits = job[u].hits + 1]
        BY <3>1, <3>2
      <4> QED
        BY <2>1, <3>2, <4>1 DEF EntryType
    <3>3. CASE ~keep
      <4>1. cache'[k] = [cache[k] EXCEPT !.hitBy = NoOne, !.hits = cache[k].hits]
        BY <3>1, <3>3
      <4> QED
        BY <2>1, <4>1 DEF EntryType
    <3> QED
      BY <3>2, <3>3
  <2>5. CASE cache[k].by # u /\ cache[k].hitBy # u
    <3>1. cache'[k] = cache[k]
      BY <2>5 DEF Settle
    <3> QED
      BY <2>1, <3>1
  <2> QED
    BY <2>2, <2>3, <2>4, <2>5
<1>4. cache' \in [CacheKeys -> EntryType]
  <2>1. cache' = [k \in CacheKeys |-> cache'[k]]
    BY DEF Settle
  <2> QED
    BY <1>3, <2>1
<1>5. ASSUME NEW a \in access'
      PROVE a \in Uploads \X Docs /\ Sees(a[1], documents'[a[2]])
  <2>1. a \in access /\ (keep \/ a[1] # u)
    BY <1>5 DEF Settle
  <2>2. a \in Uploads \X Docs /\ Sees(a[1], documents[a[2]])
    BY <2>1 DEF RowsIn
  <2>3. documents'[a[2]] = Settled(u, documents[a[2]], keep)
    BY <2>2 DEF Settle
  <2> QED
    BY <2>1, <2>2, <2>3, OwnersDiffer DEF Sees, Settled
<1> QED
  BY <1>2, <1>3, <1>4, <1>5 DEF RowsIn

LEMMA FailIn ==
    ASSUME PipelineInv, NEW u \in Uploads, ~Over(u), Fail(u), UNCHANGED doomed PROVE PipelineInv'
<1>1. Goto(u, "failed") /\ Settle(u, TRUE) /\ JobsIn /\ RowsIn /\ "failed" \in Steps
  BY DEF Fail, PipelineInv, Steps
<1>2. graph' \in [Uploads -> GraphType]
  <2>1. graph' = [graph EXCEPT ![u] = [graph[u] EXCEPT !.status = IF graph[u].status = "none" THEN "none" ELSE "failed"]]
    BY DEF Fail
  <2>2. graph[u] \in GraphType /\ graph \in [Uploads -> GraphType]
    BY <1>1 DEF JobsIn
  <2>3. [graph[u] EXCEPT !.status = IF graph[u].status = "none" THEN "none" ELSE "failed"] \in GraphType
    BY <2>2 DEF GraphType
  <2> HIDE DEF GraphType
  <2> QED
    BY <2>1, <2>2, <2>3
<1>3. RowsIn' /\ \A k \in CacheKeys : cache'[k].hits \in {0, cache[k].hits} \/ cache'[k].hits = job[u].hits + 1
  BY <1>1, SettleIn
<1>4. /\ job' \in [Uploads -> JobType] /\ \A v \in Uploads \ {u} : job'[v] = job[v]
      /\ job'[u].step = "failed" /\ job'[u].doc = job[u].doc /\ job'[u].hits = job[u].hits
  BY <1>1, GotoIn
<1>5. JobsIn'
  <2>1. job[u].doc \in DOMAIN DocsOf[u]
    BY <1>1 DEF JobsIn
  <2> QED
    BY <1>1, <1>2, <1>4, <2>1, JobsNext
<1>6. Over(u)'
  BY <1>4 DEF Over
<1>7. HitsIn'
  BY <1>3, <1>4, <1>5, <1>6, HitsKept
<1> QED
  BY <1>3, <1>5, <1>7 DEF PipelineInv

LEMMA RollBackIn ==
    ASSUME PipelineInv, NEW u \in Uploads, ~Over(u), RollBack(u), UNCHANGED doomed PROVE PipelineInv'
<1>1. Goto(u, "failed") /\ Settle(u, FALSE) /\ JobsIn /\ RowsIn /\ "failed" \in Steps
  BY DEF RollBack, PipelineInv, Steps
<1>2. graph' \in [Uploads -> GraphType]
  <2>1. NoGraph \in GraphType
    BY ExtractionIs DEF NoGraph, GraphType
  <2> QED
    BY <1>1, <2>1 DEF RollBack, JobsIn
<1>3. RowsIn' /\ \A k \in CacheKeys : cache'[k].hits \in {0, cache[k].hits}
  BY <1>1, SettleIn
<1>4. /\ job' \in [Uploads -> JobType] /\ \A v \in Uploads \ {u} : job'[v] = job[v]
      /\ job'[u].step = "failed" /\ job'[u].doc = job[u].doc /\ job'[u].hits = job[u].hits
  BY <1>1, GotoIn
<1>5. JobsIn'
  <2>1. job[u].doc \in DOMAIN DocsOf[u]
    BY <1>1 DEF JobsIn
  <2> QED
    BY <1>1, <1>2, <1>4, <2>1, JobsNext
<1>6. HitsIn'
  BY <1>3, <1>4, <1>5, HitsKept
<1> QED
  BY <1>3, <1>5, <1>6 DEF PipelineInv

LEMMA StepIn ==
    ASSUME PipelineInv, NEW u \in Uploads, ~Over(u), graph' \in [Uploads -> GraphType], RowsIn',
           job' \in [Uploads -> JobType], \A v \in Uploads \ {u} : job'[v] = job[v],
           job'[u].doc \in DOMAIN DocsOf[u], job'[u].step = "extract" => job'[u].todo # << >>,
           job'[u].hits = job[u].hits \/ \E k \in CacheKeys : job'[u].hits = cache[k].hits,
           \A k \in CacheKeys : \/ cache'[k].hits \in {0, cache[k].hits}
                                \/ Over(u)' /\ cache'[k].hits = job[u].hits + 1
    PROVE PipelineInv'
<1>1. JobsIn'
  BY JobsNext DEF PipelineInv
<1>2. HitsIn'
  BY <1>1, HitsKept
<1> QED
  BY <1>1, <1>2 DEF PipelineInv

\* The rows are left alone, or only those of documents and chunks are written.
LEMMA RowsKept ==
    ASSUME RowsIn, UNCHANGED <<cache, access, documents, doomed>>, chunked' \in [Docs -> Owners]
    PROVE RowsIn'
BY DEF RowsIn

LEMMA StartIn ==
    ASSUME PipelineInv, NEW u \in Uploads, Start(u) PROVE PipelineInv'
<1>1. Goto(u, "ingest") /\ ~Over(u) /\ UNCHANGED <<rows, doomed>> /\ "ingest" \in Steps
  BY DEF Start, At, Over, Steps, cleanup
<1>2. RowsIn' /\ graph' \in [Uploads -> GraphType] /\ job[u].doc \in DOMAIN DocsOf[u]
  BY <1>1 DEF rows, PipelineInv, RowsIn, JobsIn
<1> QED
  BY <1>1, <1>2, GotoIn, StepIn DEF rows, PipelineInv

\* Nobody has access through the row of another upload that goes on.
LEMMA IngestDocumentIn ==
    ASSUME PipelineInv, NEW u \in Uploads, IngestDocument(u) PROVE PipelineInv'
<1>1. /\ At(u, "ingest") /\ ~Over(u) /\ NextDoc(u, "ingest", "chunk")
      /\ UNCHANGED <<chunked, cache, graph, doomed>> /\ "ingest" \in Steps /\ "chunk" \in Steps
  BY DEF IngestDocument, Ready, At, Over, Steps, cleanup
<1>2. Doc(u) \in Docs /\ documents \in [Docs -> Owners]
  BY DocsAre DEF Doc, PipelineInv, JobsIn, RowsIn
<1>3. documents[Doc(u)] \in {u, Kept, NoOne}
  BY <1>1, <1>2 DEF IngestDocument, Ready, Blocker, At, Owners
<1> DEFINE o == IF Sees(u, documents[Doc(u)]) THEN documents[Doc(u)] ELSE u
<1>4. o \in {u, Kept} /\ (documents[Doc(u)] # NoOne => o = documents[Doc(u)])
  BY <1>3 DEF Sees
<1>5. documents' = [documents EXCEPT ![Doc(u)] = o] /\ access' = access \cup {<<u, Doc(u)>>}
  BY DEF IngestDocument
<1> HIDE DEF o
<1>6. documents' \in [Docs -> Owners]
  BY <1>2, <1>4, <1>5 DEF Owners
<1>7. ASSUME NEW a \in access' PROVE a \in Uploads \X Docs /\ Sees(a[1], documents'[a[2]])
  <2>1. CASE a \in access
    <3>1. a \in Uploads \X Docs /\ Sees(a[1], documents[a[2]])
      BY <2>1 DEF PipelineInv, RowsIn
    <3>2. documents[a[2]] # NoOne
      BY <3>1, OwnersDiffer DEF Sees
    <3>3. documents'[a[2]] = documents[a[2]]
      BY <1>2, <1>4, <1>5, <3>1, <3>2
    <3> QED
      BY <3>1, <3>3
  <2>2. CASE a = <<u, Doc(u)>>
    BY <1>2, <1>4, <1>5, <2>2 DEF Sees
  <2> QED
    BY <1>5, <2>1, <2>2
<1>8. RowsIn'
  BY <1>1, <1>6, <1>7 DEF PipelineInv, RowsIn
<1>9. /\ job' \in [Uploads -> JobType] /\ \A v \in Uploads \ {u} : job'[v] = job[v]
      /\ job'[u].step \in {"ingest", "chunk"} /\ job'[u].doc \in DOMAIN DocsOf[u]
      /\ job'[u].hits = job[u].hits
  BY <1>1, NextDocIn DEF PipelineInv
<1> QED
  BY <1>1, <1>8, <1>9, StepIn DEF PipelineInv, JobsIn

LEMMA ChunkIn ==
    ASSUME PipelineInv, NEW u \in Uploads, Chunk(u) PROVE PipelineInv'
<1>1. /\ ~Over(u) /\ UNCHANGED <<rows, doomed>> /\ {"chunk", "check", "split"} \subseteq Steps
      /\ NextDoc(u, "chunk", "check") \/ Goto(u, "split")
  BY DEF Chunk, At, Over, Steps, cleanup
<1>2. RowsIn' /\ graph' \in [Uploads -> GraphType] /\ job[u].doc \in DOMAIN DocsOf[u]
  BY <1>1 DEF rows, PipelineInv, RowsIn, JobsIn
<1>3. CASE NextDoc(u, "chunk", "check")
  <2>1. /\ job' \in [Uploads -> JobType] /\ \A v \in Uploads \ {u} : job'[v] = job[v]
        /\ job'[u].step \in {"chunk", "check"} /\ job'[u].doc \in DOMAIN DocsOf[u]
        /\ job'[u].hits = job[u].hits
    BY <1>1, <1>3, NextDocIn DEF PipelineInv
  <2> QED
    BY <1>1, <1>2, <2>1, StepIn DEF rows
<1>4. CASE Goto(u, "split")
  BY <1>1, <1>2, <1>4, GotoIn, StepIn DEF rows, PipelineInv
<1> QED
  BY <1>1, <1>3, <1>4

LEMMA CreateChunksIn ==
    ASSUME PipelineInv, NEW u \in Uploads, CreateChunks(u) PROVE PipelineInv'
<1>1. At(u, "split") /\ ~Over(u) /\ UNCHANGED doomed /\ {"chunk", "check"} \subseteq Steps
  BY DEF CreateChunks, Ready, At, Over, Steps, cleanup
<1>2. CASE RollBack(u)
  BY <1>1, <1>2, RollBackIn
<1>3. CASE /\ NextDoc(u, "chunk", "check") /\ chunked' = [chunked EXCEPT ![Doc(u)] = u]
           /\ UNCHANGED <<documents, access, cache, graph>>
  <2>1. chunked' \in [Docs -> Owners]
    BY <1>3 DEF PipelineInv, RowsIn, Owners
  <2>2. RowsIn'
    BY <1>1, <1>3, <2>1, RowsKept DEF PipelineInv
  <2>3. /\ job' \in [Uploads -> JobType] /\ \A v \in Uploads \ {u} : job'[v] = job[v]
        /\ job'[u].step \in {"chunk", "check"} /\ job'[u].doc \in DOMAIN DocsOf[u]
        /\ job'[u].hits = job[u].hits
    BY <1>1, <1>3, NextDocIn DEF PipelineInv
  <2> QED
    BY <1>1, <1>3, <2>2, <2>3, StepIn DEF PipelineInv, JobsIn
<1> QED
  BY <1>2, <1>3 DEF CreateChunks

LEMMA CheckCacheIn ==
    ASSUME PipelineInv, NEW u \in Uploads, CheckCache(u) PROVE PipelineInv'
<1>1. ~Over(u) /\ UNCHANGED <<rows, doomed>> /\ {"hit", "extract"} \subseteq Steps
  BY DEF CheckCache, At, Over, Steps, cleanup
<1>2. /\ RowsIn' /\ graph' \in [Uploads -> GraphType] /\ job[u].doc \in DOMAIN DocsOf[u]
      /\ job \in [Uploads -> JobType] /\ job[u] \in JobType
      /\ Key(u) \in CacheKeys /\ cache[Key(u)] \in EntryType
  BY <1>1, KeyInCache DEF rows, PipelineInv, RowsIn, JobsIn
<1> DEFINE e == cache[Key(u)]
<1>3. CASE job' = [job EXCEPT ![u] = [job[u] EXCEPT !.step = "hit", !.data = e.data, !.hits = e.hits]]
  <2> DEFINE j == [job[u] EXCEPT !.step = "hit", !.data = e.data, !.hits = e.hits]
  <2>1. j \in JobType /\ j.step = "hit" /\ j.doc = job[u].doc /\ j.hits = e.hits
    BY <1>1, <1>2 DEF JobType, EntryType
  <2>2. job' = [job EXCEPT ![u] = j]
    BY <1>3
  <2> HIDE DEF j, JobType
  <2>3. job' \in [Uploads -> JobType] /\ job'[u] = j /\ \A v \in Uploads \ {u} : job'[v] = job[v]
    BY <1>2, <2>1, <2>2
  <2> QED
    BY <1>1, <1>2, <2>1, <2>3, StepIn DEF rows
<1>4. CASE job' = [job EXCEPT ![u] = [job[u] EXCEPT !.step = "extract", !.todo = ChunkList(u)]]
  <2> DEFINE j == [job[u] EXCEPT !.step = "extract", !.todo = ChunkList(u)]
  <2>1. /\ j \in JobType /\ j.step = "extract" /\ j.doc = job[u].doc /\ j.hits = job[u].hits
        /\ j.todo # << >>
    BY <1>1, <1>2, ChunkListIs DEF JobType
  <2>2. job' = [job EXCEPT ![u] = j]
    BY <1>4
  <2> HIDE DEF j, JobType
  <2>3. job' \in [Uploads -> JobType] /\ job'[u] = j /\ \A v \in Uploads \ {u} : job'[v] = job[v]
    BY <1>2, <2>1, <2>2
  <2> QED
    BY <1>1, <1>2, <2>1, <2>3, StepIn DEF rows
<1> QED
  BY <1>3, <1>4 DEF CheckCache

LEMMA SaveHitIn ==
    ASSUME PipelineInv, NEW u \in Uploads, SaveHit(u) PROVE PipelineInv'
<1>1. ~Over(u) /\ UNCHANGED doomed /\ "graph" \in Steps
  BY DEF SaveHit, Ready, At, Over, Steps, cleanup
<1>2. CASE RollBack(u)
  BY <1>1, <1>2, RollBackIn
<1>3. CASE /\ Goto(u, "graph") /\ cache' = [cache EXCEPT ![Key(u)].hitBy = u]
           /\ UNCHANGED <<documents, access, chunked, graph>>
  <2>1. ASSUME NEW k \in CacheKeys PROVE cache'[k] \in EntryType /\ cache'[k].hits = cache[k].hits
    <3>1. cache[k] \in EntryType /\ [cache[k] EXCEPT !.hitBy = u] \in EntryType
          /\ [cache[k] EXCEPT !.hitBy = u].hits = cache[k].hits
      BY DEF PipelineInv, RowsIn, EntryType
    <3>2. cache'[k] \in {cache[k], [cache[k] EXCEPT !.hitBy = u]}
      BY <1>3 DEF PipelineInv, RowsIn
    <3> QED
      BY <3>1, <3>2
  <2>2. cache' \in [CacheKeys -> EntryType]
    BY <1>3, <2>1 DEF PipelineInv, RowsIn
  <2>3. RowsIn'
    BY <1>1, <1>3, <2>2 DEF PipelineInv, RowsIn
  <2>4. job[u].doc \in DOMAIN DocsOf[u]
    BY DEF PipelineInv, JobsIn
  <2> QED
    BY <1>1, <1>3, <2>1, <2>3, <2>4, GotoIn, StepIn DEF PipelineInv, JobsIn
<1> QED
  BY <1>2, <1>3 DEF SaveHit

LEMMA ExtractFromChunkIn ==
    ASSUME PipelineInv, NEW u \in Uploads, ExtractFromChunk(u) PROVE PipelineInv'
<1>1. /\ At(u, "extract") /\ ~Over(u) /\ UNCHANGED <<rows, doomed>>
      /\ {"extract", "persist"} \subseteq Steps
  BY DEF ExtractFromChunk, At, Over, Steps, cleanup
<1>2. /\ RowsIn' /\ graph' \in [Uploads -> GraphType] /\ job[u].doc \in DOMAIN DocsOf[u]
      /\ job \in [Uploads -> JobType] /\ job[u] \in JobType /\ job[u].todo # << >>
  BY <1>1 DEF rows, PipelineInv, RowsIn, JobsIn
<1>3. job[u].todo \in Seq(DOMAIN Found)
  BY <1>2 DEF JobType
<1>4. Head(job[u].todo) \in DOMAIN Found /\ Rest(u) \in Seq(DOMAIN Found)
  <2>1. \A X : \A q \in Seq(X) : q # << >> => Head(q) \in X /\ Tail(q) \in Seq(X)
    OBVIOUS
  <2> QED
    BY <1>2, <1>3, <2>1 DEF Rest
<1>5. PICK f \in Findings : job' = [job EXCEPT ![u] = [job[u] EXCEPT
                    !.todo = Rest(u), !.data = Both(job[u].data, Validated(f)),
                    !.step = IF Rest(u) = << >> THEN "persist" ELSE job[u].step]]
  <2>1. PICK f \in {Nothing} \cup IF call[u].state = "answered" THEN Found[Head(job[u].todo)] ELSE {} :
            job' = [job EXCEPT ![u] = [job[u] EXCEPT
                    !.todo = Rest(u), !.data = Both(job[u].data, Validated(f)),
                    !.step = IF Rest(u) = << >> THEN "persist" ELSE job[u].step]]
    BY DEF ExtractFromChunk
  <2>2. f \in Findings
    BY <1>4 DEF Findings
  <2> QED
    BY <2>1, <2>2
<1> DEFINE data == Both(job[u].data, Validated(f))
           step == IF Rest(u) = << >> THEN "persist" ELSE job[u].step
           rest == Rest(u)
           j == [job[u] EXCEPT !.todo = rest, !.data = data, !.step = step]
<1>6. data \in Extraction
  <2>1. job[u].data \in Extraction
    BY <1>2 DEF JobType
  <2> QED
    BY <2>1, ExtractionIs
<1>7. step \in Steps /\ (step = "extract" => rest # << >>) /\ rest \in Seq(DOMAIN Found)
  BY <1>1, <1>4 DEF At
<1>8. job' = [job EXCEPT ![u] = j]
  BY <1>5
<1> HIDE DEF data, step, rest
<1>9. /\ j \in JobType /\ j.step = step /\ j.doc = job[u].doc /\ j.hits = job[u].hits
      /\ j.todo = rest
  BY <1>2, <1>6, <1>7 DEF JobType
<1> HIDE DEF j
<1>10. job' \in [Uploads -> JobType] /\ job'[u] = j /\ \A v \in Uploads \ {u} : job'[v] = job[v]
  <2> HIDE DEF JobType
  <2> QED
    BY <1>2, <1>8, <1>9
<1> QED
  BY <1>1, <1>2, <1>7, <1>9, <1>10, StepIn DEF rows

LEMMA PersistCacheIn ==
    ASSUME PipelineInv, NEW u \in Uploads, PersistCache(u) PROVE PipelineInv'
<1>1. ~Over(u) /\ UNCHANGED doomed /\ "graph" \in Steps
  BY DEF PersistCache, Ready, At, Over, Steps, cleanup
<1>2. CASE RollBack(u)
  BY <1>1, <1>2, RollBackIn
<1>3. CASE /\ Goto(u, "graph")
           /\ cache' = [cache EXCEPT ![Key(u)] = [NoEntry EXCEPT !.by = u, !.data = job[u].data]]
           /\ UNCHANGED <<documents, access, chunked, graph>>
  <2> DEFINE e == [NoEntry EXCEPT !.by = u, !.data = job[u].data]
  <2>1. e \in EntryType /\ e.hits = 0
    <3>1. job[u].data \in Extraction /\ u \in Owners
      BY DEF PipelineInv, JobsIn, JobType, Owners
    <3> QED
      BY <3>1, NoEntryIn DEF EntryType
  <2> HIDE DEF e
  <2>2. cache' = [cache EXCEPT ![Key(u)] = e]
    BY <1>3 DEF e
  <2>3. cache' \in [CacheKeys -> EntryType] /\ \A k \in CacheKeys : cache'[k].hits \in {0, cache[k].hits}
    BY <2>1, <2>2 DEF PipelineInv, RowsIn
  <2>4. RowsIn'
    BY <1>1, <1>3, <2>3 DEF PipelineInv, RowsIn
  <2>5. job[u].doc \in DOMAIN DocsOf[u]
    BY DEF PipelineInv, JobsIn
  <2> QED
    BY <1>1, <1>3, <2>3, <2>4, <2>5, GotoIn, StepIn DEF PipelineInv, JobsIn
<1> QED
  BY <1>2, <1>3 DEF PersistCache

LEMMA MaterializeGraphIn ==
    ASSUME PipelineInv, NEW u \in Uploads, MaterializeGraph(u) PROVE PipelineInv'
<1>1. ~Over(u) /\ UNCHANGED doomed /\ "report" \in Steps
  BY DEF MaterializeGraph, At, Over, Steps, cleanup
<1>2. CASE Fail(u)
  BY <1>1, <1>2, FailIn
<1>3. CASE /\ Goto(u, "report") /\ UNCHANGED <<documents, access, chunked, cache>>
           /\ graph' = [graph EXCEPT ![u] =
                [status |-> "ready",
                 data |-> [mentions |-> job[u].data.mentions, relations |-> Resolved(job[u].data)]]]
  <2> DEFINE d == [mentions |-> job[u].data.mentions, relations |-> Resolved(job[u].data)]
             g == [status |-> "ready", data |-> d]
  <2>1. d \in Extraction
    <3>1. job[u].data \in Extraction
      BY DEF PipelineInv, JobsIn, JobType
    <3> QED
      BY <3>1, ExtractionIs
  <2>2. g \in GraphType
    <3> HIDE DEF d
    <3> QED
      BY <2>1 DEF GraphType
  <2> HIDE DEF g
  <2>3. graph' = [graph EXCEPT ![u] = g]
    BY <1>3 DEF g
  <2>4. graph' \in [Uploads -> GraphType]
    BY <2>2, <2>3 DEF PipelineInv, JobsIn
  <2>5. RowsIn' /\ job[u].doc \in DOMAIN DocsOf[u]
    BY <1>1, <1>3 DEF PipelineInv, RowsIn, JobsIn
  <2> QED
    BY <1>1, <1>3, <2>4, <2>5, GotoIn, StepIn DEF PipelineInv
<1> QED
  BY <1>2, <1>3 DEF MaterializeGraph

LEMMA ReportIn ==
    ASSUME PipelineInv, NEW u \in Uploads, Report(u) PROVE PipelineInv'
<1>1. /\ ~Over(u) /\ Goto(u, "done") /\ Settle(u, TRUE) /\ UNCHANGED <<graph, doomed>>
      /\ "done" \in Steps /\ JobsIn /\ RowsIn
  BY DEF Report, At, Over, Steps, cleanup, PipelineInv
<1>2. RowsIn' /\ \A k \in CacheKeys : cache'[k].hits \in {0, cache[k].hits} \/ cache'[k].hits = job[u].hits + 1
  BY <1>1, SettleIn
<1>3. /\ job' \in [Uploads -> JobType] /\ \A v \in Uploads \ {u} : job'[v] = job[v]
      /\ job'[u].step = "done" /\ job'[u].doc = job[u].doc /\ job'[u].hits = job[u].hits
  BY <1>1, GotoIn
<1>4. Over(u)' /\ job[u].doc \in DOMAIN DocsOf[u] /\ graph' \in [Uploads -> GraphType]
  BY <1>1, <1>3 DEF Over, JobsIn
<1> QED
  BY <1>1, <1>2, <1>3, <1>4, StepIn

LEMMA DeleteCandidatesIn ==
    ASSUME PipelineInv, DeleteCandidates PROVE PipelineInv'
<1> DEFINE gone == IF \E k \in doomed : Referenced(k) THEN {} ELSE doomed
<1>1. /\ cache' = [k \in CacheKeys |-> IF k \in gone THEN NoEntry ELSE cache[k]] /\ doomed' = {}
      /\ UNCHANGED <<job, documents, access, chunked, graph>>
  BY DEF DeleteCandidates
<1> HIDE DEF gone
<1>2. \A k \in CacheKeys : cache'[k] \in EntryType /\ cache'[k].hits \in {0, cache[k].hits}
  BY <1>1, NoEntryIn DEF PipelineInv, RowsIn
<1>3. RowsIn'
  BY <1>1, <1>2 DEF PipelineInv, RowsIn
<1>4. JobsIn' /\ Ended' = Ended
  BY <1>1 DEF PipelineInv, JobsIn, Ended, Over, At
<1>5. \A k \in CacheKeys : cache'[k].hits <= Cardinality(Ended)
  BY <1>2, EndedIs DEF PipelineInv, HitsIn
<1>6. HitsIn'
  BY <1>1, <1>4, <1>5 DEF PipelineInv, HitsIn
<1> QED
  BY <1>3, <1>4, <1>6 DEF PipelineInv

LEMMA AgeIn ==
    ASSUME PipelineInv, NEW k \in CacheKeys, Age(k) PROVE PipelineInv'
<1>1. cache' = [cache EXCEPT ![k].old = TRUE] /\ UNCHANGED <<job, documents, access, chunked, graph, doomed>>
  BY DEF Age, cleanup
<1>2. ASSUME NEW l \in CacheKeys PROVE cache'[l] \in EntryType /\ cache'[l].hits = cache[l].hits
  <2>1. /\ cache[l] \in EntryType /\ [cache[l] EXCEPT !.old = TRUE] \in EntryType
        /\ [cache[l] EXCEPT !.old = TRUE].hits = cache[l].hits
    BY DEF PipelineInv, RowsIn, EntryType
  <2>2. cache'[l] \in {cache[l], [cache[l] EXCEPT !.old = TRUE]}
    BY <1>1 DEF PipelineInv, RowsIn
  <2> QED
    BY <2>1, <2>2
<1>3. RowsIn'
  BY <1>1, <1>2 DEF PipelineInv, RowsIn
<1>4. JobsIn' /\ Ended' = Ended
  BY <1>1 DEF PipelineInv, JobsIn, Ended, Over, At
<1>5. HitsIn'
  BY <1>1, <1>2, <1>4 DEF PipelineInv, HitsIn
<1> QED
  BY <1>3, <1>4, <1>5 DEF PipelineInv

LEMMA PipelineInvInit == Init => PipelineInv
<1> SUFFICES ASSUME Init PROVE PipelineInv
  OBVIOUS
<1>1. PICK far \in Earlier :
        /\ documents = [d \in Docs |-> IF far = "nothing" THEN NoOne ELSE Kept]
        /\ chunked = [d \in Docs |-> IF far \in {"chunks", "extraction"} THEN Kept ELSE NoOne]
        /\ cache = [k \in CacheKeys |->
            IF far = "extraction" THEN [NoEntry EXCEPT !.by = Kept, !.old = TRUE] ELSE NoEntry]
  BY DEF Init
<1>2. /\ [NoEntry EXCEPT !.by = Kept, !.old = TRUE] \in EntryType
      /\ [NoEntry EXCEPT !.by = Kept, !.old = TRUE].hits = 0
  BY NoEntryIn DEF EntryType, Owners
<1>3. ASSUME NEW k \in CacheKeys PROVE cache[k] \in EntryType /\ cache[k].hits = 0
  <2>1. cache[k] \in {NoEntry, [NoEntry EXCEPT !.by = Kept, !.old = TRUE]}
    BY <1>1
  <2> QED
    BY <1>2, <2>1, NoEntryIn
<1>4. cache \in [CacheKeys -> EntryType]
  BY <1>1, <1>3
<1>5. documents \in [Docs -> Owners] /\ chunked \in [Docs -> Owners]
  BY <1>1 DEF Owners
<1>6. RowsIn
  BY <1>4, <1>5 DEF Init, RowsIn
<1>7. NewJob \in JobType /\ NewJob.doc = 1 /\ NewJob.step = "start" /\ NewJob.hits = 0
  BY ExtractionIs DEF NewJob, JobType, Steps
<1>8. NoGraph \in GraphType
  BY ExtractionIs DEF NoGraph, GraphType
<1>9. JobsIn
  BY <1>7, <1>8, DocsAre DEF Init, JobsIn, At
<1>10. HitsIn
  BY <1>3, <1>7, EndedIs DEF Init, HitsIn
<1> QED
  BY <1>6, <1>9, <1>10 DEF PipelineInv

LEMMA PipelineInvNext == PipelineInv /\ [Next]_vars => PipelineInv'
<1> SUFFICES ASSUME PipelineInv, [Next]_vars PROVE PipelineInv'
  OBVIOUS
<1>1. ASSUME UNCHANGED <<job, graph, cache, documents, access, chunked>>, doomed' \subseteq CacheKeys
      PROVE PipelineInv'
  BY <1>1 DEF PipelineInv, JobsIn, RowsIn, HitsIn, Ended, At, Over
<1>2. doomed \subseteq CacheKeys
  BY DEF PipelineInv, RowsIn
<1>3. ASSUME NEW u \in Uploads, Start(u) \/ UploadStep(u) PROVE PipelineInv'
  <2>1. CASE AskModel(u)
    BY <1>1, <1>2, <2>1 DEF AskModel, knowledgeVars, rows, cleanup
  <2> QED
    BY <1>3, <2>1, StartIn, IngestDocumentIn, ChunkIn, CreateChunksIn, CheckCacheIn, SaveHitIn,
       ExtractFromChunkIn, PersistCacheIn, MaterializeGraphIn, ReportIn DEF UploadStep
<1>4. ASSUME NEW u \in Uploads, Abort(u) PROVE PipelineInv'
  <2>1. ~Over(u) /\ UNCHANGED doomed /\ (Fail(u) \/ RollBack(u))
    BY <1>4 DEF Abort, cleanup
  <2> QED
    BY <2>1, FailIn, RollBackIn
<1>5. ASSUME NEW u \in Uploads, Deadlock(u) PROVE PipelineInv'
  <2>1. UNCHANGED doomed /\ (Fail(u) \/ RollBack(u))
    BY <1>5 DEF Deadlock, cleanup
  <2>2. PICK circle \in SUBSET Uploads : u \in circle /\ {Blocker(v) : v \in circle} = circle
    BY <1>5 DEF Deadlock
  <2>3. Blocker(u) # NoOne
    BY <2>2, OwnersDiffer
  <2>4. ~Over(u)
    BY <2>3 DEF Blocker, At, Over
  <2> QED
    BY <2>1, <2>4, FailIn, RollBackIn
<1>6. ASSUME NEW c \in Callers, Asked(c) PROVE PipelineInv'
  BY <1>1, <1>2, <1>6 DEF Asked, knowledgeVars, rows, cleanup
<1>7. ASSUME NEW c \in Others, AskOther(c) \/ CollectOther(c) PROVE PipelineInv'
  BY <1>1, <1>2, <1>7 DEF AskOther, CollectOther, knowledgeVars, rows, cleanup
<1>8. CASE ChooseCandidates
  BY <1>1, <1>8 DEF ChooseCandidates, rows
<1>9. CASE UNCHANGED vars
  BY <1>1, <1>2, <1>9 DEF vars, knowledgeVars, rows, cleanup
<1> QED
  BY <1>3, <1>4, <1>5, <1>6, <1>7, <1>8, <1>9, DeleteCandidatesIn, AgeIn DEF Next

LEMMA GatewayTypeNext == GatewayInv /\ GatewayTypeOK /\ [Next]_vars => GatewayTypeOK'
<1> SUFFICES ASSUME GatewayInv, GatewayTypeOK, [Next]_vars PROVE GatewayTypeOK'
  OBVIOUS
<1>1. ASSUME UNCHANGED gatewayVars PROVE GatewayTypeOK'
  BY <1>1 DEF GatewayTypeOK, gatewayVars
<1>2. ASSUME NEW u \in Uploads, Start(u) \/ UploadStep(u) \/ Abort(u) \/ Deadlock(u) PROVE GatewayTypeOK'
  <2>1. u \in Callers
    BY KnowledgeAssumption
  <2>2. CASE AskModel(u)
    BY <2>1, <2>2, GatewayTypeStep DEF AskModel
  <2>3. CASE ExtractFromChunk(u)
    BY <2>1, <2>3, GatewayTypeStep DEF ExtractFromChunk
  <2> QED
    BY <1>1, <1>2, <2>2, <2>3
       DEF Start, UploadStep, Abort, Deadlock, IngestDocument, Chunk, CreateChunks, CheckCache,
           SaveHit, PersistCache, MaterializeGraph, Report
<1>3. ASSUME NEW c \in Callers, Asked(c) PROVE GatewayTypeOK'
  BY <1>3, GatewayTypeStep DEF Asked
<1>4. ASSUME NEW c \in Others, AskOther(c) \/ CollectOther(c) PROVE GatewayTypeOK'
  BY <1>4, GatewayTypeStep, KnowledgeAssumption DEF AskOther, CollectOther
<1>5. CASE ChooseCandidates \/ DeleteCandidates \/ \E k \in CacheKeys : Age(k)
  BY <1>1, <1>5 DEF ChooseCandidates, DeleteCandidates, Age
<1> QED
  BY <1>1, <1>2, <1>3, <1>4, <1>5 DEF Next, vars

\* Whoever asks, waits, fails and is rolled back, the rows of the gateway and of
\* the pipeline keep their types, no key gets more requests than its retries
\* allow, nobody has access to a document that is not there, and a hit count
\* never exceeds the number of uploads.
THEOREM KnowledgeIsTyped == Spec => []TypeOK
<1>1. GatewayTypeOK /\ PipelineInv => TypeOK
  <2> SUFFICES ASSUME GatewayTypeOK, PipelineInv PROVE TypeOK
    OBVIOUS
  <2>1. ASSUME NEW u \in Uploads
        PROVE /\ job[u].step \in Steps /\ job[u].doc \in DOMAIN DocsOf[u] /\ job[u].data \in Extraction
              /\ job[u].todo \in Seq(DOMAIN Found) /\ job[u].hits \in Nat
              /\ job[u].hits <= Cardinality(Ended)
              /\ graph[u].status \in {"none", "ready", "failed"} /\ graph[u].data \in Extraction
    <3>1. job[u] \in JobType /\ graph[u] \in GraphType
      BY DEF PipelineInv, JobsIn
    <3> QED
      BY <3>1 DEF PipelineInv, JobsIn, HitsIn, JobType, GraphType
  <2>2. ASSUME NEW k \in CacheKeys
        PROVE /\ cache[k].by \in Owners /\ cache[k].hitBy \in Uploads \cup {NoOne}
              /\ cache[k].data \in Extraction /\ cache[k].hits \in Nat
              /\ cache[k].hits <= Cardinality(Ended)
    <3>1. cache[k] \in EntryType
      BY DEF PipelineInv, RowsIn
    <3> QED
      BY <3>1 DEF PipelineInv, HitsIn, EntryType
  <2>3. \A n \in Nat : n <= Cardinality(Ended) => n \in 0 .. Cardinality(Uploads)
    BY EndedIs, UploadsFinite, FS_CardinalityType
  <2>4. /\ \A d \in Docs : documents[d] \in Owners /\ chunked[d] \in Owners
        /\ access \subseteq Uploads \X Docs /\ \A a \in access : Sees(a[1], documents[a[2]])
        /\ doomed \subseteq CacheKeys
    BY DEF PipelineInv, RowsIn
  <2>5. \A u \in Uploads : job[u].hits \in 0 .. Cardinality(Uploads)
    BY <2>1, <2>3
  <2>6. \A k \in CacheKeys : cache[k].hits \in 0 .. Cardinality(Uploads)
    BY <2>2, <2>3
  <2> QED
    BY <2>1, <2>2, <2>4, <2>5, <2>6 DEF TypeOK
<1>2. Init => GatewayInv /\ GatewayTypeOK /\ PipelineInv
  BY GatewayInvInit, GatewayTypeInit, PipelineInvInit DEF Init
<1> QED
  BY <1>1, <1>2, GatewayInvNext, GatewayTypeNext, PipelineInvNext, PTL DEF Spec

=============================================================================
