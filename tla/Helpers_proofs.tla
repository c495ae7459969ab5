---------------------------- MODULE Helpers_proofs ----------------------------
(***************************************************************************)
(* Proofs about SignedDelivery, for any tolerances and any skew of the      *)
(* clocks: what verification promises of replays and of rejections; and     *)
(* about VaultEnvelope, for keys of any 32-bit length and data of any: what *)
(* an envelope opens to.                                                    *)
(***************************************************************************)
EXTENDS SignedDelivery, VaultEnvelope, SequenceTheorems, WellFoundedInduction, TLAPS

-----------------------------------------------------------------------------
\* A tolerance is a number of seconds, the one that was promised.
LEMMA TolerancePromised ==
  ASSUME NEW helper \in Helpers, NEW tolerance \in Tolerances \cup {None}, NEW v,
         v.helper = helper, v.tolerance = tolerance
  PROVE  /\ Tolerance(helper, tolerance) \in Nat
         /\ Tolerance(helper, tolerance) * Seconds = Promised(v)
         /\ Promised(v) \in Nat
BY DeliveryAssumption DEF Tolerance, Promised, Helpers, DEFAULT_TOLERANCE, Seconds

LEMMA StepSign ==
  ASSUME DeliveryIInv, NEW secret \in Secrets, NEW payload \in Payloads,
         NEW skew \in Skews, Sign(secret, payload, skew)
  PROVE  DeliveryIInv'
<1> DEFINE d == [at |-> now, stamp |-> now + skew, secret |-> secret, payload |-> payload]
<1>1. sent' = {d} /\ UNCHANGED <<now, verdict>>
  BY DEF Sign
<1>2. skew \in -Skew..Skew /\ Skew \in Nat /\ Horizon \in Nat /\ now \in 0..Horizon
  BY DeliveryAssumption DEF DeliveryIInv, DeliveryTypeOK
<1>3. d \in Deliveries /\ d.at = now /\ d.stamp - d.at = skew
  BY <1>2 DEF Deliveries
<1> HIDE DEF d
<1>4. DeliveryTypeOK' /\ \A e \in sent' : e.at <= now' /\ e.stamp - e.at \in -Skew..Skew
  BY <1>1, <1>2, <1>3 DEF DeliveryIInv, DeliveryTypeOK
<1> QED
  BY <1>1, <1>4 DEF DeliveryIInv, ReplayBounded, RejectionsJustified, Promised

LEMMA StepVerify ==
  ASSUME DeliveryIInv, NEW helper \in Helpers, NEW delivery \in sent,
         NEW payload \in Payloads, NEW secret \in Secrets,
         NEW tolerance \in Tolerances \cup {None},
         Verify(helper, delivery, payload, secret, tolerance)
  PROVE  DeliveryIInv'
<1> DEFINE w == Tolerance(helper, tolerance)
           accepted == /\ ~Outside(delivery.stamp, w)
                       /\ SignatureMatches(delivery, payload, secret)
           v == [delivery |-> delivery, helper |-> helper, secret |-> secret,
                 payload |-> payload, tolerance |-> tolerance, at |-> now,
                 accepted |-> accepted]
<1>1. verdict' = v /\ UNCHANGED <<now, sent>>
  BY DEF Verify
<1>2. /\ delivery \in Deliveries /\ delivery.stamp - delivery.at \in -Skew..Skew
      /\ now \in 0..Horizon /\ Skew \in Nat /\ Horizon \in Nat
  BY DeliveryAssumption DEF DeliveryIInv, DeliveryTypeOK
<1>3. delivery.at \in Int /\ delivery.stamp \in Int /\ now \in Int
  BY <1>2 DEF Deliveries
<1>4. accepted \in BOOLEAN
  BY DEF Outside, SignatureMatches
<1>5. v \in Verdicts
  BY <1>2, <1>4 DEF Verdicts
<1>6. w \in Nat /\ w * Seconds = Promised(v) /\ Promised(v) \in Nat
  BY TolerancePromised
<1>7. v.accepted = accepted /\ v.delivery = delivery /\ v.at = now
      /\ v.payload = payload /\ v.secret = secret
  OBVIOUS
<1>8. ASSUME accepted PROVE now - delivery.at <= Promised(v) + Skew
                            /\ payload = delivery.payload /\ secret = delivery.secret
  <2>1. now - delivery.stamp <= w * Seconds
    BY <1>3, <1>6, <1>8 DEF Outside, Seconds
  <2>2. payload = delivery.payload /\ secret = delivery.secret
    BY <1>8 DEF SignatureMatches
  <2> HIDE DEF v, w
  <2> QED BY <1>2, <1>3, <1>6, <2>1, <2>2
<1>9. ASSUME ~accepted, payload = delivery.payload, secret = delivery.secret
      PROVE  now - delivery.at + Skew > Promised(v)
  <2>1. now - delivery.stamp > w * Seconds \/ delivery.stamp - now > w * Seconds
    BY <1>9 DEF Outside, SignatureMatches
  <2>2. delivery.at <= now
    BY DEF DeliveryIInv
  <2> HIDE DEF v, w
  <2> QED BY <1>2, <1>3, <1>6, <2>1, <2>2
<1> HIDE DEF v, w, accepted
<1>10. ReplayBounded' /\ RejectionsJustified'
  BY <1>1, <1>7, <1>8, <1>9 DEF ReplayBounded, RejectionsJustified, Promised
<1>11. DeliveryTypeOK' /\ \A e \in sent' : e.at <= now' /\ e.stamp - e.at \in -Skew..Skew
  BY <1>1, <1>5 DEF DeliveryIInv, DeliveryTypeOK
<1> QED BY <1>1, <1>10, <1>11 DEF DeliveryIInv

LEMMA StepTick ==
  ASSUME DeliveryIInv, NEW step \in Steps, Tick(step)
  PROVE  DeliveryIInv'
<1>1. now' \in 0..Horizon /\ now <= now' /\ UNCHANGED <<sent, verdict>>
  BY DeliveryAssumption DEF Tick, DeliveryIInv, DeliveryTypeOK
<1>2. \A d \in sent : d.at \in Int
  BY DEF DeliveryIInv, DeliveryTypeOK, Deliveries
<1>3. DeliveryTypeOK' /\ \A d \in sent' : d.at <= now' /\ d.stamp - d.at \in -Skew..Skew
  BY <1>1, <1>2 DEF DeliveryIInv, DeliveryTypeOK
<1> QED
  BY <1>1, <1>3 DEF DeliveryIInv, ReplayBounded, RejectionsJustified, Promised

\* The inductive invariant holds in every state that deliveries reach.
THEOREM Invariance == DeliverySpec => []DeliveryIInv
<1>1. DeliveryInit => DeliveryIInv
  BY DeliveryAssumption
     DEF DeliveryInit, DeliveryIInv, DeliveryTypeOK, ReplayBounded, RejectionsJustified
<1>2. DeliveryIInv /\ [DeliveryNext]_deliveryVars => DeliveryIInv'
  <2>1. ASSUME DeliveryIInv, UNCHANGED deliveryVars PROVE DeliveryIInv'
    BY <2>1 DEF deliveryVars, DeliveryIInv, DeliveryTypeOK, ReplayBounded,
                RejectionsJustified, Promised
  <2> QED BY <2>1, StepSign, StepVerify, StepTick DEF DeliveryNext
<1> QED BY <1>1, <1>2, PTL DEF DeliverySpec

\* Whatever the tolerance and the skew, no copy of a delivery is accepted
\* after both, and none is accepted that was altered.
THEOREM NoLateReplay == DeliverySpec => []ReplayBounded
<1>1. DeliveryIInv => ReplayBounded
  BY DEF DeliveryIInv
<1> QED BY Invariance, <1>1, PTL

\* A genuine delivery is refused only for the time it took.
THEOREM RejectedForCause == DeliverySpec => []RejectionsJustified
<1>1. DeliveryIInv => RejectionsJustified
  BY DEF DeliveryIInv
<1> QED BY Invariance, <1>1, PTL
-----------------------------------------------------------------------------
(***************************************************************************)
(* The length of the keys                                                  *)
(***************************************************************************)
LEMMA Weights ==
  /\ Weight[1] = 1 /\ Weight[2] = 128 /\ Weight[3] = 16384
  /\ Weight[4] = 2097152 /\ Weight[5] = 268435456
BY SMT DEF Weight

\* The least of a set that has one.
LEMMA MinIs ==
  ASSUME NEW S \in SUBSET Int, NEW n \in S, \A m \in S : n <= m
  PROVE  Min(S) = n
<1>1. Min(S) \in S /\ \A m \in S : Min(S) <= m
  BY DEF Min
<1>2. Min(S) \in Int /\ n \in Int /\ Min(S) <= n /\ n <= Min(S)
  BY <1>1
<1> QED
  BY <1>2

\* A set of natural numbers has a least one.
LEMMA LeastNatural ==
  ASSUME NEW S \in SUBSET Nat, S # {}
  PROVE  \E m \in S : \A k \in S : m <= k
<1>1. PICK m \in S : \A k \in S : <<k, m>> \notin OpToRel(<, Nat)
  BY WFMin, NatLessThanWellFounded
<1>2. \A k \in S : ~(k < m)
  BY <1>1 DEF OpToRel
<1> QED
  BY <1>2

LEMMA GroupCountIs ==
  ASSUME NEW value \in Nat
  PROVE  GroupCount(value) = IF value < 128 THEN 1 ELSE IF value < 16384 THEN 2
                             ELSE IF value < 2097152 THEN 3
                             ELSE IF value < 268435456 THEN 4 ELSE 5
<1> DEFINE S == {i \in 1..4 : value < Weight[i + 1]} \cup {5}
           n == IF value < 128 THEN 1 ELSE IF value < 16384 THEN 2
                ELSE IF value < 2097152 THEN 3 ELSE IF value < 268435456 THEN 4 ELSE 5
<1>1. \A i \in 1..4 : value < Weight[i + 1]
        <=> \/ i = 1 /\ value < 128
            \/ i = 2 /\ value < 16384
            \/ i = 3 /\ value < 2097152
            \/ i = 4 /\ value < 268435456
  BY SMT, Weights
<1>2. S \in SUBSET Int /\ n \in S /\ \A m \in S : n <= m
  BY SMT, <1>1
<1> HIDE DEF S, n
<1>3. Min(S) = n
  BY <1>2, MinIs
<1> QED
  BY SMT, <1>3 DEF S, n, GroupCount

\* Every group of a length but the last has its high bit set, the fifth holds
\* the top four bits, and together they hold the length.
LEMMA Groups ==
  ASSUME NEW value \in Nat, value \div Weight[5] < 16
  PROVE  /\ GroupCount(value) \in 1..5
         /\ Len(EncodeLeb(value)) = GroupCount(value)
         /\ EncodeLeb(value) \in [1..GroupCount(value) -> 0..255]
         /\ \A i \in 1..GroupCount(value) :
              EncodeLeb(value)[i] < 128 <=> i = GroupCount(value)
         /\ GroupCount(value) = 5 => EncodeLeb(value)[5] < 16
<1> DEFINE g == GroupCount(value)
           e == EncodeLeb(value)
           group == [i \in 1..g |-> (value \div Weight[i]) % 128]
<1>1. g \in 1..5
  BY GroupCountIs
<1>2. \A i \in 1..g : Weight[i] \in Nat \ {0}
  BY SMT, <1>1, Weights
<1>3. \A i \in 1..g : group[i] \in 0..127
  BY SMT, <1>2
<1>4. e = [i \in 1..g |-> group[i] + (IF i < g THEN 128 ELSE 0)]
  BY SMT DEF EncodeLeb
<1>5. g = 5 => e[5] < 16
  <2> SUFFICES ASSUME g = 5 PROVE e[5] < 16
    OBVIOUS
  <2>1. e[5] = (value \div 268435456) % 128 /\ value \div 268435456 < 16
    BY SMT, <1>4, Weights
  <2> QED BY SMT, <2>1
<1> HIDE DEF g, e, group
<1>6. \A i \in 1..g : e[i] \in 0..255 /\ (e[i] < 128 <=> i = g)
  <2> TAKE i \in 1..g
  <2>1. e[i] = group[i] + (IF i < g THEN 128 ELSE 0)
    BY <1>4
  <2>2. group[i] \in 0..127 /\ i \in Int /\ g \in Int /\ i <= g
    BY <1>1, <1>3
  <2> QED BY SMT, <2>1, <2>2
<1>7. e \in [1..g -> 0..255]
  <2>1. e = [i \in 1..g |-> e[i]]
    BY <1>4
  <2> QED BY <1>6, <2>1
<1>8. Len(e) = g
  BY <1>1, <1>7
<1>9. /\ g \in 1..5 /\ Len(e) = g /\ e \in [1..g -> 0..255]
      /\ \A i \in 1..g : e[i] < 128 <=> i = g
      /\ g = 5 => e[5] < 16
  BY <1>1, <1>5, <1>6, <1>7, <1>8
<1> QED
  BY <1>9, Zenon DEF e, g

\* A number of 32 bits is the sum of its groups.
SumOf(v) ==
  (v % 128) + ((v \div 128) % 128) * 128 + ((v \div 16384) % 128) * 16384
    + ((v \div 2097152) % 128) * 2097152 + ((v \div 268435456) % 128) * 268435456

LEMMA SumOfGroups ==
  ASSUME NEW v \in Nat, v \div 268435456 < 16
  PROVE  v = SumOf(v)
<1>1. v = (v % 128) + (v \div 128) * 128
  BY SMT
<1>2. v \div 128 = ((v \div 128) % 128) + (v \div 16384) * 128
  BY SMT
<1>3. v \div 16384 = ((v \div 16384) % 128) + (v \div 2097152) * 128
  BY SMT
<1>4. v \div 2097152 = ((v \div 2097152) % 128) + (v \div 268435456) * 128
  BY SMT
<1>5. v \div 268435456 = (v \div 268435456) % 128
  BY SMT
<1> QED
  BY SMT, <1>1, <1>2, <1>3, <1>4, <1>5 DEF SumOf

\* The bytes that encode a length, whatever comes after them, decode to it.
LEMMA RoundTrip ==
  ASSUME NEW value \in Nat, value \div Weight[5] < 16,
         NEW s \in Seq(Nat), Len(s) >= GroupCount(value),
         \A i \in 1..GroupCount(value) : s[i] = EncodeLeb(value)[i]
  PROVE  DecodeLeb(s) = [length |-> value, taken |-> GroupCount(value)]
<1> DEFINE g == GroupCount(value)
           ends == {i \in 1..Len(s) : s[i] < 128}
           n == Min(ends)
           Group(i) == IF i <= n THEN (s[i] % 128) * Weight[i] ELSE 0
<1>1. g \in 1..5 /\ g \in ends /\ (g = 5 => s[g] < 16)
  <2>1. /\ g \in 1..5 /\ EncodeLeb(value)[g] < 128
        /\ g = 5 => EncodeLeb(value)[g] < 16
    BY Groups
  <2> HIDE DEF g
  <2>2. g \in 1..g /\ g \in 1..Len(s)
    BY <2>1 DEF g
  <2>3. s[g] = EncodeLeb(value)[g]
    BY <2>2 DEF g
  <2> QED BY <2>1, <2>2, <2>3
<1>2. \A m \in ends : g <= m
  <2> SUFFICES ASSUME NEW m \in ends, m < g PROVE FALSE
    BY <1>1
  <2>1. m \in 1..g /\ s[m] < 128
    BY <1>1
  <2>2. s[m] = EncodeLeb(value)[m]
    BY <2>1
  <2> QED BY <1>1, <2>1, <2>2, Groups
<1>3. n = g
  <2>1. ends \in SUBSET Int
    OBVIOUS
  <2> HIDE DEF ends, g
  <2> QED BY <1>1, <1>2, <2>1, MinIs
<1>4. ASSUME NEW i \in 1..5, i <= g PROVE s[i] % 128 = (value \div Weight[i]) % 128
  <2>1. Weight[i] \in Nat \ {0}
    BY Weights
  <2>2. s[i] = ((value \div Weight[i]) % 128) + (IF i < g THEN 128 ELSE 0)
    BY <1>1, <1>4 DEF EncodeLeb
  <2> DEFINE d == value \div Weight[i]
             x == d % 128
  <2>3. d \in Int
    BY <2>1
  <2> HIDE DEF d
  <2>4. x \in 0..127
    BY <2>3
  <2> HIDE DEF x, g
  <2>5. (x + 128) % 128 = x /\ (x + 0) % 128 = x
    BY SMT, <2>4
  <2> QED BY <2>2, <2>5 DEF x, d
<1>5. ASSUME NEW i \in 1..5, i > g PROVE value \div Weight[i] = 0
  <2>1. \/ i = 2 /\ value < 128
        \/ i = 3 /\ value < 16384
        \/ i = 4 /\ value < 2097152
        \/ i = 5 /\ value < 268435456
    BY SMT, <1>1, <1>5, GroupCountIs
  <2>2. CASE i = 2 /\ value < 128
    BY SMT, <2>2, Weights
  <2>3. CASE i = 3 /\ value < 16384
    BY SMT, <2>3, Weights
  <2>4. CASE i = 4 /\ value < 2097152
    BY SMT, <2>4, Weights
  <2>5. CASE i = 5 /\ value < 268435456
    BY SMT, <2>5, Weights
  <2> QED BY SMT, <2>1, <2>2, <2>3, <2>4, <2>5
<1>6. \A i \in 1..5 : Group(i) = ((value \div Weight[i]) % 128) * Weight[i]
  <2> TAKE i \in 1..5
  <2>1. CASE i <= g
    BY <1>3, <1>4, <2>1
  <2>2. CASE i > g
    <3>1. Weight[i] \in Nat /\ (value \div Weight[i]) % 128 = 0
      BY <1>5, <2>2, Weights
    <3>2. Group(i) = 0
      BY <1>1, <1>3, <2>2
    <3> QED BY <3>1, <3>2
  <2> QED BY <1>1, <2>1, <2>2
<1>7. Group(1) + Group(2) + Group(3) + Group(4) + Group(5) = value
  <2> HIDE DEF Group
  <2> DEFINE h1 == value % 128
             h2 == ((value \div 128) % 128) * 128
             h3 == ((value \div 16384) % 128) * 16384
             h4 == ((value \div 2097152) % 128) * 2097152
             h5 == ((value \div 268435456) % 128) * 268435456
  <2>1. Group(1) = h1
    <3>1. Group(1) = ((value \div Weight[1]) % 128) * Weight[1]
      BY <1>6
    <3> QED BY SMT, <3>1, Weights
  <2>2. Group(2) = h2
    <3>1. Group(2) = ((value \div Weight[2]) % 128) * Weight[2]
      BY <1>6
    <3> QED BY SMT, <3>1, Weights
  <2>3. Group(3) = h3
    <3>1. Group(3) = ((value \div Weight[3]) % 128) * Weight[3]
      BY <1>6
    <3> QED BY SMT, <3>1, Weights
  <2>4. Group(4) = h4
    <3>1. Group(4) = ((value \div Weight[4]) % 128) * Weight[4]
      BY <1>6
    <3> QED BY SMT, <3>1, Weights
  <2>5. Group(5) = h5
    <3>1. Group(5) = ((value \div Weight[5]) % 128) * Weight[5]
      BY <1>6
    <3> QED BY SMT, <3>1, Weights
  <2>6. value \div 268435456 < 16
    BY SMT, Weights
  <2>7. value = SumOf(value)
    BY SMT, <2>6, SumOfGroups
  <2>8. SumOf(value) = h1 + h2 + h3 + h4 + h5
    BY DEF SumOf
  <2> HIDE DEF h1, h2, h3, h4, h5
  <2> QED BY <2>1, <2>2, <2>3, <2>4, <2>5, <2>7, <2>8
<1>8. ends # {} /\ ~(n > 5) /\ ~(n = 5 /\ s[n] >= 16)
  <2>1. s[g] \in Nat /\ g \in Nat /\ g <= 5 /\ ends # {}
    BY <1>1
  <2> HIDE DEF n, ends, g
  <2> QED BY <1>1, <1>3, <2>1
<1>9. DecodeLeb(s) = IF ends = {} \/ n > 5 \/ (n = 5 /\ s[n] >= 16) THEN Absent
                     ELSE [length |-> Group(1) + Group(2) + Group(3) + Group(4) + Group(5),
                           taken |-> n]
  BY DEF DecodeLeb
<1> HIDE DEF ends, n, Group
<1> QED
  BY <1>3, <1>7, <1>8, <1>9 DEF g

\* What is decoded is a length and the bytes it takes.
LEMMA DecodedLength ==
  ASSUME NEW s \in Seq(Nat), DecodeLeb(s) # Absent
  PROVE  DecodeLeb(s) \in Lengths
<1> DEFINE ends == {i \in 1..Len(s) : s[i] < 128}
           n == Min(ends)
           Group(i) == IF i <= n THEN (s[i] % 128) * Weight[i] ELSE 0
<1>1. ends # {} /\ ~(n > 5)
      /\ DecodeLeb(s) = [length |-> Group(1) + Group(2) + Group(3) + Group(4) + Group(5),
                         taken |-> n]
  <2>1. DecodeLeb(s) = IF ends = {} \/ n > 5 \/ (n = 5 /\ s[n] >= 16) THEN Absent
                       ELSE [length |-> Group(1) + Group(2) + Group(3) + Group(4) + Group(5),
                             taken |-> n]
    BY DEF DecodeLeb
  <2> HIDE DEF ends, n, Group
  <2> QED BY <2>1
<1>2. n \in 1..Len(s)
  <2>1. ends \in SUBSET Nat /\ ends # {}
    <3>1. ends \subseteq Nat
      BY LenProperties
    <3> QED BY <1>1, <3>1
  <2>2. \E m \in ends : \A k \in ends : m <= k
    <3> HIDE DEF ends
    <3> QED BY <2>1, LeastNatural
  <2>3. PICK m \in ends : \A k \in ends : m <= k
    BY <2>2
  <2>4. n = m
    <3> HIDE DEF ends
    <3> QED BY <2>1, <2>3, MinIs
  <2> QED BY <2>3, <2>4
<1>3. \A i \in 1..5 : Group(i) \in Nat
  <2> TAKE i \in 1..5
  <2>1. CASE i <= n
    <3>1. s[i] \in Nat
      BY <1>2, <2>1
    <3> DEFINE x == s[i] % 128
    <3>2. x \in Nat
      BY <3>1
    <3>3. Weight[i] \in Nat
      BY Weights
    <3>4. Group(i) = x * Weight[i]
      BY <2>1
    <3> HIDE DEF x, n
    <3> QED BY <3>2, <3>3, <3>4
  <2>2. CASE ~(i <= n)
    BY <2>2
  <2> QED BY <2>1, <2>2
<1> HIDE DEF Group, ends, n
<1>4. Group(1) + Group(2) + Group(3) + Group(4) + Group(5) \in Nat
  BY <1>3
<1> QED
  BY <1>1, <1>2, <1>4 DEF Lengths
-----------------------------------------------------------------------------
(***************************************************************************)
(* The layout of an envelope                                               *)
(***************************************************************************)
Names == {"iv", "tag", "length", "keys", "data"}

LEMMA BytesAre ==
  ASSUME NEW part \in Names, NEW length \in Nat, NEW fill \in Nat
  PROVE  /\ Bytes(part, length, fill) \in Seq(Byte)
         /\ Len(Bytes(part, length, fill)) = length
         /\ \A i \in 1..length :
              Bytes(part, length, fill)[i] = [of |-> part, at |-> i, value |-> fill]
<1> DEFINE b(i) == [of |-> part, at |-> i, value |-> fill]
<1>1. \A i \in 1..length : b(i) \in Byte
  BY DEF Byte, Names
<1>2. Bytes(part, length, fill) \in [1..length -> Byte]
  BY <1>1 DEF Bytes
<1>3. Bytes(part, length, fill) \in Seq(Byte)
  BY <1>2
<1>4. Len(Bytes(part, length, fill)) = length
  BY <1>2
<1> QED
  BY <1>3, <1>4 DEF Bytes

LengthBytes(value) ==
  [i \in DOMAIN EncodeLeb(value) |->
     [of |-> "length", at |-> i, value |-> EncodeLeb(value)[i]]]

LEMMA LengthBytesAre ==
  ASSUME NEW value \in Nat, value \div Weight[5] < 16
  PROVE  /\ LengthBytes(value) \in Seq(Byte)
         /\ Len(LengthBytes(value)) = GroupCount(value)
         /\ \A i \in 1..GroupCount(value) :
              LengthBytes(value)[i]
                = [of |-> "length", at |-> i, value |-> EncodeLeb(value)[i]]
<1> DEFINE g == GroupCount(value)
           e == EncodeLeb(value)
           b(i) == [of |-> "length", at |-> i, value |-> e[i]]
<1>1. g \in Nat /\ e \in [1..g -> 0..255]
  BY Groups
<1>2. DOMAIN e = 1..g
  BY <1>1
<1>3. LengthBytes(value) = [i \in 1..g |-> b(i)]
  BY <1>2 DEF LengthBytes
<1> HIDE DEF e, g
<1>4. \A i \in 1..g : b(i) \in Byte
  <2>1. \A i \in 1..g : i \in Nat /\ e[i] \in Nat
    <3> TAKE i \in 1..g
    <3>1. i \in Nat /\ e[i] \in 0..255
      BY <1>1
    <3> QED BY <3>1
  <2> QED BY <2>1 DEF Byte
<1>5. LengthBytes(value) \in [1..g -> Byte]
  BY <1>3, <1>4
<1>6. LengthBytes(value) \in Seq(Byte) /\ Len(LengthBytes(value)) = g
  BY <1>1, <1>5
<1> QED
  BY <1>3, <1>6 DEF e, g

\* Where each byte of an envelope is.
Layout(bytes, k, d, fill) ==
  LET g == GroupCount(k)
  IN  /\ g \in Nat
      /\ bytes \in Seq(Byte)
      /\ Len(bytes) = 28 + g + k + d
      /\ \A i \in 1..12 : bytes[i] = [of |-> "iv", at |-> i, value |-> fill]
      /\ \A i \in 1..16 : bytes[12 + i] = [of |-> "tag", at |-> i, value |-> fill]
      /\ \A i \in 1..g :
           bytes[28 + i] = [of |-> "length", at |-> i, value |-> EncodeLeb(k)[i]]
      /\ \A i \in 1..k : bytes[28 + g + i] = [of |-> "keys", at |-> i, value |-> fill]
      /\ \A i \in 1..d : bytes[28 + g + k + i] = [of |-> "data", at |-> i, value |-> fill]

LEMMA Concatenated ==
  ASSUME NEW s \in Seq(Byte), NEW t \in Seq(Byte)
  PROVE  /\ s \o t \in Seq(Byte)
         /\ Len(s \o t) = Len(s) + Len(t)
         /\ \A i \in 1..Len(s) : (s \o t)[i] = s[i]
         /\ \A i \in 1..Len(t) : (s \o t)[Len(s) + i] = t[i]
<1>1. Len(s) \in Nat /\ Len(t) \in Nat
  OBVIOUS
<1> QED
  BY <1>1, ConcatProperties

LEMMA SealedLayout ==
  ASSUME NEW k \in KeyLengths, NEW d \in DataLengths, NEW fill \in Fills
  PROVE  Layout(Sealed(k, d, fill), k, d, fill)
<1> DEFINE g == GroupCount(k)
           iv == Bytes("iv", 12, fill)
           tag == Bytes("tag", 16, fill)
           leb == LengthBytes(k)
           keys == Bytes("keys", k, fill)
           data == Bytes("data", d, fill)
<1>1. k \in Nat /\ d \in Nat /\ fill \in Nat /\ k \div Weight[5] < 16
  <2>1. \A n \in 0..255 : n \in Nat
    OBVIOUS
  <2>2. fill \in 0..255 /\ k \in Nat /\ d \in Nat
    BY EnvelopeAssumption
  <2> QED BY <2>1, <2>2, LengthAssumption
<1>0. "iv" \in Names /\ "tag" \in Names /\ "keys" \in Names /\ "data" \in Names
      /\ 12 \in Nat /\ 16 \in Nat
  BY DEF Names
<1>2. /\ iv \in Seq(Byte) /\ Len(iv) = 12
      /\ \A i \in 1..12 : iv[i] = [of |-> "iv", at |-> i, value |-> fill]
  <2>1. \A n \in Nat : LET b == Bytes("iv", n, fill)
                       IN  /\ b \in Seq(Byte) /\ Len(b) = n
                           /\ \A i \in 1..n : b[i] = [of |-> "iv", at |-> i, value |-> fill]
    BY <1>0, <1>1, BytesAre
  <2> QED BY <2>1
<1>3. /\ tag \in Seq(Byte) /\ Len(tag) = 16
      /\ \A i \in 1..16 : tag[i] = [of |-> "tag", at |-> i, value |-> fill]
  <2>1. \A n \in Nat : LET b == Bytes("tag", n, fill)
                       IN  /\ b \in Seq(Byte) /\ Len(b) = n
                           /\ \A i \in 1..n : b[i] = [of |-> "tag", at |-> i, value |-> fill]
    BY <1>0, <1>1, BytesAre
  <2> QED BY <2>1
<1>4. /\ leb \in Seq(Byte) /\ Len(leb) = g /\ g \in Nat
      /\ \A i \in 1..g : leb[i] = [of |-> "length", at |-> i, value |-> EncodeLeb(k)[i]]
  BY <1>1, LengthBytesAre, Groups
<1>5. /\ keys \in Seq(Byte) /\ Len(keys) = k
      /\ \A i \in 1..k : keys[i] = [of |-> "keys", at |-> i, value |-> fill]
  BY <1>1, <1>0, BytesAre
<1>6. /\ data \in Seq(Byte) /\ Len(data) = d
      /\ \A i \in 1..d : data[i] = [of |-> "data", at |-> i, value |-> fill]
  BY <1>1, <1>0, BytesAre
<1>7. Sealed(k, d, fill) = (((iv \o tag) \o leb) \o keys) \o data
  BY DEF Sealed, LengthBytes
<1> HIDE DEF g, iv, tag, leb, keys, data
<1> DEFINE two == iv \o tag
           three == two \o leb
           four == three \o keys
           all == four \o data
<1>8. /\ two \in Seq(Byte) /\ Len(two) = 28
      /\ \A i \in 1..12 : two[i] = iv[i]
      /\ \A i \in 1..16 : two[12 + i] = tag[i]
  <2>0. iv \in Seq(Byte) /\ tag \in Seq(Byte)
    BY <1>2, <1>3
  <2>1. /\ two \in Seq(Byte) /\ Len(two) = Len(iv) + Len(tag)
        /\ \A i \in 1..Len(iv) : two[i] = iv[i]
        /\ \A i \in 1..Len(tag) : two[Len(iv) + i] = tag[i]
    BY <2>0, Concatenated
  <2>2. Len(iv) = 12 /\ Len(tag) = 16
    BY <1>2, <1>3
  <2> HIDE DEF two
  <2>3. Len(two) = 28
    BY <2>1, <2>2
  <2> QED BY <2>1, <2>2, <2>3
<1> HIDE DEF two
<1>9. /\ three \in Seq(Byte) /\ Len(three) = 28 + g
      /\ \A i \in 1..28 : three[i] = two[i]
      /\ \A i \in 1..g : three[28 + i] = leb[i]
  <2>0. two \in Seq(Byte) /\ leb \in Seq(Byte)
    BY <1>4, <1>8
  <2>1. /\ three \in Seq(Byte) /\ Len(three) = Len(two) + Len(leb)
        /\ \A i \in 1..Len(two) : three[i] = two[i]
        /\ \A i \in 1..Len(leb) : three[Len(two) + i] = leb[i]
    BY <2>0, Concatenated
  <2>2. Len(two) = 28 /\ Len(leb) = g
    BY <1>4, <1>8
  <2> HIDE DEF three
  <2> QED BY <2>1, <2>2
<1> HIDE DEF three
<1>10. /\ four \in Seq(Byte) /\ Len(four) = 28 + g + k
       /\ \A i \in 1..28 + g : four[i] = three[i]
       /\ \A i \in 1..k : four[28 + g + i] = keys[i]
  <2>0. three \in Seq(Byte) /\ keys \in Seq(Byte)
    BY <1>5, <1>9
  <2>1. /\ four \in Seq(Byte) /\ Len(four) = Len(three) + Len(keys)
        /\ \A i \in 1..Len(three) : four[i] = three[i]
        /\ \A i \in 1..Len(keys) : four[Len(three) + i] = keys[i]
    BY <2>0, Concatenated
  <2>2. Len(three) = 28 + g /\ Len(keys) = k
    BY <1>5, <1>9
  <2> HIDE DEF four
  <2> QED BY <2>1, <2>2
<1> HIDE DEF four
<1>11. /\ all \in Seq(Byte) /\ Len(all) = 28 + g + k + d
       /\ \A i \in 1..28 + g + k : all[i] = four[i]
       /\ \A i \in 1..d : all[28 + g + k + i] = data[i]
  <2>0. four \in Seq(Byte) /\ data \in Seq(Byte)
    BY <1>6, <1>10
  <2>1. /\ all \in Seq(Byte) /\ Len(all) = Len(four) + Len(data)
        /\ \A i \in 1..Len(four) : all[i] = four[i]
        /\ \A i \in 1..Len(data) : all[Len(four) + i] = data[i]
    BY <2>0, Concatenated
  <2>2. Len(four) = 28 + g + k /\ Len(data) = d
    BY <1>6, <1>10
  <2> HIDE DEF all
  <2> QED BY <2>1, <2>2
<1>12. all = Sealed(k, d, fill)
  BY <1>7 DEF two, three, four
<1> HIDE DEF all
<1>13. \A i \in 1..28 + g : all[i] = three[i]
  <2> TAKE i \in 1..28 + g
  <2>1. i \in 1..28 + g + k
    BY <1>1, <1>4
  <2> QED BY <1>10, <1>11, <2>1
<1>14. \A i \in 1..28 : all[i] = two[i]
  <2> TAKE i \in 1..28
  <2>1. i \in 1..28 + g
    BY <1>4
  <2> QED BY <1>9, <1>13, <2>1
<1>15. \A i \in 1..12 : all[i] = [of |-> "iv", at |-> i, value |-> fill]
  <2> TAKE i \in 1..12
  <2>1. i \in 1..28
    OBVIOUS
  <2> QED BY <1>2, <1>8, <1>14, <2>1
<1>16. \A i \in 1..16 : all[12 + i] = [of |-> "tag", at |-> i, value |-> fill]
  <2> TAKE i \in 1..16
  <2>1. 12 + i \in 1..28
    OBVIOUS
  <2>2. all[12 + i] = two[12 + i]
    BY <1>14, <2>1
  <2>3. two[12 + i] = tag[i]
    BY <1>8
  <2> QED BY <1>3, <2>2, <2>3
<1>17. \A i \in 1..g : all[28 + i] = [of |-> "length", at |-> i, value |-> EncodeLeb(k)[i]]
  <2> TAKE i \in 1..g
  <2>1. 28 + i \in 1..28 + g
    BY <1>4
  <2> QED BY <1>4, <1>9, <1>13, <2>1
<1>18. \A i \in 1..k : all[28 + g + i] = [of |-> "keys", at |-> i, value |-> fill]
  <2> TAKE i \in 1..k
  <2>1. 28 + g + i \in 1..28 + g + k
    BY <1>1, <1>4
  <2> QED BY <1>5, <1>10, <1>11, <2>1
<1>19. \A i \in 1..d : all[28 + g + k + i] = [of |-> "data", at |-> i, value |-> fill]
  BY <1>6, <1>11
<1>20. g = GroupCount(k)
  BY DEF g
<1> QED
  BY <1>4, <1>11, <1>12, <1>15, <1>16, <1>17, <1>18, <1>19, <1>20 DEF Layout

\* A slice of a sequence, of its own end or cut short.
LEMMA SliceIs ==
  ASSUME NEW s \in Seq(Byte), NEW from \in Nat, NEW to \in Nat
  PROVE  /\ Slice(s, from, to) \in Seq(Byte)
         /\ from <= to /\ to <= Len(s) => Len(Slice(s, from, to)) = to - from
         /\ \A i \in 1..Len(Slice(s, from, to)) :
              from + i \in 1..Len(s) /\ Slice(s, from, to)[i] = s[from + i]
<1> DEFINE n == Min({to, Len(s)})
<1>1. Len(s) \in Nat /\ \A i \in 1..Len(s) : s[i] \in Byte
  OBVIOUS
<1>2. n = IF to <= Len(s) THEN to ELSE Len(s)
  <2> DEFINE x == IF to <= Len(s) THEN to ELSE Len(s)
             S == {to, Len(s)}
  <2>1. S \in SUBSET Int /\ x \in S /\ \A y \in S : x <= y
    BY <1>1
  <2> HIDE DEF x, S
  <2>2. Min(S) = x
    BY <2>1, MinIs
  <2> QED BY <2>2 DEF x, S
<1> HIDE DEF n
<1>3. n \in Nat /\ n <= Len(s) /\ n <= to /\ (to <= Len(s) => n = to)
  BY <1>1, <1>2
<1>4. \A i \in (from + 1)..n : s[i] \in Byte
  BY <1>1, <1>3
<1>5. /\ SubSeq(s, from + 1, n) \in Seq(Byte)
      /\ Len(SubSeq(s, from + 1, n)) = IF from + 1 <= n THEN n - (from + 1) + 1 ELSE 0
      /\ \A i \in 1..(n - (from + 1) + 1) :
           SubSeq(s, from + 1, n)[i] = s[from + 1 + i - 1]
  BY <1>3, <1>4, SubSeqProperties
<1>6. Slice(s, from, to) = SubSeq(s, from + 1, n)
  BY DEF Slice, n
<1> DEFINE part == SubSeq(s, from + 1, n)
<1>7. Len(part) = (IF from + 1 <= n THEN n - from ELSE 0) /\ Len(s) \in Nat
  BY <1>1, <1>3, <1>5
<1> HIDE DEF part
<1>8. from <= to /\ to <= Len(s) => Len(part) = to - from
  BY <1>3, <1>7
<1>9. ASSUME NEW i \in 1..Len(part)
      PROVE  from + i \in 1..Len(s) /\ part[i] = s[from + i]
  <2>1. i \in 1..(n - (from + 1) + 1) /\ from + 1 + i - 1 = from + i
    BY <1>3, <1>7
  <2>2. from + i \in 1..Len(s)
    BY <1>3, <1>7
  <2> QED BY <1>5, <2>1, <2>2 DEF part
<1> QED
  BY <1>5, <1>6, <1>8, <1>9 DEF part

\* A slice that holds what Bytes makes is that.
Holds(s, from, to, part, length, fill) ==
  /\ s \in Seq(Byte) /\ from \in Nat /\ to \in Nat /\ to <= Len(s)
  /\ part \in Names /\ length \in Nat /\ fill \in Nat /\ to = from + length
  /\ \A i \in 1..length : s[from + i] = [of |-> part, at |-> i, value |-> fill]

LEMMA SliceIsBytes ==
  ASSUME NEW s, NEW from, NEW to, NEW part, NEW length, NEW fill,
         Holds(s, from, to, part, length, fill)
  PROVE  Slice(s, from, to) = Bytes(part, length, fill)
<1> USE DEF Holds
<1> DEFINE a == Slice(s, from, to)
           b == Bytes(part, length, fill)
<1>1. a \in Seq(Byte) /\ Len(a) = length
      /\ \A i \in 1..Len(a) : a[i] = s[from + i]
  <2>1. from <= to /\ to - from = length
    OBVIOUS
  <2> QED BY <2>1, SliceIs
<1>2. b \in Seq(Byte) /\ Len(b) = length
      /\ \A i \in 1..length : b[i] = [of |-> part, at |-> i, value |-> fill]
  BY BytesAre
<1>3. Len(a) = Len(b) /\ \A i \in 1..Len(a) : a[i] = b[i]
  BY <1>1, <1>2
<1> HIDE DEF a, b
<1>4. a = b
  BY <1>1, <1>2, <1>3, SeqEqual
<1> QED
  BY <1>4 DEF a, b

\* An envelope decodes to what it was made of.
LEMMA DecodedSealed ==
  ASSUME NEW k \in KeyLengths, NEW d \in DataLengths, NEW fill \in Fills
  PROVE  Decoded(Sealed(k, d, fill))
           = [iv |-> Bytes("iv", 12, fill), tag |-> Bytes("tag", 16, fill),
              keys |-> Bytes("keys", k, fill), ciphertext |-> Bytes("data", d, fill)]
<1> DEFINE g == GroupCount(k)
           bytes == Sealed(k, d, fill)
           tail == Slice(bytes, 28, Len(bytes))
           values == [i \in DOMAIN tail |-> tail[i].value]
<1>1. k \in Nat /\ d \in Nat /\ k \div Weight[5] < 16 /\ fill \in 0..255
  BY EnvelopeAssumption, LengthAssumption
<1>2. fill \in Nat /\ g \in Nat
  BY <1>1, Groups
<1>3. Layout(bytes, k, d, fill)
  BY SealedLayout
<1>4. bytes \in Seq(Byte) /\ Len(bytes) = 28 + g + k + d
  BY <1>3 DEF Layout
<1>5. tail \in Seq(Byte) /\ Len(tail) = g + k + d
      /\ \A i \in 1..Len(tail) : tail[i] = bytes[28 + i]
  <2> HIDE DEF bytes, g
  <2>1. 28 \in Nat /\ Len(bytes) \in Nat /\ 28 <= Len(bytes) /\ Len(bytes) - 28 = g + k + d
    BY <1>1, <1>2, <1>4
  <2> QED BY <1>4, <2>1, SliceIs
<1>6. values \in Seq(Nat) /\ Len(values) = g + k + d
  <2> HIDE DEF tail, g
  <2>1. g + k + d \in Nat
    BY <1>1, <1>2
  <2>2. DOMAIN tail = 1..(g + k + d) /\ \A i \in DOMAIN tail : tail[i] \in Byte
    BY <1>5
  <2>3. \A i \in DOMAIN tail : tail[i].value \in Nat
    BY <2>2 DEF Byte
  <2>4. values \in [1..(g + k + d) -> Nat]
    BY <2>2, <2>3
  <2> QED BY <2>1, <2>4
<1>7. \A i \in 1..g : values[i] = EncodeLeb(k)[i]
  <2> TAKE i \in 1..g
  <2>1. bytes[28 + i] = [of |-> "length", at |-> i, value |-> EncodeLeb(k)[i]]
    BY <1>3 DEF Layout
  <2> HIDE DEF bytes, tail, g
  <2>2. i \in 1..(g + k + d)
    BY <1>1, <1>2
  <2>3. DOMAIN tail = 1..(g + k + d) /\ tail[i] = bytes[28 + i]
    BY <1>5, <2>2
  <2> QED BY <2>1, <2>2, <2>3
<1>8. DecodeLeb(values) = [length |-> k, taken |-> g]
  <2>1. Len(values) >= GroupCount(k)
    BY <1>1, <1>2, <1>6
  <2> HIDE DEF values
  <2> QED BY <1>1, <1>6, <1>7, <2>1, RoundTrip
<1>9. DecodeLeb(values) # Absent
  <2>1. [length |-> k, taken |-> g] \in Lengths
    BY <1>1, <1>2 DEF Lengths
  <2> QED BY <1>8, <2>1, AbsentAssumption
<1>10. Decoded(bytes)
         = [iv |-> Slice(bytes, 0, 12), tag |-> Slice(bytes, 12, 28),
            keys |-> Slice(bytes, 28 + g, 28 + g + k),
            ciphertext |-> Slice(bytes, 28 + g + k, Len(bytes))]
  BY <1>8, <1>9 DEF Decoded
<1>11. "iv" \in Names /\ "tag" \in Names /\ "keys" \in Names /\ "data" \in Names
  BY DEF Names
<1>12. /\ \A i \in 1..12 : bytes[i] = [of |-> "iv", at |-> i, value |-> fill]
       /\ \A i \in 1..16 : bytes[12 + i] = [of |-> "tag", at |-> i, value |-> fill]
       /\ \A i \in 1..k : bytes[28 + g + i] = [of |-> "keys", at |-> i, value |-> fill]
       /\ \A i \in 1..d : bytes[28 + g + k + i] = [of |-> "data", at |-> i, value |-> fill]
  BY <1>3 DEF Layout
<1>13. bytes = Sealed(k, d, fill)
  OBVIOUS
<1> HIDE DEF bytes, g
<1>14. Slice(bytes, 0, 12) = Bytes("iv", 12, fill)
  <2>1. Holds(bytes, 0, 12, "iv", 12, fill)
    BY <1>1, <1>2, <1>4, <1>11, <1>12 DEF Holds
  <2> QED BY <2>1, SliceIsBytes
<1>15. Slice(bytes, 12, 28) = Bytes("tag", 16, fill)
  <2>1. Holds(bytes, 12, 28, "tag", 16, fill)
    BY <1>1, <1>2, <1>4, <1>11, <1>12 DEF Holds
  <2> QED BY <2>1, SliceIsBytes
<1>16. Slice(bytes, 28 + g, 28 + g + k) = Bytes("keys", k, fill)
  <2>1. Holds(bytes, 28 + g, 28 + g + k, "keys", k, fill)
    <3>1. 28 + g \in Nat /\ 28 + g + k \in Nat /\ 28 + g + k <= Len(bytes)
      BY <1>1, <1>2, <1>4
    <3> QED BY <1>1, <1>2, <1>4, <1>11, <1>12, <3>1 DEF Holds
  <2> QED BY <2>1, SliceIsBytes
<1>17. Slice(bytes, 28 + g + k, 28 + g + k + d) = Bytes("data", d, fill)
  <2>1. Holds(bytes, 28 + g + k, 28 + g + k + d, "data", d, fill)
    <3>1. 28 + g + k \in Nat /\ 28 + g + k + d \in Nat /\ 28 + g + k + d <= Len(bytes)
      BY <1>1, <1>2, <1>4
    <3> QED BY <1>1, <1>2, <1>4, <1>11, <1>12, <3>1 DEF Holds
  <2> QED BY <2>1, SliceIsBytes
<1> QED
  BY <1>4, <1>10, <1>13, <1>14, <1>15, <1>16, <1>17

\* What lies in the b places after the first a.
LEMMA Offset ==
  ASSUME NEW a \in Nat, NEW b \in Nat, NEW j \in Int, a < j, j <= a + b
  PROVE  \E i \in 1..b : j = a + i
<1>1. j - a \in 1..b /\ j = a + (j - a)
  OBVIOUS
<1> QED BY <1>1

\* A byte that is not of the length says where it is.
LEMMA Places ==
  ASSUME NEW k \in Nat, NEW d \in Nat, NEW fill, NEW bytes, Layout(bytes, k, d, fill),
         NEW j \in 1..Len(bytes), bytes[j].of # "length"
  PROVE  \/ bytes[j].of = "iv" /\ j <= 12
         \/ bytes[j].of = "tag" /\ j <= 28 /\ j = 12 + bytes[j].at
         \/ bytes[j].of = "keys" /\ bytes[j].at \in 1..k
              /\ j = 28 + GroupCount(k) + bytes[j].at
         \/ bytes[j].of = "data" /\ bytes[j].at \in 1..d
              /\ j = 28 + GroupCount(k) + k + bytes[j].at
<1> DEFINE g == GroupCount(k)
<1>0. /\ g \in Nat /\ Len(bytes) = 28 + g + k + d /\ j \in Int
      /\ 1 <= j /\ j <= 28 + g + k + d
  BY DEF Layout
<1>1. /\ \A i \in 1..12 : bytes[i] = [of |-> "iv", at |-> i, value |-> fill]
      /\ \A i \in 1..16 : bytes[12 + i] = [of |-> "tag", at |-> i, value |-> fill]
      /\ \A i \in 1..g :
           bytes[28 + i] = [of |-> "length", at |-> i, value |-> EncodeLeb(k)[i]]
      /\ \A i \in 1..k : bytes[28 + g + i] = [of |-> "keys", at |-> i, value |-> fill]
      /\ \A i \in 1..d : bytes[28 + g + k + i] = [of |-> "data", at |-> i, value |-> fill]
  BY DEF Layout
<1> HIDE DEF g
<1>2. CASE j <= 12
  <2>1. j \in 1..12
    BY <1>0, <1>2
  <2>2. bytes[j] = [of |-> "iv", at |-> j, value |-> fill]
    BY <1>1, <2>1
  <2> QED BY <1>2, <2>2
<1>3. CASE 12 < j /\ j <= 28
  <2>1. \E i \in 1..16 : j = 12 + i
    BY <1>0, <1>3, Offset
  <2>2. PICK i \in 1..16 : j = 12 + i
    BY <2>1
  <2>3. bytes[j] = [of |-> "tag", at |-> i, value |-> fill]
    BY <1>1, <2>2
  <2>4. bytes[j].of = "tag" /\ bytes[j].at = i
    BY <2>3
  <2> QED BY <1>3, <2>2, <2>4
<1>4. CASE 28 < j /\ j <= 28 + g
  <2>1. \E i \in 1..g : j = 28 + i
    BY <1>0, <1>4, Offset
  <2>2. PICK i \in 1..g : j = 28 + i
    BY <2>1
  <2>3. bytes[j] = [of |-> "length", at |-> i, value |-> EncodeLeb(k)[i]]
    BY <1>1, <2>2
  <2>4. bytes[j].of = "length" /\ bytes[j].at = i
    BY <2>3
  <2> QED BY <2>2, <2>4
<1>5. CASE 28 + g < j /\ j <= 28 + g + k
  <2>1. \E i \in 1..k : j = 28 + g + i
    BY <1>0, <1>5, Offset
  <2>2. PICK i \in 1..k : j = 28 + g + i
    BY <2>1
  <2>3. bytes[j] = [of |-> "keys", at |-> i, value |-> fill]
    BY <1>1, <2>2
  <2>4. bytes[j].of = "keys" /\ bytes[j].at = i
    BY <2>3
  <2> QED BY <2>2, <2>4 DEF g
<1>6. CASE 28 + g + k < j
  <2>1. \E i \in 1..d : j = 28 + g + k + i
    BY <1>0, <1>6, Offset
  <2>2. PICK i \in 1..d : j = 28 + g + k + i
    BY <2>1
  <2>3. bytes[j] = [of |-> "data", at |-> i, value |-> fill]
    BY <1>1, <2>2
  <2>4. bytes[j].of = "data" /\ bytes[j].at = i
    BY <2>3
  <2> QED BY <2>2, <2>4 DEF g
<1> QED
  BY <1>0, <1>2, <1>3, <1>4, <1>5, <1>6

\* What is decoded has all its bytes from what arrived.
LEMMA DecodedFrom ==
  ASSUME NEW r \in Seq(Byte), Decoded(r) # Absent,
         NEW part \in {Decoded(r).iv, Decoded(r).tag, Decoded(r).keys,
                       Decoded(r).ciphertext},
         NEW i \in 1..Len(part)
  PROVE  \E j \in 1..Len(r) : part[i] = r[j]
<1> DEFINE tail == Slice(r, 28, Len(r))
           leb == DecodeLeb([m \in DOMAIN tail |-> tail[m].value])
           index == 28 + leb.taken
           end == index + leb.length
<1>1. Len(r) \in Nat /\ 28 \in Nat /\ 12 \in Nat /\ 0 \in Nat
  OBVIOUS
<1>2. tail \in Seq(Byte)
  BY <1>1, SliceIs
<1>3. [m \in DOMAIN tail |-> tail[m].value] \in Seq(Nat)
  <2> HIDE DEF tail
  <2>1. Len(tail) \in Nat /\ DOMAIN tail = 1..Len(tail)
        /\ \A m \in 1..Len(tail) : tail[m] \in Byte
    BY <1>2
  <2>2. \A m \in 1..Len(tail) : tail[m].value \in Nat
    BY <2>1 DEF Byte
  <2>3. [m \in DOMAIN tail |-> tail[m].value] \in [1..Len(tail) -> Nat]
    BY <2>1, <2>2
  <2> QED BY <2>1, <2>3
<1>4. leb # Absent
      /\ Decoded(r) = [iv |-> Slice(r, 0, 12), tag |-> Slice(r, 12, 28),
                       keys |-> Slice(r, index, end),
                       ciphertext |-> Slice(r, end, Len(r))]
  <2>1. Decoded(r) = IF leb = Absent THEN Absent
                     ELSE [iv |-> Slice(r, 0, 12), tag |-> Slice(r, 12, 28),
                           keys |-> Slice(r, index, end),
                           ciphertext |-> Slice(r, end, Len(r))]
    BY DEF Decoded
  <2> HIDE DEF tail, leb, index, end
  <2> QED BY <2>1
<1>5. index \in Nat /\ end \in Nat
  <2>1. leb \in Lengths
    BY <1>3, <1>4, DecodedLength
  <2> HIDE DEF leb
  <2> QED BY <2>1 DEF Lengths
<1> HIDE DEF tail, leb, index, end
<1>6. PICK from \in Nat, to \in Nat : part = Slice(r, from, to)
  <2>1. \/ part = Slice(r, 0, 12) \/ part = Slice(r, 12, 28)
        \/ part = Slice(r, index, end) \/ part = Slice(r, end, Len(r))
    BY <1>4
  <2>2. 0 \in Nat /\ 12 \in Nat /\ 28 \in Nat
    OBVIOUS
  <2> QED BY <1>1, <1>5, <2>1, <2>2
<1> QED
  BY <1>6, SliceIs
-----------------------------------------------------------------------------
(***************************************************************************)
(* What an envelope opens to                                               *)
(***************************************************************************)
LEMMA EnvelopeMade ==
  ASSUME envelope \in Envelopes
  PROVE  \E k \in KeyLengths, d \in DataLengths, a \in Associated, fill \in Fills :
           /\ k \in Nat /\ d \in Nat
           /\ envelope = Made(k, d, a, fill)
           /\ envelope.bytes = Sealed(k, d, fill) /\ envelope.keys = k
           /\ envelope.data = d /\ envelope.fill = fill
           /\ envelope.aad = Aad(a) /\ envelope.given = a
           /\ Layout(envelope.bytes, k, d, fill)
<1>1. PICK k \in KeyLengths, d \in DataLengths, a \in Associated, fill \in Fills :
        envelope = Made(k, d, a, fill)
  BY DEF Envelopes
<1>2. /\ envelope.bytes = Sealed(k, d, fill) /\ envelope.keys = k
      /\ envelope.data = d /\ envelope.fill = fill
      /\ envelope.aad = Aad(a) /\ envelope.given = a
  BY <1>1 DEF Made
<1>3. k \in Nat /\ d \in Nat
  BY EnvelopeAssumption
<1> QED
  BY <1>1, <1>2, <1>3, SealedLayout

\* Associated data open what they sealed: "" and None do for one another.
LEMMA Contextual ==
  ASSUME NEW a \in Associated, NEW b \in Associated
  PROVE  SameContext(a, b) <=> Aad(a) = Aad(b)
<1>1. a = "" \/ a = Absent \/ a \in Contexts
  BY DEF Associated
<1>2. b = "" \/ b = Absent \/ b \in Contexts
  BY DEF Associated
<1>3. Absent # "" /\ Absent \notin Contexts
  BY EnvelopeAssumption
<1> QED
  BY <1>1, <1>2, <1>3 DEF SameContext, Aad

\* Whoever has the tag, the keys and the data has every byte but the length's.
HasParts(r, k, d, fill) ==
  /\ Decoded(r) # Absent
  /\ Decoded(r).tag = Bytes("tag", 16, fill)
  /\ Decoded(r).keys = Bytes("keys", k, fill)
  /\ Decoded(r).ciphertext = Bytes("data", d, fill)

LEMMA PrefixWhole ==
  ASSUME NEW k \in Nat, NEW d \in Nat, NEW fill \in Nat, NEW bytes,
         Layout(bytes, k, d, fill),
         NEW n \in 0..Len(bytes), HasParts(SubSeq(bytes, 1, n), k, d, fill)
  PROVE  \A j \in 1..Len(bytes) : bytes[j].of # "length" => j <= n
<1> DEFINE g == GroupCount(k)
           r == SubSeq(bytes, 1, n)
<1>1. bytes \in Seq(Byte) /\ Len(bytes) \in Nat /\ Len(bytes) = 28 + g + k + d /\ g \in Nat
  BY DEF Layout
<1>2. r \in Seq(Byte) /\ Len(r) = n /\ \A j \in 1..n : r[j] = bytes[j]
  <2>1. 1 \in Int /\ n \in Int /\ \A i \in 1..n : bytes[i] \in Byte
    BY <1>1
  <2>2. /\ SubSeq(bytes, 1, n) \in Seq(Byte)
        /\ Len(SubSeq(bytes, 1, n)) = IF 1 <= n THEN n - 1 + 1 ELSE 0
        /\ \A i \in 1..(n - 1 + 1) : SubSeq(bytes, 1, n)[i] = bytes[1 + i - 1]
    BY <2>1, SubSeqProperties
  <2> QED BY <1>1, <2>2
<1> HIDE DEF r
<1>3. ASSUME NEW part \in Names, NEW length \in Nat, NEW i \in 1..length,
             Bytes(part, length, fill)
               \in {Decoded(r).tag, Decoded(r).keys, Decoded(r).ciphertext}
      PROVE  \E j \in 1..n : bytes[j].of = part /\ bytes[j].at = i
  <2> DEFINE b == Bytes(part, length, fill)
  <2>1. Len(b) = length /\ b[i] = [of |-> part, at |-> i, value |-> fill]
    BY BytesAre
  <2> HIDE DEF b
  <2>2. b \in {Decoded(r).iv, Decoded(r).tag, Decoded(r).keys, Decoded(r).ciphertext}
    BY <1>3 DEF b
  <2>3. \E j \in 1..Len(r) : b[i] = r[j]
    BY <1>2, <2>1, <2>2, DecodedFrom DEF HasParts, r
  <2> QED BY <1>2, <2>1, <2>3
<1>4. 28 <= n
  <2>1. 16 \in Nat /\ 16 \in 1..16 /\ "tag" \in Names
        /\ Bytes("tag", 16, fill)
               \in {Decoded(r).tag, Decoded(r).keys, Decoded(r).ciphertext}
    BY DEF Names, HasParts, r
  <2>2. PICK j \in 1..n : bytes[j].of = "tag" /\ bytes[j].at = 16
    BY <1>3, <2>1
  <2>3. j \in 1..Len(bytes)
    BY <1>1
  <2>4. j = 12 + 16
    BY <2>2, <2>3, Places
  <2> QED BY <2>4
<1>5. k > 0 => 28 + g + k <= n
  <2> SUFFICES ASSUME k > 0 PROVE 28 + g + k <= n
    OBVIOUS
  <2>1. k \in 1..k /\ "keys" \in Names /\ Bytes("keys", k, fill)
               \in {Decoded(r).tag, Decoded(r).keys, Decoded(r).ciphertext}
    BY DEF Names, HasParts, r
  <2>2. PICK j \in 1..n : bytes[j].of = "keys" /\ bytes[j].at = k
    BY <1>3, <2>1
  <2>3. j \in 1..Len(bytes)
    BY <1>1
  <2>4. j = 28 + g + k
    BY <2>2, <2>3, Places
  <2> QED BY <2>4
<1>6. d > 0 => 28 + g + k + d <= n
  <2> SUFFICES ASSUME d > 0 PROVE 28 + g + k + d <= n
    OBVIOUS
  <2>1. d \in 1..d /\ "data" \in Names /\ Bytes("data", d, fill)
               \in {Decoded(r).tag, Decoded(r).keys, Decoded(r).ciphertext}
    BY DEF Names, HasParts, r
  <2>2. PICK j \in 1..n : bytes[j].of = "data" /\ bytes[j].at = d
    BY <1>3, <2>1
  <2>3. j \in 1..Len(bytes)
    BY <1>1
  <2>4. j = 28 + g + k + d
    BY <2>2, <2>3, Places
  <2> QED BY <2>4
<1> SUFFICES ASSUME NEW j \in 1..Len(bytes), bytes[j].of # "length" PROVE j <= n
  OBVIOUS
<1>7. \/ j <= 28
      \/ bytes[j].at \in 1..k /\ j = 28 + g + bytes[j].at
      \/ bytes[j].at \in 1..d /\ j = 28 + g + k + bytes[j].at
  BY Places
<1>8. CASE j <= 28
  BY <1>4, <1>8
<1>9. ASSUME NEW i \in 1..k, j = 28 + g + i PROVE j <= n
  <2> HIDE DEF g
  <2> QED BY <1>1, <1>5, <1>9
<1>10. ASSUME NEW i \in 1..d, j = 28 + g + k + i PROVE j <= n
  <2> HIDE DEF g
  <2> QED BY <1>1, <1>6, <1>10
<1> QED
  BY <1>7, <1>8, <1>9, <1>10

LEMMA OpensWhole ==
  ASSUME envelope \in Envelopes,
         received = envelope.bytes \/ Altered(envelope.bytes),
         Decoded(received) # Absent, NEW aad, Opens(Decoded(received), aad)
  PROVE  Content(received) = Content(envelope.bytes)
<1>1. PICK k \in KeyLengths, d \in DataLengths, fill \in Fills :
        /\ k \in Nat /\ d \in Nat /\ envelope.keys = k /\ envelope.data = d
        /\ envelope.fill = fill /\ Layout(envelope.bytes, k, d, fill)
  BY EnvelopeMade
<1> DEFINE bytes == envelope.bytes
<1>2. bytes \in Seq(Byte) /\ Len(bytes) \in Nat /\ DOMAIN bytes = 1..Len(bytes)
  <2>1. Layout(bytes, k, d, fill)
    BY <1>1
  <2> HIDE DEF bytes
  <2>2. bytes \in Seq(Byte)
    BY <2>1 DEF Layout
  <2> QED BY <2>2
<1>3. fill \in Nat
  <2>1. fill \in 0..255
    BY EnvelopeAssumption
  <2> QED BY <2>1
<1>4. HasParts(received, k, d, fill)
  BY <1>1 DEF Opens, HasParts
<1>5. ASSUME NEW n \in 0..Len(bytes), received = SubSeq(bytes, 1, n)
      PROVE  Content(received) = Content(bytes)
  <2>1. \A j \in 1..Len(bytes) : bytes[j].of # "length" => j <= n
    <3> HIDE DEF bytes
    <3>1. Layout(bytes, k, d, fill)
      BY <1>1 DEF bytes
    <3>2. HasParts(SubSeq(bytes, 1, n), k, d, fill) /\ k \in Nat /\ d \in Nat
      BY <1>1, <1>4, <1>5
    <3> QED BY <1>3, <3>1, <3>2, PrefixWhole
  <2>2. DOMAIN received = 1..n /\ \A j \in 1..n : received[j] = bytes[j]
    <3> HIDE DEF bytes
    <3> QED BY <1>2, <1>5
  <2> HIDE DEF bytes
  <2>3. {j \in DOMAIN received : received[j].of # "length"}
          = {j \in DOMAIN bytes : bytes[j].of # "length"}
    BY <1>2, <2>1, <2>2
  <2> QED BY <2>2, <2>3 DEF Content
<1>6. ASSUME NEW i \in DOMAIN bytes, NEW value, bytes[i].of = "length",
             received = [bytes EXCEPT ![i].value = value]
      PROVE  Content(received) = Content(bytes)
  <2> HIDE DEF bytes
  <2>1. DOMAIN received = DOMAIN bytes
        /\ \A j \in DOMAIN bytes : j # i => received[j] = bytes[j]
    BY <1>2, <1>6
  <2>2. received[i].of = "length"
    <3>1. bytes[i] \in Byte
      BY <1>2
    <3>2. received[i] = [bytes[i] EXCEPT !.value = value]
      BY <1>2, <1>6
    <3> QED BY <1>6, <3>1, <3>2 DEF Byte
  <2>3. {j \in DOMAIN received : received[j].of # "length"}
          = {j \in DOMAIN bytes : bytes[j].of # "length"}
    BY <1>6, <2>1, <2>2
  <2>4. \A j \in DOMAIN bytes : bytes[j].of # "length" => received[j] = bytes[j]
    BY <1>6, <2>1
  <2> QED BY <2>3, <2>4 DEF Content
<1> QED
  BY <1>5, <1>6 DEF Altered
-----------------------------------------------------------------------------
LEMMA StepEncrypt ==
  ASSUME EnvelopeIInv, NEW k \in KeyLengths, NEW d \in DataLengths,
         NEW a \in Associated, NEW fill \in Fills, Encrypt(k, d, a, fill)
  PROVE  EnvelopeIInv'
<1>1. envelope' = Made(k, d, a, fill) /\ received' = Sealed(k, d, fill)
      /\ opened' = Absent
  BY DEF EnvelopeIInv, Encrypt
<1>2. envelope' \in Envelopes /\ envelope' # Absent
  BY <1>1, AbsentAssumption DEF Envelopes
<1>3. received' = envelope'.bytes
  BY <1>1 DEF Made
<1> QED
  BY <1>1, <1>2, <1>3 DEF EnvelopeIInv, EnvelopeOpens

LEMMA StepCutShort ==
  ASSUME EnvelopeIInv, NEW n \in 0..Len(received), CutShort(n)
  PROVE  EnvelopeIInv'
<1>1. UNCHANGED <<envelope, opened>> /\ opened = Absent /\ envelope # Absent
      /\ received' = SubSeq(envelope.bytes, 1, n) /\ n \in 0..Len(envelope.bytes)
  BY DEF CutShort, Unaltered
<1>2. Altered(envelope.bytes)'
  BY <1>1 DEF Altered
<1> QED
  BY <1>1, <1>2 DEF EnvelopeIInv, EnvelopeOpens

LEMMA StepChangeLength ==
  ASSUME EnvelopeIInv, NEW i \in 29..33, NEW value \in Changes, ChangeLength(i, value)
  PROVE  EnvelopeIInv'
<1>1. /\ UNCHANGED <<envelope, opened>> /\ opened = Absent /\ envelope # Absent
      /\ i \in DOMAIN envelope.bytes /\ envelope.bytes[i].of = "length"
      /\ received' = [envelope.bytes EXCEPT ![i].value = value]
  BY DEF ChangeLength, Unaltered
<1>2. Altered(envelope.bytes)'
  BY <1>1 DEF Altered
<1> QED
  BY <1>1, <1>2 DEF EnvelopeIInv, EnvelopeOpens

\* What was not altered opens with what it was sealed with.
LEMMA WholeOpens ==
  ASSUME envelope \in Envelopes, received = envelope.bytes,
         NEW a \in Associated, SameContext(a, envelope.given)
  PROVE  Decoded(received) # Absent /\ Opens(Decoded(received), Aad(a))
<1>1. PICK k \in KeyLengths, d \in DataLengths, b \in Associated, fill \in Fills :
        /\ k \in Nat /\ d \in Nat
        /\ envelope.bytes = Sealed(k, d, fill) /\ envelope.keys = k
        /\ envelope.data = d /\ envelope.fill = fill
        /\ envelope.aad = Aad(b) /\ envelope.given = b
  BY EnvelopeMade
<1>2. Decoded(received)
        = [iv |-> Bytes("iv", 12, fill), tag |-> Bytes("tag", 16, fill),
           keys |-> Bytes("keys", k, fill), ciphertext |-> Bytes("data", d, fill)]
  BY <1>1, DecodedSealed
<1>3. Decoded(received) \in Parts
  <2>1. fill \in Nat
    <3>1. fill \in 0..255
      BY EnvelopeAssumption
    <3> QED BY <3>1
  <2>2. "iv" \in Names /\ "tag" \in Names /\ "keys" \in Names /\ "data" \in Names
        /\ 12 \in Nat /\ 16 \in Nat
    BY DEF Names
  <2>3. /\ Bytes("iv", 12, fill) \in Seq(Byte) /\ Bytes("tag", 16, fill) \in Seq(Byte)
        /\ Bytes("keys", k, fill) \in Seq(Byte) /\ Bytes("data", d, fill) \in Seq(Byte)
    BY <1>1, <2>1, <2>2, BytesAre
  <2> QED BY <1>2, <2>3 DEF Parts
<1>4. Aad(a) = envelope.aad
  BY <1>1, Contextual
<1> QED
  BY <1>1, <1>2, <1>3, <1>4, AbsentAssumption DEF Opens

LEMMA StepDecrypt ==
  ASSUME EnvelopeIInv, NEW a \in Associated, Decrypt(a)
  PROVE  EnvelopeIInv'
<1> DEFINE opens == Decoded(received) # Absent /\ Opens(Decoded(received), Aad(a))
<1>1. /\ envelope # Absent /\ UNCHANGED <<envelope, received>>
      /\ opened' = [given |-> a, result |-> IF opens THEN "data" ELSE "error"]
  BY DEF Decrypt
<1>2. envelope \in Envelopes /\ (received = envelope.bytes \/ Altered(envelope.bytes))
  BY <1>1 DEF EnvelopeIInv
<1>3. envelope.given \in Associated /\ \E b \in Associated :
        envelope.given = b /\ envelope.aad = Aad(b)
  BY <1>2, EnvelopeMade
<1>4. received = envelope.bytes /\ SameContext(a, envelope.given) => opens
  BY <1>2, WholeOpens
<1>5. opens => SameContext(a, envelope.given)
  BY <1>3, Contextual DEF Opens
<1>6. opens => Content(received) = Content(envelope.bytes)
  BY <1>2, OpensWhole
<1> HIDE DEF opens
<1>7. opened' \in Results /\ opened'.given = a /\ (opened'.result = "data" <=> opens)
  BY <1>1 DEF Results
<1>8. EnvelopeOpens'
  BY <1>1, <1>4, <1>5, <1>6, <1>7 DEF EnvelopeOpens, Content
<1>9. Altered(envelope.bytes) => Altered(envelope.bytes)'
  BY <1>1 DEF Altered
<1> QED
  BY <1>1, <1>2, <1>7, <1>8, <1>9 DEF EnvelopeIInv

LEMMA EnvelopeSteps ==
  ASSUME EnvelopeIInv, [EnvelopeNext]_envelopeVars
  PROVE  EnvelopeIInv'
<1>1. CASE EnvelopeNext
  BY <1>1, StepEncrypt, StepCutShort, StepChangeLength, StepDecrypt DEF EnvelopeNext
<1>2. CASE UNCHANGED envelopeVars
  <2>1. UNCHANGED <<envelope, received, opened>>
    BY <1>2 DEF envelopeVars
  <2>2. EnvelopeOpens'
    BY <2>1 DEF EnvelopeIInv, EnvelopeOpens, Content
  <2>3. Altered(envelope.bytes) => Altered(envelope.bytes)'
    BY <2>1 DEF Altered
  <2> QED BY <2>1, <2>2, <2>3 DEF EnvelopeIInv
<1> QED
  BY <1>1, <1>2

\* An envelope is as it was made or altered once, and what has opened is whole.
THEOREM EnvelopeInvariance == EnvelopeSpec => []EnvelopeIInv
<1>1. EnvelopeInit => EnvelopeIInv
  BY DEF EnvelopeInit, EnvelopeIInv, EnvelopeOpens
<1> QED
  BY <1>1, EnvelopeSteps, PTL DEF EnvelopeSpec

\* For keys of any length of 32 bits and data of any length: an envelope that
\* arrives as it was sent opens with the associated data it was sealed with,
\* and nothing opens that lacks a byte of its content or is given other data.
THEOREM EnvelopesOpen == EnvelopeSpec => []EnvelopeOpens
<1>1. EnvelopeIInv => EnvelopeOpens
  BY DEF EnvelopeIInv
<1> QED
  BY <1>1, EnvelopeInvariance, PTL
=============================================================================
