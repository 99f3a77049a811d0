---------------------------- MODULE TcpSeqProofs ----------------------------
(* Lemmas about sequence numbers, for every modulus.                         *)
EXTENDS TcpSeq, TLAPS

(* Adding modulo SeqMod stays in the sequence space (_seq_add masks).        *)
LEMMA SeqAddTyped ==
  ASSUME NEW a \in Int, NEW b \in Int
  PROVE  seq_add(a, b) \in SeqNums
BY SeqModAssumption DEF seq_add, SeqNums

(* Sequence numbers are integers, and 0 is one.                              *)
LEMMA SeqNumsAreInts == SeqNums \subseteq Int /\ 0 \in SeqNums
BY SeqModAssumption DEF SeqNums

(* The quotient and the remainder of a division by SeqMod.                   *)
LEMMA Divides ==
  ASSUME NEW a \in Int
  PROVE  \E q \in Int : \E r \in SeqNums : a = q * SeqMod + r /\ r = a % SeqMod
<1>1. a = (a \div SeqMod) * SeqMod + (a % SeqMod)
  BY SeqModAssumption
<1>2. a \div SeqMod \in Int /\ a % SeqMod \in SeqNums
  BY SeqModAssumption DEF SeqNums
<1>3. QED
  BY <1>1, <1>2

(* There is one remainder.                                                   *)
LEMMA OneRemainder ==
  ASSUME NEW p \in Int, NEW q \in Int, NEW r \in SeqNums, NEW s \in SeqNums,
         p * SeqMod + r = q * SeqMod + s
  PROVE  r = s
<1>1. CASE p = q
  BY <1>1, SeqModAssumption DEF SeqNums
<1>2. CASE p < q
  <2>1. (q - p) * SeqMod >= SeqMod
    BY <1>2, SeqModAssumption
  <2>2. QED
    BY <1>2, <2>1, SeqModAssumption DEF SeqNums
<1>3. CASE p > q
  <2>1. (p - q) * SeqMod >= SeqMod
    BY <1>3, SeqModAssumption
  <2>2. QED
    BY <1>3, <2>1, SeqModAssumption DEF SeqNums
<1>4. QED
  BY <1>1, <1>2, <1>3

(* A sequence number is its own remainder.                                   *)
LEMMA Remains ==
  ASSUME NEW x \in SeqNums
  PROVE  x % SeqMod = x
<1>1. x \in Int /\ 0 \in Int
  BY SeqNumsAreInts
<1>2. PICK q \in Int, r \in SeqNums : x = q * SeqMod + r /\ r = x % SeqMod
  BY <1>1, Divides
<1>3. 0 * SeqMod + x = q * SeqMod + r
  BY <1>1, <1>2, SeqModAssumption
<1>4. x = r
  BY <1>1, <1>3, OneRemainder
<1>5. QED
  BY <1>2, <1>4

(* _seq_add twice is _seq_add of the sum: the mask in between loses nothing. *)
LEMMA SeqAddTwice ==
  ASSUME NEW a \in Int, NEW x \in Int, NEW y \in Int
  PROVE  seq_add(seq_add(a, x), y) = seq_add(a, x + y)
<1>1. PICK q \in Int, r \in SeqNums :
        a + x = q * SeqMod + r /\ r = (a + x) % SeqMod
  BY Divides
<1>2. r \in Int /\ r + y \in Int /\ a + (x + y) \in Int
  BY SeqNumsAreInts
<1>3. PICK p \in Int, s \in SeqNums :
        r + y = p * SeqMod + s /\ s = (r + y) % SeqMod
  <2> DEFINE b == r + y
  <2>1. b \in Int
    BY <1>2
  <2> HIDE DEF b
  <2>2. \E p \in Int : \E s \in SeqNums :
          b = p * SeqMod + s /\ s = b % SeqMod
    BY <2>1, Divides
  <2>3. QED
    BY <2>2 DEF b
<1>4. PICK n \in Int, t \in SeqNums :
        a + (x + y) = n * SeqMod + t /\ t = (a + (x + y)) % SeqMod
  BY <1>2, Divides
<1>5. (q + p) * SeqMod + s = n * SeqMod + t
  <2> DEFINE qm == q * SeqMod
             pm == p * SeqMod
             nm == n * SeqMod
  <2>1. s \in Int /\ t \in Int /\ SeqMod \in Int
    BY SeqNumsAreInts, SeqModAssumption
  <2>2. (q + p) * SeqMod = qm + pm
    BY <2>1
  <2>3. qm \in Int /\ pm \in Int /\ nm \in Int
    BY <2>1
  <2>4. a + x = qm + r /\ r + y = pm + s /\ a + (x + y) = nm + t
    BY <1>1, <1>3, <1>4
  <2> HIDE DEF qm, pm, nm
  <2>5. (qm + pm) + s = nm + t
    BY <1>2, <2>1, <2>3, <2>4
  <2>6. QED
    BY <2>2, <2>5 DEF nm
<1>6. s = t
  <2>1. q + p \in Int
    OBVIOUS
  <2>2. QED
    BY <1>5, <2>1, OneRemainder
<1>7. QED
  BY <1>1, <1>3, <1>4, <1>6 DEF seq_add
=============================================================================
