-------------------------- MODULE ByteStreamProofs --------------------------
(* What the receiver of a ByteStream can rely on.                            *)
EXTENDS ByteStream, TLAPS

(* What is there is in order and complete: a beginning of what was sent, and *)
(* all of it, the sender having closed, once the end has been told.          *)
Faithful(s) ==
    /\ IsPrefix(got[s], sent[s])
    /\ end[s] = "ended" => closed[s] /\ got[s] = sent[s]

Safe == \A s \in Streams : Faithful(s)

StreamInv ==
    \A s \in Streams :
        sent[s] \in Seq(Bytes) /\ got[s] \in Seq(Bytes) /\ Faithful(s)

(* A prefix agrees at every position it has.                                 *)
LEMMA PrefixByPosition ==
    ASSUME NEW r \in Seq(Bytes), NEW t \in Seq(Bytes)
    PROVE  IsPrefix(r, t) <=>
             Len(r) <= Len(t) /\ \A i \in 1..Len(r) : r[i] = t[i]
<1>1. CASE Len(r) <= Len(t)
  <2>1. SubSeq(r, 1, Len(r)) = [i \in 1..Len(r) |-> r[i]]
        /\ SubSeq(t, 1, Len(r)) = [i \in 1..Len(r) |-> t[i]]
    BY <1>1
  <2> QED BY <1>1, <2>1 DEF IsPrefix
<1>2. CASE ~(Len(r) <= Len(t))
  BY <1>2 DEF IsPrefix
<1> QED BY <1>1, <1>2

(* A prefix of a prefix is one.                                              *)
LEMMA PrefixOfPrefix ==
    ASSUME NEW r \in Seq(Bytes), NEW t \in Seq(Bytes), NEW u \in Seq(Bytes),
           IsPrefix(r, t), IsPrefix(t, u)
    PROVE  IsPrefix(r, u)
<1>1. Len(r) <= Len(t) /\ \A i \in 1..Len(r) : r[i] = t[i]
  BY PrefixByPosition
<1>2. Len(t) <= Len(u) /\ \A i \in 1..Len(t) : t[i] = u[i]
  BY PrefixByPosition
<1>3. Len(r) <= Len(u) /\ \A i \in 1..Len(r) : r[i] = u[i]
  BY <1>1, <1>2
<1> QED BY <1>3, PrefixByPosition

(* Every step of a stream keeps it faithful.                                 *)
LEMMA StepKeepsStream ==
    ASSUME StreamInv, NEW s \in Streams,
           Sends(s) \/ Delivers(s) \/ Breaks(s) \/ Rests(s)
    PROVE  sent'[s] \in Seq(Bytes) /\ got'[s] \in Seq(Bytes) /\ Faithful(s)'
<1> USE DEF Faithful
<1>0. sent[s] \in Seq(Bytes) /\ got[s] \in Seq(Bytes) /\ Faithful(s)
  BY DEF StreamInv
<1>1. CASE Sends(s)
  <2>1. IsPrefix(got[s], sent'[s])
    BY <1>0, <1>1, PrefixOfPrefix DEF Sends
  <2> QED BY <1>0, <1>1, <2>1 DEF Sends
<1>2. CASE Delivers(s)
  BY <1>0, <1>2 DEF Delivers, Stays
<1>3. CASE Breaks(s)
  BY <1>0, <1>3 DEF Breaks, Stays
<1>4. CASE Rests(s)
  BY <1>0, <1>4 DEF Rests, Stays
<1> QED BY <1>1, <1>2, <1>3, <1>4

(* Whatever implements ByteStream delivers a beginning of what was sent, and *)
(* tells the end only after all of it.                                       *)
THEOREM StreamIsFaithful == Spec => []Safe
<1>1. Init => StreamInv
  <2>1. <<>> \in Seq(Bytes) /\ IsPrefix(<<>>, <<>>)
    BY DEF IsPrefix
  <2> QED BY <2>1 DEF Init, StreamInv, Faithful
<1>2. StreamInv /\ [Next]_vars => StreamInv'
  <2> SUFFICES ASSUME StreamInv, [Next]_vars PROVE StreamInv'
    OBVIOUS
  <2>1. CASE Next
    BY <2>1, StepKeepsStream DEF Next, StreamInv
  <2>2. CASE UNCHANGED vars
    BY <2>2 DEF vars, StreamInv, Faithful
  <2> QED BY <2>1, <2>2
<1>3. StreamInv => Safe
  BY DEF StreamInv, Safe
<1> QED BY <1>1, <1>2, <1>3, PTL DEF Spec
=============================================================================
