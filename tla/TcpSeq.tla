------------------------------- MODULE TcpSeq -------------------------------
(* Sequence-number arithmetic of velxiogw/net/tcp_nat.py, modulo SeqMod.     *)
(* The code has SeqMod = 2^32 (its masks 0xffffffff and 0x80000000).         *)
EXTENDS Integers

CONSTANT SeqMod

(* Half of the space is a whole number, as 0x80000000 is in the code.        *)
ASSUME SeqModAssumption == SeqMod \in Nat /\ SeqMod >= 2 /\ SeqMod % 2 = 0

SeqNums == 0 .. SeqMod - 1

(* Mutant: the mask is forgotten.                                            *)
seq_add_unmasked(a, b) == a + b

seq_add(a, b) == (a + b) % SeqMod

seq_lt(a, b) == (a - b) % SeqMod >= SeqMod \div 2

seq_leq(a, b) == a = b \/ seq_lt(a, b)

seq_geq_or_eq(a, b) == a = b \/ ~seq_lt(a, b)
=============================================================================
