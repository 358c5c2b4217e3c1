----------------------------- MODULE NativeKeys -----------------------------
(***************************************************************************)
(* LMDB tables whose keys are of heed's type OwnedType<u32>: the headers   *)
(* by height, the wallet's addresses by index.  The type stores a number   *)
(* in the byte order of the machine, least significant byte first, and     *)
(* LMDB compares keys as strings, from the first byte on.                  *)
(***************************************************************************)
EXTENDS Integers

CONSTANT KeyRadix       \* the number of values of a byte: 256

ASSUME KeyRadixAssumption == KeyRadix \in Nat \ {0, 1}

\* Mutant: most significant byte first.
KeyBytesBigEndian(i) ==
  <<i \div (KeyRadix * KeyRadix * KeyRadix) % KeyRadix,
    i \div (KeyRadix * KeyRadix) % KeyRadix,
    i \div KeyRadix % KeyRadix,
    i % KeyRadix>>

KeyBytes(i) ==
  <<i % KeyRadix,
    (i \div KeyRadix) % KeyRadix,
    (i \div (KeyRadix * KeyRadix)) % KeyRadix,
    (i \div (KeyRadix * KeyRadix * KeyRadix)) % KeyRadix>>

KeyPrecedes(i, j) ==
  \E n \in 1..4 :
    /\ KeyBytes(i)[n] < KeyBytes(j)[n]
    /\ \A m \in 1..(n - 1) : KeyBytes(i)[m] = KeyBytes(j)[m]
=============================================================================
