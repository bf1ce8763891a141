------------------------------- MODULE BitSet -------------------------------
(***************************************************************************)
(* nanojit/Containers.h, .cpp, class BitSet: a growing array of words of   *)
(* bits; bit i is looked for in word i \div WordBits.                      *)
(***************************************************************************)
EXTENDS Integers

CONSTANTS
  WordBits,    \* 64
  InitialCap   \* words a new set has; 2 by default

\* grow() doubles until it suffices, which from zero it never does.
ASSUME BitSetAssumption == WordBits \in Nat \ {0} /\ InitialCap \in Nat \ {0}

Bitnum2word(i) == i \div WordBits
Bitnum2mask(i) == i % WordBits

Zeros(cap) == [w \in 0..(cap - 1) |-> {}]
NewBits == [cap |-> InitialCap, bits |-> Zeros(InitialCap)]
ResetBits(s) == [s EXCEPT !.bits = Zeros(s.cap)]

GetBit(s, i) ==
  Bitnum2word(i) < s.cap /\ Bitnum2mask(i) \in s.bits[Bitnum2word(i)]

\* Doubled at least once, and as often as it takes to have a word w.
Power2[n \in Nat] == IF n = 0 THEN 1 ELSE 2 * Power2[n - 1]
GrownCap(cap, w) ==
  LET enough == {n \in 1..(w + 1) : cap * Power2[n] > w}
  IN  cap * Power2[CHOOSE n \in enough : \A m \in enough : n <= m]

Grow(s, w) ==
  LET cap2 == GrownCap(s.cap, w)
  IN  [cap |-> cap2,
       bits |-> [v \in 0..(cap2 - 1) |-> IF v < s.cap THEN s.bits[v] ELSE {}]]

SetBit(s, i) ==
  LET w == Bitnum2word(i)
      t == IF w >= s.cap THEN Grow(s, w) ELSE s
  IN  [t EXCEPT !.bits[w] = @ \cup {Bitnum2mask(i)}]

=============================================================================
