--------------------------- MODULE Deterministic ---------------------------
(***************************************************************************)
(* The deterministic stages of fuzz_one as sets of files they run: bit     *)
(* flips, arithmetic and interesting values, with the three tests that     *)
(* spare runs already made (could_be_bitflip, could_be_arith,              *)
(* could_be_interest), and the effector map.                               *)
(*                                                                         *)
(* A file is a sequence of bytes of length 1 to 3, so the stages for words *)
(* of 32 bits, which need 4, do not occur.  No dictionary is given, and    *)
(* files of fewer than MIN_AUTO_EXTRA bytes build none that is used here.  *)
(***************************************************************************)
EXTENDS Integers, Sequences, FiniteSets

CONSTANT ARITH_MAX

ASSUME ArithAssumption == ARITH_MAX \in 1..127

Byte == 0..255

INTERESTING_8 == {128, 255, 253, 252, 0, 1, 16, 32, 64, 100, 127}
(* Extended by the sign, then the words proper.                            *)
INTERESTING_16 ==
  {IF v >= 128 THEN v + 65280 ELSE v : v \in INTERESTING_8}
  \cup {65533, 32768, 65407, 128, 255, 256, 512, 1000, 1024, 4096, 32767}

-----------------------------------------------------------------------------
(* Bytes and words.                                                        *)

Word16(buf, i) == buf[i] + 256 * buf[i + 1]
SWAP16(w) == (w % 256) * 256 + w \div 256
Put8(buf, i, v) == [buf EXCEPT ![i] = v]
Put16(buf, i, w) == [buf EXCEPT ![i] = w % 256, ![i + 1] = w \div 256]

Pow2 == <<1, 2, 4, 8, 16, 32, 64, 128, 256, 512, 1024, 2048, 4096, 8192, 16384, 32768>>
Bit(n, k) == (n \div Pow2[k + 1]) % 2
Diff(m, n) == {k \in 0..15 : Bit(m, k) # Bit(n, k)}

FlipBit(byte, x) == IF Bit(byte, x) = 1 THEN byte - Pow2[x + 1] ELSE byte + Pow2[x + 1]

(* Bit 0 of a file is the highest of the first byte.                       *)
FLIP_BIT(buf, b) ==
  LET i == b \div 8 + 1
  IN Put8(buf, i, FlipBit(buf[i], 7 - (b % 8)))

FlipRun(buf, b, k) ==
  LET one == FLIP_BIT(buf, b)
      two == FLIP_BIT(one, b + 1)
  IN CASE k = 1 -> one
       [] k = 2 -> two
       [] k = 4 -> FLIP_BIT(FLIP_BIT(two, b + 2), b + 3)

-----------------------------------------------------------------------------
(* What a stage need not try.                                              *)

Runs(widths, starts) == {lo..(lo + w - 1) : w \in widths, lo \in starts}
FlipMasks == {{}} \cup Runs({1, 2, 4}, 0..15) \cup Runs({8, 16}, {0, 8})

CouldBeBitflip(diff) == diff \in FlipMasks

Near(m, n, modulus) ==
  (m - n) % modulus <= ARITH_MAX \/ (n - m) % modulus <= ARITH_MAX

CouldBeArith8(old, new) == Near(old, new, 256)

CouldBeArith16(old, new) ==
  \/ old = new
  \/ old % 256 = new % 256 /\ Near(old \div 256, new \div 256, 256)
  \/ old \div 256 = new \div 256 /\ Near(old % 256, new % 256, 256)
  \/ Near(old, new, 65536)
  \/ Near(SWAP16(old), SWAP16(new), 65536)

(* check_le: the word was tried in the other order of bytes, too.          *)
CouldBeInterest16(old, new, check_le) ==
  \/ old = new
  \/ \E v \in INTERESTING_8 :
       new \in {(old \div 256) * 256 + v, (old % 256) + 256 * v}
  \/ check_le /\ new \in INTERESTING_16

-----------------------------------------------------------------------------
(* The stages.  eff is the set of bytes that the effector map flags.       *)

Pos16(buf, eff) == {i \in 1..(Len(buf) - 1) : {i, i + 1} \cap eff # {}}
Steps == 1..ARITH_MAX

FlipBits(buf, k) == {FlipRun(buf, b, k) : b \in 0..(8 * Len(buf) - k)}
Flip8(buf) == {Put8(buf, i, 255 - buf[i]) : i \in DOMAIN buf}
Flip16(buf, eff) == {Put16(buf, i, 65535 - Word16(buf, i)) : i \in Pos16(buf, eff)}

Sums(old, modulus) == {(old + j) % modulus : j \in Steps} \cup {(old - j) % modulus : j \in Steps}

Arith8(buf, eff) ==
  UNION {{Put8(buf, i, v) : v \in {s \in Sums(buf[i], 256) : ~CouldBeBitflip(Diff(buf[i], s))}} :
           i \in eff}

(* Sums whose carry or borrow leaves the low byte, the others having been  *)
(* made in Arith8.  A bug of it: a sum of 256 is taken for one of those.   *)
CarriesLate(old) == {(old + j) % 65536 : j \in {j \in Steps : (old % 256) + j > 256}}
                    \cup {(old - j) % 65536 : j \in {j \in Steps : old % 256 < j}}

Carries(old) == {(old + j) % 65536 : j \in {j \in Steps : (old % 256) + j > 255}}
                \cup {(old - j) % 65536 : j \in {j \in Steps : old % 256 < j}}

Arith16(buf, eff) ==
  UNION {LET old == Word16(buf, i)
             sums == Carries(old) \cup {SWAP16(s) : s \in Carries(SWAP16(old))}
         IN {Put16(buf, i, s) : s \in {s \in sums : ~CouldBeBitflip(Diff(old, s))}} :
           i \in Pos16(buf, eff)}

Interest8(buf, eff) ==
  UNION {{Put8(buf, i, v) : v \in {v \in INTERESTING_8 :
             ~CouldBeBitflip(Diff(buf[i], v)) /\ ~CouldBeArith8(buf[i], v)}} : i \in eff}

Interest16(buf, eff) ==
  UNION {LET old == Word16(buf, i)
             le == {v \in INTERESTING_16 : ~CouldBeInterest16(old, v, FALSE)}
             be == {w \in {SWAP16(v) : v \in INTERESTING_16} : ~CouldBeInterest16(old, w, TRUE)}
         IN {Put16(buf, i, w) : w \in {w \in le \cup be :
               ~CouldBeBitflip(Diff(old, w)) /\ ~CouldBeArith16(old, w)}} :
           i \in Pos16(buf, eff)}

(* In the order of fuzz_one; a stage without runs is empty.                *)
Stage(buf, eff, s) ==
  CASE s <= 3 -> FlipBits(buf, Pow2[s])
    [] s = 4 -> Flip8(buf)
    [] s = 5 -> Flip16(buf, eff)
    [] s = 6 -> Arith8(buf, eff)
    [] s = 7 -> Arith16(buf, eff)
    [] s = 8 -> Interest8(buf, eff)
    [] s = 9 -> Interest16(buf, eff)
NumStages == 9

Tried(buf, eff) == UNION {Stage(buf, eff, s) : s \in 1..NumStages}

-----------------------------------------------------------------------------
(* What the stages are there for: every sum, difference and interesting    *)
(* value, at every place the effector map does not rule out.               *)

PromisedBytes(buf, eff) ==
  UNION {{Put8(buf, i, v) : v \in Sums(buf[i], 256) \cup INTERESTING_8} : i \in eff}
PromisedWords(buf, eff) ==
  UNION {LET old == Word16(buf, i)
             words == Sums(old, 65536) \cup {SWAP16(s) : s \in Sums(SWAP16(old), 65536)}
                        \cup INTERESTING_16 \cup {SWAP16(v) : v \in INTERESTING_16}
         IN {Put16(buf, i, w) : w \in words} : i \in Pos16(buf, eff)}

Promised(buf, eff) == PromisedBytes(buf, eff) \cup PromisedWords(buf, eff)

Changed(buf, new) == {i \in DOMAIN buf : buf[i] # new[i]}

(* Two bytes differ by a run of bits of the word, low byte first, across   *)
(* the border of the bytes.  The flips walk through memory high bit first  *)
(* and never flip such a run, but could_be_bitflip takes it for one.       *)
AcrossTheBorder(buf, new) ==
  \E i \in 1..(Len(buf) - 1) :
    /\ Changed(buf, new) = {i, i + 1}
    /\ Diff(Word16(buf, i), Word16(new, i)) \in Runs({2, 4}, 0..15)
=============================================================================
