---------------------------- MODULE CarrierAddress ----------------------------
(***************************************************************************)
(* The address of a carrier, a bech32 string of a 32-byte witness program: *)
(* src/api/carrier-address.ts, which reads and writes it, and the port of  *)
(* its writer in site/src/lib/tandem.ts.  A character of the data part is  *)
(* its index in CHARSET; the 30 bits of the checksum are six such indices, *)
(* the highest first.                                                      *)
(***************************************************************************)
EXTENDS Nullable, Integers, Sequences

CONSTANTS
  Programs,     \* the witness programs that are written
  Symbols,      \* the characters that a copying mistake brings in
  MaxMistakes   \* bound: copying mistakes

VARIABLES
  address,      \* the address as it is copied
  written,      \* the program and the network it was written for
  mistakes      \* copying mistakes so far

addressVars == <<address, written, mistakes>>

Network == {"mainnet", "signet", "testnet4", "regtest"}

\* 0 to 31, and 32 for a character that is not in CHARSET.
Symbol == 0 .. 31

\* hrp: the part before the separator; case: of all the letters.
Address == [hrp : {"bc", "bcrt", "tb"}, data : Seq(0 .. 32),
            case : {"lower", "upper", "mixed"}]

NetworkHrp(n) ==
  CASE n = "mainnet" -> "bc" [] n = "regtest" -> "bcrt" [] OTHER -> "tb"

-----------------------------------------------------------------------------
(***************************************************************************)
(* Bits.                                                                   *)
(***************************************************************************)
Bit(x, k) == (x \div 2^k) % 2

Xor == [a, b \in Symbol |->
  LET b5[k \in 0 .. 5] ==
        IF k = 0 THEN 0 ELSE b5[k-1] + ((Bit(a, k-1) + Bit(b, k-1)) % 2) * 2^(k-1)
  IN b5[5]]

\* The number that the bits first .. first + n - 1 of a sequence of w-bit
\* numbers are; beyond the end there are zeros.
BitsOf(values, w, first, n) ==
  LET bit(k) == IF k >= w * Len(values) THEN 0
                ELSE Bit(values[k \div w + 1], w - 1 - (k % w))
      sum[i \in 0 .. n] == IF i = 0 THEN 0 ELSE 2 * sum[i-1] + bit(first + i - 1)
  IN sum[n]

Grouped(values, from, to, groups) ==
  [g \in 1 .. groups |-> BitsOf(values, from, (g - 1) * to, to)]

\* Mutant: bits that are left over are never looked at.
ConvertBits_AnyPadding(values, from, to, pad) ==
  LET bits == from * Len(values) IN
  IF pad THEN Grouped(values, from, to, (bits + to - 1) \div to)
  ELSE Grouped(values, from, to, bits \div to)

\* The bits left over are padded, or must be fewer than an input group and zero.
ConvertBits(values, from, to, pad) ==
  LET bits == from * Len(values)
      left == bits % to
  IN IF pad THEN Grouped(values, from, to, (bits + to - 1) \div to)
     ELSE IF left >= from \/ BitsOf(values, from, bits - left, to) # 0 THEN None
     ELSE Grouped(values, from, to, bits \div to)

-----------------------------------------------------------------------------
(***************************************************************************)
(* The checksum.                                                           *)
(***************************************************************************)
Generators == <<
  <<29, 22, 20, 21, 29, 18>>, <<19, 5, 1, 3, 19, 13>>, <<15, 10, 2, 6, 15, 26>>,
  <<30, 20, 4, 12, 30, 29>>, <<21, 1, 8, 24, 21, 19>>>>

XorAll(c, d) == [i \in 1 .. 6 |-> Xor[c[i], d[i]]]

\* One value goes in: the highest five bits choose the generators.
Absorb == [c \in [1 .. 6 -> Symbol], value \in Symbol |->
  LET chosen[k \in 0 .. 5] ==
        IF k = 0 THEN SubSeq(c, 2, 6) \o <<value>>
        ELSE IF Bit(c[1], k - 1) = 1 THEN XorAll(chosen[k-1], Generators[k])
        ELSE chosen[k-1]
  IN chosen[5]]

One == <<0, 0, 0, 0, 0, 1>>

Polymod(values) ==
  LET sum[i \in 0 .. Len(values)] ==
        IF i = 0 THEN One ELSE Absorb[sum[i-1], values[i]]
  IN sum[Len(values)]

\* The characters' codes, shifted and masked.
HrpExpand(hrp) ==
  CASE hrp = "bc" -> <<3, 3, 0, 2, 3>>
    [] hrp = "tb" -> <<3, 3, 0, 20, 2>>
    [] hrp = "bcrt" -> <<3, 3, 3, 3, 0, 2, 3, 18, 20>>

WithChecksum(hrp, data) ==
  [hrp |-> hrp,
   data |-> data \o XorAll(Polymod(HrpExpand(hrp) \o data \o <<0, 0, 0, 0, 0, 0>>), One),
   case |-> "lower"]

-----------------------------------------------------------------------------
(***************************************************************************)
(* carrier-address.ts                                                      *)
(***************************************************************************)
EncodeCarrierAddress(program, n) ==
  WithChecksum(NetworkHrp(n), <<0>> \o ConvertBits(program, 8, 5, TRUE))

HrpLength(hrp) == IF hrp = "bcrt" THEN 4 ELSE 2

LengthIsPlausible(a) == HrpLength(a.hrp) + 1 + Len(a.data) \in 14 .. 90

IsProgram(program) == program # None /\ Len(program) = 32

\* The program, or null.
DecodeCarrierAddress(a, n) ==
  IF \/ ~LengthIsPlausible(a) \/ a.case = "mixed" \/ Len(a.data) < 6
     \/ a.hrp # NetworkHrp(n)
     \/ \E i \in DOMAIN a.data : a.data[i] \notin Symbol
     \/ Polymod(HrpExpand(a.hrp) \o a.data) # One
  THEN None
  ELSE LET payload == SubSeq(a.data, 1, Len(a.data) - 6)
           program == ConvertBits(SubSeq(payload, 2, Len(payload)), 5, 8, FALSE)
       IN IF payload # <<>> /\ payload[1] = 0 /\ IsProgram(program) THEN program ELSE None

-----------------------------------------------------------------------------
(***************************************************************************)
(* tandem.ts of the site: the same writer, written again.                  *)
(***************************************************************************)
SiteConvertBits(values) == Grouped(values, 8, 5, (8 * Len(values) + 4) \div 5)

SiteEncodeCarrierAddress(program, n) ==
  WithChecksum(NetworkHrp(n), <<0>> \o SiteConvertBits(program))

-----------------------------------------------------------------------------
(***************************************************************************)
(* An address is written, copied, and given to the API.                    *)
(***************************************************************************)
AddressInit ==
  /\ address = None
  /\ written = None
  /\ mistakes = 0

Write(program, n) ==
  /\ address = None
  /\ address' = SiteEncodeCarrierAddress(program, n)
  /\ written' = [program |-> program, network |-> n]
  /\ UNCHANGED mistakes

Copied(wrong) ==
  /\ mistakes < MaxMistakes
  /\ address' = wrong
  /\ mistakes' = mistakes + 1
  /\ UNCHANGED written

Replace(i, s) == Copied([address EXCEPT !.data[i] = s])

Insert(i, s) ==
  Copied([address EXCEPT !.data = SubSeq(@, 1, i - 1) \o <<s>> \o SubSeq(@, i, Len(@))])

Delete(i) ==
  Copied([address EXCEPT !.data = SubSeq(@, 1, i - 1) \o SubSeq(@, i + 1, Len(@))])

Swap(i) ==
  /\ i < Len(address.data)
  /\ Copied([address EXCEPT !.data[i] = address.data[i+1], !.data[i+1] = address.data[i]])

Recase(case) == Copied([address EXCEPT !.case = case])

\* Other software writes an address with a checksum of its own: for another
\* network, of another version or length, or with other padding.
WriteAnew(hrp, i, s) ==
  LET payload == SubSeq(address.data, 1, Len(address.data) - 6) IN
  /\ i \in DOMAIN payload
  /\ \/ Copied(WithChecksum(hrp, [payload EXCEPT ![i] = s]))
     \/ Copied(WithChecksum(hrp, SubSeq(payload, 1, i)))

AddressNext ==
  \/ \E program \in Programs, n \in Network : Write(program, n)
  \/ /\ address # None
     /\ \/ \E i \in DOMAIN address.data :
             \/ \E s \in Symbols : Replace(i, s) \/ Insert(i, s)
             \/ Delete(i)
             \/ Swap(i)
             \/ \E hrp \in {"bc", "tb", "bcrt"}, s \in Symbols \cap Symbol : WriteAnew(hrp, i, s)
        \/ \E case \in {"upper", "mixed"} : Recase(case)

-----------------------------------------------------------------------------
(* Properties *)

\* A carrier has one address on a network, the one that the site shows: the API
\* reads it back, writes the same, and takes no other string for a carrier,
\* whatever was left out, put in or exchanged and whoever computed a checksum.
OneAddressPerCarrier ==
  address # None =>
    /\ \A n \in Network :
         LET program == DecodeCarrierAddress(address, n) IN
         program # None =>
           LET lower == [address EXCEPT !.case = "lower"] IN
           /\ lower = EncodeCarrierAddress(program, n)
           /\ lower = SiteEncodeCarrierAddress(program, n)
    /\ mistakes = 0 =>
         DecodeCarrierAddress(address, written.network) = written.program
=============================================================================
