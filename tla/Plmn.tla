-------------------------------- MODULE Plmn --------------------------------
(***************************************************************************)
(* utils.py: a PLMN string to the three octets of an NR CGI, by way of the *)
(* MCC and MNC words (a nibble per digit, F where there is none) and the   *)
(* 24-bit PLMN. A string is a sequence of digits, NoDigit for any other    *)
(* character. x \div 16^k % 16 is nibble k of x.                           *)
(***************************************************************************)
EXTENDS Integers, Sequences, SequencesExt

CONSTANTS Char,    (* characters of the strings tried                        *)
          NoDigit  (* in Char, a character that is no digit                  *)

VARIABLES text,    (* the argument of plmn_string_to_bcd                     *)
          plmn,    (* its result                                             *)
          octets,  (* plmn_to_bytes of the result                            *)
          pc       (* "text", "plmn" or "octets"                             *)

vars == <<text, plmn, octets, pc>>

Nibble(x, k) == (x \div 16^k) % 16
Word(n3, n2, n1, n0) == 4096 * n3 + 256 * n2 + 16 * n1 + n0
F == 15
None == -1

AllDigits(s) == NoDigit \notin ToSet(s)

-----------------------------------------------------------------------------
StringToMcc(s) ==
  IF Len(s) = 3 /\ AllDigits(s) THEN Word(F, s[1], s[2], s[3]) ELSE None

(* Mutant: a two-digit MNC is padded with zero. *)
StringToMncPadded(s) ==
  IF ~AllDigits(s) \/ Len(s) \notin {2, 3} THEN None
  ELSE IF Len(s) = 3 THEN Word(F, s[1], s[2], s[3]) ELSE Word(F, 0, s[1], s[2])

StringToMnc(s) ==
  IF ~AllDigits(s) \/ Len(s) \notin {2, 3} THEN None
  ELSE IF Len(s) = 3 THEN Word(F, s[1], s[2], s[3]) ELSE Word(F, F, s[1], s[2])

(* ngap_mccmnc_to_plmn: the nibbles from the top. *)
MccMncToPlmn(mcc, mnc) ==
  LET third == IF mnc \div 256 = 255 THEN F ELSE Nibble(mnc, 2)
  IN  65536 * (16 * Nibble(mcc, 1) + Nibble(mcc, 2))
      + Word(third, Nibble(mcc, 0), Nibble(mnc, 0), Nibble(mnc, 1))

StringToBcd(s) ==
  IF Len(s) \notin {5, 6} THEN 0
  ELSE LET mcc == StringToMcc(SubSeq(s, 1, 3))
           mnc == StringToMnc(SubSeq(s, 4, Len(s)))
       IN  IF mcc = None \/ mnc = None THEN 0 ELSE MccMncToPlmn(mcc, mnc)

BcdToMcc(p) == Word(F, Nibble(p, 4), Nibble(p, 5), Nibble(p, 2))

BcdToMnc(p) == Word(F, Nibble(p, 3), Nibble(p, 0), Nibble(p, 1))

PlmnToBytes(p) ==
  LET mcc == BcdToMcc(p)  mnc == BcdToMnc(p)
  IN  <<Nibble(mcc, 2) + 16 * Nibble(mcc, 1),
        Nibble(mcc, 0) + 16 * Nibble(mnc, 2),
        16 * Nibble(mnc, 0) + Nibble(mnc, 1)>>

-----------------------------------------------------------------------------
Init == /\ text \in UNION {[1..n -> Char] : n \in {0, 4, 5, 6, 7}}
        /\ plmn = 0 /\ octets = <<>> /\ pc = "text"

ToPlmn == pc = "text" /\ pc' = "plmn" /\ plmn' = StringToBcd(text) /\ UNCHANGED <<text, octets>>

ToOctets == pc = "plmn" /\ pc' = "octets" /\ octets' = PlmnToBytes(plmn) /\ UNCHANGED <<text, plmn>>

Done == pc = "octets" /\ UNCHANGED vars

Next == ToPlmn \/ ToOctets \/ Done

Spec == Init /\ [][Next]_vars

-----------------------------------------------------------------------------
Valid == Len(text) \in {5, 6} /\ AllDigits(text)

(* External, TS 38.413: the digits of the PLMN identity, low nibble first, *)
(* with the filler F between MCC and MNC if the MNC has two digits.        *)
Digits(o) == <<o[1] % 16, o[1] \div 16, o[2] % 16, o[2] \div 16, o[3] % 16, o[3] \div 16>>

Identity(s) == IF Len(s) = 5 THEN <<s[1], s[2], s[3], F, s[4], s[5]>> ELSE s

(* A receiver reads back the string that was given: no two PLMNs share     *)
(* their octets, an MNC "01" not with "001", and an invalid string is      *)
(* always PLMN 000000, never a neighbour's.                                *)
ReadsBack ==
  pc = "octets" => Digits(octets) = IF Valid THEN Identity(text) ELSE [i \in 1..6 |-> 0]

(* The words a receiver takes out of the PLMN are those it was built from. *)
WordsSurvive ==
  pc # "text" /\ Valid =>
    /\ BcdToMcc(plmn) = StringToMcc(SubSeq(text, 1, 3))
    /\ BcdToMnc(plmn) = StringToMnc(SubSeq(text, 4, Len(text)))
=============================================================================
