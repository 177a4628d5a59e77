-------------------------------- MODULE Itoa --------------------------------
(***************************************************************************)
(* The three itoa of the repository, a step for each turn of their loops:  *)
(* MICROS's of signed numbers (helpers.c), FIFOS's of unsigned ones        *)
(* (helpers.h) and MEMOS's of either (init.c).                             *)
(*                                                                         *)
(* A string is a sequence of digits, possibly after a Minus; signed        *)
(* numbers are those below half of WORD, and negative ones.                *)
(***************************************************************************)
EXTENDS Integers, Sequences

CONSTANT WORD       \* 2^32 in the code

Half == WORD \div 2

Minus == -1

ASSUME ItoaAssumption == WORD \in Nat /\ Half > 0 /\ WORD = 2 * Half

VARIABLES
  str,        \* the string, as long as it is
  low, ptr,   \* what the next swap exchanges
  value,      \* what is left to convert
  base,
  converting  \* the loop itoa is in, or "no"

itoa == <<str, low, ptr, value, base, converting>>

ItoaInit ==
  /\ str = << >>
  /\ low = 1 /\ ptr = 0
  /\ value = 0
  /\ base = 10
  /\ converting = "no"

(* Conversions between signed and unsigned, and C's division. *)
Unsigned(n) == n % WORD
Signed(n) == IF Unsigned(n) < Half THEN Unsigned(n) ELSE Unsigned(n) - WORD
Quotient(a, b) == IF a < 0 THEN -((-a) \div b) ELSE a \div b
Remainder(a, b) == a - b * Quotient(a, b)

(* itoa is called, and a sign written. *)
Begins(n, b, negative) ==
  /\ str' = IF negative THEN <<Minus>> ELSE << >>
  /\ low' = Len(str') + 1
  /\ ptr' = 0
  /\ value' = n
  /\ base' = b
  /\ converting' = "digits"

(* A negative number stays negative. *)
MicrosItoa(n, b) == Begins(Signed(n), b, Signed(n) < 0 /\ b = 10)

(* The number is unsigned, the test for a sign never true. *)
FifosItoa(n, b) == Begins(Unsigned(n), b, FALSE)

(* Base 'x' takes any number for an unsigned one. *)
MemosItoa(n, b) ==
  LET negative == b = 10 /\ Signed(n) < 0
  IN  Begins(Unsigned(IF negative THEN -n ELSE n), b, negative)

(* The table of digits, zyx...3210123...xyz, at index 35 + n. *)
Glyph(i) == IF i < 35 THEN 35 - i ELSE i - 35

(* Mutant: a table of digits that begins with 0. *)
DigitUnmirrored == Remainder(value, base)

Digit == Glyph(35 + Remainder(value, base))

(* do ... while (value); then ptr is left at the last character. *)
ItoaDigit ==
  /\ converting = "digits"
  /\ str' = Append(str, Digit)
  /\ value' = Quotient(value, base)
  /\ IF value' # 0 THEN UNCHANGED <<ptr, converting>>
                   ELSE ptr' = Len(str') /\ converting' = "reverse"
  /\ UNCHANGED <<low, base>>

(* Mutant: the loop goes on until the pointers have met. *)
CrossedOver == ptr < low - 1

Crossed == ptr <= low

(* while (low < ptr) *)
ItoaSwap ==
  /\ converting = "reverse"
  /\ ~Crossed
  /\ str' = [str EXCEPT ![low] = str[ptr], ![ptr] = str[low]]
  /\ low' = low + 1
  /\ ptr' = ptr - 1
  /\ UNCHANGED <<value, base, converting>>

ItoaReturn ==
  /\ converting = "reverse"
  /\ Crossed
  /\ converting' = "no"
  /\ UNCHANGED <<str, low, ptr, value, base>>

Itoa == ItoaDigit \/ ItoaSwap \/ ItoaReturn

-----------------------------------------------------------------------------
(* The number a string is for. *)
Magnitude(s, b) ==
  LET f[i \in 0 .. Len(s)] == IF i = 0 THEN 0 ELSE f[i - 1] * b + s[i]
  IN  f[Len(s)]

Read(s, b) == IF s # << >> /\ Head(s) = Minus THEN -Magnitude(Tail(s), b)
                                              ELSE Magnitude(s, b)

Amount(i) == IF i < 0 THEN -i ELSE i

-----------------------------------------------------------------------------
(* The invariant of the loops *)

(* What k divisions leave of m, and the digit the next one takes off. *)
Rest(m, b) == LET f[k \in Nat] == IF k = 0 THEN m ELSE f[k - 1] \div b IN f

DigitOf(m, b, k) == Rest(m, b)[k] % b

Signs(negative) == IF negative THEN 1 ELSE 0

(* itoa converts an amount m, after a Minus if negative: the digits are in *)
(* the order of the divisions until swapped, and no more than are needed.  *)
ItoaInv(m, negative, b) ==
  LET z == Signs(negative)
      l == Len(str) - z
  IN  /\ base = b /\ value \in Int /\ low \in Int /\ ptr \in Int
      /\ str \in Seq(Int) /\ l >= 0
      /\ negative => str[1] = Minus
      /\ \/ /\ converting = "digits"
            /\ low = z + 1
            /\ Amount(value) = Rest(m, b)[l]
            /\ l = 0 \/ Rest(m, b)[l] # 0
            /\ \A k \in 1 .. l : str[z + k] = DigitOf(m, b, k - 1)
         \/ /\ converting \in {"reverse", "no"}
            /\ l > 0 /\ Rest(m, b)[l] = 0
            /\ l = 1 \/ Rest(m, b)[l - 1] # 0
            /\ \/ /\ converting = "reverse"
                  /\ low > z /\ low + ptr = Len(str) + z + 1
                  /\ \A k \in 1 .. l :
                       str[z + k] = DigitOf(m, b, IF z + k \in low .. ptr THEN k - 1
                                                                        ELSE l - k)
               \/ /\ converting = "no"
                  /\ \A k \in 1 .. l : str[z + k] = DigitOf(m, b, l - k)
=============================================================================
