-------------------------- MODULE MemoryMap_proofs --------------------------
(***************************************************************************)
(* Proofs about module MemoryMap, for words of any width, any machine and  *)
(* any number.                                                             *)
(***************************************************************************)
EXTENDS MemoryMap, Lemmas

-----------------------------------------------------------------------------
(* Digits *)

(* A division takes a digit off. *)
Splits(m, b, k) == Rest(m, b)[k] = Rest(m, b)[k + 1] * b + DigitOf(m, b, k)

LEMMA RestFacts ==
  ASSUME NEW m \in Nat, NEW b \in Nat \ {0}
  PROVE  /\ Rest(m, b)[0] = m
         /\ \A k \in Nat : /\ Rest(m, b)[k] \in Nat
                            /\ Rest(m, b)[k + 1] = Rest(m, b)[k] \div b
                            /\ DigitOf(m, b, k) \in 0 .. b - 1
                            /\ Splits(m, b, k)
<1> DEFINE Is(h) == h = [k \in Nat |-> IF k = 0 THEN m ELSE h[k - 1] \div b]
           D == [x \in Nat |-> x \div b]
           R == Rest(m, b)
<1>1. D \in [Nat -> Nat] /\ \A x \in Nat : D[x] = x \div b /\ x \div b \in Nat
  BY DivisionNat
<1> HIDE DEF D
<1>2. PICK h \in [Nat -> Nat] : h[0] = m /\ \A k \in Nat : h[k + 1] = D[h[k]]
  <2>1. m \in Nat /\ D \in [Nat -> Nat]
    BY <1>1
  <2> QED BY <2>1, IterationOnNat, Zenon
<1>3. \A k \in Nat : h[k] \in Nat
  OBVIOUS
<1>4. Is(h)
  <2>1. ASSUME NEW k \in Nat PROVE h[k] = IF k = 0 THEN m ELSE h[k - 1] \div b
    <3>1. CASE k # 0
      <4>1. k - 1 \in Nat /\ (k - 1) + 1 = k
        BY <3>1
      <4>2. h[(k - 1) + 1] = D[h[k - 1]] /\ h[k - 1] \in Nat
        BY <1>2, <1>3, <4>1
      <4> QED BY <1>1, <3>1, <4>1, <4>2
    <3> QED BY <1>2, <3>1
  <2> QED BY <1>2, <2>1
<1>5. Is(R)
  BY <1>4, Zenon DEF Rest
<1> HIDE DEF R
<1>6. R[0] = m
  BY <1>5
<1>7. ASSUME NEW k \in Nat PROVE R[k + 1] = R[k] \div b
  BY <1>5
<1>8. \A k \in Nat : R[k] \in Nat
  <2> DEFINE S == {k \in Nat : R[k] \in Nat}
  <2>1. 0 \in S
    BY <1>6
  <2>2. ASSUME NEW k \in Nat, k \in S PROVE k + 1 \in S
    <3>1. R[k + 1] = R[k] \div b /\ R[k] \in Nat
      BY <1>7, <2>2
    <3> QED BY <3>1, DivisionNat
  <2> HIDE DEF S
  <2>3. Nat \subseteq S
    BY <2>1, <2>2, SetInduction
  <2> QED BY <2>3 DEF S
<1>9. ASSUME NEW x \in Nat
      PROVE  x % b \in 0 .. b - 1 /\ x = (x \div b) * b + (x % b)
  OBVIOUS
<1>10. ASSUME NEW k \in Nat
       PROVE  /\ R[k] % b \in 0 .. b - 1
              /\ R[k] = R[k + 1] * b + (R[k] % b)
  BY <1>7, <1>8, <1>9
<1> QED BY <1>6, <1>7, <1>8, <1>10 DEF R, DigitOf, Splits

(* Once nothing is left, nothing is. *)
LEMMA RestEnds ==
  ASSUME NEW m \in Nat, NEW b \in Nat \ {0}, NEW l \in Nat, Rest(m, b)[l] = 0,
         NEW k \in Nat, l <= k
  PROVE  Rest(m, b)[k] = 0
<1> DEFINE S == {j \in Nat : Rest(m, b)[l + j] = 0}
<1>1. 0 \in S
  OBVIOUS
<1>2. ASSUME NEW j \in Nat, j \in S PROVE j + 1 \in S
  <2>1. Rest(m, b)[(l + j) + 1] = Rest(m, b)[l + j] \div b
    BY RestFacts
  <2>2. 0 \div b = 0
    OBVIOUS
  <2>3. l + (j + 1) = (l + j) + 1
    OBVIOUS
  <2> QED BY <1>2, <2>1, <2>2, <2>3
<1> HIDE DEF S
<1>3. k - l \in S
  BY <1>1, <1>2, SetInduction
<1> QED BY <1>3 DEF S

(* Digits in their order are a string for the amount. *)
LEMMA MagnitudeIs ==
  ASSUME NEW m \in Nat, NEW b \in Nat \ {0}, NEW s, Len(s) \in Nat,
         Rest(m, b)[Len(s)] = 0,
         \A k \in 1 .. Len(s) : s[k] = DigitOf(m, b, Len(s) - k)
  PROVE  Magnitude(s, b) = m
<1>1. \A k \in Nat : Rest(m, b)[k] \in Nat /\ Splits(m, b, k)
  BY RestFacts
<1>2. Rest(m, b)[0] = m
  BY RestFacts
<1> DEFINE l == Len(s)
           R == Rest(m, b)
           Is(h) == h = [i \in 0 .. l |-> IF i = 0 THEN 0 ELSE h[i - 1] * b + s[i]]
           g == [i \in 0 .. l |-> R[l - i]]
<1> HIDE DEF R, l
<1>3. ASSUME NEW i \in 0 .. l, i # 0 PROVE g[i] = g[i - 1] * b + s[i]
  <2>1. l \in Nat /\ l - i \in Nat /\ (l - i) + 1 = l - (i - 1) /\ i - 1 \in 0 .. l
    BY <1>3 DEF l
  <2>2. R[l - i] = R[(l - i) + 1] * b + DigitOf(m, b, l - i)
    BY <1>1, <2>1 DEF R, Splits
  <2>3. s[i] = DigitOf(m, b, l - i)
    BY <1>3 DEF l
  <2> QED BY <2>1, <2>2, <2>3
<1>4. g[0] = 0 /\ g[l] = m
  BY <1>2 DEF R, l
<1>5. Is(g)
  <2>1. g = [i \in 0 .. l |-> g[i]]
    OBVIOUS
  <2> HIDE DEF g
  <2> QED BY <1>3, <1>4, <2>1
<1> DEFINE f == CHOOSE h : Is(h)
<1>6. Is(f)
  BY <1>5
<1>7. Magnitude(s, b) = f[l]
  BY Zenon DEF Magnitude, l
<1> HIDE DEF f
<1> DEFINE S == {i \in Nat : i <= l => f[i] = g[i]}
<1>8. 0 \in S
  BY <1>4, <1>6 DEF l
<1>9. ASSUME NEW i \in Nat, i \in S PROVE i + 1 \in S
  <2>1. CASE i + 1 <= l
    <3>1. /\ i + 1 \in 0 .. l /\ i + 1 # 0 /\ (i + 1) - 1 = i /\ f[i] = g[i]
      BY <1>9, <2>1 DEF l
    <3>2. f[i + 1] = f[i] * b + s[i + 1]
      BY <1>6, <3>1
    <3>3. g[i + 1] = g[i] * b + s[i + 1]
      BY <1>3, <3>1
    <3> HIDE DEF g
    <3> QED BY <3>1, <3>2, <3>3
  <2> QED BY <2>1
<1> HIDE DEF S
<1>10. l \in S
  BY <1>8, <1>9, SetInduction DEF l
<1> HIDE DEF g
<1> QED BY <1>4, <1>7, <1>10 DEF S, l

-----------------------------------------------------------------------------
(* itoa *)

LEMMA AmountFacts ==
  ASSUME NEW v \in Int
  PROVE  Amount(v) \in Nat /\ (Amount(v) = 0 <=> v = 0)
BY DEF Amount

(* C's division and the table of digits go by amounts. *)
LEMMA QuotientFacts ==
  ASSUME NEW v \in Int, NEW b \in Nat \ {0}
  PROVE  /\ Quotient(v, b) \in Int
         /\ Amount(Quotient(v, b)) = Amount(v) \div b
         /\ Glyph(35 + Remainder(v, b)) = Amount(v) % b
<1> DEFINE a == Amount(v)
           q == a \div b
           r == a % b
<1>1. a \in Nat
  BY DEF Amount
<1>2. q \in Nat /\ r \in 0 .. b - 1 /\ a = q * b + r
  <2> HIDE DEF a
  <2> QED BY <1>1, DivisionNat
<1>3. CASE v < 0
  <2>1. a = -v
    BY <1>3 DEF Amount
  <2>2. Quotient(v, b) = -q
    BY <1>3, <2>1 DEF Quotient
  <2> HIDE DEF a, q, r
  <2>3. Amount(Quotient(v, b)) = q
    BY <1>2, <2>2 DEF Amount
  <2>4. b * (-q) = -(q * b)
    BY <1>2
  <2>5. Remainder(v, b) = -r
    BY <1>2, <2>1, <2>2, <2>4 DEF Remainder
  <2>6. Glyph(35 + Remainder(v, b)) = r
    BY <1>2, <2>5 DEF Glyph
  <2> QED BY <1>2, <2>2, <2>3, <2>6 DEF a, q, r
<1>4. CASE ~(v < 0)
  <2>1. a = v
    BY <1>4 DEF Amount
  <2>2. Quotient(v, b) = q
    BY <1>4, <2>1 DEF Quotient
  <2> HIDE DEF a, q, r
  <2>3. Amount(Quotient(v, b)) = q
    BY <1>2, <2>2 DEF Amount
  <2>4. b * q = q * b
    BY <1>2
  <2>5. Remainder(v, b) = r
    BY <1>2, <2>1, <2>2, <2>4 DEF Remainder
  <2>6. Glyph(35 + Remainder(v, b)) = r
    BY <1>2, <2>5 DEF Glyph
  <2> QED BY <1>2, <2>2, <2>3, <2>6 DEF a, q, r
<1> QED BY <1>3, <1>4

(* What a call begins with. *)
LEMMA BeginsInv ==
  ASSUME NEW v \in Int, NEW b \in Nat \ {0}, NEW negative \in BOOLEAN,
         Begins(v, b, negative)
  PROVE  ItoaInv(Amount(v), negative, b)'
<1> DEFINE z == Signs(negative)
<1>1. Rest(Amount(v), b)[0] = Amount(v)
  BY AmountFacts, RestFacts
<1>2. /\ str' \in Seq(Int) /\ Len(str') = z /\ z \in {0, 1}
      /\ negative => str'[1] = Minus
  BY DEF Begins, Signs, Minus
<1>3. /\ low' = Len(str') + 1 /\ ptr' = 0 /\ value' = v /\ base' = b
      /\ converting' = "digits"
  BY DEF Begins
<1> HIDE DEF z
<1>4. Len(str') - z = 0 /\ low' = z + 1 /\ low' \in Int
  BY <1>2, <1>3
<1> QED BY <1>1, <1>2, <1>3, <1>4 DEF ItoaInv, z

(* What a call returns: the l digits of m, after a Minus if negative. *)
Digits(s, l, m, negative, b) ==
  /\ s \in Seq(Int) /\ Len(s) = Signs(negative) + l
  /\ negative => s[1] = Minus
  /\ Rest(m, b)[l] = 0
  /\ \A k \in 1 .. l : s[Signs(negative) + k] = DigitOf(m, b, l - k)

LEMMA ReadIs ==
  ASSUME NEW m \in Nat, NEW b \in Nat \ {0}, NEW negative \in BOOLEAN,
         NEW s, NEW l \in Nat \ {0}, Digits(s, l, m, negative, b)
  PROVE  Read(s, b) = IF negative THEN -m ELSE m
<1> USE DEF Digits
<1>1. s # << >> /\ Head(s) = s[1]
  BY DEF Signs
<1>2. CASE negative
  <2>1. /\ Len(Tail(s)) = l /\ \A k \in 1 .. l : Tail(s)[k] = s[1 + k]
    BY <1>1, <1>2 DEF Signs
  <2>2. \A k \in 1 .. l : Tail(s)[k] = DigitOf(m, b, l - k)
    BY <1>2, <2>1 DEF Signs
  <2> DEFINE t == Tail(s)
  <2>3. /\ Len(t) \in Nat /\ Rest(m, b)[Len(t)] = 0
        /\ \A k \in 1 .. Len(t) : t[k] = DigitOf(m, b, Len(t) - k)
    BY <2>1, <2>2
  <2> HIDE DEF t
  <2>4. Magnitude(t, b) = m
    BY <2>3, MagnitudeIs
  <2> QED BY <1>1, <1>2, <2>4 DEF Read, t
<1>3. CASE ~negative
  <2>1. /\ Len(s) = l /\ \A k \in 1 .. l : s[k] = DigitOf(m, b, l - k)
    BY <1>3 DEF Signs
  <2>2. Magnitude(s, b) = m
    BY <2>1, MagnitudeIs
  <2>3. s[1] \in 0 .. b - 1
    <3>1. 1 \in 1 .. l /\ l - 1 \in Nat
      OBVIOUS
    <3>2. DigitOf(m, b, l - 1) \in 0 .. b - 1
      BY <3>1, RestFacts
    <3> QED BY <2>1, <3>1, <3>2
  <2>4. Head(s) # Minus
    BY <1>1, <2>3 DEF Minus
  <2> QED BY <1>3, <2>2, <2>4 DEF Read
<1> QED BY <1>2, <1>3

LEMMA ConvertedReads ==
  ASSUME NEW m \in Nat, NEW b \in Nat \ {0}, NEW negative \in BOOLEAN,
         ItoaInv(m, negative, b), converting = "no"
  PROVE  Read(str, b) = IF negative THEN -m ELSE m
<1> DEFINE l == Len(str) - Signs(negative)
<1>1. /\ l > 0 /\ Rest(m, b)[l] = 0
      /\ \A k \in 1 .. l : str[Signs(negative) + k] = DigitOf(m, b, l - k)
      /\ str \in Seq(Int) /\ (negative => str[1] = Minus)
  BY DEF ItoaInv
<1>2. l \in Nat \ {0} /\ Len(str) = Signs(negative) + l
  BY <1>1 DEF Signs
<1> HIDE DEF l
<1>3. Digits(str, l, m, negative, b)
  BY <1>1, <1>2 DEF Digits
<1> QED BY <1>2, <1>3, ReadIs

LEMMA ItoaDigitKeeps ==
  ASSUME NEW m \in Nat, NEW b \in Nat \ {0}, NEW negative \in BOOLEAN,
         ItoaInv(m, negative, b), ItoaDigit
  PROVE  ItoaInv(m, negative, b)'
<1> DEFINE z == Signs(negative)
           l == Len(str) - z
           d == DigitOf(m, b, l)
<1>1. /\ base = b /\ value \in Int /\ low = z + 1 /\ ptr \in Int
      /\ str \in Seq(Int) /\ l >= 0 /\ z \in {0, 1}
      /\ (negative => str[1] = Minus) /\ (negative => z = 1)
      /\ Amount(value) = Rest(m, b)[l]
      /\ l = 0 \/ Rest(m, b)[l] # 0
      /\ \A k \in 1 .. l : str[z + k] = DigitOf(m, b, k - 1)
  BY DEF ItoaInv, ItoaDigit, Signs
<1>2. /\ str' = Append(str, Digit) /\ value' = Quotient(value, base)
      /\ IF value' # 0 THEN ptr' = ptr /\ converting' = converting
                       ELSE ptr' = Len(str') /\ converting' = "reverse"
      /\ low' = low /\ base' = base /\ converting = "digits"
  BY DEF ItoaDigit
<1>3. l \in Nat /\ Len(str) = z + l
  BY <1>1
<1>4. /\ Rest(m, b)[l + 1] = Rest(m, b)[l] \div b /\ d \in 0 .. b - 1
  BY <1>3, RestFacts
<1>5. /\ value' \in Int /\ Amount(value') = Rest(m, b)[l + 1] /\ Digit = d
  BY <1>1, <1>2, <1>4, QuotientFacts DEF Digit, DigitOf
<1>6. (value' = 0) <=> (Rest(m, b)[l + 1] = 0)
  BY <1>5, AmountFacts
<1> HIDE DEF z, l, d
<1>7. /\ str' \in Seq(Int) /\ Len(str') = z + (l + 1)
      /\ str'[z + (l + 1)] = d
      /\ \A k \in 1 .. z + l : str'[k] = str[k]
  <2>1. /\ str \in Seq(Int) /\ d \in Int /\ str' = Append(str, d)
        /\ Len(str) = z + l /\ z \in {0, 1} /\ l \in Nat
    BY <1>1, <1>2, <1>3, <1>4, <1>5
  <2> QED BY <2>1
<1>8. z \in {0, 1} /\ l \in Nat /\ (negative => z = 1 /\ str[1] = Minus)
  BY <1>1, <1>3
<1>9. negative => str'[1] = Minus
  <2>1. negative => 1 \in 1 .. z + l
    BY <1>8
  <2> QED BY <1>7, <1>8, <2>1
<1>10. ASSUME NEW k \in 1 .. l + 1 PROVE str'[z + k] = DigitOf(m, b, k - 1)
  <2>1. CASE k = l + 1
    <3>1. d = DigitOf(m, b, k - 1)
      BY <1>3, <2>1 DEF d
    <3> QED BY <1>7, <2>1, <3>1
  <2>2. CASE k \in 1 .. l
    <3>1. z + k \in 1 .. z + l
      BY <1>8, <2>2
    <3> QED BY <1>1, <1>7, <2>2, <3>1
  <2> QED BY <1>8, <2>1, <2>2
<1> DEFINE x == Len(str') - z
<1>11. x = l + 1 /\ x > 0 /\ x >= 0 /\ x - 1 = l /\ Len(str') = z + x
  <2>1. Len(str') = z + (l + 1)
    BY <1>7
  <2> QED BY <1>8, <2>1
<1> HIDE DEF x
<1>12. /\ \A k \in 1 .. x : str'[z + k] = DigitOf(m, b, k - 1)
       /\ Amount(value') = Rest(m, b)[x]
       /\ (value' = 0) <=> (Rest(m, b)[x] = 0)
  BY <1>5, <1>6, <1>10, <1>11
<1>13. x = 1 \/ Rest(m, b)[x - 1] # 0
  <2>1. l = 0 \/ Rest(m, b)[l] # 0
    BY <1>1
  <2> QED BY <1>11, <2>1, <1>8
<1> HIDE DEF x
<1>14. CASE value' # 0
  <2>1. /\ converting' = "digits" /\ ptr' \in Int /\ low' = z + 1 /\ low' \in Int
        /\ base' = b
    BY <1>1, <1>2, <1>14
  <2>2. x = 0 \/ Rest(m, b)[x] # 0
    BY <1>12, <1>14
  <2>3. value' \in Int /\ str' \in Seq(Int)
    BY <1>5, <1>7
  <2>4. Amount(value)' = Rest(m, b)[x]
    BY <1>12 DEF Amount
  <2>5. \A k \in 1 .. x : str'[z + k] = DigitOf(m, b, k - 1)
    BY <1>12
  <2>6. x >= 0
    BY <1>11
  <2> QED BY <1>9, <2>1, <2>2, <2>3, <2>4, <2>5, <2>6 DEF ItoaInv, z, x
<1>15. CASE value' = 0
  <2>0. converting' = "reverse" /\ ptr' = Len(str') /\ low' = z + 1 /\ base' = b
    BY <1>1, <1>2, <1>15
  <2>1. /\ ptr' = z + x /\ ptr' \in Int /\ low' \in Int /\ low' > z
        /\ low' + ptr' = Len(str') + z + 1
    BY <1>8, <1>11, <2>0
  <2>2. \A k \in 1 .. x : str'[z + k] =
            DigitOf(m, b, IF z + k \in low' .. ptr' THEN k - 1 ELSE x - k)
    <3>1. \A k \in 1 .. x : z + k \in low' .. ptr'
      BY <1>8, <1>11, <2>0, <2>1
    <3> QED BY <1>12, <3>1
  <2>3. Rest(m, b)[x] = 0
    BY <1>12, <1>15
  <2>4. value' \in Int /\ str' \in Seq(Int)
    BY <1>5, <1>7
  <2>5. x > 0 /\ x >= 0
    BY <1>11
  <2> QED BY <1>9, <1>13, <2>0, <2>1, <2>2, <2>3, <2>4, <2>5 DEF ItoaInv, z, x
<1> QED BY <1>14, <1>15

LEMMA ItoaSwapKeeps ==
  ASSUME NEW m \in Nat, NEW b \in Nat \ {0}, NEW negative \in BOOLEAN,
         ItoaInv(m, negative, b), ItoaSwap
  PROVE  ItoaInv(m, negative, b)'
<1> DEFINE z == Signs(negative)
           l == Len(str) - z
           D(k) == DigitOf(m, b, k)
<1>1. /\ base = b /\ value \in Int /\ low \in Int /\ ptr \in Int
      /\ str \in Seq(Int) /\ l > 0 /\ z \in {0, 1}
      /\ (negative => str[1] = Minus) /\ (negative => z = 1)
      /\ Rest(m, b)[l] = 0 /\ (l = 1 \/ Rest(m, b)[l - 1] # 0)
      /\ low > z /\ low + ptr = Len(str) + z + 1
      /\ \A k \in 1 .. l :
           str[z + k] = D(IF z + k \in low .. ptr THEN k - 1 ELSE l - k)
  BY DEF ItoaInv, ItoaSwap, Signs
<1>2. /\ low < ptr
      /\ str' = [str EXCEPT ![low] = str[ptr], ![ptr] = str[low]]
      /\ low' = low + 1 /\ ptr' = ptr - 1
      /\ value' = value /\ base' = base /\ converting' = "reverse"
  BY <1>1 DEF ItoaSwap, Crossed
<1>3. l \in Nat /\ Len(str) = z + l
  BY <1>1
<1> HIDE DEF z, l, D
<1>4. /\ z \in {0, 1} /\ l \in Nat /\ l > 0 /\ low \in Int /\ ptr \in Int
      /\ low > z /\ low + ptr = z + l + z + 1 /\ low < ptr
      /\ low' = low + 1 /\ ptr' = ptr - 1
  BY <1>1, <1>2, <1>3
<1>5. /\ low \in 1 .. z + l /\ ptr \in 1 .. z + l /\ low # ptr
      /\ (z = 1 => low # 1 /\ ptr # 1)
  BY <1>4
<1>6. /\ str' \in Seq(Int) /\ Len(str') = z + l
      /\ str'[low] = str[ptr] /\ str'[ptr] = str[low]
      /\ \A k \in 1 .. z + l : k # low /\ k # ptr => str'[k] = str[k]
  <2>1. /\ str' = [str EXCEPT ![low] = str[ptr], ![ptr] = str[low]]
        /\ str \in Seq(Int) /\ low \in 1 .. Len(str) /\ ptr \in 1 .. Len(str)
        /\ low # ptr /\ Len(str) = z + l
    BY <1>1, <1>2, <1>3, <1>5
  <2>2. str[ptr] \in Int /\ str[low] \in Int
    BY <2>1
  <2> QED BY <2>1, <2>2
<1>7. negative => str'[1] = Minus
  <2>1. negative => z = 1 /\ str[1] = Minus
    BY <1>1
  <2>2. z = 1 => 1 \in 1 .. z + l /\ 1 # low /\ 1 # ptr
    BY <1>4, <1>5
  <2> QED BY <1>6, <2>1, <2>2
<1>8. \A k \in 1 .. l :
        str[z + k] = D(IF z + k \in low .. ptr THEN k - 1 ELSE l - k)
  BY <1>1
<1>9. ASSUME NEW k \in 1 .. l
      PROVE  str'[z + k] = D(IF z + k \in low' .. ptr' THEN k - 1 ELSE l - k)
  <2>1. CASE z + k = low
    <3> DEFINE j == ptr - z
    <3>1. j \in 1 .. l /\ z + j = ptr /\ z + j \in low .. ptr /\ j - 1 = l - k
      BY <1>4, <2>1
    <3>2. str[ptr] = D(j - 1)
      BY <1>8, <3>1
    <3>3. ~(z + k \in low' .. ptr')
      BY <1>4, <2>1
    <3> QED BY <1>6, <2>1, <3>1, <3>2, <3>3
  <2>2. CASE z + k = ptr
    <3> DEFINE j == low - z
    <3>1. j \in 1 .. l /\ z + j = low /\ z + j \in low .. ptr /\ j - 1 = l - k
      BY <1>4, <2>2
    <3>2. str[low] = D(j - 1)
      BY <1>8, <3>1
    <3>3. ~(z + k \in low' .. ptr')
      BY <1>4, <2>2
    <3> QED BY <1>6, <2>2, <3>1, <3>2, <3>3
  <2>3. CASE z + k # low /\ z + k # ptr
    <3>1. z + k \in 1 .. z + l
      BY <1>4
    <3>2. str'[z + k] = str[z + k]
      BY <1>6, <2>3, <3>1
    <3>3. (z + k \in low .. ptr) <=> (z + k \in low' .. ptr')
      BY <1>4, <2>3
    <3> QED BY <1>8, <3>2, <3>3
  <2> QED BY <2>1, <2>2, <2>3
<1> DEFINE x == Len(str') - z
<1>10. /\ x = l
      /\ low' \in Int /\ ptr' \in Int /\ low' > z /\ low' + ptr' = Len(str') + z + 1
  <2>1. Len(str') = z + l
    BY <1>6
  <2> QED BY <1>4, <2>1
<1>11. Rest(m, b)[l] = 0 /\ (l = 1 \/ Rest(m, b)[l - 1] # 0)
  BY <1>1
<1> HIDE DEF x
<1>12. /\ x > 0 /\ x >= 0
       /\ Rest(m, b)[x] = 0 /\ (x = 1 \/ Rest(m, b)[x - 1] # 0)
       /\ \A k \in 1 .. x :
           str'[z + k] = D(IF z + k \in low' .. ptr' THEN k - 1 ELSE x - k)
  <2>1. x > 0 /\ x >= 0
    BY <1>4, <1>10
  <2> QED BY <1>9, <1>10, <1>11, <2>1
<1>13. base' = b /\ value' \in Int /\ converting' = "reverse" /\ str' \in Seq(Int)
  BY <1>1, <1>2, <1>6
<1> QED BY <1>7, <1>10, <1>12, <1>13 DEF ItoaInv, z, x, D

LEMMA ItoaReturnKeeps ==
  ASSUME NEW m \in Nat, NEW b \in Nat \ {0}, NEW negative \in BOOLEAN,
         ItoaInv(m, negative, b), ItoaReturn
  PROVE  ItoaInv(m, negative, b)'
<1> DEFINE z == Signs(negative)
           l == Len(str) - z
           D(k) == DigitOf(m, b, k)
<1>1. /\ base = b /\ value \in Int /\ low \in Int /\ ptr \in Int
      /\ str \in Seq(Int) /\ l > 0 /\ l >= 0 /\ z \in {0, 1}
      /\ (negative => str[1] = Minus)
      /\ Rest(m, b)[l] = 0 /\ (l = 1 \/ Rest(m, b)[l - 1] # 0)
      /\ low > z /\ low + ptr = Len(str) + z + 1
      /\ \A k \in 1 .. l :
           str[z + k] = D(IF z + k \in low .. ptr THEN k - 1 ELSE l - k)
  BY DEF ItoaInv, ItoaReturn, Signs
<1>2. /\ ptr <= low /\ converting' = "no"
      /\ str' = str /\ low' = low /\ ptr' = ptr /\ value' = value /\ base' = base
  BY DEF ItoaReturn, Crossed
<1>3. l \in Nat /\ Len(str) = z + l
  BY <1>1
<1> HIDE DEF z, l, D
<1>4. ASSUME NEW k \in 1 .. l PROVE str[z + k] = D(l - k)
  <2>1. CASE z + k \in low .. ptr
    <3>1. k - 1 = l - k
      BY <1>1, <1>2, <1>3, <2>1
    <3> QED BY <1>1, <2>1, <3>1
  <2>2. CASE ~(z + k \in low .. ptr)
    BY <1>1, <2>2
  <2> QED BY <2>1, <2>2
<1>5. l' = l
  BY <1>2 DEF l, z
<1> QED BY <1>1, <1>2, <1>4 DEF ItoaInv, z, l, D

LEMMA ItoaKeeps ==
  ASSUME NEW m \in Nat, NEW b \in Nat \ {0}, NEW negative \in BOOLEAN,
         ItoaInv(m, negative, b), Itoa
  PROVE  ItoaInv(m, negative, b)'
BY ItoaDigitKeeps, ItoaSwapKeeps, ItoaReturnKeeps DEF Itoa

-----------------------------------------------------------------------------
(* Descriptors *)

Word32 == {v \in Nat : v < 4294967296}
Limits == {v \in Nat : v < 1048576}

Descriptors32 ==
  [base : Word32, limit : Limits, access_byte : 0 .. 255, flags : 0 .. 15]

LEMMA Bytes ==
  ASSUME NEW v \in Word32
  PROVE  /\ Byte(v, 0) = v % 256
         /\ Byte(v, 1) = (v \div 256) % 256
         /\ Byte(v, 2) = (v \div 65536) % 256
         /\ Byte(v, 3) = (v \div 16777216) % 256
<1>1. 256 ^ 0 = 1 /\ 256 ^ 1 = 256 /\ 256 ^ 2 = 65536 /\ 256 ^ 3 = 16777216
  BY SMT
<1>2. v \in Nat /\ v \div 1 = v
  BY SMT DEF Word32
<1> QED BY <1>1, <1>2, SMT DEF Byte

LEMMA WordOfBytes ==
  ASSUME NEW v \in Word32
  PROVE  (v % 256) + 256 * ((v \div 256) % 256) + 65536 * ((v \div 65536) % 256)
           + 16777216 * ((v \div 16777216) % 256) = v
BY SMT DEF Word32

LEMMA LimitOfBytes ==
  ASSUME NEW v \in Limits, NEW f \in 0 .. 15,
         NEW b, b = (((v \div 65536) % 256) % 16) + 16 * (f % 16)
  PROVE  /\ (v % 256) + 256 * ((v \div 256) % 256) + 65536 * (b % 16) = v
         /\ b \div 16 = f
BY SMT DEF Limits

(* Any segment within the fields' widths, not only the kernels' three, is  *)
(* read from the eight bytes as it was described (encodeGdtEntry).         *)
THEOREM DescriptorReadsBack ==
  \A d \in Descriptors32 : Descriptor(encodeGdtEntry(d)) = d
<1> SUFFICES ASSUME NEW d \in Descriptors32 PROVE Descriptor(encodeGdtEntry(d)) = d
  OBVIOUS
<1>1. /\ d.base \in Word32 /\ d.limit \in Limits
      /\ d.access_byte \in 0 .. 255 /\ d.flags \in 0 .. 15
      /\ d = [base |-> d.base, limit |-> d.limit,
              access_byte |-> d.access_byte, flags |-> d.flags]
  BY DEF Descriptors32
<1> DEFINE e == encodeGdtEntry(d)
<1>2. /\ e[1] = Byte(d.limit, 0) /\ e[2] = Byte(d.limit, 1)
      /\ e[3] = Byte(d.base, 0) /\ e[4] = Byte(d.base, 1) /\ e[5] = Byte(d.base, 2)
      /\ e[6] = d.access_byte /\ e[8] = Byte(d.base, 3)
      /\ e[7] = (Byte(d.limit, 2) % 16) + 16 * (d.flags % 16)
  BY DEF encodeGdtEntry, LimitAndFlags
<1>3. d.limit \in Word32
  BY <1>1, SMT DEF Word32, Limits
<1> HIDE DEF e
<1>4. e[3] + 256 * e[4] + 65536 * e[5] + 16777216 * e[8] = d.base
  BY <1>1, <1>2, Bytes, WordOfBytes, SMT
<1>5. e[7] = (((d.limit \div 65536) % 256) % 16) + 16 * (d.flags % 16)
  BY <1>2, <1>3, Bytes, SMT
<1>6. e[1] = d.limit % 256 /\ e[2] = (d.limit \div 256) % 256
  BY <1>2, <1>3, Bytes, SMT
<1>7. e[1] + 256 * e[2] + 65536 * (e[7] % 16) = d.limit /\ e[7] \div 16 = d.flags
  BY <1>1, <1>5, <1>6, LimitOfBytes, SMT
<1> QED BY <1>1, <1>2, <1>4, <1>7, SMT DEF Descriptor, e

(* A gate goes to the address it was given. *)
LEMMA GateReaches ==
  ASSUME NEW isr \in Nat, NEW flags
  PROVE  Target(idt_set_descriptor(isr, flags)) = isr
BY SMT DEF Target, idt_set_descriptor

(* The first l elements of f. *)
Filled(s, f, l) == s = [k \in 1 .. l |-> f[k]]

LEMMA AppendNext ==
  ASSUME NEW f, NEW l \in Nat, NEW s, Filled(s, f, l)
  PROVE  /\ Filled(Append(s, f[l + 1]), f, l + 1)
         /\ Len(Append(s, f[l + 1])) = l + 1
<1> USE DEF Filled
<1> DEFINE V == {f[k] : k \in 1 .. l + 1}
<1>1. s \in Seq(V) /\ Len(s) = l /\ f[l + 1] \in V
  OBVIOUS
<1> QED BY <1>1

(* TableInv, with the tables as beginnings of two functions. *)
Encoded == [k \in Nat |-> encodeGdtEntry(Sources[k])]
Gates == [v \in Nat |-> idt_set_descriptor(isr_stub_table(v - 1), 142)]

Tables ==
  /\ Len(gdt) \in Nat /\ Len(gdt) <= 3
  /\ Len(idt) \in Nat /\ Len(idt) <= 48
  /\ Filled(gdt, Encoded, Len(gdt)) /\ Filled(idt, Gates, Len(idt))
  /\ phase = "gdt" => n = Len(gdt) /\ idt = << >>
  /\ phase = "idt" => n = Len(idt)

LEMMA TablesAre == TableInv <=> Tables
<1>1. Len(Sources) = 3
  BY SMT DEF Sources
<1>2. \A k \in Nat : /\ Encoded[k] = encodeGdtEntry(Sources[k])
                      /\ Gates[k] = idt_set_descriptor(isr_stub_table(k - 1), 142)
  BY DEF Encoded, Gates
<1>3. [k \in 1 .. Len(gdt) |-> encodeGdtEntry(Sources[k])] =
        [k \in 1 .. Len(gdt) |-> Encoded[k]]
  BY <1>2
<1>4. [v \in 1 .. Len(idt) |-> idt_set_descriptor(isr_stub_table(v - 1), 142)] =
        [v \in 1 .. Len(idt) |-> Gates[v]]
  BY <1>2
<1> QED BY <1>1, <1>3, <1>4 DEF TableInv, Tables, Filled

LEMMA TableInitial == Init => TableInv
BY SMT DEF Init, TableInv, Sources

LEMMA TablesStep == Tables /\ [Next]_vars => Tables'
<1> SUFFICES ASSUME Tables, [Next]_vars PROVE Tables'
  OBVIOUS
<1> USE DEF Tables
<1>1. CASE EncodeNext
  <2>1. /\ phase' = "gdt" /\ n = Len(gdt) /\ Len(gdt) < 3 /\ n' = n + 1
        /\ idt' = << >> /\ idt' = idt
        /\ gdt' = Append(gdt, Encoded[Len(gdt) + 1])
    <3>1. Len(Sources) = 3
      BY SMT DEF Sources
    <3> QED BY <1>1, <3>1 DEF EncodeNext, In, Encoded
  <2>2. Filled(gdt', Encoded, Len(gdt) + 1) /\ Len(gdt') = Len(gdt) + 1
    BY <2>1, AppendNext
  <2> QED BY <2>1, <2>2
<1>2. CASE SetGdt
  BY <1>2 DEF SetGdt, In
<1>3. CASE SetIdtNext
  <2>1. /\ phase' = "idt" /\ n = Len(idt) /\ Len(idt) < 48 /\ n' = n + 1
        /\ gdt' = gdt /\ idt' = Append(idt, Gates[Len(idt) + 1])
    BY <1>3 DEF SetIdtNext, In, Gates
  <2>2. Filled(idt', Gates, Len(idt) + 1) /\ Len(idt') = Len(idt) + 1
    BY <2>1, AppendNext
  <2> QED BY <2>1, <2>2
<1>4. ASSUME gdt' = gdt, idt' = idt,
             phase' \notin {"gdt", "idt"} \/ (phase' = phase /\ n' = n)
      PROVE  Tables'
  BY <1>4
<1>5. CASE SetIdt \/ Walk \/ Total \/ Welcome \/ RangeFrom \/ RangeTo
  BY <1>4, <1>5 DEF SetIdt, Walk, Total, Welcome, RangeFrom, RangeTo, In
<1>6. CASE RangeNext \/ RangesDone \/ Announce \/ Write \/ Written \/ PutInt
  BY <1>4, <1>6 DEF RangeNext, RangesDone, Announce, Write, Written, PutInt, In
<1>7. CASE Put \/ Convert \/ Stopped \/ UNCHANGED vars
  BY <1>4, <1>7 DEF Put, Convert, Stopped, In, vars
<1> QED BY <1>1, <1>2, <1>3, <1>5, <1>6, <1>7 DEF Next

LEMMA TableInvariance == Spec => []TableInv
<1>1. Init => Tables
  BY TableInitial, TablesAre
<1> QED BY <1>1, TablesAre, TablesStep, PTL DEF Spec

(* The processor reads the segments that kmain describes, and reaches the  *)
(* handler of each vector, however far the tables are filled (TableInv).   *)
THEOREM TablesRead == Spec => []TablesFaithful
<1>1. TableInv => TablesFaithful
  <2> SUFFICES ASSUME TableInv PROVE TablesFaithful
    OBVIOUS
  <2>1. \A k \in 1 .. 3 : Sources[k] \in Descriptors32
    BY SMT DEF Sources, Descriptors32, Word32, Limits
  <2>2. \A k \in 1 .. Len(gdt) : k \in 1 .. 3 /\ gdt[k] = encodeGdtEntry(Sources[k])
    BY SMT DEF TableInv, Sources
  <2>3. \A k \in 1 .. Len(gdt) : Descriptor(gdt[k]) = Sources[k]
    BY <2>1, <2>2, DescriptorReadsBack
  <2>4. ASSUME NEW v \in 1 .. Len(idt) PROVE Target(idt[v]) = isr_stub_table(v - 1)
    <3>1. idt[v] = idt_set_descriptor(isr_stub_table(v - 1), 142)
      BY DEF TableInv
    <3>2. isr_stub_table(v - 1) \in Nat
      BY SMT DEF TableInv, isr_stub_table
    <3> QED BY <3>1, <3>2, GateReaches
  <2> QED BY <2>3, <2>4 DEF TablesFaithful
<1> QED BY <1>1, TableInvariance, PTL

-----------------------------------------------------------------------------
(* Numbers *)

LEMMA SignedType ==
  ASSUME NEW v \in Int
  PROVE  Unsigned(v) \in Nat /\ Unsigned(v) < WORD /\ Signed(v) \in Int
<1>1. WORD \in Nat \ {0}
  BY ItoaAssumption DEF Half
<1>2. v % WORD \in Nat /\ v % WORD < WORD
  BY <1>1
<1> QED BY <1>1, <1>2 DEF Signed, Unsigned

(* One of Starts is chosen, for good. *)
LEMMA StartKept == [Next]_vars => start' = start
<1> SUFFICES ASSUME [Next]_vars PROVE start' = start
  OBVIOUS
<1>1. CASE EncodeNext \/ SetGdt \/ SetIdtNext \/ SetIdt \/ Walk \/ Total \/ Welcome
  BY <1>1 DEF EncodeNext, SetGdt, SetIdtNext, SetIdt, Walk, Total, Welcome
<1>2. CASE RangeFrom \/ RangeTo \/ RangeNext \/ RangesDone \/ Announce \/ Write
  BY <1>2 DEF RangeFrom, RangeTo, RangeNext, RangesDone, Announce, Write
<1>3. CASE Written \/ PutInt \/ Put \/ Convert \/ Stopped \/ UNCHANGED vars
  BY <1>3 DEF Written, PutInt, Put, Convert, Stopped, vars
<1> QED BY <1>1, <1>2, <1>3 DEF Next

LEMMA StartInvariance == Spec => [](start \in Starts)
<1>1. Init => start \in Starts
  BY DEF Init
<1>2. start \in Starts /\ [Next]_vars => (start \in Starts)'
  BY StartKept
<1> QED BY <1>1, <1>2, PTL DEF Spec

(* NumberInv of a number: what itoa is to make of it is m and negative. *)
Number(m, negative) ==
  /\ text = << >>
  /\ \/ phase = "number" /\ shown = << >> /\ converting = "no"
     \/ phase = "put" /\ shown = << >> /\ ItoaInv(m, negative, 10)
     \/ /\ phase = "done" /\ shown = <<str>> /\ converting = "no"
        /\ Read(str, 10) = Signed(start.number)

LEMMA NumberOf ==
  ASSUME start \in Starts, program = "putint"
  PROVE  /\ Signed(start.number) \in Int
         /\ Taken(start.number, 10) = Amount(Signed(start.number))
         /\ Negative(start.number, 10) <=> Signed(start.number) < 0
         /\ NumberInv <=> Number(Taken(start.number, 10), Negative(start.number, 10))
<1>1. start.number \in Int
  BY MemoryMapAssumption
<1>2. Signed(start.number) \in Int
  BY <1>1, SignedType
<1>3. /\ Taken(start.number, 10) = Amount(Signed(start.number))
      /\ Negative(start.number, 10) <=> Signed(start.number) < 0
  BY DEF Taken, Negative
<1>4. NumberInv <=> Number(Taken(start.number, 10), Negative(start.number, 10))
  BY DEF NumberInv, Number, Converting
<1> QED BY <1>2, <1>3, <1>4

LEMMA NumberStep == start \in Starts /\ NumberInv /\ [Next]_vars => NumberInv'
<1> SUFFICES ASSUME start \in Starts, NumberInv, [Next]_vars PROVE NumberInv'
  OBVIOUS
<1>1. start' = start
  BY StartKept
<1>2. CASE program # "putint"
  BY <1>1, <1>2 DEF NumberInv, program
<1>3. CASE program = "putint"
  <2>1. PICK m \in Nat, negative \in BOOLEAN :
          /\ m = Taken(start.number, 10) /\ negative = Negative(start.number, 10)
          /\ m = Amount(Signed(start.number))
          /\ (negative <=> Signed(start.number) < 0)
          /\ Signed(start.number) \in Int
          /\ Number(m, negative)
    <3>1. Taken(start.number, 10) \in Nat /\ Negative(start.number, 10) \in BOOLEAN
      BY <1>3, NumberOf, AmountFacts DEF Negative
    <3> QED BY <1>3, <3>1, NumberOf, Zenon
  <2>2. Number(m, negative)' => NumberInv'
    BY <1>1, <1>3, <2>1 DEF NumberInv, Number, Converting, Taken, Negative, program
  <2> USE DEF Number
  <2>3. CASE PutInt
    <3>1. /\ Begins(Signed(start.number), 10, negative)
          /\ phase' = "put" /\ shown' = << >> /\ text' = << >>
      BY <2>1, <2>3 DEF PutInt, In, MicrosItoa, terminal
    <3>2. ItoaInv(m, negative, 10)'
      BY <2>1, <3>1, BeginsInv
    <3> QED BY <2>2, <3>1, <3>2
  <2>4. CASE Convert
    <3>1. /\ Itoa /\ converting # "no" /\ phase' = phase /\ shown' = shown /\ text' = text
      BY <2>4 DEF Convert, Itoa, ItoaDigit, ItoaSwap, ItoaReturn, terminal
    <3>2. ItoaInv(m, negative, 10)'
      BY <2>1, <3>1, ItoaKeeps
    <3> QED BY <2>1, <2>2, <3>1, <3>2
  <2>5. CASE Put
    <3>1. /\ phase' = "done" /\ shown' = <<str>> /\ str' = str
          /\ converting = "no" /\ converting' = "no" /\ text' = << >>
          /\ ItoaInv(m, negative, 10)
      BY <2>1, <2>5 DEF Put, In, itoa, terminal
    <3>2. Read(str, 10) = IF negative THEN -m ELSE m
      BY <2>1, <3>1, ConvertedReads
    <3>3. Read(str, 10) = Signed(start.number)
      BY <2>1, <3>2 DEF Amount
    <3>4. Read(str', 10) = Signed(start'.number)
      BY <1>1, <3>1, <3>3
    <3> QED BY <2>2, <3>1, <3>4
  <2>6. CASE Stopped \/ UNCHANGED vars
    <3>1. /\ phase' = phase /\ shown' = shown /\ text' = text /\ itoa' = itoa
      BY <2>6 DEF Stopped, vars, terminal
    <3>2. Number(m, negative)'
      BY <1>1, <2>1, <3>1 DEF ItoaInv, itoa
    <3> QED BY <2>2, <3>2
  <2>7. CASE EncodeNext \/ SetGdt \/ SetIdtNext \/ SetIdt \/ Walk \/ Total \/ Welcome
    BY <2>1, <2>7 DEF EncodeNext, SetGdt, SetIdtNext, SetIdt, Walk, Total, Welcome, In
  <2>8. CASE RangeFrom \/ RangeTo \/ RangeNext \/ RangesDone
    BY <2>1, <2>8 DEF RangeFrom, RangeTo, RangeNext, RangesDone, In
  <2>9. CASE Announce \/ Write \/ Written
    BY <2>1, <2>9 DEF Announce, Write, WriteNext, Written, In
  <2> QED BY <2>3, <2>4, <2>5, <2>6, <2>7, <2>8, <2>9 DEF Next
<1> QED BY <1>2, <1>3

LEMMA NumberInvariance == Spec => []NumberInv
<1>1. Init => NumberInv
  BY DEF Init, NumberInv, ItoaInit, TerminalInit, program
<1> QED BY <1>1, StartInvariance, NumberStep, PTL DEF Spec

(* putint prints what it is given, the most negative number included: read *)
(* back, the string of MICROS's itoa is the number, for words of any width.*)
THEOREM PutIntReads == Spec => []PutIntReadsBack
<1>1. NumberInv => PutIntReadsBack
  BY DEF NumberInv, PutIntReadsBack
<1> QED BY <1>1, NumberInvariance, PTL

-----------------------------------------------------------------------------
(* Words *)

(* What differs by a multiple of WORD is the same word. *)
LEMMA WordsAgree ==
  ASSUME NEW a \in Int, NEW k \in Int
  PROVE  Unsigned(a + k * WORD) = Unsigned(a) /\ Signed(a + k * WORD) = Signed(a)
<1>1. WORD \in Nat \ {0}
  BY ItoaAssumption DEF Half
<1>2. (a + k * WORD) % WORD = a % WORD
  BY <1>1, ModuloMultiple
<1> QED BY <1>2 DEF Unsigned, Signed

LEMMA WordOf ==
  ASSUME NEW a \in Int
  PROVE  /\ \E k \in Int : Unsigned(a) = a + k * WORD
         /\ \E k \in Int : Signed(a) = a + k * WORD
<1>1. WORD \in Nat \ {0}
  BY ItoaAssumption DEF Half
<1> DEFINE q == a \div WORD
<1>2. q \in Int /\ a = q * WORD + (a % WORD)
  BY <1>1
<1> HIDE DEF q
<1>3. a % WORD = a + (-q) * WORD /\ (a % WORD) - WORD = a + (-q - 1) * WORD
  BY <1>1, <1>2
<1>4. -q \in Int /\ -q - 1 \in Int
  BY <1>2
<1> QED BY <1>3, <1>4 DEF Unsigned, Signed

(* The kernels' sums are right modulo WORD. *)
LEMMA SumOfWords ==
  ASSUME NEW a \in Int, NEW b \in Int
  PROVE  /\ Unsigned(Unsigned(a) + Unsigned(b)) = Unsigned(a + b)
         /\ Signed(Signed(a) + Unsigned(b)) = Signed(a + b)
         /\ Unsigned(Unsigned(a) + Unsigned(b) - 1) = Unsigned(Unsigned(a) + b - 1)
<1>0. WORD \in Nat
  BY ItoaAssumption
<1>1. PICK j \in Int : Unsigned(a) = a + j * WORD
  BY WordOf
<1>2. PICK k \in Int : Unsigned(b) = b + k * WORD
  BY WordOf
<1>3. PICK l \in Int : Signed(a) = a + l * WORD
  BY WordOf
<1>4. Unsigned(a) + Unsigned(b) = (a + b) + (j + k) * WORD
  BY <1>0, <1>1, <1>2
<1>5. Signed(a) + Unsigned(b) = (a + b) + (l + k) * WORD
  BY <1>0, <1>2, <1>3
<1>6. Unsigned(a) + Unsigned(b) - 1 = (Unsigned(a) + b - 1) + k * WORD
      /\ Unsigned(a) + b - 1 \in Int
  BY <1>0, <1>1, <1>2
<1>7. a + b \in Int /\ j + k \in Int /\ l + k \in Int
  OBVIOUS
<1> QED BY <1>4, <1>5, <1>6, <1>7, WordsAgree

LEMMA SmallWords ==
  ASSUME NEW a \in Nat, a < WORD
  PROVE  /\ Unsigned(a) = a
         /\ a < Half => Signed(a) = a
         /\ a >= Half => Signed(a) = a - WORD
<1>1. WORD \in Nat \ {0}
  BY ItoaAssumption DEF Half
<1>2. a % WORD = a /\ Half \in Int
  BY <1>1 DEF Half
<1> QED BY <1>1, <1>2 DEF Unsigned, Signed

-----------------------------------------------------------------------------
(* Sums and places *)

LEMMA SumsFacts ==
  ASSUME NEW w, Len(w) \in Nat, \A k \in 1 .. Len(w) : w[k] \in Nat
  PROVE  /\ Sums(w)[0] = 0
         /\ \A k \in 1 .. Len(w) : Sums(w)[k] = Sums(w)[k - 1] + w[k]
         /\ \A k \in 0 .. Len(w) : Sums(w)[k] \in Nat
<1> DEFINE N == Len(w)
           F == [i \in 1 .. N |-> [x \in Nat |-> x + w[i]]]
           Is(h) == h = [k \in 0 .. N |-> IF k = 0 THEN 0 ELSE h[k - 1] + w[k]]
           S == Sums(w)
<1> HIDE DEF N
<1>1. N \in Nat /\ \A k \in 1 .. N : w[k] \in Nat
  BY DEF N
<1>2. \A i \in 1 .. N, x \in Nat : F[i][x] = x + w[i]
  OBVIOUS
<1> HIDE DEF F
<1>3. PICK h \in [0 .. N -> Nat] : Recurs(h, N, 0, F)
  <2>1. ASSUME NEW i \in 1 .. N, NEW x \in Nat PROVE F[i][x] \in Nat
    <3>1. F[i][x] = x + w[i] /\ w[i] \in Nat
      BY <1>1, <1>2
    <3> QED BY <3>1
  <2>2. 0 \in Nat /\ N \in Nat /\ Within(F, N, Nat)
    BY <1>1, <2>1 DEF Within
  <2> QED BY <2>2, RecursionInto, Zenon
<1>4. \A k \in 0 .. N : h[k] \in Nat
  OBVIOUS
<1>5. Is(h)
  <2>1. ASSUME NEW k \in 0 .. N, k # 0 PROVE h[k] = h[k - 1] + w[k]
    <3>1. k \in 1 .. N /\ k - 1 \in 0 .. N
      BY <1>1, <2>1
    <3>2. h[k] = F[k][h[k - 1]]
      BY <1>3, <3>1 DEF Recurs
    <3> QED BY <1>2, <1>4, <3>1, <3>2
  <2>2. h = [k \in 0 .. N |-> h[k]] /\ h[0] = 0
    BY <1>3 DEF Recurs
  <2> QED BY <2>1, <2>2
<1>6. Is(S)
  BY <1>5, Zenon DEF Sums, N
<1> HIDE DEF S
<1>7. ASSUME NEW k \in 0 .. N PROVE S[k] = h[k]
  <2> DEFINE T == {i \in Nat : i <= N => S[i] = h[i]}
  <2>1. 0 \in T
    BY <1>1, <1>5, <1>6
  <2>2. ASSUME NEW i \in Nat, i \in T PROVE i + 1 \in T
    <3>1. CASE i + 1 <= N
      <4>1. i + 1 \in 0 .. N /\ i + 1 # 0 /\ (i + 1) - 1 = i /\ S[i] = h[i]
        BY <1>1, <2>2, <3>1
      <4>2. S[i + 1] = S[i] + w[i + 1] /\ h[i + 1] = h[i] + w[i + 1]
        BY <1>5, <1>6, <4>1
      <4> QED BY <4>1, <4>2
    <3> QED BY <3>1
  <2> HIDE DEF T
  <2>3. Nat \subseteq T
    BY <2>1, <2>2, SetInduction
  <2> QED BY <1>1, <2>3 DEF T
<1>8. \A k \in 0 .. N : S[k] \in Nat
  BY <1>4, <1>7
<1>9. S[0] = 0 /\ \A k \in 1 .. N : S[k] = S[k - 1] + w[k]
  BY <1>1, <1>6
<1> QED BY <1>8, <1>9 DEF N, S

(* What MemoryMapAssumption says of a machine's entries. *)
Entries(es) ==
  /\ Len(es) \in Nat
  /\ \A k \in 1 .. Len(es) :
       /\ es[k].base \in Nat /\ es[k].length \in Nat
       /\ es[k].size \in Nat /\ es[k].size >= 20 /\ es[k].size % 4 = 0

LEMMA EntriesOf == ASSUME NEW s \in Starts PROVE Entries(s.entries)
BY MemoryMapAssumption DEF Entries

LEMMA UsableFacts ==
  ASSUME NEW es, Entries(es)
  PROVE  /\ UsableBytes(es)[0] = 0
         /\ \A k \in 1 .. Len(es) :
              UsableBytes(es)[k] = UsableBytes(es)[k - 1]
                                     + (IF es[k].type = 1 THEN es[k].length ELSE 0)
         /\ \A k \in 0 .. Len(es) : UsableBytes(es)[k] \in Nat
<1> DEFINE w == [k \in 1 .. Len(es) |-> IF es[k].type = 1 THEN es[k].length ELSE 0]
<1>1. Len(w) = Len(es) /\ Len(w) \in Nat
  BY DEF Entries
<1>2. \A k \in 1 .. Len(es) : /\ w[k] \in Nat
                              /\ w[k] = IF es[k].type = 1 THEN es[k].length ELSE 0
  BY DEF Entries
<1>3. UsableBytes(es) = Sums(w)
  BY DEF UsableBytes
<1> HIDE DEF w
<1> QED BY <1>1, <1>2, <1>3, SumsFacts

LEMMA PlaceFacts ==
  ASSUME NEW es, Entries(es)
  PROVE  /\ Place(es)[0] = 0
         /\ \A k \in 1 .. Len(es) : Place(es)[k] = Place(es)[k - 1] + (es[k].size + 4)
         /\ \A k \in 0 .. Len(es) : Place(es)[k] \in Nat
<1> DEFINE w == [k \in 1 .. Len(es) |-> es[k].size + 4]
<1>1. Len(w) = Len(es) /\ Len(w) \in Nat
  BY DEF Entries
<1>2. \A k \in 1 .. Len(es) : w[k] \in Nat /\ w[k] = es[k].size + 4
  BY DEF Entries
<1>3. Place(es) = Sums(w)
  BY DEF Place
<1> HIDE DEF w
<1> QED BY <1>1, <1>2, <1>3, SumsFacts

(* What SequenceTheorems has of \o, for one call. *)
Joins(c, a, b, V) ==
  /\ c \in Seq(V) /\ Len(c) = Len(a) + Len(b)
  /\ \A j \in 1 .. Len(a) : c[j] = a[j]
  /\ \A j \in 1 .. Len(b) : c[Len(a) + j] = b[j]

LEMMA Joined ==
  ASSUME NEW V, NEW a \in Seq(V), NEW b \in Seq(V)
  PROVE  Joins(a \o b, a, b, V)
<1>1. a \o b \in Seq(V) /\ Len(a \o b) = Len(a) + Len(b)
  OBVIOUS
<1>2. Len(a) \in Nat /\ Len(b) \in Nat
  OBVIOUS
<1>3. ASSUME NEW j \in 1 .. Len(a) PROVE (a \o b)[j] = a[j]
  BY <1>2
<1>4. ASSUME NEW j \in 1 .. Len(b) PROVE (a \o b)[Len(a) + j] = b[j]
  BY <1>2
<1> QED BY <1>1, <1>3, <1>4 DEF Joins

LEMMA EntryWords ==
  ASSUME NEW e, NEW V, Int \subseteq V, e.type \in V,
         e.base \in Nat, e.length \in Nat,
         e.size \in Nat, e.size >= 20, e.size % 4 = 0
  PROVE  /\ memory_map(e) \in Seq(V)
         /\ 4 * Len(memory_map(e)) = e.size + 4 /\ Len(memory_map(e)) >= 6
         /\ memory_map(e)[1] = e.size
         /\ memory_map(e)[2] = Unsigned(e.base)
         /\ memory_map(e)[4] = Unsigned(e.length)
         /\ memory_map(e)[6] = e.type
<1> DEFINE a == <<e.size, Unsigned(e.base), e.base \div WORD,
                  Unsigned(e.length), e.length \div WORD, e.type>>
           l == (e.size - 20) \div 4
           b == [k \in 1 .. l |-> 0]
<1>1. WORD \in Nat \ {0}
  BY ItoaAssumption DEF Half
<1>2. Unsigned(e.base) \in Int /\ Unsigned(e.length) \in Int
  BY SignedType
<1>3. e.base \div WORD \in Int /\ e.length \div WORD \in Int
  BY <1>1
<1>4. a \in Seq(V) /\ Len(a) = 6
  BY <1>2, <1>3
<1>5. l \in Nat /\ 4 * (6 + l) = e.size + 4
  OBVIOUS
<1>6. b \in Seq(V) /\ Len(b) = l
  BY <1>5
<1>7. memory_map(e) = a \o b
  BY DEF memory_map
<1>8. a[1] = e.size /\ a[2] = Unsigned(e.base) /\ a[4] = Unsigned(e.length) /\ a[6] = e.type
  OBVIOUS
<1> HIDE DEF a, b, l
<1>9. Joins(a \o b, a, b, V)
  BY <1>4, <1>6, Joined
<1>10. /\ a \o b \in Seq(V) /\ Len(a \o b) = 6 + l
       /\ \A j \in 1 .. 6 : (a \o b)[j] = a[j]
  BY <1>4, <1>6, <1>9 DEF Joins
<1>11. Len(a \o b) >= 6 /\ 4 * Len(a \o b) = e.size + 4
  BY <1>5, <1>10
<1>12. /\ (a \o b)[1] = e.size /\ (a \o b)[2] = Unsigned(e.base)
       /\ (a \o b)[4] = Unsigned(e.length) /\ (a \o b)[6] = e.type
  <2>1. 1 \in 1 .. 6 /\ 2 \in 1 .. 6 /\ 4 \in 1 .. 6 /\ 6 \in 1 .. 6
    OBVIOUS
  <2> QED BY <1>8, <1>10, <2>1, Zenon
<1> QED BY <1>7, <1>10, <1>11, <1>12, Zenon

(* The first six words of x are at p + 1 in c. *)
At(c, p, x) == p \in Nat /\ p + 6 <= Len(c) /\ \A j \in 1 .. 6 : c[p + j] = x[j]

LEMMA JoinKeeps ==
  ASSUME NEW V, NEW a \in Seq(V), NEW b \in Seq(V), NEW c, Joins(c, a, b, V),
         NEW p, NEW x, At(a, p, x)
  PROVE  At(c, p, x)
<1>1. Len(a) \in Nat /\ Len(b) \in Nat
  OBVIOUS
<1>2. p \in Nat /\ p + 6 <= Len(a) /\ \A j \in 1 .. 6 : a[p + j] = x[j]
  BY DEF At
<1>3. Len(c) = Len(a) + Len(b) /\ \A j \in 1 .. Len(a) : c[j] = a[j]
  BY DEF Joins
<1>4. p + 6 <= Len(c) /\ \A j \in 1 .. 6 : p + j \in 1 .. Len(a)
  BY <1>1, <1>2, <1>3
<1> QED BY <1>2, <1>3, <1>4 DEF At

LEMMA JoinAdds ==
  ASSUME NEW V, NEW a \in Seq(V), NEW b \in Seq(V), NEW c, Joins(c, a, b, V),
         Len(b) >= 6
  PROVE  At(c, Len(a), b)
<1>1. Len(a) \in Nat /\ Len(b) \in Nat
  OBVIOUS
<1>2. Len(c) = Len(a) + Len(b) /\ \A j \in 1 .. Len(b) : c[Len(a) + j] = b[j]
  BY DEF Joins
<1> QED BY <1>1, <1>2 DEF At

(* Where the words of the entries are. *)
Laid(es) ==
  /\ 4 * Len(Words(es)) = Place(es)[Len(es)]
  /\ \A k \in 1 .. Len(es) :
       /\ Place(es)[k - 1] < Place(es)[Len(es)]
       /\ \A j \in 1 .. 6 :
            Words(es)[Place(es)[k - 1] \div 4 + j] = memory_map(es[k])[j]

LEMMA WordsFacts ==
  ASSUME NEW es, Entries(es)
  PROVE  Laid(es)
<1> DEFINE N == Len(es)
           V == Int \cup {es[k].type : k \in 1 .. N}
           s == [k \in 1 .. N |-> memory_map(es[k])]
           F == [i \in 1 .. N |-> [x \in Seq(V) |-> x \o s[i]]]
           P == Place(es)
<1>1. N \in Nat
  BY DEF Entries
<1>2. ASSUME NEW k \in 1 .. N
      PROVE  /\ s[k] = memory_map(es[k]) /\ s[k] \in Seq(V)
             /\ 4 * Len(s[k]) = es[k].size + 4 /\ Len(s[k]) >= 6
  <2>1. /\ Int \subseteq V /\ es[k].type \in V
        /\ es[k].base \in Nat /\ es[k].length \in Nat
        /\ es[k].size \in Nat /\ es[k].size >= 20 /\ es[k].size % 4 = 0
    BY DEF Entries
  <2> HIDE DEF V
  <2> QED BY <2>1, EntryWords
<1>3. Len(s) = N /\ s = [k \in 1 .. N |-> s[k]]
  BY <1>1
<1>4. \A i \in 1 .. N : \A x \in Seq(V) : F[i][x] = x \o s[i]
  OBVIOUS
<1>5. P[0] = 0 /\ \A k \in 1 .. N : P[k] = P[k - 1] + (es[k].size + 4)
  BY PlaceFacts
<1>6. Words(es) = FlattenSeq(s)
  BY DEF Words
<1> HIDE DEF N, V, s, F, P
<1>7. PICK h \in [0 .. N -> Seq(V)] : Recurs(h, N, << >>, F)
  <2>1. Within(F, N, Seq(V))
    <3>1. ASSUME NEW i \in 1 .. N, NEW x \in Seq(V) PROVE F[i][x] \in Seq(V)
      <4>1. F[i][x] = x \o s[i] /\ s[i] \in Seq(V)
        BY <1>2, <1>4
      <4> QED BY <4>1, Joined DEF Joins
    <3> QED BY <3>1 DEF Within
  <2>2. << >> \in Seq(V)
    OBVIOUS
  <2> QED BY <1>1, <2>1, <2>2, RecursionInto, Zenon
<1>8. h[0] = << >>
  BY <1>7 DEF Recurs
<1>9. ASSUME NEW k \in Nat, k + 1 <= N
      PROVE  /\ k \in 0 .. N /\ k + 1 \in 1 .. N /\ k + 1 \in 0 .. N
             /\ h[k] \in Seq(V) /\ s[k + 1] \in Seq(V)
             /\ h[k + 1] = h[k] \o s[k + 1] /\ Joins(h[k + 1], h[k], s[k + 1], V)
             /\ Len(s[k + 1]) >= 6 /\ 4 * Len(s[k + 1]) = es[k + 1].size + 4
             /\ P[k + 1] = P[k] + (es[k + 1].size + 4)
  <2>1. k \in 0 .. N /\ k + 1 \in 1 .. N /\ k + 1 \in 0 .. N /\ (k + 1) - 1 = k
    BY <1>1, <1>9
  <2>2. h[k] \in Seq(V)
    BY <2>1
  <2>3. h[k + 1] = F[k + 1][h[k]]
    BY <1>7, <2>1, Zenon DEF Recurs
  <2>4. F[k + 1][h[k]] = h[k] \o s[k + 1]
    BY <1>4, <2>1, <2>2, Zenon
  <2>5. /\ s[k + 1] \in Seq(V) /\ Len(s[k + 1]) >= 6
        /\ 4 * Len(s[k + 1]) = es[k + 1].size + 4
    BY <1>2, <2>1, Zenon
  <2>6. Joins(h[k] \o s[k + 1], h[k], s[k + 1], V)
    BY <2>2, <2>5, Joined, Zenon
  <2>7. P[k + 1] = P[k] + (es[k + 1].size + 4)
    BY <1>5, <2>1, Zenon
  <2> QED BY <2>1, <2>2, <2>3, <2>4, <2>5, <2>6, <2>7, Zenon
<1>10. Words(es) = h[N]
  <2>1. CASE N = 0
    BY <1>3, <1>6, <1>8, <2>1 DEF FlattenSeq
  <2>2. CASE N # 0
    <3> DEFINE Is(g) == g = [i \in 1 .. N |-> IF i = 1 THEN s[i] ELSE g[i - 1] \o s[i]]
               f == CHOOSE g : Is(g)
               g0 == [i \in 1 .. N |-> h[i]]
    <3>1. h[1] = s[1]
      <4>1. 0 \in Nat /\ 0 + 1 <= N /\ 0 + 1 = 1
        BY <1>1, <2>2
      <4>2. h[1] = << >> \o s[1] /\ s[1] \in Seq(V)
        BY <1>8, <1>9, <4>1, Zenon
      <4> QED BY <4>2
    <3>2. ASSUME NEW i \in 1 .. N PROVE g0[i] = IF i = 1 THEN s[i] ELSE g0[i - 1] \o s[i]
      <4>1. g0[i] = h[i] /\ (i # 1 => g0[i - 1] = h[i - 1])
        BY <1>1
      <4>2. i - 1 \in Nat /\ (i - 1) + 1 <= N /\ (i - 1) + 1 = i
        BY <1>1
      <4>3. h[i] = h[i - 1] \o s[i]
        BY <1>9, <4>2, Zenon
      <4> HIDE DEF g0
      <4> QED BY <3>1, <4>1, <4>3, Zenon
    <3>3. Is(g0)
      <4>1. g0 = [i \in 1 .. N |-> g0[i]]
        OBVIOUS
      <4> HIDE DEF g0
      <4> QED BY <3>2, <4>1
    <3> HIDE DEF g0
    <3>4. Is(f)
      BY <3>3
    <3>5. Words(es) = f[N]
      BY <1>3, <1>6, <2>2, Zenon DEF FlattenSeq
    <3> HIDE DEF f
    <3> DEFINE T == {i \in Nat : i + 1 <= N => f[i + 1] = h[i + 1]}
    <3>6. 0 \in T
      BY <1>1, <2>2, <3>1, <3>4
    <3>7. ASSUME NEW i \in Nat, i \in T PROVE i + 1 \in T
      <4>1. CASE (i + 1) + 1 <= N
        <5>1. /\ (i + 1) + 1 \in 1 .. N /\ (i + 1) + 1 # 1 /\ ((i + 1) + 1) - 1 = i + 1
              /\ i + 1 \in Nat /\ i + 1 <= N
          BY <1>1, <4>1
        <5>2. f[(i + 1) + 1] = f[i + 1] \o s[(i + 1) + 1]
          BY <3>4, <5>1
        <5>3. h[(i + 1) + 1] = h[i + 1] \o s[(i + 1) + 1]
          BY <1>9, <4>1, <5>1, Zenon
        <5>4. f[i + 1] = h[i + 1]
          BY <3>7, <5>1
        <5>5. f[(i + 1) + 1] = h[(i + 1) + 1]
          BY <5>2, <5>3, <5>4, Zenon
        <5> QED BY <5>1, <5>5
      <4>2. CASE ~((i + 1) + 1 <= N)
        BY <4>2
      <4> QED BY <4>1, <4>2
    <3> HIDE DEF T
    <3>8. Nat \subseteq T
      BY <3>6, <3>7, SetInduction
    <3>9. f[N] = h[N]
      <4>1. N - 1 \in Nat /\ (N - 1) + 1 = N /\ (N - 1) + 1 <= N
        BY <1>1, <2>2
      <4>2. f[(N - 1) + 1] = h[(N - 1) + 1]
        BY <3>8, <4>1 DEF T
      <4> QED BY <4>1, <4>2, Zenon
    <3> QED BY <3>5, <3>9
  <2> QED BY <2>1, <2>2
<1> DEFINE Good(i) == /\ 4 * Len(h[i]) = P[i] /\ Len(h[i]) \in Nat
                      /\ \A k \in Nat : k < i => At(h[i], Len(h[k]), s[k + 1])
           T == {i \in Nat : i <= N => Good(i)}
<1>11. Good(0)
  BY <1>5, <1>8
<1>12. ASSUME NEW i \in Nat, i + 1 <= N, Good(i) PROVE Good(i + 1)
  <2>1. 4 * Len(h[i + 1]) = P[i + 1] /\ Len(h[i + 1]) \in Nat
    <3>1. /\ P[i + 1] = P[i] + (es[i + 1].size + 4) /\ 4 * Len(h[i]) = P[i]
          /\ 4 * Len(s[i + 1]) = es[i + 1].size + 4
          /\ Len(h[i + 1]) = Len(h[i]) + Len(s[i + 1])
      BY <1>9, <1>12, Zenon DEF Joins
    <3>2. s[i + 1] \in Seq(V) /\ h[i] \in Seq(V)
      BY <1>9, <1>12, Zenon
    <3>3. Len(s[i + 1]) \in Nat /\ Len(h[i]) \in Nat
      BY <3>2
    <3>4. es[i + 1].size \in Nat /\ i + 1 \in 1 .. N
      BY <1>1, <1>12 DEF Entries, N
    <3> DEFINE a == Len(h[i])
               b == Len(s[i + 1])
               c == Len(h[i + 1])
               z == es[i + 1].size
               p == P[i]
               q == P[i + 1]
    <3>5. /\ a \in Nat /\ b \in Nat /\ z \in Nat
          /\ q = p + (z + 4) /\ 4 * a = p /\ 4 * b = z + 4 /\ c = a + b
      BY <3>1, <3>3, <3>4, Zenon
    <3> HIDE DEF a, b, c, z, p, q
    <3>6. 4 * c = q /\ c \in Nat
      BY <3>5
    <3> QED BY <3>6 DEF c, q
  <2>2. ASSUME NEW k \in Nat, k < i + 1 PROVE At(h[i + 1], Len(h[k]), s[k + 1])
    <3>1. CASE k = i
      <4>1. At(h[i + 1], Len(h[i]), s[i + 1])
        BY <1>9, <1>12, JoinAdds, Zenon
      <4> QED BY <3>1, <4>1
    <3>2. CASE k < i
      <4>1. At(h[i], Len(h[k]), s[k + 1])
        BY <1>12, <3>2, Zenon
      <4>2. /\ h[i] \in Seq(V) /\ s[i + 1] \in Seq(V)
            /\ Joins(h[i + 1], h[i], s[i + 1], V)
        BY <1>9, <1>12, Zenon
      <4> QED BY <4>1, <4>2, JoinKeeps
    <3> QED BY <2>2, <3>1, <3>2
  <2> QED BY <2>1, <2>2
<1> HIDE DEF Good
<1>13. ASSUME NEW i \in Nat, i \in T PROVE i + 1 \in T
  BY <1>1, <1>12, <1>13
<1>14. \A i \in Nat : i <= N => Good(i)
  <2>1. 0 \in T
    BY <1>11
  <2> HIDE DEF T
  <2>2. Nat \subseteq T
    BY <1>13, <2>1, SetInduction
  <2> QED BY <2>2 DEF T
<1>15. Good(N)
  BY <1>1, <1>14
<1>16. ASSUME NEW k \in 1 .. N
       PROVE  /\ P[k - 1] < P[N]
              /\ \A j \in 1 .. 6 : h[N][P[k - 1] \div 4 + j] = memory_map(es[k])[j]
  <2>1. k - 1 \in Nat /\ k - 1 <= N /\ k - 1 < N /\ (k - 1) + 1 = k
    BY <1>1
  <2>2. At(h[N], Len(h[k - 1]), s[k])
    <3>1. At(h[N], Len(h[k - 1]), s[(k - 1) + 1])
      BY <1>15, <2>1, Zenon DEF Good
    <3> QED BY <2>1, <3>1, Zenon
  <2>3. 4 * Len(h[k - 1]) = P[k - 1] /\ Len(h[k - 1]) \in Nat
    BY <1>14, <2>1, Zenon DEF Good
  <2>4. 4 * Len(h[N]) = P[N] /\ Len(h[N]) \in Nat /\ s[k] = memory_map(es[k])
    BY <1>2, <1>15, Zenon DEF Good
  <2>5. /\ Len(h[k - 1]) + 6 <= Len(h[N])
        /\ \A j \in 1 .. 6 : h[N][Len(h[k - 1]) + j] = s[k][j]
    BY <2>2 DEF At
  <2>6. P[k - 1] < P[N] /\ P[k - 1] \div 4 = Len(h[k - 1])
    <3>1. PICK a, b : a = Len(h[k - 1]) /\ b = Len(h[N])
      OBVIOUS
    <3>2. PICK p, q : p = P[k - 1] /\ q = P[N]
      OBVIOUS
    <3>3. a \in Nat /\ b \in Nat /\ 4 * a = p /\ 4 * b = q /\ a + 6 <= b
      BY <2>3, <2>4, <2>5, <3>1, <3>2, Zenon
    <3>4. p < q /\ p \div 4 = a
      BY <3>3
    <3> QED BY <3>1, <3>2, <3>4, Zenon
  <2> QED BY <2>4, <2>5, <2>6, Zenon
<1>17. 4 * Len(Words(es)) = P[N]
  BY <1>10, <1>15 DEF Good
<1> QED BY <1>10, <1>16, <1>17, Zenon DEF Laid, N, P

-----------------------------------------------------------------------------
(* How many digits *)

LEMMA QuotientBelow ==
  ASSUME NEW x \in Nat, NEW y \in Nat, NEW b \in Nat \ {0}, x < y * b
  PROVE  x \div b < y
<1> DEFINE q == x \div b
<1>1. q \in Nat /\ q * b <= x
  OBVIOUS
<1> HIDE DEF q
<1>2. ASSUME q >= y PROVE FALSE
  <2>1. PICK d \in Nat : q = y + d
    BY <1>1, <1>2
  <2>2. q * b = y * b + d * b /\ d * b >= 0
    BY <2>1
  <2> QED BY <1>1, <2>2
<1> QED BY <1>1, <1>2 DEF q

LEMMA PowerFacts ==
  ASSUME NEW b \in Nat, NEW N \in Nat
  PROVE  \E f \in [0 .. N -> Nat] :
           /\ f[0] = 1 /\ f[N] = Power(b, N)
           /\ \A k \in Nat : k + 1 <= N => f[k + 1] = f[k] * b
<1> DEFINE F == [i \in 1 .. N |-> [x \in Nat |-> x * b]]
           Is(h) == h = [i \in 0 .. N |-> IF i = 0 THEN 1 ELSE h[i - 1] * b]
           f == CHOOSE h : Is(h)
<1>1. \A i \in 1 .. N : \A x \in Nat : F[i][x] = x * b /\ x * b \in Nat
  OBVIOUS
<1> HIDE DEF F
<1>2. Within(F, N, Nat) /\ 1 \in Nat
  BY <1>1 DEF Within
<1>3. PICK h \in [0 .. N -> Nat] : Recurs(h, N, 1, F)
  BY <1>2, RecursionInto, Zenon
<1>4. Is(h)
  <2>1. ASSUME NEW i \in 0 .. N, i # 0 PROVE h[i] = h[i - 1] * b
    <3>1. i \in 1 .. N /\ i - 1 \in 0 .. N
      BY <2>1
    <3>2. h[i] = F[i][h[i - 1]] /\ h[i - 1] \in Nat
      BY <1>3, <3>1 DEF Recurs
    <3> QED BY <1>1, <3>1, <3>2
  <2>2. h = [i \in 0 .. N |-> h[i]] /\ h[0] = 1
    BY <1>3 DEF Recurs
  <2> QED BY <2>1, <2>2
<1>5. Is(f)
  BY <1>4
<1>6. Power(b, N) = f[N]
  BY Zenon DEF Power
<1> HIDE DEF f
<1>7. f[0] = 1 /\ \A k \in Nat : k + 1 <= N => f[k + 1] = f[k] * b
  BY <1>5
<1>8. \A k \in 0 .. N : f[k] \in Nat
  <2> DEFINE T == {k \in Nat : k <= N => f[k] \in Nat}
  <2>1. 0 \in T
    BY <1>7
  <2>2. ASSUME NEW k \in Nat, k \in T PROVE k + 1 \in T
    BY <1>7, <2>2
  <2> HIDE DEF T
  <2>3. Nat \subseteq T
    BY <2>1, <2>2, SetInduction
  <2> QED BY <2>3 DEF T
<1>9. f \in [0 .. N -> Nat]
  <2>1. f = [k \in 0 .. N |-> f[k]]
    BY <1>5
  <2> QED BY <1>8, <2>1
<1> QED BY <1>6, <1>7, <1>9

(* What is below the N-th power of b has no more than N digits. *)
LEMMA DigitsEnough ==
  ASSUME NEW m \in Nat, NEW b \in Nat \ {0}, NEW N \in Nat, m < Power(b, N)
  PROVE  Rest(m, b)[N] = 0
<1>1. PICK f \in [0 .. N -> Nat] :
        /\ f[0] = 1 /\ f[N] = Power(b, N)
        /\ \A k \in Nat : k + 1 <= N => f[k + 1] = f[k] * b
  BY PowerFacts
<1> DEFINE R == Rest(m, b)
           T == {k \in Nat : k <= N => R[k] < f[N - k]}
<1>2. R[0] = m /\ \A k \in Nat : R[k] \in Nat /\ R[k + 1] = R[k] \div b
  BY RestFacts
<1> HIDE DEF R
<1>3. 0 \in T
  <2>1. N - 0 = N
    OBVIOUS
  <2>2. R[0] < f[N - 0]
    BY <1>1, <1>2, <2>1, Zenon
  <2> QED BY <2>2
<1>4. ASSUME NEW k \in Nat, k \in T PROVE k + 1 \in T
  <2> SUFFICES ASSUME k + 1 <= N PROVE R[k + 1] < f[N - (k + 1)]
    OBVIOUS
  <2> DEFINE j == N - (k + 1)
  <2>1. j \in Nat /\ j + 1 = N - k /\ j + 1 <= N /\ j \in 0 .. N
    OBVIOUS
  <2> HIDE DEF j
  <2>2. f[j + 1] = f[j] * b /\ f[j] \in Nat
    BY <1>1, <2>1
  <2>3. R[k] < f[j] * b /\ R[k] \in Nat
    <3>1. R[k] < f[N - k]
      BY <1>4
    <3>2. f[N - k] = f[j] * b
      BY <2>1, <2>2, Zenon
    <3> QED BY <1>2, <3>1, <3>2, Zenon
  <2>4. R[k] \div b < f[j]
    BY <2>2, <2>3, QuotientBelow
  <2> QED BY <1>2, <2>4 DEF j
<1> HIDE DEF T
<1>5. N \in T
  BY <1>3, <1>4, SetInduction
<1>6. R[N] < f[N - N]
  BY <1>5 DEF T
<1>7. N - N = 0 /\ R[N] \in Nat
  BY <1>2
<1> QED BY <1>1, <1>6, <1>7 DEF R

LEMMA LengthBound ==
  ASSUME NEW m \in Nat, NEW b \in Nat \ {0}, NEW negative \in BOOLEAN,
         ItoaInv(m, negative, b), converting = "no",
         NEW N \in Nat \ {0}, m < Power(b, N)
  PROVE  Len(str) <= Signs(negative) + N
<1> DEFINE l == Len(str) - Signs(negative)
<1>1. l > 0 /\ (l = 1 \/ Rest(m, b)[l - 1] # 0) /\ str \in Seq(Int)
  BY DEF ItoaInv
<1>2. Len(str) \in Nat /\ Signs(negative) \in Nat /\ Len(str) = Signs(negative) + l /\ l \in Nat
  BY <1>1 DEF Signs
<1> HIDE DEF l
<1>3. ASSUME l > N PROVE FALSE
  <2>1. N <= l - 1 /\ l - 1 \in Nat /\ l # 1
    BY <1>2, <1>3
  <2>2. Rest(m, b)[l - 1] = 0
    BY <2>1, DigitsEnough, RestEnds
  <2> QED BY <1>1, <2>1, <2>2
<1> QED BY <1>2, <1>3

-----------------------------------------------------------------------------
(* What is converted, and what is shown of it *)

LEMMA SignedFacts ==
  ASSUME NEW x \in Int
  PROVE  /\ Amount(Signed(x)) \in Nat /\ Amount(Signed(x)) <= Half
         /\ Signed(x) < 0 => Unsigned(-x) = Amount(Signed(x))
         /\ Signed(x) >= 0 => Unsigned(x) = Signed(x)
         /\ Half \in Nat /\ Half < WORD /\ WORD \in Nat \ {0}
<1>1. WORD \in Nat \ {0} /\ Half \in Nat /\ WORD = 2 * Half /\ Half > 0
  BY ItoaAssumption DEF Half
<1>2. Unsigned(x) \in Nat /\ Unsigned(x) < WORD
  BY SignedType
<1>3. Signed(x) = IF Unsigned(x) < Half THEN Unsigned(x) ELSE Unsigned(x) - WORD
  BY DEF Signed
<1>4. Signed(x) \in Int /\ Signed(x) < Half /\ Signed(x) >= -Half
      /\ (Signed(x) >= 0 => Unsigned(x) = Signed(x))
  BY <1>1, <1>2, <1>3
<1>5. ASSUME Signed(x) < 0 PROVE Unsigned(-x) = Amount(Signed(x))
  <2>1. PICK k \in Int : Signed(x) = x + k * WORD
    BY WordOf
  <2> DEFINE a == -Signed(x)
  <2>2. a \in Nat /\ a < WORD /\ a = Amount(Signed(x))
    BY <1>1, <1>4, <1>5 DEF Amount
  <2>3. -x = a + k * WORD
    BY <1>1, <2>1
  <2> HIDE DEF a
  <2>4. Unsigned(a + k * WORD) = Unsigned(a) /\ Unsigned(a) = a
    BY <2>2, WordsAgree, SmallWords
  <2> QED BY <2>2, <2>3, <2>4, Zenon
<1>6. Amount(Signed(x)) \in Nat /\ Amount(Signed(x)) <= Half
  BY <1>1, <1>4 DEF Amount
<1>7. Half < WORD
  BY <1>1
<1> QED BY <1>1, <1>4, <1>5, <1>6, <1>7

LEMMA TakenType ==
  ASSUME NEW x \in Int, NEW b
  PROVE  /\ Taken(x, b) \in Nat /\ Taken(x, b) < WORD
         /\ Negative(x, b) \in BOOLEAN /\ (Negative(x, b) => b = 10)
<1>1. Unsigned(x) \in Nat /\ Unsigned(x) < WORD
  BY SignedType
<1>2. Amount(Signed(x)) \in Nat /\ Amount(Signed(x)) < WORD
  BY SignedFacts
<1> QED BY <1>1, <1>2 DEF Taken, Negative

(* Converting, of fixed values. *)
LEMMA ConvertingIs ==
  ASSUME NEW x, NEW b, NEW m, NEW negative,
         m = Taken(x, b), negative = Negative(x, b)
  PROVE  /\ Converting(x, b) <=> ItoaInv(m, negative, b)
         /\ start' = start => (Converting(x, b)' <=> ItoaInv(m, negative, b)')
<1>1. Converting(x, b) <=> ItoaInv(m, negative, b)
  BY DEF Converting
<1>2. ASSUME start' = start
      PROVE  Converting(x, b)' <=> ItoaInv(m, negative, b)'
  <2>1. Taken(x, b)' = m /\ Negative(x, b)' = negative
    BY <1>2 DEF Taken, Negative, program
  <2> QED BY <2>1 DEF Converting
<1> QED BY <1>1, <1>2

LEMMA Itoa32Begins ==
  ASSUME NEW x \in Int, NEW b \in {10, 16}, Itoa32(x, b), start' = start
  PROVE  Converting(x, b)'
<1>1. PICK m \in Nat, negative \in BOOLEAN : m = Taken(x, b) /\ negative = Negative(x, b)
  BY TakenType
<1>2. PICK v \in Int : Begins(v, b, negative) /\ Amount(v) = m
  <2>1. CASE program = "memos"
    <3> DEFINE g == b = 10 /\ Signed(x) < 0
               v == Unsigned(IF g THEN -x ELSE x)
    <3>1. Begins(v, b, g)
      BY <2>1 DEF Itoa32, MemosItoa
    <3>2. negative = g /\ m = IF b # 10 THEN Unsigned(x) ELSE Amount(Signed(x))
      BY <1>1, <2>1 DEF Negative, Taken
    <3>3. v \in Nat
      BY SignedType
    <3>4. v = m
      <4>1. Signed(x) < 0 \/ Signed(x) >= 0
        BY SignedType
      <4>2. Signed(x) >= 0 => Amount(Signed(x)) = Signed(x)
        BY SignedType DEF Amount
      <4> QED BY <3>2, <4>1, <4>2, SignedFacts
    <3> HIDE DEF v
    <3>5. Amount(v) = v /\ v \in Int
      BY <3>3 DEF Amount
    <3> QED BY <3>1, <3>2, <3>4, <3>5
  <2>2. CASE program = "printMemoryMap"
    <3>1. Begins(Unsigned(x), b, FALSE)
      BY <2>2 DEF Itoa32, FifosItoa
    <3>2. negative = FALSE /\ m = Unsigned(x)
      BY <1>1, <2>2 DEF Negative, Taken
    <3>3. Amount(Unsigned(x)) = Unsigned(x) /\ Unsigned(x) \in Int
      BY SignedType DEF Amount
    <3> QED BY <3>1, <3>2, <3>3
  <2>3. CASE program # "memos" /\ program # "printMemoryMap"
    <3>1. Begins(Signed(x), b, Signed(x) < 0 /\ b = 10)
      BY <2>3 DEF Itoa32, MicrosItoa
    <3>2. negative = (Signed(x) < 0 /\ b = 10) /\ m = Amount(Signed(x))
      BY <1>1, <2>3 DEF Negative, Taken
    <3>3. Signed(x) \in Int
      BY SignedType
    <3> QED BY <3>1, <3>2, <3>3
  <2> QED BY <2>1, <2>2, <2>3
<1>3. ItoaInv(m, negative, b)'
  BY <1>2, BeginsInv
<1> QED BY <1>1, <1>3, ConvertingIs

LEMMA ConvertingKeeps ==
  ASSUME NEW x \in Int, NEW b \in {10, 16}, Converting(x, b),
         Itoa \/ itoa' = itoa, start' = start
  PROVE  Converting(x, b)'
<1>1. PICK m \in Nat, negative \in BOOLEAN : m = Taken(x, b) /\ negative = Negative(x, b)
  BY TakenType
<1>2. ItoaInv(m, negative, b)
  BY <1>1, ConvertingIs
<1>3. CASE Itoa
  BY <1>1, <1>2, <1>3, ItoaKeeps, ConvertingIs
<1>4. CASE itoa' = itoa
  <2>1. ItoaInv(m, negative, b)'
    BY <1>2, <1>4 DEF ItoaInv, itoa
  <2> QED BY <1>1, <2>1, ConvertingIs
<1> QED BY <1>3, <1>4

(* A range's end, with its zeros. *)
LEMMA HexShown ==
  ASSUME NEW x \in Nat, x < WORD, Converting(x, 16), converting = "no",
         program \in {"archive", "printMemoryMap"}
  PROVE  /\ Len(put_memory(str)) = HEXDIGITS
         /\ Read(put_memory(str), 16) = As(x)
<1> DEFINE m == Taken(x, 16)
           H == HEXDIGITS
           l == Len(str)
           s == put_memory(str)
<1>1. m \in Nat /\ m < WORD /\ Negative(x, 16) \in BOOLEAN
  BY TakenType
<1>2. PICK negative \in BOOLEAN : ~negative /\ ItoaInv(m, negative, 16)
  <2>1. ItoaInv(m, Negative(x, 16), 16) /\ Negative(x, 16) \in BOOLEAN
    BY <1>1 DEF Converting
  <2>2. ~Negative(x, 16)
    BY DEF Negative
  <2> QED BY <2>1, <2>2, Zenon
<1>3. m = As(x)
  BY SmallWords, SignedFacts DEF Taken, As, Amount
<1> HIDE DEF m
<1>4. H \in Nat \ {0} /\ m < Power(16, H)
  <2>1. H \in Nat /\ Power(16, H) = WORD
    BY MemoryMapAssumption
  <2>2. Power(16, 0) = 1
    <3>1. \E f \in [0 .. 0 -> Nat] :
            /\ f[0] = 1 /\ f[0] = Power(16, 0)
            /\ \A k \in Nat : k + 1 <= 0 => f[k + 1] = f[k] * 16
      <4>1. 0 \in Nat /\ 16 \in Nat
        OBVIOUS
      <4> QED BY <4>1, PowerFacts, Zenon
    <3> QED BY <3>1
  <2>3. WORD # 1
    <3>1. WORD = 2 * Half /\ Half \in Int
      BY ItoaAssumption DEF Half
    <3> QED BY <3>1
  <2> QED BY <1>1, <2>1, <2>2, <2>3
<1>5. l <= H /\ l \in Nat \ {0} /\ str \in Seq(Int)
  <2>1. l <= Signs(negative) + H
    BY <1>1, <1>2, <1>4, LengthBound
  <2>2. str \in Seq(Int) /\ l - Signs(negative) > 0 /\ l \in Nat
    BY <1>2 DEF ItoaInv
  <2>3. Signs(negative) = 0
    BY <1>2 DEF Signs
  <2> QED BY <1>4, <2>1, <2>2, <2>3
<1>6. /\ Rest(m, 16)[l] = 0
      /\ \A k \in 1 .. l : str[k] = DigitOf(m, 16, l - k)
  <2>1. Signs(negative) = 0 /\ l - 0 = l /\ \A k \in 1 .. l : 0 + k = k
    BY <1>2, <1>5 DEF Signs
  <2> QED BY <1>2, <2>1, <1>5 DEF ItoaInv
<1> DEFINE p == H - l
           z == [k \in 1 .. p |-> 0]
<1>7. p \in Nat /\ num_pad(str) = p
  BY <1>4, <1>5 DEF num_pad
<1>8. s = z \o str
  BY <1>7, Zenon DEF put_memory
<1>9. z \in Seq(Int) /\ Len(z) = p /\ \A k \in 1 .. p : z[k] = 0
  BY <1>7
<1>10. p + l = H
  BY <1>4, <1>5
<1> HIDE DEF z, p, s, l, H
<1>11. Joins(s, z, str, Int)
  BY <1>5, <1>8, <1>9, Joined
<1>12. /\ s \in Seq(Int) /\ Len(s) = H
       /\ \A k \in 1 .. p : s[k] = 0
       /\ \A k \in 1 .. l : s[p + k] = str[k]
  BY <1>9, <1>10, <1>11 DEF Joins, l
<1>13. \A k \in Nat : Rest(m, 16)[k] \in Nat
  BY <1>1, RestFacts
<1>14. ASSUME NEW k \in 1 .. H PROVE s[k] = DigitOf(m, 16, H - k)
  <2>1. CASE k <= p
    <3>1. H - k \in Nat /\ l <= H - k /\ k \in 1 .. p
      BY <1>4, <1>5, <1>7, <1>10, <2>1
    <3>2. Rest(m, 16)[H - k] = 0
      BY <1>1, <1>5, <1>6, <3>1, RestEnds
    <3>3. DigitOf(m, 16, H - k) = 0
      BY <3>2 DEF DigitOf
    <3> QED BY <1>12, <3>1, <3>3
  <2>2. CASE ~(k <= p)
    <3>1. k - p \in 1 .. l /\ p + (k - p) = k /\ l - (k - p) = H - k
      BY <1>4, <1>5, <1>7, <1>10, <2>2
    <3>2. s[p + (k - p)] = str[k - p] /\ str[k - p] = DigitOf(m, 16, l - (k - p))
      BY <1>6, <1>12, <3>1, Zenon
    <3> QED BY <3>1, <3>2, Zenon
  <2> QED BY <2>1, <2>2
<1>15. Digits(s, H, m, negative, 16)
  <2>1. Signs(negative) = 0 /\ 0 + H = H /\ \A k \in 1 .. H : 0 + k = k
    BY <1>2, <1>4 DEF Signs
  <2>2. Rest(m, 16)[H] = 0
    BY <1>1, <1>4, DigitsEnough
  <2> QED BY <1>2, <1>12, <1>14, <2>1, <2>2 DEF Digits
<1>16. Read(s, 16) = m
  <2>1. Read(s, 16) = IF negative THEN -m ELSE m
    BY <1>1, <1>2, <1>4, <1>15, ReadIs
  <2> QED BY <1>2, <2>1
<1> QED BY <1>3, <1>12, <1>16 DEF s, H

-----------------------------------------------------------------------------
(* The walks *)

LEMMA Fixed ==
  ASSUME start' = start
  PROVE  /\ program' = program
         /\ OnTerminal' <=> OnTerminal
         /\ Total32' = Total32
         /\ \A k : From(k)' = From(k) /\ To(k)' = To(k)
         /\ \A k : k \in Usable' <=> k \in Usable
         /\ \A m : As(m)' = As(m) /\ Counted(m)' = Counted(m)
<1> USE DEF program, OnTerminal
<1>1. program' = program /\ (OnTerminal' <=> OnTerminal)
  OBVIOUS
<1>2. ASSUME NEW m PROVE As(m)' = As(m) /\ Counted(m)' = Counted(m)
  BY DEF As, Counted
<1>3. Total32' = Total32
  BY DEF Total32, Counted
<1>4. ASSUME NEW k PROVE From(k)' = From(k) /\ To(k)' = To(k)
  BY DEF From, To
<1>5. \A k : k \in Usable' <=> k \in Usable
  BY DEF Usable
<1> QED BY <1>1, <1>2, <1>3, <1>4, <1>5

(* What a program that has come to an entry reads there. *)
LEMMA AtEntry ==
  ASSUME StructEntries, start \in Starts, program \in Walkers,
         NEW k \in 0 .. Len(start.entries), n = Place(start.entries)[k]
  PROVE  /\ n < mmap_length <=> k < Len(start.entries)
         /\ k < Len(start.entries) =>
              /\ k + 1 \in 1 .. Len(start.entries)
              /\ base_addr_low = From(k + 1)
              /\ length_low = Unsigned(start.entries[k + 1].length)
              /\ type = start.entries[k + 1].type
              /\ n + Stride = Place(start.entries)[k + 1]
<1>1. PICK es : es = start.entries
  OBVIOUS
<1> DEFINE N == Len(es)
<1>2. Entries(es) /\ Laid(es)
  BY <1>1, EntriesOf, WordsFacts
<1>3. N \in Nat /\ words = Words(es) /\ mmap_length = Place(es)[N] /\ n = Place(es)[k]
      /\ k \in 0 .. N
  BY <1>1, <1>2 DEF Entries, Laid, mmap_length, words
<1>4. CASE k < N
  <2> DEFINE e == es[k + 1]
  <2>1. k + 1 \in 1 .. N /\ (k + 1) - 1 = k
    BY <1>3, <1>4
  <2>2. /\ Place(es)[k] < Place(es)[N]
        /\ \A j \in 1 .. 6 : words[n \div 4 + j] = memory_map(e)[j]
    BY <1>2, <1>3, <2>1 DEF Laid
  <2>3. /\ e.base \in Nat /\ e.length \in Nat
        /\ e.size \in Nat /\ e.size >= 20 /\ e.size % 4 = 0
    BY <1>2, <2>1 DEF Entries
  <2>4. /\ memory_map(e)[1] = e.size
        /\ memory_map(e)[2] = Unsigned(e.base)
        /\ memory_map(e)[4] = Unsigned(e.length)
        /\ memory_map(e)[6] = e.type
    <3> DEFINE V == Int \cup {e.type}
    <3>1. Int \subseteq V /\ e.type \in V
      OBVIOUS
    <3> HIDE DEF V, e
    <3> QED BY <2>3, <3>1, EntryWords
  <2>5. 1 \in 1 .. 6 /\ 2 \in 1 .. 6 /\ 4 \in 1 .. 6 /\ 6 \in 1 .. 6
    OBVIOUS
  <2>6. size = e.size /\ type = e.type
    BY <2>2, <2>4, <2>5, Zenon DEF size, type
  <2>7. base_addr_low = From(k + 1) /\ length_low = Unsigned(e.length)
    BY <1>1, <2>2, <2>4, <2>5, Zenon DEF base_addr_low, length_low, From
  <2>8. Place(es)[k + 1] = Place(es)[k] + (e.size + 4)
    BY <1>2, <2>1, PlaceFacts
  <2>9. Stride = e.size + 4
    <3>1. CASE OnTerminal
      BY <2>6, <3>1 DEF Stride
    <3>2. CASE ~OnTerminal
      <4>1. program \in {"archive", "printMemoryMap"}
        BY <3>2 DEF OnTerminal, Walkers
      <4>2. e.size = 20
        BY <1>1, <2>1, <4>1 DEF StructEntries, program
      <4> QED BY <3>2, <4>2 DEF Stride
    <3> QED BY <3>1, <3>2
  <2> QED BY <1>1, <1>3, <1>4, <2>1, <2>2, <2>6, <2>7, <2>8, <2>9
<1>5. CASE ~(k < N)
  <2>1. k = N
    BY <1>3, <1>5
  <2>2. Place(es)[N] \in Nat
    BY <1>2, <1>3, PlaceFacts
  <2> QED BY <1>1, <1>3, <1>5, <2>1, <2>2
<1> QED BY <1>4, <1>5

LEMMA CountedType == Counted(0) = 0 /\ \A a \in Int : Counted(a) \in Int
<1>1. \A a \in Int : Counted(a) \in Int
  BY SignedType DEF Counted
<1>2. Counted(0) = 0
  <2>1. 0 \in Nat /\ 0 < WORD /\ 0 < Half
    BY ItoaAssumption DEF Half
  <2> QED BY <2>1, SmallWords DEF Counted
<1> QED BY <1>1, <1>2

LEMMA CountedSum ==
  ASSUME NEW a \in Int, NEW b \in Int
  PROVE  Counted(Counted(a) + Unsigned(b)) = Counted(a + b)
BY SumOfWords DEF Counted

LEMMA TotalType == start \in Starts => Total32 \in Int
<1> SUFFICES ASSUME start \in Starts PROVE Total32 \in Int
  OBVIOUS
<1>1. PICK es : es = start.entries
  OBVIOUS
<1>2. Len(es) \in Nat /\ Entries(es)
  BY <1>1, EntriesOf DEF Entries
<1>3. UsableBytes(es)[Len(es)] \in Nat
  BY <1>2, UsableFacts
<1> DEFINE c == Counted(UsableBytes(es)[Len(es)])
<1>4. c \in Int
  <2>1. UsableBytes(es)[Len(es)] \in Int
    BY <1>3
  <2> QED BY <2>1, CountedType, Zenon
<1>5. MB \in Nat \ {0}
  BY MemoryMapAssumption
<1> HIDE DEF c
<1>6. c \div MB + 1 \in Int
  BY <1>4, <1>5
<1> QED BY <1>1, <1>6 DEF c, Total32

LEMMA CountingStep ==
  ASSUME StructEntries, start \in Starts, program \in Walkers, Counting, [Next]_vars
  PROVE  Counting' \/ Totalling'
<1>1. /\ start' = start /\ program # "fifos"
      /\ shown = << >> /\ converting = "no" /\ text = << >>
      /\ phase \in {"gdt", "walk"}
  BY StartKept DEF Counting, Walkers
<1>2. PICK es : es = start.entries
  OBVIOUS
<1>3. Entries(es) /\ Len(es) \in Nat
  BY <1>2, EntriesOf DEF Entries
<1>4. ASSUME NEW k \in 0 .. Len(es), phase' = "walk",
             n' = Place(es)[k], memsz' = Counted(UsableBytes(es)[k]),
             UNCHANGED <<converting, text, shown>>
      PROVE  Counting'
  <2>1. memsz' = Counted(UsableBytes(es)[k])'
    BY <1>1, <1>4, Fixed
  <2>2. (\E j \in 0 .. Len(start.entries) :
           n = Place(start.entries)[j] /\ memsz = Counted(UsableBytes(start.entries)[j]))'
    BY <1>1, <1>2, <1>4, <2>1
  <2> QED BY <1>1, <1>4, <2>2 DEF Counting
<1>5. CASE EncodeNext
  BY <1>1, <1>5 DEF EncodeNext, Counting, itoa, terminal, In
<1>6. CASE SetGdt
  <2>1. /\ phase' = "walk" /\ n' = 0 /\ memsz' = 0
        /\ UNCHANGED <<converting, text, shown>>
    BY <1>1, <1>6 DEF SetGdt, Counting, itoa, terminal, In
  <2>2. Place(es)[0] = 0 /\ UsableBytes(es)[0] = 0 /\ Counted(0) = 0 /\ 0 \in 0 .. Len(es)
    BY <1>3, PlaceFacts, UsableFacts, CountedType
  <2> QED BY <1>4, <2>1, <2>2
<1>7. CASE Walk
  <2>1. /\ phase = "walk" /\ phase' = "walk" /\ n < mmap_length
        /\ memsz' = IF type = 1 THEN Counted(memsz + length_low) ELSE memsz
        /\ n' = n + Stride
        /\ UNCHANGED <<converting, text, shown>>
    BY <1>7 DEF Walk, itoa, terminal, In
  <2>2. PICK k \in 0 .. Len(es) : n = Place(es)[k] /\ memsz = Counted(UsableBytes(es)[k])
    BY <1>2, <2>1 DEF Counting
  <2>3. /\ k + 1 \in 1 .. Len(es)
        /\ length_low = Unsigned(es[k + 1].length)
        /\ type = es[k + 1].type
        /\ n' = Place(es)[k + 1]
    BY <1>2, <2>1, <2>2, AtEntry
  <2>4. /\ UsableBytes(es)[k] \in Nat
        /\ UsableBytes(es)[k + 1] =
             UsableBytes(es)[k] + (IF es[k + 1].type = 1 THEN es[k + 1].length ELSE 0)
        /\ es[k + 1].length \in Nat
    <3>1. (k + 1) - 1 = k
      OBVIOUS
    <3> QED BY <1>3, <2>3, <3>1, UsableFacts DEF Entries
  <2>5. memsz' = Counted(UsableBytes(es)[k + 1])
    <3>1. CASE type = 1
      <4>1. memsz' = Counted(Counted(UsableBytes(es)[k]) + Unsigned(es[k + 1].length))
        BY <2>1, <2>2, <2>3, <3>1
      <4> DEFINE a == UsableBytes(es)[k]
                 b == es[k + 1].length
      <4>2. a \in Int /\ b \in Int /\ UsableBytes(es)[k + 1] = a + b
        BY <2>3, <2>4, <3>1
      <4> HIDE DEF a, b
      <4>3. Counted(Counted(a) + Unsigned(b)) = Counted(a + b)
        BY <4>2, CountedSum
      <4> QED BY <4>1, <4>2, <4>3, Zenon DEF a, b
    <3>2. CASE type # 1
      <4>1. UsableBytes(es)[k + 1] = UsableBytes(es)[k]
        BY <2>3, <2>4, <3>2
      <4> QED BY <2>1, <2>2, <3>2, <4>1
    <3> QED BY <3>1, <3>2
  <2>6. k + 1 \in 0 .. Len(es)
    BY <2>3
  <2> QED BY <1>4, <2>1, <2>3, <2>5, <2>6
<1>8. CASE Total
  <2>1. /\ phase = "walk" /\ n >= mmap_length /\ memsz' = memsz \div MB + 1
        /\ Itoa32(memsz', 10)
        /\ phase' = IF OnTerminal THEN "terminal" ELSE "welcome"
        /\ UNCHANGED <<text, shown>>
    BY <1>8 DEF Total, bytes_to_mb, terminal, In
  <2>2. PICK k \in 0 .. Len(es) : n = Place(es)[k] /\ memsz = Counted(UsableBytes(es)[k])
    BY <1>2, <2>1 DEF Counting
  <2>3. k = Len(es)
    <3>1. mmap_length = Place(es)[Len(es)]
      BY <1>2, <1>3, WordsFacts DEF Laid, mmap_length, words
    <3>2. mmap_length \in Nat /\ n \in Nat
      BY <1>3, <2>2, <3>1, PlaceFacts
    <3>3. n < mmap_length <=> k < Len(es)
      BY <1>2, <2>2, AtEntry
    <3> QED BY <1>3, <2>1, <3>2, <3>3
  <2>4. PICK x \in Int : x = Total32
    BY TotalType
  <2>5. memsz' = x
    BY <1>2, <2>1, <2>2, <2>3, <2>4 DEF Total32
  <2>6. Itoa32(x, 10)
    BY <2>1, <2>5 DEF Itoa32, MemosItoa, FifosItoa, MicrosItoa
  <2>7. Converting(x, 10)'
    BY <1>1, <2>6, Itoa32Begins
  <2>8. Converting(Total32, 10)'
    BY <1>1, <2>4, <2>7, Fixed
  <2> QED BY <1>1, <2>1, <2>8, Fixed DEF Totalling
<1>9. CASE Stopped \/ UNCHANGED vars
  <2>1. UNCHANGED vars
    BY <1>9 DEF Stopped
  <2>2. CASE phase = "gdt"
    BY <1>1, <2>1, <2>2 DEF Counting, vars, itoa, terminal
  <2>3. CASE phase = "walk"
    <3>1. PICK k \in 0 .. Len(es) : n = Place(es)[k] /\ memsz = Counted(UsableBytes(es)[k])
      BY <1>2, <2>3 DEF Counting
    <3>2. /\ phase' = "walk" /\ n' = n /\ memsz' = memsz
          /\ UNCHANGED <<converting, text, shown>>
      BY <2>1, <2>3 DEF vars, itoa, terminal
    <3> QED BY <1>4, <3>1, <3>2
  <2> QED BY <1>1, <2>2, <2>3
<1>10. CASE SetIdtNext \/ SetIdt \/ Welcome \/ RangeFrom \/ RangeTo \/ RangeNext \/ RangesDone
  BY <1>1, <1>10 DEF SetIdtNext, SetIdt, Welcome, RangeFrom, RangeTo, RangeNext, RangesDone, In
<1>11. CASE Announce \/ Write \/ Written \/ PutInt \/ Put \/ Convert
  BY <1>1, <1>11 DEF Announce, Write, WriteNext, Written, PutInt, Put, In, Convert, Itoa,
    ItoaDigit, ItoaSwap, ItoaReturn
<1> QED BY <1>5, <1>6, <1>7, <1>8, <1>9, <1>10, <1>11 DEF Next

(* What itoa has made of the total. *)
LEMMA TotalReads ==
  ASSUME start \in Starts, Converting(Total32, 10), converting = "no"
  PROVE  Read(str, 10) =
           IF program = "printMemoryMap" THEN Unsigned(Total32) ELSE Signed(Total32)
<1>1. PICK x \in Int : x = Total32
  BY TotalType
<1>2. PICK m \in Nat, negative \in BOOLEAN : m = Taken(x, 10) /\ negative = Negative(x, 10)
  BY TakenType
<1>3. ItoaInv(m, negative, 10)
  BY <1>1, <1>2, ConvertingIs
<1>4. Read(str, 10) = IF negative THEN -m ELSE m
  BY <1>3, ConvertedReads
<1>5. CASE program = "printMemoryMap"
  <2>1. m = Unsigned(x) /\ ~negative
    BY <1>2, <1>5 DEF Taken, Negative
  <2> QED BY <1>1, <1>4, <1>5, <2>1
<1>6. CASE program # "printMemoryMap"
  <2>1. m = Amount(Signed(x)) /\ (negative <=> Signed(x) < 0) /\ Signed(x) \in Int
    BY <1>2, <1>6, SignedType DEF Taken, Negative
  <2>2. Read(str, 10) = Signed(x)
    BY <1>4, <2>1 DEF Amount
  <2> QED BY <1>1, <1>6, <2>2
<1> QED BY <1>5, <1>6

LEMMA TotallingStep ==
  ASSUME start \in Starts, program \in Walkers, Totalling, [Next]_vars
  PROVE  Totalling' \/ Writing' \/ Printing'
<1>1. /\ start' = start /\ shown = << >> /\ text = << >>
      /\ phase = IF OnTerminal THEN "terminal" ELSE "welcome"
      /\ Converting(Total32, 10)
  BY StartKept DEF Totalling
<1>2. PICK x \in Int : x = Total32 /\ x = Total32'
  BY <1>1, TotalType, Fixed
<1>3. CASE Welcome
  <2>1. /\ ~OnTerminal /\ converting = "no" /\ converting' = "no"
        /\ shown' = <<str>> /\ text' = << >> /\ n' = 0 /\ phase' = "from"
    BY <1>1, <1>3 DEF Welcome, In, itoa, terminal
  <2>2. shown' = [i \in 1 .. Len(shown') |-> shown'[i]] /\ shown'[1] = str /\ Len(shown') = 1
    BY <2>1
  <2>3. TotalShown'
    BY <1>1, <2>1, <2>2, TotalReads, Fixed DEF TotalShown
  <2>4. Place(start.entries)[0] = 0 /\ Len(start.entries) \in Nat
    BY EntriesOf, PlaceFacts DEF Entries
  <2>5. Printed(0)'
    BY <1>1, <2>1, <2>2, <2>4 DEF Printed
  <2>6. (\E k \in 0 .. Len(start.entries) : Printed(k))'
    BY <1>1, <2>4, <2>5
  <2> QED BY <1>1, <2>1, <2>2, <2>3, <2>6, Fixed DEF Printing
<1>4. CASE Announce
  <2>1. /\ OnTerminal /\ converting = "no" /\ converting' = "no"
        /\ phase' = "written" /\ shown' = << >> /\ itoa' = itoa
        /\ text' = FullText /\ FullText' = FullText
        /\ terminal_row' = 0 /\ terminal_column' = 0
        /\ DOMAIN terminal_buffer' = Cells
    BY <1>1, <1>4 DEF Announce, In, itoa, terminal_initialize, terminal_writestring, FullText
  <2>2. str \in Seq(Int)
    BY <1>1 DEF Converting, ItoaInv
  <2>3. FullText = SubSeq(FullText, 0 + 1, Len(FullText)) /\ Len(FullText) \in Nat
    <3> DEFINE V == Int \cup {"M", "e", "m", "O", "S", "B"}
    <3>1. Greeting \in Seq(V) /\ str \in Seq(V) /\ <<"M", "B">> \in Seq(V)
      BY <2>2 DEF Greeting
    <3> HIDE DEF V
    <3>2. FullText \in Seq(V)
      BY <3>1 DEF FullText
    <3> QED BY <3>2
  <2>4. Screen(0)'
    <3>1. 0 \in 0 .. VGA_HEIGHT - 1 /\ 0 \in 0 .. VGA_WIDTH - 1 /\ ScreenSize \in Nat \ {0}
      BY TerminalAssumption DEF ScreenSize
    <3>2. 0 * VGA_WIDTH + 0 = 0 % ScreenSize
      BY <3>1, TerminalAssumption
    <3> QED BY <2>1, <2>3, <3>1, <3>2 DEF Screen
  <2>5. Converting(Total32, 10)'
    BY <1>1, <1>2, <2>1, ConvertingKeeps
  <2>6. (\E w \in 0 .. Len(FullText) : Screen(w))'
    BY <2>1, <2>3, <2>4
  <2> QED BY <1>1, <2>1, <2>5, <2>6, Fixed DEF Writing
<1>5. CASE Convert \/ Stopped \/ UNCHANGED vars
  <2>1. /\ Itoa \/ itoa' = itoa
        /\ UNCHANGED <<phase, shown, text>>
    BY <1>5 DEF Convert, Stopped, vars, terminal
  <2>2. Converting(x, 10)'
    BY <1>1, <1>2, <2>1, ConvertingKeeps
  <2>3. Converting(Total32, 10)'
    BY <1>2, <2>2
  <2> QED BY <1>1, <2>1, <2>3, Fixed DEF Totalling
<1>6. CASE EncodeNext \/ SetGdt \/ SetIdtNext \/ SetIdt \/ Walk \/ Total
  BY <1>1, <1>6 DEF EncodeNext, SetGdt, SetIdtNext, SetIdt, Walk, Total, In
<1>7. CASE RangeFrom \/ RangeTo \/ RangeNext \/ RangesDone
  BY <1>1, <1>7 DEF RangeFrom, RangeTo, RangeNext, RangesDone, In
<1>8. CASE Write \/ Written \/ PutInt \/ Put
  BY <1>1, <1>8 DEF Write, WriteNext, Written, PutInt, Put, In
<1> QED BY <1>3, <1>4, <1>5, <1>6, <1>7, <1>8 DEF Next

-----------------------------------------------------------------------------
(* The screen *)

LEMMA SubSeqTail ==
  ASSUME NEW V, NEW f \in Seq(V), NEW w \in 0 .. Len(f)
  PROVE  /\ SubSeq(f, w + 1, Len(f)) = << >> <=> w = Len(f)
         /\ w < Len(f) => /\ Head(SubSeq(f, w + 1, Len(f))) = f[w + 1]
                          /\ Tail(SubSeq(f, w + 1, Len(f))) = SubSeq(f, (w + 1) + 1, Len(f))
<1> DEFINE g == SubSeq(f, w + 1, Len(f))
           h == SubSeq(f, (w + 1) + 1, Len(f))
<1>1. Len(f) \in Nat
  OBVIOUS
<1>2. /\ g \in Seq(V) /\ Len(g) = Len(f) - w
      /\ \A i \in 1 .. Len(f) - w : g[i] = f[w + i]
  BY <1>1
<1>3. ASSUME w < Len(f)
      PROVE  /\ h \in Seq(V) /\ Len(h) = Len(f) - w - 1
             /\ \A i \in 1 .. Len(f) - w - 1 : h[i] = f[w + 1 + i]
  BY <1>1, <1>3
<1> HIDE DEF g, h
<1>4. g = << >> <=> w = Len(f)
  BY <1>1, <1>2
<1>5. ASSUME w < Len(f) PROVE Head(g) = f[w + 1] /\ Tail(g) = h
  <2>1. Head(g) = f[w + 1]
    BY <1>1, <1>2, <1>5
  <2>2. /\ Tail(g) \in Seq(V) /\ Len(Tail(g)) = Len(f) - w - 1
        /\ \A i \in 1 .. Len(f) - w - 1 : Tail(g)[i] = f[w + 1 + i]
    BY <1>1, <1>2, <1>5
  <2> DEFINE t == Tail(g)
  <2>3. /\ t \in Seq(V) /\ h \in Seq(V) /\ Len(t) = Len(h)
        /\ \A i \in 1 .. Len(t) : t[i] = h[i]
    BY <1>3, <1>5, <2>2
  <2> HIDE DEF t
  <2>4. t = h
    BY <2>3
  <2> QED BY <2>1, <2>4 DEF t
<1> QED BY <1>4, <1>5 DEF g, h

LEMMA ModuloNext ==
  ASSUME NEW p \in Nat \ {0}, NEW w \in Nat
  PROVE  (w + 1) % p = IF (w % p) + 1 = p THEN 0 ELSE (w % p) + 1
<1> DEFINE q == w \div p
           r == w % p
<1>1. q \in Nat /\ r \in 0 .. p - 1 /\ w = q * p + r
  BY DivisionNat
<1> HIDE DEF q, r
<1>2. CASE r + 1 = p
  <2>1. w + 1 = (q + 1) * p + 0 /\ q + 1 \in Int /\ 0 \in 0 .. p - 1
    BY <1>1, <1>2
  <2> QED BY <1>2, <2>1, DivisionUnique DEF r
<1>3. CASE r + 1 # p
  <2>1. w + 1 = q * p + (r + 1) /\ q \in Int /\ r + 1 \in 0 .. p - 1
    BY <1>1, <1>3
  <2>2. (q * p + (r + 1)) % p = r + 1
    BY <2>1, DivisionUnique
  <2> QED BY <1>3, <2>1, <2>2 DEF r
<1> QED BY <1>2, <1>3

LEMMA ModuloApart ==
  ASSUME NEW p \in Nat \ {0}, NEW a \in Nat, NEW c \in Nat, a < c, c < a + p
  PROVE  a % p # c % p
<1> SUFFICES ASSUME a % p = c % p PROVE FALSE
  OBVIOUS
<1>1. PICK q \in Int : a = q * p + (a % p)
  <2>1. a \div p \in Int /\ a = (a \div p) * p + (a % p)
    OBVIOUS
  <2> QED BY <2>1
<1>2. PICK j \in Int : c = j * p + (c % p)
  <2>1. c \div p \in Int /\ c = (c \div p) * p + (c % p)
    OBVIOUS
  <2> QED BY <2>1
<1>3. a % p \in Int /\ c - a = (j - q) * p
  BY <1>1, <1>2
<1> DEFINE k == j - q
<1>4. k \in Int /\ k * p > 0 /\ k * p < p
  BY <1>3
<1> HIDE DEF k
<1>5. CASE k >= 1
  <2>1. PICK i \in Nat : k = i + 1
    BY <1>4, <1>5
  <2>2. k * p = i * p + p /\ i * p >= 0
    BY <2>1
  <2> QED BY <1>4, <2>2
<1>6. CASE k <= 0
  <2>1. PICK i \in Nat : k = -i
    BY <1>4, <1>6
  <2>2. k * p = -(i * p) /\ i * p >= 0
    BY <2>1
  <2> QED BY <1>4, <2>2
<1> QED BY <1>4, <1>5, <1>6

(* From one cell of the screen to the next, and from the last to the first.*)
LEMMA CursorNext ==
  ASSUME NEW w \in Nat,
         NEW row \in 0 .. VGA_HEIGHT - 1, NEW column \in 0 .. VGA_WIDTH - 1,
         row * VGA_WIDTH + column = w % ScreenSize
  PROVE  LET c == (column + 1) % VGA_WIDTH
             r == IF c = 0 THEN (row + 1) % VGA_HEIGHT ELSE row
         IN  /\ r \in 0 .. VGA_HEIGHT - 1 /\ c \in 0 .. VGA_WIDTH - 1
             /\ r * VGA_WIDTH + c = (w + 1) % ScreenSize
<1> DEFINE W == VGA_WIDTH
           H == VGA_HEIGHT
           S == ScreenSize
           c == (column + 1) % W
           r == IF c = 0 THEN (row + 1) % H ELSE row
<1>1. /\ W \in Nat \ {0} /\ H \in Nat \ {0} /\ S = W * H
      /\ row \in 0 .. H - 1 /\ column \in 0 .. W - 1
      /\ row * W + column = w % S
  BY TerminalAssumption DEF ScreenSize
<1>2. c = IF column + 1 = W THEN 0 ELSE column + 1
  BY <1>1
<1>3. (row + 1) % H = IF row + 1 = H THEN 0 ELSE row + 1
  BY <1>1
<1> HIDE DEF W, H, S, c
<1>4. S \in Nat \ {0}
  BY <1>1
<1>5. (w + 1) % S = IF (w % S) + 1 = S THEN 0 ELSE (w % S) + 1
  BY <1>4, ModuloNext
<1>6. CASE column + 1 # W
  <2>1. c = column + 1 /\ r = row
    BY <1>1, <1>2, <1>6
  <2>2. PICK j \in Nat : H = row + 1 + j
    BY <1>1
  <2>3. W * H = row * W + W + j * W /\ j * W >= 0
    BY <1>1, <2>2
  <2>4. (w % S) + 1 # S
    BY <1>1, <1>6, <2>3
  <2> QED BY <1>1, <1>5, <1>6, <2>1, <2>4 DEF W, H, S, c
<1>7. CASE column + 1 = W /\ row + 1 # H
  <2>1. c = 0 /\ r = row + 1
    BY <1>1, <1>2, <1>3, <1>7
  <2>2. PICK j \in Nat : H = row + 2 + j
    BY <1>1, <1>7
  <2>3. W * H = row * W + W + W + j * W /\ j * W >= 0 /\ r * W = row * W + W
    BY <1>1, <2>1, <2>2
  <2>4. (w % S) + 1 # S
    BY <1>1, <1>7, <2>3
  <2>5. r \in 0 .. H - 1 /\ c \in 0 .. W - 1 /\ r * W + c = (w + 1) % S
    BY <1>1, <1>5, <1>7, <2>1, <2>3, <2>4
  <2> QED BY <2>5 DEF W, H, S, c
<1>8. CASE column + 1 = W /\ row + 1 = H
  <2>1. c = 0 /\ r = 0
    BY <1>1, <1>2, <1>3, <1>8
  <2>2. W * H = row * W + W
    BY <1>1, <1>8
  <2>3. (w % S) + 1 = S
    BY <1>1, <1>8, <2>2
  <2>4. r \in 0 .. H - 1 /\ c \in 0 .. W - 1 /\ r * W + c = (w + 1) % S
    BY <1>1, <1>5, <1>8, <2>1, <2>3
  <2> QED BY <2>4 DEF W, H, S, c
<1> QED BY <1>6, <1>7, <1>8

(* One character more. *)
LEMMA ScreenStep ==
  ASSUME start' = start, NEW V, FullText \in Seq(V),
         NEW w \in 0 .. Len(FullText), Screen(w), WriteNext, UNCHANGED itoa
  PROVE  w + 1 \in 0 .. Len(FullText) /\ Screen(w + 1)'
<1>1. PICK f \in Seq(V) : f = FullText /\ f = FullText'
  BY DEF FullText, itoa
<1> DEFINE L == Len(f)
           S == ScreenSize
           c == (terminal_column + 1) % VGA_WIDTH
           r == IF c = 0 THEN (terminal_row + 1) % VGA_HEIGHT ELSE terminal_row
<1>2. L \in Nat /\ w \in 0 .. L /\ w \in Nat
  BY <1>1
<1>3. /\ text = SubSeq(f, w + 1, L)
      /\ terminal_row \in 0 .. VGA_HEIGHT - 1 /\ terminal_column \in 0 .. VGA_WIDTH - 1
      /\ terminal_row * VGA_WIDTH + terminal_column = w % S
      /\ DOMAIN terminal_buffer = Cells
      /\ \A i \in 1 .. w : i + S > w => terminal_buffer[(i - 1) % S] = f[i]
  BY <1>1 DEF Screen
<1>4. /\ text # << >> /\ text' = Tail(text)
      /\ terminal_column' = c /\ terminal_row' = r
      /\ terminal_buffer' = [terminal_buffer EXCEPT ![w % S] = Head(text)]
  <2>1. /\ text # << >> /\ text' = Tail(text) /\ terminal_column' = c
        /\ terminal_row' = IF terminal_column' = 0
                             THEN (terminal_row + 1) % VGA_HEIGHT ELSE terminal_row
        /\ terminal_buffer' = [terminal_buffer EXCEPT
                                  ![terminal_row * VGA_WIDTH + terminal_column] = Head(text)]
    BY Zenon DEF WriteNext, terminal_putchar, terminal_putentryat
  <2> QED BY <1>3, <2>1, Zenon
<1>5. w < L /\ Head(text) = f[w + 1] /\ text' = SubSeq(f, (w + 1) + 1, L)
  BY <1>1, <1>2, <1>3, <1>4, SubSeqTail
<1>6. /\ r \in 0 .. VGA_HEIGHT - 1 /\ c \in 0 .. VGA_WIDTH - 1
      /\ r * VGA_WIDTH + c = (w + 1) % S
  BY <1>2, <1>3, CursorNext
<1> HIDE DEF L, c, r
<1>7. S \in Nat \ {0} /\ w % S \in Cells
  BY <1>2, TerminalAssumption DEF ScreenSize, Cells
<1> HIDE DEF S
<1>8. /\ DOMAIN terminal_buffer' = Cells
      /\ terminal_buffer'[w % S] = f[w + 1]
      /\ \A x \in Cells : x # w % S => terminal_buffer'[x] = terminal_buffer[x]
  <2>1. \A x \in Cells : x # w % S => terminal_buffer'[x] = terminal_buffer[x]
    BY <1>3, <1>4
  <2> QED BY <1>3, <1>4, <1>5, <1>7
<1>9. ASSUME NEW i \in 1 .. w + 1, i + S > w + 1
      PROVE  terminal_buffer'[(i - 1) % S] = f[i]
  <2>1. CASE i = w + 1
    <3>1. i - 1 = w
      BY <1>2, <2>1
    <3> QED BY <1>8, <2>1, <3>1, Zenon
  <2>2. CASE i # w + 1
    <3>1. i \in 1 .. w /\ i + S > w /\ i - 1 \in Nat /\ i - 1 < w /\ w < (i - 1) + S
      BY <1>2, <1>7, <1>9, <2>2
    <3>2. (i - 1) % S # w % S /\ (i - 1) % S \in Cells
      <4>1. (i - 1) % S \in Cells
        BY <1>7, <3>1, TerminalAssumption DEF ScreenSize, Cells, S
      <4> QED BY <1>2, <1>7, <3>1, <4>1, ModuloApart
    <3>3. terminal_buffer[(i - 1) % S] = f[i]
      BY <1>3, <3>1
    <3> QED BY <1>8, <3>2, <3>3, Zenon
  <2> QED BY <2>1, <2>2
<1>10. w + 1 \in 0 .. L
  BY <1>2, <1>5
<1>11. Screen(w + 1)'
  BY <1>1, <1>4, <1>5, <1>6, <1>8, <1>9 DEF Screen, L, S
<1> QED BY <1>1, <1>10, <1>11 DEF L

(* init's total is one a word can count, in megabytes. *)
LEMMA TotalBelow ==
  ASSUME start \in Starts, OnTerminal
  PROVE  /\ Total32 \in Nat /\ Total32 <= WORD \div MB
         /\ Taken(Total32, 10) = Total32 /\ ~Negative(Total32, 10)
<1>1. PICK es : es = start.entries
  OBVIOUS
<1>2. Len(es) \in Nat /\ Entries(es)
  BY <1>1, EntriesOf DEF Entries
<1>3. UsableBytes(es)[Len(es)] \in Nat
  BY <1>2, UsableFacts
<1>4. PICK c \in Nat : c = Unsigned(UsableBytes(es)[Len(es)]) /\ c < WORD
  <2>1. UsableBytes(es)[Len(es)] \in Int
    BY <1>3
  <2> QED BY <2>1, SignedType
<1> DEFINE q == WORD \div MB
           T == c \div MB + 1
<1>5. Total32 = T
  BY <1>1, <1>4 DEF Total32, Counted
<1>6. MB \in Nat /\ MB > 2 /\ WORD \in Nat \ {0} /\ WORD % MB = 0
  BY MemoryMapAssumption, ItoaAssumption DEF Half
<1>7. q \in Nat /\ WORD = q * MB
  BY <1>6
<1>8. c \div MB \in Nat /\ c \div MB < q
  <2> HIDE DEF q
  <2>1. c < q * MB /\ MB \in Nat \ {0}
    BY <1>4, <1>6, <1>7
  <2> QED BY <1>7, <2>1, QuotientBelow, DivisionNat
<1> HIDE DEF q
<1>9. T \in Nat /\ T <= q
  BY <1>7, <1>8
<1>10. q < Half
  <2>1. PICK j \in Nat : MB = 3 + j
    BY <1>6
  <2>2. WORD = 3 * q + q * j /\ q * j >= 0
    BY <1>7, <2>1
  <2>3. WORD = 2 * Half /\ Half \in Int
    BY ItoaAssumption DEF Half
  <2> QED BY <1>6, <1>7, <2>2, <2>3
<1> HIDE DEF T
<1>11. T < Half /\ T < WORD
  <2>1. WORD = 2 * Half /\ Half \in Int /\ Half > 0
    BY ItoaAssumption DEF Half
  <2> QED BY <1>7, <1>9, <1>10, <2>1
<1>12. Signed(T) = T
  BY <1>9, <1>11, SmallWords
<1>13. Amount(T) = T /\ ~(T < 0)
  BY <1>9 DEF Amount
<1>14. program \in {"memos", "init"}
  BY DEF OnTerminal
<1>15. Taken(T, 10) = T /\ ~Negative(T, 10)
  BY <1>12, <1>13, <1>14 DEF Taken, Negative
<1> QED BY <1>5, <1>9, <1>15 DEF q

LEMMA GreetingText ==
  ASSUME str \in Seq(Int)
  PROVE  LET V == Int \cup {"M", "e", "m", "O", "S", "B"}
             g == Len(Greeting)
         IN  /\ FullText \in Seq(V)
             /\ g = 5 /\ Len(FullText) = g + Len(str) + 2
             /\ \A k \in 1 .. Len(str) : FullText[g + k] = str[k]
<1> DEFINE V == Int \cup {"M", "e", "m", "O", "S", "B"}
           a == Greeting
           b == <<"M", "B">>
           d == a \o str
<1>1. a \in Seq(V) /\ str \in Seq(V) /\ b \in Seq(V) /\ Len(a) = 5 /\ Len(b) = 2
  BY DEF Greeting
<1>2. FullText = d \o b
  BY DEF FullText
<1> HIDE DEF V, a, b
<1>3. Joins(d, a, str, V)
  BY <1>1, Joined
<1> HIDE DEF d
<1>4. d \in Seq(V)
  BY <1>3 DEF Joins
<1>5. Joins(FullText, d, b, V)
  BY <1>1, <1>2, <1>4, Joined
<1>6. Len(str) \in Nat /\ Len(d) = 5 + Len(str) /\ Len(FullText) = Len(d) + 2
  BY <1>1, <1>3, <1>5 DEF Joins
<1>7. ASSUME NEW k \in 1 .. Len(str) PROVE FullText[5 + k] = str[k]
  <2>1. d[5 + k] = str[k]
    BY <1>1, <1>3 DEF Joins
  <2>2. 5 + k \in 1 .. Len(d)
    BY <1>6
  <2> QED BY <1>5, <2>1, <2>2 DEF Joins
<1>8. Len(FullText) = 5 + Len(str) + 2 /\ FullText \in Seq(V)
  BY <1>5, <1>6 DEF Joins
<1> QED BY <1>1, <1>7, <1>8 DEF V, a

(* A number that ends where the screen does, or before, is on it. *)
LEMMA OnScreen ==
  ASSUME str \in Seq(Int), Screen(Len(FullText)),
         Len(str) > 0, Len(Greeting) + Len(str) <= ScreenSize
  PROVE  Reads(Len(Greeting), Len(str)) = str
<1> DEFINE l == Len(str)
           S == ScreenSize
           g == Len(Greeting)
           t == [k \in 1 .. l |-> terminal_buffer[g + k - 1]]
<1>1. /\ g = 5 /\ Len(FullText) = g + l + 2 /\ l \in Nat \ {0}
      /\ \A k \in 1 .. l : FullText[g + k] = str[k]
  BY GreetingText
<1>2. S \in Nat \ {0}
  BY TerminalAssumption DEF ScreenSize
<1>3. \A i \in 1 .. g + l + 2 : i + S > g + l + 2 => terminal_buffer[(i - 1) % S] = FullText[i]
  BY <1>1 DEF Screen
<1>4. g + l <= S
  OBVIOUS
<1> HIDE DEF l, S, g
<1>5. ASSUME NEW k \in 1 .. l PROVE terminal_buffer[g + k - 1] = str[k]
  <2>1. g + k \in 1 .. g + l + 2 /\ (g + k) + S > g + l + 2
    BY <1>1, <1>2, <1>4
  <2>2. terminal_buffer[((g + k) - 1) % S] = FullText[g + k]
    BY <1>3, <2>1
  <2>3. ((g + k) - 1) % S = g + k - 1
    <3>1. PICK m \in Nat : m = (g + k) - 1 /\ m = g + k - 1 /\ m < S
      BY <1>1, <1>2, <1>4
    <3>2. m % S = m
      BY <1>2, <3>1
    <3> QED BY <3>1, <3>2, Zenon
  <2> QED BY <1>1, <2>2, <2>3, Zenon
<1>6. t = [k \in 1 .. l |-> str[k]]
  BY <1>5
<1>7. str = [k \in 1 .. l |-> str[k]]
  BY DEF l
<1> HIDE DEF t
<1>8. t = str
  BY <1>6, <1>7, Zenon
<1> QED BY <1>8 DEF Reads, t, g, l

LEMMA WritingStep ==
  ASSUME start \in Starts, program \in Walkers, Writing, [Next]_vars
  PROVE  Writing' \/ Told'
<1>1. /\ start' = start /\ phase = "written" /\ OnTerminal
      /\ shown = << >> /\ converting = "no" /\ Converting(Total32, 10)
  BY StartKept DEF Writing
<1>2. PICK x \in Int : x = Total32 /\ x = Total32'
  BY <1>1, TotalType, Fixed
<1>3. str \in Seq(Int) /\ Len(str) > 0
  BY <1>1 DEF Converting, ItoaInv, Signs
<1> DEFINE V == Int \cup {"M", "e", "m", "O", "S", "B"}
<1>4. FullText \in Seq(V) /\ Len(FullText) \in Nat
  BY <1>3, GreetingText
<1> HIDE DEF V
<1>5. PICK w \in 0 .. Len(FullText) : Screen(w)
  BY DEF Writing
<1>6. CASE Write
  <2>1. WriteNext /\ itoa' = itoa /\ UNCHANGED <<phase, shown, converting>>
    BY <1>6 DEF Write, itoa
  <2>2. Converting(x, 10)'
    BY <1>1, <1>2, <2>1, ConvertingKeeps
  <2>3. Converting(Total32, 10)'
    BY <1>2, <2>2
  <2>4. w + 1 \in 0 .. Len(FullText) /\ Screen(w + 1)'
    BY <1>1, <1>4, <1>5, <2>1, ScreenStep
  <2>5. FullText' = FullText
    BY <2>1 DEF FullText, itoa
  <2>6. (\E v \in 0 .. Len(FullText) : Screen(v))'
    BY <2>4, <2>5
  <2> QED BY <1>1, <2>1, <2>3, <2>6, Fixed DEF Writing
<1>7. CASE Written
  <2>1. /\ text = << >> /\ text' = << >> /\ phase' = "done" /\ converting' = "no"
        /\ shown' = <<Reads(Len(Greeting), Len(str))>>
    BY <1>1, <1>7 DEF Written, In, itoa, terminal
  <2>2. Screen(Len(FullText))
    <3>1. text = SubSeq(FullText, w + 1, Len(FullText))
      BY <1>5 DEF Screen
    <3>2. w = Len(FullText)
      BY <1>4, <2>1, <3>1, SubSeqTail
    <3> QED BY <1>5, <3>2, Zenon
  <2>3. ASSUME ScreenFits PROVE TotalShown'
    <3>1. PICK d \in 1 .. ScreenSize :
            WORD \div MB < Power(10, d) /\ Len(Greeting) + d <= ScreenSize
      BY <2>3 DEF ScreenFits
    <3>2. PICK m \in Nat, negative \in BOOLEAN :
            /\ m = Total32 /\ m <= WORD \div MB
            /\ m = Taken(Total32, 10) /\ negative = Negative(Total32, 10) /\ ~negative
      <4>1. /\ Total32 \in Nat /\ Total32 <= WORD \div MB
            /\ Taken(Total32, 10) = Total32 /\ ~Negative(Total32, 10)
        BY <1>1, TotalBelow
      <4>2. Negative(Total32, 10) \in BOOLEAN
        BY DEF Negative
      <4> QED BY <4>1, <4>2, Zenon
    <3>3. ItoaInv(m, negative, 10)
      BY <1>1, <3>2, ConvertingIs
    <3>4. Len(str) <= d
      <4>1. ScreenSize \in Nat
        BY TerminalAssumption DEF ScreenSize
      <4>2. d \in Nat \ {0} /\ Power(10, d) \in Nat
        <5>1. d \in Nat \ {0} /\ d \in 0 .. d
          BY <4>1
        <5>2. PICK f \in [0 .. d -> Nat] : f[d] = Power(10, d)
          <6>1. d \in Nat /\ 10 \in Nat
            BY <5>1
          <6> QED BY <6>1, PowerFacts
        <5> QED BY <5>1, <5>2
      <4>3. WORD \div MB \in Nat
        BY MemoryMapAssumption, ItoaAssumption
      <4>4. m < Power(10, d)
        BY <3>1, <3>2, <4>2, <4>3
      <4>5. Len(str) <= Signs(negative) + d
        BY <1>1, <3>3, <4>2, <4>4, LengthBound
      <4> QED BY <1>3, <3>2, <4>2, <4>5 DEF Signs
    <3>5. Len(Greeting) + Len(str) <= ScreenSize
      <4>1. Len(Greeting) = 5 /\ ScreenSize \in Nat /\ d \in Nat
        BY TerminalAssumption DEF Greeting, ScreenSize
      <4> QED BY <1>3, <3>1, <3>4, <4>1
    <3>6. shown' = <<str>>
      BY <1>3, <2>1, <2>2, <3>5, OnScreen
    <3>7. Read(shown'[1], 10) = Read(str, 10)
      BY <3>6
    <3>8. Read(shown'[1], 10) =
            IF program = "printMemoryMap" THEN Unsigned(Total32) ELSE Signed(Total32)
      BY <1>1, <3>7, TotalReads
    <3> QED BY <1>1, <3>8, Fixed DEF TotalShown
  <2> QED BY <1>1, <2>1, <2>3, Fixed DEF Told
<1>8. CASE Stopped \/ UNCHANGED vars
  <2>1. UNCHANGED vars
    BY <1>8 DEF Stopped
  <2>2. /\ itoa' = itoa /\ UNCHANGED <<phase, shown, converting>> /\ terminal' = terminal
    BY <2>1 DEF vars, itoa
  <2>3. Converting(x, 10)'
    BY <1>1, <1>2, <2>2, ConvertingKeeps
  <2>4. Converting(Total32, 10)'
    BY <1>2, <2>3
  <2>5. FullText' = FullText
    BY <2>2 DEF FullText, itoa
  <2>6. Screen(w)'
    BY <1>5, <2>2, <2>5 DEF Screen, terminal
  <2>7. (\E v \in 0 .. Len(FullText) : Screen(v))'
    BY <2>5, <2>6
  <2> QED BY <1>1, <2>2, <2>4, <2>7, Fixed DEF Writing
<1>9. CASE EncodeNext \/ SetGdt \/ SetIdtNext \/ SetIdt \/ Walk \/ Total \/ Welcome
  BY <1>1, <1>9 DEF EncodeNext, SetGdt, SetIdtNext, SetIdt, Walk, Total, Welcome, In
<1>10. CASE RangeFrom \/ RangeTo \/ RangeNext \/ RangesDone \/ PutInt \/ Put \/ Announce
  BY <1>1, <1>10 DEF RangeFrom, RangeTo, RangeNext, RangesDone, PutInt, Put, Announce, In
<1>11. CASE Convert
  BY <1>1, <1>11 DEF Convert, Itoa, ItoaDigit, ItoaSwap, ItoaReturn
<1> QED BY <1>6, <1>7, <1>8, <1>9, <1>10, <1>11 DEF Next

-----------------------------------------------------------------------------
(* The ranges *)

(* t goes on after s. *)
Goes(t, s) ==
  /\ t = [i \in 1 .. Len(t) |-> t[i]]
  /\ \A i \in 1 .. Len(s) : t[i] = s[i]

(* s is a sequence. *)
Listed(s) == Len(s) \in Nat /\ s = [i \in 1 .. Len(s) |-> s[i]]

LEMMA ShownNext ==
  ASSUME NEW s, Listed(s), NEW x
  PROVE  /\ Goes(Append(s, x), s) /\ Len(Append(s, x)) = Len(s) + 1
         /\ Append(s, x)[Len(s) + 1] = x
<1> DEFINE V == {s[i] : i \in 1 .. Len(s)} \cup {x}
           t == Append(s, x)
<1>1. s \in Seq(V) /\ x \in V
  BY DEF Listed
<1> HIDE DEF V
<1>2. /\ t \in Seq(V) /\ Len(t) = Len(s) + 1 /\ t[Len(s) + 1] = x
      /\ \A i \in 1 .. Len(s) : t[i] = s[i]
  BY <1>1
<1> HIDE DEF t
<1>3. t = [i \in 1 .. Len(t) |-> t[i]]
  BY <1>2
<1> QED BY <1>2, <1>3 DEF Goes, t

LEMMA ShownTwo ==
  ASSUME NEW s, Listed(s), NEW x, NEW y
  PROVE  /\ Goes(s \o <<x, y>>, s) /\ Len(s \o <<x, y>>) = Len(s) + 2
         /\ (s \o <<x, y>>)[Len(s) + 1] = x /\ (s \o <<x, y>>)[Len(s) + 2] = y
<1> DEFINE V == {s[i] : i \in 1 .. Len(s)} \cup {x, y}
           b == <<x, y>>
           u == s \o b
<1>1. s \in Seq(V) /\ b \in Seq(V) /\ Len(b) = 2 /\ b[1] = x /\ b[2] = y
  BY DEF Listed
<1> HIDE DEF V, b
<1>2. Joins(u, s, b, V)
  BY <1>1, Joined
<1> HIDE DEF u
<1>3. /\ u \in Seq(V) /\ Len(u) = Len(s) + 2 /\ u[Len(s) + 1] = x /\ u[Len(s) + 2] = y
      /\ \A i \in 1 .. Len(s) : u[i] = s[i]
  BY <1>1, <1>2 DEF Joins
<1>4. u = [i \in 1 .. Len(u) |-> u[i]]
  BY <1>3
<1> QED BY <1>3, <1>4 DEF Goes, u, b

LEMMA EndsType ==
  ASSUME start \in Starts, NEW k \in 1 .. Len(start.entries)
  PROVE  /\ From(k) \in Nat /\ From(k) < WORD
         /\ To(k) \in Nat /\ To(k) < WORD
         /\ To(k) = Unsigned(From(k) + Unsigned(start.entries[k].length) - 1)
<1>1. PICK e : e = start.entries[k]
  OBVIOUS
<1>2. e.base \in Int /\ e.length \in Int
  BY <1>1, EntriesOf DEF Entries
<1>3. From(k) = Unsigned(e.base)
  BY <1>1 DEF From
<1>4. From(k) \in Nat /\ From(k) < WORD
  BY <1>2, <1>3, SignedType
<1>5. To(k) = Unsigned(From(k) + e.length - 1)
  BY <1>1 DEF To
<1>6. From(k) + e.length - 1 \in Int
  BY <1>2, <1>4
<1>7. To(k) \in Nat /\ To(k) < WORD
  BY <1>5, <1>6, SignedType
<1>8. To(k) = Unsigned(From(k) + Unsigned(e.length) - 1)
  BY <1>2, <1>3, <1>5, SumOfWords
<1> QED BY <1>1, <1>4, <1>7, <1>8

LEMMA StatusIs == ASSUME NEW t PROVE process_mem_type(t) = "usable" <=> t = 1
BY DEF process_mem_type, Statuses

(* What was printed stays as it was. *)
LEMMA LowWordsKept ==
  ASSUME start' = start, Goes(shown', shown),
         NEW j \in Nat \ {0}, 3 * j + 1 <= Len(shown), Len(shown) \in Nat, LowWordsRead(j)
  PROVE  LowWordsRead(j)'
<1>1. 3 * j - 1 \in 1 .. Len(shown) /\ 3 * j \in 1 .. Len(shown) /\ 3 * j + 1 \in 1 .. Len(shown)
  OBVIOUS
<1>2. /\ shown'[3 * j - 1] = shown[3 * j - 1] /\ shown'[3 * j] = shown[3 * j]
      /\ shown'[3 * j + 1] = shown[3 * j + 1]
  BY <1>1 DEF Goes
<1> QED BY <1>2, Fixed, Zenon DEF LowWordsRead

LEMMA PrintingStep ==
  ASSUME StructEntries, start \in Starts, program \in Walkers, Printing, [Next]_vars
  PROVE  Printing'
<1> DEFINE N == Len(start.entries)
<1>1. /\ start' = start /\ ~OnTerminal /\ text = << >> /\ TotalShown
      /\ shown = [i \in 1 .. Len(shown) |-> shown[i]]
  BY StartKept DEF Printing
<1>2. N \in Nat /\ program \in {"archive", "printMemoryMap"}
  BY <1>1, EntriesOf DEF Entries, OnTerminal, Walkers
<1>3. PICK k \in 0 .. N : Printed(k)
  BY DEF Printing
<1>4. /\ k \in Nat /\ n = Place(start.entries)[k]
      /\ Len(shown) = IF phase = "next" THEN 3 * k + 2 ELSE 3 * k + 1
      /\ \A j \in 1 .. k : LowWordsRead(j)
  BY <1>2, <1>3 DEF Printed
<1>5. Len(shown) \in Nat /\ 3 * k + 1 <= Len(shown)
  BY <1>4
<1>6. ASSUME Goes(shown', shown) PROVE \A j \in 1 .. k : LowWordsRead(j)'
  <2>1. ASSUME NEW j \in 1 .. k PROVE LowWordsRead(j)'
    <3>1. j \in Nat \ {0} /\ 3 * j + 1 <= Len(shown)
      BY <1>4, <1>5
    <3> QED BY <1>1, <1>4, <1>5, <1>6, <3>1, LowWordsKept
  <2> QED BY <2>1
<1>7. ASSUME NEW j \in 0 .. N, Printed(j)', Goes(shown', shown), text' = << >>
      PROVE  Printing'
  <2>1. shown'[1] = shown[1]
    BY <1>4, <1>5, <1>7 DEF Goes
  <2>2. TotalShown'
    BY <1>1, <2>1, Fixed, Zenon DEF TotalShown
  <2>3. (\E i \in 0 .. Len(start.entries) : Printed(i))'
    BY <1>1, <1>7
  <2> QED BY <1>1, <1>7, <2>2, <2>3, Fixed DEF Printing, Goes
<1>8. shown' = shown => Goes(shown', shown)
  BY <1>1 DEF Goes
<1>9. ASSUME k < N
      PROVE  /\ k + 1 \in 1 .. N
             /\ base_addr_low = From(k + 1)
             /\ length_low = Unsigned(start.entries[k + 1].length)
             /\ type = start.entries[k + 1].type
             /\ n + Stride = Place(start.entries)[k + 1]
  BY <1>4, <1>9, AtEntry
<1> HIDE DEF N
<1>10. CASE RangeFrom
  <2>1. /\ phase = "from" /\ n < mmap_length /\ phase' = "to"
        /\ Itoa32(base_addr_low, 16)
        /\ UNCHANGED <<shown, text, n>>
    BY <1>10 DEF RangeFrom, In, terminal
  <2>2. k < N
    BY <1>4, <2>1, AtEntry DEF N
  <2>3. PICK x \in Nat : x = From(k + 1) /\ x = From(k + 1)'
    <3>1. From(k + 1) \in Nat
      BY <1>9, <2>2, EndsType DEF N
    <3>2. From(k + 1)' = From(k + 1)
      BY <1>1, Fixed
    <3> QED BY <3>1, <3>2, Zenon
  <2>4. Itoa32(x, 16)
    BY <1>9, <2>1, <2>2, <2>3, Zenon
  <2>5. Converting(x, 16)'
    BY <1>1, <2>4, Itoa32Begins
  <2>6. Converting(From(k + 1), 16)'
    BY <2>3, <2>5
  <2>7. Printed(k)'
    BY <1>1, <1>2, <1>4, <1>6, <1>8, <2>1, <2>2, <2>6 DEF Printed, N
  <2> QED BY <1>1, <1>7, <1>8, <2>1, <2>7
<1>11. CASE RangeTo
  <2>1. /\ phase = "to" /\ converting = "no" /\ phase' = "next"
        /\ Itoa32(Unsigned(base_addr_low + length_low - 1), 16)
        /\ shown' = Append(shown, put_memory(str))
        /\ UNCHANGED <<text, n>>
    BY <1>11 DEF RangeTo, In, terminal
  <2>2. k < N /\ Converting(From(k + 1), 16) /\ Len(shown) = 3 * k + 1
    BY <1>3, <1>4, <2>1 DEF Printed, N
  <2>3. PICK x \in Nat, y \in Nat :
          /\ x = From(k + 1) /\ x < WORD
          /\ y = To(k + 1) /\ y = To(k + 1)' /\ As(x) = As(From(k + 1))'
          /\ y = Unsigned(x + length_low - 1)
    <3>1. /\ From(k + 1) \in Nat /\ From(k + 1) < WORD /\ To(k + 1) \in Nat
          /\ To(k + 1) = Unsigned(From(k + 1) + length_low - 1)
      BY <1>9, <2>2, EndsType DEF N
    <3>2. To(k + 1)' = To(k + 1) /\ As(From(k + 1))' = As(From(k + 1))
      <4>1. PICK z : z = From(k + 1) /\ z = From(k + 1)'
        BY <1>1, Fixed
      <4>2. As(z)' = As(z)
        BY <1>1, Fixed
      <4>3. As(From(k + 1))' = As(z)'
        BY <4>1
      <4> QED BY <1>1, <4>1, <4>2, <4>3, Fixed
    <3> QED BY <3>1, <3>2, Zenon
  <2>4. Converting(x, 16)
    BY <2>2, <2>3
  <2>5. Len(put_memory(str)) = HEXDIGITS /\ Read(put_memory(str), 16) = As(x)
    BY <1>2, <2>1, <2>3, <2>4, HexShown
  <2>6. Itoa32(y, 16)
    BY <1>9, <2>1, <2>2, <2>3, Zenon
  <2>7. Converting(y, 16)'
    BY <1>1, <2>6, Itoa32Begins
  <2>8. Converting(To(k + 1), 16)'
    BY <2>3, <2>7
  <2>9. /\ Goes(shown', shown) /\ Len(shown') = 3 * k + 2
        /\ shown'[3 * k + 2] = put_memory(str)
    <3>1. /\ Goes(shown', shown) /\ Len(shown') = Len(shown) + 1
          /\ shown'[Len(shown) + 1] = put_memory(str)
      <4>1. Listed(shown)
        BY <1>1, <1>5 DEF Listed
      <4> QED BY <2>1, <4>1, ShownNext, Zenon
    <3>2. Len(shown) + 1 = 3 * k + 2
      BY <1>4, <2>2
    <3> QED BY <3>1, <3>2, Zenon
  <2>10. Printed(k)'
    <3>1. (Read(shown[3 * k + 2], 16) = As(From(k + 1)))'
      BY <2>3, <2>5, <2>9
    <3> QED BY <1>1, <1>2, <1>4, <1>6, <2>1, <2>2, <2>5, <2>8, <2>9, <3>1 DEF Printed, N
  <2> QED BY <1>1, <1>7, <2>1, <2>9, <2>10
<1>12. CASE RangeNext
  <2>1. /\ phase = "next" /\ converting = "no" /\ phase' = "from"
        /\ converting' = converting
        /\ shown' = shown \o <<put_memory(str), process_mem_type(type)>>
        /\ n' = n + Stride /\ text' = text
    BY <1>12 DEF RangeNext, In, itoa, terminal
  <2>2. /\ k < N /\ Converting(To(k + 1), 16) /\ Len(shown) = 3 * k + 2
        /\ Len(shown[3 * k + 2]) = HEXDIGITS
        /\ Read(shown[3 * k + 2], 16) = As(From(k + 1))
    BY <1>3, <1>4, <2>1 DEF Printed, N
  <2>3. PICK y \in Nat : y = To(k + 1) /\ y < WORD
    BY <1>9, <2>2, EndsType DEF N
  <2>4. Len(put_memory(str)) = HEXDIGITS /\ Read(put_memory(str), 16) = As(To(k + 1))
    <3>1. Converting(y, 16)
      BY <2>2, <2>3
    <3>2. Len(put_memory(str)) = HEXDIGITS /\ Read(put_memory(str), 16) = As(y)
      BY <1>2, <2>1, <2>3, <3>1, HexShown
    <3> QED BY <2>3, <3>2, Zenon
  <2> DEFINE l == k + 1
  <2>5. /\ Goes(shown', shown) /\ Len(shown') = 3 * l + 1
        /\ shown'[3 * l - 1] = shown[3 * k + 2]
        /\ shown'[3 * l] = put_memory(str)
        /\ shown'[3 * l + 1] = process_mem_type(type)
    <3>1. /\ Goes(shown', shown) /\ Len(shown') = Len(shown) + 2
          /\ shown'[Len(shown) + 1] = put_memory(str)
          /\ shown'[Len(shown) + 2] = process_mem_type(type)
      <4>1. PICK p, q : p = put_memory(str) /\ q = process_mem_type(type)
        OBVIOUS
      <4>2. shown' = shown \o <<p, q>>
        BY <2>1, <4>1
      <4>3. /\ Goes(shown \o <<p, q>>, shown)
            /\ Len(shown \o <<p, q>>) = Len(shown) + 2
            /\ (shown \o <<p, q>>)[Len(shown) + 1] = p
            /\ (shown \o <<p, q>>)[Len(shown) + 2] = q
        <5>1. Listed(shown)
          BY <1>1, <1>5 DEF Listed
        <5> QED BY <5>1, ShownTwo
      <4> QED BY <4>1, <4>2, <4>3, Zenon
    <3>2. /\ Len(shown) + 2 = 3 * l + 1 /\ Len(shown) + 1 = 3 * l /\ 3 * k + 2 = 3 * l - 1
          /\ 3 * k + 2 \in 1 .. Len(shown)
      BY <1>4, <2>2
    <3>3. shown'[3 * k + 2] = shown[3 * k + 2]
      BY <3>1, <3>2 DEF Goes
    <3> QED BY <3>1, <3>2, <3>3, Zenon
  <2>6. l \in 1 .. N /\ l \in 0 .. N /\ n' = Place(start.entries)[l]
    BY <1>2, <1>9, <2>1, <2>2
  <2>7. LowWordsRead(l)'
    <3>1. shown'[3 * l + 1] = "usable" <=> l \in Usable
      <4>1. l \in Usable <=> type = 1
        BY <1>9, <2>2, <2>6 DEF Usable, N
      <4>2. process_mem_type(type) = "usable" <=> type = 1
        BY StatusIs
      <4> QED BY <2>5, <4>1, <4>2, Zenon
    <3>2. /\ Len(shown'[3 * l - 1]) = HEXDIGITS /\ Len(shown'[3 * l]) = HEXDIGITS
          /\ Read(shown'[3 * l - 1], 16) = As(From(l))
          /\ Read(shown'[3 * l], 16) = As(To(l))
      BY <2>2, <2>4, <2>5, Zenon
    <3>3. As(From(l))' = As(From(l)) /\ As(To(l))' = As(To(l))
      <4>1. PICK a, b : a = From(l) /\ a = From(l)' /\ b = To(l) /\ b = To(l)'
        BY <1>1, Fixed
      <4>2. As(a)' = As(a) /\ As(b)' = As(b)
        BY <1>1, Fixed
      <4>3. As(From(l))' = As(a)' /\ As(To(l))' = As(b)'
        BY <4>1
      <4> QED BY <4>1, <4>2, <4>3
    <3> HIDE DEF l
    <3> QED BY <1>1, <3>1, <3>2, <3>3, Fixed, Zenon DEF LowWordsRead
  <2>8. ASSUME NEW j \in 1 .. l PROVE LowWordsRead(j)'
    <3>1. j = l \/ j \in 1 .. k
      BY <1>4
    <3> QED BY <1>6, <2>5, <2>7, <3>1
  <2>9. Printed(l)'
    <3> HIDE DEF l
    <3> QED BY <1>1, <2>1, <2>5, <2>6, <2>8 DEF Printed
  <2> HIDE DEF l
  <2> QED BY <1>1, <1>7, <2>1, <2>5, <2>6, <2>9
<1>13. CASE RangesDone
  <2>1. /\ phase = "from" /\ phase' = "done" /\ converting = "no"
        /\ UNCHANGED <<shown, text, n, converting>>
    BY <1>13 DEF RangesDone, In, itoa, terminal
  <2>2. Printed(k)'
    BY <1>1, <1>4, <1>6, <1>8, <2>1 DEF Printed
  <2> QED BY <1>1, <1>3, <1>7, <1>8, <2>1, <2>2
<1>14. CASE Convert \/ Stopped \/ UNCHANGED vars
  <2>1. /\ Itoa \/ itoa' = itoa
        /\ UNCHANGED <<phase, shown, text, n>>
    BY <1>14 DEF Convert, Stopped, vars, terminal
  <2>2. converting = "no" => converting' = "no"
    BY <2>1 DEF Itoa, ItoaDigit, ItoaSwap, ItoaReturn, itoa
  <2>3. ASSUME k < N PROVE /\ Converting(From(k + 1), 16) => Converting(From(k + 1), 16)'
                           /\ Converting(To(k + 1), 16) => Converting(To(k + 1), 16)'
                           /\ As(From(k + 1))' = As(From(k + 1))
    <3>1. PICK a \in Nat, b \in Nat :
            a = From(k + 1) /\ a = From(k + 1)' /\ b = To(k + 1) /\ b = To(k + 1)'
      <4>1. From(k + 1) \in Nat /\ To(k + 1) \in Nat
        BY <1>9, <2>3, EndsType DEF N
      <4> QED BY <1>1, <4>1, Fixed
    <3>2. Converting(a, 16) => Converting(a, 16)'
      BY <1>1, <2>1, ConvertingKeeps
    <3>3. Converting(b, 16) => Converting(b, 16)'
      BY <1>1, <2>1, ConvertingKeeps
    <3>4. As(a)' = As(a)
      BY <1>1, Fixed
    <3> QED BY <3>1, <3>2, <3>3, <3>4
  <2>4. Printed(k)'
    BY <1>1, <1>3, <1>4, <1>6, <1>8, <2>1, <2>2, <2>3 DEF Printed, N
  <2> QED BY <1>1, <1>3, <1>7, <1>8, <2>1, <2>4
<1>15. phase \in {"from", "to", "next", "done"} /\ (phase = "done" => converting = "no")
  BY <1>3 DEF Printed
<1>16. CASE EncodeNext \/ SetGdt \/ SetIdtNext \/ SetIdt \/ Walk \/ Total \/ Welcome
  BY <1>15, <1>16 DEF EncodeNext, SetGdt, SetIdtNext, SetIdt, Walk, Total, Welcome, In
<1>17. CASE Announce \/ Write \/ Written \/ PutInt \/ Put
  BY <1>1, <1>15, <1>17 DEF Announce, Write, WriteNext, Written, PutInt, Put, In
<1> QED BY <1>10, <1>11, <1>12, <1>13, <1>14, <1>16, <1>17 DEF Next

-----------------------------------------------------------------------------
(* Totals and ranges in every state *)

LEMMA ToldStep ==
  ASSUME Told, [Next]_vars
  PROVE  Told'
<1>1. /\ start' = start /\ phase = "done" /\ converting = "no" /\ text = << >>
  BY StartKept DEF Told
<1>2. CASE Stopped \/ UNCHANGED vars
  <2>1. UNCHANGED vars
    BY <1>2 DEF Stopped
  <2>2. UNCHANGED <<phase, shown, converting, text>>
    BY <2>1 DEF vars, itoa, terminal
  <2>3. TotalShown => TotalShown'
    BY <1>1, <2>2, Fixed DEF TotalShown
  <2> QED BY <1>1, <2>2, <2>3, Fixed DEF Told
<1>3. CASE EncodeNext \/ SetGdt \/ SetIdtNext \/ SetIdt \/ Walk \/ Total \/ Welcome
  BY <1>1, <1>3 DEF EncodeNext, SetGdt, SetIdtNext, SetIdt, Walk, Total, Welcome, In
<1>4. CASE RangeFrom \/ RangeTo \/ RangeNext \/ RangesDone \/ PutInt \/ Put \/ Announce
  BY <1>1, <1>4 DEF RangeFrom, RangeTo, RangeNext, RangesDone, PutInt, Put, Announce, In
<1>5. CASE Write \/ Written \/ Convert
  BY <1>1, <1>5 DEF Write, WriteNext, Written, Convert, Itoa, ItoaDigit, ItoaSwap,
    ItoaReturn, In
<1> QED BY <1>2, <1>3, <1>4, <1>5 DEF Next

LEMMA WalkStep ==
  ASSUME StructEntries
  PROVE  start \in Starts /\ WalkInv /\ [Next]_vars => WalkInv'
<1> SUFFICES ASSUME start \in Starts, WalkInv, [Next]_vars PROVE WalkInv'
  OBVIOUS
<1>1. start' = start /\ program' = program
  BY StartKept, Fixed
<1>2. CASE program \in Walkers
  <2>1. Counting \/ Totalling \/ Writing \/ Told \/ Printing
    BY <1>2 DEF WalkInv
  <2>2. Counting' \/ Totalling' \/ Writing' \/ Told' \/ Printing'
    BY <1>2, <2>1, CountingStep, TotallingStep, WritingStep, ToldStep, PrintingStep
  <2>3. program' # "fifos"
    BY <1>1, <1>2 DEF Walkers
  <2> QED BY <2>2, <2>3 DEF WalkInv
<1>3. CASE program = "fifos"
  <2>1. phase \in {"gdt", "idt", "done"} /\ shown = << >> /\ converting = "no" /\ text = << >>
    BY <1>3 DEF WalkInv
  <2>2. CASE EncodeNext \/ SetGdt \/ SetIdtNext \/ SetIdt \/ Stopped \/ UNCHANGED vars
    <3>1. UNCHANGED <<shown, converting, text>> /\ phase' \in {"gdt", "idt", "done"}
      BY <1>3, <2>1, <2>2 DEF EncodeNext, SetGdt, SetIdtNext, SetIdt, Stopped, vars, itoa,
        terminal, In
    <3> QED BY <1>1, <1>3, <2>1, <3>1 DEF WalkInv, Walkers
  <2>3. CASE Walk \/ Total \/ Welcome \/ RangeFrom \/ RangeTo \/ RangeNext \/ RangesDone
    BY <2>1, <2>3 DEF Walk, Total, Welcome, RangeFrom, RangeTo, RangeNext, RangesDone, In
  <2>4. CASE Announce \/ Write \/ Written \/ PutInt \/ Put \/ Convert
    BY <2>1, <2>4 DEF Announce, Write, WriteNext, Written, PutInt, Put, Convert, Itoa,
      ItoaDigit, ItoaSwap, ItoaReturn, In
  <2> QED BY <2>2, <2>3, <2>4 DEF Next
<1>4. CASE program \notin Walkers /\ program # "fifos"
  BY <1>1, <1>4 DEF WalkInv, Walkers
<1> QED BY <1>2, <1>3, <1>4

LEMMA WalkInvariance == ASSUME StructEntries PROVE Spec => []WalkInv
<1>1. Init => start \in Starts /\ WalkInv
  <2> SUFFICES ASSUME Init PROVE WalkInv
    BY DEF Init
  <2>1. /\ start \in Starts /\ n = 0 /\ memsz = 0
        /\ shown = << >> /\ converting = "no" /\ text = << >>
        /\ phase = CASE start.program \in {"archive", "fifos"} -> "gdt"
                     [] start.program = "putint" -> "number"
                     [] OTHER -> "walk"
    BY DEF Init, ItoaInit, TerminalInit
  <2>2. CASE program \in {"archive", "fifos"}
    BY <2>1, <2>2 DEF WalkInv, Counting, Walkers, program
  <2>3. CASE program \in Walkers \ {"archive"}
    <3>1. phase = "walk" /\ program # "fifos"
      BY <2>1, <2>3 DEF Walkers, program
    <3>2. Entries(start.entries) /\ Len(start.entries) \in Nat
      BY <2>1, EntriesOf DEF Entries
    <3>3. /\ Place(start.entries)[0] = 0 /\ UsableBytes(start.entries)[0] = 0
          /\ Counted(0) = 0 /\ 0 \in 0 .. Len(start.entries)
      BY <3>2, PlaceFacts, UsableFacts, CountedType
    <3>4. n = Place(start.entries)[0] /\ memsz = Counted(UsableBytes(start.entries)[0])
      BY <2>1, <3>3
    <3> QED BY <2>1, <3>1, <3>3, <3>4 DEF WalkInv, Counting
  <2>4. CASE program \notin Walkers /\ program # "fifos"
    BY <2>4 DEF WalkInv
  <2> QED BY <2>2, <2>3, <2>4 DEF Walkers
<1>2. start \in Starts /\ WalkInv /\ [Next]_vars => WalkInv'
  BY WalkStep
<1> QED BY <1>1, <1>2, StartInvariance, PTL DEF Spec

(* The inductive invariant holds in every state, for any machines whose    *)
(* entries are of the size the two programs take them to be.               *)
THEOREM Invariance == ASSUME StructEntries PROVE Spec => []IInv
<1>1. TableInv /\ NumberInv /\ WalkInv => IInv
  BY DEF IInv
<1> QED BY <1>1, TableInvariance, NumberInvariance, WalkInvariance, PTL

(* The low words of a range that ends below the limit are its addresses,   *)
(* and neither is in the upper half of a word if the limit is the half.    *)
LEMMA EndsOfMap ==
  ASSUME start \in Starts, NEW k \in 1 .. Len(start.entries), LowWordsRead(k),
         EndsBelow(k, IF program = "archive" THEN Half ELSE WORD)
  PROVE  EndsRead(k)
<1>1. PICK b, l : b = start.entries[k].base /\ l = start.entries[k].length
  OBVIOUS
<1>2. b \in Nat /\ l \in Nat
  BY <1>1, EntriesOf DEF Entries
<1>3. WORD \in Nat /\ Half \in Nat /\ Half < WORD
  BY ItoaAssumption DEF Half
<1>4. l > 0 /\ b + l <= (IF program = "archive" THEN Half ELSE WORD)
  BY <1>1 DEF EndsBelow
<1>5. b + l - 1 \in Nat /\ b < WORD /\ b + l - 1 < WORD
      /\ (program = "archive" => b < Half /\ b + l - 1 < Half)
  BY <1>2, <1>3, <1>4
<1>6. Unsigned(b) = b /\ Unsigned(b + l - 1) = b + l - 1
  BY <1>2, <1>5, SmallWords
<1>7. From(k) = b /\ To(k) = b + l - 1
  BY <1>1, <1>6 DEF From, To
<1>8. As(b) = b /\ As(b + l - 1) = b + l - 1
  <2>1. program = "archive" => ~(b >= Half) /\ ~(b + l - 1 >= Half)
    BY <1>2, <1>3, <1>5
  <2> QED BY <2>1 DEF As
<1> QED BY <1>1, <1>7, <1>8 DEF LowWordsRead, EndsRead

(* Each range printed that ends in the first word of addresses, in the     *)
(* lower half of it for the archived kmain, is the one of the map, both    *)
(* ends with all their digits, for maps of any length and words of any     *)
(* width; and it is usable if the total counts it. *)
THEOREM RangesRead == ASSUME StructEntries PROVE Spec => []RangesFaithful
<1>1. start \in Starts /\ NumberInv /\ WalkInv => RangesFaithful
  <2> SUFFICES ASSUME start \in Starts, NumberInv, WalkInv,
                      NEW k \in 1 .. Len(start.entries), Len(shown) > 3 * k
               PROVE  LowWordsRead(k)
    BY EndsOfMap DEF RangesFaithful, RangePrinted, LowWordsRead
  <2>1. k \in Nat \ {0}
    BY EntriesOf DEF Entries
  <2>2. Len(shown) # 0 /\ Len(shown) # 1 /\ shown # << >>
    <3>1. ~(0 > 3 * k) /\ ~(1 > 3 * k)
      BY <2>1
    <3>2. Len(shown) # 0 /\ Len(shown) # 1
      BY <3>1, Zenon
    <3>3. Len(<< >>) = 0
      OBVIOUS
    <3> QED BY <3>2, <3>3, Zenon
  <2>3. program \in Walkers
    <3>1. program # "fifos"
      BY <2>2 DEF WalkInv
    <3>2. program # "putint"
      BY <2>2 DEF NumberInv
    <3> QED BY <3>1, <3>2, MemoryMapAssumption DEF program, Walkers
  <2>4. Printing
    BY <2>2, <2>3 DEF WalkInv, Counting, Totalling, Writing, Told
  <2>5. PICK j \in 0 .. Len(start.entries) : Printed(j)
    BY <2>4 DEF Printing
  <2>6. /\ j \in Nat /\ (Len(shown) = 3 * j + 2 \/ Len(shown) = 3 * j + 1)
        /\ \A i \in 1 .. j : LowWordsRead(i)
    BY <2>5, EntriesOf DEF Printed, Entries
  <2>7. k \in 1 .. j
    BY <2>1, <2>6
  <2> QED BY <2>6, <2>7
<1> QED BY <1>1, StartInvariance, NumberInvariance, WalkInvariance, PTL

(* The total printed is what the machine has, if the firmware keeps between*)
(* one byte and a megabyte of it and the counter can hold the sum.         *)
THEOREM MegabytesRead ==
  ASSUME StructEntries, ScreenFits PROVE Spec => []MegabytesExact
<1>1. start \in Starts /\ WalkInv => MegabytesExact
  <2> SUFFICES ASSUME start \in Starts, WalkInv, shown # << >>,
                      program \in {"memos", "init", "archive", "printMemoryMap"},
                      Lost \in 1 .. MB,
                      MB * start.megabytes <= (IF OnTerminal THEN WORD ELSE Half)
               PROVE  Read(shown[1], 10) = start.megabytes
    BY DEF MegabytesExact
  <2>1. TotalShown
    BY DEF WalkInv, Walkers, Counting, Totalling, Writing, Told, Printing
  <2>2. PICK es : es = start.entries
    OBVIOUS
  <2>3. Len(es) \in Nat /\ Entries(es)
    BY <2>2, EntriesOf DEF Entries
  <2>4. PICK u \in Nat : u = UsableBytes(es)[Len(es)]
    BY <2>3, UsableFacts
  <2>5. PICK g \in Nat : g = start.megabytes
    BY MemoryMapAssumption
  <2>6. /\ MB \in Nat /\ MB > 2 /\ WORD = 2 * Half /\ Half \in Nat /\ Half > 0
    BY MemoryMapAssumption, ItoaAssumption DEF Half
  <2>7. MB * g - u \in 1 .. MB
    BY <2>2, <2>4, <2>5 DEF Lost
  <2>8. MB * g <= (IF OnTerminal THEN WORD ELSE Half)
    BY <2>5
  <2> DEFINE l == MB * g - u
  <2>9. g > 0
    <3>1. g # 0
      <4>1. g = 0 => MB * g = 0
        BY <2>6
      <4> QED BY <2>6, <2>7, <4>1
    <3> QED BY <3>1
  <2>10. Counted(u) = u
    <3>1. MB * g \in Nat
      BY <2>6
    <3>2. u < (IF OnTerminal THEN WORD ELSE Half)
      BY <2>6, <2>7, <2>8, <3>1
    <3>3. u < WORD /\ (~OnTerminal => u < Half)
      BY <2>6, <3>2
    <3> QED BY <3>3, SmallWords DEF Counted
  <2>11. u \div MB + 1 = g
    <3>1. /\ u = (g - 1) * MB + (MB - l) /\ MB - l \in 0 .. MB - 1
          /\ g - 1 \in Int /\ MB \in Nat \ {0}
      <4>1. MB * g = (g - 1) * MB + MB
        BY <2>6
      <4>2. l \in 1 .. MB /\ MB * g = u + l
        BY <2>6, <2>7
      <4> HIDE DEF l
      <4>3. (g - 1) * MB \in Int /\ MB * g \in Int
        BY <2>6
      <4> QED BY <2>6, <4>1, <4>2, <4>3
    <3> HIDE DEF l
    <3>2. u \div MB = g - 1
      BY <3>1, DivisionUnique
    <3> QED BY <3>2
  <2>12. Total32 = g
    BY <2>2, <2>4, <2>10, <2>11 DEF Total32
  <2>13. g < Half /\ g < WORD
    <3>1. PICK j \in Nat : MB = 3 + j
      BY <2>6
    <3>2. MB * g = 3 * g + j * g /\ j * g >= 0
      BY <3>1
    <3>3. MB * g <= WORD
      BY <2>6, <2>8
    <3> QED BY <2>6, <2>9, <3>2, <3>3
  <2>14. Signed(g) = g /\ Unsigned(g) = g
    BY <2>13, SmallWords
  <2> QED BY <2>1, <2>5, <2>12, <2>14 DEF TotalShown
<1> QED BY <1>1, StartInvariance, WalkInvariance, PTL
=============================================================================
