--------------------------- MODULE Frames_proofs ---------------------------
(***************************************************************************)
(* Proofs about module Frames, for any number of threads, stacks of any    *)
(* size that holds what is pushed, and any number of words pushed.         *)
(***************************************************************************)
EXTENDS Frames, Lemmas

-----------------------------------------------------------------------------
(* Memory *)

LEMMA BytesLength ==
  ASSUME NEW v, NEW w \in Nat
  PROVE  Len(Bytes(v, w)) = w /\ \A k \in 1 .. w : Bytes(v, w)[k] = <<v, k - 1>>
BY DEF Bytes

(* A value that was written is there. *)
LEMMA WrittenThere ==
  ASSUME NEW m, NEW at \in Int, NEW v, NEW w \in Nat
  PROVE  Holds(Written(m, at, Bytes(v, w)), at, v, w)
<1> DEFINE b == Bytes(v, w)
<1>1. Len(b) = w /\ \A k \in 1 .. w : b[k] = <<v, k - 1>>
  BY BytesLength
<1> HIDE DEF b
<1> SUFFICES ASSUME NEW k \in 0 .. w - 1
             PROVE  /\ at + k \in DOMAIN Written(m, at, b)
                    /\ Written(m, at, b)[at + k] = <<v, k>>
  BY DEF Holds, b
<1>2. at + k \in at .. at + Len(b) - 1
  BY <1>1
<1>3. Written(m, at, b)[at + k] = b[at + k - at + 1]
  BY <1>1, <1>2 DEF Written
<1>4. at + k - at + 1 = k + 1 /\ k + 1 \in 1 .. w
  OBVIOUS
<1>5. b[k + 1] = <<v, k>>
  BY <1>1, <1>4
<1> QED BY <1>2, <1>3, <1>4, <1>5 DEF Written

(* What is written beside a value leaves it there. *)
LEMMA WrittenBeside ==
  ASSUME NEW m, NEW at \in Int, NEW b, Len(b) \in Nat,
         NEW a \in Int, NEW v, NEW w \in Nat, Holds(m, a, v, w),
         a + w <= at \/ at + Len(b) <= a
  PROVE  Holds(Written(m, at, b), a, v, w)
<1> SUFFICES ASSUME NEW k \in 0 .. w - 1
             PROVE  /\ a + k \in DOMAIN Written(m, at, b)
                    /\ Written(m, at, b)[a + k] = <<v, k>>
  BY DEF Holds
<1>1. a + k \in DOMAIN m /\ m[a + k] = <<v, k>>
  BY DEF Holds
<1>2. ~(a + k >= at /\ a + k < at + Len(b))
  OBVIOUS
<1> QED BY <1>1, <1>2 DEF Written

(* What memory is after it. *)
LEMMA WrittenDomain ==
  ASSUME NEW m, NEW at, NEW b
  PROVE  /\ DOMAIN Written(m, at, b) = DOMAIN m \cup at .. at + Len(b) - 1
         /\ Written(m, at, b) = [a \in DOMAIN Written(m, at, b) |->
                                   Written(m, at, b)[a]]
BY DEF Written

(* A value that is there is read. *)
LEMMA ThereRead ==
  ASSUME NEW m, NEW at \in Int, NEW v, NEW w \in Nat \ {0}, Holds(m, at, v, w)
  PROVE  Value(m, at, w) = v
<1>1. at .. at + w - 1 \subseteq DOMAIN m
  <2> SUFFICES ASSUME NEW a \in at .. at + w - 1 PROVE a \in DOMAIN m
    OBVIOUS
  <2>1. a - at \in 0 .. w - 1 /\ at + (a - at) = a
    OBVIOUS
  <2> QED BY <2>1 DEF Holds
<1>2. m[at] = <<v, 0>>
  <2>1. 0 \in 0 .. w - 1 /\ at + 0 = at
    OBVIOUS
  <2> QED BY <2>1 DEF Holds
<1>3. \A k \in 0 .. w - 1 : m[at + k] = <<m[at][1], k>>
  BY <1>2 DEF Holds
<1> QED BY <1>1, <1>2, <1>3 DEF Value

-----------------------------------------------------------------------------
(* The pushes and the pops of a frame *)

Widths == [k \in 1 .. 13 |-> IF k <= 9 THEN 4 ELSE 2]
Depths == [k \in 0 .. 13 |-> IF k <= 9 THEN 4 * k ELSE 18 + 2 * k]

(* How far down each push is. *)
LEMMA BelowFacts ==
  /\ Len(Pushes) = 13
  /\ \A k \in 1 .. 13 : Pushes[k][2] = Widths[k]
  /\ \A k \in 0 .. 13 : Below[k] = Depths[k]
<1>1. Len(Pushes) = 13
  BY DEF Pushes
<1>2. \A k \in 1 .. 13 : Pushes[k][2] = Widths[k]
  BY DEF Pushes, Widths
<1> DEFINE G(b) == b = [k \in 0 .. Len(Pushes) |->
                          IF k = 0 THEN 0 ELSE b[k - 1] + Pushes[k][2]]
<1>3. G(Depths)
  <2>1. ASSUME NEW k \in 0 .. 13, k # 0
        PROVE  Depths[k] = Depths[k - 1] + Pushes[k][2]
    BY <1>2, <2>1 DEF Depths, Widths
  <2> QED BY <1>1, <2>1 DEF Depths
<1>4. Below = CHOOSE b : G(b)
  BY DEF Below
<1>5. G(Below)
  BY <1>3, <1>4
<1> DEFINE S == {k \in Nat : k \in 0 .. 13 => Below[k] = Depths[k]}
<1>6. 0 \in S
  BY <1>5 DEF Depths
<1>7. ASSUME NEW k \in Nat, k \in S PROVE k + 1 \in S
  <2>1. CASE k + 1 \in 0 .. 13
    <3>1. Below[k + 1] = Below[k] + Pushes[k + 1][2]
      BY <1>1, <1>5, <2>1
    <3>2. Depths[k + 1] = Depths[k] + Pushes[k + 1][2]
      BY <1>2, <2>1 DEF Depths, Widths
    <3> QED BY <1>7, <2>1, <3>1, <3>2
  <2> QED BY <2>1
<1> HIDE DEF S
<1>8. Nat \subseteq S
  BY <1>6, <1>7, SetInduction
<1>9. \A k \in 0 .. 13 : Below[k] = Depths[k]
  BY <1>8 DEF S
<1> QED BY <1>1, <1>2, <1>9
Offsets == [k \in 1 .. 14 |-> IF k <= 4 THEN 2 * k - 2 ELSE 4 * k - 12]

(* The pops are the pushes in reverse, but for the return address. *)
LEMMA OffsetFacts ==
  /\ Len(Pops) = 14
  /\ \A k \in 1 .. 13 : Pops[k] = Pushes[14 - k]
  /\ Pops[14] = <<"eip", 4>>
  /\ \A j, k \in 1 .. 14 : Pops[j][1] = Pops[k][1] => j = k
  /\ \A k \in 1 .. 14 : Offset[k] = Offsets[k]
<1>1. Len(Pops) = 14 /\ Pops[14] = <<"eip", 4>>
  BY DEF Pops
<1>2. \A k \in 1 .. 13 : Pops[k] = Pushes[14 - k]
  BY DEF Pops, Pushes
<1>3. \A j, k \in 1 .. 14 : Pops[j][1] = Pops[k][1] => j = k
  BY DEF Pops
<1>4. \A k \in 1 .. 14 : Pops[k][2] = IF k <= 4 THEN 2 ELSE 4
  BY DEF Pops
<1> DEFINE G(b) == b = [k \in 1 .. Len(Pops) |->
                          IF k = 1 THEN 0 ELSE b[k - 1] + Pops[k - 1][2]]
<1>5. G(Offsets)
  <2>1. ASSUME NEW k \in 1 .. 14, k # 1
        PROVE  Offsets[k] = Offsets[k - 1] + Pops[k - 1][2]
    BY <1>4, <2>1 DEF Offsets
  <2> QED BY <1>1, <2>1 DEF Offsets
<1>6. Offset = CHOOSE b : G(b)
  BY DEF Offset
<1>7. G(Offset)
  BY <1>5, <1>6
<1> DEFINE S == {k \in Nat : k + 1 \in 1 .. 14 => Offset[k + 1] = Offsets[k + 1]}
<1>8. 0 \in S
  BY <1>1, <1>7 DEF Offsets
<1>9. ASSUME NEW k \in Nat, k \in S PROVE k + 1 \in S
  <2>1. CASE k + 2 \in 1 .. 14
    <3>1. Offset[k + 2] = Offset[k + 1] + Pops[k + 1][2]
      BY <1>1, <1>7, <2>1
    <3>2. Offsets[k + 2] = Offsets[k + 1] + Pops[k + 1][2]
      BY <1>4, <2>1 DEF Offsets
    <3>3. Offset[(k + 1) + 1] = Offsets[(k + 1) + 1]
      BY <1>9, <2>1, <3>1, <3>2
    <3> QED BY <3>3
  <2> QED BY <2>1
<1> HIDE DEF S
<1>10. Nat \subseteq S
  BY <1>8, <1>9, SetInduction
<1>11. ASSUME NEW k \in 1 .. 14 PROVE Offset[k] = Offsets[k]
  <2>1. k - 1 \in S
    BY <1>10
  <2> QED BY <2>1 DEF S
<1> QED BY <1>1, <1>2, <1>3, <1>11

(* Where a register is popped from: where its push has put it. *)
LEMMA PoppedFrom ==
  ASSUME NEW m, NEW at \in Int
  PROVE  /\ \A k \in 1 .. 13 : Popped(m, at, Pushes[k][1]) =
                               Value(m, at + FRAME - Below[k], Pushes[k][2])
         /\ Popped(m, at, "eip") = Value(m, at + FRAME, 4)
<1>1. ASSUME NEW j \in 1 .. 14
      PROVE  Popped(m, at, Pops[j][1]) = Value(m, at + Offset[j], Pops[j][2])
  <2>1. j = CHOOSE k \in 1 .. Len(Pops) : Pops[k][1] = Pops[j][1]
    BY OffsetFacts
  <2> QED BY <2>1, Zenon DEF Popped
<1>2. ASSUME NEW k \in 1 .. 13
      PROVE  Popped(m, at, Pushes[k][1]) =
               Value(m, at + FRAME - Below[k], Pushes[k][2])
  <2>1. 14 - k \in 1 .. 13 /\ 14 - k \in 1 .. 14 /\ 14 - (14 - k) = k
    OBVIOUS
  <2>2. Pops[14 - k] = Pushes[k]
    BY <2>1, OffsetFacts
  <2>3. at + Offset[14 - k] = at + FRAME - Below[k]
    BY <2>1, OffsetFacts, BelowFacts DEF Offsets, Depths, FRAME
  <2> QED BY <1>1, <2>1, <2>2, <2>3
<1>3. Popped(m, at, "eip") = Value(m, at + FRAME, 4)
  <2>1. Pops[14][1] = "eip" /\ Pops[14][2] = 4
    BY OffsetFacts
  <2>2. at + Offset[14] = at + FRAME
    BY OffsetFacts DEF Offsets, FRAME
  <2> QED BY <1>1, <2>1, <2>2
<1> QED BY <1>2, <1>3

(* What a register is pushed as. *)
ValueOf(at, r, name) == IF name = "esp" THEN at ELSE r[name]

(* Memory after each of the pushes, a recursive function that exists. *)
LEMMA AfterExists ==
  ASSUME NEW m, NEW at \in Int, NEW r
  PROVE  \E after :
           /\ after = [k \in 0 .. 13 |->
                IF k = 0 THEN m
                ELSE Written(after[k - 1], at - Below[k],
                       Bytes(ValueOf(at, r, Pushes[k][1]), Pushes[k][2]))]
           /\ Pushed(m, at, r) = after[13]
<1> DEFINE Is(h, n) == h = [k \in 0 .. n |->
                IF k = 0 THEN m
                ELSE Written(h[k - 1], at - Below[k],
                       Bytes(ValueOf(at, r, Pushes[k][1]), Pushes[k][2]))]
           S == {n \in Nat : \E h : Is(h, n)}
<1>1. 0 \in S
  <2>1. Is([k \in 0 .. 0 |-> m], 0)
    OBVIOUS
  <2> QED BY <2>1
<1>2. ASSUME NEW n \in Nat, n \in S PROVE n + 1 \in S
  <2>1. PICK h : Is(h, n)
    BY <1>2
  <2> DEFINE x == Written(h[n], at - Below[n + 1],
                    Bytes(ValueOf(at, r, Pushes[n + 1][1]), Pushes[n + 1][2]))
             g == [k \in 0 .. n + 1 |-> IF k = n + 1 THEN x ELSE h[k]]
  <2>2. ASSUME NEW k \in 0 .. n + 1
        PROVE  g[k] = IF k = 0 THEN m
                      ELSE Written(g[k - 1], at - Below[k],
                             Bytes(ValueOf(at, r, Pushes[k][1]), Pushes[k][2]))
    BY <2>1, <2>2
  <2>3. Is(g, n + 1)
    BY <2>2
  <2> HIDE DEF Is, g
  <2>4. \E q : Is(q, n + 1)
    BY <2>3
  <2> QED BY <2>4
<1> HIDE DEF S
<1>3. 13 \in S
  BY <1>1, <1>2, SetInduction
<1> DEFINE after == CHOOSE h : Is(h, 13)
<1>4. Is(after, 13)
  BY <1>3 DEF S
<1>5. Pushed(m, at, r) = after[13]
  BY BelowFacts, Zenon DEF Pushed, ValueOf
<1> QED BY <1>4, <1>5
(* The pushes write one below the other. *)
LEMMA DepthFacts ==
  /\ \A k \in 0 .. 13 : Below[k] \in 0 .. FRAME
  /\ \A k \in 1 .. 13 : /\ Pushes[k][2] \in Nat \ {0}
                       /\ Below[k] = Below[k - 1] + Pushes[k][2]
  /\ \A j, k \in 0 .. 13 : j <= k => Below[j] <= Below[k]
  /\ Below[0] = 0 /\ Below[13] = FRAME
BY BelowFacts DEF Depths, Widths, FRAME

LEMMA NextDepth ==
  ASSUME NEW k \in Nat, k + 1 \in 0 .. 13
  PROVE  /\ Below[k] \in 0 .. 44 /\ Below[k + 1] \in 0 .. 44
         /\ Pushes[k + 1][2] \in Nat \ {0}
         /\ Below[k + 1] = Below[k] + Pushes[k + 1][2]
<1>1. k \in 0 .. 13 /\ k + 1 \in 1 .. 13 /\ (k + 1) - 1 = k
  OBVIOUS
<1> QED BY <1>1, DepthFacts DEF FRAME

(* What is above the stack pointer, or below all pushes, they leave.       *)
LEMMA PushedBeside ==
  ASSUME NEW m, NEW at \in Int, NEW r,
         NEW a \in Int, NEW v, NEW w \in Nat, Holds(m, a, v, w),
         a >= at \/ a + w <= at - FRAME
  PROVE  Holds(Pushed(m, at, r), a, v, w)
<1>1. PICK after :
           /\ after = [k \in 0 .. 13 |->
                IF k = 0 THEN m
                ELSE Written(after[k - 1], at - Below[k],
                       Bytes(ValueOf(at, r, Pushes[k][1]), Pushes[k][2]))]
           /\ Pushed(m, at, r) = after[13]
  BY AfterExists
<1> DEFINE S == {k \in Nat : k \in 0 .. 13 => Holds(after[k], a, v, w)}
<1>2. 0 \in S
  BY <1>1
<1>3. ASSUME NEW k \in Nat, k \in S, k + 1 \in 0 .. 13
      PROVE  Holds(after[k + 1], a, v, w)
  <2> DEFINE e == at - Below[k + 1]
             b == Bytes(ValueOf(at, r, Pushes[k + 1][1]), Pushes[k + 1][2])
  <2>1. after[k + 1] = Written(after[k], e, b)
    BY <1>1, <1>3
  <2>2. Len(b) = Pushes[k + 1][2] /\ Pushes[k + 1][2] \in Nat
    <3>1. Pushes[k + 1][2] \in Nat
      BY <1>3, NextDepth
    <3> QED BY <3>1, BytesLength
  <2>3. /\ e \in Int /\ Below[k + 1] = Below[k] + Pushes[k + 1][2]
        /\ Below[k] \in 0 .. 44 /\ Below[k + 1] \in 0 .. 44
    BY <1>3, NextDepth
  <2>4. a + w <= e \/ e + Len(b) <= a
    <3> DEFINE p == Pushes[k + 1][2]
               c == Below[k]
               d == Below[k + 1]
               l == Len(b)
    <3>1. /\ p \in Nat /\ c \in 0 .. 44 /\ d \in 0 .. 44
          /\ d = c + p /\ e = at - d /\ l = p
      BY <2>2, <2>3
    <3>2. a >= at \/ a + w <= at - 44
      BY DEF FRAME
    <3>3. a + w <= e \/ e + l <= a
      <4> HIDE DEF e, p, c, d, l
      <4> QED BY <3>1, <3>2
    <3> QED BY <3>3
  <2>5. Holds(after[k], a, v, w)
    BY <1>3
  <2> HIDE DEF e, b
  <2>6. Len(b) \in Nat
    BY <2>2
  <2> QED BY <2>1, <2>3, <2>4, <2>5, <2>6, WrittenBeside
<1>4. ASSUME NEW k \in Nat, k \in S PROVE k + 1 \in S
  BY <1>3, <1>4
<1> HIDE DEF S
<1>5. 13 \in S
  BY <1>2, <1>4, SetInduction
<1> QED BY <1>1, <1>5 DEF S

(* Each value is in its place, and nothing else was written. *)
LEMMA PushedThere ==
  ASSUME NEW m, NEW at \in Int, NEW r
  PROVE  /\ \A k \in 1 .. 13 : Holds(Pushed(m, at, r), at - Below[k],
                                ValueOf(at, r, Pushes[k][1]), Pushes[k][2])
         /\ DOMAIN Pushed(m, at, r) = DOMAIN m \cup at - FRAME .. at - 1
         /\ Pushed(m, at, r) = [a \in DOMAIN Pushed(m, at, r) |->
                                   Pushed(m, at, r)[a]]
<1>1. PICK after :
           /\ after = [k \in 0 .. 13 |->
                IF k = 0 THEN m
                ELSE Written(after[k - 1], at - Below[k],
                       Bytes(ValueOf(at, r, Pushes[k][1]), Pushes[k][2]))]
           /\ Pushed(m, at, r) = after[13]
  BY AfterExists
<1> DEFINE There(k, j) == Holds(after[k], at - Below[j],
                                ValueOf(at, r, Pushes[j][1]), Pushes[j][2])
           S == {k \in Nat : k \in 0 .. 13 =>
                  /\ \A j \in 1 .. k : There(k, j)
                  /\ DOMAIN after[k] = DOMAIN m \cup at - Below[k] .. at - 1}
<1>2. 0 \in S
  BY <1>1, DepthFacts
<1>3. ASSUME NEW k \in Nat, k \in S, k + 1 \in 0 .. 13
      PROVE  /\ \A j \in 1 .. k + 1 : There(k + 1, j)
             /\ DOMAIN after[k + 1] = DOMAIN m \cup at - Below[k + 1] .. at - 1
  <2> DEFINE e == at - Below[k + 1]
             x == ValueOf(at, r, Pushes[k + 1][1])
             w == Pushes[k + 1][2]
  <2>1. after[k + 1] = Written(after[k], e, Bytes(x, w))
    BY <1>1, <1>3
  <2>2. /\ e \in Int /\ w \in Nat /\ Below[k + 1] = Below[k] + w
        /\ Below[k] \in 0 .. 44 /\ Below[k + 1] \in 0 .. 44
    BY <1>3, NextDepth
  <2>3. Len(Bytes(x, w)) = w
    BY <2>2, BytesLength
  <2>4. There(k + 1, k + 1)
    <3> HIDE DEF e, x, w
    <3>1. Holds(after[k + 1], e, x, w)
      BY <2>1, <2>2, WrittenThere
    <3> QED BY <3>1 DEF e, x, w
  <2>5. ASSUME NEW j \in 1 .. k PROVE There(k + 1, j)
    <3> DEFINE a == at - Below[j]
               v == ValueOf(at, r, Pushes[j][1])
               u == Pushes[j][2]
    <3>1. /\ a \in Int /\ u \in Nat /\ Below[j] <= Below[k]
          /\ Below[j] \in 0 .. 44
      <4>1. j \in 1 .. 13 /\ j \in 0 .. 13 /\ k \in 0 .. 13 /\ j <= k
        BY <1>3
      <4>2. Below[j] <= Below[k] /\ Below[j] \in 0 .. FRAME /\ u \in Nat
        BY <4>1, DepthFacts
      <4> QED BY <4>2 DEF FRAME
    <3>2. Holds(after[k], a, v, u)
      BY <1>3
    <3>3. e + w <= a
      BY <2>2, <3>1 DEF FRAME
    <3>4. a = at - Below[j] /\ There(k + 1, j) = Holds(after[k + 1], a, v, u)
      OBVIOUS
    <3> HIDE DEF a, v, u, e, x, w, There
    <3>5. Holds(Written(after[k], e, Bytes(x, w)), a, v, u)
      <4>1. Len(Bytes(x, w)) \in Nat /\ e + Len(Bytes(x, w)) <= a
        BY <2>2, <2>3, <3>3
      <4> QED BY <2>2, <3>1, <3>2, <4>1, WrittenBeside
    <3> QED BY <2>1, <3>4, <3>5
  <2>6. DOMAIN after[k + 1] = DOMAIN after[k] \cup e .. e + w - 1
    <3> HIDE DEF e, x, w, There
    <3>1. DOMAIN after[k + 1] = DOMAIN after[k] \cup e .. e + Len(Bytes(x, w)) - 1
      BY <2>1 DEF Written
    <3> QED BY <2>3, <3>1
  <2>7. DOMAIN after[k] = DOMAIN m \cup at - Below[k] .. at - 1
    BY <1>3
  <2>8. DOMAIN after[k + 1] = DOMAIN m \cup at - Below[k + 1] .. at - 1
    BY <2>2, <2>6, <2>7 DEF FRAME
  <2>9. \A j \in 1 .. k + 1 : j = k + 1 \/ j \in 1 .. k
    OBVIOUS
  <2> HIDE DEF There
  <2> QED BY <2>4, <2>5, <2>8, <2>9
<1>4. ASSUME NEW k \in Nat, k \in S PROVE k + 1 \in S
  BY <1>3, <1>4
<1> HIDE DEF S
<1>5. 13 \in S
  BY <1>2, <1>4, SetInduction
<1>6. /\ \A j \in 1 .. 13 : There(13, j)
      /\ DOMAIN after[13] = DOMAIN m \cup at - FRAME .. at - 1
  BY <1>5, DepthFacts DEF S
<1>7. after[13] = [a \in DOMAIN after[13] |-> after[13][a]]
  <2> DEFINE b == Bytes(ValueOf(at, r, Pushes[13][1]), Pushes[13][2])
             e == at - Below[13]
  <2>1. after[13] = Written(after[12], e, b)
    BY <1>1
  <2> HIDE DEF b, e
  <2> QED BY <2>1, WrittenDomain
<1> QED BY <1>1, <1>6, <1>7
-----------------------------------------------------------------------------
(* Frames *)

(* From m to n only addresses from lo to below hi are written. *)
WritesIn(m, n, lo, hi) ==
  /\ n = [a \in DOMAIN n |-> n[a]]
  /\ DOMAIN n \subseteq DOMAIN m \cup lo .. hi - 1
  /\ \A a \in DOMAIN m \cap Int :
       a < lo \/ a >= hi => a \in DOMAIN n /\ n[a] = m[a]
  /\ \A a \in Int, w \in Nat : \A v :
       Holds(m, a, v, w) /\ (a + w <= lo \/ a >= hi) => Holds(n, a, v, w)

LEMMA WrittenIn ==
  ASSUME NEW m, NEW at \in Int, NEW v, NEW w \in Nat
  PROVE  WritesIn(m, Written(m, at, Bytes(v, w)), at, at + w)
<1> DEFINE b == Bytes(v, w)
<1>1. Len(b) = w
  BY BytesLength
<1> HIDE DEF b
<1>2. /\ DOMAIN Written(m, at, b) = DOMAIN m \cup at .. at + w - 1
      /\ Written(m, at, b) = [a \in DOMAIN Written(m, at, b) |-> Written(m, at, b)[a]]
  BY <1>1 DEF Written
<1>3. ASSUME NEW a \in Int, NEW u \in Nat, NEW x, Holds(m, a, x, u),
             a + u <= at \/ a >= at + w
      PROVE  Holds(Written(m, at, b), a, x, u)
  BY <1>1, <1>3, WrittenBeside
<1>4. ASSUME NEW a \in DOMAIN m \cap Int, a < at \/ a >= at + w
      PROVE  a \in DOMAIN Written(m, at, b) /\ Written(m, at, b)[a] = m[a]
  BY <1>1, <1>4 DEF Written
<1> QED BY <1>2, <1>3, <1>4 DEF WritesIn, b

(* The pushes change no byte above the stack pointer, or below all of      *)
(* them. *)
LEMMA PushedElsewhere ==
  ASSUME NEW m, NEW at \in Int, NEW r,
         NEW a \in DOMAIN m \cap Int, a >= at \/ a < at - FRAME
  PROVE  a \in DOMAIN Pushed(m, at, r) /\ Pushed(m, at, r)[a] = m[a]
<1>1. PICK after :
           /\ after = [k \in 0 .. 13 |->
                IF k = 0 THEN m
                ELSE Written(after[k - 1], at - Below[k],
                       Bytes(ValueOf(at, r, Pushes[k][1]), Pushes[k][2]))]
           /\ Pushed(m, at, r) = after[13]
  BY AfterExists
<1> DEFINE S == {k \in Nat : k \in 0 .. 13 =>
                  a \in DOMAIN after[k] /\ after[k][a] = m[a]}
<1>2. 0 \in S
  BY <1>1
<1>3. ASSUME NEW k \in Nat, k \in S, k + 1 \in 0 .. 13
      PROVE  a \in DOMAIN after[k + 1] /\ after[k + 1][a] = m[a]
  <2> DEFINE e == at - Below[k + 1]
             x == ValueOf(at, r, Pushes[k + 1][1])
             w == Pushes[k + 1][2]
  <2>1. after[k + 1] = Written(after[k], e, Bytes(x, w))
    BY <1>1, <1>3
  <2>2. /\ e \in Int /\ w \in Nat /\ Below[k + 1] = Below[k] + w
        /\ Below[k] \in 0 .. 44 /\ Below[k + 1] \in 0 .. 44
    BY <1>3, NextDepth
  <2>3. a \in DOMAIN after[k] \cap Int /\ after[k][a] = m[a]
    BY <1>3
  <2>4. a < e \/ a >= e + w
    BY <2>2 DEF FRAME
  <2> HIDE DEF e, x, w
  <2>5. WritesIn(after[k], Written(after[k], e, Bytes(x, w)), e, e + w)
    BY <2>2, WrittenIn
  <2> QED BY <2>1, <2>3, <2>4, <2>5 DEF WritesIn
<1>4. ASSUME NEW k \in Nat, k \in S PROVE k + 1 \in S
  BY <1>3, <1>4
<1> HIDE DEF S
<1>5. 13 \in S
  BY <1>2, <1>4, SetInduction
<1> QED BY <1>1, <1>5 DEF S

LEMMA PushedIn ==
  ASSUME NEW m, NEW at \in Int, NEW r
  PROVE  WritesIn(m, Pushed(m, at, r), at - FRAME, at)
<1>1. ASSUME NEW a \in Int, NEW u \in Nat, NEW x, Holds(m, a, x, u),
             a + u <= at - FRAME \/ a >= at
      PROVE  Holds(Pushed(m, at, r), a, x, u)
  BY <1>1, PushedBeside
<1>2. /\ DOMAIN Pushed(m, at, r) = DOMAIN m \cup at - FRAME .. at - 1
      /\ Pushed(m, at, r) = [a \in DOMAIN Pushed(m, at, r) |-> Pushed(m, at, r)[a]]
  BY PushedThere
<1>3. ASSUME NEW a \in DOMAIN m \cap Int, a < at - FRAME \/ a >= at
      PROVE  a \in DOMAIN Pushed(m, at, r) /\ Pushed(m, at, r)[a] = m[a]
  BY <1>3, PushedElsewhere
<1> QED BY <1>1, <1>2, <1>3 DEF WritesIn

(* One write after another, in a common range. *)
LEMMA WritesCompose ==
  ASSUME NEW m, NEW n, NEW o, NEW lo \in Int, NEW hi \in Int,
         NEW lo1 \in Int, NEW hi1 \in Int, WritesIn(m, n, lo1, hi1),
         NEW lo2 \in Int, NEW hi2 \in Int, WritesIn(n, o, lo2, hi2),
         lo <= lo1, lo <= lo2, hi1 <= hi, hi2 <= hi
  PROVE  WritesIn(m, o, lo, hi)
<1>1. ASSUME NEW a \in Int, NEW w \in Nat, NEW v, Holds(m, a, v, w),
             a + w <= lo \/ a >= hi
      PROVE  Holds(o, a, v, w)
  <2>1. Holds(n, a, v, w)
    BY <1>1 DEF WritesIn
  <2> QED BY <1>1, <2>1 DEF WritesIn
<1>2. DOMAIN o \subseteq DOMAIN m \cup lo .. hi - 1
  <2>1. lo1 .. hi1 - 1 \subseteq lo .. hi - 1 /\ lo2 .. hi2 - 1 \subseteq lo .. hi - 1
    OBVIOUS
  <2> QED BY <2>1 DEF WritesIn
<1>3. o = [a \in DOMAIN o |-> o[a]]
  BY DEF WritesIn
<1>4. ASSUME NEW a \in DOMAIN m \cap Int, a < lo \/ a >= hi
      PROVE  a \in DOMAIN o /\ o[a] = m[a]
  <2>1. a \in DOMAIN n \cap Int /\ n[a] = m[a]
    BY <1>4 DEF WritesIn
  <2>2. a < lo2 \/ a >= hi2
    BY <1>4
  <2> QED BY <2>1, <2>2 DEF WritesIn
<1> QED BY <1>1, <1>2, <1>3, <1>4 DEF WritesIn

(* The pushes on a return address make a frame. *)
LEMMA FrameMade ==
  ASSUME NEW m, NEW at \in Int, NEW r, NEW place, Holds(m, at, place, 4)
  PROVE  FrameAt(Pushed(m, at, r), at - FRAME, r, place)
<1> DEFINE n == Pushed(m, at, r)
<1>1. at - FRAME + FRAME = at
  BY DEF FRAME
<1>2. Holds(n, at, place, 4)
  BY PushedBeside
<1>3. ASSUME NEW k \in 1 .. 13, Pushes[k][1] # "esp"
      PROVE  Holds(n, at - FRAME + FRAME - Below[k], r[Pushes[k][1]], Pushes[k][2])
  <2>1. Holds(n, at - Below[k], ValueOf(at, r, Pushes[k][1]), Pushes[k][2])
    BY PushedThere
  <2>2. ValueOf(at, r, Pushes[k][1]) = r[Pushes[k][1]]
    BY <1>3 DEF ValueOf
  <2>3. Holds(n, at - Below[k], r[Pushes[k][1]], Pushes[k][2])
    BY <2>1, <2>2, Zenon
  <2>4. at - Below[k] = at - FRAME + FRAME - Below[k]
    <3>1. k \in 0 .. 13
      OBVIOUS
    <3>2. Below[k] \in 0 .. FRAME
      BY <3>1, DepthFacts
    <3> QED BY <3>2 DEF FRAME
  <2> QED BY <2>3, <2>4, Zenon
<1> HIDE DEF n
<1>4. FrameAt(n, at - FRAME, r, place)
  BY <1>1, <1>2, <1>3, BelowFacts DEF FrameAt
<1> QED BY <1>4 DEF n

(* What was pushed is popped. *)
LEMMA FramePopped ==
  ASSUME NEW m, NEW at \in Int, NEW r, r = [q \in Registers |-> r[q]],
         NEW place, FrameAt(m, at, r, place)
  PROVE  /\ [q \in Registers |-> Popped(m, at, q)] = r
         /\ Popped(m, at, "eip") = place
<1>1. ASSUME NEW q \in Registers PROVE Popped(m, at, q) = r[q]
  <2>1. PICK k \in 1 .. 13 : Pushes[k][1] = q /\ q # "esp"
    BY BelowFacts DEF Registers
  <2>2. Holds(m, at + FRAME - Below[k], r[Pushes[k][1]], Pushes[k][2])
    BY <2>1, BelowFacts DEF FrameAt
  <2>3. at + FRAME - Below[k] \in Int /\ Pushes[k][2] \in Nat \ {0}
    <3>1. k \in 0 .. 13 /\ Pushes[k][2] \in Nat \ {0}
      BY DepthFacts
    <3>2. Below[k] \in 0 .. FRAME
      BY <3>1, DepthFacts
    <3> QED BY <3>1, <3>2 DEF FRAME
  <2>4. Value(m, at + FRAME - Below[k], Pushes[k][2]) = r[Pushes[k][1]]
    BY <2>2, <2>3, ThereRead
  <2>5. Popped(m, at, Pushes[k][1]) = Value(m, at + FRAME - Below[k], Pushes[k][2])
    BY PoppedFrom
  <2> QED BY <2>1, <2>4, <2>5
<1>2. Popped(m, at, "eip") = place
  <2>1. Popped(m, at, "eip") = Value(m, at + FRAME, 4)
    BY PoppedFrom
  <2>2. Value(m, at + FRAME, 4) = place
    BY ThereRead DEF FrameAt, FRAME
  <2> QED BY <2>1, <2>2
<1> QED BY <1>1, <1>2

(* Writes beside a frame leave it. *)
LEMMA FrameKept ==
  ASSUME NEW m, NEW n, NEW lo \in Int, NEW hi \in Int, WritesIn(m, n, lo, hi),
         NEW at \in Int, NEW r, NEW place, FrameAt(m, at, r, place),
         hi <= at \/ at + FRAME + 4 <= lo
  PROVE  FrameAt(n, at, r, place)
<1>1. Holds(n, at + FRAME, place, 4)
  <2> DEFINE a == at + FRAME
  <2>1. Holds(m, a, place, 4)
    BY DEF FrameAt
  <2>2. a \in Int /\ (a + 4 <= lo \/ a >= hi)
    BY DEF FRAME
  <2> HIDE DEF a
  <2>3. Holds(n, a, place, 4)
    BY <2>1, <2>2 DEF WritesIn
  <2> QED BY <2>3 DEF a
<1>2. ASSUME NEW k \in 1 .. 13, Pushes[k][1] # "esp"
      PROVE  Holds(n, at + FRAME - Below[k], r[Pushes[k][1]], Pushes[k][2])
  <2> DEFINE a == at + FRAME - Below[k]
             v == r[Pushes[k][1]]
             w == Pushes[k][2]
  <2>1. Holds(m, a, v, w)
    BY <1>2, BelowFacts DEF FrameAt
  <2>2. /\ a \in Int /\ w \in Nat /\ at <= a /\ a + w <= at + FRAME
    BY BelowFacts DEF Depths, Widths, FRAME
  <2>3. a + w <= lo \/ a >= hi
    <3> HIDE DEF a, w
    <3> QED BY <2>2 DEF FRAME
  <2> HIDE DEF a, v, w
  <2>4. Holds(n, a, v, w)
    BY <2>1, <2>2, <2>3 DEF WritesIn
  <2> QED BY <2>4 DEF a, v, w
<1> QED BY <1>1, <1>2, BelowFacts DEF FrameAt

-----------------------------------------------------------------------------
(* Contexts *)

LEMMA SavedBounds ==
  ASSUME NEW m, NEW at \in Int, NEW r, NEW top \in Int, Saved(m, at, r, top)
  PROVE  at + 48 = top \/ at + 52 = top
BY DEF Saved, FRAME

(* Writes beside a context leave it. *)
LEMMA SavedKept ==
  ASSUME NEW m, NEW n, NEW lo \in Int, NEW hi \in Int, WritesIn(m, n, lo, hi),
         NEW at \in Int, NEW r, NEW top \in Int, Saved(m, at, r, top),
         hi <= at \/ top <= lo
  PROVE  Saved(n, at, r, top)
<1>1. ASSUME NEW place, FrameAt(m, at, r, place) PROVE FrameAt(n, at, r, place)
  <2>1. hi <= at \/ at + FRAME + 4 <= lo
    BY SavedBounds DEF FRAME
  <2> QED BY <1>1, <2>1, FrameKept
<1>2. ASSUME Holds(m, at + FRAME + 4, "code", 4), at + FRAME + 8 = top
      PROVE  Holds(n, at + FRAME + 4, "code", 4)
  <2> DEFINE a == at + FRAME + 4
  <2>1. a \in Int /\ (a + 4 <= lo \/ a >= hi)
    BY <1>2 DEF FRAME
  <2>2. Holds(m, a, "code", 4)
    BY <1>2
  <2> HIDE DEF a
  <2>3. Holds(n, a, "code", 4)
    BY <2>1, <2>2 DEF WritesIn
  <2> QED BY <2>3 DEF a
<1> QED BY <1>1, <1>2 DEF Saved

(* Whoever is switched to goes on as the context says. *)
LEMMA Resumed ==
  ASSUME NEW m, NEW at \in Int, NEW r, r = [q \in Registers |-> r[q]],
         NEW top \in Int, Saved(m, at, r, top)
  PROVE  /\ [q \in Registers |-> Popped(m, at, q)] = r
         /\ Running(m, at + FRAME + 4, Popped(m, at, "eip"), top)
<1>1. CASE FrameAt(m, at, r, "entry") /\ at + FRAME + 4 = top
  BY <1>1, FramePopped DEF Running
<1>2. CASE FrameAt(m, at, r, "code") /\ at + FRAME + 4 = top
  BY <1>2, FramePopped DEF Running
<1>3. CASE /\ FrameAt(m, at, r, "dispatcher") /\ at + FRAME + 8 = top
           /\ Holds(m, at + FRAME + 4, "code", 4)
  <2>1. /\ [q \in Registers |-> Popped(m, at, q)] = r
        /\ Popped(m, at, "eip") = "dispatcher"
    BY <1>3, FramePopped
  <2>2. at + FRAME + 4 + 4 = top
    BY <1>3 DEF FRAME
  <2> QED BY <1>3, <2>1, <2>2 DEF Running
<1> QED BY <1>1, <1>2, <1>3 DEF Saved

(* dispatcher's pushes make a context of what is on the CPU. *)
LEMMA Suspended ==
  ASSUME NEW m, NEW at \in Int, NEW r, NEW top \in Int,
         Running(m, at, "dispatcher", top)
  PROVE  Saved(Pushed(m, at, r), at - FRAME, r, top)
<1>1. at - FRAME + FRAME + 4 = at + 4 /\ at - FRAME + FRAME + 8 = at + 8
  BY DEF FRAME
<1>2. CASE Holds(m, at, "code", 4) /\ at + 4 = top
  BY <1>1, <1>2, FrameMade DEF Saved
<1>3. CASE /\ Holds(m, at, "dispatcher", 4) /\ at + 8 = top
           /\ Holds(m, at + 4, "code", 4)
  <2>1. FrameAt(Pushed(m, at, r), at - FRAME, r, "dispatcher")
    BY <1>3, FrameMade
  <2>2. at + 4 \in Int /\ at + 4 >= at
    OBVIOUS
  <2>3. Holds(Pushed(m, at, r), at + 4, "code", 4)
    BY <1>3, <2>2, PushedBeside
  <2> QED BY <1>1, <1>3, <2>1, <2>3 DEF Saved
<1> QED BY <1>2, <1>3 DEF Running

-----------------------------------------------------------------------------
(* Stacks *)

(* The lowest byte of t's stack that is ever written. *)
Bottom(t) == StackTop(t) - (4 * DEPTH + 52 + SCRATCH)

LEMMA Rows ==
  ASSUME NEW t \in Nat, NEW u \in Nat, t < u, NEW w \in Nat
  PROVE  t * w \in Nat /\ u * w \in Nat /\ t * w + w <= u * w
<1>1. t * w \in Nat /\ u * w \in Nat
  OBVIOUS
<1>2. PICK d \in Nat : u = t + 1 + d
  <2>1. u - t - 1 \in Nat /\ u = t + 1 + (u - t - 1)
    OBVIOUS
  <2> QED BY <2>1
<1>3. u * w = t * w + w + d * w /\ d * w \in Nat
  BY <1>2
<1> QED BY <1>1, <1>3

LEMMA Ends ==
  ASSUME program \in Programs, NEW t \in Tid
  PROVE  /\ StackTop(t) \in Nat /\ Bottom(t) \in Nat
         /\ Bottom(t) <= StackTop(t) - 52
         /\ Bottom(t) .. StackTop(t) - 1 \subseteq Own(t)
<1>1. t \in Nat /\ SIZE \in Nat /\ t * SIZE \in Nat /\ t * (SIZE + 4) \in Nat
  BY FramesAssumption DEF Tid
<1> DEFINE a == t * SIZE
           c == t * (SIZE + 4)
<1>2. /\ StackTop(t) = IF program = "fifos" THEN c + SIZE ELSE a + SIZE - 1
      /\ Own(t) = IF program = "fifos" THEN c .. c + SIZE + 3 ELSE a .. a + SIZE - 1
  BY DEF StackTop, Own
<1>3. a \in Nat /\ c \in Nat
  BY <1>1
<1> HIDE DEF a, c
<1>4. StackTop(t) \in Int /\ Bottom(t) \in Int /\ Bottom(t) <= StackTop(t) - 52
  BY <1>1, <1>2, <1>3, FramesAssumption DEF Bottom
<1>5. Bottom(t) >= StackTop(t) - SIZE + 4
  BY <1>4, FramesAssumption DEF Bottom
<1>6. CASE program = "fifos"
  BY <1>1, <1>2, <1>3, <1>4, <1>5, <1>6
<1>7. CASE program # "fifos"
  BY <1>1, <1>2, <1>3, <1>4, <1>5, <1>7
<1> QED BY <1>4, <1>6, <1>7

(* A stack is above or below another. *)
LEMMA Order ==
  ASSUME program \in Programs, NEW t \in Tid, NEW u \in Tid, t < u
  PROVE  StackTop(t) + 4 <= Bottom(u)
<1>1. t \in Nat /\ u \in Nat /\ SIZE \in Nat /\ SIZE + 4 \in Nat
  BY FramesAssumption DEF Tid
<1>2. /\ t * SIZE \in Nat /\ u * SIZE \in Nat /\ t * SIZE + SIZE <= u * SIZE
      /\ t * (SIZE + 4) \in Nat /\ u * (SIZE + 4) \in Nat
      /\ t * (SIZE + 4) + (SIZE + 4) <= u * (SIZE + 4)
  BY <1>1, Rows
<1> DEFINE a == t * SIZE
           b == u * SIZE
           c == t * (SIZE + 4)
           d == u * (SIZE + 4)
<1>3. /\ StackTop(t) = IF program = "fifos" THEN c + SIZE ELSE a + SIZE - 1
      /\ StackTop(u) = IF program = "fifos" THEN d + SIZE ELSE b + SIZE - 1
  BY DEF StackTop
<1>4. /\ a \in Nat /\ b \in Nat /\ a + SIZE <= b
      /\ c \in Nat /\ d \in Nat /\ c + SIZE + 4 <= d
  BY <1>1, <1>2
<1> HIDE DEF a, b, c, d
<1>5. StackTop(u) \in Int
  BY <1>1, <1>3, <1>4
<1>6. Bottom(u) >= StackTop(u) - SIZE + 4
  BY <1>5, FramesAssumption DEF Bottom
<1> QED BY <1>1, <1>3, <1>4, <1>5, <1>6, FramesAssumption DEF Bottom

LEMMA Apart ==
  ASSUME program \in Programs, NEW t \in Tid, NEW u \in Tid, t # u
  PROVE  StackTop(t) + 4 <= Bottom(u) \/ StackTop(u) + 4 <= Bottom(t)
<1>1. t < u \/ u < t
  BY FramesAssumption DEF Tid
<1> QED BY <1>1, Order

(* What is written on one stack leaves the others. *)
LEMMA OthersKept ==
  ASSUME program \in Programs, depth \in [Tid -> 0 .. DEPTH],
         NEW c \in Tid, NEW t \in Tid, t # c,
         NEW m, NEW n, NEW lo \in Int, NEW hi \in Int, WritesIn(m, n, lo, hi),
         Bottom(c) <= lo, hi <= StackTop(c) + 4
  PROVE  /\ Holds(m, StackTop(t), Exit, 4) => Holds(n, StackTop(t), Exit, 4)
         /\ \A at \in Int : \A r :
              Saved(m, at, r, Top(t)) => Saved(n, at, r, Top(t))
<1>1. /\ StackTop(t) \in Int /\ Bottom(t) \in Int
      /\ StackTop(c) \in Int /\ Bottom(c) \in Int
  BY Ends
<1>2. StackTop(t) + 4 <= lo \/ hi <= Bottom(t)
  <2>1. StackTop(t) + 4 <= Bottom(c) \/ StackTop(c) + 4 <= Bottom(t)
    BY Apart
  <2> QED BY <1>1, <2>1
<1>3. Top(t) \in Int /\ Top(t) <= StackTop(t) /\ Bottom(t) <= Top(t) - 52
  BY <1>1, FramesAssumption DEF Top, Bottom
<1>4. Bottom(t) <= StackTop(t)
  BY <1>1, <1>3
<1>5. ASSUME Holds(m, StackTop(t), Exit, 4) PROVE Holds(n, StackTop(t), Exit, 4)
  <2>1. StackTop(t) + 4 <= lo \/ StackTop(t) >= hi
    BY <1>1, <1>2, <1>4
  <2> QED BY <1>1, <1>5, <2>1 DEF WritesIn
<1>6. ASSUME NEW at \in Int, NEW r, Saved(m, at, r, Top(t))
      PROVE  Saved(n, at, r, Top(t))
  <2>1. at + 48 = Top(t) \/ at + 52 = Top(t)
    BY <1>3, <1>6, SavedBounds
  <2>2. hi <= at \/ Top(t) <= lo
    BY <1>1, <1>2, <1>3, <2>1
  <2> QED BY <1>3, <1>6, <2>2, SavedKept
<1> QED BY <1>5, <1>6

LEMMA StaysWithin ==
  ASSUME program \in Programs, NEW c \in Tid, DOMAIN mem \subseteq Nat,
         NEW n, NEW lo \in Int, NEW hi \in Int, WritesIn(mem, n, lo, hi),
         Bottom(c) <= lo
  PROVE  n = [a \in DOMAIN n |-> n[a]] /\ DOMAIN n \subseteq Nat
<1>1. Bottom(c) \in Nat
  BY Ends
<1>2. lo .. hi - 1 \subseteq Nat
  BY <1>1
<1> QED BY <1>2 DEF WritesIn

-----------------------------------------------------------------------------
(* The actions *)

LEMMA Initially == Init => IInv
<1> SUFFICES ASSUME Init PROVE IInv
  OBVIOUS
<1>1. FirstRegs = [r \in Registers |-> FirstRegs[r]]
  BY DEF FirstRegs
<1>2. None \notin Tid
  BY FramesAssumption DEF Tid, None
<1>3. TypeOK
  BY <1>1, FramesAssumption DEF Init, TypeOK
<1>4. SavedInv /\ CreatedInv
  BY FramesAssumption DEF Init, SavedInv, CreatedInv, Tid
<1>5. RunningInv
  BY DEF Init, RunningInv
<1> QED BY <1>3, <1>4, <1>5 DEF IInv

LEMMA Tops ==
  ASSUME program' = program, NEW t
  PROVE  StackTop(t)' = StackTop(t) /\ FirstRegs' = FirstRegs
BY DEF StackTop, FirstRegs

LEMMA ThreadCreateKeeps == IInv /\ ThreadCreate => IInv'
<1> SUFFICES ASSUME IInv, ThreadCreate PROVE IInv'
  OBVIOUS
<1> DEFINE c == created
           top == StackTop(c)
           m1 == Written(mem, top, Bytes(Exit, 4))
           m2 == Written(m1, top - 4, Bytes("entry", 4))
<1>1. /\ current = None /\ current' = current /\ program' = program
      /\ created' = created + 1 /\ depth' = depth /\ marks' = marks
      /\ regs' = regs /\ esp' = esp /\ eip' = eip
      /\ mem' = Pushed(m2, top - 4, FirstRegs)
  BY DEF ThreadCreate, cpu
<1>2. /\ c \in Tid /\ created' \in 0 .. N /\ N \in Nat /\ c \in Nat
      /\ \A t \in Tid : t \in Nat /\ t # None
      /\ sp' = [sp EXCEPT ![c] = top - 4 - FRAME]
  <2>1. created \in 0 .. N /\ N \in Nat
    BY FramesAssumption DEF IInv, TypeOK
  <2>2. created < N /\ get_tcb = created
    BY DEF ThreadCreate, get_tcb
  <2>3. sp' = [sp EXCEPT ![c] = top - 4 - FRAME]
    BY <2>2, Zenon DEF ThreadCreate
  <2>4. created \in Tid /\ created' \in 0 .. N
    BY <1>1, <2>1, <2>2 DEF Tid
  <2>5. \A t \in Tid : t \in Nat /\ t # None
    BY <2>1 DEF Tid, None
  <2> QED BY <2>1, <2>3, <2>4, <2>5
<1>3. program \in Programs /\ depth \in [Tid -> 0 .. DEPTH] /\ sp \in [Tid -> Int]
  BY DEF IInv, TypeOK
<1>4. /\ top \in Int /\ Bottom(c) \in Int /\ Bottom(c) <= top - 52
      /\ top - 4 \in Int /\ top - 48 \in Int /\ top + 4 \in Int
  BY <1>2, <1>3, Ends
<1>5. WritesIn(mem, mem', top - 48, top + 4)
  <2>1. WritesIn(mem, m1, top, top + 4)
    BY <1>4, WrittenIn
  <2>2. WritesIn(m1, m2, top - 4, top - 4 + 4)
    <3> HIDE DEF top, m1
    <3> QED BY <1>4, WrittenIn
  <2>3. WritesIn(m2, mem', top - 4 - FRAME, top - 4)
    <3> HIDE DEF top, m2
    <3> QED BY <1>1, <1>4, PushedIn
  <2> HIDE DEF top, m1, m2
  <2>4. WritesIn(mem, m2, top - 48, top + 4)
    BY <1>4, <2>1, <2>2, WritesCompose
  <2>5. top - 4 - FRAME = top - 48
    BY <1>4 DEF FRAME
  <2> QED BY <1>4, <2>3, <2>4, <2>5, WritesCompose
<1>6. Holds(m2, top - 4, "entry", 4) /\ Holds(mem', top, Exit, 4)
  <2> HIDE DEF top
  <2>1. Holds(m1, top, Exit, 4)
    BY <1>4, WrittenThere
  <2>2. Holds(m2, top - 4, "entry", 4)
    <3> HIDE DEF m1
    <3> QED BY <1>4, WrittenThere
  <2>3. Len(Bytes("entry", 4)) = 4
    BY BytesLength
  <2>4. Holds(m2, top, Exit, 4)
    <3> DEFINE b == Bytes("entry", 4)
    <3>1. Len(b) = 4
      BY <2>3
    <3> HIDE DEF m1, b
    <3>2. top - 4 + Len(b) <= top /\ Len(b) \in Nat /\ top - 4 \in Int
      BY <1>4, <3>1
    <3>3. Holds(Written(m1, top - 4, b), top, Exit, 4)
      BY <1>4, <2>1, <3>2, WrittenBeside
    <3> QED BY <3>3 DEF b
  <2>5. Holds(mem', top, Exit, 4)
    <3> HIDE DEF m2
    <3> QED BY <1>1, <1>4, <2>4, PushedBeside
  <2> QED BY <2>2, <2>5
<1>7. Saved(mem', top - 4 - FRAME, FirstRegs, top)
  <2> HIDE DEF top, m2
  <2>1. FrameAt(mem', top - 4 - FRAME, FirstRegs, "entry")
    BY <1>1, <1>4, <1>6, FrameMade
  <2>2. top - 4 - FRAME + FRAME + 4 = top
    BY <1>4 DEF FRAME
  <2> QED BY <2>1, <2>2 DEF Saved
<1>8. depth[c] = 0 /\ marks[c] = FirstRegs
  BY <1>2 DEF IInv, CreatedInv, TypeOK
<1>9. \A t \in Tid : StackTop(t)' = StackTop(t) /\ Top(t)' = Top(t)
  BY <1>1, Tops DEF Top
<1>10. /\ top - 48 \in Int /\ top + 4 \in Int
       /\ Bottom(c) <= top - 48 /\ top + 4 <= StackTop(c) + 4
  BY <1>4
<1>11. TypeOK'
  <2>1. sp' \in [Tid -> Int]
    <3>1. top - 4 - FRAME \in Int
      BY <1>4 DEF FRAME
    <3> HIDE DEF top
    <3> QED BY <1>2, <1>3, <3>1
  <2>2. mem' = [a \in DOMAIN mem' |-> mem'[a]] /\ DOMAIN mem' \subseteq Nat
    <3>1. DOMAIN mem \subseteq Nat
      BY DEF IInv, TypeOK
    <3> QED BY <1>2, <1>3, <1>5, <1>10, <3>1, StaysWithin
  <2> HIDE DEF top, m2
  <2> QED BY <1>1, <1>2, <2>1, <2>2 DEF IInv, TypeOK
<1>12. SavedInv'
  <2> SUFFICES ASSUME NEW t \in Tid, t < created'
               PROVE  Saved(mem', sp'[t], marks'[t], Top(t)')
    BY DEF SavedInv
  <2>1. CASE t = c
    <3>1. sp'[t] = top - 4 - FRAME
      BY <1>2, <1>3, <2>1
    <3>2. Top(t) = top
      BY <1>4, <1>8, <2>1 DEF Top
    <3> HIDE DEF top
    <3> QED BY <1>1, <1>7, <1>8, <1>9, <2>1, <3>1, <3>2
  <2>2. CASE t # c
    <3>1. sp'[t] = sp[t] /\ sp[t] \in Int
      BY <1>2, <1>3, <2>2
    <3>2. t < created /\ t # current
      <4> HIDE DEF top
      <4> QED BY <1>1, <1>2, <2>2
    <3>3. Saved(mem, sp[t], marks[t], Top(t))
      BY <3>2 DEF IInv, SavedInv
    <3>4. Saved(mem', sp[t], marks[t], Top(t))
      BY <1>2, <1>3, <1>5, <1>10, <2>2, <3>1, <3>3, OthersKept
    <3> QED BY <1>1, <1>9, <3>1, <3>4
  <2> QED BY <2>1, <2>2
<1>13. RunningInv'
  BY <1>1 DEF IInv, RunningInv
<1>14. CreatedInv'
  <2> SUFFICES ASSUME NEW t \in Tid
               PROVE  IF t < created' THEN Holds(mem', StackTop(t)', Exit, 4)
                      ELSE depth'[t] = 0 /\ marks'[t] = FirstRegs'
    BY DEF CreatedInv
  <2>1. CASE t = c
    <3>1. t < created'
      <4> HIDE DEF top
      <4> QED BY <1>1, <1>2, <2>1
    <3> QED BY <1>6, <1>9, <2>1, <3>1
  <2>2. CASE t # c /\ t < created'
    <3>1. t < created
      <4> HIDE DEF top
      <4> QED BY <1>1, <1>2, <2>2
    <3>2. Holds(mem, StackTop(t), Exit, 4)
      BY <3>1 DEF IInv, CreatedInv
    <3>3. Holds(mem', StackTop(t), Exit, 4)
      BY <1>2, <1>3, <1>5, <1>10, <2>2, <3>2, OthersKept
    <3> QED BY <1>9, <2>2, <3>3
  <2>3. CASE ~(t < created')
    <3>1. ~(t < created)
      <4> HIDE DEF top
      <4> QED BY <1>1, <1>2, <2>3
    <3>2. FirstRegs' = FirstRegs
      BY <1>1, Tops
    <3> QED BY <1>1, <2>3, <3>1, <3>2 DEF IInv, CreatedInv
  <2> QED BY <2>1, <2>2, <2>3
<1> QED BY <1>11, <1>12, <1>13, <1>14 DEF IInv

(* Whoever is switched to. *)
LEMMA Switched ==
  ASSUME TypeOK, NEW t \in Tid, NEW m, NEW at \in Int, Top(t) \in Int,
         Saved(m, at, marks[t], Top(t)), SwitchTo(m, at)
  PROVE  /\ regs' = marks[t] /\ regs' = [r \in Registers |-> regs'[r]]
         /\ Running(m, esp', eip', Top(t))
         /\ esp' \in Int /\ eip' \in {"kmain", "entry", "code", "dispatcher"}
<1>1. marks[t] = [r \in Registers |-> marks[t][r]]
  BY DEF TypeOK
<1>2. /\ [r \in Registers |-> Popped(m, at, r)] = marks[t]
      /\ Running(m, at + FRAME + 4, Popped(m, at, "eip"), Top(t))
  BY <1>1, Resumed
<1>3. regs' = marks[t] /\ Running(m, esp', eip', Top(t))
  BY <1>2 DEF SwitchTo
<1>4. esp' \in Int
  BY DEF SwitchTo, FRAME
<1>5. eip' \in {"kmain", "entry", "code", "dispatcher"}
  BY <1>3 DEF Running
<1> QED BY <1>1, <1>3, <1>4, <1>5

LEMMA DispatchFirstRunKeeps == IInv /\ DispatchFirstRun => IInv'
<1> SUFFICES ASSUME IInv, DispatchFirstRun PROVE IInv'
  OBVIOUS
<1>1. /\ current = None /\ current' = 0 /\ created = N /\ SwitchTo(mem, sp[0])
      /\ UNCHANGED <<program, mem, created, sp, depth, marks>>
  BY DEF DispatchFirstRun
<1>2. /\ 0 \in Tid /\ N \in Nat /\ 0 < N
      /\ \A t \in Tid : t < N /\ t # None
  BY FramesAssumption DEF Tid, None
<1>3. \A t \in Tid : Top(t)' = Top(t) /\ StackTop(t)' = StackTop(t)
  BY <1>1, Tops DEF Top
<1>4. \A t \in Tid : Saved(mem, sp[t], marks[t], Top(t))
  BY <1>1, <1>2 DEF IInv, SavedInv
<1>5. Top(0) \in Int /\ sp[0] \in Int
  <2>1. depth[0] \in Int /\ sp[0] \in Int /\ program \in Programs
    BY <1>2, FramesAssumption DEF IInv, TypeOK
  <2>2. StackTop(0) \in Int
    BY <1>2, <2>1, Ends
  <2> QED BY <2>1, <2>2 DEF Top
<1>6. /\ regs' = marks[0] /\ regs' = [r \in Registers |-> regs'[r]]
      /\ Running(mem, esp', eip', Top(0))
      /\ esp' \in Int /\ eip' \in {"kmain", "entry", "code", "dispatcher"}
  <2>1. TypeOK
    BY DEF IInv
  <2>2. Saved(mem, sp[0], marks[0], Top(0))
    BY <1>2, <1>4
  <2> QED BY <1>1, <1>2, <1>5, <2>1, <2>2, Switched
<1>7. TypeOK'
  BY <1>1, <1>2, <1>6 DEF IInv, TypeOK
<1>8. SavedInv'
  BY <1>1, <1>3, <1>4 DEF SavedInv
<1>9. RunningInv'
  <2>1. current' # None
    BY <1>1, <1>2
  <2>2. Running(mem', esp', eip', Top(0)')
    BY <1>1, <1>2, <1>3, <1>6
  <2>3. regs' = marks'[0] /\ created' = N
    BY <1>1, <1>6
  <2>4. Top(current)' = Top(0)'
    BY <1>1 DEF Top, StackTop
  <2> QED BY <1>1, <2>1, <2>2, <2>3, <2>4 DEF RunningInv
<1>10. CreatedInv'
  BY <1>1, <1>3, Tops DEF IInv, CreatedInv
<1> QED BY <1>7, <1>8, <1>9, <1>10 DEF IInv

(* A step whose stores are all on the stack of the thread on the CPU, below *)
(* its return address. *)
StoresBelow ==
  \E lo, hi \in Int : /\ WritesIn(mem, mem', lo, hi)
                     /\ Bottom(current) <= lo /\ hi <= StackTop(current)

(* A thread writes below the end of its words, on its own stack. *)
LEMMA OwnWrites ==
  ASSUME IInv, current # None, program' = program, created' = created,
         \A t \in Tid : t # current => /\ sp'[t] = sp[t] /\ depth'[t] = depth[t]
                                      /\ marks'[t] = marks[t],
         NEW lo \in Int, NEW hi \in Int, WritesIn(mem, mem', lo, hi),
         Bottom(current) <= lo, hi <= StackTop(current)
  PROVE  /\ \A t \in Tid : t # current => Saved(mem', sp'[t], marks'[t], Top(t)')
         /\ CreatedInv'
         /\ mem' = [a \in DOMAIN mem' |-> mem'[a]] /\ DOMAIN mem' \subseteq Nat
<1> DEFINE c == current
<1>1. /\ c \in Tid /\ created = N /\ program \in Programs
      /\ depth \in [Tid -> 0 .. DEPTH] /\ sp \in [Tid -> Int]
      /\ DOMAIN mem \subseteq Nat
  BY DEF IInv, TypeOK, RunningInv
<1>2. \A t \in Tid : t < N
  BY FramesAssumption DEF Tid
<1>3. StackTop(c) \in Int /\ hi <= StackTop(c) + 4
  BY <1>1, Ends
<1>4. \A t \in Tid : StackTop(t)' = StackTop(t) /\ (t # c => Top(t)' = Top(t))
  BY Tops DEF Top
<1>5. ASSUME NEW t \in Tid, t # c
      PROVE  Saved(mem', sp'[t], marks'[t], Top(t)')
  <2>1. Saved(mem, sp[t], marks[t], Top(t)) /\ sp[t] \in Int
    BY <1>1, <1>2, <1>5 DEF IInv, SavedInv
  <2>2. Saved(mem', sp[t], marks[t], Top(t))
    BY <1>1, <1>3, <1>5, <2>1, OthersKept
  <2> QED BY <1>4, <1>5, <2>2
<1>6. \A t \in Tid : Holds(mem, StackTop(t), Exit, 4)
  BY <1>1, <1>2 DEF IInv, CreatedInv
<1>7. ASSUME NEW t \in Tid PROVE Holds(mem', StackTop(t), Exit, 4)
  <2>1. CASE t = c
    BY <1>3, <1>6, <2>1 DEF WritesIn
  <2>2. CASE t # c
    BY <1>1, <1>3, <1>6, <2>2, OthersKept
  <2> QED BY <2>1, <2>2
<1>8. CreatedInv'
  BY <1>1, <1>2, <1>4, <1>7 DEF CreatedInv
<1>9. /\ mem' = [a \in DOMAIN mem' |-> mem'[a]]
      /\ DOMAIN mem' \subseteq Nat
  BY <1>1, <1>3, StaysWithin
<1> QED BY <1>5, <1>8, <1>9, Tops

LEMMA WritesNone ==
  ASSUME NEW m, m = [a \in DOMAIN m |-> m[a]], NEW lo \in Int, NEW hi \in Int
  PROVE  WritesIn(m, m, lo, hi)
BY DEF WritesIn

(* What is known of the thread on the CPU. *)
LEMMA OnCPU ==
  ASSUME IInv, eip # "kmain"
  PROVE  /\ current \in Tid /\ current # None
         /\ program \in Programs /\ created = N /\ N \in Nat
         /\ sp \in [Tid -> Int] /\ depth[current] \in 0 .. DEPTH
         /\ DOMAIN marks = Tid /\ regs = marks[current]
         /\ Running(mem, esp, eip, Top(current))
         /\ esp \in Int /\ StackTop(current) \in Int /\ Bottom(current) \in Int
         /\ Top(current) = StackTop(current) - 4 * depth[current]
         /\ Bottom(current) = StackTop(current) - (4 * DEPTH + 52 + SCRATCH)
<1>1. /\ current \in Tid /\ current # None
      /\ program \in Programs /\ created = N
      /\ sp \in [Tid -> Int] /\ DOMAIN marks = Tid /\ regs = marks[current]
      /\ Running(mem, esp, eip, Top(current)) /\ esp \in Int
      /\ depth \in [Tid -> 0 .. DEPTH]
  BY DEF IInv, TypeOK, RunningInv
<1>2. StackTop(current) \in Int /\ Bottom(current) \in Int
  BY <1>1, Ends
<1> QED BY <1>1, <1>2, FramesAssumption DEF Top, Bottom

LEMMA WorkKeeps == IInv /\ Work => IInv'
<1> SUFFICES ASSUME IInv, Work PROVE IInv'
  OBVIOUS
<1> DEFINE c == current
           lo == StackTop(c)
<1>1. PICK g \in {0, 1} : /\ marks' = [marks EXCEPT ![c] = OwnRegs(c, g)]
                          /\ regs' = marks'[c]
  BY DEF Work
<1>2. /\ eip \in {"entry", "code"} /\ eip' = "code"
      /\ UNCHANGED <<program, mem, created, sp, current, esp, depth>>
  BY DEF Work
<1>3. /\ c \in Tid /\ c # None /\ program \in Programs /\ DOMAIN marks = Tid
      /\ StackTop(c) \in Int /\ Bottom(c) \in Int
      /\ Running(mem, esp, eip, Top(c)) /\ created = N
      /\ depth[c] \in 0 .. DEPTH
  BY <1>2, OnCPU
<1>4. /\ DOMAIN marks' = Tid /\ regs' = OwnRegs(c, g) /\ marks'[c] = OwnRegs(c, g)
      /\ \A t \in Tid : t # c => marks'[t] = marks[t]
  BY <1>1, <1>3
<1>5. Top(c)' = Top(c) /\ esp = Top(c)
  BY <1>2, <1>3, Tops DEF Top, Running
<1>6. WritesIn(mem, mem', lo, lo) /\ Bottom(c) <= lo
  <2>1. mem = [a \in DOMAIN mem |-> mem[a]] /\ mem' = mem
    BY <1>2 DEF IInv, TypeOK
  <2>2. Bottom(c) <= lo - 52
    BY <1>3, Ends
  <2> QED BY <1>3, <2>1, <2>2, WritesNone
<1>7. /\ \A t \in Tid : t # c => Saved(mem', sp'[t], marks'[t], Top(t)')
      /\ CreatedInv'
  BY <1>2, <1>3, <1>4, <1>6, OwnWrites
<1>8. TypeOK'
  <2>1. OwnRegs(c, g) = [r \in Registers |-> OwnRegs(c, g)[r]]
    BY DEF OwnRegs
  <2>2. \A t \in Tid : marks'[t] = [r \in Registers |-> marks'[t][r]]
    BY <1>4, <2>1 DEF IInv, TypeOK
  <2>3. regs' = [r \in Registers |-> regs'[r]]
    BY <1>4, <2>1
  <2> QED BY <1>2, <1>4, <2>2, <2>3 DEF IInv, TypeOK
<1>9. SavedInv'
  BY <1>2, <1>7 DEF SavedInv
<1>10. RunningInv'
  <2>1. Running(mem', esp', eip', Top(c)')
    BY <1>2, <1>5 DEF Running
  <2>2. current' = c /\ created' = N /\ regs' = marks'[c]
    BY <1>1, <1>2, <1>3
  <2>3. Top(current)' = Top(c)'
    BY <1>2 DEF Top, StackTop
  <2> QED BY <1>3, <2>1, <2>2, <2>3 DEF RunningInv
<1> QED BY <1>7, <1>8, <1>9, <1>10 DEF IInv

LEMMA DeeperKeeps == IInv /\ Deeper => IInv' /\ StoresBelow
<1> SUFFICES ASSUME IInv, Deeper PROVE IInv' /\ StoresBelow
  OBVIOUS
<1> DEFINE c == current
           w == 4 * (DEPTH - depth[c])
<1>1. /\ eip = "code" /\ depth' = [depth EXCEPT ![c] = DEPTH]
      /\ esp' = esp - w /\ mem' = Written(mem, esp', Bytes("local", w))
      /\ UNCHANGED <<program, created, sp, current, regs, eip, marks>>
  BY DEF Deeper
<1>2. /\ c \in Tid /\ c # None /\ program \in Programs
      /\ StackTop(c) \in Int /\ Bottom(c) \in Int /\ esp \in Int
      /\ Running(mem, esp, eip, Top(c)) /\ created = N
      /\ depth[c] \in 0 .. DEPTH /\ regs = marks[c]
      /\ Top(c) = StackTop(c) - 4 * depth[c]
      /\ Bottom(c) = StackTop(c) - (4 * DEPTH + 52 + SCRATCH)
  BY <1>1, OnCPU
<1>3. DEPTH \in Nat /\ SCRATCH \in Nat
  BY FramesAssumption
<1>4. esp = Top(c)
  BY <1>1, <1>2 DEF Running
<1>5. /\ w \in Nat /\ esp' \in Int /\ esp' + w = esp
      /\ Bottom(c) <= esp' /\ esp <= StackTop(c)
      /\ esp' = StackTop(c) - 4 * DEPTH
  BY <1>1, <1>2, <1>3, <1>4
<1>6. depth \in [Tid -> 0 .. DEPTH]
  BY DEF IInv, TypeOK
<1>7. /\ depth'[c] = DEPTH /\ depth' \in [Tid -> 0 .. DEPTH]
      /\ \A t \in Tid : t # c => depth'[t] = depth[t]
  <2> HIDE DEF w
  <2> QED BY <1>1, <1>2, <1>3, <1>6
<1>8. Top(c)' = esp'
  <2>1. StackTop(c)' = StackTop(c)
    BY <1>1, Tops
  <2>2. Top(c)' = StackTop(c)' - 4 * depth'[c]
    BY <1>1 DEF Top, StackTop
  <2> HIDE DEF w
  <2> QED BY <1>2, <1>3, <1>5, <1>7, <2>1, <2>2
<1>9. WritesIn(mem, mem', esp', esp)
  <2> HIDE DEF w
  <2>1. WritesIn(mem, Written(mem, esp', Bytes("local", w)), esp', esp' + w)
    BY <1>5, WrittenIn
  <2> QED BY <1>1, <1>5, <2>1
<1>10. /\ \A t \in Tid : t # c => Saved(mem', sp'[t], marks'[t], Top(t)')
       /\ CreatedInv'
       /\ mem' = [a \in DOMAIN mem' |-> mem'[a]] /\ DOMAIN mem' \subseteq Nat
  <2> HIDE DEF w
  <2> QED BY <1>1, <1>2, <1>5, <1>7, <1>9, OwnWrites
<1>11. TypeOK'
  <2> HIDE DEF w
  <2> QED BY <1>1, <1>5, <1>7, <1>10 DEF IInv, TypeOK
<1>12. SavedInv'
  BY <1>1, <1>10 DEF SavedInv
<1>13. RunningInv'
  <2>1. Running(mem', esp', eip', Top(c)')
    BY <1>1, <1>8 DEF Running
  <2>2. current' = c /\ created' = N /\ regs' = marks'[c]
    BY <1>1, <1>2
  <2>3. Top(current)' = Top(c)'
    BY <1>1 DEF Top, StackTop
  <2> HIDE DEF w
  <2> QED BY <1>2, <2>1, <2>2, <2>3 DEF RunningInv
<1>14. StoresBelow
  <2> HIDE DEF w
  <2> QED BY <1>2, <1>5, <1>9 DEF StoresBelow
<1> QED BY <1>10, <1>11, <1>12, <1>13, <1>14 DEF IInv

LEMMA YieldKeeps == IInv /\ Yield => IInv' /\ StoresBelow
<1> SUFFICES ASSUME IInv, Yield PROVE IInv' /\ StoresBelow
  OBVIOUS
<1> DEFINE c == current
           m == Written(mem, esp - 4, Bytes("code", 4))
           b == Bytes("dispatcher", 4)
<1>1. /\ eip = "code" /\ eip' = "dispatcher" /\ esp' = esp - 8
      /\ mem' = Written(m, esp - 8, b)
      /\ UNCHANGED <<program, created, sp, current, regs, depth, marks>>
  BY DEF Yield
<1>2. /\ c \in Tid /\ c # None /\ program \in Programs
      /\ StackTop(c) \in Int /\ Bottom(c) \in Int /\ esp \in Int
      /\ Running(mem, esp, eip, Top(c)) /\ created = N
      /\ depth[c] \in 0 .. DEPTH /\ regs = marks[c]
      /\ Top(c) = StackTop(c) - 4 * depth[c]
      /\ Bottom(c) = StackTop(c) - (4 * DEPTH + 52 + SCRATCH)
  BY <1>1, OnCPU
<1>3. esp = Top(c)
  BY <1>1, <1>2 DEF Running
<1>4. /\ Bottom(c) <= esp - 8 /\ esp <= StackTop(c)
      /\ esp - 4 \in Int /\ esp - 8 \in Int /\ esp - 4 + 4 = esp
      /\ esp - 8 + 4 = esp - 4 /\ esp - 8 <= esp - 4 /\ esp - 4 <= esp
  BY <1>2, <1>3, FramesAssumption
<1>5. WritesIn(mem, mem', esp - 8, esp)
  <2>1. WritesIn(mem, m, esp - 4, esp - 4 + 4)
    BY <1>4, WrittenIn
  <2>2. WritesIn(m, mem', esp - 8, esp - 8 + 4)
    <3> HIDE DEF m
    <3> QED BY <1>1, <1>4, WrittenIn
  <2>3. WritesIn(mem, m, esp - 4, esp) /\ WritesIn(m, mem', esp - 8, esp - 4)
    BY <1>4, <2>1, <2>2
  <2> HIDE DEF m
  <2> QED BY <1>2, <1>4, <2>3, WritesCompose
<1>6. Holds(mem', esp', "dispatcher", 4) /\ Holds(mem', esp' + 4, "code", 4)
  <2>1. Holds(m, esp - 4, "code", 4)
    BY <1>4, WrittenThere
  <2>2. Len(b) = 4
    BY BytesLength
  <2>3. Holds(mem', esp - 8, "dispatcher", 4)
    <3> HIDE DEF m
    <3> QED BY <1>1, <1>4, WrittenThere
  <2> HIDE DEF m, b
  <2>4. esp - 8 + Len(b) <= esp - 4 /\ Len(b) \in Nat
    BY <1>4, <2>2
  <2>5. Holds(Written(m, esp - 8, b), esp - 4, "code", 4)
    BY <1>4, <2>1, <2>4, WrittenBeside
  <2>6. esp' + 4 = esp - 4
    BY <1>1, <1>4
  <2> QED BY <1>1, <2>3, <2>5, <2>6
<1> HIDE DEF m, b
<1>7. /\ \A t \in Tid : t # c => Saved(mem', sp'[t], marks'[t], Top(t)')
      /\ CreatedInv'
      /\ mem' = [a \in DOMAIN mem' |-> mem'[a]] /\ DOMAIN mem' \subseteq Nat
  BY <1>1, <1>2, <1>4, <1>5, OwnWrites
<1>8. TypeOK'
  BY <1>1, <1>4, <1>7 DEF IInv, TypeOK
<1>9. SavedInv'
  BY <1>1, <1>7 DEF SavedInv
<1>10. RunningInv'
  <2>1. Top(c)' = Top(c)
    BY <1>1, Tops DEF Top
  <2>2. esp' + 8 = Top(c)
    BY <1>1, <1>2, <1>3
  <2>3. Running(mem', esp', eip', Top(c)')
    BY <1>1, <1>6, <2>1, <2>2 DEF Running
  <2>4. current' = c /\ created' = N /\ regs' = marks'[c]
    BY <1>1, <1>2
  <2>5. Top(current)' = Top(c)'
    BY <1>1 DEF Top, StackTop
  <2> QED BY <1>2, <2>3, <2>4, <2>5 DEF RunningInv
<1>11. StoresBelow
  BY <1>2, <1>4, <1>5 DEF StoresBelow
<1> QED BY <1>7, <1>8, <1>9, <1>10, <1>11 DEF IInv

LEMMA DispatcherKeeps == IInv /\ Dispatcher => IInv' /\ StoresBelow
<1> SUFFICES ASSUME IInv, Dispatcher PROVE IInv' /\ StoresBelow
  OBVIOUS
<1> DEFINE c == current
           at == esp - FRAME
           p == Pushed(mem, esp, regs)
<1>1. /\ eip = "dispatcher"
      /\ mem' = Written(p, at - SCRATCH, Bytes("scratch", SCRATCH))
      /\ sp' = [sp EXCEPT ![c] = at]
      /\ UNCHANGED <<program, created, depth, marks>>
  BY DEF Dispatcher
<1>2. PICK t \in Tid : current' = t /\ SwitchTo(mem', sp'[t])
  BY Zenon DEF Dispatcher
<1>3. /\ c \in Tid /\ c # None /\ program \in Programs /\ sp \in [Tid -> Int]
      /\ StackTop(c) \in Int /\ Bottom(c) \in Int /\ esp \in Int
      /\ Running(mem, esp, eip, Top(c)) /\ created = N
      /\ depth[c] \in 0 .. DEPTH /\ regs = marks[c]
      /\ Top(c) = StackTop(c) - 4 * depth[c]
      /\ Bottom(c) = StackTop(c) - (4 * DEPTH + 52 + SCRATCH)
  BY <1>1, OnCPU
<1>4. SCRATCH \in Nat /\ DEPTH \in Nat
  BY FramesAssumption
<1>5. Top(c) \in Int /\ Top(c) - 8 <= esp /\ esp + 4 <= Top(c)
  <2>1. esp + 4 = Top(c) \/ esp + 8 = Top(c)
    BY <1>1, <1>3 DEF Running
  <2> QED BY <1>3, <2>1
<1>6. /\ at \in Int /\ at - SCRATCH \in Int /\ at - SCRATCH + SCRATCH = at
      /\ at = esp - 44 /\ at <= esp /\ at - SCRATCH <= at
  BY <1>3, <1>4 DEF FRAME
<1>7. Bottom(c) <= at - SCRATCH /\ esp <= StackTop(c)
  <2> HIDE DEF at
  <2> QED BY <1>3, <1>4, <1>5, <1>6
<1>8. WritesIn(p, mem', at - SCRATCH, at)
  <2>1. WritesIn(p, mem', at - SCRATCH, at - SCRATCH + SCRATCH)
    <3> HIDE DEF p, at
    <3> QED BY <1>1, <1>4, <1>6, WrittenIn
  <2> HIDE DEF p, at
  <2> QED BY <1>6, <2>1
<1>9. WritesIn(mem, mem', at - SCRATCH, esp)
  <2>1. WritesIn(mem, p, at, esp)
    BY <1>3, PushedIn
  <2> HIDE DEF p, at
  <2> QED BY <1>3, <1>6, <1>8, <2>1, WritesCompose
<1>10. Saved(mem', at, marks[c], Top(c))
  <2>1. Saved(p, at, marks[c], Top(c))
    BY <1>1, <1>3, <1>5, Suspended
  <2> HIDE DEF p, at
  <2> QED BY <1>5, <1>6, <1>8, <2>1, SavedKept
<1>11. sp'[c] = at /\ sp' \in [Tid -> Int] /\ \A u \in Tid : u # c => sp'[u] = sp[u]
  <2> HIDE DEF at, p
  <2> QED BY <1>1, <1>3, <1>6
<1>12. /\ \A u \in Tid : u # c => Saved(mem', sp'[u], marks'[u], Top(u)')
       /\ CreatedInv'
       /\ mem' = [a \in DOMAIN mem' |-> mem'[a]] /\ DOMAIN mem' \subseteq Nat
  <2> HIDE DEF at, p
  <2> QED BY <1>1, <1>3, <1>6, <1>7, <1>9, <1>11, OwnWrites
<1>13. \A u \in Tid : Top(u)' = Top(u) /\ marks'[u] = marks[u]
  BY <1>1, Tops DEF Top
<1>14. \A u \in Tid : Saved(mem', sp'[u], marks[u], Top(u))
  <2> HIDE DEF at, p
  <2> QED BY <1>10, <1>11, <1>12, <1>13
<1>15. Top(t) \in Int
  <2>1. depth[t] \in Int /\ StackTop(t) \in Int
    BY <1>3, Ends, FramesAssumption DEF IInv, TypeOK
  <2> QED BY <2>1 DEF Top
<1>16. /\ regs' = marks[t] /\ regs' = [r \in Registers |-> regs'[r]]
       /\ Running(mem', esp', eip', Top(t))
       /\ esp' \in Int /\ eip' \in {"kmain", "entry", "code", "dispatcher"}
  <2> HIDE DEF at, p
  <2>1. TypeOK /\ sp'[t] \in Int /\ Saved(mem', sp'[t], marks[t], Top(t))
    BY <1>11, <1>14 DEF IInv
  <2> QED BY <1>2, <1>15, <2>1, Switched
<1> HIDE DEF at, p
<1>17. TypeOK'
  BY <1>1, <1>2, <1>11, <1>12, <1>16 DEF IInv, TypeOK
<1>18. SavedInv'
  BY <1>13, <1>14 DEF SavedInv
<1>19. RunningInv'
  <2>1. current' # None
    BY <1>2, FramesAssumption DEF Tid, None
  <2>2. created' = N /\ regs' = marks'[t] /\ Running(mem', esp', eip', Top(t)')
    BY <1>1, <1>3, <1>13, <1>16
  <2>3. Top(current)' = Top(t)'
    BY <1>2 DEF Top, StackTop
  <2> QED BY <1>2, <2>1, <2>2, <2>3 DEF RunningInv
<1>20. StoresBelow
  BY <1>3, <1>6, <1>7, <1>9 DEF StoresBelow
<1> QED BY <1>12, <1>17, <1>18, <1>19, <1>20 DEF IInv

-----------------------------------------------------------------------------
(* Theorems *)

LEMMA StepKeeps == IInv /\ [Next]_vars => IInv'
<1>1. ASSUME IInv, UNCHANGED vars PROVE IInv'
  <2>1. UNCHANGED <<program, mem, created, sp, current, regs, esp, eip, depth, marks>>
    BY <1>1 DEF vars, cpu
  <2>2. \A t : StackTop(t)' = StackTop(t) /\ Top(t)' = Top(t)
    BY <2>1 DEF StackTop, Top
  <2>3. FirstRegs' = FirstRegs
    BY <2>1, Tops
  <2>4. TypeOK'
    BY <1>1, <2>1 DEF IInv, TypeOK
  <2>5. SavedInv' /\ CreatedInv'
    BY <1>1, <2>1, <2>2, <2>3 DEF IInv, SavedInv, CreatedInv
  <2>6. RunningInv'
    <3>1. Top(current)' = Top(current)
      BY <2>1 DEF StackTop, Top
    <3> QED BY <1>1, <2>1, <3>1 DEF IInv, RunningInv
  <2> QED BY <2>4, <2>5, <2>6 DEF IInv
<1> QED BY <1>1, ThreadCreateKeeps, DispatchFirstRunKeeps, WorkKeeps, DeeperKeeps,
           YieldKeeps, DispatcherKeeps DEF Next

LEMMA RestoredByInv == IInv => Restored
<1> SUFFICES ASSUME IInv, current # None PROVE Restored
  BY DEF Restored
<1> QED BY DEF IInv, RunningInv, Running, Top, Restored

LEMMA KeptByInv == IInv => ReturnsKept
<1> SUFFICES ASSUME IInv PROVE ReturnsKept
  OBVIOUS
<1>1. ASSUME NEW t \in Tid, t < created PROVE Value(mem, StackTop(t), 4) = Exit
  <2>1. Holds(mem, StackTop(t), Exit, 4)
    BY <1>1 DEF IInv, CreatedInv
  <2>2. StackTop(t) \in Int
    BY Ends DEF IInv, TypeOK
  <2> QED BY <2>1, <2>2, ThereRead
<1> QED BY <1>1 DEF ReturnsKept

(* What a step of a thread leaves alone. *)
OthersAlone ==
  \A a \in DOMAIN mem' :
    current # None /\ a \notin Own(current) => a \in DOMAIN mem /\ mem'[a] = mem[a]

LEMMA AloneByStores == IInv /\ StoresBelow => OthersAlone
<1> SUFFICES ASSUME IInv, StoresBelow, NEW a \in DOMAIN mem',
                    current # None, a \notin Own(current)
             PROVE  a \in DOMAIN mem /\ mem'[a] = mem[a]
  BY DEF OthersAlone
<1>1. current \in Tid /\ program \in Programs /\ DOMAIN mem \subseteq Nat
  BY DEF IInv, TypeOK
<1>2. /\ StackTop(current) \in Nat /\ Bottom(current) \in Nat
      /\ Bottom(current) .. StackTop(current) - 1 \subseteq Own(current)
  BY <1>1, Ends
<1>3. PICK lo \in Int, hi \in Int :
        /\ WritesIn(mem, mem', lo, hi)
        /\ Bottom(current) <= lo /\ hi <= StackTop(current)
  BY DEF StoresBelow
<1>4. lo .. hi - 1 \subseteq Own(current)
  BY <1>2, <1>3
<1>5. a \in DOMAIN mem \cap Int /\ a \notin lo .. hi - 1
  BY <1>1, <1>3, <1>4 DEF WritesIn
<1>6. a < lo \/ a >= hi
  BY <1>5
<1> QED BY <1>3, <1>5, <1>6 DEF WritesIn

LEMMA AloneByStep == IInv /\ [Next]_vars => OthersAlone
<1>1. ASSUME IInv, mem' = mem PROVE OthersAlone
  BY <1>1 DEF OthersAlone
<1>2. ASSUME ThreadCreate PROVE OthersAlone
  BY <1>2 DEF ThreadCreate, OthersAlone
<1>3. ASSUME DispatchFirstRun \/ Work \/ UNCHANGED vars PROVE mem' = mem
  BY <1>3 DEF DispatchFirstRun, Work, vars
<1> QED BY <1>1, <1>2, <1>3, DeeperKeeps, YieldKeeps, DispatcherKeeps, AloneByStores
           DEF Next

(* Every context in memory is whole, at the address its TCB has, and       *)
(* belongs to the registers, the place and the depth its thread was left   *)
(* with; the way back of a thread in dispatcher is on its stack.           *)
THEOREM FramesInvariance == Spec => []IInv
BY Initially, StepKeeps, PTL DEF Spec

(* A thread that is switched to goes on where it was left. *)
THEOREM ContextsRestored == Spec => []Restored
BY FramesInvariance, RestoredByInv, PTL

(* thread_create's return address outlives every call, push and switch of  *)
(* any thread, as long as the last word of each stack is not used (what    *)
(* FramesAssumption asks of DEPTH and SCRATCH): in MICROS three of its     *)
(* four bytes are those of the row above.                                  *)
THEOREM ReturnAddressesKept == Spec => []ReturnsKept
BY FramesInvariance, KeptByInv, PTL

(* Once threads run, no step stores a byte outside the stack of the thread *)
(* that takes it; thread_create, which does (InStacks), is over by then.   *)
THEOREM OwnStackOnly == Spec => OnOwnStack
<1>1. IInv /\ [Next]_vars =>
        [\A a \in DOMAIN mem' :
           current # None /\ a \notin Own(current) =>
             a \in DOMAIN mem /\ mem'[a] = mem[a]]_vars
  BY AloneByStep DEF OthersAlone
<1> QED BY <1>1, FramesInvariance, PTL DEF Spec, OnOwnStack
=============================================================================
