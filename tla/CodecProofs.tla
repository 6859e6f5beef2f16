---------------------------- MODULE CodecProofs -----------------------------
(***************************************************************************)
(* The wire format, for every width of a byte and of a number, every list  *)
(* of types, every text and every payload: what a peer encoded arrives as  *)
(* it was given (RoundTrip), what a decoder accepts has one form           *)
(* (AcceptsOneForm), and both peers read the frame limit alike             *)
(* (LimitsAgree).                                                          *)
(*                                                                         *)
(* Numbers.  Power, Number and Joined are recursive functions.  That each  *)
(* has the value its recursion gives, and the facts about all its values,  *)
(* follow by induction: a set of naturals with 0 in it and the next of     *)
(* each of its members is Nat, since what it leaves out has no least       *)
(* element.  So the bytes of a number are its digits and their sum is the  *)
(* number, and the same from bytes to number and back; joining one more    *)
(* value appends its item, and what is joined of a list is joined of its   *)
(* first part and what follows.                                            *)
(*                                                                         *)
(* The values.  The invariant has three parts.  Typed: the types, of all   *)
(* that is decoded too.  Consumed: what a decoder has behind its cursor is *)
(* the encoding of what it has decoded, whoever wrote it.  Carried: the    *)
(* payload of the other peer is the encoding of its values, and what is    *)
(* decoded of it is the first of them; so at every value the next item is  *)
(* there, complete, and its test succeeds.                                 *)
(*                                                                         *)
(* The limit.  Each encoder keeps what it has written within the limit of  *)
(* the other side's test, the client by one test at the end that counts    *)
(* the prefix, the helper by one before each value; and the client gives   *)
(* up at a text that is too long for its length, or at that test.          *)
(***************************************************************************)
EXTENDS Codec, NaturalsInduction, WellFoundedInduction, SequenceTheorems,
        TLAPS

(* What is not empty has a least element.                                  *)
LEMMA Least ==
  ASSUME NEW T, T \subseteq Nat, T # {}
  PROVE  \E x \in T : \A y \in T : x <= y
<1> DEFINE R == OpToRel(<, Nat)
<1>1. IsWellFoundedOn(R, Nat)
  BY NatLessThanWellFounded
<1>2. \A x, y \in Nat : y < x => <<y, x>> \in R
  BY DEF OpToRel
<1> HIDE DEF R
<1>3. PICK x \in T : \A y \in T : ~ (<<y, x>> \in R)
  BY <1>1, WFMin, Zenon
<1>4. ASSUME NEW y \in T PROVE x <= y
  <2>1. x \in Nat /\ y \in Nat
    BY <1>3, <1>4
  <2>2. ~(y < x)
    BY <1>2, <1>3, <2>1
  <2>3. QED
    BY <2>1, <2>2
<1>5. QED
  BY <1>3, <1>4

(* Induction, with the property as a set.                                  *)
LEMMA Induction ==
  ASSUME NEW S, 0 \in S, \A k \in Nat : k \in S => k + 1 \in S
  PROVE  Nat \subseteq S
<1> SUFFICES ASSUME Nat \ S # {} PROVE FALSE
  OBVIOUS
<1>1. PICK x \in Nat \ S : \A y \in Nat \ S : x <= y
  BY Least
<1>2. x # 0 /\ x - 1 \in Nat
  BY <1>1
<1>3. x - 1 \in S
  BY <1>1, <1>2
<1>4. (x - 1) + 1 = x
  BY <1>1
<1>5. QED
  BY <1>1, <1>2, <1>3, <1>4

(* A recursive function exists: start, and one application of step to the  *)
(* value before.                                                           *)
Steps(step, S) == step \in [Nat -> [S -> S]]

Recursive(f, S, start, step) ==
  /\ f \in [Nat -> S] /\ f[0] = start
  /\ \A k \in Nat : f[k + 1] = step[k][f[k]]

LEMMA Recursion ==
  ASSUME NEW S, NEW start \in S, NEW step, Steps(step, S)
  PROVE  \E f : Recursive(f, S, start, step)
<1> USE DEF Steps
<1> DEFINE Upto(k, f) ==
             /\ f \in [0 .. k -> S] /\ f[0] = start
             /\ \A m \in 0 .. k - 1 : f[m + 1] = step[m][f[m]]
           There == {k \in Nat : \E f : Upto(k, f)}
           Same == {k \in Nat : \A m, p \in Nat : \A f, g :
                      Upto(m, f) /\ Upto(p, g) /\ k <= m /\ k <= p =>
                        f[k] = g[k]}
<1>1. Nat \subseteq There
  <2>1. 0 \in There
    <3>1. Upto(0, [m \in 0 .. 0 |-> start])
      OBVIOUS
    <3> HIDE DEF Upto
    <3>2. QED
      BY <3>1
  <2>2. ASSUME NEW k \in Nat, k \in There PROVE k + 1 \in There
    <3>1. PICK f : Upto(k, f)
      BY <2>2
    <3> DEFINE g == [m \in 0 .. k + 1 |->
                       IF m = k + 1 THEN step[k][f[k]] ELSE f[m]]
    <3>2. f[k] \in S /\ step[k][f[k]] \in S
      BY <3>1
    <3>3. g \in [0 .. k + 1 -> S] /\ g[0] = start
      BY <3>1, <3>2
    <3>4. \A m \in 0 .. k : g[m] = f[m]
      OBVIOUS
    <3>5. g[k + 1] = step[k][g[k]]
      <4>1. g[k] = f[k]
        BY <3>4
      <4>2. g[k + 1] = step[k][f[k]]
        OBVIOUS
      <4>3. QED
        BY <4>1, <4>2
    <3> HIDE DEF g
    <3>6. \A m \in 0 .. (k + 1) - 1 : g[m + 1] = step[m][g[m]]
      <4> SUFFICES ASSUME NEW m \in 0 .. k PROVE g[m + 1] = step[m][g[m]]
        OBVIOUS
      <4>1. CASE m = k
        BY <4>1, <3>5
      <4>2. CASE m # k
        BY <4>2, <3>1, <3>4
      <4>3. QED
        BY <4>1, <4>2
    <3>7. Upto(k + 1, g)
      BY <3>3, <3>6
    <3> HIDE DEF Upto
    <3>8. QED
      BY <3>7
  <2> HIDE DEF There
  <2>3. QED
    BY <2>1, <2>2, Induction
<1>2. Nat \subseteq Same
  <2>1. 0 \in Same
    OBVIOUS
  <2>2. ASSUME NEW k \in Nat, k \in Same PROVE k + 1 \in Same
    <3> HIDE DEF Upto
    <3> SUFFICES ASSUME NEW m \in Nat, NEW p \in Nat, NEW f, NEW g,
                        Upto(m, f), Upto(p, g), k + 1 <= m, k + 1 <= p
                 PROVE  f[k + 1] = g[k + 1]
      OBVIOUS
    <3>1. f[k] = g[k]
      <4>1. k <= m /\ k <= p
        OBVIOUS
      <4>2. QED
        BY <2>2, <4>1
    <3>2. f[k + 1] = step[k][f[k]] /\ g[k + 1] = step[k][g[k]]
      <4>1. k \in 0 .. m - 1 /\ k \in 0 .. p - 1
        OBVIOUS
      <4>2. QED
        BY <4>1 DEF Upto
    <3>3. QED
      BY <3>1, <3>2
  <2> HIDE DEF Same
  <2>3. QED
    BY <2>1, <2>2, Induction
<1> DEFINE h(k) == CHOOSE f : Upto(k, f)
           F == [k \in Nat |-> h(k)[k]]
<1>3. \A k \in Nat : Upto(k, h(k))
  <2> HIDE DEF Upto
  <2>1. QED
    BY <1>1
<1>4. \A k \in Nat : h(k)[k] \in S
  <2> HIDE DEF h
  <2>1. QED
    BY <1>3
<1>5. F \in [Nat -> S]
  BY <1>4
<1>6. F[0] = start
  <2> HIDE DEF h
  <2>1. QED
    BY <1>3
<1>7. ASSUME NEW k \in Nat PROVE F[k + 1] = step[k][F[k]]
  <2>1. k + 1 \in Nat /\ k <= k + 1 /\ k <= k
    OBVIOUS
  <2>2. Upto(k, h(k)) /\ Upto(k + 1, h(k + 1))
    BY <1>3, <2>1
  <2> HIDE DEF h
  <2>3. h(k + 1)[k] = h(k)[k]
    <3> HIDE DEF Upto
    <3>1. k \in Same
      BY <1>2
    <3>2. QED
      BY <2>1, <2>2, <3>1
  <2>4. h(k + 1)[k + 1] = step[k][h(k + 1)[k]]
    <3>1. k \in 0 .. (k + 1) - 1
      OBVIOUS
    <3>2. QED
      BY <2>2, <3>1
  <2>5. QED
    BY <2>1, <2>3, <2>4
<1> HIDE DEF F
<1>8. Recursive(F, S, start, step)
  BY <1>5, <1>6, <1>7 DEF Recursive
<1>9. QED
  BY <1>8

LEMMA BaseFacts ==
  /\ Base \in Nat \ {0} /\ Base % 2 = 0 /\ Base >= 2
  /\ Short \in Nat \ {0} /\ Long \in Nat \ {0}
<1>1. Base \in Nat \ {0} /\ Base % 2 = 0 /\ Short \in Nat \ {0} /\ Long \in Nat \ {0}
  BY CodecAssumption
<1>2. Base # 1
  BY <1>1
<1>3. QED
  BY <1>1, <1>2

(* The powers are those their recursion names.                             *)
LEMMA PowerFacts ==
  /\ Power \in [Nat -> Nat \ {0}]
  /\ Power[0] = 1
  /\ \A k \in Nat : Power[k + 1] = Base * Power[k]
<1> DEFINE S == Nat \ {0}
           P(f) == f = [k \in Nat |-> IF k = 0 THEN 1 ELSE Base * f[k - 1]]
           step == [k \in Nat |-> [s \in S |-> Base * s]]
<1>1. \A s \in S : Base * s \in S
  BY BaseFacts
<1>2. Steps(step, S)
  BY <1>1 DEF Steps
<1>3. \A k \in Nat : \A s \in S : step[k][s] = Base * s
  OBVIOUS
<1>4. 1 \in S
  OBVIOUS
<1>5. PICK f : Recursive(f, S, 1, step)
  <2> HIDE DEF step, S
  <2>1. QED
    BY <1>2, <1>4, Recursion, Zenon
<1>6. \A k \in Nat : f[k + 1] = Base * f[k]
  <2> HIDE DEF step
  <2>1. QED
    BY <1>3, <1>5 DEF Recursive
<1>7. P(f)
  <2>1. ASSUME NEW k \in Nat
        PROVE  f[k] = IF k = 0 THEN 1 ELSE Base * f[k - 1]
    <3>1. CASE k = 0
      BY <3>1, <1>5 DEF Recursive
    <3>2. CASE k # 0
      <4>1. k - 1 \in Nat /\ (k - 1) + 1 = k
        BY <3>2
      <4>2. QED
        BY <4>1, <1>6, <3>2
    <3>3. QED
      BY <3>1, <3>2
  <2>2. QED
    BY <1>5, <2>1 DEF Recursive
<1>8. Power = CHOOSE g : P(g)
  BY DEF Power
<1>9. P(Power)
  <2> HIDE DEF P
  <2>1. QED
    BY <1>7, <1>8, Zenon
<1>10. Power[0] = 1 /\ \A k \in Nat : Power[k + 1] = Base * Power[k]
  <2>1. Power[0] = 1
    BY <1>9
  <2>2. ASSUME NEW k \in Nat PROVE Power[k + 1] = Base * Power[k]
    <3>1. k + 1 \in Nat /\ k + 1 # 0 /\ (k + 1) - 1 = k
      OBVIOUS
    <3>2. QED
      BY <1>9, <3>1
  <2>3. QED
    BY <2>1, <2>2
<1> DEFINE E == {k \in Nat : Power[k] \in S}
<1>11. Nat \subseteq E
  <2>1. 0 \in E
    BY <1>10
  <2>2. ASSUME NEW k \in Nat, k \in E PROVE k + 1 \in E
    <3>1. Power[k] \in S /\ Power[k + 1] = Base * Power[k]
      BY <1>10, <2>2
    <3>2. Power[k + 1] \in S
      BY <3>1, BaseFacts
    <3>3. QED
      BY <3>2
  <2> HIDE DEF E
  <2>3. QED
    BY <2>1, <2>2, Induction
<1>12. Power \in [Nat -> S]
  BY <1>9, <1>11
<1>13. QED
  BY <1>10, <1>12

LEMMA PowerStep ==
  ASSUME NEW k \in Nat
  PROVE  /\ Power[k] \in Nat /\ Power[k] > 0
         /\ Power[k + 1] = Base * Power[k]
<1>1. Power[k] \in Nat \ {0}
  BY PowerFacts
<1>2. QED
  BY <1>1, PowerFacts

(* A power divides those above it.                                         *)
LEMMA PowerSplit ==
  ASSUME NEW e \in Nat, NEW k \in Nat, e <= k
  PROVE  \E x \in Nat : Power[k] = Power[e] * x
<1> DEFINE S == {j \in Nat : \E x \in Nat : Power[e + j] = Power[e] * x}
<1>1. 0 \in S
  <2>1. Power[e] = Power[e] * 1 /\ e + 0 = e
    BY PowerStep
  <2>2. QED
    BY <2>1
<1>2. ASSUME NEW j \in Nat, j \in S PROVE j + 1 \in S
  <2>1. PICK x \in Nat : Power[e + j] = Power[e] * x
    BY <1>2
  <2>2. e + j \in Nat /\ e + (j + 1) = (e + j) + 1
    OBVIOUS
  <2>3. Power[(e + j) + 1] = Base * (Power[e] * x)
    BY <2>1, <2>2, PowerStep
  <2>4. Base * (Power[e] * x) = Power[e] * (Base * x) /\ Base * x \in Nat
    <3>1. Power[e] \in Nat
      BY PowerStep
    <3>2. QED
      BY <3>1, BaseFacts
  <2>5. QED
    BY <2>2, <2>3, <2>4
<1> HIDE DEF S
<1>3. k - e \in S
  BY <1>1, <1>2, Induction
<1>4. e + (k - e) = k
  OBVIOUS
<1>5. QED
  BY <1>3, <1>4 DEF S

(* Division, and what it leaves.                                           *)
LEMMA DivMod ==
  ASSUME NEW v \in Nat, NEW b \in Nat, b > 0
  PROVE  /\ v \div b \in Nat /\ v % b \in Nat /\ v % b < b
         /\ v = b * (v \div b) + (v % b)
OBVIOUS

LEMMA DivUnique ==
  ASSUME NEW q \in Nat, NEW b \in Nat, b > 0, NEW r \in Nat, r < b
  PROVE  (r + b * q) \div b = q /\ (r + b * q) % b = r
OBVIOUS

(* A division by b * p is one by p and then one by b.                      *)
LEMMA DivTwice ==
  ASSUME NEW v \in Nat, NEW b \in Nat, b > 0, NEW p \in Nat, p > 0
  PROVE  v % (b * p) = (v % p) + ((v \div p) % b) * p
<1> DEFINE q == v \div p
           r == v % p
           x == q \div b
           y == q % b
<1>1. q \in Nat /\ r \in Nat /\ r < p /\ v = p * q + r
  BY DivMod
<1>2. x \in Nat /\ y \in Nat /\ y < b /\ q = b * x + y
  BY <1>1, DivMod
<1> HIDE DEF q, r, x, y
<1>3. v = (r + y * p) + (b * p) * x
  <2>1. p * q = p * (b * x) + p * y
    BY <1>1, <1>2
  <2>2. p * (b * x) = (b * p) * x /\ p * y = y * p
    BY <1>2
  <2>3. p * (b * x) \in Nat /\ p * y \in Nat
    BY <1>2
  <2>4. QED
    BY <1>1, <2>1, <2>2, <2>3
<1>4. r + y * p \in Nat /\ r + y * p < b * p /\ b * p \in Nat /\ b * p > 0
  <2>1. y + 1 <= b
    BY <1>2
  <2>2. (y + 1) * p <= b * p
    BY <1>2, <2>1
  <2>3. (y + 1) * p = y * p + p /\ y * p \in Nat
    BY <1>2
  <2>4. b * p \in Nat /\ b * p > 0
    OBVIOUS
  <2>5. QED
    BY <1>1, <2>2, <2>3, <2>4
<1>5. v % (b * p) = r + y * p
  <2> DEFINE m == b * p
             z == r + y * p
  <2>1. m \in Nat /\ m > 0 /\ z \in Nat /\ z < m /\ v = z + m * x
    BY <1>3, <1>4
  <2> HIDE DEF m, z
  <2>2. v % m = z
    BY <1>2, <2>1, DivUnique
  <2>3. QED
    BY <2>2 DEF m, z
<1>6. QED
  BY <1>5 DEF q, r, y

(* A sequence, of whatever elements.                                       *)
IsSeq(s) == Len(s) \in Nat /\ \E S : s \in Seq(S)

ByteString == Seq(Byte)

LEMMA ByteFacts == Byte \subseteq Nat /\ \A x \in Byte : x < Base
BY BaseFacts DEF Byte

(* The sums of the decoder's loop.                                         *)
Sums(b, v) ==
  /\ v \in [0 .. Len(b) -> Nat] /\ v[0] = 0
  /\ \A d \in 1 .. Len(b) : v[d] = v[d - 1] + b[d] * Power[d - 1]
  /\ Number(b) = v[Len(b)]

(* The sums exist, and the last of them is the number.                     *)
LEMMA NumberSums ==
  ASSUME NEW b \in ByteString
  PROVE  \E v : Sums(b, v)
<1> DEFINE w == Len(b)
           P(v) == v = [d \in 0 .. w |->
                          IF d = 0 THEN 0 ELSE v[d - 1] + b[d] * Power[d - 1]]
           step == [k \in Nat |-> [s \in Nat |->
                      IF k < w THEN s + b[k + 1] * Power[k] ELSE s]]
<1>1. w \in Nat /\ \A d \in 1 .. w : b[d] \in Nat
  <2>1. w \in Nat /\ \A d \in 1 .. w : b[d] \in Byte
    BY DEF ByteString
  <2>2. QED
    BY <2>1, ByteFacts
<1>2. \A k \in Nat : k < w => b[k + 1] \in Nat /\ b[k + 1] * Power[k] \in Nat
  <2> SUFFICES ASSUME NEW k \in Nat, k < w
               PROVE  b[k + 1] \in Nat /\ b[k + 1] * Power[k] \in Nat
    OBVIOUS
  <2>1. b[k + 1] \in Nat
    BY <1>1
  <2>2. Power[k] \in Nat
    BY PowerStep
  <2>3. QED
    BY <2>1, <2>2
<1>3. Steps(step, Nat)
  <2> HIDE DEF w
  <2>1. QED
    BY <1>1, <1>2 DEF Steps
<1>4. \A k \in Nat : \A s \in Nat :
        k < w => step[k][s] = s + b[k + 1] * Power[k]
  OBVIOUS
<1>5. PICK f : Recursive(f, Nat, 0, step)
  <2> HIDE DEF step
  <2>1. QED
    BY <1>3, Recursion, Zenon
<1>6. /\ f \in [Nat -> Nat] /\ f[0] = 0
      /\ \A k \in Nat : k < w => f[k + 1] = f[k] + b[k + 1] * Power[k]
  <2> HIDE DEF step, w
  <2>1. QED
    BY <1>4, <1>5 DEF Recursive
<1> DEFINE v == [d \in 0 .. w |-> f[d]]
<1>7. v \in [0 .. w -> Nat] /\ v[0] = 0
  BY <1>1, <1>6
<1>8. ASSUME NEW d \in 1 .. w PROVE v[d] = v[d - 1] + b[d] * Power[d - 1]
  <2>1. d - 1 \in Nat /\ d - 1 < w /\ (d - 1) + 1 = d
    BY <1>1
  <2>2. f[(d - 1) + 1] = f[d - 1] + b[(d - 1) + 1] * Power[d - 1]
    BY <1>6, <2>1
  <2>3. v[d] = f[d] /\ v[d - 1] = f[d - 1]
    BY <1>1
  <2>4. QED
    BY <2>1, <2>2, <2>3
<1>9. P(v)
  <2> DEFINE g == [d \in 0 .. w |->
                     IF d = 0 THEN 0 ELSE v[d - 1] + b[d] * Power[d - 1]]
  <2>1. \A d \in 0 .. w : g[d] = v[d]
    <3> SUFFICES ASSUME NEW d \in 0 .. w PROVE g[d] = v[d]
      OBVIOUS
    <3>1. CASE d = 0
      BY <3>1, <1>7
    <3>2. CASE d # 0
      <4>1. d \in 1 .. w
        BY <3>2, <1>1
      <4>2. v[d] = v[d - 1] + b[d] * Power[d - 1]
        BY <1>8, <4>1
      <4>3. g[d] = v[d - 1] + b[d] * Power[d - 1]
        BY <3>2
      <4>4. QED
        BY <4>2, <4>3
    <3>3. QED
      BY <3>1, <3>2
  <2>2. v = [d \in 0 .. w |-> v[d]]
    OBVIOUS
  <2> HIDE DEF v
  <2>3. QED
    BY <2>1, <2>2
<1> HIDE DEF v, w
<1> DEFINE u == CHOOSE x : P(x)
<1>10. P(u)
  <2> HIDE DEF P
  <2>1. QED
    BY <1>9, Zenon
<1>11. Number(b) = u[w]
  BY DEF Number, w
<1> HIDE DEF u
<1>12. /\ DOMAIN u = 0 .. w /\ u[0] = 0
       /\ \A d \in 1 .. w : u[d] = u[d - 1] + b[d] * Power[d - 1]
  BY <1>1, <1>10
<1> DEFINE E == {k \in Nat : k <= w => u[k] \in Nat}
<1>13. Nat \subseteq E
  <2>1. 0 \in E
    BY <1>12
  <2>2. ASSUME NEW k \in Nat, k \in E PROVE k + 1 \in E
    <3> SUFFICES ASSUME k + 1 <= w PROVE u[k + 1] \in Nat
      OBVIOUS
    <3>1. k < w /\ k <= w /\ k + 1 \in 1 .. w /\ (k + 1) - 1 = k
      BY <1>1
    <3>2. u[k] \in Nat
      BY <2>2, <3>1
    <3>3. u[k + 1] = u[k] + b[k + 1] * Power[k]
      BY <1>12, <3>1
    <3>4. b[k + 1] * Power[k] \in Nat
      BY <1>2, <3>1
    <3>5. QED
      BY <3>2, <3>3, <3>4
  <2> HIDE DEF E
  <2>3. QED
    BY <2>1, <2>2, Induction
<1>14. u \in [0 .. w -> Nat]
  <2>1. \A k \in 0 .. w : u[k] \in Nat
    BY <1>1, <1>13
  <2>2. u = [d \in 0 .. w |-> u[d]]
    BY <1>10
  <2>3. QED
    BY <2>1, <2>2
<1>15. Sums(b, u)
  BY <1>11, <1>12, <1>14 DEF Sums, w
<1>16. QED
  BY <1>15

LEMMA DigitFacts ==
  ASSUME NEW b \in ByteString, NEW v, Sums(b, v), NEW k \in Nat, k < Len(b)
  PROVE  /\ Len(b) \in Nat /\ v[k] \in Nat /\ v[k + 1] \in Nat
         /\ b[k + 1] \in Byte /\ b[k + 1] \in Nat /\ b[k + 1] < Base
         /\ v[k + 1] = v[k] + b[k + 1] * Power[k]
<1>1. Len(b) \in Nat /\ \A d \in 1 .. Len(b) : b[d] \in Byte
  BY DEF ByteString
<1>2. k + 1 \in 1 .. Len(b) /\ (k + 1) - 1 = k /\ k \in 0 .. Len(b)
      /\ k + 1 \in 0 .. Len(b)
  BY <1>1
<1>3. v[k] \in Nat /\ v[k + 1] \in Nat
  BY <1>2 DEF Sums
<1>4. v[k + 1] = v[k] + b[k + 1] * Power[k]
  BY <1>2 DEF Sums
<1>5. b[k + 1] \in Byte
  BY <1>1, <1>2
<1>6. QED
  BY <1>1, <1>3, <1>4, <1>5, ByteFacts

(* Fewer bytes make a smaller number.                                      *)
LEMMA SumsBound ==
  ASSUME NEW b \in ByteString, NEW v, Sums(b, v)
  PROVE  \A k \in Nat : k <= Len(b) => v[k] \in Nat /\ v[k] < Power[k]
<1> DEFINE S == {k \in Nat : k <= Len(b) => v[k] \in Nat /\ v[k] < Power[k]}
<1>1. 0 \in S
  <2>1. v[0] = 0 /\ Power[0] = 1
    BY PowerFacts DEF Sums
  <2>2. QED
    BY <2>1
<1>2. ASSUME NEW k \in Nat, k \in S PROVE k + 1 \in S
  <2> SUFFICES ASSUME k + 1 <= Len(b)
               PROVE  v[k + 1] \in Nat /\ v[k + 1] < Power[k + 1]
    OBVIOUS
  <2>0. Len(b) \in Nat
    BY DEF ByteString
  <2>1. k < Len(b) /\ k <= Len(b)
    BY <2>0
  <2>2. v[k] \in Nat /\ v[k] < Power[k]
    BY <1>2, <2>1
  <2> DEFINE d == b[k + 1]
             p == Power[k]
             x == v[k]
  <2>3. d \in Nat /\ d < Base /\ v[k + 1] \in Nat /\ v[k + 1] = x + d * p
    BY <2>1, DigitFacts
  <2>4. p \in Nat /\ p > 0 /\ Power[k + 1] = Base * p
    BY PowerStep
  <2>5. x \in Nat /\ x < p
    BY <2>2
  <2> HIDE DEF d, p, x
  <2>6. (d + 1) * p <= Base * p
    BY <2>3, <2>4, BaseFacts
  <2>7. (d + 1) * p = d * p + p /\ d * p \in Nat /\ Base * p \in Nat
    BY <2>3, <2>4, BaseFacts
  <2>8. x + d * p < Base * p
    BY <2>5, <2>6, <2>7, <2>4
  <2>9. QED
    BY <2>3, <2>4, <2>8
<1> HIDE DEF S
<1>3. Nat \subseteq S
  BY <1>1, <1>2, Induction
<1>4. QED
  BY <1>3 DEF S

(* Adding the bytes above one leaves it.                                   *)
LEMMA SumsDigit ==
  ASSUME NEW b \in ByteString, NEW v, Sums(b, v), NEW e \in Nat, e < Len(b)
  PROVE  \A k \in Nat : e < k /\ k <= Len(b) =>
           (v[k] \div Power[e]) % Base = b[e + 1]
<1> DEFINE S == {j \in Nat : e + 1 + j <= Len(b) =>
                   (v[e + 1 + j] \div Power[e]) % Base = b[e + 1]}
           q == Power[e]
<1>0. Len(b) \in Nat
  BY DEF ByteString
<1>q. q \in Nat /\ q > 0
  BY PowerStep
<1>1. 0 \in S
  <2>1. v[e] \in Nat /\ v[e] < q
    BY SumsBound, <1>0
  <2>2. /\ b[e + 1] \in Nat /\ b[e + 1] < Base
        /\ v[e + 1] = v[e] + b[e + 1] * Power[e]
    BY DigitFacts
  <2>3. v[e + 1] = v[e] + q * b[e + 1]
    BY <2>1, <2>2, <1>q
  <2>4. v[e + 1] \div q = b[e + 1]
    <3> DEFINE r == v[e]
               c == b[e + 1]
    <3>1. r \in Nat /\ r < q /\ c \in Nat /\ v[e + 1] = r + q * c
      BY <2>1, <2>2, <2>3
    <3> HIDE DEF q, r, c
    <3>2. (r + q * c) \div q = c
      BY <1>q, <3>1, DivUnique
    <3>3. QED
      BY <3>1, <3>2 DEF c
  <2>5. b[e + 1] % Base = b[e + 1]
    BY <2>2, BaseFacts
  <2>6. e + 1 + 0 = e + 1
    OBVIOUS
  <2>7. QED
    BY <2>4, <2>5, <2>6 DEF q
<1>2. ASSUME NEW j \in Nat, j \in S PROVE j + 1 \in S
  <2> DEFINE m == e + 1 + j
  <2>0. m \in Nat /\ e + 1 + (j + 1) = m + 1 /\ e + 1 <= m
    OBVIOUS
  <2> HIDE DEF m
  <2> SUFFICES ASSUME m + 1 <= Len(b)
               PROVE  (v[m + 1] \div Power[e]) % Base = b[e + 1]
    BY <2>0
  <2>1. m < Len(b) /\ m <= Len(b)
    BY <1>0, <2>0
  <2>2. (v[m] \div Power[e]) % Base = b[e + 1]
    BY <1>2, <2>1 DEF m
  <2>3. /\ v[m] \in Nat /\ b[m + 1] \in Nat
        /\ v[m + 1] = v[m] + b[m + 1] * Power[m]
    BY <2>0, <2>1, DigitFacts
  <2>4. PICK x \in Nat : Power[m] = Power[e + 1] * x
    BY <2>0, PowerSplit
  <2>5. Power[m] = q * (Base * x)
    <3>1. Power[e + 1] = Base * q
      BY PowerStep
    <3> HIDE DEF q
    <3>2. (Base * q) * x = q * (Base * x)
      BY <1>q, BaseFacts
    <3>3. QED
      BY <2>4, <3>1, <3>2
  <2> DEFINE c == b[m + 1]
             y == v[m]
  <2>6. y \in Nat /\ c \in Nat /\ v[m + 1] = y + c * (q * (Base * x))
    BY <2>3, <2>5
  <2> HIDE DEF c, y, q
  <2>7. c * (q * (Base * x)) = q * (Base * (x * c)) /\ x * c \in Nat
    BY <2>6, <1>q, BaseFacts
  <2>8. y = q * (y \div q) + (y % q) /\ y \div q \in Nat /\ y % q \in Nat
        /\ y % q < q
    BY <2>6, <1>q, DivMod
  <2> DEFINE z == x * c
             f == y \div q
             r == y % q
             g == f + Base * z
  <2>9. v[m + 1] = r + q * g /\ g \in Nat
    <3>1. y = q * f + r /\ z \in Nat /\ f \in Nat /\ r \in Nat
      BY <2>7, <2>8
    <3>2. v[m + 1] = y + q * (Base * z)
      BY <2>6, <2>7
    <3> HIDE DEF f, r, z
    <3>3. q * (f + Base * z) = q * f + q * (Base * z) /\ Base * z \in Nat
      BY <3>1, <1>q, BaseFacts
    <3>4. q * f \in Nat /\ q * (Base * z) \in Nat
      BY <3>1, <3>3, <1>q
    <3>5. QED
      BY <3>1, <3>2, <3>3, <3>4
  <2>10. v[m + 1] \div q = g
    <3>1. r \in Nat /\ r < q
      BY <2>8
    <3> HIDE DEF g, r
    <3>2. QED
      BY <2>9, <3>1, <1>q, DivUnique
  <2>11. g % Base = f % Base
    <3>1. z \in Nat /\ f \in Nat
      BY <2>7, <2>8
    <3> HIDE DEF z, f
    <3> DEFINE h == f \div Base
               t == f % Base
    <3>2. h \in Nat /\ t \in Nat /\ t < Base /\ f = Base * h + t
      BY <3>1, BaseFacts, DivMod
    <3> HIDE DEF h, t
    <3>3. f + Base * z = t + Base * (h + z)
      BY <3>1, <3>2, BaseFacts
    <3>4. (t + Base * (h + z)) % Base = t
      BY <3>1, <3>2, BaseFacts, DivUnique
    <3>5. QED
      BY <3>3, <3>4 DEF t
  <2>12. f % Base = b[e + 1]
    BY <2>2 DEF y, q
  <2>13. QED
    BY <2>10, <2>11, <2>12 DEF q
<1> HIDE DEF S
<1>3. Nat \subseteq S
  BY <1>1, <1>2, Induction
<1>4. ASSUME NEW k \in Nat, e < k, k <= Len(b)
      PROVE  (v[k] \div Power[e]) % Base = b[e + 1]
  <2>1. k - (e + 1) \in Nat /\ e + 1 + (k - (e + 1)) = k
    BY <1>4
  <2>2. k - (e + 1) \in S
    BY <1>3, <2>1
  <2>3. QED
    BY <1>4, <2>1, <2>2 DEF S
<1>5. QED
  BY <1>4

(* The digits of a number.                                                 *)
LEMMA BytesType ==
  ASSUME NEW v \in Nat, NEW w \in Nat
  PROVE  /\ Bytes(v, w) \in ByteString /\ Len(Bytes(v, w)) = w
         /\ \A d \in 1 .. w : Bytes(v, w)[d] = (v \div Power[d - 1]) % Base
<1>1. \A d \in 1 .. w : (v \div Power[d - 1]) % Base \in Byte
  <2> SUFFICES ASSUME NEW d \in 1 .. w
               PROVE  (v \div Power[d - 1]) % Base \in Byte
    OBVIOUS
  <2>1. Power[d - 1] \in Nat /\ Power[d - 1] > 0
    BY PowerStep
  <2>2. v \div Power[d - 1] \in Nat
    BY <2>1, DivMod
  <2>3. QED
    BY <2>2, BaseFacts DEF Byte
<1>2. Bytes(v, w) \in [1 .. w -> Byte]
  BY <1>1 DEF Bytes
<1>3. \A d \in 1 .. w : Bytes(v, w)[d] = (v \div Power[d - 1]) % Base
  BY DEF Bytes
<1>4. QED
  BY <1>2, <1>3 DEF ByteString

(* Sequences of bytes that agree at every place are equal.                 *)
LEMMA SameBytes ==
  ASSUME NEW s \in ByteString, NEW t \in ByteString, Len(s) = Len(t),
         \A d \in 1 .. Len(s) : s[d] = t[d]
  PROVE  s = t
BY DEF ByteString

(* What bytes decode to, and what is encoded from that: the bytes.         *)
LEMMA BytesOfNumber ==
  ASSUME NEW b \in ByteString
  PROVE  /\ Number(b) \in Nat /\ Number(b) < Power[Len(b)]
         /\ Bytes(Number(b), Len(b)) = b
<1> DEFINE w == Len(b)
           u == Number(b)
<1>1. PICK v : Sums(b, v)
  BY NumberSums
<1>2. w \in Nat /\ u = v[w]
  BY <1>1 DEF ByteString, Sums
<1>3. u \in Nat /\ u < Power[w]
  BY <1>1, <1>2, SumsBound
<1>4. /\ Bytes(u, w) \in ByteString /\ Len(Bytes(u, w)) = w
      /\ \A d \in 1 .. w : Bytes(u, w)[d] = (u \div Power[d - 1]) % Base
  BY <1>2, <1>3, BytesType
<1>5. \A d \in 1 .. w : (u \div Power[d - 1]) % Base = b[d]
  <2> SUFFICES ASSUME NEW d \in 1 .. w
               PROVE  (v[w] \div Power[d - 1]) % Base = b[d]
    BY <1>2
  <2>1. d - 1 \in Nat /\ d - 1 < w /\ (d - 1) + 1 = d
    BY <1>2
  <2>2. QED
    BY <1>1, <1>2, <2>1, SumsDigit
<1> HIDE DEF u
<1>6. Bytes(u, w) = b
  BY <1>4, <1>5, SameBytes
<1>7. QED
  BY <1>3, <1>6 DEF u

(* What is decoded of the bytes of a number is the number.                 *)
LEMMA NumberOfBytes ==
  ASSUME NEW u \in Nat, NEW w \in Nat, u < Power[w]
  PROVE  Number(Bytes(u, w)) = u
<1> DEFINE b == Bytes(u, w)
<1>1. /\ b \in ByteString /\ Len(b) = w
      /\ \A d \in 1 .. w : b[d] = (u \div Power[d - 1]) % Base
  BY BytesType
<1> HIDE DEF b
<1>2. PICK v : Sums(b, v)
  BY <1>1, NumberSums
<1> DEFINE S == {k \in Nat : k <= w => v[k] = u % Power[k]}
<1>3. 0 \in S
  <2>1. v[0] = 0 /\ Power[0] = 1
    BY <1>2, PowerFacts DEF Sums
  <2>2. QED
    BY <2>1
<1>4. ASSUME NEW k \in Nat, k \in S PROVE k + 1 \in S
  <2> SUFFICES ASSUME k + 1 <= w PROVE v[k + 1] = u % Power[k + 1]
    OBVIOUS
  <2>1. k < w /\ k <= w /\ k + 1 \in 1 .. w /\ (k + 1) - 1 = k
    OBVIOUS
  <2>2. v[k] = u % Power[k]
    BY <1>4, <2>1
  <2>3. v[k + 1] = v[k] + b[k + 1] * Power[k]
    <3>1. k < Len(b)
      BY <1>1, <2>1
    <3>2. QED
      BY <1>1, <1>2, <3>1, DigitFacts
  <2>4. b[k + 1] = (u \div Power[k]) % Base
    BY <1>1, <2>1
  <2>5. /\ Power[k] \in Nat /\ Power[k] > 0
        /\ Power[k + 1] = Base * Power[k]
    BY PowerStep
  <2>6. u % (Base * Power[k]) =
          (u % Power[k]) + ((u \div Power[k]) % Base) * Power[k]
    <3> DEFINE p == Power[k]
    <3>1. p \in Nat /\ p > 0 /\ Base \in Nat /\ Base > 0
      BY <2>5, BaseFacts
    <3> HIDE DEF p
    <3>2. u % (Base * p) = (u % p) + ((u \div p) % Base) * p
      BY <3>1, DivTwice
    <3>3. QED
      BY <3>2 DEF p
  <2>7. QED
    BY <2>2, <2>3, <2>4, <2>5, <2>6
<1> HIDE DEF S
<1>5. w \in S
  BY <1>3, <1>4, Induction
<1>6. v[w] = u % Power[w]
  BY <1>5 DEF S
<1>7. u % Power[w] = u
  <2>1. Power[w] \in Nat
    BY PowerStep
  <2>2. QED
    BY <2>1
<1>8. QED
  BY <1>1, <1>2, <1>6, <1>7 DEF Sums, b

LEMMA WidthFacts ==
  ASSUME NEW kind \in Kinds, ~ IsText(kind)
  PROVE  /\ Width(kind) \in Nat /\ Power[Width(kind)] \in Nat
         /\ Power[Width(kind)] > 0
         /\ kind = "bool" => Width(kind) = 1
         /\ kind = "i32" => Width(kind) = Short
<1>1. /\ kind = "bool" => Width(kind) = 1
      /\ kind \in {"i32", "u32"} => Width(kind) = Short
      /\ kind = "u64" => Width(kind) = Long
  BY Zenon DEF Width
<1>2. kind \in {"bool", "i32", "u32", "u64"}
  BY DEF Kinds, IsText
<1>3. Width(kind) \in Nat
  BY <1>1, <1>2, BaseFacts
<1>4. QED
  BY <1>1, <1>3, PowerStep

LEMMA PowerOne == Power[1] = Base
<1>1. Power[0] = 1 /\ 0 + 1 = 1
  BY PowerFacts
<1>2. Power[0 + 1] = Base * Power[0]
  BY PowerStep
<1>3. QED
  BY <1>1, <1>2, BaseFacts

(* Base is even, and so the two halves of the numbers of i32 are equal.    *)
LEMMA PowerHalf ==
  LET h == Power[Short] \div 2 IN h \in Nat /\ h > 0 /\ Power[Short] = h + h
<1> DEFINE p == Power[Short - 1]
           c == Base \div 2
<1>1. p \in Nat /\ p > 0 /\ Power[Short] = Base * p
  <2>1. Short - 1 \in Nat /\ (Short - 1) + 1 = Short
    BY BaseFacts
  <2>2. QED
    BY <2>1, PowerStep
<1>2. c \in Nat /\ c > 0 /\ Base = 2 * c
  BY BaseFacts
<1> HIDE DEF p, c
<1>3. Power[Short] = 2 * (c * p) /\ c * p \in Nat /\ c * p > 0
  BY <1>1, <1>2
<1>4. QED
  BY <1>3

LEMMA FixedValues ==
  /\ Values("bool") = BOOLEAN
  /\ Values("i32") = -(Power[Short] \div 2) .. (Power[Short] \div 2) - 1
  /\ Values("u32") = 0 .. Power[Short] - 1
  /\ Values("u64") = 0 .. Power[Long] - 1
BY Zenon DEF Values, LengthMax

LEMMA FixedKinds ==
  ASSUME NEW kind \in Kinds, ~ IsText(kind)
  PROVE  kind \in {"bool", "i32", "u32", "u64"}
BY DEF Kinds, IsText

(* The numbers of a fixed value.                                           *)
LEMMA BitsType ==
  ASSUME NEW kind \in Kinds, ~ IsText(kind), NEW v \in Values(kind)
  PROVE  /\ Bits(kind, v) \in Nat /\ Bits(kind, v) < Power[Width(kind)]
         /\ kind = "bool" => BoolOk(Bits(kind, v))
<1>0. kind \in {"bool", "i32", "u32", "u64"}
  BY FixedKinds
<1>1. CASE kind = "bool"
  <2>1. Bits(kind, v) = 1 \/ Bits(kind, v) = 0
    BY <1>1 DEF Bits
  <2>2. QED
    BY <1>1, <2>1, WidthFacts, PowerOne, BaseFacts DEF BoolOk
<1>2. CASE kind # "bool"
  <2>1. Bits(kind, v) = v % Power[Width(kind)]
    BY <1>2 DEF Bits
  <2>2. v \in Int
    <3>1. CASE kind = "i32"
      BY <3>1, FixedValues, PowerHalf
    <3>p. Power[Short] \in Nat /\ Power[Long] \in Nat
      BY PowerStep, BaseFacts
    <3>2. CASE kind = "u32"
      BY <3>2, <3>p, FixedValues
    <3>3. CASE kind = "u64"
      BY <3>3, <3>p, FixedValues
    <3>4. QED
      BY <1>0, <1>2, <3>1, <3>2, <3>3
  <2>3. QED
    BY <1>2, <2>1, <2>2, WidthFacts
<1>3. QED
  BY <1>1, <1>2

LEMMA ValueOfBits ==
  ASSUME NEW kind \in Kinds, ~ IsText(kind), NEW v \in Values(kind)
  PROVE  ValueOf(kind, Bits(kind, v)) = v
<1>0. kind \in {"bool", "i32", "u32", "u64"}
  BY FixedKinds
<1>1. CASE kind = "bool"
  <2>1. v \in BOOLEAN
    BY <1>1, FixedValues, Zenon
  <2>2. Bits(kind, v) = IF v THEN 1 ELSE 0
    BY <1>1, Zenon DEF Bits
  <2>3. ValueOf(kind, Bits(kind, v)) = (Bits(kind, v) # 0)
    BY <1>1, Zenon DEF ValueOf
  <2>4. CASE v = TRUE
    <3>1. Bits(kind, v) # 0
      BY <2>2, <2>4
    <3>2. QED
      BY <2>3, <2>4, <3>1, Zenon
  <2>5. CASE v = FALSE
    <3>1. Bits(kind, v) = 0
      BY <2>2, <2>5
    <3>2. QED
      BY <2>3, <2>5, <3>1, Zenon
  <2>6. QED
    BY <2>1, <2>4, <2>5, Zenon
<1>2. CASE kind = "i32"
  <2> DEFINE h == Power[Short] \div 2
             p == Power[Short]
  <2>1. h \in Nat /\ h > 0 /\ p = h + h
    BY PowerHalf
  <2>2. v \in -h .. h - 1
    BY <1>2, FixedValues
  <2>3. Bits(kind, v) = v % p
    BY <1>2, WidthFacts DEF Bits
  <2>4. /\ v % p >= h => ValueOf(kind, v % p) = (v % p) - p
        /\ ~ (v % p >= h) => ValueOf(kind, v % p) = v % p
    BY <1>2, Zenon DEF ValueOf
  <2> HIDE DEF h, p
  <2>5. CASE v >= 0
    <3>1. v % p = v
      BY <2>1, <2>2, <2>5
    <3>2. ~ (v >= h)
      BY <2>1, <2>2
    <3>3. QED
      BY <2>3, <2>4, <3>1, <3>2
  <2>6. CASE v < 0
    <3>1. v % p = v + p
      BY <2>1, <2>2, <2>6
    <3>2. v + p >= h /\ (v + p) - p = v
      BY <2>1, <2>2
    <3>3. QED
      BY <2>3, <2>4, <3>1, <3>2
  <2>7. QED
    BY <2>1, <2>2, <2>5, <2>6
<1>3. CASE kind \in {"u32", "u64"}
  <2> DEFINE p == Power[Width(kind)]
  <2>1. v \in 0 .. p - 1 /\ p \in Nat
    <3>1. kind = "u32" => Width(kind) = Short
      BY Zenon DEF Width
    <3>2. kind = "u64" => Width(kind) = Long
      BY Zenon DEF Width
    <3>3. QED
      BY <1>3, <3>1, <3>2, FixedValues, WidthFacts
  <2>2. Bits(kind, v) = v % p
    BY <1>3 DEF Bits
  <2>3. ValueOf(kind, v % p) = v % p
    BY <1>3, Zenon DEF ValueOf
  <2> HIDE DEF p
  <2>4. v % p = v
    BY <2>1
  <2>5. QED
    BY <2>2, <2>3, <2>4
<1>4. QED
  BY <1>0, <1>1, <1>2, <1>3

(* No two numbers stand for one value: what is decoded is encoded again as *)
(* the number it came from.                                                *)
LEMMA BitsOfValue ==
  ASSUME NEW kind \in Kinds, ~ IsText(kind),
         NEW bits \in Nat, bits < Power[Width(kind)],
         kind = "bool" => BoolOk(bits)
  PROVE  /\ ValueOf(kind, bits) \in Values(kind)
         /\ Bits(kind, ValueOf(kind, bits)) = bits
<1>0. kind \in {"bool", "i32", "u32", "u64"}
  BY FixedKinds
<1>1. CASE kind = "bool"
  <2>1. bits = 0 \/ bits = 1
    BY <1>1 DEF BoolOk
  <2>2. ValueOf(kind, bits) = (bits # 0)
    BY <1>1, Zenon DEF ValueOf
  <2>3. (bits # 0) \in BOOLEAN
    BY Zenon
  <2>4. Bits(kind, bits # 0) = IF bits # 0 THEN 1 ELSE 0
    BY <1>1, Zenon DEF Bits
  <2>5. Bits(kind, bits # 0) = bits
    BY <2>1, <2>4
  <2>6. QED
    BY <1>1, <2>2, <2>3, <2>5, FixedValues, Zenon
<1>2. CASE kind = "i32"
  <2> DEFINE h == Power[Short] \div 2
             p == Power[Short]
             x == ValueOf(kind, bits)
  <2>1. h \in Nat /\ h > 0 /\ p = h + h
    BY PowerHalf
  <2>2. bits < p
    BY <1>2, WidthFacts
  <2>3. /\ bits >= h => x = bits - p
        /\ ~ (bits >= h) => x = bits
    BY <1>2, Zenon DEF ValueOf
  <2>4. Values(kind) = -h .. h - 1
    BY <1>2, FixedValues
  <2>5. Bits(kind, x) = x % p
    BY <1>2, WidthFacts DEF Bits
  <2> HIDE DEF h, p, x
  <2>6. x \in -h .. h - 1
    BY <2>1, <2>2, <2>3
  <2>7. x % p = bits
    BY <2>1, <2>2, <2>3
  <2>8. QED
    BY <2>4, <2>5, <2>6, <2>7 DEF x
<1>3. CASE kind \in {"u32", "u64"}
  <2> DEFINE p == Power[Width(kind)]
  <2>1. ValueOf(kind, bits) = bits
    BY <1>3, Zenon DEF ValueOf
  <2>2. Bits(kind, bits) = bits % p
    BY <1>3 DEF Bits
  <2>3. Values(kind) = 0 .. p - 1 /\ p \in Nat
    <3>1. kind = "u32" => Width(kind) = Short
      BY Zenon DEF Width
    <3>2. kind = "u64" => Width(kind) = Long
      BY Zenon DEF Width
    <3>3. QED
      BY <1>3, <3>1, <3>2, FixedValues, WidthFacts
  <2> HIDE DEF p
  <2>4. bits < p
    BY DEF p
  <2>5. bits \in 0 .. p - 1 /\ bits % p = bits
    BY <2>3, <2>4
  <2>6. QED
    BY <2>1, <2>2, <2>3, <2>5
<1>4. QED
  BY <1>0, <1>1, <1>2, <1>3

-----------------------------------------------------------------------------
(* Sequences, and the joined items of a list of values.                    *)
LEMMA Concat ==
  ASSUME NEW s \in ByteString, NEW t \in ByteString
  PROVE  /\ s \o t \in ByteString /\ Len(s \o t) = Len(s) + Len(t)
         /\ Len(s) \in Nat /\ Len(t) \in Nat
         /\ \A d \in 1 .. Len(s) : (s \o t)[d] = s[d]
         /\ \A d \in 1 .. Len(t) : (s \o t)[Len(s) + d] = t[d]
BY DEF ByteString

LEMMA ConcatThree ==
  ASSUME NEW s \in ByteString, NEW t \in ByteString, NEW x \in ByteString
  PROVE  (s \o t) \o x = s \o (t \o x)
BY ConcatAssociative DEF ByteString

LEMMA EmptyFacts ==
  /\ <<>> \in ByteString /\ Len(<<>>) = 0
  /\ \A s \in ByteString : s \o <<>> = s /\ <<>> \o s = s
  /\ \A s \in ByteString : Len(s) = 0 => s = <<>>
BY DEF ByteString

LEMMA SeqType ==
  ASSUME NEW s, IsSeq(s)
  PROVE  Len(s) \in Nat /\ DOMAIN s = 1 .. Len(s)
BY DEF IsSeq

LEMMA Appended ==
  ASSUME NEW s, IsSeq(s), NEW v
  PROVE  /\ IsSeq(Append(s, v)) /\ Len(Append(s, v)) = Len(s) + 1
         /\ Append(s, v)[Len(s) + 1] = v
         /\ \A m \in 1 .. Len(s) : Append(s, v)[m] = s[m]
<1>1. PICK S : s \in Seq(S)
  BY DEF IsSeq
<1>2. s \in Seq(S \cup {v}) /\ v \in S \cup {v}
  BY <1>1
<1>3. /\ Append(s, v) \in Seq(S \cup {v})
      /\ Len(Append(s, v)) = Len(s) + 1 /\ Append(s, v)[Len(s) + 1] = v
      /\ \A m \in 1 .. Len(s) : Append(s, v)[m] = s[m]
  BY <1>2
<1>4. QED
  BY <1>3 DEF IsSeq

(* A value as it is written and read.                                      *)
Good(kind, v) ==
  /\ kind \in Kinds
  /\ IF IsText(kind) THEN v \in ByteString /\ Len(v) <= LengthMax
     ELSE v \in Values(kind)

GoodValues(ks, vs) ==
  /\ IsSeq(vs) /\ Len(vs) <= Len(ks)
  /\ \A m \in 1 .. Len(vs) : Good(ks[m], vs[m])

LEMMA LengthFacts == LengthMax \in Nat /\ Power[Short] = LengthMax + 1
BY PowerStep, BaseFacts DEF LengthMax

LEMMA ItemType ==
  ASSUME NEW kind, NEW v, Good(kind, v)
  PROVE  Item(kind, v) \in ByteString
<1>1. CASE IsText(kind)
  <2>1. v \in ByteString /\ Len(v) \in Nat
    BY <1>1 DEF Good, ByteString
  <2>2. Bytes(Len(v), Short) \in ByteString
    BY <2>1, BytesType, BaseFacts
  <2>3. QED
    BY <1>1, <2>1, <2>2, Concat DEF Item
<1>2. CASE ~ IsText(kind)
  <2>1. Bits(kind, v) \in Nat /\ Width(kind) \in Nat
    BY <1>2, BitsType, WidthFacts DEF Good
  <2>2. Bytes(Bits(kind, v), Width(kind)) \in ByteString
    BY <2>1, BytesType
  <2>3. QED
    BY <1>2, <2>2 DEF Item
<1>3. QED
  BY <1>1, <1>2

(* What is joined up to each value.                                        *)
Joins(ks, vs, u) ==
  /\ u \in [0 .. Len(vs) -> ByteString] /\ u[0] = <<>>
  /\ \A m \in 1 .. Len(vs) : u[m] = u[m - 1] \o Item(ks[m], vs[m])
  /\ Joined(ks, vs) = u[Len(vs)]

(* The joined items exist, one value after another.                        *)
LEMMA JoinedJoins ==
  ASSUME NEW ks, NEW vs, GoodValues(ks, vs)
  PROVE  \E u : Joins(ks, vs, u)
<1> DEFINE w == Len(vs)
           item(m) == Item(ks[m], vs[m])
           P(u) == u = [m \in 0 .. w |->
                          IF m = 0 THEN <<>> ELSE u[m - 1] \o item(m)]
           step == [k \in Nat |-> [s \in ByteString |->
                      IF k < w THEN s \o item(k + 1) ELSE s]]
<1>1. w \in Nat /\ \A m \in 1 .. w : item(m) \in ByteString
  BY SeqType, ItemType DEF GoodValues
<1>2. \A k \in Nat : k < w => item(k + 1) \in ByteString
  <2> HIDE DEF item, w
  <2>1. QED
    BY <1>1
<1> HIDE DEF item
<1>3. Steps(step, ByteString)
  <2> HIDE DEF w
  <2>1. \A k \in Nat : \A s \in ByteString :
          k < w => s \o item(k + 1) \in ByteString
    BY <1>2, Concat
  <2>2. QED
    BY <2>1 DEF Steps
<1>4. \A k \in Nat : \A s \in ByteString : k < w => step[k][s] = s \o item(k + 1)
  OBVIOUS
<1>e. <<>> \in ByteString
  BY EmptyFacts
<1>5. PICK f : Recursive(f, ByteString, <<>>, step)
  <2> HIDE DEF step
  <2>1. QED
    BY <1>3, <1>e, Recursion, Zenon
<1>6. /\ f \in [Nat -> ByteString] /\ f[0] = <<>>
      /\ \A k \in Nat : k < w => f[k + 1] = f[k] \o item(k + 1)
  <2> HIDE DEF step, w
  <2>1. QED
    BY <1>4, <1>5 DEF Recursive
<1> DEFINE v == [m \in 0 .. w |-> f[m]]
<1>7. v \in [0 .. w -> ByteString] /\ v[0] = <<>>
  BY <1>1, <1>6
<1>8. ASSUME NEW m \in 1 .. w PROVE v[m] = v[m - 1] \o item(m)
  <2>1. m - 1 \in Nat /\ m - 1 < w /\ (m - 1) + 1 = m
    BY <1>1
  <2>2. f[(m - 1) + 1] = f[m - 1] \o item((m - 1) + 1)
    BY <1>6, <2>1
  <2>3. v[m] = f[m] /\ v[m - 1] = f[m - 1]
    BY <1>1
  <2>4. QED
    BY <2>1, <2>2, <2>3
<1>9. P(v)
  <2> DEFINE g == [m \in 0 .. w |->
                     IF m = 0 THEN <<>> ELSE v[m - 1] \o item(m)]
  <2>1. \A m \in 0 .. w : g[m] = v[m]
    <3> SUFFICES ASSUME NEW m \in 0 .. w PROVE g[m] = v[m]
      OBVIOUS
    <3>1. CASE m = 0
      BY <3>1, <1>7
    <3>2. CASE m # 0
      <4>1. m \in 1 .. w
        BY <3>2, <1>1
      <4>2. v[m] = v[m - 1] \o item(m)
        BY <1>8, <4>1
      <4>3. g[m] = v[m - 1] \o item(m)
        BY <3>2
      <4>4. QED
        BY <4>2, <4>3
    <3>3. QED
      BY <3>1, <3>2
  <2>2. v = [m \in 0 .. w |-> v[m]]
    OBVIOUS
  <2> HIDE DEF v
  <2>3. QED
    BY <2>1, <2>2
<1> HIDE DEF v, w
<1> DEFINE u == CHOOSE x : P(x)
<1>10. P(u)
  <2> HIDE DEF P
  <2>1. QED
    BY <1>9, Zenon
<1>11. Joined(ks, vs) = u[w]
  BY DEF Joined, w, item
<1> HIDE DEF u
<1>12. /\ DOMAIN u = 0 .. w /\ u[0] = <<>>
       /\ \A m \in 1 .. w : u[m] = u[m - 1] \o item(m)
  <2>1. DOMAIN u = 0 .. w
    BY <1>10, Zenon
  <2>2. \A m \in 0 .. w : u[m] = IF m = 0 THEN <<>> ELSE u[m - 1] \o item(m)
    BY <1>10, Zenon
  <2>3. 0 \in 0 .. w /\ \A m \in 1 .. w : m \in 0 .. w /\ m # 0
    BY <1>1
  <2>4. u[0] = <<>>
    BY <2>2, <2>3, Zenon
  <2>5. \A m \in 1 .. w : u[m] = u[m - 1] \o item(m)
    BY <2>2, <2>3, Zenon
  <2>6. QED
    BY <2>1, <2>4, <2>5
<1> DEFINE E == {k \in Nat : k <= w => u[k] \in ByteString}
<1>13. Nat \subseteq E
  <2>1. 0 \in E
    BY <1>12, <1>e
  <2>2. ASSUME NEW k \in Nat, k \in E PROVE k + 1 \in E
    <3> SUFFICES ASSUME k + 1 <= w PROVE u[k + 1] \in ByteString
      OBVIOUS
    <3>1. k < w /\ k <= w /\ k + 1 \in 1 .. w /\ (k + 1) - 1 = k
      BY <1>1
    <3>2. u[k] \in ByteString
      BY <2>2, <3>1
    <3>3. u[k + 1] = u[k] \o item(k + 1)
      BY <1>12, <3>1
    <3>4. item(k + 1) \in ByteString
      BY <1>2, <3>1
    <3>5. QED
      BY <3>2, <3>3, <3>4, Concat
  <2> HIDE DEF E
  <2>3. QED
    BY <2>1, <2>2, Induction
<1>14. u \in [0 .. w -> ByteString]
  <2>1. \A k \in 0 .. w : u[k] \in ByteString
    BY <1>1, <1>13
  <2>2. u = [m \in 0 .. w |-> u[m]]
    BY <1>10
  <2>3. QED
    BY <2>1, <2>2
<1>15. Joins(ks, vs, u)
  BY <1>11, <1>12, <1>14 DEF Joins, w, item
<1>16. QED
  BY <1>15

(* What is joined up to a value depends on the values up to it.            *)
LEMMA JoinsAgree ==
  ASSUME NEW ks, NEW vs, NEW ws, NEW u, NEW v,
         Joins(ks, vs, u), Joins(ks, ws, v),
         NEW m \in Nat, Len(vs) \in Nat, Len(ws) \in Nat,
         m <= Len(vs), m <= Len(ws), \A k \in 1 .. m : vs[k] = ws[k]
  PROVE  u[m] = v[m]
<1> DEFINE S == {k \in Nat : k <= m => u[k] = v[k]}
<1>1. 0 \in S
  <2>1. u[0] = v[0]
    BY Zenon DEF Joins
  <2>2. QED
    BY <2>1
<1>2. ASSUME NEW k \in Nat, k \in S PROVE k + 1 \in S
  <2> SUFFICES ASSUME k + 1 <= m PROVE u[k + 1] = v[k + 1]
    OBVIOUS
  <2>1. /\ k <= m /\ k + 1 \in 1 .. m /\ (k + 1) - 1 = k
        /\ k + 1 \in 1 .. Len(vs) /\ k + 1 \in 1 .. Len(ws)
    OBVIOUS
  <2>2. u[k] = v[k] /\ vs[k + 1] = ws[k + 1]
    BY <1>2, <2>1
  <2>3. /\ u[k + 1] = u[(k + 1) - 1] \o Item(ks[k + 1], vs[k + 1])
        /\ v[k + 1] = v[(k + 1) - 1] \o Item(ks[k + 1], ws[k + 1])
    BY <2>1, Zenon DEF Joins
  <2>4. QED
    BY <2>1, <2>2, <2>3
<1> HIDE DEF S
<1>3. m \in S
  BY <1>1, <1>2, Induction
<1>4. QED
  BY <1>3 DEF S

LEMMA JoinedEmpty ==
  ASSUME NEW ks, Len(ks) \in Nat
  PROVE  GoodValues(ks, <<>>) /\ Joined(ks, <<>>) = <<>>
<1>1. IsSeq(<<>>) /\ Len(<<>>) = 0
  BY DEF IsSeq
<1>2. GoodValues(ks, <<>>)
  BY <1>1 DEF GoodValues
<1>3. PICK u : Joins(ks, <<>>, u)
  BY <1>2, JoinedJoins
<1>4. QED
  BY <1>1, <1>2, <1>3, Zenon DEF Joins

LEMMA JoinedType ==
  ASSUME NEW ks, NEW vs, GoodValues(ks, vs)
  PROVE  Joined(ks, vs) \in ByteString
<1>1. PICK u : Joins(ks, vs, u)
  BY JoinedJoins
<1>2. Len(vs) \in Nat
  BY SeqType DEF GoodValues
<1>3. QED
  BY <1>1, <1>2 DEF Joins

(* One more value, one more item.                                          *)
LEMMA JoinedAppend ==
  ASSUME NEW ks, NEW vs, GoodValues(ks, vs), NEW v, Len(ks) \in Nat,
         Len(vs) < Len(ks), Good(ks[Len(vs) + 1], v)
  PROVE  /\ GoodValues(ks, Append(vs, v))
         /\ Joined(ks, Append(vs, v)) =
              Joined(ks, vs) \o Item(ks[Len(vs) + 1], v)
<1> DEFINE w == Len(vs)
           ws == Append(vs, v)
<1>1. /\ IsSeq(ws) /\ Len(ws) = w + 1 /\ ws[w + 1] = v
      /\ \A m \in 1 .. w : ws[m] = vs[m]
      /\ w \in Nat
  BY Appended, SeqType DEF GoodValues
<1> HIDE DEF ws
<1>2. \A m \in 1 .. w + 1 : Good(ks[m], ws[m])
  <2> SUFFICES ASSUME NEW m \in 1 .. w + 1 PROVE Good(ks[m], ws[m])
    OBVIOUS
  <2>1. CASE m = w + 1
    BY <1>1, <2>1
  <2>2. CASE m # w + 1
    <3>1. m \in 1 .. w
      BY <1>1, <2>2
    <3>2. QED
      BY <1>1, <3>1 DEF GoodValues
  <2>3. QED
    BY <2>1, <2>2
<1>3. GoodValues(ks, ws)
  BY <1>1, <1>2 DEF GoodValues
<1>4. PICK u : Joins(ks, vs, u)
  BY JoinedJoins
<1>5. PICK x : Joins(ks, ws, x)
  BY <1>3, JoinedJoins
<1>6. u[w] = x[w]
  BY <1>1, <1>4, <1>5, JoinsAgree
<1>7. x[w + 1] = x[(w + 1) - 1] \o Item(ks[w + 1], ws[w + 1])
  <2>1. w + 1 \in 1 .. Len(ws)
    BY <1>1
  <2>2. QED
    BY <1>5, <2>1, Zenon DEF Joins
<1>8. (w + 1) - 1 = w
  BY <1>1
<1>9. Joined(ks, vs) = u[w] /\ Joined(ks, ws) = x[w + 1]
  BY <1>1, <1>4, <1>5, Zenon DEF Joins
<1>10. QED
  BY <1>1, <1>3, <1>6, <1>7, <1>8, <1>9 DEF ws

(* The first part of a list of values.                                     *)
Leads(ws, vs) == \A m \in 1 .. Len(ws) : ws[m] = vs[m]

HasItem(ks, vs, ws, m) ==
  \E x \in ByteString :
    Joined(ks, vs) = Joined(ks, ws) \o (Item(ks[m], vs[m]) \o x)

(* The item of a value stands behind those of the values before it.        *)
LEMMA JoinedSplit ==
  ASSUME NEW ks, NEW vs, GoodValues(ks, vs), NEW ws, GoodValues(ks, ws),
         Len(ws) < Len(vs), Leads(ws, vs)
  PROVE  HasItem(ks, vs, ws, Len(ws) + 1)
<1> DEFINE w == Len(ws)
           item == Item(ks[w + 1], vs[w + 1])
<1>1. PICK u : Joins(ks, vs, u)
  BY JoinedJoins
<1>2. PICK t : Joins(ks, ws, t)
  BY JoinedJoins
<1>3. w \in Nat /\ Len(vs) \in Nat /\ w + 1 \in 1 .. Len(vs)
  BY SeqType DEF GoodValues
<1>4. u[w] = t[w]
  BY <1>1, <1>2, <1>3, JoinsAgree DEF Leads
<1>5. item \in ByteString
  BY <1>3, ItemType DEF GoodValues
<1>6. u[w + 1] = u[w] \o item
  <2>1. u[w + 1] = u[(w + 1) - 1] \o item
    BY <1>1, <1>3, Zenon DEF Joins
  <2>2. (w + 1) - 1 = w
    BY <1>3
  <2>3. QED
    BY <2>1, <2>2
<1>7. u[w] \in ByteString
  BY <1>1, <1>3 DEF Joins
<1> HIDE DEF item
<1> DEFINE R(k) == \E x \in ByteString : u[k] = u[w] \o (item \o x)
           S == {j \in Nat : w + 1 + j <= Len(vs) => R(w + 1 + j)}
<1>8. 0 \in S
  <2>1. u[w + 1] = u[w] \o (item \o <<>>) /\ <<>> \in ByteString
    BY <1>5, <1>6, EmptyFacts
  <2>2. w + 1 + 0 = w + 1
    BY <1>3
  <2>3. QED
    BY <2>1, <2>2
<1>9. ASSUME NEW j \in Nat, j \in S PROVE j + 1 \in S
  <2> DEFINE m == w + 1 + j
  <2>0. m \in Nat /\ w + 1 + (j + 1) = m + 1 /\ (m + 1) - 1 = m
    BY <1>3
  <2> HIDE DEF R
  <2> SUFFICES ASSUME m + 1 <= Len(vs)
               PROVE  R(m + 1)
    BY <2>0
  <2>1. m <= Len(vs) /\ m + 1 \in 1 .. Len(vs)
    BY <1>3, <2>0
  <2>r. R(m)
    BY <1>9, <2>1
  <2>2. PICK x \in ByteString : u[m] = u[w] \o (item \o x)
    BY <2>r DEF R
  <2> DEFINE y == Item(ks[m + 1], vs[m + 1])
  <2>3. y \in ByteString
    BY <2>1, ItemType DEF GoodValues
  <2>4. u[m + 1] = u[(m + 1) - 1] \o y
    BY <1>1, <2>1, Zenon DEF Joins
  <2> HIDE DEF m, y
  <2>5. u[m + 1] = (u[w] \o (item \o x)) \o y
    BY <2>0, <2>2, <2>4
  <2>6. item \o x \in ByteString /\ x \o y \in ByteString
    BY <1>5, <2>3, Concat
  <2>7. (u[w] \o (item \o x)) \o y = u[w] \o ((item \o x) \o y)
    BY <1>7, <2>3, <2>6, ConcatThree
  <2>8. (item \o x) \o y = item \o (x \o y)
    BY <1>5, <2>3, ConcatThree
  <2>9. QED
    BY <2>5, <2>6, <2>7, <2>8 DEF R
<1> HIDE DEF S, R
<1>10. Len(vs) - (w + 1) \in S
  <2>1. Len(vs) - (w + 1) \in Nat
    BY <1>3
  <2>2. QED
    BY <1>8, <1>9, <2>1, Induction
<1>11. w + 1 + (Len(vs) - (w + 1)) = Len(vs)
  BY <1>3
<1>12. \E x \in ByteString : u[Len(vs)] = u[w] \o (item \o x)
  <2>1. R(Len(vs))
    BY <1>10, <1>11 DEF S
  <2>2. QED
    BY <2>1 DEF R
<1>13. Joined(ks, vs) = u[Len(vs)] /\ Joined(ks, ws) = t[w]
  BY <1>1, <1>2, Zenon DEF Joins
<1>14. QED
  BY <1>4, <1>12, <1>13 DEF item, HasItem

-----------------------------------------------------------------------------
(* The invariant.  `got` is what was read of the payload up to the cursor, *)
(* in its one form; and the payload of the other peer is that of `values`, *)
(* of which `got` is the first part.                                       *)
Typed ==
  /\ to \in {"helper", "client"} /\ kinds \in Seq(Kinds)
  /\ honest \in BOOLEAN
  /\ pc \in {"encode", "receive", "prefix", "decode", "accepted", "refused",
             "unsent", "dropped"}
  /\ n \in 1 .. Len(kinds) + 1
  /\ wire \in ByteString /\ cursor \in 0 .. Len(wire)
  /\ IsSeq(values) /\ GoodValues(kinds, got)
  /\ to = "client" => Len(kinds) <= 1
  /\ pc = "prefix" => to = "helper"
  /\ pc = "encode" => honest = TRUE

Begins(s, t) == \E x \in ByteString : s = t \o x

Consumed ==
  /\ pc \in {"encode", "receive", "prefix", "unsent", "dropped"} =>
       got = <<>> /\ cursor = 0
  /\ pc = "prefix" => n = 1
  /\ pc \in {"prefix", "decode", "accepted", "refused"} => Len(wire) <= MaxFrame
  /\ pc = "decode" =>
       Len(got) = n - 1 /\ Begins(wire, Format) /\ cursor = Len(Format)
  /\ pc = "accepted" => wire = Format /\ Len(got) = Len(kinds)

Underway == {"receive", "prefix", "decode", "accepted"}

Carried ==
  honest = TRUE =>
    /\ pc = "encode" => /\ GoodValues(kinds, values) /\ Len(values) = n - 1
                        /\ wire = Joined(kinds, values)
    /\ pc \in Underway =>
         /\ GoodValues(kinds, values) /\ Len(values) = Len(kinds)
         /\ wire = Front \o Joined(kinds, values)
         /\ Leads(got, values)
    /\ pc = "refused" =>
         to = "client" /\ kinds = <<"string">> /\ ~Utf8(values[1])

Inv == Typed /\ Consumed /\ Carried
-----------------------------------------------------------------------------
LEMMA FrontType == Front \in ByteString /\ Prefix \in ByteString
BY CodecAssumption, EmptyFacts DEF Front, ByteString

(* What is behind the cursor is bytes.                                     *)
LEMMA FormatType ==
  ASSUME Typed
  PROVE  /\ Joined(kinds, got) \in ByteString /\ Format \in ByteString
         /\ Len(kinds) \in Nat /\ Len(got) \in Nat
<1>1. GoodValues(kinds, got) /\ kinds \in Seq(Kinds)
  BY DEF Typed
<1>2. Len(kinds) \in Nat
  <2> DEFINE K == Kinds
  <2>1. kinds \in Seq(K)
    BY <1>1
  <2> HIDE DEF K
  <2>2. QED
    BY <2>1
<1>3. Len(got) \in Nat
  BY <1>1, SeqType DEF GoodValues
<1>4. Joined(kinds, got) \in ByteString
  BY <1>1, JoinedType
<1>5. QED
  BY <1>2, <1>3, <1>4, FrontType, Concat DEF Format

LEMMA KindsFacts ==
  ASSUME Typed
  PROVE  /\ Len(kinds) \in Nat /\ DOMAIN kinds = 1 .. Len(kinds)
         /\ \A m \in 1 .. Len(kinds) : kinds[m] \in Kinds
         /\ n \in Nat /\ n >= 1 /\ n <= Len(kinds) + 1
<1> DEFINE K == Kinds
<1>1. kinds \in Seq(K) /\ n \in 1 .. Len(kinds) + 1
  BY DEF Typed
<1> HIDE DEF K
<1>2. Len(kinds) \in Nat /\ DOMAIN kinds = 1 .. Len(kinds)
      /\ \A m \in 1 .. Len(kinds) : kinds[m] \in K
  BY <1>1
<1>3. QED
  BY <1>1, <1>2 DEF K

(* The decoders' parts of the payload.                                     *)
LEMMA TakeMeans ==
  ASSUME wire \in ByteString, Len(wire) <= MaxFrame,
         NEW at \in Nat, NEW length \in Nat
  PROVE  Take(at, length) <=> at + length <= Len(wire)
<1>1. Len(wire) \in Nat /\ Len(wire) <= SizeMax /\ SizeMax \in Nat
  BY CodecAssumption DEF ByteString
<1>2. QED
  BY <1>1 DEF Take, TakeC, TakeRust

(* A part of the payload is bytes.                                         *)
LEMMA PartType ==
  ASSUME wire \in ByteString, NEW at \in Nat, NEW length \in Nat
  PROVE  /\ Part(at, length) \in ByteString /\ Len(Part(at, length)) = length
         /\ \A d \in 1 .. length :
              at + d <= Len(wire) => Part(at, length)[d] = wire[at + d]
<1>1. Len(wire) \in Nat /\ \A d \in 1 .. Len(wire) : wire[d] \in Byte
  BY DEF ByteString
<1>2. 0 \in Byte
  BY BaseFacts DEF Byte
<1>3. Part(at, length) \in [1 .. length -> Byte]
  BY <1>1, <1>2 DEF Part
<1>4. \A d \in 1 .. length :
        at + d <= Len(wire) => Part(at, length)[d] = wire[at + d]
  BY DEF Part
<1>5. QED
  BY <1>3, <1>4 DEF ByteString

(* What stands at a place is what is read there.                           *)
LEMMA PartIs ==
  ASSUME NEW s \in ByteString, NEW t \in ByteString, NEW x \in ByteString,
         wire = s \o (t \o x)
  PROVE  /\ Part(Len(s), Len(t)) = t
         /\ Len(s) + Len(t) <= Len(wire)
         /\ wire \in ByteString
<1>1. /\ t \o x \in ByteString /\ Len(t \o x) = Len(t) + Len(x)
      /\ Len(s) \in Nat /\ Len(t) \in Nat /\ Len(x) \in Nat
      /\ \A d \in 1 .. Len(t) : (t \o x)[d] = t[d]
  BY Concat
<1>2. /\ wire \in ByteString /\ Len(wire) = Len(s) + Len(t \o x)
      /\ \A d \in 1 .. Len(t \o x) : wire[Len(s) + d] = (t \o x)[d]
  BY <1>1, Concat
<1>3. /\ Part(Len(s), Len(t)) \in ByteString
      /\ Len(Part(Len(s), Len(t))) = Len(t)
      /\ \A d \in 1 .. Len(t) : Len(s) + d <= Len(wire) =>
           Part(Len(s), Len(t))[d] = wire[Len(s) + d]
  BY <1>1, <1>2, PartType
<1>4. \A d \in 1 .. Len(t) : Part(Len(s), Len(t))[d] = t[d]
  BY <1>1, <1>2, <1>3
<1>5. Part(Len(s), Len(t)) = t
  BY <1>3, <1>4, SameBytes
<1>6. QED
  BY <1>1, <1>2, <1>5

(* What is read is the next part of the payload.                           *)
LEMMA PartSplits ==
  ASSUME NEW s \in ByteString, Begins(wire, s), NEW w \in Nat,
         Len(s) + w <= Len(wire)
  PROVE  /\ Part(Len(s), w) \in ByteString /\ Len(Part(Len(s), w)) = w
         /\ Begins(wire, s \o Part(Len(s), w))
<1>1. PICK r \in ByteString : wire = s \o r
  BY DEF Begins
<1>2. /\ wire \in ByteString /\ Len(wire) = Len(s) + Len(r)
      /\ Len(s) \in Nat /\ Len(r) \in Nat
      /\ \A d \in 1 .. Len(s) : wire[d] = s[d]
      /\ \A d \in 1 .. Len(r) : wire[Len(s) + d] = r[d]
  BY <1>1, Concat
<1> DEFINE p == Part(Len(s), w)
           x == [d \in 1 .. Len(r) - w |-> r[w + d]]
<1>3. /\ p \in ByteString /\ Len(p) = w
      /\ \A d \in 1 .. w : Len(s) + d <= Len(wire) => p[d] = wire[Len(s) + d]
  BY <1>2, PartType
<1> HIDE DEF p
<1>4. \A d \in 1 .. w : p[d] = r[d]
  BY <1>2, <1>3
<1>5. Len(r) - w \in Nat
  BY <1>2
<1>6. /\ x \in ByteString /\ Len(x) = Len(r) - w
      /\ \A d \in 1 .. Len(r) - w : x[d] = r[w + d]
  <2>1. \A d \in 1 .. Len(r) : r[d] \in Byte
    BY DEF ByteString
  <2>2. \A d \in 1 .. Len(r) - w : r[w + d] \in Byte
    BY <1>2, <1>5, <2>1
  <2>3. x \in [1 .. Len(r) - w -> Byte]
    BY <2>2
  <2>4. QED
    BY <1>5, <2>3 DEF ByteString
<1> HIDE DEF x
<1>7. /\ p \o x \in ByteString /\ Len(p \o x) = Len(r)
      /\ \A d \in 1 .. Len(p) : (p \o x)[d] = p[d]
      /\ \A d \in 1 .. Len(x) : (p \o x)[Len(p) + d] = x[d]
  <2>1. /\ p \o x \in ByteString /\ Len(p \o x) = Len(p) + Len(x)
        /\ \A d \in 1 .. Len(p) : (p \o x)[d] = p[d]
        /\ \A d \in 1 .. Len(x) : (p \o x)[Len(p) + d] = x[d]
    BY <1>3, <1>6, Concat
  <2>2. w + (Len(r) - w) = Len(r)
    BY <1>2
  <2>3. QED
    BY <1>3, <1>6, <2>1, <2>2
<1>8. \A d \in 1 .. Len(r) : r[d] = (p \o x)[d]
  <2> SUFFICES ASSUME NEW d \in 1 .. Len(r) PROVE r[d] = (p \o x)[d]
    OBVIOUS
  <2>1. CASE d <= w
    <3>1. d \in 1 .. w
      BY <1>2, <2>1
    <3>2. QED
      BY <1>3, <1>4, <1>7, <3>1
  <2>2. CASE d > w
    <3>1. d - w \in 1 .. Len(r) - w /\ w + (d - w) = d
      BY <1>2, <2>2
    <3>2. r[w + (d - w)] = x[d - w] /\ (p \o x)[w + (d - w)] = x[d - w]
      BY <1>3, <1>6, <1>7, <3>1
    <3>3. QED
      BY <3>1, <3>2
  <2>3. d <= w \/ d > w
    BY <1>2
  <2>4. QED
    BY <2>1, <2>2, <2>3
<1>9. r = p \o x
  BY <1>7, <1>8, SameBytes
<1>10. wire = (s \o p) \o x
  BY <1>1, <1>3, <1>6, <1>9, ConcatThree
<1>11. QED
  BY <1>3, <1>6, <1>10 DEF Begins, p

-----------------------------------------------------------------------------
(* The invariant holds at the start.                                       *)
LEMMA CodecInit == Init => Inv
<1> SUFFICES ASSUME Init PROVE Inv
  OBVIOUS
<1>1. /\ to \in {"helper", "client"} /\ kinds \in Seq(Kinds) /\ n = 1
      /\ cursor = 0 /\ got = <<>>
      /\ to = "client" => Len(kinds) <= 1
  <2>1. /\ to \in {"helper", "client"} /\ kinds \in Signatures /\ n = 1
        /\ cursor = 0 /\ got = <<>>
        /\ to = "client" => Len(kinds) <= 1
    BY DEF Init, InitRequest, InitResponse, Start
  <2>2. Signatures \subseteq Seq(Kinds)
    BY CodecAssumption
  <2>3. kinds \in Seq(Kinds)
    BY <2>1, <2>2, Zenon
  <2>4. QED
    BY <2>1, <2>3
<1>2. /\ values = <<>>
      /\ \/ honest = TRUE /\ pc = "encode" /\ wire = <<>>
         \/ honest = FALSE /\ pc = "receive" /\ wire \in ByteString
  <2>1. Payloads \subseteq ByteString
    BY CodecAssumption DEF ByteString
  <2>2. QED
    BY <2>1 DEF Init
<1>3. Len(kinds) \in Nat
  <2> DEFINE K == Kinds
  <2>1. kinds \in Seq(K)
    BY <1>1
  <2> HIDE DEF K
  <2>2. QED
    BY <2>1
<1>4. GoodValues(kinds, <<>>) /\ Joined(kinds, <<>>) = <<>>
  BY <1>3, JoinedEmpty
<1>5. wire \in ByteString /\ Len(wire) \in Nat /\ IsSeq(<<>>) /\ Len(<<>>) = 0
  <2>1. wire \in ByteString
    BY <1>2, EmptyFacts
  <2>2. Len(wire) \in Nat
    BY <2>1 DEF ByteString
  <2>3. QED
    BY <2>1, <2>2 DEF IsSeq
<1>6. Typed
  <2>1. n \in 1 .. Len(kinds) + 1 /\ cursor \in 0 .. Len(wire)
    BY <1>1, <1>3, <1>5
  <2>2. QED
    BY <1>1, <1>2, <1>4, <1>5, <2>1 DEF Typed
<1>7. Consumed
  BY <1>1, <1>2 DEF Consumed
<1>8. Carried
  BY <1>1, <1>2, <1>4, <1>5 DEF Carried, Underway
<1>9. QED
  BY <1>6, <1>7, <1>8 DEF Inv

(* One more value, written in its one form.                                *)
LEMMA EncodeStep ==
  ASSUME Inv, pc = "encode", n <= Len(kinds), NEW v, Good(kinds[n], v),
         Encoding(v), Encoded(Item(kinds[n], v))
  PROVE  Inv'
<1> DEFINE item == Item(kinds[n], v)
<1>0. item \in ByteString
  BY ItemType
<1> HIDE DEF item
<1>1. /\ values' = Append(values, v) /\ wire' = wire \o item /\ n' = n + 1
      /\ pc' = "encode" /\ to' = to /\ kinds' = kinds /\ honest' = honest
      /\ cursor' = cursor /\ got' = got
  BY DEF Encoding, Encoded, item
<1>2. Typed /\ Consumed /\ Carried
  BY DEF Inv
<1>3. /\ Len(kinds) \in Nat /\ n \in Nat /\ n >= 1
      /\ got = <<>> /\ cursor = 0 /\ honest = TRUE /\ IsSeq(values)
      /\ wire \in ByteString
  BY <1>2, KindsFacts DEF Typed, Consumed
<1>4. /\ GoodValues(kinds, values) /\ Len(values) = n - 1
      /\ wire = Joined(kinds, values)
  BY <1>2, <1>3 DEF Carried
<1>5. Len(values) + 1 = n /\ Len(values) < Len(kinds)
  BY <1>3, <1>4
<1>6. /\ GoodValues(kinds, values')
      /\ Joined(kinds, values') = Joined(kinds, values) \o item
  BY <1>1, <1>3, <1>4, <1>5, JoinedAppend DEF item
<1>7. IsSeq(values') /\ Len(values') = n
  BY <1>1, <1>3, <1>5, Appended
<1>8. wire' \in ByteString /\ Len(wire') \in Nat
  <2>1. wire' \in ByteString
    BY <1>0, <1>1, <1>3, Concat
  <2>2. QED
    BY <2>1 DEF ByteString
<1>9. Typed'
  <2>1. n + 1 \in 1 .. Len(kinds) + 1 /\ 0 \in 0 .. Len(wire')
    BY <1>3, <1>8
  <2>2. QED
    BY <1>1, <1>2, <1>3, <1>7, <1>8, <2>1 DEF Typed
<1>10. Consumed'
  BY <1>1, <1>3 DEF Consumed
<1>11. Carried'
  <2>1. Len(values') = (n + 1) - 1
    BY <1>3, <1>7
  <2>2. QED
    BY <1>1, <1>4, <1>6, <2>1 DEF Carried, Underway
<1>12. QED
  BY <1>9, <1>10, <1>11 DEF Inv

(* What is given up arrives nowhere.                                       *)
LEMMA GiveUpStep ==
  ASSUME Inv, pc = "encode", pc' = "unsent", IsSeq(values'),
         UNCHANGED <<to, kinds, honest, n, wire, cursor, got>>
  PROVE  Inv'
<1>1. Typed /\ Consumed
  BY DEF Inv
<1>2. Typed'
  BY <1>1 DEF Typed
<1>3. Consumed'
  BY <1>1 DEF Consumed
<1>4. Carried'
  BY DEF Carried, Underway
<1>5. QED
  BY <1>2, <1>3, <1>4 DEF Inv

(* All values are written: the payload leaves.                             *)
LEMMA SendStep ==
  ASSUME Inv, pc = "encode", n > Len(kinds), pc' = "receive",
         wire' = Front \o wire,
         UNCHANGED <<to, kinds, values, honest, n, cursor, got>>
  PROVE  Inv'
<1>1. Typed /\ Consumed /\ Carried
  BY DEF Inv
<1>2. /\ got = <<>> /\ cursor = 0 /\ honest = TRUE /\ wire \in ByteString
      /\ Len(kinds) \in Nat /\ n = Len(kinds) + 1
  BY <1>1, KindsFacts DEF Typed, Consumed
<1>3. /\ GoodValues(kinds, values) /\ Len(values) = n - 1
      /\ wire = Joined(kinds, values)
  BY <1>1, <1>2 DEF Carried
<1>4. wire' \in ByteString /\ Len(wire') \in Nat
  <2>1. wire' \in ByteString
    BY <1>2, FrontType, Concat
  <2>2. QED
    BY <2>1 DEF ByteString
<1>5. Typed'
  <2>1. 0 \in 0 .. Len(wire')
    BY <1>4
  <2>2. QED
    BY <1>1, <1>2, <1>4, <2>1 DEF Typed
<1>6. Consumed'
  BY <1>2 DEF Consumed
<1>7. Carried'
  <2>1. Len(values) = Len(kinds) /\ Leads(got, values)
    BY <1>2, <1>3 DEF Leads
  <2>2. wire' = Front' \o Joined(kinds, values)
    BY <1>3 DEF Front
  <2>3. QED
    BY <1>3, <2>1, <2>2 DEF Carried, Underway
<1>8. QED
  BY <1>5, <1>6, <1>7 DEF Inv

LEMMA ReceiveStep ==
  ASSUME Inv, Receive
  PROVE  Inv'
<1>1. /\ pc = "receive" /\ n' = 1
      /\ to' = to /\ kinds' = kinds /\ values' = values /\ honest' = honest
      /\ wire' = wire /\ cursor' = cursor /\ got' = got
      /\ pc' = IF Len(wire) > MaxFrame THEN "dropped"
               ELSE IF to = "helper" THEN "prefix" ELSE "decode"
  BY DEF Receive
<1>2. Typed /\ Consumed /\ Carried
  BY DEF Inv
<1>3. /\ got = <<>> /\ cursor = 0 /\ wire \in ByteString
      /\ Len(kinds) \in Nat /\ Len(wire) \in Nat /\ MaxFrame \in Nat
      /\ to \in {"helper", "client"}
  BY <1>1, <1>2, KindsFacts, CodecAssumption DEF Typed, Consumed, ByteString
<1>4. Typed'
  <2>1. 1 \in 1 .. Len(kinds) + 1
    BY <1>3
  <2>2. QED
    BY <1>1, <1>2, <1>3, <2>1 DEF Typed
<1>5. Consumed'
  <2>1. pc' # "dropped" => Len(wire) <= MaxFrame
    BY <1>1, <1>3
  <2>2. pc' = "decode" => to = "client"
    BY <1>1, <1>3
  <2>3. pc' = "decode" =>
          Len(got) = 0 /\ Begins(wire, Format') /\ Len(Format') = 0
    <3> SUFFICES ASSUME pc' = "decode"
                 PROVE  Len(got) = 0 /\ Begins(wire, Format')
                        /\ Len(Format') = 0
      OBVIOUS
    <3>1. Front' = <<>>
      BY <1>1, <2>2 DEF Front
    <3>2. Joined(kinds', got') = <<>>
      BY <1>1, <1>3, JoinedEmpty
    <3>3. Format' = <<>>
      <4>1. Format' = Front' \o Joined(kinds', got')
        BY DEF Format
      <4>2. QED
        BY <3>1, <3>2, <4>1, EmptyFacts
    <3>4. Begins(wire, <<>>)
      BY <1>3, EmptyFacts DEF Begins
    <3>5. QED
      BY <1>3, <3>3, <3>4, EmptyFacts
  <2>4. pc' \in {"dropped", "prefix", "decode"}
    BY <1>1
  <2> HIDE DEF Format
  <2>5. Len(got') = n' - 1 <=> Len(got) = 0
    BY <1>1, <1>3
  <2>6. QED
    BY <1>1, <1>3, <2>1, <2>3, <2>4, <2>5 DEF Consumed
<1>6. Carried'
  <2>1. Front' = Front
    BY <1>1 DEF Front
  <2>2. pc' \in {"dropped", "prefix", "decode"}
    BY <1>1
  <2>3. QED
    BY <1>1, <1>2, <2>1, <2>2 DEF Carried, Underway
<1>7. QED
  BY <1>4, <1>5, <1>6 DEF Inv

(* A decoder refuses of the other peer only what is not UTF-8.             *)
LEMMA RefuseStep ==
  ASSUME Inv, pc \in {"prefix", "decode"}, Refuse,
         honest = TRUE =>
           to = "client" /\ kinds = <<"string">> /\ ~Utf8(values[1])
  PROVE  Inv'
<1>1. /\ pc' = "refused" /\ to' = to /\ kinds' = kinds /\ values' = values
      /\ honest' = honest /\ n' = n /\ wire' = wire /\ cursor' = cursor
      /\ got' = got
  BY DEF Refuse
<1>2. Typed /\ Consumed
  BY DEF Inv
<1>3. Typed'
  BY <1>1, <1>2 DEF Typed
<1>4. Consumed'
  BY <1>1, <1>2 DEF Consumed
<1>5. Carried'
  <2>1. Utf8(values[1])' <=> Utf8(values[1])
    BY <1>1 DEF Utf8
  <2>2. QED
    BY <1>1, <2>1 DEF Carried, Underway
<1>6. QED
  BY <1>3, <1>4, <1>5 DEF Inv

(* A request of the other peer begins with the prefix.                     *)
LEMMA PrefixIsThere ==
  ASSUME Inv, pc = "prefix", honest = TRUE
  PROVE  Take(0, Len(Prefix)) /\ Part(0, Len(Prefix)) = Prefix
<1>1. Typed /\ Consumed /\ Carried
  BY DEF Inv
<1>2. /\ to = "helper" /\ GoodValues(kinds, values)
      /\ wire = Front \o Joined(kinds, values) /\ wire \in ByteString
      /\ Len(wire) <= MaxFrame
  BY <1>1 DEF Typed, Consumed, Carried, Underway
<1> DEFINE x == Joined(kinds, values)
<1>3. x \in ByteString /\ Prefix \in ByteString /\ Len(Prefix) \in Nat
  BY <1>2, JoinedType, FrontType DEF ByteString
<1> HIDE DEF x
<1>4. wire = Prefix \o x
  BY <1>2 DEF Front, x
<1>5. Prefix \o x \in ByteString /\ <<>> \in ByteString /\ Len(<<>>) = 0
      /\ <<>> \o (Prefix \o x) = Prefix \o x
  BY <1>3, Concat, EmptyFacts
<1>6. wire = <<>> \o (Prefix \o x)
  BY <1>4, <1>5
<1>7. Part(0, Len(Prefix)) = Prefix /\ 0 + Len(Prefix) <= Len(wire)
  BY <1>3, <1>5, <1>6, PartIs
<1>8. Take(0, Len(Prefix))
  BY <1>2, <1>3, <1>7, TakeMeans
<1>9. QED
  BY <1>7, <1>8

LEMMA PrefixStep ==
  ASSUME Inv, DecodePrefix
  PROVE  Inv'
<1>1. /\ pc = "prefix" /\ pc' = "decode" /\ cursor' = Len(Prefix)
      /\ to' = to /\ kinds' = kinds /\ values' = values /\ honest' = honest
      /\ n' = n /\ wire' = wire /\ got' = got
      /\ Take(0, Len(Prefix)) /\ Part(0, Len(Prefix)) = Prefix
  BY DEF DecodePrefix
<1>2. Typed /\ Consumed /\ Carried
  BY DEF Inv
<1>3. /\ to = "helper" /\ got = <<>> /\ wire \in ByteString
      /\ Len(wire) <= MaxFrame /\ Len(kinds) \in Nat /\ Len(wire) \in Nat
      /\ Prefix \in ByteString /\ Len(Prefix) \in Nat
  BY <1>1, <1>2, KindsFacts, FrontType DEF Typed, Consumed, ByteString
<1>4. Len(Prefix) <= Len(wire)
  <2>1. 0 + Len(Prefix) <= Len(wire)
    BY <1>1, <1>3, TakeMeans
  <2>2. QED
    BY <1>3, <2>1
<1>5. n = 1
  BY <1>1, <1>2 DEF Consumed
<1>6. Typed'
  <2>1. Len(Prefix) \in 0 .. Len(wire)
    BY <1>3, <1>4
  <2>2. QED
    BY <1>1, <1>2, <2>1 DEF Typed
<1>7. Consumed'
  <2>1. Format' = Prefix
    <3>1. Front' = Prefix
      BY <1>1, <1>3 DEF Front
    <3>2. Joined(kinds', got') = <<>>
      BY <1>1, <1>3, JoinedEmpty
    <3>3. Format' = Front' \o Joined(kinds', got')
      BY DEF Format
    <3>4. QED
      BY <1>3, <3>1, <3>2, <3>3, EmptyFacts
  <2>2. Begins(wire, Prefix)
    <3>1. Begins(wire, <<>>)
      BY <1>3, EmptyFacts DEF Begins
    <3>2. <<>> \in ByteString /\ Len(<<>>) = 0
      BY EmptyFacts
    <3>3. Begins(wire, <<>> \o Part(0, Len(Prefix)))
      <4> DEFINE e == <<>>
      <4>1. e \in ByteString /\ Len(e) = 0 /\ Begins(wire, e)
        BY <3>1, <3>2
      <4> HIDE DEF e
      <4>2. Len(e) + Len(Prefix) <= Len(wire)
        BY <1>3, <1>4, <4>1
      <4>3. Begins(wire, e \o Part(Len(e), Len(Prefix)))
        BY <1>3, <4>1, <4>2, PartSplits
      <4>4. QED
        BY <4>1, <4>3 DEF e
    <3>4. <<>> \o Part(0, Len(Prefix)) = Prefix
      BY <1>1, <1>3, EmptyFacts
    <3>5. QED
      BY <3>3, <3>4
  <2>3. Len(got) = 0
    BY <1>3, EmptyFacts
  <2> HIDE DEF Format, Begins
  <2>4. QED
    BY <1>1, <1>3, <1>5, <2>1, <2>2, <2>3 DEF Consumed
<1>8. Carried'
  <2>1. Front' = Front
    BY <1>1 DEF Front
  <2>2. QED
    BY <1>1, <1>2, <2>1 DEF Carried, Underway
<1>9. QED
  BY <1>6, <1>7, <1>8 DEF Inv

(* One more value, read in the form it is written in.                      *)
LEMMA DecodeStep ==
  ASSUME Inv, pc = "decode", n <= Len(kinds), NEW v, Good(kinds[n], v),
         Begins(wire, Format \o Item(kinds[n], v)),
         NEW end, end = cursor + Len(Item(kinds[n], v)), Decoded(v, end),
         honest = TRUE => v = values[n]
  PROVE  Inv'
<1> DEFINE item == Item(kinds[n], v)
           f == Format
<1>0. item \in ByteString /\ Len(item) \in Nat
  <2>1. item \in ByteString
    BY ItemType
  <2>2. QED
    BY <2>1 DEF ByteString
<1>1. /\ got' = Append(got, v) /\ cursor' = end /\ n' = n + 1
      /\ to' = to /\ kinds' = kinds /\ values' = values /\ honest' = honest
      /\ pc' = "decode" /\ wire' = wire
  BY DEF Decoded
<1>2. Typed /\ Consumed /\ Carried
  BY DEF Inv
<1>3. /\ Len(got) = n - 1 /\ cursor = Len(f) /\ f \in ByteString
      /\ Len(wire) <= MaxFrame /\ n \in Nat /\ n >= 1 /\ Len(kinds) \in Nat
      /\ GoodValues(kinds, got) /\ wire \in ByteString
      /\ Joined(kinds, got) \in ByteString /\ IsSeq(got)
  BY <1>2, KindsFacts, FormatType DEF Typed, Consumed, GoodValues
<1>4. Len(got) + 1 = n /\ Len(got) < Len(kinds)
  BY <1>3
<1>5. /\ GoodValues(kinds, got')
      /\ Joined(kinds, got') = Joined(kinds, got) \o item
  BY <1>1, <1>3, <1>4, JoinedAppend
<1> HIDE DEF item
<1>6. Format' = f \o item
  <2>1. Format' = Front' \o Joined(kinds', got')
    BY DEF Format
  <2>2. Front' = Front
    BY <1>1 DEF Front
  <2>3. f = Front \o Joined(kinds, got)
    BY DEF Format
  <2>4. Front \o (Joined(kinds, got) \o item) = f \o item
    <3> DEFINE j == Joined(kinds, got)
    <3>1. j \in ByteString /\ f = Front \o j
      BY <1>3, <2>3
    <3> HIDE DEF f, j
    <3>2. (Front \o j) \o item = Front \o (j \o item)
      BY <1>0, <3>1, FrontType, ConcatThree
    <3>3. QED
      BY <3>1, <3>2 DEF j
  <2>5. QED
    BY <1>1, <1>5, <2>1, <2>2, <2>4
<1>7. /\ IsSeq(got') /\ Len(got') = n /\ got'[n] = v
      /\ \A m \in 1 .. n - 1 : got'[m] = got[m]
  BY <1>1, <1>3, <1>4, Appended
<1> HIDE DEF f
<1>8. /\ Len(f \o item) = Len(f) + Len(item) /\ f \o item \in ByteString
      /\ Len(f) \in Nat
  BY <1>0, <1>3, Concat
<1>9. /\ Len(f \o item) <= Len(wire) /\ Len(wire) \in Nat
  <2>1. PICK x \in ByteString : wire = (f \o item) \o x
    BY DEF Begins, f, item
  <2> DEFINE y == f \o item
  <2>2. y \in ByteString /\ wire = y \o x
    BY <1>8, <2>1
  <2> HIDE DEF y
  <2>3. Len(wire) = Len(y) + Len(x) /\ Len(y) \in Nat /\ Len(x) \in Nat
    BY <2>2, Concat
  <2>4. QED
    BY <2>3 DEF y
<1>10. Typed'
  <2>1. n + 1 \in 1 .. Len(kinds) + 1 /\ end \in 0 .. Len(wire)
    BY <1>0, <1>3, <1>8, <1>9 DEF item
  <2>2. QED
    BY <1>1, <1>2, <1>5, <2>1 DEF Typed
<1>11. Consumed'
  <2>1. Begins(wire, Format') /\ end = Len(Format')
    BY <1>3, <1>6, <1>8 DEF f, item
  <2>2. Len(got') = n' - 1
    BY <1>1, <1>3, <1>7
  <2> HIDE DEF Format, Begins
  <2>3. QED
    BY <1>1, <1>3, <2>1, <2>2 DEF Consumed
<1>12. Carried'
  <2>1. Front' = Front
    BY <1>1 DEF Front
  <2>2. ASSUME honest = TRUE PROVE \A m \in 1 .. Len(got') : got'[m] = values[m]
    <3> SUFFICES ASSUME NEW m \in 1 .. n PROVE got'[m] = values[m]
      BY <1>7
    <3>1. \A k \in 1 .. Len(got) : got[k] = values[k]
      BY <1>2, <2>2 DEF Carried, Underway, Leads
    <3>2. CASE m = n
      BY <1>7, <2>2, <3>2
    <3>3. CASE m # n
      <4>1. m \in 1 .. n - 1
        BY <1>3, <3>3
      <4>2. QED
        BY <1>3, <1>7, <3>1, <4>1
    <3>4. QED
      BY <3>2, <3>3
  <2>3. QED
    BY <1>1, <1>2, <2>1, <2>2 DEF Carried, Underway, Leads
<1>13. QED
  BY <1>10, <1>11, <1>12 DEF Inv

(* The other peer's next value stands at the cursor.                       *)
LEMMA NextIsThere ==
  ASSUME Inv, pc = "decode", n <= Len(kinds), honest = TRUE
  PROVE  /\ Good(kinds[n], values[n])
         /\ \E x \in ByteString :
              wire = Format \o (Item(kinds[n], values[n]) \o x)
<1>1. Typed /\ Consumed /\ Carried
  BY DEF Inv
<1>2. /\ GoodValues(kinds, values) /\ Len(values) = Len(kinds)
      /\ wire = Front \o Joined(kinds, values)
      /\ Leads(got, values)
  BY <1>1 DEF Carried, Underway
<1>3. /\ Len(got) = n - 1 /\ n \in Nat /\ n >= 1 /\ Len(kinds) \in Nat
      /\ GoodValues(kinds, got) /\ Joined(kinds, got) \in ByteString
  BY <1>1, KindsFacts, FormatType DEF Typed, Consumed
<1>4. Len(got) + 1 = n /\ Len(got) < Len(values) /\ n \in 1 .. Len(values)
  BY <1>2, <1>3
<1>5. Good(kinds[n], values[n])
  BY <1>2, <1>4 DEF GoodValues
<1> DEFINE item == Item(kinds[n], values[n])
           j == Joined(kinds, got)
<1>6. PICK x \in ByteString : Joined(kinds, values) = j \o (item \o x)
  <2>1. /\ GoodValues(kinds, values) /\ GoodValues(kinds, got)
        /\ Len(got) < Len(values) /\ Leads(got, values)
    BY <1>2, <1>3, <1>4
  <2>2. HasItem(kinds, values, got, Len(got) + 1)
    BY <2>1, JoinedSplit
  <2>3. HasItem(kinds, values, got, n)
    BY <1>4, <2>2
  <2>4. QED
    BY <2>3 DEF HasItem
<1>7. item \in ByteString
  BY <1>5, ItemType
<1>8. item \o x \in ByteString
  BY <1>7, Concat
<1>9. j \in ByteString
  BY <1>3
<1> HIDE DEF item, j
<1>10. (Front \o j) \o (item \o x) = Front \o (j \o (item \o x))
  BY <1>8, <1>9, FrontType, ConcatThree
<1>11. wire = (Front \o j) \o (item \o x)
  BY <1>2, <1>6, <1>10
<1>12. QED
  BY <1>5, <1>11 DEF Format, item, j

LEMMA AtValue ==
  ASSUME Inv, pc = "decode", n <= Len(kinds)
  PROVE  /\ kinds[n] \in Kinds /\ Format \in ByteString
         /\ cursor = Len(Format) /\ cursor \in Nat
         /\ Begins(wire, Format) /\ wire \in ByteString
         /\ Len(wire) <= MaxFrame
<1>1. Typed /\ Consumed
  BY DEF Inv
<1>2. n \in 1 .. Len(kinds) /\ \A m \in 1 .. Len(kinds) : kinds[m] \in Kinds
  BY <1>1, KindsFacts
<1>3. Format \in ByteString
  BY <1>1, FormatType
<1>4. Len(Format) \in Nat
  BY <1>3 DEF ByteString
<1>5. cursor = Len(Format) /\ Begins(wire, Format) /\ Len(wire) <= MaxFrame
  BY <1>1 DEF Consumed
<1>6. QED
  BY <1>1, <1>2, <1>3, <1>4, <1>5 DEF Typed

(* The other peer's next number passes its test and has its bits.          *)
LEMMA HonestFixed ==
  ASSUME Inv, pc = "decode", n <= Len(kinds), ~ IsText(kinds[n]),
         honest = TRUE
  PROVE  /\ values[n] \in Values(kinds[n])
         /\ FixedBits = Bits(kinds[n], values[n])
         /\ FixedOk
<1> DEFINE kind == kinds[n]
           v == values[n]
           w == Width(kind)
           item == Item(kind, v)
           f == Format
<1>1. /\ kind \in Kinds /\ f \in ByteString /\ cursor = Len(f)
      /\ cursor \in Nat /\ wire \in ByteString /\ Len(wire) <= MaxFrame
  BY AtValue
<1>2. Good(kind, v)
  BY NextIsThere
<1>3. PICK x \in ByteString : wire = f \o (item \o x)
  BY NextIsThere
<1>4. v \in Values(kind)
  BY <1>2 DEF Good
<1>5. /\ Bits(kind, v) \in Nat /\ Bits(kind, v) < Power[w]
      /\ kind = "bool" => BoolOk(Bits(kind, v))
  BY <1>1, <1>4, BitsType
<1>6. w \in Nat
  BY <1>1, WidthFacts
<1>7. item = Bytes(Bits(kind, v), w)
  BY DEF Item
<1>8. item \in ByteString /\ Len(item) = w
  BY <1>5, <1>6, <1>7, BytesType
<1>9. Number(item) = Bits(kind, v)
  BY <1>5, <1>6, <1>7, NumberOfBytes
<1> HIDE DEF item, f, w
<1>10. Part(Len(f), Len(item)) = item /\ Len(f) + Len(item) <= Len(wire)
  BY <1>1, <1>3, <1>8, PartIs
<1>11. Part(cursor, w) = item /\ cursor + w <= Len(wire)
  BY <1>1, <1>8, <1>10
<1>12. FixedBits = Bits(kind, v)
  BY <1>9, <1>11 DEF FixedBits, w
<1>13. Take(cursor, w)
  BY <1>1, <1>6, <1>11, TakeMeans
<1>14. QED
  BY <1>4, <1>5, <1>12, <1>13 DEF FixedOk, w

LEMMA FixedStep ==
  ASSUME Inv, DecodeFixed
  PROVE  Inv'
<1> DEFINE kind == kinds[n]
           w == Width(kind)
           p == Part(cursor, w)
           v == ValueOf(kind, FixedBits)
<1>1. /\ pc = "decode" /\ n <= Len(kinds) /\ ~ IsText(kind) /\ FixedOk
      /\ Decoded(v, cursor + w)
  BY Zenon DEF DecodeFixed, Decoding
<1>2. /\ kind \in Kinds /\ Format \in ByteString /\ cursor = Len(Format)
      /\ cursor \in Nat /\ Begins(wire, Format) /\ wire \in ByteString
      /\ Len(wire) <= MaxFrame
  BY <1>1, AtValue
<1>3. w \in Nat
  BY <1>1, <1>2, WidthFacts
<1>4. cursor + w <= Len(wire)
  BY <1>1, <1>2, <1>3, TakeMeans DEF FixedOk
<1>5. p \in ByteString /\ Len(p) = w /\ Begins(wire, Format \o p)
  BY <1>2, <1>3, <1>4, PartSplits
<1>6. FixedBits = Number(p)
  BY DEF FixedBits
<1> HIDE DEF p
<1>7. FixedBits \in Nat /\ FixedBits < Power[w] /\ Bytes(FixedBits, w) = p
  BY <1>5, <1>6, BytesOfNumber
<1>8. v \in Values(kind) /\ Bits(kind, v) = FixedBits
  BY <1>1, <1>2, <1>7, BitsOfValue DEF FixedOk
<1>9. Good(kind, v) /\ Item(kind, v) = p
  BY <1>1, <1>2, <1>7, <1>8 DEF Good, Item
<1>10. honest = TRUE => v = values[n]
  BY <1>1, <1>2, HonestFixed, ValueOfBits
<1> HIDE DEF v, w
<1>11. cursor + w = cursor + Len(Item(kind, v))
  BY <1>5, <1>9
<1>12. Begins(wire, Format \o Item(kind, v))
  BY <1>5, <1>9
<1>13. QED
  BY <1>1, <1>9, <1>10, <1>11, <1>12, DecodeStep

(* The other peer's next text is read as it is.                            *)
LEMMA HonestText ==
  ASSUME Inv, pc = "decode", n <= Len(kinds), IsText(kinds[n]),
         honest = TRUE
  PROVE  /\ TextLength = Len(values[n]) /\ Text = values[n]
         /\ Take(cursor, Short) /\ Take(cursor + Short, TextLength)
<1> DEFINE kind == kinds[n]
           v == values[n]
           b == Bytes(Len(v), Short)
           f == Format
<1>1. /\ kind \in Kinds /\ f \in ByteString /\ cursor = Len(f)
      /\ cursor \in Nat /\ wire \in ByteString /\ Len(wire) <= MaxFrame
  BY AtValue
<1>2. v \in ByteString /\ Len(v) \in Nat /\ Len(v) <= LengthMax
  <2>1. Good(kind, v)
    BY NextIsThere
  <2>2. QED
    BY <2>1 DEF Good, ByteString
<1>3. Item(kind, v) = b \o v
  BY DEF Item
<1>4. PICK x \in ByteString : wire = f \o (Item(kind, v) \o x)
  BY NextIsThere
<1>5. Len(v) < Power[Short] /\ Short \in Nat
  BY <1>2, LengthFacts, BaseFacts
<1>6. b \in ByteString /\ Len(b) = Short /\ Number(b) = Len(v)
  BY <1>2, <1>5, BytesType, NumberOfBytes
<1> HIDE DEF b, f, v
<1>7. v \o x \in ByteString /\ (b \o v) \o x = b \o (v \o x)
  BY <1>2, <1>6, Concat, ConcatThree
<1>8. wire = f \o (b \o (v \o x))
  BY <1>3, <1>4, <1>7
<1>9. Part(cursor, Short) = b /\ cursor + Short <= Len(wire)
  <2>1. Part(Len(f), Len(b)) = b /\ Len(f) + Len(b) <= Len(wire)
    BY <1>1, <1>6, <1>7, <1>8, PartIs
  <2>2. QED
    BY <1>1, <1>6, <2>1
<1>10. TextLength = Len(v)
  BY <1>6, <1>9 DEF TextLength
<1>11. f \o b \in ByteString /\ Len(f \o b) = cursor + Short
  BY <1>1, <1>6, Concat
<1>12. wire = (f \o b) \o (v \o x)
  BY <1>1, <1>6, <1>7, <1>8, ConcatThree
<1>13. Part(cursor + Short, Len(v)) = v /\ (cursor + Short) + Len(v) <= Len(wire)
  <2> DEFINE g == f \o b
  <2>1. g \in ByteString /\ Len(g) = cursor + Short /\ wire = g \o (v \o x)
    BY <1>11, <1>12
  <2> HIDE DEF g
  <2>2. Part(Len(g), Len(v)) = v /\ Len(g) + Len(v) <= Len(wire)
    BY <1>2, <2>1, PartIs
  <2>3. QED
    BY <2>1, <2>2
<1>14. Text = v
  BY <1>10, <1>13 DEF Text
<1>15. Take(cursor, Short)
  BY <1>1, <1>5, <1>9, TakeMeans
<1>16. cursor + Short \in Nat
  BY <1>1, <1>5
<1>17. Take(cursor + Short, TextLength)
  BY <1>1, <1>2, <1>10, <1>13, <1>16, TakeMeans
<1>18. QED
  BY <1>10, <1>14, <1>15, <1>17 DEF v

LEMMA TextStep ==
  ASSUME Inv, DecodeText
  PROVE  Inv'
<1> DEFINE kind == kinds[n]
           p == Part(cursor, Short)
           l == TextLength
           t == Text
<1>1. /\ pc = "decode" /\ n <= Len(kinds) /\ IsText(kind) /\ TextOk
      /\ Decoded(t, cursor + Short + l)
  BY Zenon DEF DecodeText, Decoding
<1>2. /\ kind \in Kinds /\ Format \in ByteString /\ cursor = Len(Format)
      /\ cursor \in Nat /\ Begins(wire, Format) /\ wire \in ByteString
      /\ Len(wire) <= MaxFrame /\ Short \in Nat
  BY <1>1, AtValue, BaseFacts
<1>3. cursor + Short <= Len(wire)
  BY <1>1, <1>2, TakeMeans DEF TextOk
<1>4. p \in ByteString /\ Len(p) = Short /\ Begins(wire, Format \o p)
  BY <1>2, <1>3, PartSplits
<1>5. l = Number(p)
  BY DEF TextLength
<1>6. l \in Nat /\ l < Power[Short] /\ Bytes(l, Short) = p
  <2> HIDE DEF p, l
  <2>1. QED
    BY <1>4, <1>5, BytesOfNumber
<1>7. Format \o p \in ByteString /\ Len(Format \o p) = cursor + Short
  <2> HIDE DEF p
  <2>1. QED
    BY <1>2, <1>4, Concat
<1>8. (cursor + Short) + l <= Len(wire)
  <2>1. cursor + Short \in Nat /\ Take(cursor + Short, l)
    BY <1>1, <1>2 DEF TextOk
  <2> HIDE DEF l
  <2>2. QED
    BY <1>2, <1>6, <2>1, TakeMeans
<1>9. t = Part(cursor + Short, l)
  BY DEF Text
<1> HIDE DEF p, l, t
<1>10. t \in ByteString /\ Len(t) = l /\ Begins(wire, (Format \o p) \o t)
  <2> DEFINE g == Format \o p
  <2>1. g \in ByteString /\ Len(g) = cursor + Short /\ Begins(wire, g)
    BY <1>4, <1>7
  <2> HIDE DEF g
  <2>2. /\ Part(Len(g), l) \in ByteString /\ Len(Part(Len(g), l)) = l
        /\ Begins(wire, g \o Part(Len(g), l))
    BY <1>6, <1>8, <2>1, PartSplits
  <2>3. QED
    BY <1>9, <2>1, <2>2 DEF g
<1>11. (Format \o p) \o t = Format \o (p \o t)
  BY <1>2, <1>4, <1>10, ConcatThree
<1>12. Item(kind, t) = p \o t
  BY <1>1, <1>6, <1>10 DEF Item
<1>13. Good(kind, t)
  BY <1>1, <1>2, <1>6, <1>10, LengthFacts DEF Good
<1>14. Len(Item(kind, t)) = Short + l
  BY <1>4, <1>10, <1>12, Concat
<1>15. cursor + Short + l = cursor + Len(Item(kind, t))
  BY <1>2, <1>6, <1>14
<1>16. honest = TRUE => t = values[n]
  BY <1>1, HonestText DEF t
<1>17. Begins(wire, Format \o Item(kind, t))
  BY <1>10, <1>11, <1>12
<1>18. QED
  BY <1>1, <1>13, <1>15, <1>16, <1>17, DecodeStep

LEMMA BadTextStep ==
  ASSUME Inv, BadText
  PROVE  Inv'
<1>1. /\ pc = "decode" /\ n <= Len(kinds) /\ IsText(kinds[n]) /\ ~ TextOk
      /\ Refuse
  BY Zenon DEF BadText, Decoding
<1>2. Typed /\ Len(kinds) \in Nat /\ n \in Nat /\ n >= 1
  BY KindsFacts DEF Inv
<1>3. ASSUME honest = TRUE
      PROVE  to = "client" /\ kinds = <<"string">> /\ ~ Utf8(values[1])
  <2>1. /\ Text = values[n]
        /\ Take(cursor, Short) /\ Take(cursor + Short, TextLength)
    BY <1>1, <1>3, HonestText
  <2>2. to = "client" /\ kinds[n] = "string" /\ ~ Utf8(Text)
    BY <1>1, <2>1, Zenon DEF TextOk
  <2>3. Len(kinds) = 1 /\ n = 1
    <3>1. Len(kinds) <= 1
      BY <1>2, <2>2 DEF Typed
    <3>2. n <= Len(kinds)
      BY <1>1
    <3>3. Len(kinds) \in Nat /\ n \in Nat /\ n >= 1
      BY <1>2
    <3> DEFINE k == Len(kinds)
    <3>4. k <= 1 /\ n <= k /\ k \in Nat /\ n \in Nat /\ n >= 1
      BY <3>1, <3>2, <3>3
    <3> HIDE DEF k
    <3>5. k = 1 /\ n = 1
      BY <3>4
    <3>6. QED
      BY <3>5 DEF k
  <2>4. kinds = <<"string">>
    <3> DEFINE K == Kinds
    <3>1. kinds \in Seq(K) /\ Len(kinds) = 1 /\ kinds[1] = "string"
      BY <1>2, <2>2, <2>3 DEF Typed
    <3> HIDE DEF K
    <3>2. QED
      BY <3>1
  <2>5. ~ Utf8(values[1])
    BY <2>1, <2>2, <2>3
  <2>6. QED
    BY <2>2, <2>4, <2>5
<1>4. pc \in {"prefix", "decode"}
  BY <1>1
<1>5. QED
  BY <1>1, <1>3, <1>4, RefuseStep

LEMMA BadFixedStep ==
  ASSUME Inv, BadFixed
  PROVE  Inv'
<1>1. /\ pc = "decode" /\ n <= Len(kinds) /\ ~ IsText(kinds[n]) /\ ~ FixedOk
      /\ Refuse
  BY Zenon DEF BadFixed, Decoding
<1>2. honest # TRUE
  BY <1>1, HonestFixed
<1>3. QED
  BY <1>1, <1>2, RefuseStep

LEMMA WrongPrefixStep ==
  ASSUME Inv, WrongPrefix
  PROVE  Inv'
<1>1. /\ pc = "prefix" /\ Refuse
      /\ ~ (Take(0, Len(Prefix)) /\ Part(0, Len(Prefix)) = Prefix)
  BY Zenon DEF WrongPrefix
<1>2. honest # TRUE
  BY <1>1, PrefixIsThere, Zenon
<1>3. QED
  BY <1>1, <1>2, RefuseStep

LEMMA FinishStep ==
  ASSUME Inv, Finish
  PROVE  Inv'
<1>1. /\ pc = "decode" /\ n > Len(kinds)
      /\ pc' = IF cursor = Len(wire) THEN "accepted" ELSE "refused"
      /\ to' = to /\ kinds' = kinds /\ values' = values /\ honest' = honest
      /\ n' = n /\ wire' = wire /\ cursor' = cursor /\ got' = got
  BY DEF Finish, Ends
<1>2. Typed /\ Consumed /\ Carried
  BY DEF Inv
<1>3. /\ Len(kinds) \in Nat /\ n = Len(kinds) + 1 /\ Format \in ByteString
      /\ Len(got) = Len(kinds) /\ Len(wire) <= MaxFrame
      /\ cursor = Len(Format) /\ Begins(wire, Format)
      /\ GoodValues(kinds, got) /\ Joined(kinds, got) \in ByteString
  <2>1. Len(kinds) \in Nat /\ n = Len(kinds) + 1
    BY <1>1, <1>2, KindsFacts
  <2>2. /\ Len(got) = n - 1 /\ cursor = Len(Format) /\ Begins(wire, Format)
        /\ Len(wire) <= MaxFrame
    BY <1>1, <1>2 DEF Consumed
  <2>3. Len(got) = Len(kinds)
    BY <2>1, <2>2
  <2>4. GoodValues(kinds, got)
    BY <1>2 DEF Typed
  <2>5. Format \in ByteString /\ Joined(kinds, got) \in ByteString
    BY <1>2, FormatType
  <2>6. QED
    BY <2>1, <2>2, <2>3, <2>4, <2>5
<1>4. cursor = Len(wire) => wire = Format
  <2>1. PICK x \in ByteString : wire = Format \o x
    BY <1>3 DEF Begins
  <2>2. Len(wire) = Len(Format) + Len(x) /\ Len(Format) \in Nat /\ Len(x) \in Nat
    BY <1>3, <2>1, Concat
  <2>3. cursor = Len(wire) => Len(x) = 0
    BY <1>3, <2>2
  <2>4. cursor = Len(wire) => x = <<>>
    BY <2>3, EmptyFacts
  <2>5. QED
    BY <1>3, <2>1, <2>4, EmptyFacts
(* Another reader of an honest payload ends where it ends.                 *)
<1>5. honest = TRUE => cursor = Len(wire)
  <2> SUFFICES ASSUME honest = TRUE PROVE cursor = Len(wire)
    OBVIOUS
  <2>1. /\ GoodValues(kinds, values) /\ Len(values) = Len(kinds)
        /\ wire = Front \o Joined(kinds, values) /\ Leads(got, values)
    BY <1>1, <1>2 DEF Carried, Underway
  <2>2. PICK u : Joins(kinds, values, u)
    BY <2>1, JoinedJoins
  <2>3. PICK t : Joins(kinds, got, t)
    BY <1>3, JoinedJoins
  <2>4. u[Len(kinds)] = t[Len(kinds)]
    BY <1>3, <2>1, <2>2, <2>3, JoinsAgree DEF Leads
  <2>5. Joined(kinds, values) = Joined(kinds, got)
    BY <1>3, <2>1, <2>2, <2>3, <2>4, Zenon DEF Joins
  <2>6. QED
    BY <1>3, <2>1, <2>5 DEF Format
<1>6. Front' = Front /\ Format' = Format
  BY <1>1 DEF Front, Format
<1>7. pc' \in {"accepted", "refused"} /\ (pc' = "accepted" => cursor = Len(wire))
  BY <1>1
<1>8. Typed'
  BY <1>1, <1>2, <1>7 DEF Typed
<1>9. Consumed'
  <2> HIDE DEF Format
  <2>1. QED
    BY <1>1, <1>3, <1>4, <1>6, <1>7 DEF Consumed
<1>10. Carried'
  <2>1. honest = TRUE => pc' = "accepted"
    BY <1>1, <1>5
  <2>2. QED
    BY <1>1, <1>2, <1>6, <2>1 DEF Carried, Underway
<1>11. QED
  BY <1>8, <1>9, <1>10 DEF Inv

LEMMA EncodesStep ==
  ASSUME Inv, pc = "encode", n <= Len(kinds), NEW v \in Values(kinds[n]),
         \/ EncodeArgument(v) \/ EncodeText(v)
         \/ EncodeResult(v) \/ EncodeView(v)
  PROVE  Inv'
<1> DEFINE kind == kinds[n]
<1>1. Typed
  BY DEF Inv
<1>2. kind \in Kinds
  BY <1>1, KindsFacts
<1>3. ASSUME IsText(kind)
      PROVE  v \in ByteString /\ Len(v) \in Nat
             /\ Item(kind, v) = Bytes(Len(v), Short) \o v
             /\ (Len(v) <= LengthMax => Good(kind, v))
  <2>1. v \in Texts
    BY <1>3, Zenon DEF Values, IsText
  <2>2. v \in ByteString
    BY <2>1, CodecAssumption DEF ByteString
  <2>3. Len(v) \in Nat
    BY <2>2 DEF ByteString
  <2>4. QED
    BY <1>2, <1>3, <2>2, <2>3 DEF Good, Item
<1>4. ASSUME ~ IsText(kind)
      PROVE  /\ Item(kind, v) = Bytes(Bits(kind, v), Width(kind))
             /\ Good(kind, v)
  BY <1>2, <1>4 DEF Good, Item
<1> HIDE DEF kind
<1>5. CASE EncodeArgument(v)
  <2>1. Encoding(v) /\ ~ IsText(kind)
        /\ Encoded(Bytes(Bits(kind, v), Width(kind)))
    BY <1>5, Zenon DEF EncodeArgument, kind
  <2>2. Encoded(Item(kind, v)) /\ Good(kind, v)
    BY <1>4, <2>1, Zenon
  <2>3. QED
    BY <2>1, <2>2, EncodeStep DEF kind
<1>6. CASE EncodeResult(v)
  <2>1. Encoding(v) /\ ~ IsText(kind)
        /\ Encoded(Bytes(Bits(kind, v), Width(kind)))
    BY <1>6, Zenon DEF EncodeResult, kind
  <2>2. Encoded(Item(kind, v)) /\ Good(kind, v)
    BY <1>4, <2>1, Zenon
  <2>3. QED
    BY <2>1, <2>2, EncodeStep DEF kind
<1>7. CASE EncodeView(v)
  <2>1. Encoding(v) /\ IsText(kind) /\ Len(v) <= LengthMax
        /\ Encoded(Bytes(Len(v), Short) \o v)
    BY <1>7, Zenon DEF EncodeView, kind
  <2>2. Encoded(Item(kind, v)) /\ Good(kind, v)
    BY <1>3, <2>1, Zenon
  <2>3. QED
    BY <2>1, <2>2, EncodeStep DEF kind
<1>8. CASE EncodeText(v)
  <2>1. /\ Encoding(v) /\ IsText(kind)
        /\ IF Len(v) <= LengthMax THEN Encoded(Bytes(Len(v), Short) \o v)
           ELSE GiveUp
    BY <1>8, Zenon DEF EncodeText, kind
  <2>2. CASE Len(v) <= LengthMax
    <3>1. Encoded(Bytes(Len(v), Short) \o v)
      BY <2>1, <2>2, Zenon
    <3>2. Encoded(Item(kind, v)) /\ Good(kind, v)
      BY <1>3, <2>1, <2>2, <3>1, Zenon
    <3>3. QED
      BY <2>1, <3>2, EncodeStep DEF kind
  <2>3. CASE ~ (Len(v) <= LengthMax)
    <3>1. GiveUp
      BY <2>1, <2>3, Zenon
    <3>2. IsSeq(values')
      <4>1. values' = Append(values, v) /\ IsSeq(values)
        BY <1>1, <2>1 DEF Encoding, Typed
      <4>2. QED
        BY <4>1, Appended
    <3>3. QED
      BY <2>1, <3>1, <3>2, GiveUpStep DEF Encoding, GiveUp
  <2>4. QED
    BY <2>2, <2>3
<1>9. QED
  BY <1>5, <1>6, <1>7, <1>8

(* The invariant is inductive.                                             *)
LEMMA CodecNext == Inv /\ [Next]_vars => Inv'
<1> SUFFICES ASSUME Inv, [Next]_vars PROVE Inv'
  OBVIOUS
<1>0. Typed
  BY DEF Inv
<1>1. ASSUME pc = "encode", n <= Len(kinds), NEW v \in Values(kinds[n]),
             \/ EncodeArgument(v) \/ EncodeText(v)
             \/ EncodeResult(v) \/ EncodeView(v)
      PROVE  Inv'
  BY <1>1, EncodesStep
<1>2. CASE EncodeFails(Null)
  <2>1. /\ pc = "encode" /\ pc' = "unsent" /\ values' = Append(values, Null)
        /\ UNCHANGED <<to, kinds, honest, n, wire, cursor, got>>
    BY <1>2 DEF EncodeFails, Encoding, GiveUp
  <2>2. IsSeq(values')
    BY <1>0, <2>1, Appended DEF Typed
  <2>3. QED
    BY <2>1, <2>2, GiveUpStep
<1>3. CASE RequestTooLong
  <2>1. /\ pc = "encode" /\ pc' = "unsent" /\ values' = values
        /\ UNCHANGED <<to, kinds, honest, n, wire, cursor, got>>
    BY <1>3 DEF RequestTooLong, GiveUp
  <2>2. IsSeq(values')
    BY <1>0, <2>1 DEF Typed
  <2>3. QED
    BY <2>1, <2>2, GiveUpStep
<1>4. CASE SendRequest
  <2>1. /\ pc = "encode" /\ n > Len(kinds) /\ pc' = "receive"
        /\ wire' = Front \o wire
        /\ UNCHANGED <<to, kinds, values, honest, n, cursor, got>>
    BY <1>4 DEF SendRequest, Front
  <2>2. QED
    BY <2>1, SendStep
<1>5. CASE SendResponse
  <2>1. /\ pc = "encode" /\ n > Len(kinds) /\ pc' = "receive"
        /\ to = "client" /\ wire' = wire
        /\ UNCHANGED <<to, kinds, values, honest, n, cursor, got>>
    BY <1>5 DEF SendResponse
  <2>2. wire' = Front \o wire
    <3>1. Front = <<>> /\ wire \in ByteString
      BY <1>0, <2>1 DEF Front, Typed
    <3>2. QED
      BY <2>1, <3>1, EmptyFacts
  <2>3. QED
    BY <2>1, <2>2, SendStep
<1>6. CASE UNCHANGED vars
  <2>1. /\ to' = to /\ kinds' = kinds /\ values' = values /\ honest' = honest
        /\ pc' = pc /\ n' = n /\ wire' = wire /\ cursor' = cursor
        /\ got' = got
    BY <1>6 DEF vars
  <2>2. Front' = Front /\ Format' = Format /\ (Utf8(values[1])' <=> Utf8(values[1]))
    BY <2>1 DEF Front, Format, Utf8
  <2>3. Typed'
    BY <1>0, <2>1 DEF Typed
  <2>4. Consumed'
    <3> HIDE DEF Format
    <3>1. QED
      BY <2>1, <2>2 DEF Inv, Consumed
  <2>5. Carried'
    BY <2>1, <2>2 DEF Inv, Carried
  <2>6. QED
    BY <2>3, <2>4, <2>5 DEF Inv
<1>7. QED
  BY <1>1, <1>2, <1>3, <1>4, <1>5, <1>6, ReceiveStep, PrefixStep,
     WrongPrefixStep, FixedStep, BadFixedStep, TextStep, BadTextStep,
     FinishStep DEF Next, Ended

(* The format of what is read and the values it came from, at every step   *)
(* of either peer.                                                         *)
THEOREM Invariance == Spec => []Inv
BY CodecInit, CodecNext, PTL DEF Spec

(* The types, of what is decoded too: no decoder makes a value its type    *)
(* does not have.                                                          *)
THEOREM TypeCorrect == Spec => []TypeOK
<1>1. Inv => TypeOK
  <2> SUFFICES ASSUME Inv PROVE TypeOK
    OBVIOUS
  <2>1. Typed /\ Consumed
    BY DEF Inv
  <2>2. cursor \in 0 .. SizeMax
    <3>1. cursor \in 0 .. Len(wire) /\ wire \in ByteString
      BY <2>1 DEF Typed
    <3>2. Len(wire) \in Nat /\ MaxFrame <= SizeMax /\ MaxFrame \in Nat
          /\ SizeMax \in Nat
      BY <3>1, CodecAssumption DEF ByteString
    <3>3. Len(wire) <= MaxFrame \/ cursor = 0
      BY <2>1 DEF Typed, Consumed
    <3>4. QED
      BY <3>1, <3>2, <3>3
  <2>3. Len(got) <= Len(kinds) /\ DOMAIN got = 1 .. Len(got)
    BY <2>1, SeqType DEF Typed, GoodValues
  <2>4. \A m \in DOMAIN got :
          IF IsText(kinds[m]) THEN got[m] \in Seq(Byte)
          ELSE got[m] \in Values(kinds[m])
    BY <2>1, <2>3 DEF Typed, GoodValues, Good, ByteString
  <2>5. QED
    BY <2>1, <2>2, <2>3, <2>4 DEF Typed, TypeOK, ByteString
<1>2. QED
  BY <1>1, Invariance, PTL

(* Every value arrives as it was given, for every width of a byte and of   *)
(* a number and every list of types.                                       *)
THEOREM ArrivesAsGiven == Spec => []RoundTrip
<1>1. Inv => RoundTrip
  <2> SUFFICES ASSUME Inv, honest PROVE
        /\ pc = "accepted" => got = values
        /\ pc = "refused" =>
             to = "client" /\ kinds = <<"string">> /\ ~Utf8(values[1])
    BY DEF RoundTrip
  <2>1. Typed /\ Consumed /\ Carried
    BY DEF Inv
  <2>2. honest = TRUE
    BY <2>1, Zenon DEF Typed
  <2>3. ASSUME pc = "accepted" PROVE got = values
    <3>1. /\ Len(got) = Len(kinds) /\ Len(values) = Len(kinds)
          /\ IsSeq(got) /\ IsSeq(values)
          /\ \A m \in 1 .. Len(got) : got[m] = values[m]
      BY <2>1, <2>2, <2>3
         DEF Typed, Consumed, Carried, Underway, Leads, GoodValues
    <3>2. PICK S : got \in Seq(S)
      BY <3>1 DEF IsSeq
    <3>3. PICK T : values \in Seq(T)
      BY <3>1 DEF IsSeq
    <3>4. QED
      BY <3>1, <3>2, <3>3
  <2>4. QED
    BY <2>1, <2>2, <2>3 DEF Carried
<1>2. QED
  BY <1>1, Invariance, PTL

(* Whoever wrote it, a payload that is accepted is the encoding of what    *)
(* was decoded of it, and no decoder reads outside of it.                  *)
THEOREM OneFormOnly == Spec => []AcceptsOneForm
<1>1. Inv => AcceptsOneForm
  <2> SUFFICES ASSUME Inv PROVE AcceptsOneForm
    OBVIOUS
  <2>1. cursor \in 0 .. Len(wire) /\ wire \in ByteString
    BY DEF Inv, Typed
  <2>2. cursor <= Len(wire)
    BY <2>1 DEF ByteString
  <2>3. pc = "accepted" => wire = Format
    BY DEF Inv, Consumed
  <2>4. QED
    BY <2>2, <2>3 DEF AcceptsOneForm
<1>2. QED
  BY <1>1, Invariance, PTL
-----------------------------------------------------------------------------
(* Within the limit, and why a client gave up.                             *)
InFrame ==
  /\ IsSeq(wire)
  /\ honest /\ pc = "encode" /\ to = "client" => Len(wire) <= MaxFrame
  /\ honest /\ pc = "receive" => Len(wire) <= MaxFrame

GivesUp ==
  pc = "unsent" /\ to = "helper" =>
       \/ \E m \in DOMAIN kinds : IsText(kinds[m]) /\ Len(values[m]) > LengthMax
       \/ Len(Prefix) + Len(wire) > MaxFrame

FrameInv ==
  /\ to \in {"helper", "client"}
  /\ kinds \in Signatures
  /\ pc = "encode" => honest = TRUE
  /\ pc = "encode" => n \in Nat \ {0} /\ IsSeq(values) /\ Len(values) = n - 1
  /\ InFrame
  /\ honest => pc # "dropped"
  /\ GivesUp
-----------------------------------------------------------------------------
LEMMA JoinedSeq ==
  ASSUME NEW s, NEW t, IsSeq(s), IsSeq(t)
  PROVE  IsSeq(s \o t) /\ Len(s \o t) = Len(s) + Len(t)
<1>1. PICK S : s \in Seq(S)
  BY DEF IsSeq
<1>2. PICK T : t \in Seq(T)
  BY DEF IsSeq
<1>3. s \in Seq(S \cup T) /\ t \in Seq(S \cup T)
  BY <1>1, <1>2
<1>4. s \o t \in Seq(S \cup T) /\ Len(s \o t) = Len(s) + Len(t)
  BY <1>3
<1>5. QED
  BY <1>4 DEF IsSeq

LEMMA BytesSeq ==
  ASSUME NEW v, NEW w \in Nat
  PROVE  IsSeq(Bytes(v, w))
<1> DEFINE b == Bytes(v, w)
           S == {b[d] : d \in 1 .. w}
<1>1. b = [d \in 1 .. w |-> b[d]]
  BY Zenon DEF Bytes
<1> HIDE DEF b
<1>2. b \in Seq(S) /\ Len(b) = w
  BY <1>1
<1> HIDE DEF S
<1>3. IsSeq(b)
  BY <1>2 DEF IsSeq
<1>4. QED
  BY <1>3 DEF b

LEMMA WidthNat ==
  ASSUME NEW kind \in Kinds, ~ IsText(kind)
  PROVE  Width(kind) \in Nat
<1>1. Width(kind) = 1 \/ Width(kind) = Short \/ Width(kind) = Long
  BY Zenon DEF Width, Kinds, IsText
<1>2. QED
  BY <1>1, CodecAssumption

LEMMA TextSeq ==
  ASSUME NEW kind, IsText(kind), NEW v \in Values(kind)
  PROVE  IsSeq(v) /\ IsSeq(Bytes(Len(v), Short) \o v)
<1>1. v \in Texts
  BY Zenon DEF Values, IsText
<1>2. v \in Seq(Byte)
  BY <1>1, CodecAssumption
<1>3. IsSeq(v)
  <2> DEFINE B == Byte
  <2>1. v \in Seq(B)
    BY <1>2
  <2> HIDE DEF B
  <2>2. QED
    BY <2>1 DEF IsSeq
<1>4. IsSeq(Bytes(Len(v), Short))
  BY BytesSeq, CodecAssumption
<1>5. QED
  BY <1>3, <1>4, JoinedSeq

LEMMA PrefixSeq == IsSeq(Prefix)
<1> DEFINE B == Byte
<1>1. Prefix \in Seq(B)
  BY CodecAssumption
<1> HIDE DEF B
<1>2. QED
  BY <1>1 DEF IsSeq
-----------------------------------------------------------------------------
LEMMA FrameInit == Init => FrameInv
<1> SUFFICES ASSUME Init
             PROVE  FrameInv
  OBVIOUS
<1>1. to \in {"helper", "client"} /\ kinds \in Signatures /\ n = 1
  BY DEF Init, InitRequest, InitResponse, Start
<1>2. values = <<>> /\ pc # "unsent" /\ pc # "dropped"
  BY DEF Init
<1>3. IsSeq(<<>>) /\ Len(<<>>) = 0
  BY DEF IsSeq
<1>4. \/ honest = TRUE /\ pc = "encode" /\ wire = <<>>
      \/ honest = FALSE /\ pc = "receive" /\ wire \in Payloads
  BY DEF Init
<1>5. IsSeq(wire)
  <2> DEFINE B == Byte
  <2>1. wire \in Payloads => wire \in Seq(B)
    BY CodecAssumption
  <2> HIDE DEF B
  <2>2. CASE wire = <<>>
    BY <1>3, <2>2
  <2>3. CASE wire \in Payloads
    BY <2>1, <2>3 DEF IsSeq
  <2>4. QED
    BY <1>4, <2>2, <2>3
<1>6. InFrame
  BY <1>3, <1>4, <1>5, CodecAssumption DEF InFrame
<1>7. QED
  BY <1>1, <1>2, <1>3, <1>4, <1>6 DEF FrameInv, GivesUp

(* The place of the next value, and its kind.                              *)
LEMMA NextKind ==
  ASSUME FrameInv, pc = "encode", n <= Len(kinds)
  PROVE  n \in DOMAIN kinds /\ kinds[n] \in Kinds
<1> DEFINE K == Kinds
<1>1. kinds \in Seq(K) /\ n \in Nat \ {0}
  BY CodecAssumption DEF FrameInv
<1> HIDE DEF K
<1>2. n \in DOMAIN kinds /\ kinds[n] \in K
  BY <1>1
<1>3. QED
  BY <1>2 DEF K

(* A value that is written, within the frame if it is a result.            *)
LEMMA EncodedInv ==
  ASSUME FrameInv, NEW v, Encoding(v), NEW b, IsSeq(b), Encoded(b),
         to = "client" => Fits(b)
  PROVE  FrameInv'
<1>1. /\ pc = "encode" /\ pc' = "encode" /\ honest = TRUE /\ honest' = TRUE
      /\ to' = to /\ kinds' = kinds /\ n' = n + 1 /\ n \in Nat \ {0}
  BY DEF FrameInv, Encoding, Encoded
<1>2. values' = Append(values, v) /\ IsSeq(values) /\ Len(values) = n - 1
  BY DEF FrameInv, Encoding
<1>3. wire' = wire \o b /\ IsSeq(wire)
  BY DEF FrameInv, InFrame, Encoded
<1>4. IsSeq(values') /\ Len(values') = n
  BY <1>1, <1>2, Appended
<1>5. IsSeq(wire') /\ Len(wire') = Len(wire) + Len(b)
  BY <1>3, JoinedSeq
<1>6. InFrame'
  BY <1>1, <1>5 DEF InFrame, Fits
<1>7. QED
  BY <1>1, <1>4, <1>6 DEF FrameInv, GivesUp

(* A call or a response that is given up.                                  *)
LEMMA GiveUpInv ==
  ASSUME FrameInv, pc' = "unsent", GivesUp',
         UNCHANGED <<to, kinds, honest, wire>>
  PROVE  FrameInv'
<1>1. InFrame'
  BY DEF FrameInv, InFrame
<1>2. QED
  BY <1>1 DEF FrameInv

LEMMA EncodeInv ==
  ASSUME FrameInv, pc = "encode", n <= Len(kinds), NEW v \in Values(kinds[n]),
         \/ EncodeArgument(v) \/ EncodeText(v)
         \/ EncodeResult(v) \/ EncodeView(v)
  PROVE  FrameInv'
<1> DEFINE fixed == Bytes(Bits(kinds[n], v), Width(kinds[n]))
           text == Bytes(Len(v), Short) \o v
<1>1. n \in DOMAIN kinds /\ kinds[n] \in Kinds
  BY NextKind
<1>2. ~ IsText(kinds[n]) => IsSeq(fixed)
  BY <1>1, BytesSeq, WidthNat
<1>3. IsText(kinds[n]) => IsSeq(text) /\ IsSeq(v)
  BY TextSeq
<1> HIDE DEF fixed, text
<1>4. CASE EncodeArgument(v)
  <2>1. Encoding(v) /\ Encoded(fixed) /\ to = "helper" /\ ~ IsText(kinds[n])
    BY <1>4, Zenon DEF EncodeArgument, fixed
  <2>2. QED
    BY <1>2, <2>1, EncodedInv
<1>5. CASE EncodeResult(v)
  <2>1. Encoding(v) /\ Encoded(fixed) /\ Fits(fixed) /\ ~ IsText(kinds[n])
    BY <1>5, Zenon DEF EncodeResult, fixed
  <2>2. QED
    BY <1>2, <2>1, EncodedInv
<1>6. CASE EncodeView(v)
  <2>1. Encoding(v) /\ Encoded(text) /\ Fits(text) /\ IsText(kinds[n])
    BY <1>6, Zenon DEF EncodeView, text
  <2>2. QED
    BY <1>3, <2>1, EncodedInv
<1>7. CASE EncodeText(v)
  <2>1. /\ Encoding(v) /\ to = "helper" /\ IsText(kinds[n])
        /\ IF Len(v) <= LengthMax THEN Encoded(text) ELSE GiveUp
    BY <1>7, Zenon DEF EncodeText, text
  <2>2. CASE Len(v) <= LengthMax
    BY <1>3, <2>1, <2>2, EncodedInv
  <2>3. CASE ~ (Len(v) <= LengthMax)
    <3>1. /\ pc' = "unsent" /\ wire' = wire /\ values' = Append(values, v)
          /\ to' = to /\ kinds' = kinds /\ honest' = honest
      BY <2>1, <2>3 DEF Encoding, GiveUp
    <3>2. Len(v) > LengthMax
      BY <1>3, <2>1, <2>3, LengthFacts DEF IsSeq
    <3>3. values'[n] = v
      <4>1. IsSeq(values) /\ Len(values) + 1 = n
        BY DEF FrameInv
      <4>2. QED
        BY <3>1, <4>1, Appended
    <3>4. GivesUp'
      BY <1>1, <2>1, <3>1, <3>2, <3>3 DEF GivesUp
    <3>5. QED
      BY <3>1, <3>4, GiveUpInv
  <2>4. QED
    BY <2>2, <2>3
<1>8. QED
  BY <1>4, <1>5, <1>6, <1>7

LEMMA SendInv ==
  ASSUME FrameInv, SendRequest \/ SendResponse
  PROVE  FrameInv'
<1>1. /\ pc = "encode" /\ pc' = "receive" /\ honest = TRUE /\ honest' = TRUE
      /\ to' = to /\ kinds' = kinds /\ IsSeq(wire)
  BY DEF FrameInv, InFrame, SendRequest, SendResponse
<1>2. IsSeq(wire') /\ Len(wire') <= MaxFrame
  <2>1. CASE SendRequest
    <3>1. wire' = Prefix \o wire /\ Len(Prefix) + Len(wire) <= MaxFrame
      BY <2>1 DEF SendRequest, Sends
    <3>2. QED
      BY <1>1, <3>1, PrefixSeq, JoinedSeq
  <2>2. CASE SendResponse
    BY <1>1, <2>2 DEF SendResponse, FrameInv, InFrame
  <2>3. QED
    BY <2>1, <2>2
<1>3. InFrame'
  BY <1>1, <1>2 DEF InFrame
<1>4. QED
  BY <1>1, <1>3 DEF FrameInv, GivesUp

LEMMA ReceiveInv ==
  ASSUME FrameInv, Receive
  PROVE  FrameInv'
<1>1. /\ pc = "receive" /\ to' = to /\ kinds' = kinds
      /\ honest' = honest /\ wire' = wire
      /\ pc' \in {"dropped", "prefix", "decode"}
      /\ pc' = "dropped" => Len(wire) > MaxFrame
  BY DEF Receive
<1>2. IsSeq(wire) /\ (honest => Len(wire) <= MaxFrame)
  BY <1>1 DEF FrameInv, InFrame
<1>3. honest => pc' # "dropped"
  BY <1>1, <1>2, CodecAssumption DEF IsSeq
<1>4. InFrame'
  BY <1>1, <1>2 DEF InFrame
<1>5. QED
  BY <1>1, <1>3, <1>4 DEF FrameInv, GivesUp

LEMMA DecodeInv ==
  ASSUME FrameInv, pc' \in {"decode", "refused", "accepted"},
         UNCHANGED <<to, kinds, honest, wire>>
  PROVE  FrameInv'
<1>1. InFrame'
  BY DEF FrameInv, InFrame
<1>2. QED
  BY <1>1 DEF FrameInv, GivesUp

LEMMA FrameNext == FrameInv /\ [Next]_vars => FrameInv'
<1> SUFFICES ASSUME FrameInv, [Next]_vars
             PROVE  FrameInv'
  OBVIOUS
<1>1. ASSUME pc = "encode", n <= Len(kinds), NEW v \in Values(kinds[n]),
             \/ EncodeArgument(v) \/ EncodeText(v)
             \/ EncodeResult(v) \/ EncodeView(v)
      PROVE  FrameInv'
  BY <1>1, EncodeInv
<1>2. CASE EncodeFails(Null)
  <2>1. pc' = "unsent" /\ to = "client" /\ UNCHANGED <<to, kinds, honest, wire>>
    BY <1>2 DEF EncodeFails, Encoding, GiveUp
  <2>2. QED
    BY <2>1, GiveUpInv DEF GivesUp
<1>3. CASE SendRequest \/ SendResponse
  BY <1>3, SendInv
<1>4. CASE RequestTooLong
  <2>1. /\ pc' = "unsent" /\ ~ (Len(Prefix) + Len(wire) <= MaxFrame)
        /\ UNCHANGED <<to, kinds, honest, wire>>
    BY <1>4 DEF RequestTooLong, GiveUp, Sends
  <2>2. Len(Prefix) + Len(wire) > MaxFrame
    BY <2>1, PrefixSeq, CodecAssumption DEF FrameInv, InFrame, IsSeq
  <2>3. QED
    BY <2>1, <2>2, GiveUpInv DEF GivesUp
<1>5. CASE Receive
  BY <1>5, ReceiveInv
<1>6. CASE \/ DecodePrefix \/ WrongPrefix
           \/ DecodeFixed \/ BadFixed \/ DecodeText \/ BadText
           \/ Finish
  <2>1. /\ pc' \in {"decode", "refused", "accepted"}
        /\ UNCHANGED <<to, kinds, honest, wire>>
    <3>1. CASE DecodePrefix \/ WrongPrefix \/ BadFixed \/ BadText \/ Finish
      BY <3>1 DEF DecodePrefix, WrongPrefix, BadFixed, BadText, Finish, Refuse
    <3>2. CASE DecodeFixed
      BY <3>2, Zenon DEF DecodeFixed, Decoding, Decoded
    <3>3. CASE DecodeText
      BY <3>3, Zenon DEF DecodeText, Decoding, Decoded
    <3>4. QED
      BY <1>6, <3>1, <3>2, <3>3
  <2>2. QED
    BY <2>1, DecodeInv
<1>7. CASE UNCHANGED vars
  <2>1. /\ to' = to /\ kinds' = kinds /\ values' = values /\ honest' = honest
        /\ pc' = pc /\ n' = n /\ wire' = wire
    BY <1>7 DEF vars
  <2>2. InFrame' /\ GivesUp'
    BY <2>1 DEF FrameInv, InFrame, GivesUp
  <2>3. QED
    BY <2>1, <2>2 DEF FrameInv
<1>8. QED
  BY <1>1, <1>2, <1>3, <1>4, <1>5, <1>6, <1>7 DEF Next, Ended

(* Neither peer refuses for its size what the other has sent, and the      *)
(* client gives up only where the helper would.                            *)
THEOREM LimitIsShared == Spec => []LimitsAgree
<1>1. FrameInv => LimitsAgree
  BY DEF FrameInv, GivesUp, LimitsAgree
<1>2. QED
  BY <1>1, FrameInit, FrameNext, PTL DEF Spec
=============================================================================
