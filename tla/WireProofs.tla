----------------------------- MODULE WireProofs -----------------------------
(***************************************************************************)
(* Unmarshal on any bytes, for every kind of message and every width of    *)
(* the integers: it stays inside its slice, the numbers it stores fit      *)
(* their types, and each of its steps uses up bytes or ends a call.  And   *)
(* what Marshal writes for one field Unmarshal reads as it was.            *)
(***************************************************************************)
EXTENDS Wire, SumTheorems, SequenceTheorems, TLAPS

(***************************************************************************)
(* Powers and division                                                     *)
(***************************************************************************)

LEMMA MaxVarintIsNat ==
  /\ MaxVarint \in Nat \ {0}
  /\ WideBits \in 1 .. PayloadBits * MaxVarint /\ NarrowBits \in 1 .. WideBits
<1> DEFINE p == PayloadBits
           w == WideBits
<1>1. p \in Nat \ {0} /\ w \in Nat \ {0}
  BY WireAssumption
<1>2. ASSUME NEW k \in Int, NEW m \in Nat \ {0}, NEW q, q = k \div m
      PROVE  q \in Int /\ m * q <= k /\ k < m * q + m
  BY <1>2
<1>3. PICK q : q = (w + p - 1) \div p
  OBVIOUS
<1> HIDE DEF p, w
<1>4. q \in Int /\ p * q <= w + p - 1 /\ w + p - 1 < p * q + p
  BY <1>1, <1>2, <1>3
<1>5. w <= p * q
  BY <1>1, <1>4
<1>6. q > 0
  <2>1. ASSUME NEW x \in Nat \ {0}, NEW y \in Int, x * y > 0 PROVE y > 0
    <3> SUFFICES ASSUME y <= 0 PROVE FALSE
      OBVIOUS
    <3>1. -y \in Nat /\ x * y = -(x * (-y))
      OBVIOUS
    <3>2. x * (-y) >= 0
      BY <3>1
    <3> QED BY <2>1, <3>1, <3>2
  <2>2. p * q > 0
    BY <1>1, <1>4, <1>5
  <2> QED BY <1>1, <1>4, <2>1, <2>2
<1>7. MaxVarint = q
  BY <1>3 DEF MaxVarint, p, w
<1> QED BY <1>1, <1>4, <1>5, <1>6, <1>7, WireAssumption DEF p, w

\* The powers of two that a wide varint has to do with.
TopBit == PayloadBits * MaxVarint

LEMMA TopBitIsNat == TopBit \in Nat /\ 1 <= WideBits /\ WideBits <= TopBit
BY MaxVarintIsNat, WireAssumption DEF TopBit

LEMMA PowerIsNat == ASSUME NEW n \in 0 .. TopBit + 1 PROVE 2 ^ n \in Nat \ {0}
<1> DEFINE bad == {m \in 0 .. TopBit + 1 : 2 ^ m \notin Nat \ {0}}
<1> SUFFICES ASSUME bad # {} PROVE FALSE
  OBVIOUS
<1>1. bad \in SUBSET Nat
  OBVIOUS
<1>2. PICK m \in bad : \A k \in bad : m <= k
  <2> HIDE DEF bad
  <2> QED BY <1>1, LeastMember
<1>3. m \in 0 .. TopBit + 1 /\ 2 ^ m \notin Nat \ {0} /\ TopBit \in Nat
  BY <1>2, TopBitIsNat
<1>4. CASE m = 0
  BY <1>3, <1>4, PowersAssumption
<1>5. CASE m # 0
  <2>1. m - 1 \in 0 .. TopBit /\ (m - 1) + 1 = m
    BY <1>3, <1>5
  <2>2. 2 ^ (m - 1) \in Nat \ {0}
    BY <1>2, <1>3, <2>1
  <2>3. 2 ^ ((m - 1) + 1) = 2 * 2 ^ (m - 1)
    BY <2>1, PowersAssumption DEF TopBit
  <2>4. ASSUME NEW x \in Nat \ {0} PROVE 2 * x \in Nat \ {0}
    OBVIOUS
  <2> QED BY <1>3, <2>1, <2>2, <2>3, <2>4
<1> QED BY <1>4, <1>5

LEMMA PowerOfSum ==
  ASSUME NEW a \in Nat, NEW b \in Nat, a + b <= TopBit + 1
  PROVE  2 ^ (a + b) = 2 ^ a * 2 ^ b
<1> DEFINE bad == {m \in 0 .. TopBit + 1 - a : 2 ^ (a + m) # 2 ^ a * 2 ^ m}
<1>1. TopBit \in Nat
  BY TopBitIsNat
<1> SUFFICES bad = {}
  <2>1. b \in 0 .. TopBit + 1 - a
    BY <1>1
  <2> QED BY <2>1
<1> SUFFICES ASSUME bad # {} PROVE FALSE
  OBVIOUS
<1>2. bad \in SUBSET Nat
  BY <1>1
<1>3. PICK m \in bad : \A k \in bad : m <= k
  <2> HIDE DEF bad
  <2> QED BY <1>2, LeastMember
<1>4. m \in 0 .. TopBit + 1 - a /\ 2 ^ (a + m) # 2 ^ a * 2 ^ m
  BY <1>3
<1>5. 2 ^ a \in Nat
  BY <1>1, PowerIsNat
<1>6. CASE m = 0
  <2>1. a + m = a
    BY <1>6
  <2>2. ASSUME NEW x \in Nat PROVE x = x * 1
    OBVIOUS
  <2> QED BY <1>4, <1>5, <1>6, <2>1, <2>2, PowersAssumption
<1>7. CASE m # 0
  <2>1. /\ m - 1 \in 0 .. TopBit /\ (m - 1) + 1 = m
        /\ a + (m - 1) \in 0 .. TopBit /\ (a + (m - 1)) + 1 = a + m
    BY <1>1, <1>4, <1>7
  <2>2. 2 ^ (a + (m - 1)) = 2 ^ a * 2 ^ (m - 1)
    BY <1>1, <1>3, <1>4, <2>1
  <2>3. /\ 2 ^ ((a + (m - 1)) + 1) = 2 * 2 ^ (a + (m - 1))
        /\ 2 ^ ((m - 1) + 1) = 2 * 2 ^ (m - 1)
    BY <2>1, PowersAssumption DEF TopBit
  <2>4. 2 ^ (m - 1) \in Nat
    BY <1>1, <2>1, PowerIsNat
  <2>5. ASSUME NEW x \in Nat, NEW y \in Nat PROVE 2 * (x * y) = x * (2 * y)
    OBVIOUS
  <2> QED BY <1>4, <1>5, <2>1, <2>2, <2>3, <2>4, <2>5
<1> QED BY <1>6, <1>7

LEMMA PowerGrows ==
  ASSUME NEW a \in Nat, NEW b \in Nat, b <= TopBit + 1, a < b
  PROVE  2 ^ a < 2 ^ b
<1>1. TopBit \in Nat
  BY TopBitIsNat
<1>2. b - a - 1 \in 0 .. TopBit /\ b - a \in Nat /\ (b - a - 1) + 1 = b - a /\ a + (b - a) = b
  BY <1>1
<1>3. 2 ^ b = 2 ^ a * 2 ^ (b - a)
  BY <1>1, <1>2, PowerOfSum
<1>4. 2 ^ (b - a) = 2 * 2 ^ (b - a - 1)
  BY <1>2, PowersAssumption DEF TopBit
<1>5. 2 ^ a \in Nat \ {0} /\ 2 ^ (b - a - 1) \in Nat \ {0}
  BY <1>1, <1>2, PowerIsNat
<1>6. ASSUME NEW x \in Nat \ {0}, NEW y \in Nat \ {0} PROVE x < x * (2 * y)
  <2>1. x * (2 * y) = x + x + 2 * (x * (y - 1))
    BY <1>6
  <2>2. x * (y - 1) >= 0
    BY <1>6
  <2> QED BY <2>1, <2>2
<1> QED BY <1>3, <1>4, <1>5, <1>6

LEMMA EvenPower == ASSUME NEW n \in 1 .. TopBit PROVE 2 ^ n \in Nat \ {0} /\ 2 ^ n % 2 = 0
<1>1. TopBit \in Nat
  BY TopBitIsNat
<1>2. n - 1 \in 0 .. TopBit /\ (n - 1) + 1 = n
  BY <1>1
<1>3. 2 ^ n = 2 * 2 ^ (n - 1)
  BY <1>2, PowersAssumption DEF TopBit
<1>4. 2 ^ (n - 1) \in Nat /\ 2 ^ n \in Nat \ {0}
  BY <1>1, <1>2, PowerIsNat
<1>5. ASSUME NEW x \in Nat PROVE (2 * x) % 2 = 0
  OBVIOUS
<1> QED BY <1>3, <1>4, <1>5

LEMMA Powers ==
  /\ Base \in Nat \ {0}
  /\ \A k \in 0 .. MaxVarint : Base ^ k \in Nat \ {0}
  /\ Wide \in Nat \ {0} /\ Wide % 2 = 0
  /\ Narrow \in Nat \ {0} /\ Narrow % 2 = 0
<1>1. /\ TopBit \in Nat /\ WideBits \in 1 .. TopBit /\ NarrowBits \in 1 .. TopBit
      /\ PayloadBits \in Nat \ {0} /\ MaxVarint \in Nat \ {0}
  BY MaxVarintIsNat, TopBitIsNat, WireAssumption
<1>2. ASSUME NEW m \in Nat \ {0}, NEW k \in 0 .. m, NEW b \in Nat
      PROVE  b * k \in Nat /\ b * k <= b * m
  BY <1>2
<1>3. ASSUME NEW k \in 0 .. MaxVarint
      PROVE  PayloadBits * k \in 0 .. TopBit
  BY <1>1, <1>2 DEF TopBit
<1>4. ASSUME NEW k \in 0 .. MaxVarint PROVE Base ^ k \in Nat \ {0}
  <2>1. PayloadBits * k \in 0 .. TopBit + 1
    BY <1>1, <1>3
  <2>2. Base ^ k = 2 ^ (PayloadBits * k)
    BY PowersAssumption
  <2> QED BY <2>1, <2>2, PowerIsNat
<1>5. PayloadBits \in 0 .. TopBit + 1
  <2>1. 1 \in 0 .. MaxVarint /\ PayloadBits * 1 = PayloadBits
    BY <1>1
  <2> QED BY <1>1, <1>3, <2>1
<1> QED BY <1>1, <1>4, <1>5, PowerIsNat, EvenPower DEF Base, Wide, Narrow

\* What a quotient and a remainder are.
LEMMA DivMod ==
  ASSUME NEW x \in Int, NEW m \in Nat \ {0}
  PROVE  x \div m \in Int /\ x % m \in 0 .. m - 1 /\ x = m * (x \div m) + (x % m)
OBVIOUS

LEMMA DivUnique ==
  ASSUME NEW m \in Nat \ {0}, NEW q \in Int, NEW r \in 0 .. m - 1, NEW x, x = m * q + r
  PROVE  x \div m = q /\ x % m = r
<1>1. x \in Int
  OBVIOUS
<1>2. PICK d \in Int, e \in 0 .. m - 1 : d = x \div m /\ e = x % m /\ x = m * d + e
  BY <1>1, DivMod
<1>3. m * (d - q) = r - e
  BY <1>2
<1>4. ASSUME NEW y \in Int, y >= 1 PROVE m * y >= m
  <2>1. m * y = m + m * (y - 1)
    OBVIOUS
  <2>2. m * (y - 1) >= 0
    BY <1>4
  <2> QED BY <2>1, <2>2
<1>5. ~(d - q >= 1)
  BY <1>2, <1>3, <1>4
<1>6. ~(q - d >= 1)
  <2>1. m * (q - d) = e - r
    BY <1>2
  <2> QED BY <1>2, <1>4, <2>1
<1>7. d = q
  BY <1>2, <1>5, <1>6
<1>8. e = r
  BY <1>2, <1>7
<1> QED BY <1>2, <1>7, <1>8

\* Two divisions in a row.
LEMMA DivOfDiv ==
  ASSUME NEW x \in Int, NEW a \in Nat \ {0}, NEW b \in Nat \ {0}
  PROVE  x \div (b * a) = (x \div a) \div b
<1>1. PICK q \in Int, r \in 0 .. a - 1 : q = x \div a /\ x = a * q + r
  <2>1. x \div a \in Int /\ x % a \in 0 .. a - 1 /\ x = a * (x \div a) + (x % a)
    BY DivMod, Zenon
  <2> QED BY <2>1, Zenon
<1>2. PICK s \in Int, t \in 0 .. b - 1 : s = q \div b /\ q = b * s + t
  <2>1. q \div b \in Int /\ q % b \in 0 .. b - 1 /\ q = b * (q \div b) + (q % b)
    BY DivMod, Zenon
  <2> QED BY <2>1, Zenon
<1>3. x = (b * a) * s + (a * t + r)
  <2>1. x = a * (b * s + t) + r
    BY <1>1, <1>2, Zenon
  <2>2. a * (b * s + t) = (b * a) * s + a * t
    OBVIOUS
  <2> QED BY <2>1, <2>2
<1>4. a * t \in Nat /\ a * t <= a * (b - 1)
  <2>1. a * (b - 1) = a * t + a * (b - 1 - t)
    BY <1>2
  <2>2. a * (b - 1 - t) >= 0 /\ a * t >= 0
    BY <1>2
  <2> QED BY <1>2, <2>1, <2>2
<1>5. b * a \in Nat \ {0} /\ a * (b - 1) = b * a - a
  OBVIOUS
<1>6. a * t + r \in 0 .. b * a - 1
  BY <1>1, <1>4, <1>5
<1>7. x \div (b * a) = s
  BY <1>3, <1>5, <1>6, DivUnique
<1> QED BY <1>1, <1>2, <1>7

LEMMA DivSmall ==
  ASSUME NEW m \in Nat \ {0}, NEW x \in 0 .. m - 1
  PROVE  x \div m = 0 /\ x % m = x
<1>1. PICK z \in Int : z = 0
  OBVIOUS
<1>2. x = m * z + x
  BY <1>1
<1>3. x \div m = z /\ x % m = x
  BY <1>2, DivUnique
<1> QED BY <1>1, <1>3

LEMMA ModShift ==
  ASSUME NEW m \in Nat \ {0}, NEW x \in 0 .. m - 1
  PROVE  (x + m) % m = x /\ (x - m) % m = x
<1>1. PICK y \in Int, z \in Int : y = 1 /\ z = -1
  OBVIOUS
<1>2. x + m = m * y + x /\ x - m = m * z + x
  BY <1>1
<1> QED BY <1>2, DivUnique

LEMMA Multiple ==
  ASSUME NEW m \in Nat \ {0}, NEW w \in Nat \ {0}, w % m = 0
  PROVE  m <= w /\ \E d \in Nat : w = m * d
<1>1. PICK d \in Int : w = m * d + (w % m)
  <2>1. w \div m \in Int /\ w = m * (w \div m) + (w % m)
    BY DivMod
  <2> QED BY <2>1, Zenon
<1>2. w = m * d
  BY <1>1
<1>3. d >= 1
  <2> SUFFICES ASSUME d <= 0 PROVE FALSE
    BY <1>1
  <2>1. PICK e \in Nat : e = -d
    OBVIOUS
  <2>2. m * e >= 0 /\ d = -e
    BY <2>1
  <2>3. w = -(m * e)
    BY <1>2, <2>2
  <2> QED BY <2>2, <2>3
<1>4. m * d = m + m * (d - 1) /\ m * (d - 1) >= 0
  BY <1>3
<1> QED BY <1>2, <1>3, <1>4

LEMMA ModMultiple ==
  ASSUME NEW m \in Nat \ {0}, NEW w \in Nat \ {0}, w % m = 0, NEW u \in Int, -m <= u, u < 0
  PROVE  (u + w) % m = u + m
<1>1. PICK d \in Nat : w = m * d
  BY Multiple
<1>2. PICK q \in Int, r \in 0 .. m - 1 : q = d - 1 /\ r = u + m
  OBVIOUS
<1>3. PICK y \in Int : y = u + w
  OBVIOUS
<1>4. y = m * q + r
  BY <1>1, <1>2, <1>3
<1>5. y % m = r
  BY <1>4, DivUnique
<1> QED BY <1>2, <1>3, <1>5

LEMMA ModNear ==
  ASSUME NEW n \in Nat \ {0}, NEW u \in Int, -n <= u, u < n
  PROVE  u % n = IF u >= 0 THEN u ELSE u + n
<1>1. CASE u >= 0
  <2>1. u \in 0 .. n - 1
    BY <1>1
  <2>2. u % n = u
    BY <2>1, DivSmall, Zenon
  <2> QED BY <1>1, <2>2
<1>2. CASE ~(u >= 0)
  <2>1. PICK y \in 0 .. n - 1 : y = u + n
    BY <1>2
  <2>2. u = y - n
    BY <2>1
  <2>3. u % n = y
    BY <2>2, ModShift
  <2> QED BY <1>2, <2>1, <2>3
<1> QED BY <1>1, <1>2

\* How a further digit takes from x what it stands for.
LEMMA NextDigit ==
  ASSUME NEW x \in Int, NEW a \in Nat \ {0}, NEW b \in Nat \ {0}
  PROVE  ((x \div a) % b) * a + (x - a * (x \div a)) = x - (b * a) * (x \div (b * a))
<1>1. PICK y \in Int : y = x \div a
  BY DivMod
<1>2. PICK d \in Int, e \in Int : d = y \div b /\ e = y % b /\ y = b * d + e
  <2>1. y \div b \in Int /\ y % b \in Int /\ y = b * (y \div b) + (y % b)
    BY DivMod
  <2> QED BY <2>1, Zenon
<1>3. x \div (b * a) = d
  BY <1>1, <1>2, DivOfDiv
<1>4. y = b * d + e
  BY <1>2
<1>5. e * a + (x - a * y) = x - (b * a) * d
  BY <1>4
<1> QED BY <1>1, <1>2, <1>3, <1>5

\* Powers of Base go up by Base and cover a uint64; a uint64 holds whole uint32s.
LEMMA BasePowers ==
  /\ Base ^ 0 = 1
  /\ \A k \in 0 .. MaxVarint - 1 : Base ^ (k + 1) = Base * Base ^ k
  /\ Wide <= Base ^ MaxVarint
  /\ Wide % Narrow = 0
<1>1. /\ TopBit \in Nat /\ WideBits \in 1 .. TopBit /\ NarrowBits \in 1 .. WideBits
      /\ PayloadBits \in Nat \ {0} /\ MaxVarint \in Nat \ {0}
  BY MaxVarintIsNat, TopBitIsNat, WireAssumption
<1>2. ASSUME NEW m \in Nat \ {0}, NEW b \in Nat, NEW k \in 0 .. m - 1
      PROVE  /\ b * k \in Nat /\ b + b * k = b * (k + 1) /\ b * (k + 1) <= b * m
  <2>1. b * m = b * (k + 1) + b * (m - 1 - k)
    OBVIOUS
  <2>2. b * (m - 1 - k) >= 0 /\ b * k >= 0
    BY <1>2
  <2> QED BY <2>1, <2>2
<1>3. Base ^ 0 = 1
  <2>1. 0 \in 0 .. MaxVarint /\ PayloadBits * 0 = 0
    BY <1>1
  <2> QED BY <2>1, PowersAssumption
<1>4. ASSUME NEW k \in 0 .. MaxVarint - 1 PROVE Base ^ (k + 1) = Base * Base ^ k
  <2>1. /\ PayloadBits * k \in Nat /\ PayloadBits + PayloadBits * k = PayloadBits * (k + 1)
        /\ PayloadBits * (k + 1) <= TopBit
    BY <1>1, <1>2 DEF TopBit
  <2>2. 2 ^ (PayloadBits * (k + 1)) = 2 ^ PayloadBits * 2 ^ (PayloadBits * k)
    BY <1>1, <2>1, PowerOfSum
  <2>3. k \in 0 .. MaxVarint /\ k + 1 \in 0 .. MaxVarint
    BY <1>1
  <2> QED BY <2>2, <2>3, PowersAssumption DEF Base
<1>5. Wide <= Base ^ MaxVarint
  <2>1. Base ^ MaxVarint = 2 ^ TopBit
    BY <1>1, PowersAssumption DEF TopBit
  <2>2. 2 ^ TopBit \in Nat
    BY <1>1, PowerIsNat
  <2>3. CASE WideBits = TopBit
    BY <2>1, <2>2, <2>3 DEF Wide
  <2>4. CASE WideBits < TopBit
    <3>1. 2 ^ WideBits < 2 ^ TopBit
      BY <1>1, <2>4, PowerGrows
    <3>2. Wide \in Nat /\ Wide = 2 ^ WideBits
      BY Powers DEF Wide
    <3> QED BY <2>1, <2>2, <3>1, <3>2
  <2> QED BY <1>1, <2>3, <2>4
<1>6. Wide % Narrow = 0
  <2>1. WideBits - NarrowBits \in 0 .. TopBit + 1 /\ NarrowBits \in Nat
        /\ NarrowBits + (WideBits - NarrowBits) = WideBits /\ WideBits <= TopBit + 1
    BY <1>1
  <2>2. Wide = Narrow * 2 ^ (WideBits - NarrowBits)
    BY <2>1, PowerOfSum DEF Wide, Narrow
  <2>3. 2 ^ (WideBits - NarrowBits) \in Nat
    BY <2>1, PowerIsNat
  <2>4. ASSUME NEW m \in Nat \ {0}, NEW k \in Nat PROVE (m * k) % m = 0
    <3>1. m * k = m * k + 0 /\ 0 \in 0 .. m - 1
      OBVIOUS
    <3> QED BY <3>1, DivUnique
  <2> QED BY <2>2, <2>3, <2>4, Powers
<1> QED BY <1>3, <1>4, <1>5, <1>6

(***************************************************************************)
(* Varints: what Marshal writes is what Unmarshal reads                    *)
(***************************************************************************)

\* The highest digit of x in base Base, counted from 0; and the digits.
LastDigit(x) ==
  CHOOSE k \in 0 .. MaxVarint - 1 : x < Base ^ (k + 1) /\ (k > 0 => x >= Base ^ k)

Digit(x, k) == (x \div Base ^ k) % Base

LEMMA LastDigitHere ==
  ASSUME NEW x \in 0 .. Wide - 1
  PROVE  /\ LastDigit(x) \in 0 .. MaxVarint - 1
         /\ x < Base ^ (LastDigit(x) + 1)
         /\ LastDigit(x) > 0 => x >= Base ^ LastDigit(x)
<1> DEFINE enough == {k \in 0 .. MaxVarint - 1 : x < Base ^ (k + 1)}
<1>1. MaxVarint \in Nat \ {0}
  BY MaxVarintIsNat
<1>2. enough # {} /\ enough \in SUBSET Nat
  <2>1. x < Base ^ MaxVarint
    <3>1. Wide \in Nat /\ Wide <= Base ^ MaxVarint
      BY Powers, BasePowers
    <3>2. Base ^ MaxVarint \in Nat
      BY <1>1, Powers
    <3> HIDE DEF Wide
    <3> QED BY <3>1, <3>2
  <2>2. MaxVarint - 1 \in 0 .. MaxVarint - 1 /\ (MaxVarint - 1) + 1 = MaxVarint
    BY <1>1
  <2>3. MaxVarint - 1 \in enough
    BY <2>1, <2>2
  <2>4. enough \in SUBSET Nat
    BY <1>1
  <2> HIDE DEF enough
  <2> QED BY <2>3, <2>4
<1>3. PICK k \in enough : \A m \in enough : k <= m
  <2> HIDE DEF enough
  <2> QED BY <1>2, LeastMember
<1>4. k \in 0 .. MaxVarint - 1 /\ x < Base ^ (k + 1)
  BY <1>3
<1>5. ASSUME k > 0 PROVE x >= Base ^ k
  <2>1. k - 1 \in 0 .. MaxVarint - 1 /\ (k - 1) + 1 = k /\ k \in 0 .. MaxVarint
    BY <1>1, <1>4, <1>5
  <2>2. k - 1 \notin enough
    BY <1>3, <1>4
  <2>3. ~(x < Base ^ k)
    BY <2>1, <2>2
  <2>4. Base ^ k \in Nat /\ x \in Int
    BY <2>1, Powers
  <2> QED BY <2>3, <2>4
<1>6. \E d \in 0 .. MaxVarint - 1 : x < Base ^ (d + 1) /\ (d > 0 => x >= Base ^ d)
  BY <1>4, <1>5
<1> QED BY <1>6 DEF LastDigit

LEMMA DigitFits ==
  ASSUME NEW x \in Nat, NEW k \in 0 .. MaxVarint
  PROVE  Digit(x, k) \in 0 .. Base - 1
<1>1. Base ^ k \in Nat \ {0} /\ Base \in Nat \ {0}
  BY Powers
<1>2. x \div Base ^ k \in Int
  BY <1>1, DivMod
<1> QED BY <1>1, <1>2, DivMod DEF Digit

LEMMA VarintWritten ==
  ASSUME NEW x \in 0 .. Wide - 1
  PROVE  /\ Len(VarintBytes(x)) = LastDigit(x) + 1
         /\ \A i \in 1 .. LastDigit(x) + 1 :
              VarintBytes(x)[i] = Digit(x, i - 1) + (IF i <= LastDigit(x) THEN Base ELSE 0)
         /\ VarintBytes(x) \in Seq(Bytes)
<1> DEFINE top   == LastDigit(x)
           bytes == [i \in 1 .. top + 1 |-> Digit(x, i - 1) + (IF i <= top THEN Base ELSE 0)]
<1>1. VarintBytes(x) = bytes
  BY DEF VarintBytes, LastDigit, Digit
<1>2. top \in 0 .. MaxVarint - 1 /\ MaxVarint \in Nat /\ Base \in Nat
  BY LastDigitHere, MaxVarintIsNat, Powers
<1> HIDE DEF top
<1>3. ASSUME NEW i \in 1 .. top + 1 PROVE bytes[i] \in Bytes
  <2>1. i - 1 \in 0 .. MaxVarint /\ x \in Nat
    BY <1>2, Powers
  <2>2. Digit(x, i - 1) \in 0 .. Base - 1
    BY <2>1, DigitFits
  <2> HIDE DEF Base
  <2> QED BY <1>2, <2>2 DEF Bytes
<1>4. bytes \in Seq(Bytes) /\ Len(bytes) = top + 1
  <2> HIDE DEF bytes
  <2>1. bytes \in [1 .. top + 1 -> Bytes]
    BY <1>3 DEF bytes
  <2> QED BY <1>2, <2>1
<1> QED BY <1>1, <1>4 DEF top

\* The bytes stand in the input, after byte p, as far as the limit lets one see.
WrittenAt(p, bytes, limit) ==
  \A i \in 1 .. Len(bytes) : p + i <= limit => input[p + i] = bytes[i]

\* Each byte gives back its digit and says whether it is the last.
LEMMA ByteGivesDigit ==
  ASSUME NEW x \in 0 .. Wide - 1, NEW p \in Nat, NEW limit \in Nat,
         WrittenAt(p, VarintBytes(x), limit),
         NEW i \in 1 .. LastDigit(x) + 1, p + i <= limit
  PROVE  /\ input[p + i] % Base = Digit(x, i - 1)
         /\ input[p + i] < Base <=> i = LastDigit(x) + 1
         /\ input[p + i] \in Nat
<1>1. /\ LastDigit(x) \in 0 .. MaxVarint - 1 /\ MaxVarint \in Nat
      /\ i \in Int /\ i - 1 \in 0 .. MaxVarint /\ x \in Nat
  BY LastDigitHere, MaxVarintIsNat, Powers
<1>2. Digit(x, i - 1) \in 0 .. Base - 1 /\ Base \in Nat \ {0}
  BY <1>1, DigitFits, Powers
<1>3. input[p + i] = Digit(x, i - 1) + (IF i <= LastDigit(x) THEN Base ELSE 0)
  BY VarintWritten DEF WrittenAt
<1> HIDE DEF Base
<1>4. ASSUME NEW b \in Nat \ {0}, NEW d \in 0 .. b - 1
      PROVE  /\ (d + b) % b = d /\ d % b = d
             /\ ~(d + b < b) /\ d + 0 = d /\ d < b
  BY ModShift, DivSmall
<1>5. PICK b, d : /\ b = Base /\ d = Digit(x, i - 1)
                  /\ b \in Nat \ {0} /\ d \in 0 .. b - 1
  BY <1>2
<1>6. /\ (d + b) % b = d /\ d % b = d
      /\ ~(d + b < b) /\ d + 0 = d /\ d < b
  BY <1>4, <1>5, Zenon
<1>7. d + b \in Nat /\ d \in Nat
  BY <1>5
<1>8. CASE i <= LastDigit(x)
  <2>1. input[p + i] = d + b /\ i # LastDigit(x) + 1
    BY <1>1, <1>3, <1>5, <1>8
  <2> QED BY <1>5, <1>6, <1>7, <2>1
<1>9. CASE ~(i <= LastDigit(x))
  <2>1. input[p + i] = d + 0 /\ i = LastDigit(x) + 1
    BY <1>1, <1>3, <1>5, <1>9
  <2> QED BY <1>5, <1>6, <1>7, <2>1
<1> QED BY <1>8, <1>9

\* The varint ends behind its last byte and nowhere else, if that byte is there.
LEMMA VarintEndsOnce ==
  ASSUME NEW x \in 0 .. Wide - 1, NEW p \in Nat, NEW limit \in Nat,
         WrittenAt(p, VarintBytes(x), limit)
  PROVE  VarintEnds(p, limit) = {p + LastDigit(x) + 1} \cap 1 .. limit
<1> DEFINE t == LastDigit(x)
           q == p + t + 1
<1>1. t \in 0 .. MaxVarint - 1 /\ MaxVarint \in Nat /\ Base \in Nat
  BY LastDigitHere, MaxVarintIsNat, Powers
<1>2. ASSUME NEW r \in p + 1 .. q, r <= limit
      PROVE  (input[r] < Base <=> r = q) /\ input[r] \in Nat
  <2>1. r - p \in 1 .. t + 1 /\ p + (r - p) = r
    BY <1>1
  <2>2. (input[p + (r - p)] < Base <=> r - p = t + 1) /\ input[p + (r - p)] \in Nat
    BY <1>2, <2>1, ByteGivesDigit
  <2> QED BY <1>1, <2>1, <2>2
<1> HIDE DEF t, Base
<1>3. ASSUME q <= limit PROVE q \in VarintEnds(p, limit)
  <2>1. \A r \in p + 1 .. q - 1 : input[r] >= Base
    <3> TAKE r \in p + 1 .. q - 1
    <3>1. r \in p + 1 .. q /\ r <= limit /\ r # q
      BY <1>1, <1>3
    <3> QED BY <1>1, <1>2, <3>1
  <2>2. q \in p + 1 .. q /\ q \in p + 1 .. limit /\ q - p <= MaxVarint
    BY <1>1, <1>3
  <2>3. input[q] < Base
    BY <1>2, <1>3, <2>2
  <2> QED BY <2>1, <2>2, <2>3 DEF VarintEnds
<1>4. ASSUME NEW r \in VarintEnds(p, limit) PROVE r = q /\ q <= limit
  <2>1. r \in p + 1 .. limit /\ input[r] < Base /\ \A s \in p + 1 .. r - 1 : input[s] >= Base
    BY DEF VarintEnds
  <2>2. CASE r <= q
    <3>1. r \in p + 1 .. q /\ r <= limit
      BY <1>1, <2>1, <2>2
    <3> QED BY <1>2, <2>1, <3>1
  <2>3. CASE r > q
    <3>1. q \in p + 1 .. r - 1 /\ q \in p + 1 .. q /\ q <= limit
      BY <1>1, <2>1, <2>3
    <3>2. input[q] >= Base /\ input[q] < Base /\ input[q] \in Nat
      BY <1>2, <2>1, <3>1
    <3> QED BY <1>1, <3>2
  <2> QED BY <1>1, <2>1, <2>2, <2>3
<1>5. q \in Nat \ {0}
  BY <1>1
<1> QED BY <1>3, <1>4, <1>5 DEF t

\* The first k digits add up to what x leaves when divided by Base ^ k.
LEMMA DigitsAddUp ==
  ASSUME NEW x \in 0 .. Wide - 1, NEW p \in Nat, NEW place,
         \A i \in 1 .. LastDigit(x) + 1 : place[p + i] = Digit(x, i - 1) * Base ^ (i - 1),
         NEW n \in 0 .. LastDigit(x) + 1
  PROVE  SumFunctionOnSet(place, p + 1 .. p + n) = x - Base ^ n * (x \div Base ^ n)
<1> DEFINE S(k) == SumFunctionOnSet(place, p + 1 .. p + k)
           bad  == {k \in 0 .. LastDigit(x) + 1 : S(k) # x - Base ^ k * (x \div Base ^ k)}
<1>1. /\ LastDigit(x) \in 0 .. MaxVarint - 1 /\ MaxVarint \in Nat \ {0}
      /\ x \in Nat /\ Base \in Nat \ {0}
  BY LastDigitHere, MaxVarintIsNat, Powers
<1> SUFFICES bad = {}
  OBVIOUS
<1> SUFFICES ASSUME bad # {} PROVE FALSE
  OBVIOUS
<1>2. bad \in SUBSET Nat
  BY <1>1
<1>3. PICK k \in bad : \A m \in bad : k <= m
  <2> HIDE DEF bad
  <2> QED BY <1>2, LeastMember
<1>4. k \in 0 .. LastDigit(x) + 1 /\ S(k) # x - Base ^ k * (x \div Base ^ k)
  BY <1>3
<1>5. CASE k = 0
  <2>1. p + 1 .. p + k = {}
    BY <1>5
  <2>2. S(k) = 0
    BY <2>1, SumEmpty
  <2>3. ASSUME NEW y \in Nat PROVE y - 1 * (y \div 1) = 0
    <3>1. y = 1 * y + 0 /\ 0 \in 0 .. 1 - 1
      OBVIOUS
    <3>2. y \div 1 = y
      BY <3>1, DivUnique
    <3> QED BY <3>2
  <2> QED BY <1>1, <1>4, <1>5, <2>2, <2>3, BasePowers
<1>6. CASE k # 0
  <2> DEFINE j == k - 1
             B == Base
             P == Base ^ j
             y == x \div P
  <2>1. j \in 0 .. MaxVarint - 1 /\ j + 1 = k /\ j \in 0 .. MaxVarint /\ j \in 0 .. LastDigit(x) + 1
        /\ k \in 1 .. LastDigit(x) + 1
    <3>1. LastDigit(x) \in Int /\ LastDigit(x) + 1 <= MaxVarint /\ MaxVarint \in Int
      BY <1>1
    <3>2. k \in Int /\ 1 <= k /\ k <= LastDigit(x) + 1
      BY <1>4, <1>6, <3>1
    <3> QED BY <3>1, <3>2
  <2>2. P \in Nat \ {0} /\ B \in Nat \ {0} /\ Base ^ k = B * P
    BY <2>1, Powers, BasePowers
  <2>3. S(j) = x - P * y
    <3>1. j \notin bad
      BY <1>1, <1>3, <1>4, <2>1
    <3> QED BY <2>1, <3>1
  <2>4. place[p + k] = (y % B) * P
    <3>1. place[p + k] = Digit(x, k - 1) * Base ^ (k - 1)
      BY <2>1
    <3> QED BY <3>1 DEF Digit
  <2>5. S(k) = place[p + k] + S(j)
    <3> DEFINE T == p + 1 .. p + k
    <3>1. /\ p + 1 \in Int /\ p + k \in Int /\ p + k \in T
          /\ T \ {p + k} = p + 1 .. p + j
      <4>1. k \in Int /\ j \in Int /\ k = j + 1 /\ j >= 0
        BY <1>1, <2>1
      <4> HIDE DEF j
      <4> QED BY <4>1
    <3>2. \A r \in T : place[r] \in Int
      <4> TAKE r \in T
      <4>1. r - p \in 1 .. LastDigit(x) + 1 /\ p + (r - p) = r /\ r - p - 1 \in 0 .. MaxVarint
        <5>1. LastDigit(x) \in Int /\ LastDigit(x) + 1 <= MaxVarint /\ MaxVarint \in Int
          BY <1>1
        <5>2. k \in Int /\ k <= LastDigit(x) + 1 /\ r \in p + 1 .. p + k
          BY <2>1
        <5> QED BY <5>1, <5>2
      <4>2. place[p + (r - p)] = Digit(x, r - p - 1) * Base ^ (r - p - 1)
        BY <4>1
      <4>3. Digit(x, r - p - 1) \in Int /\ Base ^ (r - p - 1) \in Int
        BY <1>1, <4>1, DigitFits, Powers
      <4>4. ASSUME NEW u \in Int, NEW v \in Int PROVE u * v \in Int
        OBVIOUS
      <4> QED BY <4>1, <4>2, <4>3, <4>4
    <3> HIDE DEF T
    <3>3. SumFunctionOnSet(place, T) = place[p + k] + SumFunctionOnSet(place, T \ {p + k})
      <4>1. IsFiniteSet(T)
        BY <3>1, FS_Interval DEF T
      <4> QED BY <3>1, <3>2, <4>1, SumRemove
    <3> QED BY <3>1, <3>3 DEF T
  <2> HIDE DEF B, P
  <2>6. (y % B) * P + (x - P * y) = x - (B * P) * (x \div (B * P))
    <3>1. x \in Int /\ P \in Nat \ {0} /\ B \in Nat \ {0}
      BY <1>1, <2>2
    <3> QED BY <3>1, NextDigit, Zenon
  <2> HIDE DEF y, S
  <2>7. S(k) = x - (B * P) * (x \div (B * P))
    BY <2>3, <2>4, <2>5, <2>6
  <2> QED BY <1>4, <2>2, <2>7
<1> QED BY <1>5, <1>6

\* A number up to a uint64 that Marshal writes as a varint is read back: Unmarshal
\* finds the end of the varint there and nowhere else, and gets the number again; if the
\* limit cuts the varint off, it finds none.
THEOREM VarintReadsBack ==
  ASSUME NEW x \in 0 .. Wide - 1, NEW p \in Nat, NEW limit \in Nat,
         WrittenAt(p, VarintBytes(x), limit)
  PROVE  LET end == p + Len(VarintBytes(x))
         IN /\ VarintEnds(p, limit) = IF end <= limit THEN {end} ELSE {}
            /\ end <= limit => Varint(p, end) = x
<1> DEFINE t == LastDigit(x)
           q == p + t + 1
           place == [r \in p + 1 .. q |-> (input[r] % Base) * Base ^ (r - p - 1)]
<1>1. /\ t \in 0 .. MaxVarint - 1 /\ MaxVarint \in Nat /\ x \in Nat /\ Wide \in Nat \ {0}
      /\ Len(VarintBytes(x)) = t + 1 /\ p + (t + 1) = q
  BY LastDigitHere, VarintWritten, MaxVarintIsNat, Powers
<1>2. VarintEnds(p, limit) = IF q <= limit THEN {q} ELSE {}
  <2>1. VarintEnds(p, limit) = {q} \cap 1 .. limit /\ q \in Nat \ {0}
    BY <1>1, VarintEndsOnce
  <2> HIDE DEF t, q
  <2> QED BY <2>1
<1> SUFFICES ASSUME q <= limit PROVE Varint(p, q) = x
  BY <1>1, <1>2
<1>3. \A i \in 1 .. t + 1 : place[p + i] = Digit(x, i - 1) * Base ^ (i - 1)
  <2> TAKE i \in 1 .. t + 1
  <2>1. p + i \in p + 1 .. q /\ p + i - p - 1 = i - 1
    BY <1>1
  <2>2. input[p + i] % Base = Digit(x, i - 1)
    <3>1. p + i <= limit /\ i \in 1 .. LastDigit(x) + 1
      BY <1>1
    <3> QED BY <3>1, ByteGivesDigit
  <2> QED BY <2>1, <2>2
<1>4. t + 1 \in 0 .. t + 1 /\ t + 1 \in 0 .. MaxVarint
  BY <1>1
<1>5. SumFunctionOnSet(place, p + 1 .. q) = x - Base ^ (t + 1) * (x \div Base ^ (t + 1))
  <2> HIDE DEF place
  <2>1. SumFunctionOnSet(place, p + 1 .. p + (t + 1)) = x - Base ^ (t + 1) * (x \div Base ^ (t + 1))
    BY <1>3, <1>4, DigitsAddUp
  <2> QED BY <1>1, <2>1
<1>6. x \div Base ^ (t + 1) = 0 /\ Base ^ (t + 1) \in Nat
  <2> DEFINE m == Base ^ (t + 1)
  <2>1. m \in Nat \ {0} /\ x < m
    BY <1>4, LastDigitHere, Powers
  <2> HIDE DEF m
  <2>2. x \in 0 .. m - 1
    BY <1>1, <2>1
  <2>3. x \div m = 0
    BY <2>1, <2>2, DivSmall, Zenon
  <2> QED BY <2>1, <2>3 DEF m
<1>7. SumFunctionOnSet(place, p + 1 .. q) = x
  <2>1. ASSUME NEW m \in Nat PROVE x - m * 0 = x
    BY <1>1
  <2> QED BY <1>5, <1>6, <2>1
<1>8. x % Wide = x
  BY <1>1, DivSmall, Zenon
<1>9. Varint(p, q) = x
  BY <1>7, <1>8 DEF Varint
<1> QED BY <1>9

\* The bits that BitLength counts.
LEMMA BitLengthHere ==
  ASSUME NEW x \in 0 .. Wide - 1
  PROVE  /\ BitLength(x) \in 0 .. WideBits
         /\ x < 2 ^ BitLength(x)
         /\ BitLength(x) > 0 => x >= 2 ^ (BitLength(x) - 1)
<1> DEFINE enough == {k \in 0 .. WideBits : x < 2 ^ k}
<1>1. WideBits \in Nat \ {0} /\ WideBits <= TopBit + 1 /\ TopBit \in Nat
  BY TopBitIsNat, WireAssumption
<1>2. enough # {} /\ enough \in SUBSET Nat
  <2>1. WideBits \in 0 .. WideBits /\ x < 2 ^ WideBits
    <3>1. x < Wide
      BY Powers
    <3> QED BY <1>1, <3>1 DEF Wide
  <2>2. WideBits \in enough
    BY <2>1
  <2>3. enough \in SUBSET Nat
    BY <1>1
  <2> HIDE DEF enough
  <2> QED BY <2>2, <2>3
<1>3. PICK k \in enough : \A m \in enough : k <= m
  <2> HIDE DEF enough
  <2> QED BY <1>2, LeastMember
<1>4. k \in 0 .. WideBits /\ x < 2 ^ k
  BY <1>3
<1>5. ASSUME k > 0 PROVE x >= 2 ^ (k - 1)
  <2>1. k - 1 \in 0 .. WideBits /\ k - 1 \in 0 .. TopBit + 1 /\ ~(k <= k - 1)
    BY <1>1, <1>4, <1>5
  <2>2. ~(x < 2 ^ (k - 1))
    BY <1>3, <2>1
  <2>3. 2 ^ (k - 1) \in Nat /\ x \in Int
    BY <2>1, PowerIsNat, Powers
  <2> QED BY <2>2, <2>3
<1>6. \E d \in 0 .. WideBits : x < 2 ^ d /\ (d > 0 => x >= 2 ^ (d - 1))
  BY <1>4, <1>5
<1> QED BY <1>6 DEF BitLength

LEMMA MaxOfTwo ==
  ASSUME NEW a \in Int, NEW b \in Int
  PROVE  Max({a, b}) = IF a >= b THEN a ELSE b
<1>1. CASE a >= b
  <2>1. \A x \in {a, b} : a >= x
    BY <1>1
  <2>2. \A x \in {a, b} : (\A y \in {a, b} : x >= y) => x = a
    BY <1>1
  <2> QED BY <1>1, <2>1, <2>2 DEF Max
<1>2. CASE ~(a >= b)
  <2>1. \A x \in {a, b} : b >= x
    BY <1>2
  <2>2. \A x \in {a, b} : (\A y \in {a, b} : x >= y) => x = b
    BY <1>2
  <2> QED BY <1>2, <2>1, <2>2 DEF Max
<1> QED BY <1>1, <1>2

\* A power of two that is below another one has the smaller exponent.
LEMMA PowerOrder ==
  ASSUME NEW a \in 0 .. TopBit + 1, NEW b \in 0 .. TopBit + 1,
         NEW x \in Int, 2 ^ a <= x, x < 2 ^ b
  PROVE  a < b
<1>1. a \in Nat /\ b \in Nat /\ TopBit \in Nat /\ a <= TopBit + 1
  BY TopBitIsNat
<1>2. 2 ^ a \in Int /\ 2 ^ b \in Int
  BY PowerIsNat
<1>3. CASE b < a
  <2>1. 2 ^ b < 2 ^ a
    BY <1>1, <1>3, PowerGrows
  <2> QED BY <1>2, <2>1
<1>4. CASE a = b
  BY <1>2, <1>4
<1> QED BY <1>1, <1>3, <1>4

\* sov announces exactly the bytes that encodeVarint writes, so that Marshal, which
\* fills from the end the bytes that Size counted, neither runs out of them nor leaves
\* any over.
THEOREM SovCountsBytes ==
  ASSUME NEW x \in 0 .. Wide - 1
  PROVE  Sov(x) = Len(VarintBytes(x))
<1> DEFINE t == LastDigit(x)
           k == BitLength(x)
           b == PayloadBits
           m == Max({1, k})
<1>1. /\ b \in Nat \ {0} /\ MaxVarint \in Nat /\ WideBits \in Nat /\ TopBit \in Nat
      /\ WideBits <= TopBit /\ TopBit = b * MaxVarint
  BY WireAssumption, MaxVarintIsNat, TopBitIsNat DEF TopBit
<1>2. /\ t \in 0 .. MaxVarint - 1 /\ x < Base ^ (t + 1) /\ (t > 0 => x >= Base ^ t)
      /\ k \in 0 .. WideBits /\ x < 2 ^ k /\ (k > 0 => x >= 2 ^ (k - 1)) /\ x \in Int
  BY LastDigitHere, BitLengthHere, Powers
<1>3. Base ^ (t + 1) = 2 ^ (b * (t + 1)) /\ Base ^ t = 2 ^ (b * t)
  <2>1. t + 1 \in 0 .. MaxVarint /\ t \in 0 .. MaxVarint
    BY <1>1, <1>2
  <2> QED BY <2>1, PowersAssumption
<1> HIDE DEF t, k, b, m
<1>4. b * t \in 0 .. TopBit + 1 /\ b * (t + 1) \in 1 .. TopBit + 1 /\ b * (t + 1) = b * t + b
  <2>1. b * MaxVarint = b * (t + 1) + b * (MaxVarint - 1 - t)
    BY <1>1, <1>2
  <2>2. b * (MaxVarint - 1 - t) >= 0 /\ b * t >= 0
    BY <1>1, <1>2
  <2>3. b * (t + 1) = b * t + b
    BY <1>1, <1>2
  <2> QED BY <1>1, <1>2, <2>1, <2>2, <2>3
<1>5. k <= b * (t + 1)
  <2>1. CASE k > 0
    <3>1. k - 1 \in 0 .. TopBit + 1 /\ b * (t + 1) \in 0 .. TopBit + 1
      BY <1>1, <1>2, <1>4, <2>1
    <3>2. k - 1 < b * (t + 1)
      BY <1>2, <1>3, <2>1, <3>1, PowerOrder
    <3> QED BY <1>2, <1>4, <3>1, <3>2
  <2> QED BY <1>2, <1>4, <2>1
<1>6. t > 0 => b * t < k
  <2>1. k \in 0 .. TopBit + 1
    BY <1>1, <1>2
  <2> QED BY <1>2, <1>3, <1>4, <2>1, PowerOrder
<1>7. m \in Int /\ b * t < m /\ m <= b * t + b
  <2>1. m = IF 1 >= k THEN 1 ELSE k
    BY <1>2, MaxOfTwo DEF m
  <2>2. t = 0 => b * t = 0
    BY <1>1
  <2> QED BY <1>1, <1>2, <1>4, <1>5, <1>6, <2>1, <2>2
<1>8. (m + b - 1) \div b = t + 1
  <2> DEFINE q == t + 1
             r == m - b * t - 1
  <2>1. q \in Int /\ r \in 0 .. b - 1 /\ m + b - 1 = b * q + r
    BY <1>1, <1>2, <1>4, <1>7
  <2> HIDE DEF q, r
  <2>2. (m + b - 1) \div b = q
    BY <1>1, <2>1, DivUnique
  <2> QED BY <2>2 DEF q
<1>9. Sov(x) = (m + b - 1) \div b
  BY DEF Sov, m, b, k
<1> QED BY <1>8, <1>9, VarintWritten DEF t

(***************************************************************************)
(* Fields: what Marshal writes is what Unmarshal reads                     *)
(***************************************************************************)

\* What a field holds survives its way over a uint64.
LEMMA HeldAsSent ==
  ASSUME NEW type \in Numbers, NEW v \in Holds(type)
  PROVE  AsUint64(v) \in 0 .. Wide - 1 /\ Held(type, AsUint64(v)) = v
<1> DEFINE w == Wide
           m == Narrow
           x == v % w
<1>1. w \in Nat \ {0} /\ w % 2 = 0 /\ m \in Nat \ {0} /\ m % 2 = 0 /\ w % m = 0
  BY Powers, BasePowers
<1>2. Holds(type) = CASE type = "uint64" -> 0 .. w - 1
                      [] type = "int64"  -> -(w \div 2) .. w - 1 - (w \div 2)
                      [] type = "uint32" -> 0 .. m - 1
                      [] type = "enum"   -> -(m \div 2) .. m - 1 - (m \div 2)
                      [] type = "bool"   -> {0, 1}
  BY DEF Holds
<1>3. AsUint64(v) = x
  BY DEF AsUint64
<1>4. Held(type, x) = CASE type = "uint64" -> x
                        [] type = "int64"  -> Signed(x, w)
                        [] type = "uint32" -> x % m
                        [] type = "enum"   -> Signed(x % m, m)
                        [] type = "bool"   -> IF x = 0 THEN 0 ELSE 1
  BY DEF Held
<1>5. type \in {"uint64", "int64", "uint32", "enum", "bool"}
  BY DEF Numbers
<1> HIDE DEF w, m
<1>6. m <= w /\ w >= 2
  BY <1>1, Multiple
\* A number up to Wide \div 2 in either direction: as it is, or moved up by Wide.
<1>7. ASSUME NEW n \in Nat \ {0}, n % 2 = 0,
             NEW u \in -(n \div 2) .. n - 1 - (n \div 2)
      PROVE  LET y == IF u >= 0 THEN u ELSE u + n IN y \in 0 .. n - 1 /\ Signed(y, n) = u
  BY <1>7 DEF Signed
<1>8. v \in Int /\ -w <= v /\ v < w
  <2>1. ASSUME NEW n \in Nat \ {0} PROVE n \div 2 \in Nat /\ n \div 2 <= n
    OBVIOUS
  <2> DEFINE hw == w \div 2
             hm == m \div 2
  <2>2. hw \in Nat /\ hw <= w /\ hm \in Nat /\ hm <= m /\ w \in Nat \ {0} /\ m \in Nat \ {0}
    BY <1>1, <2>1
  <2>3. \/ v \in 0 .. w - 1 \/ v \in -hw .. w - 1 - hw \/ v \in 0 .. m - 1
        \/ v \in -hm .. m - 1 - hm \/ v \in {0, 1}
    BY <1>2, <1>5, Zenon
  <2> HIDE DEF hw, hm
  <2> QED BY <1>6, <2>2, <2>3
<1>9. x = (IF v >= 0 THEN v ELSE v + w) /\ x \in 0 .. w - 1
  <2>1. x = IF v >= 0 THEN v ELSE v + w
    BY <1>1, <1>8, ModNear
  <2> HIDE DEF x
  <2> QED BY <1>1, <1>8, <2>1
<1> HIDE DEF x
<1>10. Held(type, x) = v
  <2>1. CASE type = "uint64"
    BY <1>1, <1>2, <1>4, <1>9, <2>1
  <2>2. CASE type = "int64"
    BY <1>1, <1>2, <1>4, <1>7, <1>9, <2>2
  <2>3. CASE type = "uint32"
    <3>1. v \in 0 .. m - 1 /\ x = v
      BY <1>1, <1>2, <1>9, <2>3
    <3>2. x % m = v
      BY <1>1, <3>1, DivSmall
    <3> QED BY <1>4, <2>3, <3>2
  <2>4. CASE type = "enum"
    <3>1. v \in -(m \div 2) .. m - 1 - (m \div 2)
      BY <1>2, <2>4
    <3>2. x % m = IF v >= 0 THEN v ELSE v + m
      <4>1. -m <= v /\ v < m
        BY <1>1, <3>1
      <4>2. CASE v >= 0
        <5>1. x = v /\ v \in 0 .. m - 1
          BY <1>1, <1>8, <1>9, <4>1, <4>2
        <5>2. x % m = v
          BY <1>1, <5>1, DivSmall
        <5> QED BY <4>2, <5>2
      <4>3. CASE ~(v >= 0)
        <5>1. x = v + w /\ v < 0
          BY <1>8, <1>9, <4>3
        <5>2. (v + w) % m = v + m
          BY <1>1, <1>8, <4>1, <5>1, ModMultiple
        <5> QED BY <4>3, <5>1, <5>2
      <4> QED BY <4>2, <4>3
    <3>3. Signed(x % m, m) = v
      BY <1>1, <1>7, <3>1, <3>2
    <3> QED BY <1>4, <2>4, <3>3
  <2>5. CASE type = "bool"
    BY <1>1, <1>2, <1>4, <1>9, <2>5
  <2> QED BY <1>5, <2>1, <2>2, <2>3, <2>4, <2>5
<1> QED BY <1>3, <1>9, <1>10 DEF w

LEMMA TagReadsBack ==
  ASSUME NEW n \in FieldNumbers, NEW wire \in 0 .. 5
  PROVE  /\ n * 8 + wire \in 0 .. Wide - 1
         /\ (n * 8 + wire) % 8 = wire
         /\ FieldNumber(n * 8 + wire) = n
<1>1. Wide \in Nat \ {0} /\ Narrow \in Nat \ {0}
  BY Powers
<1> DEFINE m == Narrow
           w == Wide
           tag == n * 8 + wire
<1>2. n \in 1 .. m \div 2 - 1 /\ n * 8 + 7 < w
  BY DEF FieldNumbers
<1> HIDE DEF m, w
<1>3. m \in Nat \ {0} /\ w \in Nat \ {0}
  BY <1>1 DEF m, w
<1>4. n \in 0 .. m - 1 /\ n < m \div 2 /\ n \in Int
  BY <1>2, <1>3
<1>5. tag \in 0 .. w - 1 /\ tag % 8 = wire /\ tag \div 8 = n
  BY <1>2, <1>3, <1>4
<1>6. n % m = n
  BY <1>3, <1>4, DivSmall, Zenon
<1>7. FieldNumber(tag) = n
  <2>1. FieldNumber(tag) = Signed((tag \div 8) % m, m)
    BY DEF FieldNumber, m
  <2> HIDE DEF tag
  <2> QED BY <1>4, <1>5, <1>6, <2>1 DEF Signed
<1> QED BY <1>5, <1>7 DEF w

\* Bytes one behind the other.
LEMMA WrittenInTurn ==
  ASSUME NEW a, NEW b, NEW S, a \in Seq(S), b \in Seq(S), NEW p \in Nat, NEW limit \in Nat,
         WrittenAt(p, a \o b, limit)
  PROVE  /\ WrittenAt(p, a, limit) /\ WrittenAt(p + Len(a), b, limit)
         /\ Len(a \o b) = Len(a) + Len(b)
<1>1. /\ Len(a) \in Nat /\ Len(b) \in Nat /\ Len(a \o b) = Len(a) + Len(b)
      /\ \A i \in 1 .. Len(a) : (a \o b)[i] = a[i]
      /\ \A i \in 1 .. Len(b) : (a \o b)[Len(a) + i] = b[i]
  OBVIOUS
<1>2. ASSUME NEW i \in 1 .. Len(a), p + i <= limit PROVE input[p + i] = a[i]
  <2>1. i \in 1 .. Len(a \o b)
    BY <1>1
  <2> QED BY <1>1, <1>2, <2>1 DEF WrittenAt
<1>3. ASSUME NEW i \in 1 .. Len(b), p + Len(a) + i <= limit PROVE input[p + Len(a) + i] = b[i]
  <2>1. Len(a) + i \in 1 .. Len(a \o b) /\ p + (Len(a) + i) = p + Len(a) + i
    BY <1>1
  <2> QED BY <1>1, <1>3, <2>1 DEF WrittenAt
<1> QED BY <1>1, <1>2, <1>3 DEF WrittenAt

\* Half of a uint64 is where an int becomes negative.
LEMMA Halves == Wide \div 2 \in Nat \ {0} /\ Wide = 2 * (Wide \div 2)
<1>1. ASSUME NEW w \in Nat \ {0}, w % 2 = 0
      PROVE  w \div 2 \in Nat \ {0} /\ w = 2 * (w \div 2)
  BY <1>1
<1> QED BY <1>1, Powers

LEMMA AsIntIsSigned ==
  ASSUME NEW x \in 0 .. Wide - 1
  PROVE  AsInt(x) = IF x < Wide \div 2 THEN x ELSE x - Wide
<1>1. Wide \in Nat \ {0}
  BY Powers
<1>2. x % Wide = x
  BY <1>1, DivSmall, Zenon
<1> QED BY <1>2 DEF AsInt, Signed

\* Where a length that is not negative ends, counted from an index of a slice.
LEMMA EndsHere ==
  ASSUME NEW q \in Nat, q < Wide \div 2, NEW l \in Nat, l < Wide \div 2
  PROVE  Ends(q, l) = IF q + l < Wide \div 2 THEN {q + l} ELSE {}
<1> DEFINE h == Wide \div 2
           x == q + l
           w == Wide
<1>1. h \in Nat \ {0} /\ w = 2 * h
  BY Halves
<1>2. q < h /\ l < h
  OBVIOUS
<1> HIDE DEF h, w
<1>3. x \in 0 .. w - 1 /\ x \in Nat
  BY <1>1, <1>2
<1>4. AsInt(x) = IF x < h THEN x ELSE x - w
  BY <1>3, AsIntIsSigned DEF h, w
<1>5. Ends(q, l) = {e \in {AsInt(x)} : l >= 0 /\ e >= 0}
  BY DEF Ends
<1> HIDE DEF x
<1>6. Ends(q, l) = IF x < h THEN {x} ELSE {}
  BY <1>1, <1>3, <1>4, <1>5
<1> QED BY <1>6 DEF h, x

\* Whatever length is announced, its end is not before its start.
LEMMA EndsAreAhead ==
  ASSUME NEW q \in Nat, q < Wide \div 2, NEW x \in 0 .. Wide - 1, NEW e \in Ends(q, AsInt(x))
  PROVE  e \in Nat /\ q <= e
<1> DEFINE h == Wide \div 2
           w == Wide
<1>1. h \in Nat \ {0} /\ w = 2 * h
  BY Halves
<1>2. AsInt(x) = IF x < h THEN x ELSE x - w
  BY AsIntIsSigned DEF h, w
<1>3. x \in 0 .. w - 1 /\ AsInt(x) >= 0
  BY DEF Ends, w
<1> HIDE DEF h, w
<1>4. x \in Nat /\ x < h /\ AsInt(x) = x
  BY <1>1, <1>2, <1>3
<1>5. Ends(q, x) = IF q + x < h THEN {q + x} ELSE {}
  BY <1>4, EndsHere DEF h
<1>6. e = q + x
  BY <1>4, <1>5
<1> QED BY <1>4, <1>6

\* What a field holds on the wire, and the whole field, are bytes.
LEMMA ContentsAreBytes ==
  ASSUME NEW wire \in 0 .. 5, NEW x \in Contents(wire)
  PROVE  /\ wire # 0 => x \in Seq(Bytes) /\ Len(x) \in Nat
         /\ wire = 0 => x \in 0 .. Wide - 1
         /\ wire = 1 => Len(x) = Fixed64
         /\ wire = 2 => InMemory(x) /\ Len(x) < Wide /\ AsUint64(Len(x)) = Len(x)
         /\ wire = 5 => Len(x) = Fixed32
         /\ wire \in {3, 4} => Len(x) = 0
<1>1. CASE wire = 2
  <2>1. x \in Seq(Bytes) /\ InMemory(x) /\ Len(x) \in Nat
    BY <1>1, LenProperties DEF Contents
  <2>2. Wide \in Nat \ {0} /\ Len(x) < Wide
    <3> DEFINE h == Wide \div 2
    <3>1. h \in Nat \ {0} /\ Wide = 2 * h
      BY Halves
    <3>2. Len(x) < h
      BY <2>1 DEF InMemory
    <3> HIDE DEF h, Wide
    <3> QED BY <2>1, <3>1, <3>2
  <2>3. Len(x) \in 0 .. Wide - 1
    <3> HIDE DEF Wide
    <3> QED BY <2>1, <2>2
  <2>4. Len(x) % Wide = Len(x)
    BY <2>2, <2>3, DivSmall, Zenon
  <2> QED BY <1>1, <2>1, <2>2, <2>4 DEF AsUint64
<1>2. CASE wire \in {3, 4}
  <2>1. x = <<>>
    BY <1>2 DEF Contents
  <2>2. <<>> \in Seq(Bytes) /\ Len(<<>>) = 0
    OBVIOUS
  <2> QED BY <1>2, <2>1, <2>2
<1>3. CASE wire \in {0, 1, 5}
  BY <1>3, LenProperties DEF Contents
<1> QED BY <1>1, <1>2, <1>3

LEMMA AsUint64Fits == ASSUME NEW x \in Int PROVE AsUint64(x) \in 0 .. Wide - 1
<1>1. Wide \in Nat \ {0}
  BY Powers
<1>2. ASSUME NEW w \in Nat \ {0} PROVE x % w \in 0 .. w - 1
  OBVIOUS
<1> QED BY <1>1, <1>2 DEF AsUint64

LEMMA WrittenIsBytes ==
  ASSUME NEW n \in FieldNumbers, NEW wire \in 0 .. 5, NEW x,
         wire = 0 => x \in 0 .. Wide - 1, wire # 0 => x \in Seq(Bytes)
  PROVE  /\ Tag(n, wire) \in Seq(Bytes)
         /\ Prefixed(x) \in Seq(Bytes) \/ wire = 0
         /\ Written(n, wire, x) \in Seq(Bytes) /\ Len(Written(n, wire, x)) > 0
<1>0. ASSUME NEW a \in Seq(Bytes), NEW b \in Seq(Bytes), Len(a) > 0
      PROVE  a \o b \in Seq(Bytes) /\ Len(a \o b) > 0
  BY <1>0
<1>1. Tag(n, wire) \in Seq(Bytes) /\ Len(Tag(n, wire)) > 0
  <2> DEFINE tag == n * 8 + wire
  <2>1. tag \in 0 .. Wide - 1
    BY TagReadsBack
  <2> HIDE DEF tag
  <2>2. LastDigit(tag) \in Nat
    BY <2>1, LastDigitHere, MaxVarintIsNat
  <2>3. VarintBytes(tag) \in Seq(Bytes) /\ Len(VarintBytes(tag)) > 0
    BY <2>1, <2>2, VarintWritten
  <2> QED BY <2>3 DEF Tag, tag
<1>2. CASE wire = 0
  <2>1. VarintBytes(x) \in Seq(Bytes)
    BY <1>2, VarintWritten
  <2>2. Written(n, wire, x) = Tag(n, wire) \o VarintBytes(x)
    BY <1>2 DEF Written
  <2> QED BY <1>0, <1>1, <1>2, <2>1, <2>2
<1>3. CASE wire # 0
  <2>1. Len(x) \in Int
    BY <1>3, LenProperties
  <2>2. VarintBytes(AsUint64(Len(x))) \in Seq(Bytes)
    BY <2>1, AsUint64Fits, VarintWritten
  <2>3. Prefixed(x) \in Seq(Bytes)
    BY <1>3, <2>2 DEF Prefixed
  <2>4. Written(n, wire, x) = Tag(n, wire) \o Prefixed(x) \/ Written(n, wire, x) = Tag(n, wire) \o x
    BY <1>3 DEF Written
  <2> QED BY <1>0, <1>1, <1>3, <2>3, <2>4
<1> QED BY <1>2, <1>3

\* A token of a field that holds x on the wire and ends at `end`.
TokenHolds(t, n, wire, x, end) ==
  /\ t.field = n /\ t.wire = wire /\ t.next = end
  /\ wire = 0 => t.number = x
  /\ wire = 2 => t.start = end - Len(x) /\ SubSeq(input, t.start + 1, t.next) = x

\* A field is read back, whatever bytes come before and after it.  If it is there as a
\* whole there is a token, and only then; and every token has the number of the field
\* and its wire type, ends where the field ends, and gives the number or announces
\* exactly the bytes that were sent.
THEOREM FieldReadsBack ==
  ASSUME NEW n \in FieldNumbers, NEW wire \in 0 .. 5, NEW x \in Contents(wire),
         NEW p \in Nat, NEW limit \in Nat,
         input \in Seq(Bytes), InMemory(input), limit <= Len(input),
         NEW field, field = Written(n, wire, x), WrittenAt(p, field, limit),
         NEW end, end = p + Len(field)
  PROVE  /\ Tokens(p, limit) # {} <=> end <= limit
         /\ \A t \in Tokens(p, limit) : TokenHolds(t, n, wire, x, end)
<1> DEFINE tag == n * 8 + wire
           a   == VarintBytes(tag)
           c   == CASE wire = 0 -> VarintBytes(x) [] wire = 2 -> Prefixed(x) [] OTHER -> x
           q   == p + Len(a)
           behind == q + Len(c)
           Right(t) == /\ t.field = n /\ t.wire = wire /\ t.next = behind
                       /\ wire = 0 => t.number = x
                       /\ wire = 2 => t.start = behind - Len(x)
<1>1. tag \in 0 .. Wide - 1 /\ tag % 8 = wire /\ FieldNumber(tag) = n
  BY TagReadsBack
<1>2. Written(n, wire, x) = a \o c
  BY DEF Written, Tag
<1> HIDE DEF tag
<1>3. a \in Seq(Bytes) /\ Len(a) \in Nat
  BY <1>1, VarintWritten, LenProperties
<1>4. c \in Seq(Bytes) /\ Len(c) \in Nat
  <2>1. CASE wire = 0
    BY <2>1, ContentsAreBytes, VarintWritten, LenProperties
  <2>2. CASE wire = 2
    BY <2>2, ContentsAreBytes, WrittenIsBytes, LenProperties
  <2>3. CASE wire \notin {0, 2}
    BY <2>3, ContentsAreBytes
  <2> QED BY <2>1, <2>2, <2>3
<1> HIDE DEF a, c
<1>5. WrittenAt(p, a, limit) /\ WrittenAt(q, c, limit) /\ Len(a \o c) = Len(a) + Len(c)
  BY <1>2, <1>3, <1>4, WrittenInTurn
<1>6. q \in Nat /\ behind \in Nat /\ q <= behind /\ p + Len(Written(n, wire, x)) = behind
  BY <1>2, <1>3, <1>4, <1>5
<1>7. /\ VarintEnds(p, limit) = IF q <= limit THEN {q} ELSE {}
      /\ q <= limit => Varint(p, q) = tag
  BY <1>1, <1>5, VarintReadsBack DEF a
<1> DEFINE half == Wide \div 2
<1>15. half \in Nat \ {0} /\ Len(input) < half /\ Len(input) \in Nat
  BY Halves, LenProperties DEF InMemory
<1> HIDE DEF half
<1>16. limit < half
  BY <1>15
<1>8. ASSUME q <= limit
      PROVE  /\ \A t \in TokensAfter(tag, q, limit) : Right(t)
             /\ behind <= limit => TokensAfter(tag, q, limit) # {}
             /\ wire = 2 => WrittenAt(behind - Len(x), x, limit) /\ behind - Len(x) \in Nat
  <2>1. CASE wire = 0
    <3>1. x \in 0 .. Wide - 1 /\ c = VarintBytes(x)
      BY <2>1, ContentsAreBytes DEF c
    <3>2. /\ VarintEnds(q, limit) = IF behind <= limit THEN {behind} ELSE {}
          /\ behind <= limit => Varint(q, behind) = x
      BY <1>5, <1>6, <3>1, VarintReadsBack
    <3>3. TokensAfter(tag, q, limit) = {Token(tag, q, Varint(q, r), r) : r \in VarintEnds(q, limit)}
      BY <1>1, <2>1 DEF TokensAfter
    <3> HIDE DEF q, behind
    <3>4. TokensAfter(tag, q, limit) = IF behind <= limit THEN {Token(tag, q, x, behind)} ELSE {}
      BY <3>2, <3>3
    <3> DEFINE t == Token(tag, q, x, behind)
    <3>5. Right(t)
      BY <1>1, <2>1 DEF Token
    <3> HIDE DEF t
    <3> QED BY <2>1, <3>4, <3>5 DEF t
  <2>2. CASE wire = 2
    <3> DEFINE l == Len(x)
               b == VarintBytes(l)
               r == q + Len(b)
    <3>1. x \in Seq(Bytes) /\ l \in 0 .. Wide - 1 /\ l \in Nat /\ c = b \o x
      <4>1. x \in Seq(Bytes) /\ l \in Nat /\ l < Wide /\ AsUint64(l) = l
        BY <2>2, ContentsAreBytes
      <4>2. Wide \in Nat
        BY Powers
      <4>3. c = Prefixed(x)
        BY <2>2 DEF c
      <4> HIDE DEF Wide, l
      <4>4. l \in 0 .. Wide - 1
        BY <4>1, <4>2
      <4> QED BY <4>1, <4>3, <4>4 DEF Prefixed, l
    <3> HIDE DEF l
    <3>2. b \in Seq(Bytes) /\ Len(b) \in Nat
      BY <3>1, VarintWritten, LenProperties
    <3> HIDE DEF b
    <3>3. WrittenAt(q, b, limit) /\ WrittenAt(r, x, limit) /\ Len(c) = Len(b) + l
      BY <1>5, <1>6, <3>1, <3>2, WrittenInTurn DEF l
    <3>4. r \in Nat /\ behind = r + l
      BY <1>6, <3>1, <3>2, <3>3
    <3>5. /\ VarintEnds(q, limit) = IF r <= limit THEN {r} ELSE {}
          /\ r <= limit => Varint(q, r) = l
      BY <1>6, <3>1, <3>3, VarintReadsBack DEF b
    <3>6. TokensAfter(tag, q, limit) =
            UNION {{Token(tag, u, 0, e) : e \in Ends(u, AsInt(Varint(q, u)))} :
                     u \in VarintEnds(q, limit)}
      BY <1>1, <2>2 DEF TokensAfter
    <3>10. l < half
      BY <2>2, ContentsAreBytes DEF InMemory, l, half
    <3>11. AsInt(l) = l
      BY <3>1, <3>10, AsIntIsSigned DEF half
    <3> HIDE DEF q, behind, r
    <3>12. ASSUME r <= limit
           PROVE  /\ VarintEnds(q, limit) = {r}
                  /\ Ends(r, AsInt(Varint(q, r))) = IF r + l < half THEN {r + l} ELSE {}
      <4>1. r < half
        BY <1>15, <1>16, <3>4, <3>12
      <4>2. Ends(r, l) = IF r + l < half THEN {r + l} ELSE {}
        BY <3>1, <3>4, <3>10, <4>1, EndsHere DEF half
      <4> QED BY <3>5, <3>11, <3>12, <4>2
    <3>7. TokensAfter(tag, q, limit) =
            IF r <= limit /\ r + l < half THEN {Token(tag, r, 0, r + l)} ELSE {}
      <4>1. CASE r <= limit /\ r + l < half
        BY <3>6, <3>12, <4>1
      <4>2. CASE r <= limit /\ ~(r + l < half)
        BY <3>6, <3>12, <4>2
      <4>3. CASE ~(r <= limit)
        BY <3>5, <3>6, <4>3
      <4> QED BY <4>1, <4>2, <4>3
    <3>13. behind <= limit => r + l < half
      BY <1>6, <1>15, <1>16, <3>4
    <3>8. behind - l = r /\ (behind <= limit => r <= limit)
      BY <1>6, <3>1, <3>4
    <3> DEFINE t == Token(tag, r, 0, r + l)
    <3>9. Right(t)
      BY <1>1, <2>2, <3>4, <3>8 DEF Token, l
    <3> HIDE DEF t
    <3> QED BY <2>2, <3>3, <3>4, <3>7, <3>8, <3>9, <3>13 DEF t, l
  <2>3. CASE wire \notin {0, 2}
    <3>1. c = x
      BY <2>3 DEF c
    <3>2. q < half
      <4> HIDE DEF q
      <4> QED BY <1>6, <1>8, <1>15, <1>16
    <3>3. CASE wire \in {1, 5}
      <4> DEFINE l == Len(x)
      <4>1. l = IF wire = 1 THEN Fixed64 ELSE Fixed32
        BY <3>3, ContentsAreBytes
      <4>2. l \in Nat /\ l < half
        <5>1. half \in Nat /\ Fixed64 \in 0 .. half - 1 /\ Fixed32 \in 0 .. half - 1
          BY <1>15, FixedAssumption DEF half
        <5> HIDE DEF l
        <5> QED BY <4>1, <5>1
      <4>3. Ends(q, l) = IF behind < half THEN {behind} ELSE {}
        <5>1. behind = q + l
          BY <3>1
        <5> HIDE DEF q, l, behind
        <5> QED BY <1>6, <3>2, <4>2, <5>1, EndsHere DEF half
      <4>4. TokensAfter(tag, q, limit) = {Token(tag, q, 0, e) : e \in Ends(q, l)}
        BY <1>1, <3>3, <4>1 DEF TokensAfter
      <4> HIDE DEF behind, q, l
      <4>5. behind <= limit => behind < half
        BY <1>6, <1>15, <1>16
      <4>6. TokensAfter(tag, q, limit) = IF behind < half THEN {Token(tag, q, 0, behind)} ELSE {}
        BY <4>3, <4>4
      <4> DEFINE t == Token(tag, q, 0, behind)
      <4>7. Right(t) /\ wire # 2
        BY <1>1, <3>3 DEF Token
      <4> HIDE DEF t
      <4> QED BY <4>5, <4>6, <4>7 DEF t
    <3>4. CASE wire \in {3, 4}
      <4>1. behind = q
        <5>1. Len(x) = 0
          BY <3>4, ContentsAreBytes
        <5> HIDE DEF q
        <5> QED BY <1>6, <3>1, <5>1
      <4>2. TokensAfter(tag, q, limit) = {Token(tag, q, 0, q)}
        BY <1>1, <3>4 DEF TokensAfter
      <4> HIDE DEF behind, q
      <4> QED BY <1>1, <3>4, <4>1, <4>2 DEF Token
    <3> QED BY <2>3, <3>3, <3>4
  <2> QED BY <2>1, <2>2, <2>3
<1> HIDE DEF q, behind
<1>9. TokensBeyond(p, limit) = IF q <= limit THEN TokensAfter(tag, q, limit) ELSE {}
  BY <1>7 DEF TokensBeyond
<1>10. \A t \in Tokens(p, limit) : q <= limit /\ t \in TokensAfter(tag, q, limit) /\ t.next <= limit
  BY <1>9 DEF Tokens
<1>11. Tokens(p, limit) # {} <=> behind <= limit
  <2>1. ASSUME NEW t \in Tokens(p, limit) PROVE behind <= limit
    BY <1>8, <1>10
  <2>2. ASSUME behind <= limit PROVE Tokens(p, limit) # {}
    <3>1. q <= limit
      BY <1>6, <2>2
    <3>2. PICK t \in TokensAfter(tag, q, limit) : t.next = behind
      BY <1>8, <2>2, <3>1
    <3> QED BY <1>9, <2>2, <3>1, <3>2 DEF Tokens
  <2> QED BY <2>1, <2>2
<1>12. ASSUME NEW t \in Tokens(p, limit), wire = 2
       PROVE  SubSeq(input, t.start + 1, t.next) = x
  <2> DEFINE l == Len(x)
             r == behind - l
             slice == SubSeq(input, r + 1, r + l)
  <2>1. x \in Seq(Bytes) /\ l \in Nat
    BY <1>12, ContentsAreBytes
  <2>2. t.start = r /\ t.next = r + l /\ r + l <= limit /\ r \in Nat /\ WrittenAt(r, x, limit)
    <3>1. t.start = r /\ t.next = behind /\ behind <= limit /\ r \in Nat /\ WrittenAt(r, x, limit)
      BY <1>8, <1>10, <1>12
    <3> QED BY <1>6, <2>1, <3>1
  <2> HIDE DEF r
  <2>3. r + l <= Len(input) /\ Len(input) \in Nat
    BY <2>1, <2>2, LenProperties
  <2>4. /\ slice \in Seq(Bytes) /\ Len(slice) = l
        /\ \A i \in 1 .. l : slice[i] = input[r + i]
    <3> HIDE DEF l
    <3> QED BY <2>1, <2>2, <2>3
  <2> HIDE DEF slice
  <2>5. \A i \in 1 .. l : slice[i] = x[i]
    <3> TAKE i \in 1 .. l
    <3>1. r + i <= limit
      BY <2>1, <2>2
    <3> QED BY <2>2, <2>4, <3>1 DEF WrittenAt
  <2>6. slice = x
    BY <2>1, <2>4, <2>5, SeqEqual
  <2> QED BY <2>2, <2>6 DEF slice
<1>13. behind = end
  BY <1>2, <1>6
<1>14. ASSUME NEW t \in Tokens(p, limit) PROVE TokenHolds(t, n, wire, x, end)
  <2>1. Right(t)
    BY <1>8, <1>10
  <2> HIDE DEF behind
  <2> QED BY <1>12, <1>13, <2>1 DEF TokenHolds
<1> QED BY <1>11, <1>13, <1>14

(***************************************************************************)
(* Numbers and tokens                                                      *)
(***************************************************************************)

LEMMA VarintEndsHere ==
  ASSUME NEW p \in Nat, NEW limit \in Nat, NEW q \in VarintEnds(p, limit)
  PROVE  q \in Nat /\ p < q /\ q <= limit /\ q - p <= MaxVarint
BY DEF VarintEnds

\* A varint is read as a number of WideBits.
LEMMA VarintIsWide ==
  ASSUME input \in Seq(Bytes), NEW p \in Nat, NEW q \in Nat, p < q,
         q <= Len(input), q - p <= MaxVarint
  PROVE  Varint(p, q) \in 0 .. Wide - 1
<1> DEFINE place == [r \in p + 1 .. q |-> (input[r] % Base) * Base ^ (r - p - 1)]
<1>1. ASSUME NEW r \in p + 1 .. q PROVE place[r] \in Int
  <2>1. r - p - 1 \in 0 .. MaxVarint
    BY MaxVarintIsNat
  <2>2. Base ^ (r - p - 1) \in Nat
    BY <2>1, Powers
  <2>3. input[r] \in Nat
    <3>1. r \in 1 .. Len(input)
      BY LenProperties
    <3>2. input[r] \in Bytes
      BY <3>1, ElementOfSeq
    <3> QED BY <3>2, Powers DEF Bytes
  <2>4. Base \in Nat \ {0}
    BY Powers
  <2>5. input[r] % Base \in Int
    <3> DEFINE b == Base
               x == input[r]
    <3> HIDE DEF b, x
    <3>1. b \in Nat \ {0} /\ x \in Nat
      BY <2>3, <2>4 DEF b, x
    <3>2. x % b \in Int
      BY <3>1
    <3> QED BY <3>2 DEF b, x
  <2>6. ASSUME NEW x \in Int, NEW y \in Nat PROVE x * y \in Int
    OBVIOUS
  <2> QED BY <2>2, <2>5, <2>6
<1>2. IsFiniteSet(p + 1 .. q)
  BY FS_Interval
<1>3. SumFunctionOnSet(place, p + 1 .. q) \in Int
  <2> HIDE DEF place
  <2> QED BY <1>1, <1>2, SumIsInt
<1>4. ASSUME NEW x \in Int, NEW w \in Nat \ {0} PROVE x % w \in 0 .. w - 1
  OBVIOUS
<1>5. Wide \in Nat \ {0}
  BY Powers
<1> QED BY <1>3, <1>4, <1>5 DEF Varint

\* A token starts and ends after the bytes read before it, inside the limit.
LEMMA TokenIsInside ==
  ASSUME input \in Seq(Bytes), InMemory(input), NEW p \in Nat, NEW limit \in Nat,
         limit <= Len(input), NEW t \in Tokens(p, limit)
  PROVE  /\ t.start \in Nat /\ t.next \in Nat
         /\ p < t.start /\ t.start <= t.next /\ t.next <= limit
         /\ t.number \in 0 .. Wide - 1
<1>1. PICK q \in VarintEnds(p, limit) : t \in TokensAfter(Varint(p, q), q, limit)
  BY DEF Tokens, TokensBeyond
<1>2. t.next <= limit
  BY DEF Tokens
<1>3. q \in Nat /\ p < q /\ q <= limit
  BY <1>1, VarintEndsHere
<1>4. Wide \in Nat \ {0}
  BY Powers
<1>5. ASSUME NEW r \in VarintEnds(q, limit)
      PROVE  r \in Nat /\ q < r /\ r <= limit /\ Varint(q, r) \in 0 .. Wide - 1
  <2>1. r \in Nat /\ q < r /\ r <= limit /\ r - q <= MaxVarint
    BY <1>3, <1>5, VarintEndsHere
  <2>2. r <= Len(input)
    BY <2>1, LenProperties
  <2> QED BY <1>3, <2>1, <2>2, VarintIsWide
<1> DEFINE half == Wide \div 2
<1>12. half \in Nat \ {0} /\ Wide = 2 * half /\ Len(input) < half /\ Len(input) \in Nat
  BY Halves, LenProperties DEF InMemory
<1>6. Fixed64 \in 0 .. half - 1 /\ Fixed32 \in 0 .. half - 1
  BY FixedAssumption
<1> HIDE DEF half
<1>13. ASSUME NEW r \in Nat, r <= limit PROVE r < half
  BY <1>12, <1>13
<1> DEFINE tag == Varint(p, q)
<1> HIDE DEF tag
<1>7. t \in TokensAfter(tag, q, limit)
  BY <1>1 DEF tag
<1>8. CASE \E r \in VarintEnds(q, limit) : t = Token(tag, q, Varint(q, r), r)
  <2>1. PICK r \in VarintEnds(q, limit) : t = Token(tag, q, Varint(q, r), r)
    BY <1>8
  <2>2. t.start = q /\ t.next = r /\ t.number = Varint(q, r)
    BY <2>1 DEF Token
  <2> QED BY <1>2, <1>3, <1>5, <2>1, <2>2
<1>9. CASE \E r \in VarintEnds(q, limit) : \E e \in Ends(r, AsInt(Varint(q, r))) :
             t = Token(tag, r, 0, e)
  <2>6. PICK r \in VarintEnds(q, limit) :
           \E e \in Ends(r, AsInt(Varint(q, r))) : t = Token(tag, r, 0, e)
    BY <1>9
  <2>1. PICK e \in Ends(r, AsInt(Varint(q, r))) : t = Token(tag, r, 0, e)
    BY <2>6
  <2>2. t.start = r /\ t.next = e /\ t.number = 0
    BY <2>1 DEF Token
  <2>3. r \in Nat /\ q < r /\ r <= limit /\ Varint(q, r) \in 0 .. Wide - 1
    BY <1>5
  <2>4. r < half
    BY <1>13, <2>3
  <2>5. e \in Nat /\ r <= e
    BY <2>1, <2>3, <2>4, EndsAreAhead DEF half
  <2> HIDE DEF Wide
  <2> QED BY <1>2, <1>3, <1>4, <2>2, <2>3, <2>5
<1>10. CASE \E k \in 0 .. half - 1 : \E e \in Ends(q, k) : t = Token(tag, q, 0, e)
  <2>6. PICK k \in 0 .. half - 1 : \E e \in Ends(q, k) : t = Token(tag, q, 0, e)
    BY <1>10
  <2>1. PICK e \in Ends(q, k) : t = Token(tag, q, 0, e)
    BY <2>6
  <2>2. t.start = q /\ t.next = e /\ t.number = 0
    BY <2>1 DEF Token
  <2>3. k \in Nat /\ k < half /\ q < half
    BY <1>3, <1>12, <1>13
  <2>4. Ends(q, k) = IF q + k < half THEN {q + k} ELSE {}
    BY <1>3, <2>3, EndsHere DEF half
  <2>5. e = q + k
    BY <2>1, <2>4
  <2> QED BY <1>2, <1>3, <1>4, <2>2, <2>3, <2>5
<1>11. CASE t = Token(tag, q, 0, q)
  <2>1. t.start = q /\ t.next = q /\ t.number = 0
    BY <1>11 DEF Token
  <2> QED BY <1>2, <1>3, <1>4, <2>1
<1> QED BY <1>6, <1>7, <1>8, <1>9, <1>10, <1>11 DEF TokensAfter

\* What a number field holds is an integer of its type.
LEMMA HeldFits ==
  ASSUME NEW type \in Numbers, NEW x \in 0 .. Wide - 1
  PROVE  Held(type, x) \in Holds(type)
<1>1. ASSUME NEW w \in Nat \ {0}, w % 2 = 0, NEW y \in 0 .. w - 1
      PROVE  Signed(y, w) \in -(w \div 2) .. w - 1 - (w \div 2)
  BY <1>1 DEF Signed
<1>2. ASSUME NEW w \in Nat \ {0}, NEW y \in Nat PROVE y % w \in 0 .. w - 1
  OBVIOUS
<1>3. x \in Nat /\ Wide \in Nat \ {0} /\ Wide % 2 = 0 /\ Narrow \in Nat \ {0} /\ Narrow % 2 = 0
  BY Powers
<1> DEFINE w == Wide
           m == Narrow
<1> HIDE DEF w, m
<1>4. x \in Nat /\ x \in 0 .. w - 1 /\ w \in Nat \ {0} /\ w % 2 = 0 /\ m \in Nat \ {0} /\ m % 2 = 0
  BY <1>3 DEF w, m
<1>5. x % m \in 0 .. m - 1
  BY <1>2, <1>4
<1>6. Signed(x, w) \in -(w \div 2) .. w - 1 - (w \div 2)
  BY <1>1, <1>4
<1>7. Signed(x % m, m) \in -(m \div 2) .. m - 1 - (m \div 2)
  BY <1>1, <1>4, <1>5
<1>8. Held(type, x) = CASE type = "uint64" -> x
                        [] type = "int64"  -> Signed(x, w)
                        [] type = "uint32" -> x % m
                        [] type = "enum"   -> Signed(x % m, m)
                        [] type = "bool"   -> IF x = 0 THEN 0 ELSE 1
  BY DEF Held, w, m
<1>9. Holds(type) = CASE type = "uint64" -> 0 .. w - 1
                      [] type = "int64"  -> -(w \div 2) .. w - 1 - (w \div 2)
                      [] type = "uint32" -> 0 .. m - 1
                      [] type = "enum"   -> -(m \div 2) .. m - 1 - (m \div 2)
                      [] type = "bool"   -> {0, 1}
  BY DEF Holds, w, m
<1>10. type \in {"uint64", "int64", "uint32", "enum", "bool"}
  BY DEF Numbers
<1>11. CASE type = "uint64"
  BY <1>4, <1>8, <1>9, <1>11
<1>12. CASE type = "int64"
  BY <1>6, <1>8, <1>9, <1>12
<1>13. CASE type = "uint32"
  BY <1>5, <1>8, <1>9, <1>13
<1>14. CASE type = "enum"
  BY <1>7, <1>8, <1>9, <1>14
<1>15. CASE type = "bool"
  BY <1>8, <1>9, <1>15
<1> QED BY <1>10, <1>11, <1>12, <1>13, <1>14, <1>15

(***************************************************************************)
(* Messages within messages.  A read of an embedded message goes on with   *)
(* the value that the field has, so that value must fit at every depth.    *)
(***************************************************************************)

\* The message fits, and so do the messages in it, at every depth.
DeepFits(fields, message) == \E parts : Part(fields, message) \in parts /\ Closed(parts)

\* The same of a value, or an element, of a field.
ElementFits(field, x) ==
  /\ field.type \in Numbers => x \in Holds(field.type)
  /\ field.type = "text" => x \in Seq(Bytes)
  /\ field.type = "integer" => x \in Range(Canonical)
  /\ field.type = "message" => DeepFits(field.fields, x)

\* One level of it.
ValueFits(field, value) ==
  IF field.card = "many"
  THEN /\ value \in Seq(Range(value)) \ {<<>>}
       /\ \A i \in DOMAIN value : ElementFits(field, value[i])
  ELSE ~IsZero(field, value) /\ ElementFits(field, value)

LEMMA MoreParts ==
  ASSUME NEW fields, NEW message, NEW parts, NEW more, parts \subseteq more,
         Fits(fields, message, parts)
  PROVE  Fits(fields, message, more)
<1>1. ASSUME NEW field, NEW x, FitsField(field, x, parts) PROVE FitsField(field, x, more)
  BY <1>1 DEF FitsField
<1> QED BY <1>1 DEF Fits

LEMMA UnionIsClosed ==
  ASSUME NEW families, \A parts \in families : Closed(parts)
  PROVE  Closed(UNION families)
<1> SUFFICES ASSUME NEW parts \in families, NEW part \in parts
             PROVE  Fits(part[1], part[2], UNION families)
  BY DEF Closed
<1>1. parts \subseteq UNION families /\ Fits(part[1], part[2], parts)
  BY DEF Closed
<1> QED BY <1>1, MoreParts

\* What fits has fields that fit.
LEMMA FieldsFit ==
  ASSUME NEW fields, NEW message, DeepFits(fields, message)
  PROVE  /\ message = [n \in DOMAIN message |-> message[n]]
         /\ \A n \in DOMAIN message : n \in 1 .. Len(fields) /\ ValueFits(fields[n], message[n])
<1>1. PICK parts : Part(fields, message) \in parts /\ Closed(parts)
  BY DEF DeepFits
<1>2. Fits(fields, message, parts)
  <2>1. Part(fields, message)[1] = fields /\ Part(fields, message)[2] = message
    BY DEF Part
  <2>2. Fits(Part(fields, message)[1], Part(fields, message)[2], parts)
    BY <1>1 DEF Closed
  <2> QED BY <2>1, <2>2
<1>3. ASSUME NEW field, NEW x, FitsField(field, x, parts) PROVE ElementFits(field, x)
  BY <1>1, <1>3 DEF FitsField, ElementFits, DeepFits
<1> QED BY <1>2, <1>3 DEF Fits, ValueFits

\* And what has fields that fit, fits: the parts of all of them are closed together.
LEMMA FitsIfFieldsDo ==
  ASSUME NEW fields, NEW message,
         message = [n \in DOMAIN message |-> message[n]],
         \A n \in DOMAIN message : n \in 1 .. Len(fields) /\ ValueFits(fields[n], message[n])
  PROVE  DeepFits(fields, message)
<1> DEFINE Of(kind, x) == CHOOSE parts : Part(kind, x) \in parts /\ Closed(parts)
           pairs    == {k \in (DOMAIN message) \X UNION {DOMAIN message[n] : n \in DOMAIN message} :
                          /\ fields[k[1]].type = "message" /\ fields[k[1]].card = "many"
                          /\ k[2] \in DOMAIN message[k[1]]}
           singles  == {n \in DOMAIN message :
                          fields[n].type = "message" /\ fields[n].card # "many"}
           lists    == {Of(fields[k[1]].fields, message[k[1]][k[2]]) : k \in pairs}
           values   == {Of(fields[n].fields, message[n]) : n \in singles}
           inner    == UNION (lists \cup values)
           parts    == inner \cup {Part(fields, message)}
<1>1. ASSUME NEW kind, NEW x, DeepFits(kind, x)
      PROVE  Part(kind, x) \in Of(kind, x) /\ Closed(Of(kind, x))
  BY <1>1 DEF DeepFits
<1> HIDE DEF Of
<1>2. ASSUME NEW n \in DOMAIN message, fields[n].type = "message", fields[n].card = "many",
             NEW i \in DOMAIN message[n]
      PROVE  /\ Of(fields[n].fields, message[n][i]) \in lists
             /\ DeepFits(fields[n].fields, message[n][i])
  <2>1. <<n, i>> \in pairs
    BY <1>2
  <2>2. ElementFits(fields[n], message[n][i])
    BY <1>2 DEF ValueFits
  <2> QED BY <1>2, <2>1, <2>2 DEF ElementFits
<1>3. ASSUME NEW n \in DOMAIN message, fields[n].type = "message", fields[n].card # "many"
      PROVE  /\ Of(fields[n].fields, message[n]) \in values
             /\ DeepFits(fields[n].fields, message[n])
  BY <1>3 DEF ValueFits, ElementFits
<1>4. \A set \in lists \cup values : Closed(set)
  <2>1. ASSUME NEW k \in pairs PROVE Closed(Of(fields[k[1]].fields, message[k[1]][k[2]]))
    BY <1>1, <1>2
  <2>2. ASSUME NEW n \in singles PROVE Closed(Of(fields[n].fields, message[n]))
    BY <1>1, <1>3
  <2> QED BY <2>1, <2>2
<1>5. Closed(inner)
  <2> DEFINE families == lists \cup values
  <2>1. \A set \in families : Closed(set)
    BY <1>4
  <2> HIDE DEF families
  <2>2. Closed(UNION families)
    BY <2>1, UnionIsClosed
  <2> QED BY <2>2 DEF families
<1>6. ASSUME NEW n \in DOMAIN message, fields[n].type = "message", fields[n].card = "many",
             NEW i \in DOMAIN message[n]
      PROVE  Part(fields[n].fields, message[n][i]) \in inner
  <2>1. Of(fields[n].fields, message[n][i]) \in lists /\ DeepFits(fields[n].fields, message[n][i])
    BY <1>2, <1>6
  <2>2. Part(fields[n].fields, message[n][i]) \in Of(fields[n].fields, message[n][i])
    BY <1>1, <2>1
  <2> HIDE DEF lists, values
  <2> QED BY <2>1, <2>2
<1>7. ASSUME NEW n \in DOMAIN message, fields[n].type = "message", fields[n].card # "many"
      PROVE  Part(fields[n].fields, message[n]) \in inner
  <2>1. Of(fields[n].fields, message[n]) \in values /\ DeepFits(fields[n].fields, message[n])
    BY <1>3, <1>7
  <2>2. Part(fields[n].fields, message[n]) \in Of(fields[n].fields, message[n])
    BY <1>1, <2>1
  <2> HIDE DEF lists, values
  <2> QED BY <2>1, <2>2
<1> HIDE DEF inner
<1>8. Fits(fields, message, parts)
  <2> SUFFICES ASSUME NEW n \in DOMAIN message
               PROVE  /\ n \in 1 .. Len(fields)
                      /\ IF fields[n].card = "many"
                         THEN /\ message[n] \in Seq(Range(message[n])) \ {<<>>}
                              /\ \A i \in DOMAIN message[n] :
                                   FitsField(fields[n], message[n][i], parts)
                         ELSE /\ ~IsZero(fields[n], message[n])
                              /\ FitsField(fields[n], message[n], parts)
    BY DEF Fits
  <2>1. n \in 1 .. Len(fields) /\ ValueFits(fields[n], message[n])
    OBVIOUS
  <2>2. CASE fields[n].card = "many"
    <3>1. ASSUME NEW i \in DOMAIN message[n] PROVE FitsField(fields[n], message[n][i], parts)
      <4>1. ElementFits(fields[n], message[n][i])
        BY <2>1, <2>2 DEF ValueFits
      <4> QED BY <1>6, <2>2, <4>1 DEF FitsField, ElementFits
    <3> QED BY <2>1, <2>2, <3>1 DEF ValueFits
  <2>3. CASE fields[n].card # "many"
    <3>1. ElementFits(fields[n], message[n]) /\ ~IsZero(fields[n], message[n])
      BY <2>1, <2>3 DEF ValueFits
    <3>2. FitsField(fields[n], message[n], parts)
      BY <1>7, <2>3, <3>1 DEF FitsField, ElementFits
    <3> QED BY <2>1, <2>3, <3>1, <3>2
  <2> QED BY <2>2, <2>3
<1>9. Closed(parts)
  <2> SUFFICES ASSUME NEW part \in parts PROVE Fits(part[1], part[2], parts)
    BY DEF Closed
  <2>1. CASE part \in inner
    <3>1. inner \subseteq parts /\ Fits(part[1], part[2], inner)
      BY <1>5, <2>1 DEF Closed
    <3> HIDE DEF parts
    <3> QED BY <3>1, MoreParts
  <2>2. CASE part = Part(fields, message)
    <3>1. part[1] = fields /\ part[2] = message
      BY <2>2 DEF Part
    <3> QED BY <1>8, <3>1
  <2> QED BY <2>1, <2>2
<1> QED BY <1>9 DEF DeepFits

LEMMA EmptyFits == ASSUME NEW fields PROVE DeepFits(fields, EmptyStore)
<1>1. DOMAIN EmptyStore = {} /\ EmptyStore = [n \in DOMAIN EmptyStore |-> EmptyStore[n]]
  BY DEF EmptyStore
<1> QED BY <1>1, FitsIfFieldsDo

\* An embedded message, and a message of a list.
LEMMA EmbeddedFits ==
  ASSUME NEW fields, NEW message, DeepFits(fields, message),
         NEW n \in DOMAIN message, fields[n].type = "message", fields[n].card # "many"
  PROVE  DeepFits(fields[n].fields, message[n])
BY FieldsFit DEF ValueFits, ElementFits

\* What a message has in a field after x is read for it.
LEMMA SetFieldFits ==
  ASSUME NEW fields \in Schemas, NEW message, DeepFits(fields, message),
         NEW n \in 1 .. Len(fields), NEW x, ElementFits(fields[n], x)
  PROVE  DeepFits(fields, SetField(message, n, fields[n], x))
<1> DEFINE new  == SetField(message, n, fields[n], x)
           list == ValueOr(message, n, <<>>)
<1>1. \A k \in DOMAIN message : k \in 1 .. Len(fields) /\ ValueFits(fields[k], message[k])
  BY FieldsFit
<1>2. CASE fields[n].card = "many"
  <2> DEFINE longer == Append(list, x)
  <2>1. new = Put(message, n, longer)
    BY <1>2 DEF SetField
  <2>2. ValueFits(fields[n], longer)
    <3>1. list \in Seq(Range(list)) /\ \A i \in DOMAIN list : ElementFits(fields[n], list[i])
      <4>1. CASE n \in DOMAIN message
        <5>1. list = message[n]
          BY <4>1 DEF ValueOr
        <5> QED BY <1>1, <1>2, <4>1, <5>1 DEF ValueFits
      <4>2. CASE n \notin DOMAIN message
        <5>1. list = <<>>
          BY <4>2 DEF ValueOr
        <5>2. <<>> \in Seq(Range(<<>>)) /\ DOMAIN <<>> = {}
          OBVIOUS
        <5> HIDE DEF list
        <5> QED BY <5>1, <5>2
      <4> QED BY <4>1, <4>2
    <3> HIDE DEF list
    <3>2. PICK S : S = Range(list) \cup {x}
      OBVIOUS
    <3>3. list \in Seq(S) /\ x \in S
      <4>1. Range(list) \subseteq S /\ x \in S
        BY <3>2
      <4> QED BY <3>1, <4>1
    <3>4. /\ longer \in Seq(S) /\ Len(longer) = Len(list) + 1 /\ Len(list) \in Nat
          /\ \A i \in 1 .. Len(list) : longer[i] = list[i]
          /\ longer[Len(list) + 1] = x
      BY <3>3, AppendProperties, LenProperties
    <3> HIDE DEF longer
    <3>5. DOMAIN list = 1 .. Len(list) /\ DOMAIN longer = 1 .. Len(list) + 1
      BY <3>3, <3>4
    <3>6. ASSUME NEW i \in DOMAIN longer PROVE ElementFits(fields[n], longer[i])
      <4>1. CASE i \in 1 .. Len(list)
        BY <3>1, <3>4, <3>5, <4>1
      <4>2. CASE i = Len(list) + 1
        BY <3>4, <4>2
      <4> QED BY <3>4, <3>5, <4>1, <4>2
    <3>7. longer \in Seq(Range(longer)) \ {<<>>}
      <4>1. \A i \in 1 .. Len(longer) : longer[i] \in Range(longer)
        BY <3>4, <3>5 DEF Range
      <4>2. longer \in Seq(Range(longer))
        BY <3>4, <4>1
      <4>3. Len(longer) # 0 /\ Len(<<>>) = 0
        BY <3>4
      <4> QED BY <4>2, <4>3
    <3> QED BY <1>2, <3>6, <3>7 DEF ValueFits
  <2> HIDE DEF longer
  <2>3. \A k \in DOMAIN new :
          (k = n /\ new[k] = longer) \/ (k \in DOMAIN message /\ new[k] = message[k])
    BY <2>1 DEF Put
  <2>4. new = [k \in DOMAIN new |-> new[k]]
    BY <2>1 DEF Put
  <2> HIDE DEF new
  <2>5. \A k \in DOMAIN new : k \in 1 .. Len(fields) /\ ValueFits(fields[k], new[k])
    BY <1>1, <2>2, <2>3
  <2>6. DeepFits(fields, new)
    BY <2>4, <2>5, FitsIfFieldsDo
  <2> QED BY <2>6 DEF new
<1>3. CASE fields[n].card # "many"
  <2>1. /\ \A k \in DOMAIN new :
             \/ k = n /\ new[k] = x /\ ~IsZero(fields[n], x)
             \/ k \in DOMAIN message /\ new[k] = message[k]
        /\ new = [k \in DOMAIN new |-> new[k]]
    <3>1. CASE IsZero(fields[n], x)
      <4>1. new = Unset(message, n)
        BY <1>3, <3>1 DEF SetField
      <4> QED BY <4>1 DEF Unset
    <3>2. CASE ~IsZero(fields[n], x)
      <4>1. new = Put(message, n, x)
        BY <1>3, <3>2 DEF SetField
      <4> QED BY <3>2, <4>1 DEF Put
    <3> QED BY <3>1, <3>2
  <2> HIDE DEF new
  <2>2. ASSUME NEW k \in DOMAIN new PROVE k \in 1 .. Len(fields) /\ ValueFits(fields[k], new[k])
    <3>1. CASE k = n /\ new[k] = x /\ ~IsZero(fields[n], x)
      BY <1>3, <3>1 DEF ValueFits
    <3> QED BY <1>1, <2>1, <3>1
  <2>3. DeepFits(fields, new)
    BY <2>1, <2>2, FitsIfFieldsDo
  <2> QED BY <2>3 DEF new
<1> QED BY <1>2, <1>3

(***************************************************************************)
(* The calls                                                               *)
(***************************************************************************)

\* A call of Unmarshal: its message has code, lies in the input and fits so far.
CallFits(frame) ==
  /\ frame = Frame(frame.schema, frame.field, frame.limit, frame.value)
  /\ frame.schema \in Schemas
  /\ frame.limit \in 0 .. Len(input)
  /\ DeepFits(frame.schema, frame.value)

\* Call `inner` reads a field of `outer` that holds messages, inside its slice.
CalledBy(inner, outer) ==
  /\ inner.limit <= outer.limit
  /\ inner.field \in 1 .. Len(outer.schema)
  /\ outer.schema[inner.field].type = "message"
  /\ outer.schema[inner.field].fields = inner.schema

IsStack(calls) == /\ \E S : calls \in Seq(S)
                  /\ Len(calls) \in Nat \ {0}

CallsFit(calls) ==
  /\ IsStack(calls)
  /\ calls[1].limit = Len(input)
  /\ \A i \in 1 .. Len(calls) : CallFits(calls[i])
  /\ \A i \in 1 .. Len(calls) - 1 : CalledBy(calls[i + 1], calls[i])

WireInv ==
  /\ input \in Seq(Bytes) /\ InMemory(input)
  /\ CallsFit(stack)
  /\ pos \in Nat /\ pos <= Top.limit

LEMMA TopFits ==
  ASSUME WireInv
  PROVE  /\ Len(stack) \in Nat \ {0} /\ Len(stack) \in 1 .. Len(stack)
         /\ CallFits(Top) /\ Top.limit \in Nat /\ Top.limit <= Len(input)
         /\ Len(input) \in Nat
<1>1. Len(stack) \in Nat \ {0}
  BY DEF WireInv, CallsFit, IsStack
<1>2. Len(stack) \in 1 .. Len(stack)
  BY <1>1
<1>3. CallFits(Top)
  BY <1>2 DEF WireInv, CallsFit, Top
<1>4. Len(input) \in Nat
  BY LenProperties DEF WireInv
<1> QED BY <1>1, <1>2, <1>3, <1>4 DEF CallFits

\* The stack with another value for its last call.
LEMMA NewValue ==
  ASSUME NEW calls, CallsFit(calls), NEW value,
         DeepFits(calls[Len(calls)].schema, value)
  PROVE  LET new == [calls EXCEPT ![Len(calls)].value = value]
         IN CallsFit(new) /\ Len(new) = Len(calls)
            /\ new[Len(calls)].limit = calls[Len(calls)].limit
<1> DEFINE top  == calls[Len(calls)]
           call == [top EXCEPT !.value = value]
           new  == [calls EXCEPT ![Len(calls)] = call]
<1>1. PICK S : calls \in Seq(S)
  BY DEF CallsFit, IsStack
<1>2. Len(calls) \in Nat \ {0}
  BY DEF CallsFit, IsStack
<1>3. Len(calls) \in 1 .. Len(calls)
  BY <1>2
<1>4. CallFits(top)
  BY <1>3 DEF CallsFit
<1>5. call = Frame(top.schema, top.field, top.limit, value)
  BY <1>4 DEF CallFits, Frame
<1>6. call.schema = top.schema /\ call.field = top.field /\ call.limit = top.limit
      /\ call.value = value
  BY <1>5 DEF Frame
<1>7. CallFits(call)
  BY <1>4, <1>5, <1>6 DEF CallFits
<1> HIDE DEF call, top
<1>8. calls \in Seq(S \cup {call})
  <2>1. S \subseteq S \cup {call}
    OBVIOUS
  <2> QED BY <1>1, <2>1
<1>9. /\ new \in Seq(S \cup {call}) /\ Len(new) = Len(calls)
      /\ \A j \in 1 .. Len(calls) : new[j] = IF j = Len(calls) THEN call ELSE calls[j]
  BY <1>3, <1>8, ExceptSeq
<1> HIDE DEF new
<1>10. ASSUME NEW i \in 1 .. Len(calls)
       PROVE  /\ CallFits(new[i]) /\ new[i].limit = calls[i].limit
              /\ new[i].field = calls[i].field /\ new[i].schema = calls[i].schema
  <2>1. CASE i = Len(calls)
    BY <1>6, <1>7, <1>9, <2>1 DEF top
  <2>2. CASE i # Len(calls)
    BY <1>9, <2>2 DEF CallsFit
  <2> QED BY <2>1, <2>2
<1>11. ASSUME NEW i \in 1 .. Len(calls) - 1 PROVE CalledBy(new[i + 1], new[i])
  <2>1. i \in 1 .. Len(calls) /\ i + 1 \in 1 .. Len(calls)
    BY <1>2
  <2>2. CalledBy(calls[i + 1], calls[i])
    BY DEF CallsFit
  <2> QED BY <1>10, <2>1, <2>2 DEF CalledBy
<1>12. new[1].limit = Len(input)
  <2>1. 1 \in 1 .. Len(calls)
    BY <1>2
  <2> QED BY <1>10, <2>1 DEF CallsFit
<1>13. CallsFit(new)
  BY <1>2, <1>9, <1>10, <1>11, <1>12 DEF CallsFit, IsStack
<1> QED BY <1>3, <1>9, <1>10, <1>13 DEF new, call, top

\* The stack with a further call.
LEMMA NewCall ==
  ASSUME NEW calls, CallsFit(calls), NEW call, CallFits(call),
         CalledBy(call, calls[Len(calls)])
  PROVE  LET new == Append(calls, call)
         IN CallsFit(new) /\ Len(new) = Len(calls) + 1 /\ new[Len(new)] = call
<1> DEFINE new == Append(calls, call)
<1>1. PICK S : calls \in Seq(S)
  BY DEF CallsFit, IsStack
<1>2. Len(calls) \in Nat \ {0}
  BY DEF CallsFit, IsStack
<1>3. calls \in Seq(S \cup {call})
  <2>1. S \subseteq S \cup {call}
    OBVIOUS
  <2> QED BY <1>1, <2>1
<1>4. /\ new \in Seq(S \cup {call}) /\ Len(new) = Len(calls) + 1
      /\ \A i \in 1 .. Len(calls) : new[i] = calls[i]
      /\ new[Len(calls) + 1] = call
  BY <1>3, AppendProperties
<1> HIDE DEF new
<1>5. ASSUME NEW i \in 1 .. Len(new) PROVE CallFits(new[i])
  <2>1. CASE i \in 1 .. Len(calls)
    BY <1>4, <2>1 DEF CallsFit
  <2>2. CASE i = Len(calls) + 1
    BY <1>4, <2>2
  <2> QED BY <1>2, <1>4, <2>1, <2>2
<1>6. ASSUME NEW i \in 1 .. Len(new) - 1 PROVE CalledBy(new[i + 1], new[i])
  <2>1. CASE i \in 1 .. Len(calls) - 1
    <3>1. i \in 1 .. Len(calls) /\ i + 1 \in 1 .. Len(calls)
      BY <1>2, <2>1
    <3> QED BY <1>4, <2>1, <3>1 DEF CallsFit
  <2>2. CASE i = Len(calls)
    <3>1. i \in 1 .. Len(calls)
      BY <1>2, <2>2
    <3> QED BY <1>4, <2>2, <3>1
  <2> QED BY <1>2, <1>4, <2>1, <2>2
<1>7. new[1].limit = Len(input)
  <2>1. 1 \in 1 .. Len(calls)
    BY <1>2
  <2> QED BY <1>4, <2>1 DEF CallsFit
<1>8. Len(new) \in Nat \ {0}
  BY <1>2, <1>4
<1>9. CallsFit(new)
  BY <1>4, <1>5, <1>6, <1>7, <1>8 DEF CallsFit, IsStack
<1> QED BY <1>4, <1>9 DEF new

\* The stack without its last call.
LEMMA NoCall ==
  ASSUME NEW calls, CallsFit(calls), Len(calls) > 1
  PROVE  LET outer == SubSeq(calls, 1, Len(calls) - 1)
         IN /\ CallsFit(outer) /\ Len(outer) = Len(calls) - 1
            /\ CalledBy(calls[Len(calls)], outer[Len(outer)])
<1> DEFINE outer == SubSeq(calls, 1, Len(calls) - 1)
<1>1. PICK S : calls \in Seq(S)
  BY DEF CallsFit, IsStack
<1>2. Len(calls) \in Nat \ {0}
  BY DEF CallsFit, IsStack
<1>3. \A i \in 1 .. Len(calls) - 1 : calls[i] \in S
  BY <1>1, <1>2, ElementOfSeq
<1>4. /\ outer \in Seq(S) /\ Len(outer) = Len(calls) - 1
      /\ \A i \in 1 .. Len(calls) - 1 : outer[i] = calls[i]
  <2> DEFINE m == Len(calls) - 1
  <2>1. m \in Nat /\ 1 <= m
    BY <1>2
  <2> HIDE DEF m
  <2>2. /\ SubSeq(calls, 1, m) \in Seq(S)
        /\ Len(SubSeq(calls, 1, m)) = IF 1 <= m THEN m - 1 + 1 ELSE 0
        /\ \A i \in 1 .. m - 1 + 1 : SubSeq(calls, 1, m)[i] = calls[1 + i - 1]
    <3>1. \A i \in 1 .. m : calls[i] \in S
      BY <1>3 DEF m
    <3> QED BY <2>1, <3>1, SubSeqProperties
  <2>3. \A i \in 1 .. m : SubSeq(calls, 1, m)[i] = calls[i]
    BY <2>1, <2>2
  <2> QED BY <2>1, <2>2, <2>3 DEF m
<1> HIDE DEF outer
<1>5. Len(outer) \in Nat \ {0}
  BY <1>2, <1>4
<1>6. ASSUME NEW i \in 1 .. Len(outer) PROVE CallFits(outer[i])
  BY <1>2, <1>4 DEF CallsFit
<1>7. ASSUME NEW i \in 1 .. Len(outer) - 1 PROVE CalledBy(outer[i + 1], outer[i])
  <2>1. /\ i \in 1 .. Len(calls) - 1 /\ i + 1 \in 1 .. Len(calls) - 1
    BY <1>2, <1>4
  <2>2. CalledBy(calls[i + 1], calls[i])
    BY <2>1 DEF CallsFit
  <2> QED BY <1>4, <2>1, <2>2
<1>8. outer[1].limit = Len(input)
  <2>1. 1 \in 1 .. Len(calls) - 1
    BY <1>2
  <2> QED BY <1>4, <2>1 DEF CallsFit
<1>9. CallsFit(outer)
  BY <1>4, <1>5, <1>6, <1>7, <1>8 DEF CallsFit, IsStack
<1>10. CalledBy(calls[Len(calls)], outer[Len(outer)])
  <2> DEFINE m == Len(calls) - 1
  <2>1. m \in 1 .. Len(calls) - 1 /\ m + 1 = Len(calls)
    BY <1>2
  <2>2. CalledBy(calls[m + 1], calls[m])
    BY <2>1 DEF CallsFit
  <2> QED BY <1>4, <2>1, <2>2
<1> QED BY <1>4, <1>9, <1>10 DEF outer

(***************************************************************************)
(* The steps                                                               *)
(***************************************************************************)

LEMMA WireInit == DecoderInit => WireInv
<1> SUFFICES ASSUME NEW fields \in Schemas, NEW bytes \in Seq(Bytes), Start(fields, bytes)
             PROVE  WireInv
  BY DEF DecoderInit
<1> DEFINE call == Frame(fields, 0, Len(bytes), EmptyStore)
<1>1. input = bytes /\ pos = 0 /\ stack = <<call>> /\ InMemory(bytes)
  BY DEF Start
<1>2. Len(bytes) \in Nat
  BY LenProperties
<1>3. /\ call.schema = fields /\ call.field = 0 /\ call.limit = Len(bytes)
      /\ call.value = EmptyStore
  BY DEF Frame
<1>4. CallFits(call)
  BY <1>1, <1>2, <1>3, EmptyFits DEF CallFits
<1>5. stack \in Seq({call}) /\ Len(stack) = 1 /\ stack[1] = call
  <2> HIDE DEF call
  <2> QED BY <1>1
<1> HIDE DEF call
<1>6. CallsFit(stack)
  <2>1. IsStack(stack)
    BY <1>5 DEF IsStack
  <2>2. \A i \in 1 .. Len(stack) : CallFits(stack[i])
    BY <1>4, <1>5
  <2>3. stack[1].limit = Len(input)
    BY <1>1, <1>3, <1>5
  <2>4. \A i \in 1 .. Len(stack) - 1 : CalledBy(stack[i + 1], stack[i])
    BY <1>5
  <2> QED BY <2>1, <2>2, <2>3, <2>4 DEF CallsFit
<1>7. Top = call
  BY <1>5 DEF Top
<1> QED BY <1>1, <1>2, <1>3, <1>6, <1>7 DEF WireInv

\* A token that is read, and the call that reads it.
LEMMA ReadsToken ==
  ASSUME WireInv, NEW t, Reads(t)
  PROVE  /\ t.start \in Nat /\ t.next \in Nat
         /\ pos < t.start /\ t.start <= t.next /\ t.next <= Top.limit
         /\ t.number \in 0 .. Wide - 1
BY TopFits, TokenIsInside DEF Reads, WireInv

\* A value is put into a field of the running call.
LEMMA AssignStep ==
  ASSUME WireInv, NEW t, Reads(t), Known(t), input' = input, pos' = t.next,
         NEW x, Assign(t, x),
         ElementFits(Top.schema[t.field], x)
  PROVE  WireInv' /\ Len(stack') = Len(stack)
<1> DEFINE value == SetField(Top.value, t.field, Top.schema[t.field], x)
           new   == [stack EXCEPT ![Len(stack)].value = value]
<1>1. stack' = new
  BY DEF Assign, Top
<1>2. Top.schema \in Schemas /\ DeepFits(Top.schema, Top.value)
  BY TopFits DEF CallFits
<1>3. DeepFits(Top.schema, value)
  BY <1>2, SetFieldFits DEF Known
<1> HIDE DEF value
<1>4. DeepFits(stack[Len(stack)].schema, value)
  BY <1>3 DEF Top
<1>5. CallsFit(stack)
  BY DEF WireInv
<1>6. CallsFit(new) /\ Len(new) = Len(stack) /\ new[Len(stack)].limit = Top.limit
  BY <1>4, <1>5, NewValue DEF Top
<1> HIDE DEF new
<1>7. CallsFit(stack)'
  BY <1>1, <1>6 DEF CallsFit, CallFits, IsStack
<1>8. Top'.limit = Top.limit
  BY <1>1, <1>6 DEF Top
<1>9. pos' \in Nat /\ pos' <= Top'.limit
  BY <1>8, ReadsToken
<1> QED BY <1>1, <1>6, <1>7, <1>9 DEF WireInv

LEMMA ReadNumberStep ==
  ASSUME WireInv, NEW t, ReadNumber(t)
  PROVE  WireInv' /\ Len(stack') = Len(stack)
<1> DEFINE field == Top.schema[t.field]
           x     == Held(field.type, t.number)
<1>1. /\ Reads(t) /\ Known(t) /\ field.type \in Numbers
      /\ Assign(t, x) /\ pos' = t.next /\ input' = input
  BY DEF ReadNumber
<1>2. x \in Holds(field.type)
  BY <1>1, ReadsToken, HeldFits
<1>3. ElementFits(field, x)
  BY <1>1, <1>2 DEF ElementFits, Numbers
<1> HIDE DEF x
<1> QED BY <1>1, <1>3, AssignStep

LEMMA ReadTextStep ==
  ASSUME WireInv, NEW t, ReadText(t)
  PROVE  WireInv' /\ Len(stack') = Len(stack)
<1> DEFINE field == Top.schema[t.field]
           x     == SubSeq(input, t.start + 1, t.next)
<1>1. /\ Reads(t) /\ Known(t) /\ field.type = "text"
      /\ Assign(t, x) /\ pos' = t.next /\ input' = input
  BY DEF ReadText, Slice
<1>2. x \in Seq(Bytes)
  <2>1. t.start \in Nat /\ t.next \in Nat /\ t.next <= Top.limit
    BY <1>1, ReadsToken
  <2>2. Top.limit \in Nat /\ Top.limit <= Len(input) /\ Len(input) \in Nat
    BY TopFits
  <2> QED BY <2>1, <2>2 DEF WireInv
<1>3. ElementFits(field, x)
  BY <1>1, <1>2 DEF ElementFits, Numbers
<1> HIDE DEF x
<1> QED BY <1>1, <1>3, AssignStep

\* An integer is put into its field, or the field stays as it is.
LEMMA ReadIntegerStep ==
  ASSUME WireInv, NEW t, ReadInteger(t)
  PROVE  WireInv' /\ Len(stack') = Len(stack)
<1> DEFINE field == Top.schema[t.field]
           x     == Canonical[Slice(t)]
<1>1. /\ Reads(t) /\ Known(t) /\ field.type = "integer" /\ depth = 0
      /\ pos' = t.next /\ input' = input
      /\ IF Slice(t) = <<>> THEN stack' = stack ELSE Assign(t, x)
  BY DEF ReadInteger
<1>2. CASE Slice(t) = <<>>
  <2>1. t.next \in Nat /\ t.next <= Top.limit
    BY <1>1, ReadsToken
  <2>2. CallsFit(stack)'
    BY <1>1, <1>2 DEF WireInv, CallsFit, CallFits, IsStack
  <2> QED BY <1>1, <1>2, <2>1, <2>2 DEF WireInv, Top, InMemory
<1>3. CASE Slice(t) # <<>>
  <2>1. Slice(t) \in DOMAIN Canonical
    BY <1>1, <1>3 DEF Reads, Acceptable
  <2>2. x \in Range(Canonical)
    BY <2>1 DEF Range
  <2>3. ElementFits(field, x)
    BY <1>1, <2>2 DEF ElementFits, Numbers
  <2>4. Assign(t, x)
    BY <1>1, <1>3
  <2> HIDE DEF x
  <2> QED BY <1>1, <2>3, <2>4, AssignStep
<1> QED BY <1>2, <1>3

LEMMA OpenMessageStep ==
  ASSUME WireInv, NEW t, OpenMessage(t)
  PROVE  WireInv' /\ Len(stack') = Len(stack) + 1
<1> DEFINE field == Top.schema[t.field]
           start == IF field.card = "many" THEN EmptyStore
                    ELSE ValueOr(Top.value, t.field, EmptyStore)
           call  == Frame(field.fields, t.field, t.next, start)
<1>1. /\ Reads(t) /\ Known(t) /\ field.type = "message"
      /\ stack' = Append(stack, call) /\ pos' = t.start /\ input' = input
  BY DEF OpenMessage
<1>2. /\ Len(stack) \in Nat \ {0} /\ CallFits(Top) /\ Top.limit \in Nat
      /\ Top.limit <= Len(input) /\ Len(input) \in Nat
  BY TopFits
<1>3. /\ t.start \in Nat /\ t.next \in Nat /\ pos < t.start
      /\ t.start <= t.next /\ t.next <= Top.limit
  BY <1>1, ReadsToken
<1>4. /\ call.schema = field.fields /\ call.field = t.field /\ call.limit = t.next
      /\ call.value = start
  BY DEF Frame
<1>5. Top.schema \in Schemas /\ DeepFits(Top.schema, Top.value)
  BY <1>2 DEF CallFits
<1>6. field.fields \in Schemas
  BY <1>1, <1>5, SchemasAssumption DEF Known
<1>7. DeepFits(field.fields, start)
  <2>1. CASE field.card = "many"
    BY <2>1, EmptyFits
  <2>2. CASE field.card # "many" /\ t.field \in DOMAIN Top.value
    <3>1. start = Top.value[t.field]
      BY <2>2 DEF ValueOr
    <3> QED BY <1>1, <1>5, <2>2, <3>1, EmbeddedFits
  <2>3. CASE field.card # "many" /\ t.field \notin DOMAIN Top.value
    <3>1. start = EmptyStore
      BY <2>3 DEF ValueOr
    <3> QED BY <3>1, EmptyFits
  <2> QED BY <2>1, <2>2, <2>3
<1>8. call = Frame(call.schema, call.field, call.limit, call.value)
  BY DEF Frame
<1> HIDE DEF start, call
<1>9. CallFits(call)
  <2>1. call.limit \in 0 .. Len(input)
    BY <1>2, <1>3, <1>4
  <2> QED BY <1>4, <1>6, <1>7, <1>8, <2>1 DEF CallFits
<1>10. CalledBy(call, stack[Len(stack)])
  BY <1>1, <1>3, <1>4 DEF CalledBy, Known, Top
<1> DEFINE new == Append(stack, call)
<1>11. CallsFit(new) /\ Len(new) = Len(stack) + 1 /\ new[Len(new)] = call
  BY <1>9, <1>10, NewCall DEF WireInv
<1> HIDE DEF new
<1>12. stack' = new
  BY <1>1 DEF new
<1>13. CallsFit(stack)'
  BY <1>1, <1>11, <1>12 DEF CallsFit, CallFits, IsStack
<1>14. Top' = call
  BY <1>11, <1>12 DEF Top
<1> QED BY <1>1, <1>3, <1>4, <1>11, <1>12, <1>13, <1>14 DEF WireInv

LEMMA CloseMessageStep ==
  ASSUME WireInv, CloseMessage
  PROVE  WireInv' /\ Len(stack') = Len(stack) - 1
<1> DEFINE outer == SubSeq(stack, 1, Len(stack) - 1)
           last  == outer[Len(outer)]
           field == last.schema[Top.field]
           value == SetField(last.value, Top.field, field, Top.value)
           new   == [outer EXCEPT ![Len(outer)].value = value]
<1>1. /\ pos = Top.limit /\ Len(stack) > 1 /\ stack' = new
      /\ pos' = pos /\ input' = input
  BY DEF CloseMessage
<1>2. Len(stack) \in Nat \ {0} /\ CallFits(Top)
  BY TopFits
<1>3. /\ CallsFit(outer) /\ Len(outer) = Len(stack) - 1
      /\ CalledBy(Top, outer[Len(outer)])
  BY <1>1, NoCall DEF WireInv, Top
<1> HIDE DEF outer
<1>4. Len(outer) \in 1 .. Len(outer)
  BY <1>3 DEF CallsFit, IsStack
<1>5. CallFits(last)
  BY <1>3, <1>4 DEF CallsFit
<1>6. /\ Top.limit <= last.limit /\ Top.field \in 1 .. Len(last.schema)
      /\ field.type = "message" /\ field.fields = Top.schema
  BY <1>3 DEF CalledBy
<1>7. DeepFits(last.schema, value)
  <2>1. DeepFits(field.fields, Top.value)
    BY <1>2, <1>6 DEF CallFits
  <2>2. ElementFits(field, Top.value)
    BY <1>6, <2>1 DEF ElementFits, Numbers
  <2> QED BY <1>5, <1>6, <2>2, SetFieldFits DEF CallFits
<1> HIDE DEF value
<1>8. /\ CallsFit(new) /\ Len(new) = Len(outer)
      /\ new[Len(outer)].limit = last.limit
  BY <1>3, <1>7, NewValue
<1> HIDE DEF new
<1>9. CallsFit(stack)'
  BY <1>1, <1>8 DEF CallsFit, CallFits, IsStack
<1>10. Top'.limit = last.limit
  BY <1>1, <1>8 DEF Top
<1>11. pos' \in Nat /\ pos' <= Top'.limit
  BY <1>1, <1>6, <1>10 DEF WireInv
<1> QED BY <1>1, <1>3, <1>8, <1>9, <1>11 DEF WireInv

LEMMA SkipStep ==
  ASSUME WireInv, NEW t, Skip(t)
  PROVE  WireInv' /\ stack' = stack
<1>1. Reads(t) /\ pos' = t.next /\ input' = input /\ stack' = stack
  BY DEF Skip
<1>2. t.next \in Nat /\ t.next <= Top.limit
  BY <1>1, ReadsToken
<1>3. CallsFit(stack)'
  BY <1>1 DEF WireInv, CallsFit, CallFits, IsStack
<1> QED BY <1>1, <1>2, <1>3 DEF WireInv, Top

LEMMA SameStack ==
  ASSUME WireInv, UNCHANGED <<input, pos, stack>> PROVE WireInv'
<1>1. CallsFit(stack)'
  BY DEF WireInv, CallsFit, CallFits, IsStack
<1> QED BY <1>1 DEF WireInv, Top

LEMMA WireNext == WireInv /\ [Decode]_decoderVars => WireInv'
<1> SUFFICES ASSUME WireInv, [Decode]_decoderVars PROVE WireInv'
  OBVIOUS
<1>1. ASSUME NEW t,
             ReadNumber(t) \/ ReadText(t) \/ ReadInteger(t) \/ OpenMessage(t) \/ Skip(t)
      PROVE  WireInv'
  BY <1>1, ReadNumberStep, ReadTextStep, ReadIntegerStep, OpenMessageStep, SkipStep
<1>2. CASE CloseMessage
  BY <1>2, CloseMessageStep
<1>3. CASE Finish
  BY <1>3, SameStack DEF Finish
<1>4. CASE Reject
  BY <1>4, SameStack DEF Reject
<1>5. CASE UNCHANGED decoderVars
  BY <1>5, SameStack DEF decoderVars
<1> QED BY <1>1, <1>2, <1>3, <1>4, <1>5 DEF Decode

(***************************************************************************)
(* What follows                                                            *)
(***************************************************************************)

LEMMA WireInvHolds == DecoderSpec => []WireInv
BY WireInit, WireNext, PTL DEF DecoderSpec

\* Where the decoder is, it is inside its slices, and so is the next one it cuts out.
LEMMA WireInvIsSafe == WireInv => ReadsInside
<1> SUFFICES ASSUME WireInv PROVE ReadsInside
  OBVIOUS
<1>1. /\ Len(stack) \in Nat \ {0} /\ Top.limit \in Nat /\ Top.limit <= Len(input)
      /\ pos \in Nat /\ pos <= Top.limit /\ input \in Seq(Bytes) /\ InMemory(input)
  BY TopFits DEF WireInv
<1>2. pos \in 0 .. Top.limit /\ stack[1].limit = Len(input)
  BY <1>1 DEF WireInv, CallsFit
<1>3. ASSUME NEW i \in 1 .. Len(stack) - 1 PROVE stack[i + 1].limit \in 0 .. stack[i].limit
  <2>1. i \in 1 .. Len(stack) /\ i + 1 \in 1 .. Len(stack)
    BY <1>1
  <2>2. CallFits(stack[i]) /\ CallFits(stack[i + 1]) /\ CalledBy(stack[i + 1], stack[i])
    BY <2>1 DEF WireInv, CallsFit
  <2>3. /\ stack[i].limit \in 0 .. Len(input) /\ stack[i + 1].limit \in 0 .. Len(input)
        /\ stack[i + 1].limit <= stack[i].limit
    BY <2>2 DEF CallFits, CalledBy
  <2> QED BY <2>3
<1>4. \A t \in Tokens(pos, Top.limit) : pos < t.start /\ t.start <= t.next
  BY <1>1, TokenIsInside
<1> QED BY <1>2, <1>3, <1>4 DEF ReadsInside

\* Whatever lengths the bytes announce, also those that are negative as an int or wrap
\* around when they are added to the index, Unmarshal and the calls within it stay inside
\* their slices, each of which lies in the caller's and ends no earlier than it starts.
THEOREM ReadsInsideHolds == DecoderSpec => []ReadsInside
BY WireInvIsSafe, WireInvHolds, PTL

\* How many more steps Unmarshal can take: two for each byte left, to open a call
\* and to close it, and one for each running call.
Remaining == 2 * (Len(input) - pos) + Len(stack)

\* A step that does not end Unmarshal brings its end closer.
UsesUpInput == status' = "reading" => Remaining' < Remaining /\ Remaining' \in Nat

LEMMA RemainingIsNat == WireInv => Remaining \in Nat
BY TopFits DEF Remaining, WireInv

\* Unmarshal ends on any bytes: no step, of a group or of an embedded message,
\* is free, so that it takes at most two steps per byte and one more.
THEOREM EveryStepUsesUpInput == DecoderSpec => [][UsesUpInput]_decoderVars
<1>1. WireInv /\ (Remaining \in Nat)' /\ [Decode]_decoderVars => [UsesUpInput]_decoderVars
  <2> SUFFICES ASSUME WireInv, Decode, status' = "reading"
               PROVE  Remaining' < Remaining
    BY DEF UsesUpInput, decoderVars
  <2>1. Len(input) \in Nat /\ pos \in Nat /\ Len(stack) \in Nat
    BY TopFits DEF WireInv
  <2>2. ASSUME NEW t, ReadNumber(t) \/ ReadText(t) \/ ReadInteger(t) \/ Skip(t)
        PROVE  Remaining' < Remaining
    <3>1. Len(stack') = Len(stack)
      BY <2>2, ReadNumberStep, ReadTextStep, ReadIntegerStep, SkipStep
    <3>2. Reads(t) /\ pos' = t.next /\ input' = input
      BY <2>2 DEF ReadNumber, ReadText, ReadInteger, Skip
    <3>3. pos' \in Nat /\ pos < pos'
      BY <2>1, <3>2, ReadsToken
    <3> QED BY <2>1, <3>1, <3>2, <3>3 DEF Remaining
  <2>3. ASSUME NEW t, OpenMessage(t) PROVE Remaining' < Remaining
    <3>1. Len(stack') = Len(stack) + 1
      BY <2>3, OpenMessageStep
    <3>2. Reads(t) /\ pos' = t.start /\ input' = input
      BY <2>3 DEF OpenMessage
    <3>3. pos' \in Nat /\ pos < pos'
      BY <2>1, <3>2, ReadsToken
    <3> QED BY <2>1, <3>1, <3>2, <3>3 DEF Remaining
  <2>4. CASE CloseMessage
    <3>1. Len(stack') = Len(stack) - 1
      BY <2>4, CloseMessageStep
    <3>2. pos' = pos /\ input' = input
      BY <2>4 DEF CloseMessage
    <3> QED BY <2>1, <3>1, <3>2 DEF Remaining
  <2>5. ~Finish /\ ~Reject
    BY DEF Finish, Reject
  <2> QED BY <2>2, <2>3, <2>4, <2>5 DEF Decode
<1> QED BY <1>1, WireInvHolds, RemainingIsNat, PTL DEF DecoderSpec

=============================================================================
