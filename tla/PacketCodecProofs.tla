-------------------------- MODULE PacketCodecProofs --------------------------
(***************************************************************************)
(* Packets are read as they were written, for bytes of any number of       *)
(* values, any payloads, noise and padding, and any number of packets.     *)
(***************************************************************************)
EXTENDS PacketCodec, TLAPS, WellFoundedInduction, SequenceTheorems

\* A set of natural numbers that is not empty has a smallest one.
LEMMA Smallest ==
    ASSUME NEW I \in SUBSET Nat, I # {}
    PROVE  /\ \E i \in I : \A j \in I : i <= j
           /\ Min(I) \in I /\ \A j \in I : Min(I) <= j
<1>1. PICK i \in I : \A j \in I : ~(<<j, i>> \in OpToRel(<, Nat))
  BY NatLessThanWellFounded, WFMin
<1>2. \A j \in I : ~(j < i)
  BY <1>1 DEF OpToRel
<1>3. \A j \in I : i <= j
  BY <1>2
<1>. QED
  BY <1>3 DEF Min

-----------------------------------------------------------------------------
(* Arithmetic of bytes. *)

LEMMA ByteFacts ==
    /\ Base \in Nat /\ Base >= 2 /\ 0 \in Byte /\ PacketStartByte \in Byte
    /\ \A b : b \in Byte <=> b \in Nat /\ b < Base
<1>1. Base \in Nat \ {0, 1} /\ PacketStartByte \in 1..Base - 1
  BY PacketCodecAssumption
<1>2. Base >= 2
  BY <1>1
<1>. QED
  BY <1>1, <1>2 DEF Byte

LEMMA ModFacts ==
    ASSUME NEW b \in Nat \ {0}, NEW x \in Nat
    PROVE  /\ x % b \in 0..b - 1 /\ x \div b \in Nat /\ x = b * (x \div b) + (x % b)
           /\ x < b => x % b = x
           /\ b <= x /\ x < 2 * b => x % b = x - b
<1>1. x % b \in 0..b - 1 /\ x \div b \in Nat /\ x = b * (x \div b) + (x % b)
  <2>1. x % b \in 0..b - 1
    OBVIOUS
  <2>2. x \div b \in Nat
    OBVIOUS
  <2>3. x = b * (x \div b) + (x % b)
    OBVIOUS
  <2>. QED
    BY <2>1, <2>2, <2>3
<1>2. x < b => x % b = x
  OBVIOUS
<1>3. b <= x /\ x < 2 * b => x % b = x - b
  OBVIOUS
<1>. QED
  BY <1>1, <1>2, <1>3

LEMMA AddByteFacts ==
    ASSUME NEW x \in Byte, NEW y \in Byte
    PROVE  /\ AddByte(x, y) \in Byte
           /\ AddByte(x, y) = IF x + y < Base THEN x + y ELSE x + y - Base
<1>1. /\ Base \in Nat /\ Base >= 2 /\ x \in Nat /\ x < Base /\ y \in Nat /\ y < Base
      /\ \A b : b \in Byte <=> b \in Nat /\ b < Base
  BY ByteFacts
<1>2. PICK s \in Nat : s = x + y /\ s < 2 * Base
  BY <1>1
<1>3. /\ s < Base => s % Base = s
      /\ Base <= s => s % Base = s - Base
  <2>1. Base \in Nat \ {0}
    BY <1>1
  <2>. QED
    BY ONLY <1>2, <2>1, ModFacts
<1>. QED
  BY <1>1, <1>2, <1>3 DEF AddByte

\* What is added to a sum differs if the sums differ, and if the bytes do.
LEMMA AddByteInjective ==
    ASSUME NEW x \in Byte, NEW y \in Byte, NEW z \in Byte, x # y
    PROVE  AddByte(x, z) # AddByte(y, z) /\ AddByte(z, x) # AddByte(z, y)
<1>1. Base \in Nat /\ x \in Nat /\ x < Base /\ y \in Nat /\ y < Base /\ z \in Nat /\ z < Base
  BY ByteFacts
<1>2. /\ AddByte(x, z) = IF x + z < Base THEN x + z ELSE x + z - Base
      /\ AddByte(y, z) = IF y + z < Base THEN y + z ELSE y + z - Base
      /\ AddByte(z, x) = IF z + x < Base THEN z + x ELSE z + x - Base
      /\ AddByte(z, y) = IF z + y < Base THEN z + y ELSE z + y - Base
  BY AddByteFacts
<1>. QED
  BY <1>1, <1>2

\* The checksum completes a sum to 0.
LEMMA Completes ==
    ASSUME NEW x \in Byte
    PROVE  /\ (Base - x) % Base \in Byte /\ AddByte(x, (Base - x) % Base) = 0
           /\ (Base - x) % Base = 0 <=> x = 0
<1>1. Base \in Nat \ {0} /\ x \in Nat /\ x < Base /\ 0 \in Byte
      /\ \A b : b \in Byte <=> b \in Nat /\ b < Base
  BY ByteFacts
<1>2. CASE x = 0
  <2>1. Base % Base = 0
    BY <1>1, ModFacts
  <2>2. AddByte(0, 0) = 0
    BY <1>1, AddByteFacts
  <2>. QED
    BY <1>1, <1>2, <2>1, <2>2
<1>3. CASE x # 0
  <2>1. Base - x \in Nat /\ Base - x < Base /\ Base \in Nat \ {0}
    BY <1>1, <1>3
  <2>2. (Base - x) % Base = Base - x
    BY ONLY <2>1, ModFacts
  <2>3. Base - x \in Byte
    BY <1>1, <2>1
  <2>4. AddByte(x, Base - x) = 0
    BY <1>1, <1>3, <2>3, AddByteFacts
  <2>. QED
    BY <1>1, <1>3, <2>2, <2>3, <2>4
<1>. QED
  BY <1>2, <1>3

-----------------------------------------------------------------------------
(* Sums. *)

\* f has the sums of the first bytes of p, up to n of them.
Adds(p, n, f) == f[0] = 0 /\ \A k \in 1..n : f[k] = AddByte(f[k - 1], p[k])

\* Sums are those of what is summed.
LEMMA SumsAgree ==
    ASSUME NEW n \in Nat, NEW p, NEW q, NEW f, NEW g,
           Adds(p, n, f), Adds(q, n, g), \A k \in 1..n : p[k] = q[k]
    PROVE  \A k \in 0..n : f[k] = g[k]
<1>. DEFINE Bad == {k \in 0..n : f[k] # g[k]}
<1>. SUFFICES ASSUME Bad # {} PROVE FALSE
  OBVIOUS
<1>1. Bad \in SUBSET Nat
  OBVIOUS
<1>2. PICK k \in Bad : \A j \in Bad : k <= j
  <2>. HIDE DEF Bad
  <2>. QED
    BY <1>1, Smallest
<1>3. k \in 1..n /\ k - 1 \in 0..n /\ k - 1 \notin Bad
  BY <1>2 DEF Adds
<1>4. f[k - 1] = g[k - 1] /\ f[k] # g[k]
  BY <1>2, <1>3
<1>. QED
  BY <1>3, <1>4 DEF Adds

\* Every sequence of bytes has sums.
LEMMA SumsExist ==
    ASSUME NEW p \in Seq(Byte), NEW n \in 0..Len(p)
    PROVE  \E f \in [0..n -> Byte] : Adds(p, n, f)
<1>. DEFINE Good(k) == \E f \in [0..k -> Byte] : Adds(p, k, f)
            Bad == {k \in 0..Len(p) : ~Good(k)}
<1>. SUFFICES ASSUME Bad # {} PROVE FALSE
  OBVIOUS
<1>1. Bad \in SUBSET Nat
  OBVIOUS
<1>2. PICK k \in Bad : \A j \in Bad : k <= j
  <2>. HIDE DEF Bad
  <2>. QED
    BY <1>1, Smallest
<1>3. 0 \in Byte
  BY ByteFacts
<1>4. Good(0)
  <2>1. [i \in 0..0 |-> 0] \in [0..0 -> Byte]
    BY <1>3
  <2>2. Adds(p, 0, [i \in 0..0 |-> 0])
    BY DEF Adds
  <2>. QED
    BY <2>1, <2>2
<1>5. k \in 1..Len(p) /\ k - 1 \in 0..Len(p) /\ k - 1 \notin Bad
  <2>. k \in 0..Len(p) /\ ~Good(k) /\ Len(p) \in Nat
    BY <1>2
  <2>1. k # 0
    <3>. HIDE DEF Good
    <3>. QED
      BY <1>4
  <2>2. k \in 1..Len(p) /\ k - 1 \in 0..Len(p) /\ ~(k <= k - 1)
    <3>. HIDE DEF Good
    <3>. QED
      BY <2>1
  <2>3. k - 1 \notin Bad
    <3>. HIDE DEF Bad
    <3>. QED
      BY <1>2, <2>2
  <2>. QED
    BY <2>2, <2>3
<1>6. PICK f \in [0..(k - 1) -> Byte] : Adds(p, k - 1, f)
  BY <1>5
<1>7. PICK g : g = [i \in 0..k |-> IF i = k THEN AddByte(f[k - 1], p[k]) ELSE f[i]]
  OBVIOUS
<1>8. p[k] \in Byte /\ f[k - 1] \in Byte
  BY <1>5, <1>6
<1>9. g \in [0..k -> Byte]
  <2>1. \A i \in 0..k : i # k => i \in 0..(k - 1)
    BY <1>5
  <2>2. AddByte(f[k - 1], p[k]) \in Byte
    BY <1>8, AddByteFacts
  <2>. QED
    BY <1>6, <1>7, <2>1, <2>2
<1>10. Adds(p, k, g)
  <2>1. g[0] = 0
    BY <1>5, <1>6, <1>7 DEF Adds
  <2>2. ASSUME NEW i \in 1..k PROVE g[i] = AddByte(g[i - 1], p[i])
    <3>1. i - 1 \in 0..k /\ i - 1 # k /\ i \in 0..k
      BY <1>5
    <3>2. g[i - 1] = f[i - 1]
      BY <1>7, <3>1
    <3>3. CASE i = k
      BY <1>7, <3>1, <3>2, <3>3
    <3>4. CASE i # k
      <4>1. i \in 1..(k - 1)
        BY <1>5, <3>4
      <4>. QED
        BY <1>6, <1>7, <3>1, <3>2, <3>4, <4>1 DEF Adds
    <3>. QED
      BY <3>3, <3>4
  <2>. QED
    BY <2>1, <2>2 DEF Adds
<1>11. Good(k)
  BY <1>9, <1>10
<1>. QED
  BY <1>2, <1>11

\* Crcs(p) are the sums of p, and bytes.
LEMMA SumsFacts ==
    ASSUME NEW p \in Seq(Byte)
    PROVE  /\ Adds(p, Len(p), Crcs(p)) /\ \A k \in 0..Len(p) : Crcs(p)[k] \in Byte
           /\ CrcOf(p) \in Byte /\ Len(p) \in 0..Len(p)
<1>. DEFINE Crc(f) == f = [k \in 0..Len(p) |-> IF k = 0 THEN 0 ELSE AddByte(f[k - 1], p[k])]
<1>1. Len(p) \in Nat /\ Len(p) \in 0..Len(p)
  OBVIOUS
<1>2. PICK f \in [0..Len(p) -> Byte] : Adds(p, Len(p), f)
  BY <1>1, SumsExist
<1>3. Crc(f)
  <2>1. f = [k \in 0..Len(p) |-> f[k]]
    OBVIOUS
  <2>2. \A k \in 0..Len(p) : f[k] = IF k = 0 THEN 0 ELSE AddByte(f[k - 1], p[k])
    BY <1>2 DEF Adds
  <2>. QED
    BY <2>1, <2>2
<1>4. Crcs(p) = CHOOSE g : Crc(g)
  BY DEF Crcs
<1>5. Crc(Crcs(p))
  BY <1>3, <1>4
<1>6. Adds(p, Len(p), Crcs(p))
  <2>. DEFINE g == Crcs(p)
  <2>1. g = [k \in 0..Len(p) |-> IF k = 0 THEN 0 ELSE AddByte(g[k - 1], p[k])]
    BY <1>5
  <2>. HIDE DEF g
  <2>2. \A k \in 0..Len(p) : g[k] = IF k = 0 THEN 0 ELSE AddByte(g[k - 1], p[k])
    BY <2>1
  <2>3. Adds(p, Len(p), g)
    BY <1>1, <2>2 DEF Adds
  <2>. QED
    BY <2>3 DEF g
<1>7. \A k \in 0..Len(p) : Crcs(p)[k] = f[k]
  BY <1>1, <1>2, <1>6, SumsAgree
<1>. QED
  BY <1>1, <1>2, <1>6, <1>7 DEF CrcOf

\* Two sequences of bytes that differ in the k-th byte alone.
DifferAt(p, q, k) ==
    /\ p \in Seq(Byte) /\ q \in Seq(Byte) /\ Len(p) = Len(q) /\ k \in 1..Len(p)
    /\ \A j \in 1..Len(p) : p[j] = q[j] <=> j # k

\* They have different sums.
LEMMA SumsDiffer ==
    ASSUME NEW p, NEW q, NEW k, DifferAt(p, q, k)
    PROVE  CrcOf(p) # CrcOf(q)
<1>. /\ p \in Seq(Byte) /\ q \in Seq(Byte) /\ Len(p) = Len(q) /\ k \in 1..Len(p)
     /\ \A j \in 1..Len(p) : p[j] = q[j] <=> j # k
  BY DEF DifferAt
<1>1. PICK n \in Nat : n = Len(p) /\ n = Len(q)
  OBVIOUS
<1>2. PICK f : f = Crcs(p)
  OBVIOUS
<1>3. PICK g : g = Crcs(q)
  OBVIOUS
<1>4. /\ Adds(p, n, f) /\ Adds(q, n, g) /\ CrcOf(p) = f[n] /\ CrcOf(q) = g[n]
      /\ \A j \in 0..n : f[j] \in Byte /\ g[j] \in Byte
  BY <1>1, <1>2, <1>3, SumsFacts DEF CrcOf
<1>5. f[k] # g[k]
  <2>1. k \in 1..n /\ k - 1 \in Nat /\ k - 1 \in 0..(k - 1) /\ k - 1 \in 0..n
    BY <1>1
  <2>2. Adds(p, k - 1, f) /\ Adds(q, k - 1, g)
    BY <1>1, <1>4 DEF Adds
  <2>3. f[k - 1] = g[k - 1]
    <3>1. \A j \in 1..(k - 1) : p[j] = q[j]
      BY <1>1
    <3>. QED
      BY <2>1, <2>2, <3>1, SumsAgree
  <2>4. f[k] = AddByte(f[k - 1], p[k]) /\ g[k] = AddByte(g[k - 1], q[k])
    BY <1>4, <2>1 DEF Adds
  <2>5. p[k] \in Byte /\ q[k] \in Byte /\ p[k] # q[k] /\ f[k - 1] \in Byte
    BY <1>1, <1>4, <2>1
  <2>. QED
    BY <2>3, <2>4, <2>5, AddByteInjective
<1>. DEFINE Bad == {j \in k..n : f[j] = g[j]}
<1>6. SUFFICES ASSUME Bad # {} PROVE FALSE
  BY <1>1, <1>4
<1>7. PICK j \in Bad : \A i \in Bad : j <= i
  <2>1. Bad \in SUBSET Nat
    BY <1>1
  <2>. HIDE DEF Bad
  <2>. QED
    BY <1>6, <2>1, Smallest
<1>8. j \in 1..n /\ j > k /\ j - 1 \in k..n /\ j - 1 \in 0..n
  BY <1>1, <1>5, <1>7
<1>9. f[j - 1] # g[j - 1]
  BY <1>7, <1>8
<1>10. f[j] = AddByte(f[j - 1], p[j]) /\ g[j] = AddByte(g[j - 1], q[j])
  BY <1>4, <1>8 DEF Adds
<1>11. p[j] \in Byte /\ q[j] = p[j] /\ f[j - 1] \in Byte /\ g[j - 1] \in Byte
  BY <1>1, <1>4, <1>8
<1>12. f[j] # g[j]
  BY <1>9, <1>10, <1>11, AddByteInjective
<1>. QED
  BY <1>7, <1>12

LEMMA ConcatFacts ==
    ASSUME NEW S, NEW s \in Seq(S), NEW t \in Seq(S)
    PROVE  /\ s \o t \in Seq(S) /\ Len(s \o t) = Len(s) + Len(t)
           /\ \A i \in 1..Len(s) : (s \o t)[i] = s[i]
           /\ \A i \in 1..Len(t) : (s \o t)[Len(s) + i] = t[i]
  OBVIOUS

\* The checksum is a byte that takes the sum to 0.
LEMMA ChecksumFacts ==
    ASSUME NEW p \in Seq(Byte)
    PROVE  /\ Checksum(p) \in Byte
           /\ Checksum(p) = 0 <=> CrcOf(p) = 0
           /\ AddByte(CrcOf(p), Checksum(p)) = 0
  BY SumsFacts, Completes DEF Checksum

\* With its checksum behind it, what is sent sums up to 0.
LEMMA Sealed ==
    ASSUME NEW p \in Seq(Byte)
    PROVE  p \o <<Checksum(p)>> \in Seq(Byte) /\ CrcOf(p \o <<Checksum(p)>>) = 0
<1>1. PICK c \in Byte : c = Checksum(p) /\ AddByte(CrcOf(p), c) = 0
  BY ChecksumFacts
<1>2. PICK r : r = p \o <<c>>
  OBVIOUS
<1>3. PICK n \in Nat : n = Len(p)
  OBVIOUS
<1>4. /\ r \in Seq(Byte) /\ Len(r) = n + 1 /\ r[n + 1] = c
      /\ \A i \in 1..n : r[i] = p[i]
  <2>1. <<c>> \in Seq(Byte) /\ Len(<<c>>) = 1 /\ <<c>>[1] = c
    OBVIOUS
  <2>2. /\ p \o <<c>> \in Seq(Byte) /\ Len(p \o <<c>>) = Len(p) + Len(<<c>>)
        /\ \A i \in 1..Len(p) : (p \o <<c>>)[i] = p[i]
        /\ \A i \in 1..Len(<<c>>) : (p \o <<c>>)[Len(p) + i] = <<c>>[i]
    BY ONLY ConcatFacts, <2>1, p \in Seq(Byte)
  <2>3. 1 \in 1..Len(<<c>>)
    BY <2>1
  <2>. QED
    BY <1>2, <1>3, <2>1, <2>2, <2>3
<1>5. /\ Adds(p, n, Crcs(p)) /\ Adds(r, n + 1, Crcs(r))
      /\ CrcOf(p) = Crcs(p)[n] /\ CrcOf(r) = Crcs(r)[n + 1]
  BY <1>3, <1>4, SumsFacts DEF CrcOf
<1>6. Crcs(r)[n] = Crcs(p)[n]
  <2>1. Adds(r, n, Crcs(r))
    BY <1>5 DEF Adds
  <2>2. n \in 0..n
    OBVIOUS
  <2>. QED
    BY <1>4, <1>5, <2>1, <2>2, SumsAgree
<1>7. Crcs(r)[n + 1] = AddByte(Crcs(r)[n], r[n + 1])
  <2>1. n + 1 \in 1..(n + 1) /\ (n + 1) - 1 = n
    OBVIOUS
  <2>. QED
    BY <1>5, <2>1 DEF Adds
<1>. QED
  BY <1>1, <1>2, <1>4, <1>5, <1>6, <1>7

-----------------------------------------------------------------------------
(* A packet. *)

\* What is between the start byte and the checksum, and what is behind the start byte.
Body(p) == Header(Len(p)) \o p
Rest(p) == Body(p) \o <<Checksum(Body(p))>>
Offset(p) == Len(Header(Len(p)))

\* The two digits of a large length.
LEMMA DigitFacts ==
    ASSUME NEW n \in Nat, n < Base * Base
    PROVE  /\ n \div Base \in Byte /\ n % Base \in Byte
           /\ n = (n \div Base) * Base + (n % Base)
           /\ (n \div Base) % Base = n \div Base
           /\ n < Base => n % Base = n
<1>1. /\ Base \in Nat /\ Base >= 2 /\ \A b : b \in Byte <=> b \in Nat /\ b < Base
  BY ByteFacts
<1>2. PICK b \in Nat \ {0} : b = Base
  BY <1>1
<1>3. PICK q : q = n \div b
  OBVIOUS
<1>4. PICK r : r = n % b
  OBVIOUS
<1>5. q \in Nat /\ q < b
  <2>1. n < b * b
    BY <1>2
  <2>. QED
    BY ONLY <2>1, <1>3, n \in Nat, b \in Nat \ {0}
<1>6. r \in Nat /\ r < b /\ n = q * b + r
  BY ONLY <1>3, <1>4, n \in Nat, b \in Nat \ {0}
<1>8. q % b = q
  BY ONLY <1>5, b \in Nat \ {0}
<1>9. n < b => n % b = n
  BY ONLY n \in Nat, b \in Nat \ {0}
<1>10. q \in Byte /\ r \in Byte
  BY <1>1, <1>2, <1>5, <1>6
<1>. QED
  BY <1>2, <1>3, <1>4, <1>6, <1>8, <1>9, <1>10

\* The length bytes say how many they are and how long the payload is.
LEMMA HeaderFacts ==
    ASSUME NEW n \in Nat, n # 0, n < Base * Base
    PROVE  /\ Header(n) \in Seq(Byte) /\ Len(Header(n)) \in {1, 3}
           /\ n # Base =>
                 IF Header(n)[1] = 0 THEN /\ Len(Header(n)) = 3
                                          /\ Header(n)[2] * Base + Header(n)[3] = n
                                     ELSE Len(Header(n)) = 1 /\ Header(n)[1] = n
<1>1. /\ Base \in Nat /\ 0 \in Byte
  BY ByteFacts
<1>2. /\ n \div Base \in Byte /\ n % Base \in Byte
      /\ n = (n \div Base) * Base + (n % Base)
      /\ (n \div Base) % Base = n \div Base
      /\ n < Base => n % Base = n
  BY DigitFacts
<1>3. CASE n > Base
  <2>1. PICK a \in Byte : a = n \div Base
    BY <1>2
  <2>2. PICK b \in Byte : b = n % Base
    BY <1>2
  <2>3. Header(n) = <<0, a, b>>
    BY <1>2, <1>3, <2>1, <2>2 DEF Header, Large, largePacketMinLen
  <2>4. a * Base + b = n
    BY <1>2, <2>1, <2>2
  <2>. QED
    BY <1>1, <2>3, <2>4
<1>4. CASE ~(n > Base)
  <2>1. PICK b \in Byte : b = n % Base
    BY <1>2
  <2>2. Header(n) = <<b>>
    BY <1>4, <2>1 DEF Header, largePacketMinLen
  <2>3. n # Base => n < Base
    BY <1>1, <1>4
  <2>4. n # Base => b = n
    BY <1>2, <2>1, <2>3
  <2>. QED
    BY <2>2, <2>4
<1>. QED
  BY <1>3, <1>4

\* Where header, payload and checksum are.
LEMMA RestFacts ==
    ASSUME NEW p \in Seq(Byte) \ {<<>>}, Len(p) < Base * Base
    PROVE  /\ Rest(p) \in Seq(Byte) /\ CrcOf(Rest(p)) = 0
           /\ Offset(p) \in {1, 3} /\ Len(p) \in Nat \ {0}
           /\ Len(Rest(p)) = Offset(p) + Len(p) + 1
           /\ \A i \in 1..Offset(p) : Rest(p)[i] = Header(Len(p))[i]
           /\ \A i \in 1..Len(p) : Rest(p)[Offset(p) + i] = p[i]
<1>1. PICK h \in Seq(Byte) : h = Header(Len(p)) /\ Len(h) \in {1, 3}
  BY HeaderFacts
<1>2. PICK b : b = h \o p
  OBVIOUS
<1>3. PICK c \in Byte : c = Checksum(b)
  <2>1. b \in Seq(Byte)
    BY <1>2
  <2>. QED
    BY <2>1, ChecksumFacts
<1>4. /\ b \in Seq(Byte) /\ Len(b) = Len(h) + Len(p)
      /\ \A i \in 1..Len(h) : b[i] = h[i]
      /\ \A i \in 1..Len(p) : b[Len(h) + i] = p[i]
  <2>1. p \in Seq(Byte)
    OBVIOUS
  <2>. QED
    BY ONLY ConcatFacts, <1>1, <1>2, <2>1
<1>5. PICK r : r = b \o <<c>>
  OBVIOUS
<1>6. /\ r \in Seq(Byte) /\ Len(r) = Len(b) + 1
      /\ \A i \in 1..Len(b) : r[i] = b[i]
  <2>1. PICK q : q = <<c>>
    OBVIOUS
  <2>2. q \in Seq(Byte) /\ Len(q) = 1
    BY <2>1
  <2>3. b \in Seq(Byte)
    BY <1>4
  <2>4. /\ b \o q \in Seq(Byte) /\ Len(b \o q) = Len(b) + Len(q)
        /\ \A i \in 1..Len(b) : (b \o q)[i] = b[i]
    BY ONLY ConcatFacts, <2>2, <2>3, ZenonT(30)
  <2>. QED
    BY <1>5, <2>1, <2>2, <2>4
<1>7. Rest(p) = r /\ Offset(p) = Len(h)
  BY <1>1, <1>2, <1>3, <1>5 DEF Rest, Body, Offset
<1>8. CrcOf(r) = 0
  BY <1>3, <1>4, <1>5, Sealed
<1>9. Len(p) \in Nat \ {0} /\ Len(h) \in Nat
  BY <1>1
<1>10. ASSUME NEW i \in 1..Len(h) PROVE r[i] = h[i]
  BY <1>4, <1>6, <1>9
<1>11. ASSUME NEW i \in 1..Len(p) PROVE r[Len(h) + i] = p[i]
  <2>1. Len(h) + i \in 1..Len(b)
    BY <1>4, <1>9
  <2>. QED
    BY <1>4, <1>6, <2>1
<1>. QED
  BY <1>1, <1>4, <1>6, <1>7, <1>8, <1>9, <1>10, <1>11

LEMMA PacketFacts ==
    ASSUME NEW p \in Seq(Byte) \ {<<>>}, Len(p) < Base * Base
    PROVE  /\ Packet(p) \in Seq(Byte) /\ Len(Packet(p)) = Len(Rest(p)) + 1
           /\ Packet(p)[1] = PacketStartByte
           /\ \A i \in 1..Len(Rest(p)) : Packet(p)[i + 1] = Rest(p)[i]
<1>1. PICK r \in Seq(Byte) : r = Rest(p)
  BY RestFacts
<1>2. PICK a : a = <<PacketStartByte>>
  OBVIOUS
<1>3. a \in Seq(Byte) /\ Len(a) = 1 /\ a[1] = PacketStartByte
  BY <1>2, ByteFacts
<1>4. Packet(p) = a \o r
  <2>1. Header(Len(p)) \in Seq(Byte)
    BY HeaderFacts
  <2>2. Body(p) \in Seq(Byte)
    BY <2>1 DEF Body
  <2>3. PICK b \in Seq(Byte) : b = Body(p)
    BY <2>2
  <2>4. PICK c : c = <<Checksum(b)>>
    OBVIOUS
  <2>5. Packet(p) = (a \o b) \o c
    BY <1>2, <2>3, <2>4 DEF Packet, Body
  <2>6. r = b \o c
    BY <1>1, <2>3, <2>4 DEF Rest
  <2>7. (a \o b) \o c = a \o (b \o c)
    <3>1. Checksum(b) \in Byte
      BY <2>3, ChecksumFacts
    <3>2. c \in Seq(Byte)
      BY <2>4, <3>1
    <3>. QED
      BY <1>3, <3>2
  <2>. QED
    BY <2>5, <2>6, <2>7
<1>5. /\ a \o r \in Seq(Byte) /\ Len(a \o r) = Len(a) + Len(r)
      /\ \A i \in 1..Len(a) : (a \o r)[i] = a[i]
      /\ \A i \in 1..Len(r) : (a \o r)[Len(a) + i] = r[i]
  BY ONLY ConcatFacts, <1>1, <1>3
<1>6. 1 \in 1..Len(a) /\ Len(r) \in Nat
  BY <1>3
<1>7. ASSUME NEW i \in 1..Len(r) PROVE (a \o r)[i + 1] = r[i]
  <2>1. i + 1 = Len(a) + i
    BY <1>3
  <2>. QED
    BY <1>5, <2>1
<1>8. Len(a \o r) = Len(r) + 1 /\ (a \o r)[1] = PacketStartByte
  BY <1>3, <1>5, <1>6
<1>. QED
  BY <1>1, <1>4, <1>5, <1>7, <1>8

\* parseHeader finds the payload of a packet whose length bytes are intact.
LEMMA Parses ==
    ASSUME NEW p \in Seq(Byte) \ {<<>>}, Len(p) < Base * Base, Len(p) # Base,
           NEW s, \A i \in 1..Offset(p) : s[i] = Rest(p)[i]
    PROVE  PayOff(s) = Offset(p) /\ PayLen(s) = Len(p) /\ PktLen(s) = Len(Rest(p))
<1>1. PICK h : h = Header(Len(p))
  OBVIOUS
<1>2. PICK n \in Nat \ {0} : n = Len(p) /\ n < Base * Base /\ n # Base
  BY RestFacts
<1>3. /\ Len(h) \in {1, 3} /\ Offset(p) = Len(h)
      /\ IF h[1] = 0 THEN Len(h) = 3 /\ h[2] * Base + h[3] = n ELSE Len(h) = 1 /\ h[1] = n
  BY <1>1, <1>2, HeaderFacts DEF Offset
<1>. Len(Rest(p)) = Offset(p) + n + 1
  BY <1>2, RestFacts
<1>4. \A i \in 1..Len(h) : s[i] = h[i]
  BY <1>1, <1>3, RestFacts
<1>5. s[1] = h[1]
  BY <1>3, <1>4
<1>6. CASE h[1] = 0
  <2>1. s[2] = h[2] /\ s[3] = h[3]
    BY <1>3, <1>4, <1>6
  <2>2. PayOff(s) = 3 /\ PayLen(s) = n
    BY <1>3, <1>5, <1>6, <2>1 DEF PayOff, PayLen
  <2>. QED
    BY <1>2, <1>3, <1>6, <2>2 DEF PktLen
<1>7. CASE h[1] # 0
  <2>1. PayOff(s) = 1 /\ PayLen(s) = n
    BY <1>3, <1>5, <1>7 DEF PayOff, PayLen
  <2>. QED
    BY <1>2, <1>3, <1>7, <2>1 DEF PktLen
<1>. QED
  BY <1>6, <1>7

-----------------------------------------------------------------------------
(* Cutting and searching. *)

LEMMA AppendFacts ==
    ASSUME NEW S, NEW s \in Seq(S), NEW x \in S
    PROVE  /\ Append(s, x) \in Seq(S) /\ Len(Append(s, x)) = Len(s) + 1
           /\ Append(s, x)[Len(s) + 1] = x
           /\ \A i \in 1..Len(s) : Append(s, x)[i] = s[i]
  OBVIOUS

LEMMA CleanFacts ==
    ASSUME NEW s \in Seq(Byte \ {PacketStartByte})
    PROVE  /\ s \in Seq(Byte) /\ Len(s) \in Nat
           /\ \A k \in 1..Len(s) : s[k] # PacketStartByte
  OBVIOUS

LEMMA SameSeq ==
    ASSUME NEW S, NEW s \in Seq(S), NEW t \in Seq(S), NEW n, n = Len(s), n = Len(t),
           \A i \in 1..n : s[i] = t[i]
    PROVE  s = t
  BY SeqEqual

LEMMA CutFacts ==
    ASSUME NEW S, NEW s \in Seq(S), NEW a \in Nat, NEW b \in Nat, a <= b, b <= Len(s)
    PROVE  /\ SubSeq(s, a + 1, b) \in Seq(S) /\ Len(SubSeq(s, a + 1, b)) = b - a
           /\ \A i \in 1..(b - a) : SubSeq(s, a + 1, b)[i] = s[a + i]
  OBVIOUS

\* findStart finds the first start byte.
LEMMA StartFacts ==
    ASSUME NEW s \in Seq(Byte)
    PROVE  /\ NextStart(s) \in 0..Len(s)
           /\ NextStart(s) = 0 => \A k \in 1..Len(s) : s[k] # PacketStartByte
           /\ NextStart(s) # 0 =>
                 /\ s[NextStart(s)] = PacketStartByte
                 /\ \A k \in 1..Len(s) : s[k] = PacketStartByte => NextStart(s) <= k
<1>. DEFINE I == {i \in 1..Len(s) : s[i] = PacketStartByte}
<1>1. NextStart(s) = IF I # {} THEN Min(I) ELSE 0
  BY DEF NextStart, SelectInSeq
<1>2. I # {} => Min(I) \in I /\ \A j \in I : Min(I) <= j
  <2>1. I \in SUBSET Nat
    OBVIOUS
  <2>. HIDE DEF I
  <2>. QED
    BY <2>1, Smallest
<1>3. Len(s) \in Nat
  OBVIOUS
<1>4. CASE I = {}
  BY <1>1, <1>3, <1>4
<1>5. CASE I # {}
  <2>1. NextStart(s) \in I /\ \A j \in I : NextStart(s) <= j
    BY <1>1, <1>2, <1>5
  <2>2. NextStart(s) \in 1..Len(s) /\ s[NextStart(s)] = PacketStartByte
    BY <2>1
  <2>3. NextStart(s) # 0 /\ NextStart(s) \in 0..Len(s)
    BY <1>3, <2>2
  <2>. QED
    BY <2>1, <2>2, <2>3
<1>. QED
  BY <1>4, <1>5

\* A start byte with none before it is the one that is found.
LEMMA StartIs ==
    ASSUME NEW s \in Seq(Byte), NEW b \in 1..Len(s), s[b] = PacketStartByte,
           \A k \in 1..Len(s) : k < b => s[k] # PacketStartByte
    PROVE  NextStart(s) = b
<1>1. PICK n \in 0..Len(s) : n = NextStart(s)
  BY StartFacts
<1>2. n # 0
  BY <1>1, StartFacts
<1>3. n \in 1..Len(s) /\ s[n] = PacketStartByte /\ n <= b
  BY <1>1, <1>2, StartFacts
<1>. QED
  BY <1>1, <1>3

-----------------------------------------------------------------------------
(* Reading the bytes of a packet. *)

\* t begins with what is behind the start byte of p's packet, with the i-th
\* byte of the payload damaged if i is not 0.
Shows(t, p, i) ==
    \A j \in 1..Len(Rest(p)) : t[j] = Rest(p)[j] <=> ~(i # 0 /\ j = Offset(p) + i)

\* The checksum fits exactly if nothing is damaged, and then the payload is
\* what was written.
LEMMA ReadsRest ==
    ASSUME NEW p \in Seq(Byte) \ {<<>>}, Len(p) < Base * Base, Len(p) # Base,
           NEW t \in Seq(Byte), Len(Rest(p)) <= Len(t),
           NEW i \in 0..Len(p), Shows(t, p, i)
    PROVE  /\ PktLen(t) = Len(Rest(p)) /\ Fits(t)
           /\ Checksum(Slice(t)) = 0 <=> i = 0
           /\ i = 0 => Payload(t) = p
<1>1. PICK r \in Seq(Byte) : r = Rest(p) /\ CrcOf(r) = 0
  BY RestFacts
<1>2. PICK n \in Nat \ {0} : n = Len(p)
  OBVIOUS
<1>3. PICK o \in {1, 3} : o = Offset(p)
  BY RestFacts
<1>4. PICK R \in Nat : R = Len(r) /\ R = o + n + 1
  BY <1>1, <1>2, <1>3, RestFacts
<1>5. \A j \in 1..n : r[o + j] = p[j]
  BY <1>1, <1>2, <1>3, RestFacts
<1>6. PICK T \in Nat : T = Len(t) /\ R <= T
  BY <1>1, <1>4
<1>7. \A j \in 1..R : t[j] = r[j] <=> ~(i # 0 /\ j = o + i)
  BY <1>1, <1>3, <1>4 DEF Shows
<1>8. PayOff(t) = o /\ PktLen(t) = R
  <2>1. \A j \in 1..Offset(p) : t[j] = Rest(p)[j]
    <3>. SUFFICES ASSUME NEW j \in 1..o PROVE t[j] = r[j]
      BY <1>1, <1>3
    <3>1. j \in 1..R /\ ~(i # 0 /\ j = o + i)
      BY <1>2, <1>4
    <3>. QED
      BY <1>7, <3>1
  <2>. QED
    BY <1>1, <1>3, <1>4, <2>1, Parses
<1>9. PICK u : u = t \o Beyond
  OBVIOUS
<1>10. /\ u \in Seq(Byte) /\ Len(u) \in Nat /\ Len(u) >= T
       /\ \A j \in 1..T : u[j] = t[j]
  <2>1. Beyond \in Seq(Byte)
    BY PacketCodecAssumption
  <2>2. t \in Seq(Byte)
    OBVIOUS
  <2>3. /\ t \o Beyond \in Seq(Byte) /\ Len(t \o Beyond) = Len(t) + Len(Beyond)
        /\ \A j \in 1..Len(t) : (t \o Beyond)[j] = t[j]
    BY ONLY ConcatFacts, <2>1, <2>2
  <2>. QED
    BY <1>6, <1>9, <2>1, <2>3
<1>11. PICK v : v = SubSeq(u, 1, R)
  OBVIOUS
<1>12. v \in Seq(Byte) /\ Len(v) = R /\ \A j \in 1..R : v[j] = u[j]
  <2>1. R \in Nat /\ 0 \in Nat /\ 0 <= R /\ R <= Len(u)
    BY <1>6, <1>10
  <2>2. /\ SubSeq(u, 0 + 1, R) \in Seq(Byte) /\ Len(SubSeq(u, 0 + 1, R)) = R - 0
        /\ \A j \in 1..(R - 0) : SubSeq(u, 0 + 1, R)[j] = u[0 + j]
    BY ONLY CutFacts, <1>10, <2>1
  <2>. QED
    BY <1>11, <2>2
<1>13. Slice(t) = v /\ Fits(t)
  BY <1>6, <1>8, <1>9, <1>10, <1>11 DEF Slice, Fits
<1>14. \A j \in 1..R : v[j] = r[j] <=> ~(i # 0 /\ j = o + i)
  <2>1. \A j \in 1..R : v[j] = t[j]
    BY <1>6, <1>10, <1>12
  <2>. QED
    BY <1>7, <2>1
<1>15. CASE i = 0
  <2>1. v = r
    <3>1. \A j \in 1..R : v[j] = r[j]
      BY <1>14, <1>15
    <3>2. R = Len(v) /\ R = Len(r)
      BY <1>4, <1>12
    <3>. QED
      BY ONLY SameSeq, <1>1, <1>12, <3>1, <3>2
  <2>2. Checksum(v) = 0
    BY <1>1, <2>1, ChecksumFacts
  <2>3. PICK q : q = SubSeq(v, o + 1, R - 1)
    OBVIOUS
  <2>4. q \in Seq(Byte) /\ Len(q) = n /\ \A j \in 1..n : q[j] = v[o + j]
    <3>1. PICK e \in Nat : e = R - 1 /\ e - o = n /\ o <= e /\ e <= Len(v)
      BY <1>4, <1>12
    <3>2. o \in Nat
      OBVIOUS
    <3>3. /\ SubSeq(v, o + 1, e) \in Seq(Byte) /\ Len(SubSeq(v, o + 1, e)) = e - o
          /\ \A j \in 1..(e - o) : SubSeq(v, o + 1, e)[j] = v[o + j]
      BY ONLY CutFacts, <1>12, <3>1, <3>2
    <3>. QED
      BY <2>3, <3>1, <3>3
  <2>5. q = p
    <3>1. \A j \in 1..n : q[j] = p[j]
      BY <1>5, <2>1, <2>4
    <3>2. n = Len(q) /\ n = Len(p) /\ p \in Seq(Byte)
      BY <1>2, <2>4
    <3>. QED
      BY ONLY SameSeq, <2>4, <3>1, <3>2
  <2>6. Payload(t) = p
    BY <1>8, <1>13, <2>3, <2>5 DEF Payload
  <2>. QED
    BY <1>1, <1>4, <1>8, <1>13, <1>15, <2>2, <2>6
<1>16. CASE i # 0
  <2>1. PICK k \in 1..R : k = o + i
    BY <1>2, <1>4, <1>16
  <2>2. \A j \in 1..R : v[j] = r[j] <=> j # k
    BY <1>14, <1>16, <2>1
  <2>3. CrcOf(v) # CrcOf(r)
    <3>1. v \in Seq(Byte) /\ r \in Seq(Byte)
      BY <1>12
    <3>2. Len(v) = R /\ Len(r) = R
      BY <1>4, <1>12
    <3>3. DifferAt(v, r, k)
      BY ONLY <2>2, <3>1, <3>2, k \in 1..R DEF DifferAt
    <3>. QED
      BY ONLY SumsDiffer, <3>3
  <2>4. Checksum(v) # 0
    BY <1>1, <1>12, <2>3, ChecksumFacts
  <2>. QED
    BY <1>1, <1>4, <1>8, <1>13, <1>16, <2>4
<1>. QED
  BY <1>15, <1>16

-----------------------------------------------------------------------------
(* The layout of a frame w: payloads wr, which begin at st; packet d is the *)
(* damaged one, and a says that there is a start byte inside it.            *)

\* Where packet n begins and ends.
Begin(wr, st, n) == st[n] - Offset(wr[n]) - 1
Finish(wr, st, n) == st[n] + Len(wr[n])

\* What is before packet n + 1, and where that one or else the end of w comes.
Behind(wr, st, n) == IF n = 0 THEN 0 ELSE Finish(wr, st, n)
NextBegin(w, wr, st, n) == IF n = Len(wr) THEN Len(w) + 1 ELSE Begin(wr, st, n + 1)

Same(w, v, from, to) == \A k \in from..to : w[k] = v[k]
NoStart(w, from, to) == \A k \in from..to : w[k] # PacketStartByte

\* p's packet begins at b, with the i-th byte of p damaged if i is not 0.
Stands(w, p, b, i) ==
    /\ w[b] = PacketStartByte
    /\ \A j \in 1..Len(Rest(p)) : w[b + j] = Rest(p)[j] <=> ~(i # 0 /\ j = Offset(p) + i)

Lists(wr, st) == wr \in Seq(Payloads) /\ st \in Seq(Nat) /\ Len(st) = Len(wr)

Laid(w, wr, st, d, a) ==
    /\ \A n \in 1..Len(wr) :
          /\ 0 < Begin(wr, st, n) /\ Finish(wr, st, n) <= Len(w)
          /\ \E i \in 0..Len(wr[n]) :
                (i = 0 <=> n # d) /\ Stands(w, wr[n], Begin(wr, st, n), i)
    /\ \A n, m \in 1..Len(wr) : n < m => Finish(wr, st, n) < Begin(wr, st, m)
    /\ \A n \in 0..Len(wr) : NoStart(w, Behind(wr, st, n) + 1, NextBegin(w, wr, st, n) - 1)
    /\ d # 0 /\ ~a => NoStart(w, Begin(wr, st, d) + 1, Finish(wr, st, d))

LEMMA PayloadFacts ==
    ASSUME NEW p \in Payloads
    PROVE  p \in Seq(Byte) \ {<<>>} /\ p \in Seq(Byte) /\ Len(p) \in Nat /\ Len(p) < Base * Base
  BY PacketCodecAssumption

LEMMA PayloadRest ==
    ASSUME NEW p \in Payloads
    PROVE  /\ Rest(p) \in Seq(Byte) /\ Len(Rest(p)) \in Nat /\ Offset(p) \in Nat
           /\ Offset(p) \in {1, 3} /\ Len(p) \in Nat \ {0}
           /\ Len(Rest(p)) = Offset(p) + Len(p) + 1
           /\ Packet(p) \in Seq(Byte) /\ Len(Packet(p)) = Len(Rest(p)) + 1
           /\ Packet(p)[1] = PacketStartByte
           /\ \A i \in 1..Len(Rest(p)) : Packet(p)[i + 1] = Rest(p)[i]
<1>1. p \in Seq(Byte) \ {<<>>} /\ Len(p) < Base * Base
  BY PayloadFacts
<1>2. /\ Rest(p) \in Seq(Byte) /\ Offset(p) \in {1, 3} /\ Len(p) \in Nat \ {0}
      /\ Len(Rest(p)) = Offset(p) + Len(p) + 1
  BY <1>1, RestFacts
<1>3. Len(Rest(p)) \in Nat /\ Offset(p) \in Nat
  BY <1>2
<1>. QED
  BY <1>1, <1>2, <1>3, PacketFacts

\* A packet ends as many bytes behind its start byte as it has.
LEMMA PlaceFacts ==
    ASSUME NEW wr, NEW st, Lists(wr, st), NEW n \in 1..Len(wr)
    PROVE  /\ wr[n] \in Payloads /\ st[n] \in Nat
           /\ Begin(wr, st, n) \in Int /\ Finish(wr, st, n) \in Nat
           /\ Len(Rest(wr[n])) \in Nat /\ Len(Rest(wr[n])) >= 3
           /\ Offset(wr[n]) \in {1, 3} /\ Len(wr[n]) \in Nat \ {0}
           /\ Len(Rest(wr[n])) = Offset(wr[n]) + Len(wr[n]) + 1
           /\ Finish(wr, st, n) = Begin(wr, st, n) + Len(Rest(wr[n]))
<1>1. wr[n] \in Payloads /\ st[n] \in Nat
  BY DEF Lists
<1>2. PICK p \in Payloads : p = wr[n]
  BY <1>1
<1>3. PICK s \in Nat : s = st[n]
  BY <1>1
<1>4. /\ Offset(p) \in {1, 3} /\ Len(p) \in Nat \ {0}
      /\ Len(Rest(p)) = Offset(p) + Len(p) + 1
  <2>1. p \in Seq(Byte) \ {<<>>} /\ Len(p) < Base * Base
    BY PayloadFacts
  <2>. QED
    BY <2>1, RestFacts
<1>5. Begin(wr, st, n) = s - Offset(p) - 1 /\ Finish(wr, st, n) = s + Len(p)
  BY <1>2, <1>3 DEF Begin, Finish
<1>6. Len(Rest(p)) \in Nat /\ Len(Rest(p)) >= 3
  BY <1>4
<1>7. Begin(wr, st, n) \in Int /\ Finish(wr, st, n) \in Nat
  BY <1>4, <1>5
<1>8. Finish(wr, st, n) = Begin(wr, st, n) + Len(Rest(p))
  BY <1>4, <1>5
<1>. QED
  BY <1>1, <1>2, <1>4, <1>6, <1>7, <1>8

\* Where there is no start byte there is none in a part, nor in what is the same.
LEMMA NoStartIn ==
    ASSUME NEW w, NEW v, NEW a \in Int, NEW b \in Int, NEW c \in Int, NEW e \in Int,
           NoStart(v, a, b), a <= c, e <= b, Same(w, v, c, e)
    PROVE  NoStart(w, c, e)
  BY DEF NoStart, Same

LEMMA SameIn ==
    ASSUME NEW w, NEW v, NEW a \in Int, NEW b \in Int, NEW c \in Int, NEW e \in Int,
           Same(w, v, a, b), a <= c, e <= b
    PROVE  Same(w, v, c, e)
  BY DEF Same

\* A packet stands where the bytes are the same.
LEMMA StandsIn ==
    ASSUME NEW w, NEW v, NEW p \in Payloads, NEW b \in Int, NEW i,
           Stands(v, p, b, i), Same(w, v, b, b + Len(Rest(p)))
    PROVE  Stands(w, p, b, i)
<1>1. PICK R \in Nat : R = Len(Rest(p))
  BY PayloadRest
<1>2. w[b] = v[b] /\ \A j \in 1..R : w[b + j] = v[b + j]
  BY <1>1 DEF Same
<1>. QED
  BY <1>1, <1>2 DEF Stands

\* w1 is w with one more packet behind the others, that of p.
Grown(w, wr, st, w1, wr1, st1, d, a, p, N, L, K, R) ==
    /\ p \in Payloads /\ N \in Nat /\ L \in Nat /\ K \in Nat /\ R \in Nat
    /\ Len(w) = L /\ Len(w1) = L + K + 1 + R /\ Len(wr) = N /\ Len(wr1) = N + 1
    /\ Lists(wr, st) /\ Lists(wr1, st1) /\ d \in 0..N /\ Laid(w, wr, st, d, a)
    /\ Same(wr1, wr, 1, N) /\ Same(st1, st, 1, N) /\ wr1[N + 1] = p
    /\ Begin(wr1, st1, N + 1) = L + K + 1 /\ R = Len(Rest(p))
    /\ Same(w1, w, 1, L) /\ NoStart(w1, L + 1, L + K) /\ Stands(w1, p, L + K + 1, 0)

\* Such a frame is laid out.
LEMMA LayGrows ==
    ASSUME NEW w, NEW wr, NEW st, NEW w1, NEW wr1, NEW st1, NEW d, NEW a, NEW p,
           NEW N, NEW L, NEW K, NEW R,
           Grown(w, wr, st, w1, wr1, st1, d, a, p, N, L, K, R)
    PROVE  Laid(w1, wr1, st1, d, a)
<1>. /\ p \in Payloads /\ N \in Nat /\ L \in Nat /\ K \in Nat /\ R \in Nat
     /\ Len(w) = L /\ Len(w1) = L + K + 1 + R /\ Len(wr) = N /\ Len(wr1) = N + 1
     /\ Lists(wr, st) /\ Lists(wr1, st1) /\ d \in 0..N /\ Laid(w, wr, st, d, a)
     /\ Same(wr1, wr, 1, N) /\ Same(st1, st, 1, N) /\ wr1[N + 1] = p
     /\ Begin(wr1, st1, N + 1) = L + K + 1 /\ R = Len(Rest(p))
     /\ Same(w1, w, 1, L) /\ NoStart(w1, L + 1, L + K) /\ Stands(w1, p, L + K + 1, 0)
  BY DEF Grown
<1>1. ASSUME NEW n \in 1..N
       PROVE  /\ Begin(wr1, st1, n) = Begin(wr, st, n)
              /\ Finish(wr1, st1, n) = Finish(wr, st, n)
              /\ wr1[n] = wr[n] /\ wr[n] \in Payloads
  <2>1. wr1[n] = wr[n] /\ st1[n] = st[n]
    BY DEF Same
  <2>2. wr[n] \in Payloads
    BY PlaceFacts
  <2>. QED
    BY <2>1, <2>2 DEF Begin, Finish
<1>2. Finish(wr1, st1, N + 1) = L + K + 1 + R
  <2>1. N + 1 \in 1..Len(wr1)
    OBVIOUS
  <2>2. Finish(wr1, st1, N + 1) = Begin(wr1, st1, N + 1) + Len(Rest(wr1[N + 1]))
    BY <2>1, PlaceFacts
  <2>. QED
    BY <2>2
<1>3. ASSUME NEW n \in 1..N
       PROVE  \E b, e, R1 \in Nat :
                 /\ b = Begin(wr, st, n) /\ 0 < b /\ e = Finish(wr, st, n) /\ e <= L
                 /\ R1 = Len(Rest(wr[n])) /\ e = b + R1
  <2>1. /\ Begin(wr, st, n) \in Int /\ Finish(wr, st, n) \in Nat
        /\ Finish(wr, st, n) = Begin(wr, st, n) + Len(Rest(wr[n]))
        /\ Len(Rest(wr[n])) \in Nat
    BY PlaceFacts, SMTT(20)
  <2>2. 0 < Begin(wr, st, n) /\ Finish(wr, st, n) <= L
    BY DEF Laid
  <2>3. Begin(wr, st, n) \in Nat
    BY <2>1, <2>2
  <2>. QED
    BY ONLY <2>1, <2>2, <2>3
<1>4. ASSUME NEW n \in 1..Len(wr1)
       PROVE  /\ 0 < Begin(wr1, st1, n) /\ Finish(wr1, st1, n) <= Len(w1)
              /\ \E i \in 0..Len(wr1[n]) :
                    (i = 0 <=> n # d) /\ Stands(w1, wr1[n], Begin(wr1, st1, n), i)
  <2>1. CASE n \in 1..N
    <3>1. PICK i \in 0..Len(wr[n]) :
             (i = 0 <=> n # d) /\ Stands(w, wr[n], Begin(wr, st, n), i)
      BY <2>1 DEF Laid
    <3>2. PICK b, e, R1 \in Nat :
             /\ b = Begin(wr, st, n) /\ 0 < b /\ e = Finish(wr, st, n) /\ e <= L
             /\ R1 = Len(Rest(wr[n])) /\ e = b + R1
      BY <1>3, <2>1
    <3>3. Same(w1, w, b, b + R1)
      BY <3>2, SameIn
    <3>4. wr[n] \in Payloads /\ wr1[n] = wr[n]
      BY <1>1, <2>1
    <3>5. Stands(w1, wr[n], b, i)
      <4>1. PICK q \in Payloads : q = wr[n]
        BY <3>4
      <4>2. Stands(w, q, b, i) /\ Same(w1, w, b, b + Len(Rest(q))) /\ b \in Int
        BY <3>1, <3>2, <3>3, <4>1
      <4>3. Stands(w1, q, b, i)
        BY ONLY StandsIn, <4>2, q \in Payloads
      <4>. QED
        BY <4>1, <4>3
    <3>6. e <= L + K + 1 + R
      BY <3>2
    <3>. QED
      BY <1>1, <2>1, <3>1, <3>2, <3>4, <3>5, <3>6
  <2>2. CASE n = N + 1
    <3>1. n # d /\ 0 \in 0..Len(p) /\ wr1[n] = p
      BY <2>2, PayloadRest
    <3>2. Begin(wr1, st1, n) = L + K + 1 /\ 0 < L + K + 1
      BY <2>2
    <3>3. Finish(wr1, st1, n) <= Len(w1)
      BY <1>2, <2>2
    <3>. QED
      BY <3>1, <3>2, <3>3
  <2>. QED
    BY <2>1, <2>2
<1>5. ASSUME NEW n \in 1..Len(wr1), NEW m \in 1..Len(wr1), n < m
       PROVE  Finish(wr1, st1, n) < Begin(wr1, st1, m)
  <2>0. n \in 1..N
    BY <1>5
  <2>1. CASE m \in 1..N
    BY <1>1, <1>5, <2>0, <2>1 DEF Laid
  <2>2. CASE m = N + 1
    <3>1. PICK b, e, R1 \in Nat :
             /\ b = Begin(wr, st, n) /\ 0 < b /\ e = Finish(wr, st, n) /\ e <= L
             /\ R1 = Len(Rest(wr[n])) /\ e = b + R1
      BY <1>3, <2>0
    <3>2. e < L + K + 1
      BY <3>1
    <3>3. Finish(wr1, st1, n) = e /\ Begin(wr1, st1, m) = L + K + 1
      BY <1>1, <2>0, <2>2, <3>1
    <3>. QED
      BY <3>2, <3>3
  <2>. QED
    BY <2>1, <2>2
<1>6. ASSUME NEW n \in 0..Len(wr1)
       PROVE  NoStart(w1, Behind(wr1, st1, n) + 1, NextBegin(w1, wr1, st1, n) - 1)
  <2>1. ASSUME n \in 0..N
        PROVE  \E e \in 0..L : e = Behind(wr, st, n) /\ e = Behind(wr1, st1, n)
    <3>1. CASE n = 0
      BY <3>1 DEF Behind
    <3>2. CASE n # 0
      <4>1. n \in 1..N
        BY <2>1, <3>2
      <4>2. PICK b, e, R1 \in Nat :
               /\ b = Begin(wr, st, n) /\ 0 < b /\ e = Finish(wr, st, n) /\ e <= L
               /\ R1 = Len(Rest(wr[n])) /\ e = b + R1
        BY <1>3, <4>1
      <4>3. e \in 0..L
        BY <4>2
      <4>4. Behind(wr, st, n) = e /\ Behind(wr1, st1, n) = e
        BY <1>1, <3>2, <4>1, <4>2 DEF Behind
      <4>. QED
        BY <4>3, <4>4
    <3>. QED
      BY <3>1, <3>2
  <2>2. CASE n \in 0..(N - 1)
    <3>1. n \in 0..N /\ n \in 0..Len(wr) /\ n + 1 \in 1..N /\ n # N /\ n # N + 1
      BY <2>2
    <3>2. PICK b, e1, R1 \in Nat :
             /\ b = Begin(wr, st, n + 1) /\ 0 < b /\ e1 = Finish(wr, st, n + 1) /\ e1 <= L
             /\ R1 = Len(Rest(wr[n + 1])) /\ e1 = b + R1
      BY <1>3, <3>1
    <3>3. NextBegin(w1, wr1, st1, n) = b /\ NextBegin(w, wr, st, n) = b
      BY <1>1, <3>1, <3>2 DEF NextBegin
    <3>4. PICK e \in 0..L : e = Behind(wr, st, n) /\ e = Behind(wr1, st1, n)
      BY <2>1, <3>1
    <3>5. NoStart(w, e + 1, b - 1)
      BY <3>1, <3>3, <3>4 DEF Laid
    <3>6. Same(w1, w, e + 1, b - 1)
      <4>1. e1 = b + R1 /\ e1 <= L
        BY <3>2
      <4>2. 1 <= e + 1 /\ b - 1 <= L /\ e + 1 \in Int /\ b - 1 \in Int
        BY <4>1
      <4>. QED
        BY <4>2, SameIn
    <3>7. NoStart(w1, e + 1, b - 1)
      BY <3>5, <3>6 DEF NoStart, Same
    <3>. QED
      BY <3>3, <3>4, <3>7
  <2>3. CASE n = N
    <3>1. n \in 0..N /\ n \in 0..Len(wr) /\ n # N + 1
      BY <2>3
    <3>2. NextBegin(w1, wr1, st1, n) = L + K + 1 /\ NextBegin(w, wr, st, n) = L + 1
      BY <2>3, <3>1 DEF NextBegin
    <3>3. PICK e \in 0..L : e = Behind(wr, st, n) /\ e = Behind(wr1, st1, n)
      BY <2>1, <3>1
    <3>4. NoStart(w, e + 1, (L + 1) - 1)
      BY <3>1, <3>2, <3>3 DEF Laid
    <3>5. ASSUME NEW k \in (e + 1)..((L + K + 1) - 1) PROVE w1[k] # PacketStartByte
      <4>1. CASE k <= L
        <5>1. k \in 1..L /\ k \in (e + 1)..((L + 1) - 1)
          BY <3>3, <4>1
        <5>2. w1[k] = w[k]
          BY <5>1 DEF Same
        <5>3. w[k] # PacketStartByte
          BY <3>4, <5>1 DEF NoStart
        <5>. QED
          BY <5>2, <5>3
      <4>2. CASE k > L
        <5>1. k \in (L + 1)..(L + K)
          BY <4>2
        <5>. QED
          BY <5>1 DEF NoStart
      <4>. QED
        BY <4>1, <4>2
    <3>. QED
      BY <3>2, <3>3, <3>5 DEF NoStart
  <2>4. CASE n = N + 1
    <3>1. NextBegin(w1, wr1, st1, n) = L + K + 1 + R + 1
      BY <2>4 DEF NextBegin
    <3>2. Behind(wr1, st1, n) = L + K + 1 + R
      BY <1>2, <2>4 DEF Behind
    <3>3. \A k \in (L + K + 1 + R + 1)..(L + K + 1 + R + 1 - 1) : FALSE
      OBVIOUS
    <3>. QED
      BY <3>1, <3>2, <3>3 DEF NoStart
  <2>. QED
    BY <2>2, <2>3, <2>4
<1>7. ASSUME d # 0, ~a
       PROVE  NoStart(w1, Begin(wr1, st1, d) + 1, Finish(wr1, st1, d))
  <2>1. d \in 1..N
    BY <1>7
  <2>2. PICK b, e, R1 \in Nat :
           /\ b = Begin(wr, st, d) /\ 0 < b /\ e = Finish(wr, st, d) /\ e <= L
           /\ R1 = Len(Rest(wr[d])) /\ e = b + R1
    BY <1>3, <2>1
  <2>3. NoStart(w, b + 1, e)
    BY <1>7, <2>2 DEF Laid
  <2>4. Same(w1, w, b + 1, e)
    <3>1. 1 <= b + 1 /\ e <= L /\ b + 1 \in Int /\ e \in Int
      BY <2>2, SMTT(20)
    <3>. QED
      BY <3>1, SameIn
  <2>5. NoStart(w1, b + 1, e)
    BY <2>3, <2>4 DEF NoStart, Same
  <2>. QED
    BY <1>1, <2>1, <2>2, <2>5
<1>. QED
  BY <1>4, <1>5, <1>6, <1>7 DEF Laid

\* The bytes that WritePacket puts behind w.
Puts(w, noise, p, L, K, R, v, w1) ==
    /\ w \in Seq(Byte) /\ noise \in Noise /\ p \in Payloads
    /\ L \in Nat /\ L = Len(w) /\ K = Len(noise) /\ R = Len(Rest(p))
    /\ v = w \o noise /\ w1 = v \o Packet(p)

\* The old frame, noise without a start byte, and an intact packet.
LEMMA WrittenBytes ==
    ASSUME NEW w, NEW noise, NEW p, NEW L, NEW K, NEW R, NEW v, NEW w1,
           Puts(w, noise, p, L, K, R, v, w1)
    PROVE  /\ K \in Nat /\ R \in Nat /\ Len(v) = L + K
           /\ w1 \in Seq(Byte) /\ Len(w1) = L + K + 1 + R
           /\ Same(w1, w, 1, L) /\ NoStart(w1, L + 1, L + K)
           /\ Stands(w1, p, L + K + 1, 0)
<1>. /\ w \in Seq(Byte) /\ noise \in Noise /\ p \in Payloads
     /\ L \in Nat /\ L = Len(w) /\ K = Len(noise) /\ R = Len(Rest(p))
     /\ v = w \o noise /\ w1 = v \o Packet(p)
  BY DEF Puts
<1>1. /\ noise \in Seq(Byte) /\ K \in Nat
      /\ \A k \in 1..K : noise[k] # PacketStartByte
  <2>1. noise \in Seq(Byte \ {PacketStartByte})
    BY PacketCodecAssumption
  <2>2. /\ noise \in Seq(Byte) /\ Len(noise) \in Nat
        /\ \A k \in 1..Len(noise) : noise[k] # PacketStartByte
    BY ONLY CleanFacts, <2>1
  <2>. QED
    BY <2>2
<1>2. PICK q : q = Packet(p)
  OBVIOUS
<1>3. PICK r : r = Rest(p)
  OBVIOUS
<1>4. /\ R \in Nat /\ q \in Seq(Byte) /\ Len(q) = R + 1 /\ q[1] = PacketStartByte
      /\ \A j \in 1..R : q[j + 1] = r[j]
  BY <1>2, <1>3, PayloadRest
<1>5. noise \in Seq(Byte) /\ q \in Seq(Byte)
  BY <1>1, <1>4
<1>6. /\ v \in Seq(Byte) /\ Len(v) = Len(w) + Len(noise)
      /\ \A i \in 1..Len(w) : v[i] = w[i]
      /\ \A i \in 1..Len(noise) : v[Len(w) + i] = noise[i]
  BY ONLY ConcatFacts, <1>5, w \in Seq(Byte), v = w \o noise
<1>7. v \in Seq(Byte) /\ w1 = v \o q
  BY <1>2, <1>6
<1>8. /\ w1 \in Seq(Byte) /\ Len(w1) = Len(v) + Len(q)
      /\ \A i \in 1..Len(v) : w1[i] = v[i]
      /\ \A i \in 1..Len(q) : w1[Len(v) + i] = q[i]
  BY ONLY ConcatFacts, <1>5, <1>7
<1>9. Len(v) = L + K /\ Len(w) = L /\ Len(noise) = K /\ L \in Nat
  BY <1>6
<1>10. w1 \in Seq(Byte) /\ Len(w1) = L + K + 1 + R
  BY ONLY <1>1, <1>4, <1>8, <1>9
<1>11. Same(w1, w, 1, L)
  <2>. SUFFICES ASSUME NEW k \in 1..L PROVE w1[k] = w[k]
    BY DEF Same
  <2>1. k \in 1..Len(v)
    BY ONLY <1>1, <1>9, k \in 1..L
  <2>. QED
    BY ONLY <1>6, <1>8, <1>9, <2>1, k \in 1..L
<1>12. NoStart(w1, L + 1, L + K)
  <2>. SUFFICES ASSUME NEW k \in (L + 1)..(L + K) PROVE w1[k] # PacketStartByte
    BY DEF NoStart
  <2>1. PICK j \in 1..K : k = L + j
    <3>1. k - L \in 1..K /\ k = L + (k - L)
      BY ONLY <1>1, <1>9, k \in (L + 1)..(L + K)
    <3>. QED
      BY <3>1
  <2>2. k \in 1..Len(v)
    BY ONLY <1>1, <1>9, k \in (L + 1)..(L + K)
  <2>3. w1[k] = v[k] /\ v[k] = noise[j]
    BY ONLY <1>6, <1>8, <1>9, <2>1, <2>2
  <2>. QED
    BY <1>1, <2>3
<1>13. Stands(w1, p, L + K + 1, 0)
  <2>1. w1[L + K + 1] = PacketStartByte
    <3>1. 1 \in 1..Len(q)
      BY ONLY <1>4
    <3>. QED
      BY ONLY <1>4, <1>8, <1>9, <3>1
  <2>2. ASSUME NEW j \in 1..R PROVE w1[(L + K + 1) + j] = r[j]
    <3>1. PICK i \in 1..Len(q) : i = j + 1
      <4>1. j + 1 \in 1..Len(q)
        BY ONLY <1>4, j \in 1..R
      <4>. QED
        BY <4>1
    <3>2. w1[Len(v) + i] = q[i] /\ q[j + 1] = r[j]
      BY ONLY <1>4, <1>8, j \in 1..R
    <3>3. (L + K + 1) + j = Len(v) + i
      BY ONLY <1>1, <1>9, <3>1, j \in 1..R, R \in Nat, <1>4
    <3>. QED
      BY <3>1, <3>2, <3>3
  <2>. QED
    BY <1>3, <2>1, <2>2 DEF Stands
<1>. QED
  BY <1>1, <1>4, <1>9, <1>10, <1>11, <1>12, <1>13

\* One more packet, as WritePacket appends it.
Writes(w, wr, st, d, a, noise, p, w1, wr1, st1) ==
    /\ w \in Seq(Byte) /\ Lists(wr, st) /\ d \in 0..Len(wr) /\ Laid(w, wr, st, d, a)
    /\ noise \in Noise /\ p \in Payloads
    /\ w1 = w \o noise \o Packet(p) /\ wr1 = Append(wr, p)
    /\ st1 = Append(st, Len(w \o noise) + Offset(p) + 2)

\* The frame stays laid out.
LEMMA LayWrite ==
    ASSUME NEW w, NEW wr, NEW st, NEW d, NEW a, NEW noise, NEW p, NEW w1, NEW wr1, NEW st1,
           Writes(w, wr, st, d, a, noise, p, w1, wr1, st1)
    PROVE  w1 \in Seq(Byte) /\ Lists(wr1, st1) /\ Laid(w1, wr1, st1, d, a)
<1>. /\ w \in Seq(Byte) /\ Lists(wr, st) /\ d \in 0..Len(wr) /\ Laid(w, wr, st, d, a)
     /\ noise \in Noise /\ p \in Payloads
     /\ w1 = w \o noise \o Packet(p) /\ wr1 = Append(wr, p)
     /\ st1 = Append(st, Len(w \o noise) + Offset(p) + 2)
  BY DEF Writes
<1>1. PICK N \in Nat : N = Len(wr) /\ N = Len(st)
  BY DEF Lists
<1>2. PICK L \in Nat : L = Len(w)
  OBVIOUS
<1>3. PICK K : K = Len(noise)
  OBVIOUS
<1>4. PICK R : R = Len(Rest(p))
  OBVIOUS
<1>5. PICK v : v = w \o noise
  OBVIOUS
<1>6. /\ K \in Nat /\ R \in Nat /\ Len(v) = L + K
      /\ w1 \in Seq(Byte) /\ Len(w1) = L + K + 1 + R
      /\ Same(w1, w, 1, L) /\ NoStart(w1, L + 1, L + K)
      /\ Stands(w1, p, L + K + 1, 0)
  <2>1. w1 = v \o Packet(p)
    BY <1>5
  <2>2. Puts(w, noise, p, L, K, R, v, w1)
    BY <1>2, <1>3, <1>4, <1>5, <2>1 DEF Puts
  <2>. QED
    BY ONLY WrittenBytes, <2>2
<1>7. PICK o \in Nat : o = Offset(p)
  BY PayloadRest
<1>8. PICK s \in Nat : s = Len(w \o noise) + Offset(p) + 2 /\ s = L + K + o + 2
  <2>1. Len(w \o noise) = L + K /\ K \in Nat
    BY ONLY <1>5, <1>6
  <2>2. L + K + o + 2 \in Nat
    BY ONLY <2>1, L \in Nat, o \in Nat
  <2>3. Len(w \o noise) + Offset(p) + 2 = L + K + o + 2
    BY ONLY <1>7, <2>1
  <2>. QED
    BY ONLY <2>2, <2>3
<1>9. /\ wr1 \in Seq(Payloads) /\ Len(wr1) = N + 1 /\ wr1[N + 1] = p
      /\ \A n \in 1..N : wr1[n] = wr[n]
  <2>1. wr \in Seq(Payloads)
    BY DEF Lists
  <2>2. /\ wr1 \in Seq(Payloads) /\ Len(wr1) = Len(wr) + 1 /\ wr1[Len(wr) + 1] = p
        /\ \A i \in 1..Len(wr) : wr1[i] = wr[i]
    BY ONLY AppendFacts, <2>1, p \in Payloads, wr1 = Append(wr, p)
  <2>. QED
    BY ONLY <1>1, <2>2
<1>10. /\ st1 \in Seq(Nat) /\ Len(st1) = N + 1 /\ st1[N + 1] = s
       /\ \A n \in 1..N : st1[n] = st[n]
  <2>1. st \in Seq(Nat) /\ st1 = Append(st, s)
    BY <1>8 DEF Lists
  <2>2. /\ st1 \in Seq(Nat) /\ Len(st1) = Len(st) + 1 /\ st1[Len(st) + 1] = s
        /\ \A i \in 1..Len(st) : st1[i] = st[i]
    BY ONLY AppendFacts, <2>1, s \in Nat
  <2>. QED
    BY ONLY <1>1, <2>2
<1>11. Lists(wr1, st1)
  BY <1>9, <1>10 DEF Lists
<1>12. Begin(wr1, st1, N + 1) = L + K + 1
  <2>1. Begin(wr1, st1, N + 1) = s - o - 1
    BY <1>7, <1>9, <1>10 DEF Begin
  <2>2. s = L + K + o + 2 /\ K \in Nat
    BY <1>6, <1>8
  <2>. QED
    BY ONLY <2>1, <2>2, s \in Nat, o \in Nat, L \in Nat
<1>13. Same(wr1, wr, 1, N) /\ Same(st1, st, 1, N)
  BY <1>9, <1>10 DEF Same
<1>14. /\ K \in Nat /\ R \in Nat /\ Len(wr) = N /\ Len(w) = L
       /\ Len(wr1) = N + 1 /\ wr1[N + 1] = p /\ d \in 0..N
  BY <1>1, <1>2, <1>6, <1>9
<1>15. Laid(w1, wr1, st1, d, a)
  <2>1. Grown(w, wr, st, w1, wr1, st1, d, a, p, N, L, K, R)
    BY ONLY <1>4, <1>6, <1>11, <1>12, <1>13, <1>14, Laid(w, wr, st, d, a), Lists(wr, st),
            L \in Nat, N \in Nat, p \in Payloads DEF Grown
  <2>. QED
    BY ONLY LayGrows, <2>1
<1>. QED
  BY <1>6, <1>11, <1>15

\* Every packet is within w.
LEMMA Spans ==
    ASSUME NEW w, NEW wr, NEW st, NEW d, NEW a, Lists(wr, st), Laid(w, wr, st, d, a),
           NEW n \in 1..Len(wr)
    PROVE  \E b, e, R \in Nat :
              /\ b = Begin(wr, st, n) /\ 0 < b /\ e = Finish(wr, st, n) /\ e <= Len(w)
              /\ R = Len(Rest(wr[n])) /\ R >= 3 /\ e = b + R
<1>1. /\ Begin(wr, st, n) \in Int /\ Finish(wr, st, n) \in Nat
      /\ Finish(wr, st, n) = Begin(wr, st, n) + Len(Rest(wr[n]))
      /\ Len(Rest(wr[n])) \in Nat /\ Len(Rest(wr[n])) >= 3
  BY PlaceFacts
<1>2. 0 < Begin(wr, st, n) /\ Finish(wr, st, n) <= Len(w)
  BY DEF Laid
<1>3. Begin(wr, st, n) \in Nat
  BY <1>1, <1>2
<1>. QED
  BY ONLY <1>1, <1>2, <1>3

\* What is before packet n + 1 is within w.
LEMMA Gaps ==
    ASSUME NEW w, NEW wr, NEW st, NEW d, NEW a, Lists(wr, st), Laid(w, wr, st, d, a),
           Len(w) \in Nat, NEW n \in 0..Len(wr)
    PROVE  \E e, b \in Nat :
              /\ e = Behind(wr, st, n) /\ b = NextBegin(w, wr, st, n)
              /\ e <= Len(w) /\ 0 < b /\ b <= Len(w) + 1
<1>1. Len(wr) \in Nat
  BY DEF Lists
<1>2. \E e \in Nat : e = Behind(wr, st, n) /\ e <= Len(w)
  <2>1. CASE n = 0
    BY <2>1 DEF Behind
  <2>2. CASE n # 0
    <3>1. n \in 1..Len(wr)
      BY <1>1, <2>2
    <3>2. PICK b, e, R \in Nat :
             /\ b = Begin(wr, st, n) /\ 0 < b /\ e = Finish(wr, st, n) /\ e <= Len(w)
             /\ R = Len(Rest(wr[n])) /\ R >= 3 /\ e = b + R
      BY <3>1, Spans
    <3>. QED
      BY <2>2, <3>2 DEF Behind
  <2>. QED
    BY <2>1, <2>2
<1>3. \E b \in Nat : b = NextBegin(w, wr, st, n) /\ 0 < b /\ b <= Len(w) + 1
  <2>1. CASE n = Len(wr)
    <3>1. NextBegin(w, wr, st, n) = Len(w) + 1
      BY <2>1 DEF NextBegin
    <3>. QED
      BY <3>1
  <2>2. CASE n # Len(wr)
    <3>1. n + 1 \in 1..Len(wr)
      BY <1>1, <2>2
    <3>2. PICK b, e, R \in Nat :
             /\ b = Begin(wr, st, n + 1) /\ 0 < b /\ e = Finish(wr, st, n + 1) /\ e <= Len(w)
             /\ R = Len(Rest(wr[n + 1])) /\ R >= 3 /\ e = b + R
      BY <3>1, Spans
    <3>3. b <= Len(w) + 1
      <4>1. b + R <= Len(w)
        BY <3>2
      <4>. QED
        BY <4>1
    <3>. QED
      BY <2>2, <3>2, <3>3 DEF NextBegin
  <2>. QED
    BY <2>1, <2>2
<1>. QED
  BY <1>2, <1>3

\* K bytes without a start byte behind w.
Pads(w, wr, st, d, a, w1, L, K) ==
    /\ L \in Nat /\ K \in Nat /\ Len(w) = L /\ Len(w1) = L + K
    /\ Lists(wr, st) /\ d \in 0..Len(wr) /\ Laid(w, wr, st, d, a)
    /\ Same(w1, w, 1, L) /\ NoStart(w1, L + 1, L + K)

\* Bytes without a start byte behind the last packet.
LEMMA LayPad ==
    ASSUME NEW w, NEW wr, NEW st, NEW d, NEW a, NEW w1, NEW L, NEW K,
           Pads(w, wr, st, d, a, w1, L, K)
    PROVE  Laid(w1, wr, st, d, a)
<1>. /\ L \in Nat /\ K \in Nat /\ Len(w) = L /\ Len(w1) = L + K
     /\ Lists(wr, st) /\ d \in 0..Len(wr) /\ Laid(w, wr, st, d, a)
     /\ Same(w1, w, 1, L) /\ NoStart(w1, L + 1, L + K)
  BY DEF Pads
<1>. Len(wr) \in Nat
  BY DEF Lists
<1>1. ASSUME NEW n \in 1..Len(wr)
      PROVE  /\ 0 < Begin(wr, st, n) /\ Finish(wr, st, n) <= Len(w1)
             /\ \E i \in 0..Len(wr[n]) :
                   (i = 0 <=> n # d) /\ Stands(w1, wr[n], Begin(wr, st, n), i)
  <2>1. PICK i \in 0..Len(wr[n]) : (i = 0 <=> n # d) /\ Stands(w, wr[n], Begin(wr, st, n), i)
    BY DEF Laid
  <2>2. PICK b, e, R \in Nat :
           /\ b = Begin(wr, st, n) /\ 0 < b /\ e = Finish(wr, st, n) /\ e <= Len(w)
           /\ R = Len(Rest(wr[n])) /\ R >= 3 /\ e = b + R
    BY Spans
  <2>3. PICK q \in Payloads : q = wr[n]
    BY PlaceFacts
  <2>4. Stands(w, q, b, i) /\ Same(w1, w, b, b + Len(Rest(q))) /\ b \in Int
    BY <2>1, <2>2, <2>3, SameIn
  <2>5. Stands(w1, q, b, i)
    BY ONLY StandsIn, <2>4, q \in Payloads
  <2>6. e <= L + K
    BY <2>2
  <2>. QED
    BY <2>1, <2>2, <2>3, <2>5, <2>6
<1>2. ASSUME NEW n \in 0..Len(wr)
      PROVE  NoStart(w1, Behind(wr, st, n) + 1, NextBegin(w1, wr, st, n) - 1)
  <2>1. PICK e, b \in Nat :
           /\ e = Behind(wr, st, n) /\ b = NextBegin(w, wr, st, n)
           /\ e <= L /\ 0 < b /\ b <= L + 1
    BY Gaps
  <2>2. NoStart(w, e + 1, b - 1)
    BY <2>1 DEF Laid
  <2>3. CASE n = Len(wr)
    <3>1. b = L + 1 /\ NextBegin(w1, wr, st, n) = L + K + 1
      BY <2>1, <2>3 DEF NextBegin
    <3>2. ASSUME NEW k \in (e + 1)..(L + K + 1 - 1) PROVE w1[k] # PacketStartByte
      <4>1. CASE k <= L
        <5>1. k \in 1..L /\ k \in (e + 1)..(b - 1)
          BY <3>1, <4>1
        <5>2. w1[k] = w[k]
          BY <5>1 DEF Same
        <5>3. w[k] # PacketStartByte
          BY <2>2, <5>1 DEF NoStart
        <5>. QED
          BY <5>2, <5>3
      <4>2. CASE k > L
        <5>1. k \in (L + 1)..(L + K)
          BY <4>2
        <5>. QED
          BY <5>1 DEF NoStart
      <4>. QED
        BY <4>1, <4>2
    <3>. QED
      BY <2>1, <3>1, <3>2 DEF NoStart
  <2>4. CASE n # Len(wr)
    <3>1. NextBegin(w1, wr, st, n) = b
      BY <2>1, <2>4 DEF NextBegin
    <3>2. Same(w1, w, e + 1, b - 1)
      <4>1. 1 <= e + 1 /\ b - 1 <= L /\ e + 1 \in Int /\ b - 1 \in Int
        BY <2>1
      <4>. QED
        BY <4>1, SameIn
    <3>3. NoStart(w1, e + 1, b - 1)
      BY <2>2, <3>2 DEF NoStart, Same
    <3>. QED
      BY <2>1, <3>1, <3>3
  <2>. QED
    BY <2>3, <2>4
<1>3. ASSUME d # 0, ~a
      PROVE  NoStart(w1, Begin(wr, st, d) + 1, Finish(wr, st, d))
  <2>1. d \in 1..Len(wr)
    BY <1>3
  <2>2. PICK b, e, R \in Nat :
           /\ b = Begin(wr, st, d) /\ 0 < b /\ e = Finish(wr, st, d) /\ e <= Len(w)
           /\ R = Len(Rest(wr[d])) /\ R >= 3 /\ e = b + R
    BY <2>1, Spans
  <2>3. NoStart(w, b + 1, e)
    BY <1>3, <2>2 DEF Laid
  <2>4. Same(w1, w, b + 1, e)
    <3>1. 1 <= b + 1 /\ e <= L /\ b + 1 \in Int /\ e \in Int
      BY <2>2
    <3>. QED
      BY <3>1, SameIn
  <2>5. NoStart(w1, b + 1, e)
    BY <2>3, <2>4 DEF NoStart, Same
  <2>. QED
    BY <2>2, <2>5
<1>4. \A n, m \in 1..Len(wr) : n < m => Finish(wr, st, n) < Begin(wr, st, m)
  BY DEF Laid
<1>. QED
  BY <1>1, <1>2, <1>3, <1>4 DEF Laid

\* The i-th byte of payload n is another one, and a1 says whether there is a
\* start byte inside its packet now.
Damages(w, wr, st, a, n, i, at, w1, a1) ==
    /\ Lists(wr, st) /\ Len(w) \in Nat /\ Laid(w, wr, st, 0, a)
    /\ n \in 1..Len(wr) /\ i \in 1..Len(wr[n]) /\ at = st[n] + i - 1
    /\ Len(w1) = Len(w) /\ w1[at] # w[at]
    /\ \A k \in 1..Len(w) : k # at => w1[k] = w[k]
    /\ a1 <=> \E k \in (st[n] - Offset(wr[n]))..(st[n] + Len(wr[n])) :
              w1[k] = PacketStartByte

\* Another byte inside a payload.
LEMMA LayDamage ==
    ASSUME NEW w, NEW wr, NEW st, NEW a, NEW n, NEW i, NEW at, NEW w1, NEW a1,
           Damages(w, wr, st, a, n, i, at, w1, a1)
    PROVE  at \in 1..Len(w) /\ Laid(w1, wr, st, n, a1)
<1>. /\ Lists(wr, st) /\ Len(w) \in Nat /\ Laid(w, wr, st, 0, a)
     /\ n \in 1..Len(wr) /\ i \in 1..Len(wr[n]) /\ at = st[n] + i - 1
     /\ Len(w1) = Len(w) /\ w1[at] # w[at]
     /\ \A k \in 1..Len(w) : k # at => w1[k] = w[k]
     /\ a1 <=> \E k \in (st[n] - Offset(wr[n]))..(st[n] + Len(wr[n])) :
              w1[k] = PacketStartByte
  BY DEF Damages
<1>. PICK L \in Nat : L = Len(w) /\ L = Len(w1)
  OBVIOUS
<1>. Len(wr) \in Nat
  BY DEF Lists
<1>1. PICK b, e, R \in Nat :
         /\ b = Begin(wr, st, n) /\ 0 < b /\ e = Finish(wr, st, n) /\ e <= L
         /\ R = Len(Rest(wr[n])) /\ R >= 3 /\ e = b + R
  BY Spans
<1>2. PICK q \in Payloads : q = wr[n]
  BY PlaceFacts
<1>3. PICK o, m, s \in Nat : o = Offset(q) /\ m = Len(q) /\ s = st[n] /\ R = o + m + 1
  <2>1. st[n] \in Nat
    BY PlaceFacts
  <2>2. Offset(q) \in Nat /\ Len(q) \in Nat /\ Len(Rest(q)) = Offset(q) + Len(q) + 1
    BY PayloadRest
  <2>3. R = Offset(q) + Len(q) + 1
    BY <1>1, <1>2, <2>2
  <2>. QED
    BY <2>1, <2>2, <2>3
<1>4. b = s - o - 1 /\ e = s + m
  BY <1>1, <1>2, <1>3 DEF Begin, Finish
<1>5. i \in 1..m /\ at = s + i - 1
  BY <1>2, <1>3
<1>6. at \in Nat /\ at = b + (o + i) /\ o + i \in 1..R /\ b < at /\ at < e /\ at \in 1..L
  <2>1. e <= L /\ i \in 1..m /\ R = o + m + 1
    BY <1>1, <1>3, <1>5
  <2>. QED
    BY ONLY <1>4, <1>5, <2>1, b \in Nat, e \in Nat, o \in Nat, m \in Nat, s \in Nat, L \in Nat
<1>7. \A k \in 1..L : k # at => w1[k] = w[k]
  OBVIOUS
\* The other packets and what is between them.
<1>8. ASSUME NEW x \in Int, NEW y \in Int, 1 <= x, y <= L, y < at \/ at < x
      PROVE  Same(w1, w, x, y)
  <2>. SUFFICES ASSUME NEW k \in x..y PROVE w1[k] = w[k]
    BY DEF Same
  <2>1. k \in 1..L /\ k # at
    BY ONLY <1>6, <1>8, k \in x..y, x \in Int, y \in Int, L \in Nat
  <2>. QED
    BY <1>7, <2>1
<1>9. ASSUME NEW j \in 1..Len(wr)
      PROVE  /\ 0 < Begin(wr, st, j) /\ Finish(wr, st, j) <= Len(w1)
             /\ \E h \in 0..Len(wr[j]) :
                   (h = 0 <=> j # n) /\ Stands(w1, wr[j], Begin(wr, st, j), h)
  <2>1. PICK h \in 0..Len(wr[j]) : (h = 0 <=> j # 0) /\ Stands(w, wr[j], Begin(wr, st, j), h)
    BY DEF Laid
  <2>2. h = 0
    BY <2>1
  <2>3. PICK bj, ej, Rj \in Nat :
           /\ bj = Begin(wr, st, j) /\ 0 < bj /\ ej = Finish(wr, st, j) /\ ej <= L
           /\ Rj = Len(Rest(wr[j])) /\ Rj >= 3 /\ ej = bj + Rj
    BY Spans
  <2>4. CASE j = n
    <3>1. bj = b /\ Rj = R /\ wr[j] = q /\ Stands(w, q, b, 0)
      BY <1>1, <1>2, <2>1, <2>2, <2>3, <2>4
    <3>2. w1[b] = w[b]
      <4>1. b \in 1..L /\ b # at
        <5>1. 0 < b /\ e <= L
          BY <1>1
        <5>. QED
          BY ONLY <1>6, <5>1, b \in Nat, e \in Nat, L \in Nat
      <4>. QED
        BY <1>7, <4>1
    <3>3. PICK r : r = Rest(q) /\ R = Len(r)
      BY <1>1, <1>2
    <3>4. w[b] = PacketStartByte /\ \A k \in 1..R : w[b + k] = r[k]
      BY <3>1, <3>3 DEF Stands
    <3>5. ASSUME NEW k \in 1..R
          PROVE  w1[b + k] = r[k] <=> ~(i # 0 /\ k = o + i)
      <4>1. CASE k = o + i
        <5>1. b + k = at /\ i # 0
          BY <1>5, <1>6, <4>1
        <5>2. w[at] = r[k] /\ w1[at] # w[at]
          BY <3>4, <5>1
        <5>. QED
          BY <4>1, <5>1, <5>2
      <4>2. CASE k # o + i
        <5>1. b + k \in 1..L /\ b + k # at
          <6>1. b + R <= L
            BY <1>1
          <6>. QED
            BY ONLY <1>6, <4>2, <6>1, b \in Nat, k \in 1..R, R \in Nat, L \in Nat, o \in Nat,
                    <1>5, m \in Nat
        <5>. QED
          BY <1>7, <3>4, <4>2, <5>1
      <4>. QED
        BY <4>1, <4>2
    <3>6. Stands(w1, q, b, i)
      BY <1>3, <3>2, <3>3, <3>4, <3>5 DEF Stands
    <3>7. i \in 0..Len(wr[j]) /\ i # 0
      BY <1>2, <1>3, <1>5, <3>1
    <3>. QED
      BY <2>3, <2>4, <3>1, <3>6, <3>7
  <2>5. CASE j # n
    <3>1. ej < b \/ e < bj
      <4>1. j < n \/ n < j
        BY <2>5
      <4>2. /\ j < n => Finish(wr, st, j) < Begin(wr, st, n)
            /\ n < j => Finish(wr, st, n) < Begin(wr, st, j)
        BY DEF Laid
      <4>. QED
        BY <1>1, <2>3, <4>1, <4>2
    <3>2. Same(w1, w, bj, bj + Rj)
      <4>1. bj \in Int /\ bj + Rj \in Int /\ 1 <= bj /\ bj + Rj <= L
        BY <2>3
      <4>2. bj + Rj < at \/ at < bj
        <5>1. ej = bj + Rj
          BY <2>3
        <5>. QED
          BY ONLY <1>6, <3>1, <5>1, b \in Nat, e \in Nat, bj \in Nat, ej \in Nat, Rj \in Nat
      <4>. QED
        BY <1>8, <4>1, <4>2
    <3>3. PICK p \in Payloads : p = wr[j]
      BY PlaceFacts
    <3>4. Stands(w, p, bj, 0) /\ Same(w1, w, bj, bj + Len(Rest(p))) /\ bj \in Int
      BY <2>1, <2>2, <2>3, <3>2, <3>3
    <3>5. Stands(w1, p, bj, 0)
      BY ONLY StandsIn, <3>4, p \in Payloads
    <3>6. 0 \in 0..Len(wr[j])
      BY <2>1, <2>2
    <3>. QED
      BY <2>3, <2>5, <3>3, <3>5, <3>6
  <2>. QED
    BY <2>4, <2>5
<1>10. \A j, k \in 1..Len(wr) : j < k => Finish(wr, st, j) < Begin(wr, st, k)
  BY DEF Laid
<1>11. ASSUME NEW j \in 0..Len(wr)
       PROVE  NoStart(w1, Behind(wr, st, j) + 1, NextBegin(w1, wr, st, j) - 1)
  <2>1. PICK ej, bj \in Nat :
           /\ ej = Behind(wr, st, j) /\ bj = NextBegin(w, wr, st, j)
           /\ ej <= L /\ 0 < bj /\ bj <= L + 1
    BY Gaps
  <2>2. NoStart(w, ej + 1, bj - 1)
    BY <2>1 DEF Laid
  <2>3. NextBegin(w1, wr, st, j) = bj
    BY <2>1 DEF NextBegin
  <2>4. bj <= b \/ e <= ej
    <3>1. CASE j < n
      <4>1. j # Len(wr) /\ j + 1 \in 1..Len(wr) /\ (j + 1 = n \/ j + 1 < n)
        BY <3>1
      <4>2. bj = Begin(wr, st, j + 1)
        BY <2>1, <4>1 DEF NextBegin
      <4>3. CASE j + 1 = n
        BY <1>1, <4>2, <4>3
      <4>4. CASE j + 1 < n
        <5>1. Finish(wr, st, j + 1) < b
          BY <1>1, <1>10, <4>1, <4>4
        <5>2. PICK b2, e2, R2 \in Nat :
           /\ b2 = Begin(wr, st, j + 1) /\ 0 < b2 /\ e2 = Finish(wr, st, j + 1) /\ e2 <= L
           /\ R2 = Len(Rest(wr[j + 1])) /\ R2 >= 3 /\ e2 = b2 + R2
          BY <4>1, Spans
        <5>3. b2 = bj /\ e2 = b2 + R2 /\ e2 < b
          BY <4>2, <5>1, <5>2
        <5>. QED
          BY ONLY <5>3, b2 \in Nat, R2 \in Nat, b \in Nat
      <4>. QED
        BY <4>1, <4>3, <4>4
    <3>2. CASE j = n
      <4>1. j # 0
        BY <3>2
      <4>2. ej = e
        BY <1>1, <2>1, <3>2, <4>1 DEF Behind
      <4>. QED
        BY <4>2
    <3>3. CASE n < j
      <4>1. j # 0 /\ j \in 1..Len(wr)
        BY <3>3
      <4>2. ej = Finish(wr, st, j)
        BY <2>1, <4>1 DEF Behind
      <4>3. e < Begin(wr, st, j)
        BY <1>1, <1>10, <3>3, <4>1
      <4>4. PICK b2, e2, R2 \in Nat :
           /\ b2 = Begin(wr, st, j) /\ 0 < b2 /\ e2 = Finish(wr, st, j) /\ e2 <= L
           /\ R2 = Len(Rest(wr[j])) /\ R2 >= 3 /\ e2 = b2 + R2
        BY <4>1, Spans
      <4>5. ej = b2 + R2 /\ e < b2
        BY <4>2, <4>3, <4>4
      <4>. QED
        BY ONLY <4>5, b2 \in Nat, R2 \in Nat, e \in Nat
    <3>. QED
      BY <3>1, <3>2, <3>3
  <2>5. Same(w1, w, ej + 1, bj - 1)
    <3>1. /\ ej + 1 \in Int /\ bj - 1 \in Int /\ 1 <= ej + 1 /\ bj - 1 <= L
          /\ bj - 1 < at \/ at < ej + 1
      <4>1. b < at /\ at < e /\ at \in Nat /\ ej <= L /\ 0 < bj /\ bj <= L + 1
        BY <1>6, <2>1
      <4>. QED
        BY ONLY <2>4, <4>1, b \in Nat, e \in Nat, bj \in Nat, ej \in Nat, L \in Nat
    <3>. QED
      BY <1>8, <3>1
  <2>6. NoStart(w1, ej + 1, bj - 1)
    BY <2>2, <2>5 DEF NoStart, Same
  <2>. QED
    BY <2>1, <2>3, <2>6
<1>12. ASSUME ~a1 PROVE NoStart(w1, Begin(wr, st, n) + 1, Finish(wr, st, n))
  <2>1. \A k \in (s - o)..(s + m) : w1[k] # PacketStartByte
    BY <1>2, <1>3, <1>12
  <2>2. b + 1 = s - o /\ e = s + m
    BY <1>4
  <2>3. NoStart(w1, b + 1, e)
    BY <2>1, <2>2 DEF NoStart
  <2>. QED
    BY <1>1, <2>3
<1>13. Laid(w1, wr, st, n, a1)
  BY <1>9, <1>10, <1>11, <1>12 DEF Laid
<1>. QED
  BY <1>6, <1>13

-----------------------------------------------------------------------------
(* Reading a frame that is laid out. *)

\* The reader has the part f of w behind o; it is before packet m + 1, with no
\* start byte in between.
At(f, w, wr, st, o, m) ==
    /\ o \in 0..Len(w) /\ m \in 0..Len(wr) /\ Len(f) = Len(w) - o
    /\ \A k \in 1..Len(f) : f[k] = w[o + k]
    /\ o < NextBegin(w, wr, st, m) /\ NoStart(w, o + 1, NextBegin(w, wr, st, m) - 1)

\* Behind the last packet the reader finds no start byte.
LEMMA AtEnd ==
    ASSUME NEW w, Len(w) \in Nat, NEW f \in Seq(Byte), NEW wr, NEW st, NEW o,
           At(f, w, wr, st, o, Len(wr))
    PROVE  NextStart(f) = 0
<1>1. PICK L \in Nat : L = Len(w)
  OBVIOUS
<1>2. /\ o \in 0..L /\ Len(f) = L - o /\ \A k \in 1..(L - o) : f[k] = w[o + k]
      /\ NoStart(w, o + 1, (L + 1) - 1)
  BY <1>1 DEF At, NextBegin
<1>3. SUFFICES ASSUME NextStart(f) # 0 PROVE FALSE
  OBVIOUS
<1>4. PICK k \in 1..Len(f) : k = NextStart(f) /\ f[k] = PacketStartByte
  BY <1>3, StartFacts
<1>5. k \in 1..(L - o) /\ o + k \in (o + 1)..((L + 1) - 1)
  BY ONLY <1>2, k \in 1..Len(f), L \in Nat
<1>. QED
  BY <1>2, <1>4, <1>5 DEF NoStart

\* The reader is before packet m + 1, which begins at b, and t is what it has
\* behind the next start byte.
Nears(w, f, wr, st, d, a, o, m, b, t) ==
    /\ w \in Seq(Byte) /\ f \in Seq(Byte) /\ Lists(wr, st)
    /\ Laid(w, wr, st, d, a) /\ At(f, w, wr, st, o, m) /\ m # Len(wr)
    /\ b = Begin(wr, st, m + 1) /\ t = SubSeq(f, NextStart(f) + 1, Len(f))

\* Before packet m + 1 it finds that one.
LEMMA AtNext ==
    ASSUME NEW w, NEW f, NEW wr, NEW st, NEW d, NEW a, NEW o, NEW m, NEW b, NEW t,
           Nears(w, f, wr, st, d, a, o, m, b, t)
    PROVE  /\ m + 1 \in 1..Len(wr) /\ b \in Nat /\ b + Len(Rest(wr[m + 1])) <= Len(w)
           /\ NextStart(f) # 0 /\ Len(f) - NextStart(f) >= 3
           /\ t \in Seq(Byte) /\ Len(t) = Len(w) - b
           /\ \A k \in 1..(Len(w) - b) : t[k] = w[b + k]
<1>. /\ w \in Seq(Byte) /\ f \in Seq(Byte) /\ Lists(wr, st)
     /\ Laid(w, wr, st, d, a) /\ At(f, w, wr, st, o, m) /\ m # Len(wr)
     /\ b = Begin(wr, st, m + 1) /\ t = SubSeq(f, NextStart(f) + 1, Len(f))
  BY DEF Nears
<1>1. PICK L \in Nat : L = Len(w)
  OBVIOUS
<1>2. m \in 0..Len(wr) /\ m + 1 \in 1..Len(wr)
  BY DEF At, Lists
<1>3. PICK b0, e, R \in Nat :
         /\ b0 = Begin(wr, st, m + 1) /\ 0 < b0 /\ e = Finish(wr, st, m + 1) /\ e <= L
         /\ R = Len(Rest(wr[m + 1])) /\ R >= 3 /\ e = b0 + R
  BY <1>1, <1>2, Spans
<1>4. b = b0 /\ b \in Nat /\ b + R <= L /\ R >= 3 /\ 0 < b
  BY <1>3
<1>5. NextBegin(w, wr, st, m) = b
  BY DEF NextBegin
<1>6. /\ o \in 0..L /\ Len(f) = L - o /\ \A k \in 1..(L - o) : f[k] = w[o + k]
      /\ o < b /\ NoStart(w, o + 1, b - 1)
  BY <1>1, <1>5 DEF At
<1>7. w[b] = PacketStartByte
  BY <1>2 DEF Laid, Stands
<1>8. PICK n \in 1..Len(f) : n = b - o
  <2>1. b - o \in 1..Len(f)
    BY ONLY <1>4, <1>6, L \in Nat, R \in Nat
  <2>. QED
    BY <2>1
<1>9. n \in Nat /\ o + n = b /\ Len(f) - n = L - b /\ n \in 1..(L - o) /\ L - b >= 3 /\ n # 0
  BY ONLY <1>4, <1>6, <1>8, L \in Nat, R \in Nat
<1>10. NextStart(f) = n
  <2>1. f[n] = PacketStartByte
    BY <1>6, <1>7, <1>9
  <2>2. ASSUME NEW k \in 1..Len(f), k < n PROVE f[k] # PacketStartByte
    <3>1. k \in 1..(L - o) /\ o + k \in (o + 1)..(b - 1)
      BY ONLY <1>4, <1>6, <1>9, <2>2, k \in 1..Len(f), L \in Nat
    <3>. QED
      BY <1>6, <3>1 DEF NoStart
  <2>. QED
    BY <2>1, <2>2, StartIs
<1>11. /\ t \in Seq(Byte) /\ Len(t) = Len(f) - n
       /\ \A k \in 1..(Len(f) - n) : t[k] = f[n + k]
  <2>1. t = SubSeq(f, n + 1, Len(f)) /\ Len(f) \in Nat /\ n <= Len(f) /\ Len(f) <= Len(f) /\ n \in Nat
    BY <1>9, <1>10
  <2>. QED
    BY ONLY CutFacts, <2>1, f \in Seq(Byte)
<1>12. ASSUME NEW k \in 1..(L - b) PROVE t[k] = w[b + k]
  <2>1. k \in 1..(Len(f) - n) /\ n + k \in 1..(L - o) /\ o + (n + k) = b + k
    BY ONLY <1>4, <1>6, <1>9, k \in 1..(L - b), L \in Nat
  <2>2. t[k] = f[n + k] /\ f[n + k] = w[o + (n + k)]
    BY <1>6, <1>11, <2>1
  <2>. QED
    BY <2>1, <2>2
<1>. QED
  BY <1>1, <1>2, <1>3, <1>4, <1>9, <1>10, <1>11, <1>12

\* Behind a packet the search goes on to the next one.
LEMMA AtBehind ==
    ASSUME NEW w, Len(w) \in Nat, NEW wr, NEW st, NEW d, NEW a, Lists(wr, st),
           Laid(w, wr, st, d, a), NEW n \in 1..Len(wr), NEW e, e = Finish(wr, st, n)
    PROVE  e < NextBegin(w, wr, st, n) /\ NoStart(w, e + 1, NextBegin(w, wr, st, n) - 1)
<1>1. Len(wr) \in Nat /\ n \in 0..Len(wr) /\ n # 0
  BY DEF Lists
<1>2. e = Behind(wr, st, n)
  BY <1>1 DEF Behind
<1>3. e < NextBegin(w, wr, st, n)
  <2>1. CASE n = Len(wr)
    <3>1. e \in Nat /\ e <= Len(w) /\ NextBegin(w, wr, st, n) = Len(w) + 1
      BY <2>1, PlaceFacts DEF Laid, NextBegin
    <3>. QED
      BY <3>1
  <2>2. CASE n # Len(wr)
    <3>1. n + 1 \in 1..Len(wr) /\ n < n + 1
      BY <1>1, <2>2
    <3>. QED
      BY <2>2, <3>1 DEF NextBegin, Laid
  <2>. QED
    BY <2>1, <2>2
<1>4. NoStart(w, e + 1, NextBegin(w, wr, st, n) - 1)
  BY <1>1, <1>2 DEF Laid
<1>. QED
  BY <1>3, <1>4

\* As Nears, where no start byte is inside a damaged packet and the length of
\* packet m + 1 is not the one that its length byte does not tell.
Meets(w, f, wr, st, d, a, o, m, t) ==
    /\ w \in Seq(Byte) /\ f \in Seq(Byte) /\ Lists(wr, st)
    /\ Laid(w, wr, st, d, a) /\ At(f, w, wr, st, o, m) /\ m # Len(wr)
    /\ Len(wr[m + 1]) # Base /\ (d = 0 \/ ~a)
    /\ t = SubSeq(f, NextStart(f) + 1, Len(f))

\* One step of the reader before packet m + 1: an intact packet is read, a
\* damaged one is refused, and the reader is before the packet that follows.
LEMMA ReadsNext ==
    ASSUME NEW w, NEW f, NEW wr, NEW st, NEW d, NEW a, NEW o, NEW m, NEW t,
           Meets(w, f, wr, st, d, a, o, m, t)
    PROVE  /\ m + 1 \in 1..Len(wr) /\ t \in Seq(Byte)
           /\ NextStart(f) # 0 /\ Len(f) - NextStart(f) >= 3
           /\ Fits(t) /\ PktLen(t) \in Nat /\ PktLen(t) <= Len(t)
           /\ m + 1 # d => /\ Checksum(Slice(t)) = 0 /\ Payload(t) = wr[m + 1]
                           /\ \E n : At(SubSeq(t, PktLen(t) + 1, Len(t)), w, wr, st, n, m + 1)
           /\ m + 1 = d => Checksum(Slice(t)) # 0 /\ \E n : At(t, w, wr, st, n, m + 1)
<1>. /\ w \in Seq(Byte) /\ f \in Seq(Byte) /\ Lists(wr, st)
     /\ Laid(w, wr, st, d, a) /\ At(f, w, wr, st, o, m) /\ m # Len(wr)
     /\ Len(wr[m + 1]) # Base /\ (d = 0 \/ ~a)
     /\ t = SubSeq(f, NextStart(f) + 1, Len(f))
  BY DEF Meets
<1>1. PICK L \in Nat : L = Len(w)
  OBVIOUS
<1>2. PICK b : b = Begin(wr, st, m + 1)
  OBVIOUS
<1>3. /\ m + 1 \in 1..Len(wr) /\ b \in Nat /\ b + Len(Rest(wr[m + 1])) <= L
      /\ NextStart(f) # 0 /\ Len(f) - NextStart(f) >= 3
      /\ t \in Seq(Byte) /\ Len(t) = L - b
      /\ \A k \in 1..(L - b) : t[k] = w[b + k]
  <2>1. /\ m + 1 \in 1..Len(wr) /\ b \in Nat /\ b + Len(Rest(wr[m + 1])) <= Len(w)
        /\ NextStart(f) # 0 /\ Len(f) - NextStart(f) >= 3
        /\ t \in Seq(Byte) /\ Len(t) = Len(w) - b
        /\ \A k \in 1..(Len(w) - b) : t[k] = w[b + k]
    <3>1. Nears(w, f, wr, st, d, a, o, m, b, t)
      BY <1>2 DEF Nears
    <3>. QED
      BY ONLY AtNext, <3>1
  <2>. QED
    BY <1>1, <2>1
<1>4. PICK p \in Payloads : p = wr[m + 1]
  BY <1>3, PlaceFacts
<1>5. PICK R \in Nat : R = Len(Rest(p)) /\ b + R <= L
  BY <1>3, <1>4, PayloadRest
<1>6. PICK i \in 0..Len(p) : (i = 0 <=> m + 1 # d) /\ Stands(w, p, b, i)
  BY <1>2, <1>3, <1>4 DEF Laid
<1>7. Shows(t, p, i)
  <2>1. ASSUME NEW j \in 1..R PROVE t[j] = w[b + j]
    <3>1. j \in 1..(L - b)
      BY ONLY <1>3, <1>5, L \in Nat, j \in 1..R, R \in Nat
    <3>. QED
      BY <1>3, <3>1
  <2>. QED
    BY <1>5, <1>6, <2>1 DEF Shows, Stands
<1>8. /\ PktLen(t) = R /\ Fits(t)
      /\ Checksum(Slice(t)) = 0 <=> i = 0
      /\ i = 0 => Payload(t) = p
  <2>1. p \in Seq(Byte) \ {<<>>} /\ Len(p) < Base * Base /\ Len(p) # Base
    BY <1>4, PayloadFacts
  <2>2. Len(Rest(p)) <= Len(t)
    BY ONLY <1>3, <1>5, L \in Nat, R \in Nat
  <2>3. /\ PktLen(t) = Len(Rest(p)) /\ Fits(t)
        /\ Checksum(Slice(t)) = 0 <=> i = 0
        /\ i = 0 => Payload(t) = p
    BY ONLY ReadsRest, <1>3, <1>7, <2>1, <2>2, i \in 0..Len(p)
  <2>. QED
    BY <1>5, <2>3
<1>9. PICK e : e = Finish(wr, st, m + 1)
  OBVIOUS
<1>10. e < NextBegin(w, wr, st, m + 1) /\ NoStart(w, e + 1, NextBegin(w, wr, st, m + 1) - 1)
  BY <1>1, <1>3, <1>9, AtBehind
<1>11. e = b + R /\ e \in Nat /\ e <= L /\ R <= L - b
  <2>1. e = b + R
    <3>1. Finish(wr, st, m + 1) = Begin(wr, st, m + 1) + Len(Rest(wr[m + 1]))
      BY ONLY PlaceFacts, <1>3, Lists(wr, st), SMTT(20)
    <3>. QED
      BY ONLY <1>2, <1>4, <1>5, <1>9, <3>1
  <2>. QED
    BY ONLY <1>3, <1>5, <2>1, L \in Nat, R \in Nat
<1>12. ASSUME m + 1 # d
       PROVE  At(SubSeq(t, R + 1, Len(t)), w, wr, st, e, m + 1)
  <2>1. PICK u : u = SubSeq(t, R + 1, Len(t))
    OBVIOUS
  <2>2. PICK T \in Nat : T = Len(t) /\ T = L - b /\ R <= T /\ T <= Len(t)
    <3>1. L - b \in Nat /\ Len(t) = L - b /\ R <= L - b
      BY ONLY <1>3, <1>11, R \in Nat, L \in Nat
    <3>. QED
      BY ONLY <3>1, R \in Nat
  <2>3. Len(u) = T - R /\ \A k \in 1..(T - R) : u[k] = t[R + k]
    <3>1. t \in Seq(Byte) /\ u = SubSeq(t, R + 1, T)
      BY <1>3, <2>1, <2>2
    <3>2. /\ SubSeq(t, R + 1, T) \in Seq(Byte) /\ Len(SubSeq(t, R + 1, T)) = T - R
          /\ \A k \in 1..(T - R) : SubSeq(t, R + 1, T)[k] = t[R + k]
      BY ONLY CutFacts, <2>2, <3>1, R \in Nat, T \in Nat
    <3>. QED
      BY <3>1, <3>2
  <2>4. ASSUME NEW k \in 1..(T - R) PROVE u[k] = w[e + k]
    <3>1. R + k \in 1..(L - b) /\ b + (R + k) = e + k
      <4>1. b \in Nat /\ e = b + R /\ T = L - b
        BY <1>3, <1>11, <2>2
      <4>. QED
        BY ONLY <4>1, k \in 1..(T - R), R \in Nat, T \in Nat, L \in Nat
    <3>2. u[k] = t[R + k] /\ t[R + k] = w[b + (R + k)]
      BY <1>3, <2>3, <3>1
    <3>. QED
      BY <3>1, <3>2
  <2>5. Len(u) = L - e /\ Len(u) = T - R
    BY ONLY <1>3, <1>11, <2>2, <2>3, R \in Nat, T \in Nat, L \in Nat
  <2>6. \A k \in 1..Len(u) : u[k] = w[e + k]
    BY <2>4, <2>5
  <2>7. e \in 0..L /\ m + 1 \in 0..Len(wr)
    <3>1. Len(wr) \in Nat
      BY DEF Lists
    <3>. QED
      BY <1>3, <1>11, <3>1
  <2>. QED
    BY <1>1, <1>10, <2>1, <2>5, <2>6, <2>7 DEF At
<1>13. ASSUME m + 1 = d PROVE At(t, w, wr, st, b, m + 1)
  <2>1. Len(wr) \in Nat /\ d # 0 /\ ~a
    <3>1. Len(wr) \in Nat
      BY DEF Lists
    <3>2. d \in 1..Len(wr)
      BY ONLY <1>3, <1>13
    <3>3. d # 0
      BY ONLY <3>1, <3>2
    <3>. QED
      BY <3>1, <3>3
  <2>2. NoStart(w, b + 1, e)
    BY <1>2, <1>9, <1>13, <2>1 DEF Laid
  <2>3. PICK c : c = NextBegin(w, wr, st, m + 1)
    OBVIOUS
  <2>4. c \in Int
    <3>1. m + 1 \in 0..Len(wr)
      BY <1>3, <2>1
    <3>. QED
      BY <1>1, <2>3, <3>1, Gaps
  <2>5. b < c /\ e < c
    BY ONLY <1>3, <1>10, <1>11, <2>3, <2>4, R \in Nat
  <2>6. ASSUME NEW k \in (b + 1)..(c - 1) PROVE w[k] # PacketStartByte
    <3>1. k \in (b + 1)..e \/ k \in (e + 1)..(c - 1)
      <4>1. b \in Nat /\ e \in Nat
        BY <1>3, <1>11
      <4>. QED
        BY ONLY <2>4, <4>1, k \in (b + 1)..(c - 1)
    <3>. QED
      BY <1>10, <2>2, <2>3, <3>1 DEF NoStart
  <2>7. b \in 0..L /\ m + 1 \in 0..Len(wr)
    <3>1. b <= L
      BY ONLY <1>3, <1>5, L \in Nat, R \in Nat
    <3>. QED
      BY <1>3, <2>1, <3>1
  <2>8. Len(t) = L - b /\ \A k \in 1..Len(t) : t[k] = w[b + k]
    BY <1>3
  <2>9. NoStart(w, b + 1, c - 1)
    BY <2>6 DEF NoStart
  <2>. QED
    BY <1>1, <2>3, <2>5, <2>7, <2>8, <2>9 DEF At
<1>14. R <= Len(t)
  BY ONLY <1>3, <1>5, L \in Nat, R \in Nat
<1>. QED
  BY <1>3, <1>4, <1>6, <1>8, <1>12, <1>13, <1>14

-----------------------------------------------------------------------------
(* What has been read. *)

\* g has the first m payloads of wr, without the damaged one.
Got(wr, d, g, m) ==
    /\ Len(g) = IF d # 0 /\ d <= m THEN m - 1 ELSE m
    /\ \A i \in 1..Len(g) : g[i] = IF d # 0 /\ d <= m /\ i >= d THEN wr[i + 1] ELSE wr[i]

\* At first nothing has been read.
LEMMA GotNothing ==
    ASSUME NEW wr, NEW d \in Nat
    PROVE  Got(wr, d, <<>>, 0)
  BY DEF Got

\* An intact packet is one more payload, the damaged one is passed over.
LEMMA GotNext ==
    ASSUME NEW S, NEW wr \in Seq(S), NEW g \in Seq(S), NEW d \in 0..Len(wr), NEW m \in Nat,
           m + 1 \in 1..Len(wr), Got(wr, d, g, m)
    PROVE  /\ m + 1 = d => Got(wr, d, g, m + 1)
           /\ m + 1 # d => Got(wr, d, Append(g, wr[m + 1]), m + 1)
<1>1. PICK N \in Nat : N = Len(wr) /\ d \in 0..N /\ m + 1 \in 1..N
  OBVIOUS
<1>2. PICK G \in Nat : G = Len(g)
  OBVIOUS
<1>3. /\ G = IF d # 0 /\ d <= m THEN m - 1 ELSE m
      /\ \A i \in 1..G : g[i] = IF d # 0 /\ d <= m /\ i >= d THEN wr[i + 1] ELSE wr[i]
  BY <1>2 DEF Got
<1>4. ASSUME m + 1 = d PROVE Got(wr, d, g, m + 1)
  <2>1. d # 0 /\ ~(d <= m) /\ d <= m + 1 /\ G = (m + 1) - 1 /\ d \in Nat
    BY <1>1, <1>3, <1>4
  <2>2. ASSUME NEW i \in 1..G PROVE ~(i >= d) /\ g[i] = wr[i]
    BY <1>3, <2>1
  <2>. QED
    BY <1>2, <2>1, <2>2 DEF Got
<1>5. ASSUME m + 1 # d PROVE Got(wr, d, Append(g, wr[m + 1]), m + 1)
  <2>1. PICK x \in S : x = wr[m + 1]
    OBVIOUS
  <2>2. PICK h : h = Append(g, x)
    OBVIOUS
  <2>3. g \in Seq(S) /\ x \in S
    OBVIOUS
  <2>4. /\ h \in Seq(S) /\ Len(h) = Len(g) + 1 /\ h[Len(g) + 1] = x
        /\ \A i \in 1..Len(g) : h[i] = g[i]
    BY ONLY AppendFacts, <2>2, <2>3
  <2>5. Len(h) = G + 1 /\ h[G + 1] = wr[m + 1] /\ \A i \in 1..G : h[i] = g[i]
    BY ONLY <1>2, <2>1, <2>4
  <2>6. (d <= m + 1 <=> d <= m) /\ d \in Nat
    BY <1>1, <1>5
  <2>7. G + 1 = IF d # 0 /\ d <= m + 1 THEN (m + 1) - 1 ELSE m + 1
    BY <1>1, <1>3, <2>6
  <2>8. ASSUME NEW i \in 1..(G + 1)
        PROVE  h[i] = IF d # 0 /\ d <= m + 1 /\ i >= d THEN wr[i + 1] ELSE wr[i]
    <3>1. CASE i \in 1..G
      BY <1>3, <2>5, <2>6, <3>1
    <3>2. CASE i = G + 1
      <4>1. CASE d # 0 /\ d <= m
        <5>1. i = m /\ i >= d /\ i + 1 = m + 1
          BY <1>3, <2>6, <3>2, <4>1
        <5>. QED
          BY <2>5, <2>6, <3>2, <4>1, <5>1
      <4>2. CASE ~(d # 0 /\ d <= m)
        <5>1. i = m + 1
          BY <1>3, <3>2, <4>2
        <5>. QED
          BY <2>5, <2>6, <3>2, <4>2, <5>1
      <4>. QED
        BY <4>1, <4>2
    <3>. QED
      BY <3>1, <3>2
  <2>9. Got(wr, d, h, m + 1)
    BY <2>5, <2>7, <2>8 DEF Got
  <2>. QED
    BY <2>1, <2>2, <2>9
<1>. QED
  BY <1>4, <1>5

LEMMA RemoveFacts ==
    ASSUME NEW S, NEW s \in Seq(S), NEW k \in 1..Len(s)
    PROVE  /\ RemoveAt(s, k) \in Seq(S) /\ Len(s) \in Nat
           /\ Len(RemoveAt(s, k)) = Len(s) - 1
           /\ \A i \in 1..(Len(s) - 1) :
                 RemoveAt(s, k)[i] = IF i < k THEN s[i] ELSE s[i + 1]
<1>1. Len(s) \in Nat /\ k \in Nat /\ k >= 1 /\ k <= Len(s)
  OBVIOUS
<1>2. PICK a : a = SubSeq(s, 1, k - 1)
  OBVIOUS
<1>3. PICK b : b = SubSeq(s, k + 1, Len(s))
  OBVIOUS
<1>4. Len(a) = k - 1 /\ \A i \in 1..(k - 1) : a[i] = s[i]
  BY <1>1, <1>2
<1>5. Len(b) = Len(s) - k /\ \A i \in 1..(Len(s) - k) : b[i] = s[k + i]
  BY <1>1, <1>3
<1>6. a \in Seq(S) /\ b \in Seq(S)
  BY <1>1, <1>2, <1>3
<1>7. RemoveAt(s, k) = a \o b
  BY <1>2, <1>3 DEF RemoveAt
<1>8. /\ a \o b \in Seq(S) /\ Len(a \o b) = Len(a) + Len(b)
      /\ \A i \in 1..Len(a) : (a \o b)[i] = a[i]
      /\ \A i \in 1..Len(b) : (a \o b)[Len(a) + i] = b[i]
  BY ONLY ConcatFacts, <1>6
<1>9. ASSUME NEW i \in 1..(Len(s) - 1)
      PROVE  (a \o b)[i] = IF i < k THEN s[i] ELSE s[i + 1]
  <2>1. CASE i < k
    BY <1>1, <1>4, <1>8, <2>1
  <2>2. CASE ~(i < k)
    <3>1. PICK j \in Nat : j = i - (k - 1)
      BY <1>1, <2>2
    <3>2. j \in 1..(Len(s) - k) /\ k + j = i + 1 /\ (k - 1) + j = i
      BY <1>1, <2>2, <3>1
    <3>3. (a \o b)[(k - 1) + j] = b[j] /\ b[j] = s[k + j]
      BY <1>4, <1>5, <1>8, <3>2
    <3>. QED
      BY <2>2, <3>2, <3>3
  <2>. QED
    BY <2>1, <2>2
<1>10. Len(a \o b) = Len(s) - 1
  BY <1>1, <1>4, <1>5, <1>8
<1>. QED
  BY <1>1, <1>7, <1>8, <1>9, <1>10

\* At the end, g has them all.
LEMMA GotAll ==
    ASSUME NEW S, NEW wr \in Seq(S), NEW g \in Seq(S), NEW d \in 0..Len(wr),
           Got(wr, d, g, Len(wr))
    PROVE  /\ d = 0 => g = wr
           /\ d # 0 => g = RemoveAt(wr, d)
<1>1. ASSUME d = 0 PROVE g = wr
  <2>1. Len(g) = Len(wr) /\ \A i \in 1..Len(wr) : g[i] = wr[i]
    BY <1>1 DEF Got
  <2>. QED
    BY ONLY SameSeq, <2>1, wr \in Seq(S), g \in Seq(S)
<1>2. ASSUME d # 0 PROVE g = RemoveAt(wr, d)
  <2>1. d \in 1..Len(wr)
    BY <1>2
  <2>2. PICK h : h = RemoveAt(wr, d)
    OBVIOUS
  <2>3. /\ h \in Seq(S) /\ Len(wr) \in Nat /\ Len(h) = Len(wr) - 1
        /\ \A i \in 1..(Len(wr) - 1) : h[i] = IF i < d THEN wr[i] ELSE wr[i + 1]
    BY ONLY RemoveFacts, <2>1, <2>2, wr \in Seq(S)
  <2>4. /\ Len(g) = Len(wr) - 1
        /\ \A i \in 1..Len(g) : g[i] = IF i >= d THEN wr[i + 1] ELSE wr[i]
    BY <1>2, <2>1 DEF Got
  <2>5. \A i \in 1..Len(g) : i < d <=> ~(i >= d)
    BY <2>1
  <2>6. Len(g) = Len(h) /\ \A i \in 1..Len(g) : g[i] = h[i]
    BY <2>3, <2>4, <2>5
  <2>7. g = h
    BY ONLY SameSeq, <2>3, <2>6, g \in Seq(S)
  <2>. QED
    BY <2>2, <2>7
<1>. QED
  BY <1>1, <1>2

-----------------------------------------------------------------------------
(* Types. *)

\* What ReadPacket cuts out of t is bytes.
LEMMA CutTypes ==
    ASSUME NEW t \in Seq(Byte), Len(t) >= 3, PktLen(t) <= Len(t)
    PROVE  Payload(t) \in Seq(Byte) /\ SubSeq(t, PktLen(t) + 1, Len(t)) \in Seq(Byte)
<1>1. PICK T \in Nat : T = Len(t) /\ T >= 3
  OBVIOUS
<1>2. t[1] \in Byte /\ t[2] \in Byte /\ t[3] \in Byte
  BY <1>1
<1>3. PICK b \in Nat : b = Base
  BY ByteFacts
<1>4. PICK x, y, z \in Nat : x = t[1] /\ y = t[2] /\ z = t[3]
  BY <1>2, ByteFacts
<1>5. PICK n : n = PayLen(t)
  OBVIOUS
<1>6. n \in Nat
  <2>1. n = IF x = 0 THEN y * b + z ELSE x
    BY <1>3, <1>4, <1>5 DEF PayLen
  <2>2. y * b \in Nat
    OBVIOUS
  <2>. QED
    BY <2>1, <2>2
<1>7. PICK o \in Nat : o = PayOff(t)
  BY DEF PayOff
<1>8. PICK e \in Nat : e = PktLen(t) /\ e = o + n + 1 /\ e <= T
  BY <1>1, <1>5, <1>6, <1>7 DEF PktLen
<1>9. SubSeq(t, e + 1, T) \in Seq(Byte)
  BY ONLY CutFacts, <1>1, <1>8, t \in Seq(Byte)
<1>10. PICK u : u = t \o Beyond
  OBVIOUS
<1>11. u \in Seq(Byte) /\ e <= Len(u) /\ Len(u) \in Nat
  <2>1. Beyond \in Seq(Byte) /\ t \in Seq(Byte)
    BY PacketCodecAssumption
  <2>2. t \o Beyond \in Seq(Byte) /\ Len(t \o Beyond) = Len(t) + Len(Beyond) /\ Len(Beyond) \in Nat
    BY ONLY ConcatFacts, <2>1
  <2>. QED
    BY <1>1, <1>8, <1>10, <2>2
<1>12. PICK v : v = SubSeq(u, 1, e)
  OBVIOUS
<1>13. v \in Seq(Byte) /\ Len(v) = e
  <2>1. 0 \in Nat /\ 0 <= e /\ e <= Len(u) /\ u \in Seq(Byte)
    BY <1>11
  <2>2. SubSeq(u, 0 + 1, e) \in Seq(Byte) /\ Len(SubSeq(u, 0 + 1, e)) = e - 0
    BY ONLY CutFacts, <2>1, e \in Nat
  <2>. QED
    BY <1>12, <2>2
<1>14. PICK c \in Nat : c = e - 1 /\ o <= c /\ c <= Len(v)
  BY <1>6, <1>8, <1>13
<1>15. SubSeq(v, o + 1, c) \in Seq(Byte)
  BY ONLY CutFacts, <1>13, <1>14, o \in Nat
<1>16. Payload(t) = SubSeq(v, o + 1, c)
  BY <1>7, <1>8, <1>10, <1>12, <1>14 DEF Payload, Slice
<1>. QED
  BY <1>1, <1>8, <1>9, <1>15, <1>16

\* AfterStart is what the name says.
LEMMA AfterFacts ==
    ASSUME NEW f \in Seq(Byte), NextStart(f) # 0, NEW t, t = SubSeq(f, NextStart(f) + 1, Len(f))
    PROVE  t \in Seq(Byte) /\ Len(t) = Len(f) - NextStart(f)
<1>1. PICK n \in 1..Len(f) : n = NextStart(f)
  BY StartFacts
<1>2. n \in Nat /\ Len(f) \in Nat /\ n <= Len(f) /\ Len(f) <= Len(f)
  OBVIOUS
<1>3. t = SubSeq(f, n + 1, Len(f))
  BY <1>1
<1>4. t \in Seq(Byte) /\ Len(t) = Len(f) - n
  BY ONLY CutFacts, <1>2, <1>3, f \in Seq(Byte)
<1>. QED
  BY <1>1, <1>4

LEMMA TypeWrite ==
    ASSUME TypeOK, NEW noise \in Noise, NEW payload \in Payloads, WritePacket(noise, payload)
    PROVE  TypeOK'
<1>1. /\ frame \in Seq(Byte) /\ written \in Seq(Seq(Byte)) /\ starts \in Seq(Nat)
      /\ Len(starts) = Len(written) /\ damaged \in 0..Len(written)
  BY DEF TypeOK
<1>2. PICK L \in Nat : L = Len(frame)
  BY <1>1
<1>3. PICK v : v = frame \o noise
  OBVIOUS
<1>4. PICK w1 : w1 = v \o Packet(payload)
  OBVIOUS
<1>5. PICK K : K = Len(noise)
  OBVIOUS
<1>6. PICK R : R = Len(Rest(payload))
  OBVIOUS
<1>7. Len(v) \in Nat /\ w1 \in Seq(Byte)
  <2>1. Puts(frame, noise, payload, L, K, R, v, w1)
    BY <1>1, <1>2, <1>3, <1>4, <1>5, <1>6 DEF Puts
  <2>2. K \in Nat /\ Len(v) = L + K /\ w1 \in Seq(Byte)
    BY ONLY WrittenBytes, <2>1
  <2>. QED
    BY ONLY <2>2, L \in Nat
<1>8. frame' \in Seq(Byte)
  BY <1>3, <1>4, <1>7 DEF WritePacket
<1>9. PICK s \in Nat : s = Len(frame \o noise) + Len(Header(Len(payload))) + 2
  <2>1. Len(Header(Len(payload))) \in Nat
    BY PayloadRest DEF Offset
  <2>. QED
    BY <1>3, <1>7, <2>1
<1>10. payload \in Seq(Byte)
  BY PayloadFacts
<1>11. written' = Append(written, payload) /\ starts' = Append(starts, s)
  BY <1>9 DEF WritePacket
<1>12. /\ written' \in Seq(Seq(Byte)) /\ starts' \in Seq(Nat)
       /\ Len(written') = Len(written) + 1 /\ Len(starts') = Len(starts) + 1
  BY ONLY AppendFacts, <1>1, <1>10, <1>11, s \in Nat
<1>13. damaged' = damaged /\ damaged' \in 0..Len(written')
  <2>1. Len(written) \in Nat /\ damaged' = damaged
    BY <1>1 DEF WritePacket
  <2>. QED
    BY ONLY <1>1, <1>12, <2>1
<1>. QED
  BY <1>1, <1>8, <1>12, <1>13 DEF WritePacket, TypeOK

LEMMA TypeDamage ==
    ASSUME TypeOK, NEW n \in DOMAIN written, NEW i \in DOMAIN written[n], NEW byte \in Byte,
           Damage(n, i, byte)
    PROVE  TypeOK'
<1>1. frame \in Seq(Byte) /\ written \in Seq(Seq(Byte)) /\ Len(written) \in Nat
  BY DEF TypeOK
<1>2. PICK at : at = starts[n] + i - 1
  OBVIOUS
<1>3. frame' = [frame EXCEPT ![at] = byte]
  BY <1>2 DEF Damage
<1>4. frame' \in Seq(Byte)
  <2>1. PICK L \in Nat : frame \in [1..L -> Byte]
    BY <1>1, SeqDef
  <2>2. frame' \in [1..L -> Byte]
    BY <1>3, <2>1
  <2>. QED
    BY <2>2, SeqDef
<1>5. damaged' \in 0..Len(written) /\ astray' \in BOOLEAN
  <2>1. n \in 0..Len(written)
    BY <1>1
  <2>. QED
    BY <2>1 DEF Damage
<1>. QED
  BY <1>4, <1>5 DEF Damage, TypeOK

LEMMA TypeRead ==
    ASSUME TypeOK, ReadPacket
    PROVE  TypeOK'
<1>1. frame \in Seq(Byte) /\ got \in Seq(Seq(Byte))
  BY DEF TypeOK
<1>2. PICK t : t = AfterStart
  OBVIOUS
<1>3. NextStart(frame) # 0 => t \in Seq(Byte) /\ Len(t) = Len(frame) - NextStart(frame)
  BY <1>1, <1>2, AfterFacts DEF AfterStart
<1>4. CASE ReadEOF
  BY <1>4 DEF ReadEOF, TypeOK
<1>5. CASE ReadTooShort
  BY <1>2, <1>3, <1>5 DEF ReadTooShort, TypeOK
<1>6. CASE ReadBadChecksum
  BY <1>2, <1>3, <1>6 DEF ReadBadChecksum, AtPacket, TypeOK
<1>7. CASE ReadGood
  <2>1. /\ NextStart(frame) # 0 /\ Len(frame) - NextStart(frame) >= 3 /\ PktLen(t) <= Len(t)
        /\ got' = Append(got, Payload(t)) /\ frame' = SubSeq(t, PktLen(t) + 1, Len(t))
    BY <1>2, <1>7 DEF ReadGood, AtPacket
  <2>2. t \in Seq(Byte) /\ Len(t) >= 3
    BY <1>3, <2>1
  <2>3. Payload(t) \in Seq(Byte) /\ SubSeq(t, PktLen(t) + 1, Len(t)) \in Seq(Byte)
    BY <2>1, <2>2, CutTypes
  <2>4. got' \in Seq(Seq(Byte))
    BY ONLY AppendFacts, <1>1, <2>1, <2>3
  <2>. QED
    BY <1>7, <2>1, <2>3, <2>4 DEF ReadGood, TypeOK
<1>8. CASE ReadPanics
  BY <1>8 DEF ReadPanics, TypeOK
<1>. QED
  BY <1>4, <1>5, <1>6, <1>7, <1>8 DEF ReadPacket

\* Every variable has its type: what ReadPacket takes out of a frame is bytes,
\* whatever the lengths in it say.
THEOREM CodecTypeCorrect == Spec => []TypeOK
<1>1. Init => TypeOK
  <2>. SUFFICES ASSUME Init PROVE TypeOK
    OBVIOUS
  <2>1. /\ frame \in Seq(Byte) /\ written \in Seq(Seq(Byte)) /\ got \in Seq(Seq(Byte))
        /\ starts \in Seq(Nat)
    BY DEF Init
  <2>2. Len(starts) = Len(written) /\ damaged \in 0..Len(written)
    BY DEF Init
  <2>3. astray \in BOOLEAN /\ phase \in {"writing", "reading", "done", "panicked"}
    BY DEF Init
  <2>. QED
    BY <2>1, <2>2, <2>3 DEF TypeOK
<1>2. TypeOK /\ [Next]_vars => TypeOK'
  <2>. SUFFICES ASSUME TypeOK, [Next]_vars PROVE TypeOK'
    OBVIOUS
  <2>1. CASE \E noise \in Noise, payload \in Payloads : WritePacket(noise, payload)
    BY <2>1, TypeWrite
  <2>2. CASE \E n \in DOMAIN written : \E i \in DOMAIN written[n], byte \in Byte :
                Damage(n, i, byte)
    BY <2>2, TypeDamage
  <2>3. CASE Deliver
    <3>1. frame \in Seq(Byte) /\ Padding \in Seq(Byte)
      BY PacketCodecAssumption, CleanFacts DEF TypeOK
    <3>2. frame' \in Seq(Byte)
      BY <2>3, <3>1 DEF Deliver
    <3>. QED
      BY <2>3, <3>2 DEF Deliver, TypeOK
  <2>4. CASE ReadPacket
    BY <2>4, TypeRead
  <2>5. CASE UNCHANGED vars
    BY <2>5 DEF vars, TypeOK
  <2>. QED
    BY <2>1, <2>2, <2>3, <2>4, <2>5 DEF Next
<1>. QED
  BY <1>1, <1>2, PTL DEF Spec

-----------------------------------------------------------------------------
(* The invariant. *)

\* What the properties ask of a frame: NoBorderCase, and damage that is not
\* astray.
Clear(wr, d, a) == (\A i \in DOMAIN wr : Len(wr[i]) # largePacketMinLen) /\ (d = 0 \/ ~a)

\* The frame is laid out until it is delivered; the reader has then a part of
\* such a frame and what was before that part.
Sound(ph, f, wr, st, d, a, g) ==
    /\ Lists(wr, st)
    /\ ph = "writing" => Laid(f, wr, st, d, a) /\ g = <<>>
    /\ ph = "reading" /\ Clear(wr, d, a) =>
          \E w \in Seq(Byte) : /\ Laid(w, wr, st, d, a)
                               /\ \E o, m : At(f, w, wr, st, o, m) /\ Got(wr, d, g, m)
    /\ ph = "done" /\ Clear(wr, d, a) => Got(wr, d, g, Len(wr))
    /\ ph = "panicked" => ~Clear(wr, d, a)

PacketInv == Sound(phase, frame, written, starts, damaged, astray, got)

LEMMA InvInit ==
    ASSUME Init
    PROVE  PacketInv
<1>1. /\ phase = "writing" /\ frame = <<>> /\ written = <<>> /\ starts = <<>> /\ got = <<>>
      /\ damaged = 0 /\ astray = FALSE
  BY DEF Init
<1>2. Lists(<<>>, <<>>)
  BY DEF Lists
<1>3. Laid(<<>>, <<>>, <<>>, 0, FALSE)
  BY DEF Laid, NoStart, Behind, NextBegin
<1>. QED
  BY <1>1, <1>2, <1>3 DEF PacketInv, Sound

LEMMA InvWrite ==
    ASSUME TypeOK, PacketInv, NEW noise \in Noise, NEW payload \in Payloads,
           WritePacket(noise, payload)
    PROVE  PacketInv'
<1>1. /\ phase = "writing" /\ phase' = "writing" /\ frame' = frame \o noise \o Packet(payload)
      /\ written' = Append(written, payload)
      /\ starts' = Append(starts, Len(frame \o noise) + Offset(payload) + 2)
      /\ damaged' = damaged /\ astray' = astray /\ got' = got
  BY DEF WritePacket, Offset
<1>2. Lists(written, starts) /\ Laid(frame, written, starts, damaged, astray) /\ got = <<>>
  BY <1>1 DEF PacketInv, Sound
<1>3. Writes(frame, written, starts, damaged, astray, noise, payload, frame', written', starts')
  BY <1>1, <1>2 DEF Writes, TypeOK
<1>4. Lists(written', starts') /\ Laid(frame', written', starts', damaged, astray)
  BY ONLY LayWrite, <1>3
<1>5. Sound(phase', frame', written', starts', damaged', astray', got')
  BY <1>1, <1>2, <1>4 DEF Sound
<1>. QED
  BY <1>5 DEF PacketInv

LEMMA InvDamage ==
    ASSUME TypeOK, PacketInv, NEW n \in DOMAIN written, NEW i \in DOMAIN written[n],
           NEW byte \in Byte, Damage(n, i, byte)
    PROVE  PacketInv'
<1>1. PICK at : at = starts[n] + i - 1
  OBVIOUS
<1>2. /\ phase = "writing" /\ phase' = "writing" /\ damaged = 0 /\ damaged' = n
      /\ byte # frame[at] /\ frame' = [frame EXCEPT ![at] = byte]
      /\ astray' = (PacketStartByte \in {frame'[k] :
             k \in (starts[n] - Len(Header(Len(written[n]))))..(starts[n] + Len(written[n]))})
      /\ written' = written /\ starts' = starts /\ got' = got
  BY <1>1 DEF Damage
<1>3. Lists(written, starts) /\ Laid(frame, written, starts, 0, astray) /\ got = <<>>
  BY <1>2 DEF PacketInv, Sound
<1>4. frame \in Seq(Byte) /\ n \in 1..Len(written) /\ i \in 1..Len(written[n])
  BY DEF TypeOK
<1>5. at \in 1..Len(frame)
  <2>1. PICK b, e, R \in Nat :
           /\ b = Begin(written, starts, n) /\ 0 < b /\ e = Finish(written, starts, n)
           /\ e <= Len(frame) /\ R = Len(Rest(written[n])) /\ R >= 3 /\ e = b + R
    BY <1>3, <1>4, Spans
  <2>2. PICK s, o, m \in Nat : s = starts[n] /\ o = Offset(written[n]) /\ m = Len(written[n])
    BY <1>3, <1>4, PlaceFacts
  <2>3. b = s - o - 1 /\ e = s + m /\ at = s + i - 1 /\ i \in 1..m
    BY <1>1, <1>4, <2>1, <2>2 DEF Begin, Finish
  <2>4. Len(frame) \in Nat /\ 0 < b /\ e <= Len(frame)
    BY <1>4, <2>1
  <2>. QED
    BY ONLY <2>3, <2>4, b \in Nat, e \in Nat, s \in Nat, o \in Nat, m \in Nat
<1>6. /\ Len(frame') = Len(frame) /\ Len(frame) \in Nat /\ frame'[at] = byte
      /\ \A k \in 1..Len(frame) : k # at => frame'[k] = frame[k]
  BY ONLY <1>2, <1>4, <1>5, byte \in Byte
<1>7. Damages(frame, written, starts, astray, n, i, at, frame', astray')
  BY <1>1, <1>2, <1>3, <1>4, <1>6 DEF Damages, Offset
<1>8. Laid(frame', written, starts, n, astray')
  BY ONLY LayDamage, <1>7
<1>9. Sound(phase', frame', written', starts', damaged', astray', got')
  BY <1>2, <1>3, <1>8 DEF Sound
<1>. QED
  BY <1>9 DEF PacketInv

\* Deliver: the reader is before the first packet.
LEMMA InvDeliver ==
    ASSUME TypeOK, PacketInv, Deliver
    PROVE  PacketInv'
<1>1. /\ phase = "writing" /\ phase' = "reading" /\ frame' = frame \o Padding
      /\ written' = written /\ starts' = starts /\ damaged' = damaged /\ astray' = astray
      /\ got' = got
  BY DEF Deliver
<1>2. Lists(written, starts) /\ Laid(frame, written, starts, damaged, astray) /\ got = <<>>
  BY <1>1 DEF PacketInv, Sound
<1>3. /\ frame \in Seq(Byte) /\ damaged \in 0..Len(written) /\ damaged \in Nat
      /\ written \in Seq(Seq(Byte))
  BY DEF TypeOK
<1>4. /\ Padding \in Seq(Byte) /\ Len(Padding) \in Nat
      /\ \A k \in 1..Len(Padding) : Padding[k] # PacketStartByte
  BY PacketCodecAssumption, CleanFacts
<1>5. PICK w : w = frame \o Padding
  OBVIOUS
<1>6. PICK L \in Nat : L = Len(frame)
  BY <1>3
<1>7. PICK K \in Nat : K = Len(Padding)
  BY <1>4
<1>8. /\ w \in Seq(Byte) /\ Len(w) = Len(frame) + Len(Padding)
      /\ \A k \in 1..Len(frame) : w[k] = frame[k]
      /\ \A k \in 1..Len(Padding) : w[Len(frame) + k] = Padding[k]
  <2>1. frame \in Seq(Byte) /\ Padding \in Seq(Byte)
    BY <1>3, <1>4
  <2>. QED
    BY ONLY ConcatFacts, <1>5, <2>1
<1>9. Len(w) = L + K /\ Same(w, frame, 1, L)
  BY <1>6, <1>7, <1>8 DEF Same
<1>10. NoStart(w, L + 1, L + K)
  <2>. SUFFICES ASSUME NEW k \in (L + 1)..(L + K) PROVE w[k] # PacketStartByte
    BY DEF NoStart
  <2>1. PICK j \in 1..K : k = L + j
    <3>1. k - L \in 1..K /\ k = L + (k - L)
      BY ONLY k \in (L + 1)..(L + K), L \in Nat, K \in Nat
    <3>. QED
      BY <3>1
  <2>2. w[Len(frame) + j] = Padding[j] /\ Padding[j] # PacketStartByte
    BY ONLY <1>4, <1>7, <1>8, j \in 1..K
  <2>. QED
    BY <1>6, <2>1, <2>2
<1>11. Laid(w, written, starts, damaged, astray)
  <2>1. Pads(frame, written, starts, damaged, astray, w, L, K)
    BY <1>2, <1>3, <1>6, <1>9, <1>10 DEF Pads
  <2>. QED
    BY ONLY LayPad, <2>1
<1>12. At(w, w, written, starts, 0, 0)
  <2>1. Len(written) \in Nat /\ Len(w) \in Nat
    BY <1>3, <1>8
  <2>2. 0 \in 0..Len(written) /\ 0 \in 0..Len(w)
    BY ONLY <2>1
  <2>3. PICK e, b \in Nat :
           /\ e = Behind(written, starts, 0) /\ b = NextBegin(w, written, starts, 0)
           /\ e <= Len(w) /\ 0 < b /\ b <= Len(w) + 1
    BY <1>2, <1>11, <2>1, <2>2, Gaps
  <2>4. NoStart(w, 0 + 1, b - 1)
    BY <1>11, <2>2, <2>3 DEF Laid, Behind
  <2>5. Len(w) = Len(w) - 0 /\ \A k \in 1..Len(w) : w[k] = w[0 + k]
    BY ONLY <2>1
  <2>. QED
    BY <2>2, <2>3, <2>4, <2>5 DEF At
<1>13. Got(written, damaged, <<>>, 0)
  BY <1>3, GotNothing
<1>14. Sound(phase', frame', written', starts', damaged', astray', got')
  BY <1>1, <1>2, <1>5, <1>8, <1>11, <1>12, <1>13 DEF Sound
<1>. QED
  BY <1>14 DEF PacketInv

\* ReadPacket: the reader meets the next packet, or the end.
LEMMA InvRead ==
    ASSUME TypeOK, PacketInv, ReadPacket
    PROVE  PacketInv'
<1>1. /\ phase = "reading" /\ written' = written /\ starts' = starts /\ damaged' = damaged
      /\ astray' = astray
  BY DEF ReadPacket, ReadEOF, ReadTooShort, ReadBadChecksum, ReadGood, ReadPanics, AtPacket
<1>2. /\ frame \in Seq(Byte) /\ written \in Seq(Seq(Byte)) /\ got \in Seq(Seq(Byte))
      /\ damaged \in 0..Len(written) /\ Len(written) \in Nat
  BY DEF TypeOK
<1>3. PICK t : t = AfterStart
  OBVIOUS
<1>4. Lists(written, starts)
  BY DEF PacketInv, Sound
<1>5. phase' \in {"reading", "done", "panicked"}
  BY <1>1 DEF ReadPacket, ReadEOF, ReadTooShort, ReadBadChecksum, ReadGood, ReadPanics
<1>6. CASE ~Clear(written, damaged, astray)
  <2>1. Sound(phase', frame', written', starts', damaged', astray', got')
    BY <1>1, <1>4, <1>5, <1>6 DEF Sound
  <2>. QED
    BY <2>1 DEF PacketInv
<1>7. CASE Clear(written, damaged, astray)
  <2>1. PICK w \in Seq(Byte) :
           /\ Laid(w, written, starts, damaged, astray)
           /\ \E o, m : At(frame, w, written, starts, o, m) /\ Got(written, damaged, got, m)
    BY <1>1, <1>7 DEF PacketInv, Sound
  <2>2. PICK o, m : At(frame, w, written, starts, o, m) /\ Got(written, damaged, got, m)
    BY <2>1
  <2>3. m \in 0..Len(written) /\ m \in Nat /\ Len(w) \in Nat
    BY <1>2, <2>2 DEF At
  <2>4. CASE m = Len(written)
    <3>1. NextStart(frame) = 0
      BY <1>2, <2>2, <2>3, <2>4, AtEnd
    <3>2. phase' = "done" /\ got' = got
      BY <3>1 DEF ReadPacket, ReadEOF, ReadTooShort, ReadBadChecksum, ReadGood, ReadPanics,
                  AtPacket
    <3>3. Sound(phase', frame', written', starts', damaged', astray', got')
      BY <1>1, <1>4, <2>2, <2>4, <3>2 DEF Sound
    <3>. QED
      BY <3>3 DEF PacketInv
  <2>5. CASE m # Len(written)
    <3>1. m + 1 \in DOMAIN written /\ m + 1 \in 1..Len(written)
      BY <1>2, <2>3, <2>5
    <3>2. Len(written[m + 1]) # Base /\ (damaged = 0 \/ ~astray)
      BY <1>7, <3>1 DEF Clear, largePacketMinLen
    <3>3. Meets(w, frame, written, starts, damaged, astray, o, m, t)
      BY <1>2, <1>3, <1>4, <2>1, <2>2, <2>5, <3>2 DEF Meets, AfterStart
    <3>4. /\ t \in Seq(Byte) /\ NextStart(frame) # 0 /\ Len(frame) - NextStart(frame) >= 3
          /\ Fits(t) /\ PktLen(t) \in Nat /\ PktLen(t) <= Len(t)
          /\ m + 1 # damaged =>
                /\ Checksum(Slice(t)) = 0 /\ Payload(t) = written[m + 1]
                /\ \E n : At(SubSeq(t, PktLen(t) + 1, Len(t)), w, written, starts, n, m + 1)
          /\ m + 1 = damaged =>
                Checksum(Slice(t)) # 0 /\ \E n : At(t, w, written, starts, n, m + 1)
      BY ONLY ReadsNext, <3>3
    <3>5. /\ m + 1 = damaged => Got(written, damaged, got, m + 1)
          /\ m + 1 # damaged => Got(written, damaged, Append(got, written[m + 1]), m + 1)
      BY ONLY GotNext, <1>2, <2>2, <2>3, <3>1
    <3>6. ~(Len(frame) - NextStart(frame) < 3) /\ ~(PktLen(t) > Len(t))
      <4>1. NextStart(frame) \in Nat /\ Len(frame) \in Nat /\ Len(t) \in Nat
        <5>1. NextStart(frame) \in 0..Len(frame)
          BY ONLY StartFacts, <1>2
        <5>2. Len(frame) \in Nat /\ Len(t) \in Nat
          BY ONLY <1>2, <3>4
        <5>. QED
          BY ONLY <5>1, <5>2
      <4>. QED
        BY ONLY <3>4, <4>1
    <3>7. ReadBadChecksum \/ ReadGood
      BY <1>3, <3>4, <3>6 DEF ReadPacket, ReadEOF, ReadTooShort, ReadPanics
    <3>8. CASE m + 1 = damaged
      <4>1. ReadBadChecksum
        BY <1>3, <3>4, <3>7, <3>8 DEF ReadGood
      <4>2. phase' = "reading" /\ frame' = t /\ got' = got
        BY <1>1, <1>3, <4>1 DEF ReadBadChecksum
      <4>3. \E n : At(t, w, written, starts, n, m + 1) /\ Got(written, damaged, got, m + 1)
        BY <3>4, <3>5, <3>8
      <4>4. Sound(phase', frame', written', starts', damaged', astray', got')
        BY <1>1, <1>4, <2>1, <4>2, <4>3 DEF Sound
      <4>. QED
        BY <4>4 DEF PacketInv
    <3>9. CASE m + 1 # damaged
      <4>1. ReadGood
        BY <1>3, <3>4, <3>7, <3>9 DEF ReadBadChecksum
      <4>2. /\ phase' = "reading" /\ frame' = SubSeq(t, PktLen(t) + 1, Len(t))
            /\ got' = Append(got, written[m + 1])
        BY <1>1, <1>3, <3>4, <3>9, <4>1 DEF ReadGood
      <4>3. \E n : /\ At(SubSeq(t, PktLen(t) + 1, Len(t)), w, written, starts, n, m + 1)
                   /\ Got(written, damaged, Append(got, written[m + 1]), m + 1)
        BY <3>4, <3>5, <3>9
      <4>4. Sound(phase', frame', written', starts', damaged', astray', got')
        BY <1>1, <1>4, <2>1, <4>2, <4>3 DEF Sound
      <4>. QED
        BY <4>4 DEF PacketInv
    <3>. QED
      BY <3>8, <3>9
  <2>. QED
    BY <2>4, <2>5
<1>. QED
  BY <1>6, <1>7

LEMMA InvAlways == Spec => [](TypeOK /\ PacketInv)
<1>1. Init => PacketInv
  BY InvInit
<1>2. TypeOK /\ PacketInv /\ [Next]_vars => PacketInv'
  <2>. SUFFICES ASSUME TypeOK, PacketInv, [Next]_vars PROVE PacketInv'
    OBVIOUS
  <2>1. CASE \E noise \in Noise, payload \in Payloads : WritePacket(noise, payload)
    BY <2>1, InvWrite
  <2>2. CASE \E n \in DOMAIN written : \E i \in DOMAIN written[n], byte \in Byte :
                Damage(n, i, byte)
    BY <2>2, InvDamage
  <2>3. CASE Deliver
    BY <2>3, InvDeliver
  <2>4. CASE ReadPacket
    BY <2>4, InvRead
  <2>5. CASE UNCHANGED vars
    <3>1. /\ phase' = phase /\ frame' = frame /\ written' = written /\ starts' = starts
          /\ damaged' = damaged /\ astray' = astray /\ got' = got
      BY <2>5 DEF vars
    <3>2. Sound(phase', frame', written', starts', damaged', astray', got')
      BY <3>1 DEF PacketInv
    <3>. QED
      BY <3>2 DEF PacketInv
  <2>. QED
    BY <2>1, <2>2, <2>3, <2>4, <2>5 DEF Next
<1>. QED
  BY <1>1, <1>2, CodecTypeCorrect, PTL DEF Spec

-----------------------------------------------------------------------------
(* Theorems. *)

\* At the end, the reader has returned all that it can return.
LEMMA EndFacts ==
    ASSUME TypeOK, PacketInv, Ended, NoBorderCase, damaged = 0 \/ ~astray
    PROVE  /\ phase = "done"
           /\ damaged = 0 => got = written
           /\ damaged # 0 => got = RemoveAt(written, damaged)
<1>1. Clear(written, damaged, astray)
  BY DEF Clear, NoBorderCase
<1>2. phase = "done" /\ Got(written, damaged, got, Len(written))
  BY <1>1 DEF Ended, PacketInv, Sound
<1>3. written \in Seq(Seq(Byte)) /\ got \in Seq(Seq(Byte)) /\ damaged \in 0..Len(written)
  BY DEF TypeOK
<1>. QED
  BY ONLY GotAll, <1>2, <1>3

\* Whatever payloads are written, and whatever stands between them that has no
\* start byte, the reader of PacketReader gets each payload once and in order.
THEOREM PacketsRoundTrip == Spec => []RoundTrips
<1>1. TypeOK /\ PacketInv => RoundTrips
  BY EndFacts DEF RoundTrips
<1>. QED
  BY <1>1, InvAlways, PTL

\* One wrong byte in a payload is refused by the checksum, and costs no packet
\* but its own: the reader goes on behind that start byte and finds the next.
THEOREM DamageStaysLocal == Spec => []DamageIsLocal
<1>1. TypeOK /\ PacketInv => DamageIsLocal
  BY EndFacts DEF DamageIsLocal
<1>. QED
  BY <1>1, InvAlways, PTL

=============================================================================
