--------------------------- MODULE HexDumpProofs ---------------------------
(***************************************************************************)
(* Dumps and the parser that reads them, for every map in order, every     *)
(* memory, list of sections and size of a byte: what checksums detect,     *)
(* that a region is read from the place the host takes the device to be    *)
(* at, the parser's invariants for the lines the Dumper prints, and that   *)
(* what the parser makes of them is the memory that was printed.           *)
(***************************************************************************)
EXTENDS HexDump, HexFileProofs

-----------------------------------------------------------------------------
(* Arithmetic modulo a number that is a parameter. *)
LEMMA DivisionRest ==
    ASSUME NEW x \in Int, NEW B \in Nat, B > 0
    PROVE  /\ x = (x \div B) * B + (x % B)
           /\ x \div B \in Int /\ x % B \in 0 .. B - 1
  OBVIOUS

LEMMA MultipleRest ==
    ASSUME NEW q \in Int, NEW B \in Nat, B > 0
    PROVE  (q * B) % B = 0 /\ q * B \in Int /\ (- q) * B = - (q * B)
  OBVIOUS

LEMMA MultipleIsFar ==
    ASSUME NEW d \in Int, NEW B \in Nat, B > 0, d # 0
    PROVE  d * B >= B \/ d * B <= - B
  OBVIOUS

LEMMA MultiplesDiffer ==
    ASSUME NEW d \in Int, NEW e \in Int, NEW B \in Nat
    PROVE  d * B - e * B = (d - e) * B
  OBVIOUS

LEMMA RestCompletes ==
    ASSUME NEW x \in Int, NEW B \in Nat, B > 0
    PROVE  (x + ((- x) % B)) % B = 0
  <1>1. PICK y \in Int : y = - x
    OBVIOUS
  <1>2. PICK q \in Int : q = y \div B
    BY <1>1, DivisionRest
  <1>3. y = q * B + (y % B) /\ y % B \in 0 .. B - 1
    BY <1>1, <1>2, DivisionRest
  <1>4. (- q) * B = - (q * B) /\ q * B \in Int /\ ((- q) * B) % B = 0
    BY <1>2, MultipleRest
  <1>5. x + (y % B) = (- q) * B
    BY <1>1, <1>3, <1>4
  <1> QED
    BY <1>1, <1>4, <1>5

(* Two numbers with the same rest are not less than B apart. *)
LEMMA RestDiffers ==
    ASSUME NEW x \in Int, NEW y \in Int, NEW B \in Nat, B > 0,
           x % B = 0, y # 0, y < B, - y < B
    PROVE  (x + y) % B # 0
  <1> SUFFICES ASSUME (x + y) % B = 0 PROVE FALSE
    OBVIOUS
  <1>1. PICK z \in Int : z = x + y
    OBVIOUS
  <1>2. PICK p \in Int, q \in Int : p = x \div B /\ q = z \div B
    BY <1>1, DivisionRest
  <1>3. x = p * B + (x % B) /\ z = q * B + (z % B)
    BY <1>1, <1>2, DivisionRest
  <1>4. p * B \in Int /\ q * B \in Int /\ q - p \in Int
    BY <1>2, MultipleRest
  <1>5. y = q * B - p * B
    BY <1>1, <1>3, <1>4
  <1>6. y = (q - p) * B
    BY <1>2, <1>5, MultiplesDiffer
  <1>7. CASE q - p = 0
    BY <1>4, <1>6, <1>7
  <1>8. CASE q - p # 0
    <2>1. PICK d \in Int : d = q - p
      BY <1>4
    <2>2. d * B >= B \/ d * B <= - B
      BY <1>8, <2>1, MultipleIsFar
    <2> QED
      BY <1>6, <2>1, <2>2
  <1> QED
    BY <1>7, <1>8

-----------------------------------------------------------------------------
(* The sums of the first bytes of a line. *)
AreSums(f, bytes, n) ==
    f = [i \in 0 .. n |-> IF i = 0 THEN 0 ELSE f[i - 1] + bytes[i]]

LEMMA SumsExist ==
    ASSUME NEW bytes, NEW n \in Nat
    PROVE  \E f : AreSums(f, bytes, n)
  <1> DEFINE T == {k \in Nat : ~ \E f : AreSums(f, bytes, k)}
  <1> SUFFICES ASSUME T # {} PROVE FALSE
    OBVIOUS
  <1>1. PICK k \in T : \A j \in T : k <= j
    <2>1. T \subseteq Nat
      OBVIOUS
    <2> HIDE DEF T
    <2> QED
      BY <2>1, LeastNat
  <1>2. k # 0
    <2>1. AreSums([i \in 0 .. 0 |-> 0], bytes, 0)
      BY DEF AreSums
    <2> QED
      BY <2>1
  <1>3. k \in Nat /\ k - 1 \in Nat /\ k - 1 \notin T
    BY <1>1, <1>2
  <1>4. PICK f : AreSums(f, bytes, k - 1)
    BY <1>3
  <1> DEFINE g == [i \in 0 .. k |-> IF i < k THEN f[i] ELSE f[k - 1] + bytes[k]]
  <1>5. AreSums(g, bytes, k)
    <2>1. ASSUME NEW i \in 0 .. k
          PROVE  g[i] = IF i = 0 THEN 0 ELSE g[i - 1] + bytes[i]
      <3>1. CASE i = k
        BY <1>2, <1>3, <3>1
      <3>2. CASE i < k
        <4>1. f[i] = IF i = 0 THEN 0 ELSE f[i - 1] + bytes[i]
          BY <1>3, <1>4, <3>2 DEF AreSums
        <4> QED
          BY <1>3, <3>2, <4>1
      <3> QED
        BY <3>1, <3>2
    <2>2. g = [i \in 0 .. k |-> g[i]]
      OBVIOUS
    <2> HIDE DEF g
    <2> QED
      BY <2>1, <2>2 DEF AreSums
  <1> QED
    BY <1>1, <1>5

LEMMA SumsAre ==
    ASSUME NEW bytes \in Seq(Int)
    PROVE  /\ Sums(bytes)[0] = 0
           /\ \A i \in Nat \ {0} : i <= Len(bytes) =>
                 Sums(bytes)[i] = Sums(bytes)[i - 1] + bytes[i]
  <1>1. Len(bytes) \in Nat
    OBVIOUS
  <1>2. \E f : AreSums(f, bytes, Len(bytes))
    BY <1>1, SumsExist
  <1>3. AreSums(CHOOSE f : AreSums(f, bytes, Len(bytes)), bytes, Len(bytes))
    BY <1>2
  <1>4. AreSums(Sums(bytes), bytes, Len(bytes))
    BY <1>3 DEF AreSums, Sums
  <1>5. PICK f : f = Sums(bytes)
    OBVIOUS
  <1>6. \A i \in 0 .. Len(bytes) : f[i] = IF i = 0 THEN 0 ELSE f[i - 1] + bytes[i]
    BY <1>4, <1>5 DEF AreSums
  <1>7. f[0] = 0
    BY <1>1, <1>6
  <1>8. ASSUME NEW i \in Nat \ {0}, i <= Len(bytes)
        PROVE  f[i] = f[i - 1] + bytes[i]
    BY <1>1, <1>6, <1>8
  <1> QED
    BY <1>5, <1>7, <1>8

LEMMA SumsTyped ==
    ASSUME NEW bytes \in Seq(Int), NEW n \in Nat, n <= Len(bytes)
    PROVE  Sums(bytes)[n] \in Int
  <1> DEFINE T == {k \in Nat : k <= Len(bytes) /\ Sums(bytes)[k] \notin Int}
  <1> SUFFICES ASSUME T # {} PROVE FALSE
    OBVIOUS
  <1>1. PICK k \in T : \A j \in T : k <= j
    <2>1. T \subseteq Nat
      OBVIOUS
    <2> HIDE DEF T
    <2> QED
      BY <2>1, LeastNat
  <1>2. k \in Nat \ {0} /\ k <= Len(bytes) /\ Sums(bytes)[k] \notin Int
    BY <1>1, SumsAre
  <1>3. Sums(bytes)[k] = Sums(bytes)[k - 1] + bytes[k] /\ bytes[k] \in Int
    BY <1>2, SumsAre
  <1>4. k - 1 \in Nat /\ k - 1 \notin T /\ k - 1 <= Len(bytes)
    BY <1>1, <1>2
  <1> QED
    BY <1>2, <1>3, <1>4

(* The first n bytes of two lines differ in the k-th only, if there. *)
OneDiffers(s, t, k, d, n) ==
    /\ n <= Len(s) /\ n <= Len(t)
    /\ \A i \in Nat \ {0} : i <= n /\ i # k => t[i] = s[i]
    /\ k # 0 /\ k <= n => t[k] = s[k] + d

LEMMA SumsDiffer ==
    ASSUME NEW s \in Seq(Int), NEW t \in Seq(Int), NEW k \in Nat, NEW d \in Int,
           NEW n \in Nat, OneDiffers(s, t, k, d, n)
    PROVE  /\ k = 0 => Sums(t)[n] = Sums(s)[n]
           /\ k # 0 /\ k <= n => Sums(t)[n] = Sums(s)[n] + d
  <1>0. /\ n <= Len(s) /\ n <= Len(t)
        /\ \A i \in Nat \ {0} : i <= n /\ i # k => t[i] = s[i]
        /\ k # 0 /\ k <= n => t[k] = s[k] + d
    BY DEF OneDiffers
  <1> DEFINE D(i) == IF k # 0 /\ k <= i THEN d ELSE 0
             T == {i \in Nat : i <= n /\ Sums(t)[i] # Sums(s)[i] + D(i)}
  <1> SUFFICES ASSUME T # {} PROVE FALSE
    <2>1. Sums(s)[n] \in Int
      BY <1>0, SumsTyped
    <2>2. ASSUME n \notin T
          PROVE  Sums(t)[n] = Sums(s)[n] + D(n)
      BY <2>2
    <2>3. (k = 0 => D(n) = 0) /\ (k # 0 /\ k <= n => D(n) = d)
      OBVIOUS
    <2> HIDE DEF T, D
    <2> QED
      BY <2>1, <2>2, <2>3
  <1>1. PICK m \in T : \A j \in T : m <= j
    <2>1. T \subseteq Nat
      OBVIOUS
    <2> HIDE DEF T
    <2> QED
      BY <2>1, LeastNat
  <1>2. m \in Nat /\ m <= n /\ Sums(t)[m] # Sums(s)[m] + D(m)
    BY <1>1
  <1>3. m # 0
    BY <1>0, <1>2, SumsAre
  <1>4. m - 1 \in Nat /\ m - 1 \notin T /\ m - 1 <= n
    BY <1>1, <1>2, <1>3
  <1>5. Sums(t)[m - 1] = Sums(s)[m - 1] + D(m - 1)
    BY <1>4
  <1>6. /\ Sums(s)[m] = Sums(s)[m - 1] + s[m]
        /\ Sums(t)[m] = Sums(t)[m - 1] + t[m]
    <2>1. Len(s) \in Nat /\ Len(t) \in Nat
      BY LenProperties
    <2> HIDE DEF T, D
    <2>2. m \in Nat \ {0} /\ m <= Len(s) /\ m <= Len(t)
      BY <1>0, <1>2, <1>3, <2>1
    <2> QED
      BY <2>2, SumsAre
  <1>7. /\ s[m] \in Int /\ t[m] \in Int
        /\ Sums(s)[m - 1] \in Int /\ Sums(t)[m - 1] \in Int
    <2>1. s[m] \in Int /\ t[m] \in Int
      <3>1. Len(s) \in Nat /\ Len(t) \in Nat
        BY LenProperties
      <3> HIDE DEF T, D
      <3>2. m \in 1 .. Len(s) /\ m \in 1 .. Len(t)
        BY <1>0, <1>2, <1>3, <3>1
      <3> QED
        BY <3>2
    <2>2. PICK j \in Nat : j = m - 1
      BY <1>4
    <2>3. j <= Len(s) /\ j <= Len(t)
      BY <1>0, <1>2, <2>2
    <2> QED
      BY <2>1, <2>2, <2>3, SumsTyped
  <1> HIDE DEF T
  <1>8. PICK x, y, u, v : /\ x = Sums(s)[m - 1] /\ y = Sums(t)[m - 1]
                          /\ u = s[m] /\ v = t[m]
    OBVIOUS
  <1>9. /\ x \in Int /\ y \in Int /\ u \in Int /\ v \in Int
        /\ y = x + D(m - 1)
        /\ x + u + D(m) # y + v
    <2> HIDE DEF D
    <2> QED
      BY <1>2, <1>5, <1>6, <1>7, <1>8
  <1>10. CASE m = k
    <2>1. v = u + d /\ D(m) = d /\ D(m - 1) = 0
      BY <1>0, <1>2, <1>3, <1>8, <1>10
    <2> HIDE DEF D
    <2> QED
      BY <1>9, <2>1
  <1>11. CASE m # k
    <2>1. k <= m <=> k <= m - 1
      BY <1>2, <1>3, <1>11
    <2>2. D(m) = D(m - 1) /\ D(m) \in Int
      BY <2>1
    <2> HIDE DEF D
    <2>3. v = u
      BY <1>0, <1>2, <1>3, <1>8, <1>11
    <2> QED
      BY <1>9, <2>2, <2>3
  <1> QED
    BY <1>10, <1>11

Completed(line, bytes) == line = Append(bytes, (- Sum(bytes)) % Base)

(* A line with its checksum adds up to a multiple of Base. *)
LEMMA ChecksumCompletes ==
    ASSUME NEW bytes \in Seq(Byte), Len(bytes) <= 3 + Base, NEW line,
           Completed(line, bytes)
    PROVE  /\ line \in Line /\ Len(line) = Len(bytes) + 1
           /\ ChecksumHolds(line)
           /\ \A i \in 1 .. Len(bytes) : line[i] = bytes[i]
  <1> USE HexAssumption
  <1>1. bytes \in Seq(Int) /\ Len(bytes) \in Nat
    BY DEF Byte
  <1>2. PICK total : total = Sum(bytes)
    OBVIOUS
  <1>3. total \in Int
    BY <1>1, <1>2, SumsTyped DEF Sum
  <1>4. PICK c : c = (- total) % Base
    OBVIOUS
  <1>5. c \in Byte /\ c \in Int
    <2>1. - total \in Int
      BY <1>3
    <2>2. c \in 0 .. Base - 1
      BY <1>4, <2>1, DivisionRest
    <2> QED
      BY <2>2 DEF Byte
  <1>6. /\ line \in Seq(Byte) /\ Len(line) = Len(bytes) + 1
        /\ \A i \in 1 .. Len(bytes) : line[i] = bytes[i]
        /\ line[Len(bytes) + 1] = c
    BY <1>2, <1>4, <1>5, AppendProperties DEF Completed
  <1>7. line \in Seq(Int)
    BY <1>6 DEF Byte
  <1>8. PICK n \in Nat : n = Len(bytes)
    BY <1>1
  <1>9. Sums(line)[n] = total
    <2>1. \A i \in Nat \ {0} : i <= n /\ i # 0 => line[i] = bytes[i]
      BY <1>6, <1>8
    <2>2. n <= Len(bytes) /\ n <= Len(line)
      BY <1>6, <1>8
    <2>3. OneDiffers(bytes, line, 0, 0, n)
      BY <2>1, <2>2 DEF OneDiffers
    <2>4. Sums(line)[n] = Sums(bytes)[n]
      BY <1>1, <1>7, <1>8, <2>3, SumsDiffer
    <2> QED
      BY <1>2, <1>8, <2>4 DEF Sum
  <1>10. Sum(line) = total + c
    <2>1. PICK m \in Nat \ {0} : m = n + 1
      BY <1>8
    <2>2. m = Len(line) /\ m - 1 = n /\ line[m] = c
      BY <1>6, <1>8, <2>1
    <2>3. Sums(line)[m] = Sums(line)[m - 1] + line[m]
      BY <1>7, <2>1, <2>2, SumsAre
    <2> QED
      BY <1>9, <2>2, <2>3 DEF Sum
  <1>11. (total + c) % Base = 0
    BY <1>3, <1>4, RestCompletes
  <1>12. Len(line) <= 4 + Base
    BY <1>1, <1>6
  <1> QED
    BY <1>6, <1>10, <1>11, <1>12 DEF Line, ChecksumHolds

Changed(bad, line, k, b) == bad = [line EXCEPT ![k] = b]

(* One byte changed, and it does not any more. *)
LEMMA ChecksumDetects ==
    ASSUME NEW line \in Line, ChecksumHolds(line), NEW k \in DOMAIN line,
           NEW b \in Byte, line[k] # b,
           NEW bad, Changed(bad, line, k, b)
    PROVE  bad \in Line /\ ~ ChecksumHolds(bad)
  <1> USE HexAssumption
  <1>1. /\ line \in Seq(Byte) /\ line \in Seq(Int) /\ Len(line) \in Nat
        /\ k \in Nat \ {0} /\ k <= Len(line)
        /\ line[k] \in Byte /\ line[k] \in Int /\ b \in Int
    BY DEF Line, Byte
  <1>2. /\ bad \in Seq(Byte) /\ Len(bad) = Len(line)
        /\ \A i \in Nat \ {0} : i <= Len(line) /\ i # k => bad[i] = line[i]
        /\ bad[k] = b
    BY <1>1 DEF Changed
  <1>3. bad \in Seq(Int)
    BY <1>2 DEF Byte
  <1>4. PICK d \in Int : d = b - line[k]
    BY <1>1
  <1>5. d # 0 /\ d < Base /\ - d < Base
    <2>1. PICK x : x = line[k]
      OBVIOUS
    <2>2. /\ x \in Nat /\ x < Base /\ b \in Nat /\ b < Base
          /\ Base \in Nat /\ x # b /\ d = b - x
      BY <1>1, <1>4, <2>1 DEF Byte
    <2> QED
      BY <2>2
  <1>6. bad[k] = line[k] + d
    BY <1>1, <1>2, <1>4
  <1>7. Sum(bad) = Sum(line) + d
    <2>1. PICK n \in Nat : n = Len(line)
      BY <1>1
    <2>2. k # 0 /\ k <= n
      BY <1>1, <2>1
    <2>3. OneDiffers(line, bad, k, d, n)
      BY <1>2, <1>6, <2>1 DEF OneDiffers
    <2>4. Sums(bad)[n] = Sums(line)[n] + d
      BY <1>1, <1>3, <1>4, <2>1, <2>2, <2>3, SumsDiffer
    <2> QED
      BY <1>2, <2>1, <2>4 DEF Sum
  <1>8. Sum(line) \in Int /\ Sum(line) % Base = 0
    BY <1>1, SumsTyped DEF Sum, ChecksumHolds
  <1>9. (Sum(line) + d) % Base # 0
    BY <1>5, <1>8, RestDiffers
  <1> QED
    BY <1>2, <1>7, <1>9 DEF Line, ChecksumHolds

-----------------------------------------------------------------------------
(* What the Dumper prints. *)
Joined(w, s, t) ==
    /\ Len(w) = Len(s) + Len(t)
    /\ \A i \in 1 .. Len(s) : w[i] = s[i]
    /\ \A i \in 1 .. Len(t) : w[Len(s) + i] = t[i]

LEMMA ConcatJoins ==
    ASSUME NEW S, NEW s \in Seq(S), NEW t \in Seq(S)
    PROVE  s \o t \in Seq(S) /\ Joined(s \o t, s, t)
  <1>1. /\ s \o t \in Seq(S) /\ Len(s \o t) = Len(s) + Len(t)
        /\ \A i \in 1 .. Len(s) : (s \o t)[i] = s[i]
        /\ \A i \in 1 .. Len(t) : (s \o t)[Len(s) + i] = t[i]
    BY ConcatProperties, LenProperties
  <1> QED
    BY <1>1 DEF Joined

LEMMA HexLineShape ==
    ASSUME NEW addr \in 0 .. Window - 1, NEW type \in {0, 1, 4},
           NEW payload \in Seq(Byte), Len(payload) \in Byte,
           NEW line, line = HexLine(addr, type, payload)
    PROVE  /\ line \in Line /\ ChecksumHolds(line) /\ line[4] = type
           /\ Len(line) = Len(payload) + 5
           /\ Addr(line) = addr /\ Payload(line) = payload
  <1> USE HexAssumption
  <1>1. PICK head : head = <<Len(payload), addr \div Base, addr % Base, type>>
    BY Zenon
  <1>2. addr \in Nat /\ addr < Base * Base /\ Base > 0
    <2>1. Base * Base \in Nat
      BY ProductOfNats
    <2> QED
      BY <2>1 DEF Window
  <1>3. addr \div Base \in Byte /\ addr % Base \in Byte
    <2>1. PICK q \in Int, m \in Int : q = addr \div Base /\ m = addr % Base
      BY <1>2, DivisionRest
    <2>2. addr = q * Base + m /\ m \in 0 .. Base - 1
      BY <1>2, <2>1, DivisionRest
    <2>3. q >= 0 /\ q < Base
      <3>1. ASSUME q < 0 PROVE FALSE
        <4>1. q * Base >= Base \/ q * Base <= - Base
          BY <3>1, MultipleIsFar
        <4>2. (- q) * Base = - (q * Base) /\ q * Base \in Int /\ (- q) * Base \in Nat
          BY <3>1, MultipleRest, ProductOfNats
        <4> QED
          BY <1>2, <2>2, <4>1, <4>2
      <3>2. ASSUME q >= Base PROVE FALSE
        <4>1. Base * Base <= q * Base
          BY <3>2, ProductMonotone
        <4>2. q * Base \in Int /\ Base * Base \in Int
          BY MultipleRest
        <4> QED
          BY <1>2, <2>2, <4>1, <4>2
      <3> QED
        BY <3>1, <3>2
    <2> QED
      BY <2>1, <2>2, <2>3 DEF Byte
  <1>4. /\ head \in Seq(Byte) /\ Len(head) = 4 /\ head[4] = type
        /\ head[2] = addr \div Base /\ head[3] = addr % Base
    <2>1. type \in Byte
      BY DEF Byte
    <2> QED
      BY <1>1, <1>3, <2>1
  <1>5. PICK bytes : bytes = head \o payload
    OBVIOUS
  <1>6. bytes \in Seq(Byte) /\ Joined(bytes, head, payload)
    BY <1>4, <1>5, ConcatJoins
  <1>7. Len(payload) \in Nat /\ Len(bytes) = Len(payload) + 4
    BY <1>4, <1>6 DEF Joined
  <1>8. /\ bytes[4] = type
        /\ bytes[2] = addr \div Base /\ bytes[3] = addr % Base
        /\ \A i \in 1 .. Len(payload) : bytes[4 + i] = payload[i]
    BY <1>4, <1>6, <1>7 DEF Joined
  <1>9. Completed(line, bytes)
    BY <1>1, <1>5 DEF HexLine, Completed
  <1>10. /\ line \in Line /\ Len(line) = Len(bytes) + 1
         /\ ChecksumHolds(line)
         /\ \A i \in 1 .. Len(bytes) : line[i] = bytes[i]
    <2>1. Len(bytes) <= 3 + Base
      BY <1>7 DEF Byte
    <2> QED
      BY <1>6, <1>9, <2>1, ChecksumCompletes
  <1>11. Addr(line) = addr
    <2>1. line[2] = addr \div Base /\ line[3] = addr % Base
      BY <1>7, <1>8, <1>10
    <2>2. addr = (addr \div Base) * Base + (addr % Base)
      BY <1>2, DivisionRest
    <2> QED
      BY <2>1, <2>2 DEF Addr
  <1>12. Payload(line) = payload
    <2>1. PICK p : p = Payload(line)
      OBVIOUS
    <2>2. line \in Seq(Byte) /\ Len(line) = Len(payload) + 5
      BY <1>7, <1>10 DEF Line
    <2>3. p \in Seq(Byte) /\ Len(p) = Len(payload)
      BY <1>7, <1>10, <2>1, <2>2, LineFields
    <2>4. \A i \in 1 .. Len(p) : p[i] = line[4 + i]
      <3>1. p = SubSeq(line, 5, Len(payload) + 4)
        BY <1>7, <2>1, <2>2 DEF Payload
      <3> QED
        BY <1>7, <2>2, <2>3, <3>1
    <2>5. ASSUME NEW i \in 1 .. Len(p) PROVE p[i] = payload[i]
      <3>1. i \in 1 .. Len(payload)
        BY <1>7, <2>3
      <3>2. 4 + i \in 1 .. Len(bytes)
        BY <1>7, <3>1
      <3>3. line[4 + i] = bytes[4 + i]
        BY <1>10, <3>2
      <3> QED
        BY <1>8, <2>4, <3>1, <3>3
    <2> QED
      BY <2>1, <2>3, <2>5, SeqEqual
  <1> QED
    BY <1>7, <1>8, <1>10, <1>11, <1>12

-----------------------------------------------------------------------------
(* The lines of a dump: whole ones, and before dump_end none that ends it. *)
Intact == {line \in Line : ChecksumHolds(line)}

Plain == {line \in Intact : line[4] # RecordType["END_OF_FILE"]}

LEMMA PlainLine ==
    ASSUME NEW addr \in 0 .. Window - 1, NEW type \in {0, 4},
           NEW payload \in Seq(Byte), Len(payload) \in Byte
    PROVE  HexLine(addr, type, payload) \in Plain
  <1>1. PICK line : line = HexLine(addr, type, payload)
    OBVIOUS
  <1>2. line \in Line /\ ChecksumHolds(line) /\ line[4] = type
    BY <1>1, HexLineShape
  <1> QED
    BY <1>1, <1>2 DEF Plain, Intact, RecordType

LEMMA EndLineShape == EndLine \in Intact
  <1> USE HexAssumption
  <1>1. 0 \in 0 .. Window - 1
    <2>1. Base <= Base * Base
      BY ProductMonotone, ProductOfNats
    <2> QED
      BY <2>1, ProductOfNats DEF Window
  <1>2. PICK none : none = <<>>
    OBVIOUS
  <1>3. none \in Seq(Byte) /\ Len(none) \in Byte
    BY <1>2 DEF Byte
  <1>4. PICK line : line = HexLine(0, 1, none)
    OBVIOUS
  <1>5. line \in Line /\ ChecksumHolds(line)
    BY <1>1, <1>3, <1>4, HexLineShape
  <1> QED
    BY <1>2, <1>4, <1>5 DEF EndLine, Intact, RecordType

LEMMA WindowRest ==
    ASSUME NEW a \in Nat
    PROVE  /\ a % Window \in 0 .. Window - 1 /\ 0 \in 0 .. Window - 1
           /\ AddrHi(a) \in Byte /\ 0 \in Byte
  <1> USE HexAssumption
  <1>1. Window \in Nat /\ Window > 0
    <2>1. 1 * Base <= Base * Base
      BY ProductMonotone
    <2> QED
      BY <2>1, ProductOfNats DEF Window
  <1>2. a % Window \in 0 .. Window - 1 /\ a \div Window \in Int
    BY <1>1, DivisionRest
  <1>3. AddrHi(a) \in 0 .. Base - 1
    BY <1>2, DivisionRest DEF AddrHi
  <1> QED
    BY <1>1, <1>2, <1>3 DEF Byte

LEMMA DataLineShape ==
    ASSUME NEW r \in Region, NEW data \in Seq(Byte), NEW first \in Nat
    PROVE  DataLine(r, data, first) \in Plain
  <1> USE HexAssumption, DumpAssumption
  <1>1. PICK last \in Nat : last = IF first + LineBytes > Len(data) THEN Len(data)
                                   ELSE first + LineBytes
    OBVIOUS
  <1>2. last <= Len(data) /\ last <= first + LineBytes
    BY <1>1
  <1>3. PICK from \in Nat : from = first + 1
    OBVIOUS
  <1>4. \A i \in from .. last : data[i] \in Byte
    BY <1>2, <1>3
  <1>5. PICK payload : payload = SubSeq(data, from, last)
    OBVIOUS
  <1>6. /\ payload \in Seq(Byte)
        /\ Len(payload) = IF from <= last THEN last - from + 1 ELSE 0
    BY <1>3, <1>4, <1>5, SubSeqProperties
  <1>7. Len(payload) \in Byte
    BY <1>2, <1>3, <1>6 DEF Byte
  <1>8. PICK addr : addr = (r.start + first) % Window
    OBVIOUS
  <1>9. addr \in 0 .. Window - 1
    <2>1. r.start + first \in Nat
      BY DEF Region
    <2> QED
      BY <1>8, <2>1, WindowRest
  <1>10. HexLine(addr, 0, payload) \in Plain
    BY <1>6, <1>7, <1>9, PlainLine
  <1>11. DataLine(r, data, first) = HexLine(addr, 0, payload)
    BY <1>1, <1>3, <1>5, <1>8 DEF DataLine, RecordType
  <1> QED
    BY <1>10, <1>11

LEMMA RegionLinesShape ==
    ASSUME NEW r \in Region, NEW data \in Seq(Byte)
    PROVE  RegionLines(r, data) \in Seq(Plain)
  <1> USE HexAssumption, DumpAssumption
  <1>1. PICK head : head = ExtendedLine(r)
    OBVIOUS
  <1>2. head \in Seq(Plain)
    <2>1. CASE r.start < Window
      BY <1>1, <2>1 DEF ExtendedLine
    <2>2. CASE ~ (r.start < Window)
      <3>1. PICK payload : payload = <<0, AddrHi(r.start)>>
        OBVIOUS
      <3>2. r.start \in Nat
        BY DEF Region
      <3>3. payload \in Seq(Byte) /\ Len(payload) = 2
        <4>1. 0 \in Byte /\ AddrHi(r.start) \in Byte
          BY <3>2, WindowRest
        <4> QED
          BY <3>1, <4>1
      <3>4. Len(payload) \in Byte
        BY <3>3 DEF Byte
      <3>5. PICK line : line = HexLine(0, 4, payload)
        OBVIOUS
      <3>6. line \in Plain
        BY <3>2, <3>3, <3>4, <3>5, WindowRest, PlainLine
      <3>7. head = <<line>>
        BY <1>1, <2>2, <3>1, <3>5 DEF ExtendedLine, RecordType
      <3> QED
        BY <3>6, <3>7
    <2> QED
      BY <2>1, <2>2
  <1>3. PICK n : n = (Len(data) + LineBytes - 1) \div LineBytes
    OBVIOUS
  <1>4. n \in Nat
    <2>1. PICK a \in Nat : a = Len(data) + LineBytes - 1
      <3>1. Len(data) \in Nat /\ LineBytes \in Nat \ {0}
        OBVIOUS
      <3>2. Len(data) + LineBytes - 1 \in Nat
        BY <3>1
      <3> QED
        BY <3>2
    <2>2. LineBytes \in Nat /\ LineBytes > 0
      OBVIOUS
    <2>3. a \div LineBytes \in Nat
      BY <2>2
    <2> QED
      BY <1>3, <2>1, <2>3
  <1>5. PICK body : body = [k \in 1 .. n |-> DataLine(r, data, (k - 1) * LineBytes)]
    OBVIOUS
  <1>6. body \in Seq(Plain)
    <2>1. ASSUME NEW k \in 1 .. n
          PROVE  DataLine(r, data, (k - 1) * LineBytes) \in Plain
      <3>1. (k - 1) * LineBytes \in Nat
        <4>1. k - 1 \in Nat /\ LineBytes \in Nat
          BY <1>4
        <4> QED
          BY <4>1, ProductOfNats
      <3> QED
        BY <3>1, DataLineShape
    <2> QED
      BY <1>4, <1>5, <2>1
  <1>7. RegionLines(r, data) = head \o body
    BY <1>1, <1>3, <1>5 DEF RegionLines
  <1> QED
    BY <1>2, <1>6, <1>7, ConcatProperties

-----------------------------------------------------------------------------
(***************************************************************************)
(* The invariant of a dump.  Until the file is finished nothing is parsed; *)
(* its lines are whole, and the one that ends it comes last.  In a damaged *)
(* file a broken line lies ahead of the parser, and no end before it.      *)
(***************************************************************************)
BrokenAhead(i) ==
    /\ i <= Len(file) /\ at <= i
    /\ ~ ChecksumHolds(file[i])
    /\ \A j \in Nat \ {0} : j < i => file[j][4] # RecordType["END_OF_FILE"]

LinesInv ==
    /\ dump \in {"given", "writing", "reading", "written", "interrupted", "damaged"}
    /\ dump \in {"writing", "reading"} =>
           at = 1 /\ status = "reading" /\ result = <<>>
    /\ dump \in {"writing", "reading", "interrupted"} => file \in Seq(Plain)
    /\ dump = "interrupted" => status # "parsed"
    /\ dump = "written" =>
          /\ file \in Seq(Intact)
          /\ \A j \in Nat \ {0} :
                j < Len(file) => file[j][4] # RecordType["END_OF_FILE"]
    /\ dump = "damaged" =>
          status # "parsed" /\ \E i \in Nat \ {0} : BrokenAhead(i)

(* What has been read of the region, in whole words. *)
ReadingInv ==
    /\ dump \in {"writing", "reading"} =>
          sections \in Sections /\ memory \in Memories
    /\ dump = "reading" =>
          /\ More
          /\ buffer \in Seq(Byte) /\ Len(buffer) % Current.word_size = 0
          /\ pc = Current.start + Len(buffer)
          /\ \A j \in DOMAIN buffer : buffer[j] = memory[Current.start + j - 1]
          /\ buffer = <<>> \/ pc <= Current.end

DumpInv == LayoutInv /\ HoldsInv /\ LinesInv /\ ReadingInv

(* A lookup of an address finds the region it is in, the only one. *)
LEMMA OrderedLookup ==
    ASSUME NEW i \in DOMAIN Map, NEW a \in Nat, InRegion(a, Map[i])
    PROVE  WithRegion(Map, a) = Map[i]
  <1> USE HexAssumption, DumpMapAssumption
  <1>1. Map \in Seq(Region) /\ i \in Nat /\ Map[i] \in Region
    OBVIOUS
  <1>2. ASSUME NEW j \in 1 .. i - 1, InRegion(a, Map[j])
        PROVE  FALSE
    <2>1. j \in DOMAIN Map /\ j < i /\ Map[j] \in Region
      BY <1>1
    <2>2. Map[j].end <= Map[i].start
      BY <2>1 DEF Ordered
    <2> QED
      BY <1>1, <1>2, <2>1, <2>2 DEF InRegion, Region
  <1>3. FirstMatch(Map, a, i)
    BY <1>2 DEF FirstMatch
  <1> QED
    BY <1>1, <1>3, WithRegionAtFirstMatch

(* The region in work is one of the map. *)
LEMMA CurrentRegion ==
    ASSUME sections \in Sections, More
    PROVE  /\ Current \in Region
           /\ Named(Map, sections[next]) = {Current}
           /\ \E i \in DOMAIN Map : Current = Map[i]
           /\ \A a \in Nat : InRegion(a, Current) => WithRegion(Map, a) = Current
  <1> USE HexAssumption, DumpAssumption, DumpMapAssumption
  <1>1. sections[next] \in {Map[i].name : i \in DOMAIN Map}
    <2>1. sections \in Seq({Map[i].name : i \in DOMAIN Map})
      OBVIOUS
    <2> QED
      BY <2>1, ElementOfSeq DEF More
  <1>2. \E r : r \in Named(Map, sections[next])
    BY <1>1 DEF Named
  <1>3. Current \in Named(Map, sections[next])
    BY <1>2 DEF Current
  <1>4. PICK i \in DOMAIN Map : Current = Map[i]
    BY <1>3 DEF Named
  <1>5. Map \in Seq(Region) /\ i \in Nat /\ Map[i] \in Region
    BY <1>4
  <1>6. \A a \in Nat : InRegion(a, Current) => WithRegion(Map, a) = Current
    BY <1>4, OrderedLookup
  <1>7. Named(Map, sections[next]) = {Current}
    BY <1>3 DEF Named
  <1> QED
    BY <1>4, <1>5, <1>6, <1>7

LEMMA EvenFits ==
    ASSUME NEW s \in Nat, NEW e \in Nat, NEW n \in Nat,
           s % 2 = 0, e % 2 = 0, n % 2 = 0, n < e - s
    PROVE  s + n + 1 < e
  OBVIOUS

(* A word read is the next one of the region, wherever the device's        *)
(* counter is moved: by itself or by increment_addr.                       *)
LEMMA ReadWordStep == ReadingInv /\ ReadWord => ReadingInv'
  <1> USE HexAssumption, DumpAssumption, DumpMapAssumption
  <1> SUFFICES ASSUME ReadingInv, ReadWord PROVE ReadingInv'
    OBVIOUS
  <1>1. PICK r : r = Current
    OBVIOUS
  <1>2. /\ dump = "reading" /\ Len(buffer) < r.end - r.start
        /\ UNCHANGED <<sections, memory, next, dump>>
    BY <1>1 DEF ReadWord
  <1>3. /\ sections \in Sections /\ memory \in Memories /\ More
        /\ buffer \in Seq(Byte) /\ Len(buffer) % r.word_size = 0
        /\ pc = r.start + Len(buffer)
        /\ \A j \in DOMAIN buffer : buffer[j] = memory[r.start + j - 1]
    BY <1>1, <1>2 DEF ReadingInv
  <1>4. /\ r \in Region
        /\ \E i \in DOMAIN Map : r = Map[i]
        /\ \A a \in Nat : InRegion(a, r) => WithRegion(Map, a) = r
    BY <1>1, <1>3, CurrentRegion
  <1>5. /\ r.start \in Nat /\ r.end \in Nat /\ r.word_size \in {1, 2}
        /\ r.autoincrement_addr \in BOOLEAN
        /\ r.start % r.word_size = 0 /\ r.end % r.word_size = 0
    BY <1>4 DEF Region
  <1>6. Len(buffer) \in Nat /\ pc \in Nat /\ InRegion(pc, r)
    BY <1>2, <1>3, <1>5 DEF InRegion
  <1>7. WithRegion(Map, pc) = r
    BY <1>4, <1>6
  <1>8. PICK word : word = [j \in 1 .. r.word_size |-> memory[pc + j - 1]]
    OBVIOUS
  <1>9. buffer' = buffer \o word /\ pc' = pc + r.word_size
    <2>1. Increments <=> r.autoincrement_addr
      BY <1>7 DEF Increments
    <2>2. pc' = pc + (IF r.autoincrement_addr /\ Increments THEN r.word_size ELSE 0)
                   + (IF r.autoincrement_addr THEN 0 ELSE r.word_size)
      BY <1>1, <1>7 DEF ReadWord
    <2>3. buffer' = buffer \o word
      BY <1>1, <1>8 DEF ReadWord
    <2> QED
      BY <1>5, <1>6, <2>1, <2>2, <2>3
  <1>10. \A j \in 1 .. r.word_size : pc + j - 1 \in r.start .. r.end - 1
    <2>1. CASE r.word_size = 1
      BY <1>2, <1>3, <1>5, <1>6, <2>1
    <2>2. CASE r.word_size = 2
      <3>1. r.start % 2 = 0 /\ r.end % 2 = 0 /\ Len(buffer) % 2 = 0
        BY <1>3, <1>5, <2>2
      <3>2. PICK n \in Nat : n = Len(buffer)
        BY <1>6
      <3>3. n < r.end - r.start /\ n % 2 = 0 /\ pc = r.start + n
        BY <1>2, <1>3, <3>1, <3>2
      <3>4. pc + 1 < r.end
        BY <1>5, <3>1, <3>3, EvenFits
      <3>5. pc >= r.start
        BY <1>5, <3>2, <3>3
      <3>6. pc \in r.start .. r.end - 1 /\ pc + 1 \in r.start .. r.end - 1
        BY <1>5, <1>6, <3>4, <3>5
      <3> QED
        BY <1>6, <2>2, <3>6
    <2> QED
      BY <1>5, <2>1, <2>2
  <1>11. word \in Seq(Byte) /\ Len(word) = r.word_size
    <2>1. \A a \in r.start .. r.end - 1 : memory[a] \in Byte
      <3>1. r.start .. r.end - 1 \subseteq MapAddrs(Map)
        BY <1>4 DEF MapAddrs, Addrs
      <3>2. memory \in [MapAddrs(Map) -> Byte]
        BY <1>3
      <3> QED
        BY <3>1, <3>2
    <2>2. PICK w \in Nat : w = r.word_size
      BY <1>5
    <2>3. \A j \in 1 .. w : memory[pc + j - 1] \in Byte
      BY <1>10, <2>1, <2>2
    <2>4. word \in [1 .. w -> Byte]
      BY <1>8, <2>2, <2>3
    <2> QED
      BY <2>2, <2>4
  <1>12. /\ buffer' \in Seq(Byte) /\ Len(buffer') = Len(buffer) + r.word_size
         /\ Joined(buffer', buffer, word)
    <2>1. PICK b : b = buffer'
      OBVIOUS
    <2>2. /\ b \in Seq(Byte) /\ Len(b) = Len(buffer) + Len(word)
          /\ Joined(b, buffer, word)
      <3>1. buffer \in Seq(Byte) /\ word \in Seq(Byte) /\ b = buffer \o word
        BY <1>3, <1>9, <1>11, <2>1
      <3>2. b \in Seq(Byte) /\ Joined(b, buffer, word)
        BY <3>1, ConcatJoins
      <3> QED
        BY <3>2 DEF Joined
    <2> QED
      BY <1>11, <2>1, <2>2
  <1>13. Len(buffer') % r.word_size = 0
    <2>1. CASE r.word_size = 1
      BY <1>6, <1>12, <2>1
    <2>2. CASE r.word_size = 2
      BY <1>3, <1>6, <1>12, <2>2
    <2> QED
      BY <1>5, <2>1, <2>2
  <1>14. pc' = r.start + Len(buffer')
    <2>1. PICK n \in Nat, w \in {1, 2} : n = Len(buffer) /\ w = r.word_size
      BY <1>5, <1>6
    <2>2. pc = r.start + n /\ pc' = pc + w /\ Len(buffer') = n + w
      BY <1>3, <1>9, <1>12, <2>1
    <2>3. PICK b \in Nat : b = r.start
      BY <1>5
    <2>4. (b + n) + w = b + (n + w)
      OBVIOUS
    <2> QED
      BY <2>2, <2>3, <2>4
  <1>15. ASSUME NEW j \in DOMAIN buffer'
         PROVE  buffer'[j] = memory[r.start + j - 1]
    <2>1. j \in Nat \ {0} /\ j <= Len(buffer) + r.word_size
      BY <1>12
    <2>2. CASE j <= Len(buffer)
      BY <1>3, <1>6, <1>12, <2>1, <2>2 DEF Joined
    <2>3. CASE j > Len(buffer)
      <3>1. PICK k \in 1 .. r.word_size : j = Len(buffer) + k
        <4>1. j - Len(buffer) \in 1 .. r.word_size
          BY <1>5, <1>6, <2>1, <2>3
        <4> QED
          BY <1>6, <2>1, <4>1
      <3>2. buffer'[j] = word[k]
        BY <1>11, <1>12, <3>1 DEF Joined
      <3>3. word[k] = memory[pc + k - 1]
        BY <1>8
      <3>4. pc + k - 1 = r.start + j - 1
        BY <1>3, <1>5, <1>6, <3>1
      <3> QED
        BY <3>2, <3>3, <3>4
    <2> QED
      BY <1>6, <2>1, <2>2, <2>3
  <1>16. Current' = r /\ More' /\ memory' = memory /\ sections' = sections
    BY <1>1, <1>2, <1>3 DEF Current, More
  <1>17. pc' <= r.end
    <2>1. PICK w \in {1, 2}, e \in Nat : w = r.word_size /\ e = r.end
      BY <1>5
    <2>2. pc + w - 1 <= e - 1
      BY <1>5, <1>10, <2>1
    <2> QED
      BY <1>6, <1>9, <2>1, <2>2
  <1> QED
    BY <1>2, <1>3, <1>12, <1>13, <1>14, <1>15, <1>16, <1>17 DEF ReadingInv

-----------------------------------------------------------------------------
(* The file may change as long as no line of it has been parsed. *)
LEMMA FileReplaced ==
    ASSUME LayoutInv, HoldsInv, at = 1, file' \in Seq(Line),
           UNCHANGED <<at, base_addr, result, status>>
    PROVE  LayoutInv' /\ HoldsInv'
  <1>1. Len(file') \in Nat /\ at' = 1
    OBVIOUS
  <1>2. LayoutInv'
    BY <1>1 DEF LayoutInv, TypeOK, BlocksGood
  <1>3. 1 .. at - 1 = {} /\ at' - 1 = at - 1
    OBVIOUS
  <1>4. UpperOf(file, at - 1) = 0 /\ UpperOf(file', at' - 1) = 0
    BY <1>3 DEF UpperOf, Exts
  <1>5. \A x : ~ InFile(x, file, at - 1) /\ ~ InFile(x, file', at' - 1)
    BY <1>3 DEF InFile
  <1>6. WindowInForce' = WindowInForce
    BY DEF WindowInForce
  <1> QED
    BY <1>2, <1>4, <1>5, <1>6 DEF HoldsInv

LEMMA PlainFile ==
    ASSUME NEW f \in Seq(Plain)
    PROVE  /\ f \in Seq(Line) /\ f \in Seq(Intact) /\ Len(f) \in Nat
           /\ \A j \in Nat \ {0} :
                 j <= Len(f) => f[j][4] # RecordType["END_OF_FILE"]
  BY DEF Plain, Intact

LEMMA DumpInitial == DumpInit => DumpInv
  <1> USE HexAssumption, DumpAssumption
  <1> SUFFICES ASSUME DumpInit PROVE DumpInv
    OBVIOUS
  <1>1. Start /\ dump \in {"given", "writing"}
    BY DEF DumpInit
  <1>2. CASE dump = "given"
    <2>1. file \in Seq(Line)
      BY <1>2 DEF DumpInit
    <2> QED
      BY <1>1, <1>2, <2>1, LayoutStart, HoldsInit DEF DumpInv, LinesInv, ReadingInv
  <1>3. CASE dump = "writing"
    <2>1. file = <<>> /\ sections \in Sections /\ memory \in Memories
      BY <1>3 DEF DumpInit
    <2>2. file \in Seq(Line) /\ file \in Seq(Plain)
      BY <2>1
    <2> QED
      BY <1>1, <1>3, <2>1, <2>2, LayoutStart, HoldsInit
      DEF DumpInv, LinesInv, ReadingInv, Start
  <1> QED
    BY <1>1, <1>2, <1>3

(* A file is printed region by region and closed. *)
LEMMA PrintRegionStep == DumpInv /\ PrintRegion => DumpInv'
  <1> SUFFICES ASSUME DumpInv, PrintRegion PROVE DumpInv'
    OBVIOUS
  <1>1. /\ dump = "reading" /\ dump' = "writing"
        /\ file' = file \o RegionLines(Current, buffer)
        /\ UNCHANGED <<sections, memory, at, base_addr, result, status>>
    BY DEF PrintRegion
  <1>2. /\ file \in Seq(Plain) /\ at = 1 /\ status = "reading"
        /\ sections \in Sections /\ memory \in Memories
        /\ More /\ buffer \in Seq(Byte)
    BY <1>1 DEF DumpInv, LinesInv, ReadingInv
  <1>3. RegionLines(Current, buffer) \in Seq(Plain)
    BY <1>2, CurrentRegion, RegionLinesShape
  <1>4. file' \in Seq(Plain)
    BY <1>1, <1>2, <1>3, ConcatProperties
  <1>5. LayoutInv' /\ HoldsInv'
    BY <1>1, <1>2, <1>4, PlainFile, FileReplaced DEF DumpInv
  <1>6. result = <<>>
    BY <1>1 DEF DumpInv, LinesInv
  <1>7. LinesInv'
    BY <1>1, <1>2, <1>4, <1>6 DEF LinesInv
  <1>8. ReadingInv'
    BY <1>1, <1>2 DEF ReadingInv
  <1> QED
    BY <1>5, <1>7, <1>8 DEF DumpInv

LEMMA DumpEndStep == DumpInv /\ DumpEnd => DumpInv'
  <1> SUFFICES ASSUME DumpInv, DumpEnd PROVE DumpInv'
    OBVIOUS
  <1>1. /\ dump = "writing" /\ dump' = "written"
        /\ file' = Append(file, EndLine)
        /\ UNCHANGED <<sections, memory, at, base_addr, result, status>>
    BY DEF DumpEnd
  <1>2. file \in Seq(Plain) /\ at = 1
    BY <1>1 DEF DumpInv, LinesInv
  <1>3. /\ file \in Seq(Intact) /\ Len(file) \in Nat
        /\ \A j \in Nat \ {0} :
              j <= Len(file) => file[j][4] # RecordType["END_OF_FILE"]
    BY <1>2, PlainFile
  <1>4. /\ file' \in Seq(Intact) /\ Len(file') = Len(file) + 1
        /\ \A j \in 1 .. Len(file) : file'[j] = file[j]
    BY <1>1, <1>3, EndLineShape, AppendProperties
  <1>5. file' \in Seq(Line)
    BY <1>4 DEF Intact
  <1>6. LayoutInv' /\ HoldsInv'
    BY <1>1, <1>2, <1>5, FileReplaced DEF DumpInv
  <1>7. ASSUME NEW j \in Nat \ {0}, j < Len(file')
        PROVE  file'[j][4] # RecordType["END_OF_FILE"]
    BY <1>3, <1>4, <1>7
  <1>8. LinesInv'
    BY <1>1, <1>4, <1>7 DEF LinesInv
  <1>9. ReadingInv'
    BY <1>1 DEF ReadingInv
  <1> QED
    BY <1>6, <1>8, <1>9 DEF DumpInv

(* A byte changed breaks the checksum of its line. *)
LEMMA DamageStep == DumpInv /\ Damage => DumpInv'
  <1> SUFFICES ASSUME DumpInv, Damage PROVE DumpInv'
    OBVIOUS
  <1>1. /\ dump = "written" /\ dump' = "damaged" /\ at = 1 /\ status = "reading"
        /\ UNCHANGED <<at, base_addr, result, status>>
    BY DEF Damage
  <1>2. PICK i \in DOMAIN file : \E k \in DOMAIN file[i], b \in Byte :
            file[i][k] # b /\ file' = [file EXCEPT ![i][k] = b]
    BY DEF Damage
  <1>3. PICK k \in DOMAIN file[i], b \in Byte :
            file[i][k] # b /\ file' = [file EXCEPT ![i][k] = b]
    BY <1>2
  <1>4. /\ file \in Seq(Intact) /\ Len(file) \in Nat
        /\ \A j \in Nat \ {0} :
              j < Len(file) => file[j][4] # RecordType["END_OF_FILE"]
    BY <1>1 DEF DumpInv, LinesInv
  <1>5. i \in Nat \ {0} /\ i <= Len(file) /\ file[i] \in Line /\ ChecksumHolds(file[i])
    BY <1>2, <1>4 DEF Intact
  <1>6. PICK bad : bad = [file[i] EXCEPT ![k] = b]
    OBVIOUS
  <1>7. bad \in Line /\ ~ ChecksumHolds(bad)
    BY <1>3, <1>5, <1>6, ChecksumDetects DEF Changed
  <1>8. file' = [file EXCEPT ![i] = bad]
    BY <1>3, <1>6
  <1>9. file \in Seq(Line)
    BY <1>4 DEF Intact
  <1>10. /\ file' \in Seq(Line) /\ Len(file') = Len(file) /\ file'[i] = bad
         /\ \A j \in Nat \ {0} : j < i => file'[j] = file[j]
    BY <1>5, <1>7, <1>8, <1>9
  <1>11. LayoutInv' /\ HoldsInv'
    BY <1>1, <1>10, FileReplaced DEF DumpInv
  <1>12. BrokenAhead(i)'
    <2>1. ASSUME NEW j \in Nat \ {0}, j < i
          PROVE  file'[j][4] # RecordType["END_OF_FILE"]
      BY <1>4, <1>5, <1>10, <2>1
    <2>2. i <= Len(file') /\ at' <= i
      BY <1>1, <1>5, <1>10
    <2> QED
      BY <1>7, <1>10, <2>1, <2>2 DEF BrokenAhead
  <1>13. LinesInv' /\ ReadingInv'
    BY <1>1, <1>5, <1>12 DEF LinesInv, ReadingInv
  <1> QED
    BY <1>11, <1>13 DEF DumpInv

(* No line after a broken one is read, so the end is not reached. *)
LEMMA ParseStep == DumpInv /\ Parse => DumpInv'
  <1> SUFFICES ASSUME DumpInv, Parse PROVE DumpInv'
    OBVIOUS
  <1>1. /\ dump \notin {"writing", "reading"} /\ Next
        /\ UNCHANGED <<sections, memory, pc, next, buffer, dump>>
    BY DEF Parse, dumpVars
  <1>2. LayoutInv' /\ HoldsInv'
    BY <1>1, LayoutStep, HoldsStep DEF DumpInv
  <1>3. file' = file
    BY <1>1 DEF Next, DataRecord, RejectData, ExtendedAddressRecord,
                EndOfFileRecord, NoMoreLines
  <1>4. at \in Nat \ {0}
    BY DEF DumpInv, LayoutInv, TypeOK
  <1>5. \/ at' = at
        \/ at' = at + 1 /\ WellFormedLine(file[at])
    BY <1>1 DEF Next, DataRecord, RejectData, ExtendedAddressRecord,
                EndOfFileRecord, NoMoreLines, Reading
  <1>6. status' = "parsed" =>
           /\ at \in DOMAIN file /\ WellFormedLine(file[at])
           /\ file[at][4] = RecordType["END_OF_FILE"]
    BY <1>1 DEF Next, DataRecord, RejectData, ExtendedAddressRecord,
                EndOfFileRecord, NoMoreLines, Reading
  <1>7. ASSUME dump = "interrupted" PROVE status' # "parsed"
    <2>1. file \in Seq(Plain)
      BY <1>7 DEF DumpInv, LinesInv
    <2> QED
      BY <1>4, <1>6, <2>1, PlainFile
  <1>8. ASSUME dump = "damaged"
        PROVE  status' # "parsed" /\ \E i \in Nat \ {0} : BrokenAhead(i)'
    <2>1. PICK i \in Nat \ {0} : BrokenAhead(i)
      BY <1>8 DEF DumpInv, LinesInv
    <2>2. /\ i <= Len(file) /\ at <= i /\ ~ ChecksumHolds(file[i])
          /\ \A j \in Nat \ {0} :
                j < i => file[j][4] # RecordType["END_OF_FILE"]
      BY <2>1 DEF BrokenAhead
    <2>3. WellFormedLine(file[at]) => at < i
      BY <1>4, <2>1, <2>2 DEF WellFormedLine
    <2>4. status' # "parsed"
      BY <1>4, <1>6, <2>2, <2>3
    <2>5. at' <= i
      BY <1>4, <1>5, <2>1, <2>2, <2>3
    <2>6. BrokenAhead(i)'
      BY <1>3, <2>2, <2>5 DEF BrokenAhead
    <2> QED
      BY <2>1, <2>4, <2>6
  <1>9. LinesInv'
    BY <1>1, <1>3, <1>7, <1>8 DEF DumpInv, LinesInv
  <1>10. ReadingInv'
    BY <1>1 DEF ReadingInv
  <1> QED
    BY <1>2, <1>9, <1>10 DEF DumpInv

LEMMA DumpStep == DumpInv /\ [DumpNext]_<<vars, dumpVars>> => DumpInv'
  <1> SUFFICES ASSUME DumpInv, [DumpNext]_<<vars, dumpVars>> PROVE DumpInv'
    OBVIOUS
  <1>1. LayoutInv /\ HoldsInv /\ LinesInv /\ ReadingInv
    BY DEF DumpInv
  <1>2. ASSUME UNCHANGED vars PROVE LayoutInv' /\ HoldsInv'
    BY <1>1, <1>2, LayoutStep, HoldsStep
  <1>3. CASE BeginRegion
    <2>1. /\ dump = "writing" /\ More /\ pc' = Current.start /\ buffer' = <<>>
          /\ dump' = "reading"
          /\ UNCHANGED <<vars, sections, memory, next>>
      BY <1>3 DEF BeginRegion
    <2>2. LinesInv'
      BY <1>1, <2>1 DEF LinesInv, vars
    <2>3. /\ sections \in Sections /\ memory \in Memories
          /\ Current' = Current /\ More'
      BY <1>1, <2>1 DEF ReadingInv, Current, More
    <2>4. Current.start \in Nat /\ Current.word_size \in {1, 2}
      BY <2>1, <2>3, CurrentRegion DEF Region
    <2>5. /\ buffer' \in Seq(Byte) /\ Len(buffer') = 0 /\ DOMAIN buffer' = {}
          /\ pc' = Current.start + Len(buffer')
          /\ Len(buffer') % Current.word_size = 0
      BY <2>1, <2>4
    <2>6. ReadingInv'
      BY <2>1, <2>3, <2>5 DEF ReadingInv
    <2> QED
      BY <1>2, <2>1, <2>2, <2>6 DEF DumpInv
  <1>4. CASE ReadWord
    <2>1. dump' = dump /\ UNCHANGED vars
      BY <1>4 DEF ReadWord
    <2>2. LinesInv'
      BY <1>1, <2>1 DEF LinesInv, BrokenAhead, vars
    <2> QED
      BY <1>1, <1>2, <1>4, <2>1, <2>2, ReadWordStep DEF DumpInv
  <1>5. CASE PrintRegion
    BY <1>5, PrintRegionStep
  <1>6. CASE DumpEnd
    BY <1>6, DumpEndStep
  <1>7. CASE Parse
    BY <1>7, ParseStep
  <1>8. CASE Interrupt
    <2>1. /\ dump \in {"writing", "reading"} /\ dump' = "interrupted"
          /\ UNCHANGED vars
      BY <1>8 DEF Interrupt, Interruptible
    <2>2. LinesInv' /\ ReadingInv'
      BY <1>1, <2>1 DEF LinesInv, ReadingInv, vars
    <2> QED
      BY <1>2, <2>1, <2>2 DEF DumpInv
  <1>9. CASE Damage
    BY <1>9, DamageStep
  <1>10. CASE UNCHANGED <<vars, dumpVars>>
    <2>1. /\ UNCHANGED <<file, at, base_addr, result, status>>
          /\ UNCHANGED <<sections, memory, pc, next, buffer, dump>>
          /\ UNCHANGED vars
      BY <1>10 DEF vars, dumpVars
    <2>2. LinesInv' /\ ReadingInv'
      BY <1>1, <2>1 DEF LinesInv, BrokenAhead, ReadingInv, Current, More
    <2> QED
      BY <1>2, <2>1, <2>2 DEF DumpInv
  <1> QED
    BY <1>3, <1>4, <1>5, <1>6, <1>7, <1>8, <1>9, <1>10 DEF DumpNext, Program

LEMMA DumpAlways == DumpSpec => []DumpInv
  <1> QED
    BY DumpInitial, DumpStep, PTL DEF DumpSpec

(* What the parser guarantees of every file it guarantees of dumps, of     *)
(* truncated and of damaged ones, too.                                     *)
THEOREM DumpIsParsed ==
    DumpSpec => [](/\ TypeOK
                   /\ FirmwareHoldsFile
                   /\ ElementsSeparated
                   /\ ElementsInRegion)
  <1>1. DumpInv => /\ TypeOK
                   /\ FirmwareHoldsFile
                   /\ ElementsSeparated
                   /\ ElementsInRegion
    BY LayoutMeans, HoldsMeans DEF DumpInv
  <1> QED
    BY <1>1, DumpAlways, PTL

(* While read_n_impl reads a region the device's program counter is where  *)
(* the host takes it to be, and the bytes read are the region's, in every  *)
(* map in order, with or without auto-increment.                           *)
THEOREM ReadInStepHolds == DumpSpec => []ReadInStep
  <1>1. DumpInv => ReadInStep
    BY DEF DumpInv, ReadingInv, ReadInStep
  <1> QED
    BY <1>1, DumpAlways, PTL

(* A dump that an interrupt cut short is never parsed to its end: only     *)
(* dump_end prints the line that ends it.                                  *)
THEOREM TruncatedRejected == DumpSpec => []TruncatedDumpRejected
  <1>1. DumpInv => TruncatedDumpRejected
    BY DEF DumpInv, LinesInv, TruncatedDumpRejected
  <1> QED
    BY <1>1, DumpAlways, PTL

(* Nor is one with any one of its bytes changed, whatever its lines are:   *)
(* the checksums the Dumper writes are those the parser checks, and one    *)
(* byte less than Base cannot change a sum by a multiple of Base.          *)
THEOREM DamagedRejected == DumpSpec => []DamagedDumpRejected
  <1>1. DumpInv => DamagedDumpRejected
    BY DEF DumpInv, LinesInv, DamagedDumpRejected
  <1> QED
    BY <1>1, DumpAlways, PTL

-----------------------------------------------------------------------------
(* How a region is cut into lines: the n lines of B bytes cover L bytes,   *)
(* and every one of them begins before the end.                            *)
Covers(n, B, L) ==
    \A j \in 0 .. L - 1 :
        \E k \in 1 .. n : (k - 1) * B <= j /\ j < (k - 1) * B + B

LEMMA ChunksCover ==
    ASSUME NEW L \in Nat, NEW B \in Nat, B > 0,
           NEW n, n = (L + B - 1) \div B
    PROVE  /\ n \in Nat
           /\ \A k \in 1 .. n : /\ (k - 1) * B \in Nat /\ (k - 1) * B < L
                                /\ k * B = (k - 1) * B + B
           /\ Covers(n, B, L)
  <1>1. PICK a \in Nat : a = L + B - 1
    OBVIOUS
  <1>2. n \in Int /\ a = n * B + (a % B) /\ a % B \in 0 .. B - 1
    BY <1>1, DivisionRest
  <1>3. n * B \in Int
    BY <1>2, MultipleRest
  <1>4. n * B >= L /\ n * B - B < L
    BY <1>1, <1>2, <1>3
  <1>5. n >= 0
    <2>1. ASSUME n < 0 PROVE FALSE
      <3>1. n * B <= - B \/ n * B >= B
        BY <1>2, <2>1, MultipleIsFar
      <3>2. (- n) * B \in Nat /\ (- n) * B = - (n * B)
        BY <1>2, <2>1, ProductOfNats, MultipleRest
      <3> QED
        BY <1>1, <1>2, <1>3, <3>1, <3>2
    <2> QED
      BY <1>2, <2>1
  <1>6. \A k \in Int : k * B = (k - 1) * B + B /\ (k - 1) * B \in Int
    <2> TAKE k \in Int
    <2>1. k * B - (k - 1) * B = (k - (k - 1)) * B /\ k - 1 \in Int
      BY MultiplesDiffer
    <2>2. k * B \in Int /\ (k - 1) * B \in Int
      BY <2>1, MultipleRest
    <2>3. (k - (k - 1)) * B = B
      OBVIOUS
    <2> QED
      BY <2>1, <2>2, <2>3
  <1>7. ASSUME NEW k \in 1 .. n
        PROVE  (k - 1) * B \in Nat /\ (k - 1) * B < L
    <2>1. k - 1 \in Nat /\ n - 1 \in Nat /\ k - 1 <= n - 1
      BY <1>2, <1>7
    <2>2. (k - 1) * B \in Nat /\ (k - 1) * B <= (n - 1) * B
      BY <2>1, ProductOfNats, ProductMonotone
    <2>3. n * B = (n - 1) * B + B /\ (n - 1) * B \in Int
      BY <1>2, <1>6
    <2> QED
      BY <1>3, <1>4, <2>2, <2>3
  <1>8. ASSUME NEW j \in 0 .. L - 1
        PROVE  \E k \in 1 .. n : (k - 1) * B <= j /\ j < (k - 1) * B + B
    <2>1. PICK q \in Int : q = j \div B
      BY <1>8, DivisionRest
    <2>2. j = q * B + (j % B) /\ j % B \in 0 .. B - 1
      BY <1>8, <2>1, DivisionRest
    <2>3. q * B \in Int /\ q * B <= j /\ j < q * B + B
      BY <2>1, <2>2, MultipleRest
    <2>4. q >= 0
      BY <1>8, <2>1
    <2>5. ASSUME q >= n PROVE FALSE
      <3>1. n * B <= q * B
        BY <1>2, <1>5, <2>1, <2>4, <2>5, ProductMonotone
      <3> QED
        BY <1>3, <1>4, <1>8, <2>3, <3>1
    <2>6. q + 1 \in 1 .. n /\ q = (q + 1) - 1
      BY <1>2, <2>1, <2>4, <2>5
    <2> WITNESS q + 1 \in 1 .. n
    <2> QED
      BY <2>3, <2>6
  <1> QED
    BY <1>2, <1>5, <1>6, <1>7, <1>8 DEF Covers

(* An address of a region is given by the region's window and the lower    *)
(* half, and the window by one byte.                                       *)
LEMMA InOneWindow ==
    ASSUME NEW r \in Region, \E i \in DOMAIN Map : r = Map[i],
           NEW a \in Nat, r.start <= a, a < r.end
    PROVE  /\ r.start < Window => a = a % Window
           /\ AddrHi(r.start) * Window + (a % Window) = a
  <1> USE HexAssumption
  <1>1. PICK W : W = Window
    OBVIOUS
  <1>2. W \in Nat /\ W > 0 /\ W = Base * Base
    <2>1. 1 * Base <= Base * Base
      BY ProductMonotone
    <2> QED
      BY <1>1, <2>1, ProductOfNats DEF Window
  <1>3. PICK s \in Nat, e \in Nat : s = r.start /\ e = r.end
    BY DEF Region
  <1>4. PICK q \in Int, l \in 0 .. W - 1 : q = s \div W /\ s = q * W + l
    BY <1>2, DivisionRest
  <1>5. q * W \in Int /\ (q + 1) * W = q * W + W
    <2>1. (q + 1) * W - q * W = ((q + 1) - q) * W
      BY <1>2, MultiplesDiffer
    <2>2. ((q + 1) - q) * W = W
      BY <1>2
    <2>3. q * W \in Int /\ (q + 1) * W \in Int
      BY <1>2, MultipleRest
    <2> QED
      BY <1>2, <2>1, <2>2, <2>3
  <1>6. e <= q * W + W /\ s < Base * W
    <2>1. e <= (s \div W + 1) * W /\ s < Base * W
      BY <1>2, <1>3, DumpWindowAssumption DEF InWindows
    <2> QED
      BY <1>4, <1>5, <2>1
  <1>7. q * W <= a /\ a < q * W + W
    <2>1. PICK w \in Int : w = q * W
      BY <1>5
    <2>2. s = w + l /\ l >= 0 /\ l \in Int /\ e <= w + W
      BY <1>2, <1>4, <1>6, <2>1
    <2>3. s <= a /\ a < e
      BY <1>3
    <2>4. w <= s
      BY <2>1, <2>2
    <2>5. w <= a /\ a < w + W
      BY <1>2, <1>3, <2>1, <2>2, <2>3, <2>4
    <2> QED
      BY <2>1, <2>5
  <1>8. q >= 0 /\ q < Base
    <2>1. q >= 0
      <3>1. ASSUME q < 0 PROVE FALSE
        <4>1. q * W <= - W \/ q * W >= W
          BY <1>2, <1>4, <3>1, MultipleIsFar
        <4>2. (- q) * W \in Nat /\ (- q) * W = - (q * W)
          BY <1>2, <1>4, <3>1, ProductOfNats, MultipleRest
        <4> QED
          BY <1>2, <1>4, <1>5, <4>1, <4>2
      <3> QED
        BY <3>1
    <2>2. ASSUME q >= Base PROVE FALSE
      <3>1. Base * W <= q * W /\ Base * W \in Nat
        BY <1>2, <2>1, <2>2, ProductMonotone, ProductOfNats
      <3> QED
        BY <1>4, <1>5, <1>6, <3>1
    <2> QED
      BY <2>1, <2>2
  <1>9. AddrHi(r.start) = q
    <2>1. q % Base = q
      BY <1>8
    <2> QED
      BY <1>1, <1>3, <1>4, <2>1 DEF AddrHi
  <1>10. a % W = a - q * W
    <2>1. PICK d \in Int, m \in Int : d = a \div W /\ m = a % W
      BY <1>2, DivisionRest
    <2>2. a = d * W + m /\ m \in 0 .. W - 1 /\ d * W \in Int
      BY <1>2, <2>1, DivisionRest, MultipleRest
    <2>3. ASSUME d # q PROVE FALSE
      <3>1. d * W - q * W = (d - q) * W
        BY <1>2, <2>1, MultiplesDiffer
      <3>2. (d - q) * W >= W \/ (d - q) * W <= - W
        BY <1>2, <2>1, <2>3, MultipleIsFar
      <3>3. (d - q) * W \in Int
        BY <1>2, <2>1, MultipleRest
      <3> QED
        BY <1>2, <1>5, <1>7, <2>2, <3>1, <3>2, <3>3
    <2> QED
      BY <1>5, <2>1, <2>2, <2>3
  <1>11. ASSUME s < W PROVE a % W = a
    <2>1. q <= 0
      <3>1. ASSUME q >= 1 PROVE FALSE
        <4>1. 1 * W <= q * W
          BY <1>2, <1>8, <3>1, ProductMonotone
        <4> QED
          BY <1>2, <1>4, <1>5, <1>11, <4>1
      <3> QED
        BY <3>1
    <2>2. q = 0
      BY <1>8, <2>1
    <2>3. q * W = 0
      BY <1>2, <2>2
    <2> QED
      BY <1>10, <2>3
  <1> QED
    BY <1>1, <1>3, <1>5, <1>7, <1>9, <1>10, <1>11

-----------------------------------------------------------------------------
(* Where the data records of a file land, by the windows of the format. *)
IsData(line) == line[4] = RecordType["DATA"]

IsExtended(line) ==
    line[4] = RecordType["EXTENDED_LIN_ADDR"] /\ Len(Payload(line)) = 2

Lands(f, i) == UpperOf(f, i) + Addr(f[i])

Stops(f, i) == Lands(f, i) + Len(Payload(f[i]))

(* A data record is in one region, and where it follows another one it     *)
(* goes on with that, in the same region.                                  *)
InPlace(f, i) ==
    \E j \in DOMAIN Map :
        /\ Lands(f, i) \in Nat /\ Stops(f, i) \in Nat
        /\ Map[j].start <= Lands(f, i) /\ Lands(f, i) < Stops(f, i)
        /\ Stops(f, i) <= Map[j].end
        /\ i > 1 /\ IsData(f[i - 1]) =>
              Map[j].start <= Lands(f, i - 1) /\ Lands(f, i) = Stops(f, i - 1)

LineGood(f, i) ==
    /\ WellFormedLine(f[i])
    /\ IsData(f[i]) => InPlace(f, i)
    /\ ~ IsData(f[i]) => IsExtended(f[i])

LinesGood(f, n) == \A i \in 1 .. n : LineGood(f, i)

Agree(f, g, n) == \A i \in 1 .. n : f[i] = g[i]

(* All of this is about the lines up to a line, not what comes after it. *)
LEMMA AgreeUpper ==
    ASSUME NEW f, NEW g, NEW n \in Nat, Agree(f, g, n), NEW i \in 0 .. n
    PROVE  UpperOf(f, i) = UpperOf(g, i)
  <1>1. PICK T : T = {k \in 0 .. n : UpperOf(f, k) # UpperOf(g, k)}
    OBVIOUS
  <1>2. ASSUME T # {} PROVE FALSE
    <2>1. T \subseteq Nat
      BY <1>1
    <2>2. PICK m \in T : \A y \in T : m <= y
      BY <1>2, <2>1, LeastNat
    <2>3. m \in 0 .. n /\ UpperOf(f, m) # UpperOf(g, m)
      BY <1>1, <2>2
    <2>4. CASE m = 0
      <3>1. Exts(f, m) = {} /\ Exts(g, m) = {}
        BY <2>4 DEF Exts
      <3> QED
        BY <2>3, <3>1 DEF UpperOf
    <2>5. CASE m # 0
      <3>1. m \in Nat \ {0} /\ m - 1 \in 0 .. n /\ ~ (m <= m - 1) /\ m \in 1 .. n
        BY <2>3, <2>5
      <3>2. UpperOf(f, m - 1) = UpperOf(g, m - 1)
        BY <1>1, <2>2, <3>1
      <3>3. f[m] = g[m]
        BY <3>1 DEF Agree
      <3>4. CASE f[m][4] = RecordType["EXTENDED_LIN_ADDR"]
        BY <2>3, <3>1, <3>3, <3>4, UpperOfNext
      <3>5. CASE f[m][4] # RecordType["EXTENDED_LIN_ADDR"]
        BY <2>3, <3>1, <3>2, <3>3, <3>5, UpperOfNext
      <3> QED
        BY <3>4, <3>5
    <2> QED
      BY <2>4, <2>5
  <1> QED
    BY <1>1, <1>2

LEMMA AgreeLines ==
    ASSUME NEW f, NEW g, NEW n \in Nat, Agree(f, g, n)
    PROVE  /\ LinesGood(f, n) => LinesGood(g, n)
           /\ \A x : InFile(x, f, n) <=> InFile(x, g, n)
  <1>1. ASSUME NEW i \in 1 .. n
        PROVE  /\ f[i] = g[i] /\ UpperOf(f, i) = UpperOf(g, i)
               /\ Lands(f, i) = Lands(g, i) /\ Stops(f, i) = Stops(g, i)
    <2>1. f[i] = g[i] /\ i \in 0 .. n
      BY DEF Agree
    <2>2. UpperOf(f, i) = UpperOf(g, i)
      BY <2>1, AgreeUpper
    <2> QED
      BY <2>1, <2>2 DEF Lands, Stops
  <1>2. ASSUME NEW i \in 1 .. n, LineGood(f, i) PROVE LineGood(g, i)
    <2>1. i > 1 => i - 1 \in 1 .. n
      OBVIOUS
    <2>2. InPlace(f, i) => InPlace(g, i)
      BY <1>1, <2>1 DEF InPlace
    <2> QED
      BY <1>1, <1>2, <2>2 DEF LineGood
  <1>3. \A x : InFile(x, f, n) <=> InFile(x, g, n)
    BY <1>1 DEF InFile
  <1> QED
    BY <1>2, <1>3 DEF LinesGood

(* The window is that of the last extended record. *)
LEMMA LastExtendedRules ==
    ASSUME NEW f, NEW m \in Nat \ {0}, NEW n \in Nat, m <= n,
           f[m][4] = RecordType["EXTENDED_LIN_ADDR"],
           \A i \in m + 1 .. n : f[i][4] # RecordType["EXTENDED_LIN_ADDR"]
    PROVE  UpperOf(f, n) = (Payload(f[m])[1] * Base + Payload(f[m])[2]) * Window
  <1>1. m \in Exts(f, n) /\ \A j \in Exts(f, n) : j <= m /\ j \in Nat
    BY DEF Exts
  <1>2. PICK c : c = CHOOSE i \in Exts(f, n) : \A j \in Exts(f, n) : j <= i
    OBVIOUS
  <1>3. c \in Exts(f, n) /\ \A j \in Exts(f, n) : j <= c
    BY <1>1, <1>2
  <1>4. c = m
    BY <1>1, <1>3
  <1> QED
    BY <1>1, <1>2, <1>4 DEF UpperOf

LEMMA NoneExtended ==
    ASSUME NEW f, NEW n \in Nat,
           \A i \in 1 .. n : f[i][4] # RecordType["EXTENDED_LIN_ADDR"]
    PROVE  UpperOf(f, n) = 0
  <1>1. Exts(f, n) = {}
    BY DEF Exts
  <1> QED
    BY <1>1 DEF UpperOf

(* The line of a dump that begins with the byte first of a region's data. *)
LEMMA ChunkShape ==
    ASSUME NEW r \in Region, NEW data \in Seq(Byte), NEW first \in Nat,
           first < Len(data), NEW line, line = DataLine(r, data, first)
    PROVE  /\ WellFormedLine(line) /\ IsData(line)
           /\ Addr(line) = (r.start + first) % Window
           /\ Payload(line) \in Seq(Byte)
           /\ Len(Payload(line)) \in Nat \ {0}
           /\ Len(Payload(line)) = IF first + LineBytes > Len(data)
                                   THEN Len(data) - first ELSE LineBytes
           /\ \A k \in 1 .. Len(Payload(line)) : Payload(line)[k] = data[first + k]
  <1> USE HexAssumption, DumpAssumption
  <1>1. PICK last \in Nat : last = IF first + LineBytes > Len(data) THEN Len(data)
                                   ELSE first + LineBytes
    OBVIOUS
  <1>2. last <= Len(data) /\ last <= first + LineBytes /\ first < last
    BY <1>1
  <1>3. PICK from \in Nat : from = first + 1
    OBVIOUS
  <1>4. \A i \in from .. last : data[i] \in Byte
    BY <1>2, <1>3
  <1>5. PICK payload : payload = SubSeq(data, from, last)
    OBVIOUS
  <1>6. /\ payload \in Seq(Byte) /\ Len(payload) = last - first
        /\ \A k \in 1 .. last - first : payload[k] = data[first + k]
    <2>1. payload \in Seq(Byte) /\ Len(payload) = last - first
      BY <1>2, <1>3, <1>4, <1>5, SubSeqProperties
    <2>2. ASSUME NEW k \in 1 .. last - first PROVE payload[k] = data[first + k]
      <3>1. payload[k] = data[from + k - 1]
        BY <1>2, <1>3, <1>4, <1>5, SubSeqProperties
      <3> QED
        BY <1>3, <3>1
    <2> QED
      BY <2>1, <2>2
  <1>7. Len(payload) \in Byte /\ Len(payload) \in Nat \ {0}
    BY <1>2, <1>6 DEF Byte
  <1>8. PICK addr : addr = (r.start + first) % Window
    OBVIOUS
  <1>9. addr \in 0 .. Window - 1
    <2>1. r.start + first \in Nat
      BY DEF Region
    <2> QED
      BY <1>8, <2>1, WindowRest
  <1>10. PICK type \in {0, 1, 4} : type = 0 /\ line = HexLine(addr, type, payload)
    BY <1>1, <1>3, <1>5, <1>8 DEF DataLine, RecordType
  <1>11. /\ line \in Line /\ ChecksumHolds(line) /\ line[4] = 0
         /\ Len(line) = Len(payload) + 5
         /\ Addr(line) = addr /\ Payload(line) = payload
    <2> HIDE HexAssumption, DumpAssumption
    <2>1. payload \in Seq(Byte) /\ Len(payload) \in Byte
      BY <1>6, <1>7
    <2>2. line \in Line /\ ChecksumHolds(line) /\ line[4] = type
      BY <1>9, <1>10, <2>1, HexLineShape
    <2>3. Len(line) = Len(payload) + 5
      BY <1>9, <1>10, <2>1, HexLineShape
    <2>4. Addr(line) = addr /\ Payload(line) = payload
      BY <1>9, <1>10, <2>1, HexLineShape
    <2> QED
      BY <1>10, <2>2, <2>3, <2>4
  <1>12. WellFormedLine(line) /\ IsData(line)
    BY <1>7, <1>11 DEF WellFormedLine, IsData, RecordType
  <1> QED
    BY <1>1, <1>2, <1>6, <1>7, <1>8, <1>11, <1>12

ExtendedOf(r) == HexLine(0, RecordType["EXTENDED_LIN_ADDR"], <<0, AddrHi(r.start)>>)

LEMMA ExtendedShape ==
    ASSUME NEW r \in Region, NEW x, x = ExtendedOf(r)
    PROVE  /\ x \in Plain /\ WellFormedLine(x) /\ IsExtended(x) /\ ~ IsData(x)
           /\ Payload(x)[1] * Base + Payload(x)[2] = AddrHi(r.start)
  <1>1. PICK payload : payload = <<0, AddrHi(r.start)>>
    OBVIOUS
  <1>2. r.start \in Nat
    BY DEF Region
  <1>3. 0 \in Byte /\ AddrHi(r.start) \in Byte /\ Base \in Nat
    BY <1>2, WindowRest, HexAssumption
  <1>4. payload \in Seq(Byte) /\ Len(payload) = 2
    BY <1>1, <1>3
  <1>5. Len(payload) \in Byte /\ Len(payload) \in Nat
    BY <1>4, HexAssumption DEF Byte
  <1>6. PICK zero, type \in {0, 1, 4} :
            zero = 0 /\ type = 4 /\ x = HexLine(zero, type, payload)
    BY <1>1 DEF ExtendedOf, RecordType
  <1>7. zero \in 0 .. Window - 1
    BY <1>2, <1>6, WindowRest
  <1>8. /\ x \in Line /\ ChecksumHolds(x) /\ x[4] = 4
        /\ Len(x) = Len(payload) + 5 /\ Payload(x) = payload
    <2>1. payload \in Seq(Byte) /\ Len(payload) \in Byte
      BY <1>4, <1>5
    <2>2. x \in Line /\ ChecksumHolds(x) /\ x[4] = type
      BY <1>6, <1>7, <2>1, HexLineShape
    <2>3. Len(x) = Len(payload) + 5 /\ Payload(x) = payload
      BY <1>6, <1>7, <2>1, HexLineShape
    <2> QED
      BY <1>6, <2>2, <2>3
  <1>9. payload[1] = 0 /\ payload[2] = AddrHi(r.start)
    BY <1>1
  <1>10. payload[1] * Base + payload[2] = AddrHi(r.start)
    BY <1>3, <1>9 DEF Byte
  <1> QED
    BY <1>4, <1>8, <1>10
    DEF Plain, Intact, WellFormedLine, IsExtended, IsData, RecordType

(* The lines of a region at the end of a file: its extended record where   *)
(* it is past the first window, and n chunks.                              *)
Heads(r) == IF r.start < Window THEN 0 ELSE 1

Chunks(data) == (Len(data) + LineBytes - 1) \div LineBytes

First(k) == (k - 1) * LineBytes

Cut(data, n) ==
    /\ n \in Nat
    /\ \A k \in 1 .. n : /\ First(k) \in Nat /\ First(k) < Len(data)
                         /\ First(k + 1) = First(k) + LineBytes
    /\ \A j \in 0 .. Len(data) - 1 :
          \E k \in 1 .. n : First(k) <= j /\ j < First(k) + LineBytes

LEMMA DataIsCut ==
    ASSUME NEW data \in Seq(Byte), NEW n, n = Chunks(data)
    PROVE  Cut(data, n)
  <1>1. PICK L \in Nat, B \in Nat \ {0} : L = Len(data) /\ B = LineBytes
    BY DumpAssumption, HexAssumption
  <1>2. n = (L + B - 1) \div B
    BY <1>1 DEF Chunks
  <1>3. B > 0
    OBVIOUS
  <1>4. n \in Nat
    BY <1>2, <1>3, ChunksCover
  <1>5. \A k \in 1 .. n : /\ (k - 1) * B \in Nat /\ (k - 1) * B < L
                          /\ k * B = (k - 1) * B + B
    BY <1>2, <1>3, ChunksCover
  <1>6. Covers(n, B, L)
    BY <1>2, <1>3, ChunksCover
  <1>7. ASSUME NEW k \in 1 .. n
        PROVE  First(k) = (k - 1) * B /\ First(k + 1) = k * B
    <2>1. (k + 1) - 1 = k
      BY <1>4
    <2> QED
      BY <1>1, <2>1 DEF First
  <1>8. \A k \in 1 .. n : /\ First(k) \in Nat /\ First(k) < L
                          /\ First(k + 1) = First(k) + B
    BY <1>5, <1>7
  <1>9. \A j \in 0 .. L - 1 : \E k \in 1 .. n : First(k) <= j /\ j < First(k) + B
    BY <1>6, <1>7 DEF Covers
  <1> QED
    BY <1>1, <1>4, <1>8, <1>9 DEF Cut

Appended(f, g, r, data, h, n) ==
    /\ g \in Seq(Plain) /\ n \in Nat /\ h \in {0, 1}
    /\ Len(f) \in Nat /\ Len(g) = Len(f) + h + n
    /\ Agree(f, g, Len(f))
    /\ h = 1 => g[Len(f) + 1] = ExtendedOf(r)
    /\ \A k \in 1 .. n :
          g[Len(f) + h + k] = DataLine(r, data, (k - 1) * LineBytes)

LEMMA RegionAppended ==
    ASSUME NEW f \in Seq(Plain), NEW r \in Region, NEW data \in Seq(Byte),
           NEW g, g = f \o RegionLines(r, data),
           NEW h, h = Heads(r), NEW n, n = Chunks(data)
    PROVE  Appended(f, g, r, data, h, n)
  <1>1. Cut(data, n)
    BY DataIsCut
  <1>2. n \in Nat /\ \A k \in 1 .. n : First(k) \in Nat
    BY <1>1 DEF Cut
  <1>3. PICK head : head = ExtendedLine(r)
    OBVIOUS
  <1>4. PICK body : body = [k \in 1 .. n |-> DataLine(r, data, (k - 1) * LineBytes)]
    OBVIOUS
  <1>5. RegionLines(r, data) = head \o body
    BY <1>3, <1>4 DEF RegionLines, Chunks
  <1>6. body \in Seq(Plain) /\ Len(body) = n
    <2>1. ASSUME NEW k \in 1 .. n
          PROVE  DataLine(r, data, (k - 1) * LineBytes) \in Plain
      <3>1. (k - 1) * LineBytes \in Nat
        BY <1>2 DEF First
      <3> QED
        BY <3>1, DataLineShape
    <2>2. body \in [1 .. n -> Plain] /\ DOMAIN body = 1 .. n
      BY <1>4, <2>1
    <2>3. body \in Seq(Plain)
      BY <1>2, <2>2, SeqDef
    <2>4. Len(body) = n
      BY <1>2, <2>2, <2>3
    <2> QED
      BY <2>3, <2>4
  <1>7. head \in Seq(Plain) /\ Len(head) = h /\ h \in {0, 1}
        /\ (h = 1 => head[1] = ExtendedOf(r))
    <2>1. CASE r.start < Window
      BY <1>3, <2>1 DEF ExtendedLine, Heads
    <2>2. CASE ~ (r.start < Window)
      <3>1. PICK x : x = ExtendedOf(r)
        OBVIOUS
      <3>2. x \in Plain
        BY <3>1, ExtendedShape
      <3>3. head = <<x>> /\ h = 1
        BY <1>3, <2>2, <3>1 DEF ExtendedLine, ExtendedOf, Heads
      <3> QED
        BY <3>1, <3>2, <3>3
    <2> QED
      BY <2>1, <2>2
  <1>8. PICK lines : lines = head \o body
    OBVIOUS
  <1>9. lines \in Seq(Plain) /\ Joined(lines, head, body)
    BY <1>6, <1>7, <1>8, ConcatJoins
  <1>10. g \in Seq(Plain) /\ Joined(g, f, lines)
    BY <1>5, <1>8, <1>9, ConcatJoins
  <1>11. Len(f) \in Nat /\ Len(lines) = h + n /\ Len(g) = Len(f) + h + n
    <2>1. Len(f) \in Nat /\ Len(lines) = h + n /\ Len(g) = Len(f) + Len(lines)
      BY <1>6, <1>7, <1>9, <1>10 DEF Joined
    <2> QED
      BY <1>2, <1>7, <2>1
  <1>12. Agree(f, g, Len(f))
    BY <1>10 DEF Joined, Agree
  <1>13. ASSUME h = 1 PROVE g[Len(f) + 1] = ExtendedOf(r)
    <2>1. 1 \in 1 .. Len(head) /\ 1 \in 1 .. Len(lines)
      BY <1>2, <1>7, <1>11, <1>13
    <2> QED
      BY <1>7, <1>9, <1>10, <1>13, <2>1 DEF Joined
  <1>14. ASSUME NEW k \in 1 .. n
         PROVE  g[Len(f) + h + k] = DataLine(r, data, (k - 1) * LineBytes)
    <2>1. k \in 1 .. Len(body) /\ h + k \in 1 .. Len(lines)
      <3>1. h + k \in 1 .. h + n
        BY <1>2, <1>7
      <3> QED
        BY <1>6, <1>11, <3>1
    <2>2. lines[h + k] = body[k]
      BY <1>7, <1>9, <2>1 DEF Joined
    <2>3. g[Len(f) + (h + k)] = lines[h + k]
      BY <1>10, <2>1 DEF Joined
    <2>4. Len(f) + (h + k) = Len(f) + h + k
      BY <1>2, <1>7, <1>11
    <2> QED
      BY <1>4, <2>2, <2>3, <2>4
  <1> QED
    BY <1>2, <1>7, <1>10, <1>11, <1>12, <1>13, <1>14 DEF Appended

(* What is printed of a region, and when it can be: whole regions, those   *)
(* of the first window first.                                              *)
Printable(f, r, data) ==
    /\ f \in Seq(Plain) /\ r \in Region /\ data \in Seq(Byte)
    /\ \E i \in DOMAIN Map : r = Map[i]
    /\ data = <<>> \/ r.start + Len(data) <= r.end
    /\ r.start < Window => f = <<>>

(* Every chunk lands at its place in the region, in the region's window.   *)
LandsAt(g, i, r, data, k) ==
    /\ First(k) \in Nat /\ First(k) < Len(data)
    /\ g[i] = DataLine(r, data, First(k))
    /\ Lands(g, i) = r.start + First(k) /\ Lands(g, i) \in Nat

LEMMA ChunkLands ==
    ASSUME NEW f, NEW r, NEW data, Printable(f, r, data),
           NEW g, g = f \o RegionLines(r, data),
           NEW k \in 1 .. Chunks(data), NEW i, i = Len(f) + Heads(r) + k
    PROVE  LandsAt(g, i, r, data, k)
  <1>1. /\ f \in Seq(Plain) /\ r \in Region /\ data \in Seq(Byte)
        /\ \E j \in DOMAIN Map : r = Map[j]
    BY DEF Printable
  <1>2. PICK h, n : h = Heads(r) /\ n = Chunks(data)
    OBVIOUS
  <1>3. PICK l : l = Len(f)
    OBVIOUS
  <1>4. /\ n \in Nat /\ h \in {0, 1} /\ l \in Nat
        /\ h = 1 => g[l + 1] = ExtendedOf(r)
        /\ \A j \in 1 .. n : g[l + h + j] = DataLine(r, data, (j - 1) * LineBytes)
    <2>1. Appended(f, g, r, data, h, n)
      BY <1>1, <1>2, RegionAppended
    <2> QED
      BY <1>3, <2>1 DEF Appended
  <1>5. PICK L \in Nat : L = Len(data)
    BY <1>1
  <1>6. \A j \in 1 .. n : First(j) \in Nat /\ First(j) < L
    <2>1. Cut(data, n)
      BY <1>1, <1>2, DataIsCut
    <2> QED
      BY <1>5, <2>1 DEF Cut
  <1>7. PICK first \in Nat : first = First(k) /\ first < L
    BY <1>2, <1>6
  <1>8. PICK s \in Nat, e \in Nat : s = r.start /\ e = r.end
    BY <1>1 DEF Region
  <1>9. s + L <= e
    <2>1. L > 0
      BY <1>7
    <2>2. data # <<>>
      BY <1>5, <2>1
    <2> QED
      BY <1>5, <1>8, <2>2 DEF Printable
  <1>10. PICK a \in Nat : a = s + first
    OBVIOUS
  <1>11. s <= a /\ a < e
    <2>1. /\ s \in Nat /\ e \in Nat /\ L \in Nat /\ first \in Nat
          /\ first < L
      BY <1>5, <1>7, <1>8
    <2> QED
      BY <2>1, <1>9, <1>10
  <1>12. /\ s < Window => a = a % Window
         /\ AddrHi(s) * Window + (a % Window) = a
    BY <1>1, <1>8, <1>10, <1>11, InOneWindow
  <1>13. \A j \in 1 .. n : IsData(g[l + h + j])
    <2> TAKE j \in 1 .. n
    <2>1. g[l + h + j] = DataLine(r, data, First(j))
      BY <1>4 DEF First
    <2>2. PICK b \in Nat :
              b = First(j) /\ b < Len(data)
      BY <1>5, <1>6
    <2> DEFINE line == DataLine(r, data, b)
    <2> HIDE DEF line
    <2>3. IsData(line)
      BY <1>1, <2>2, ChunkShape DEF line
    <2> QED
      BY <2>1, <2>2, <2>3 DEF line
  <1>14. g[i] = DataLine(r, data, first) /\ Addr(g[i]) = a % Window
    <2>1. g[i] = DataLine(r, data, first)
      BY <1>2, <1>3, <1>4, <1>7 DEF First
    <2>2. PICK line : line = DataLine(r, data, first)
      OBVIOUS
    <2>3. Addr(line) = (r.start + first) % Window
      BY <1>1, <1>5, <1>7, <2>2, ChunkShape
    <2> QED
      BY <1>8, <1>10, <2>1, <2>2, <2>3
  <1>15. i \in Nat /\ i = l + h + k /\ k \in 1 .. n
    BY <1>2, <1>3, <1>4
  <1>16. UpperOf(g, i) + (a % Window) = a
    <2>1. CASE h = 1
      <3>1. PICK m \in Nat \ {0} : m = l + 1
        BY <1>4
      <3>2. g[m] = ExtendedOf(r) /\ m <= i
        <4>1. g[m] = ExtendedOf(r)
          BY <1>4, <2>1, <3>1
        <4>2. m <= i
          BY <1>4, <1>15, <2>1, <3>1
        <4> QED
          BY <4>1, <4>2
      <3>3. g[m][4] = RecordType["EXTENDED_LIN_ADDR"]
        BY <1>1, <3>2, ExtendedShape DEF IsExtended
      <3>4. ASSUME NEW j \in m + 1 .. i
            PROVE  g[j][4] # RecordType["EXTENDED_LIN_ADDR"]
        <4>1. /\ l \in Nat /\ n \in Nat /\ i = l + 1 + k /\ m = l + 1
              /\ k \in 1 .. n
          BY <1>4, <1>15, <2>1, <3>1
        <4>2. PICK o \in 1 .. n : j = m + o
          <5>1. j - m \in 1 .. n /\ j = m + (j - m)
            BY <3>4, <4>1
          <5> QED
            BY <5>1
        <4>3. IsData(g[l + h + o]) /\ l + h + o = j
          BY <1>13, <2>1, <4>1, <4>2
        <4>4. g[j][4] = RecordType["DATA"]
          BY <4>3 DEF IsData
        <4>5. RecordType["DATA"] # RecordType["EXTENDED_LIN_ADDR"]
          BY DEF RecordType
        <4> QED
          BY <4>4, <4>5
      <3>5. UpperOf(g, i) = (Payload(g[m])[1] * Base + Payload(g[m])[2]) * Window
        BY <1>15, <3>2, <3>3, <3>4, LastExtendedRules
      <3>6. Payload(g[m])[1] * Base + Payload(g[m])[2] = AddrHi(s)
        BY <1>1, <1>8, <3>2, ExtendedShape
      <3> QED
        BY <1>12, <3>5, <3>6
    <2>2. CASE h = 0
      <3>1. s < Window
        BY <1>2, <1>8, <2>2 DEF Heads
      <3>2. f = <<>> /\ l = 0
        BY <1>3, <1>8, <3>1 DEF Printable
      <3>3. ASSUME NEW j \in 1 .. i
            PROVE  g[j][4] # RecordType["EXTENDED_LIN_ADDR"]
        <4>1. j \in 1 .. n /\ j = l + h + j
          BY <1>4, <1>15, <2>2, <3>2
        <4>2. IsData(g[j])
          BY <1>13, <4>1
        <4> QED
          BY <4>2 DEF IsData, RecordType
      <3>4. UpperOf(g, i) = 0
        BY <1>15, <3>3, NoneExtended
      <3>5. a % Window = a
        BY <1>12, <3>1
      <3> QED
        BY <3>4, <3>5
    <2> QED
      BY <1>4, <2>1, <2>2
  <1>17. Lands(g, i) = a
    BY <1>14, <1>16 DEF Lands
  <1> QED
    BY <1>5, <1>7, <1>8, <1>10, <1>14, <1>17 DEF LandsAt

(* The chunks of a region follow one another and end with its data.        *)
StopsAt(g, i, r, data, k) ==
    /\ WellFormedLine(g[i]) /\ IsData(g[i])
    /\ Lands(g, i) \in Nat /\ Stops(g, i) \in Nat
    /\ Lands(g, i) < Stops(g, i)
    /\ Stops(g, i) <= r.start + Len(data)
    /\ k < Chunks(data) => Stops(g, i) = r.start + First(k + 1)

LEMMA ChunkStops ==
    ASSUME NEW f, NEW r, NEW data, Printable(f, r, data),
           NEW g, g = f \o RegionLines(r, data),
           NEW k \in 1 .. Chunks(data), NEW i, i = Len(f) + Heads(r) + k
    PROVE  LandsAt(g, i, r, data, k) /\ StopsAt(g, i, r, data, k)
  <1>1. /\ f \in Seq(Plain) /\ r \in Region /\ data \in Seq(Byte)
        /\ r.start \in Nat
    BY DEF Printable, Region
  <1>2. PICK L \in Nat, B \in Nat \ {0} : L = Len(data) /\ B = LineBytes
    BY <1>1, DumpAssumption, HexAssumption
  <1>3. PICK first \in Nat : /\ first = First(k) /\ first < L
                             /\ g[i] = DataLine(r, data, first)
                             /\ Lands(g, i) = r.start + first
    <2>1. LandsAt(g, i, r, data, k)
      BY ChunkLands
    <2> QED
      BY <1>2, <2>1 DEF LandsAt
  <1>4. PICK line : line = DataLine(r, data, first)
    OBVIOUS
  <1>5. PICK p \in Nat \ {0} :
            /\ p = Len(Payload(line))
            /\ p = IF first + B > L THEN L - first ELSE B
            /\ WellFormedLine(line) /\ IsData(line)
    BY <1>1, <1>2, <1>3, <1>4, ChunkShape
  <1>6. PICK s \in Nat : s = r.start
    BY <1>1
  <1>7. Lands(g, i) = s + first /\ Stops(g, i) = s + first + p
    BY <1>3, <1>4, <1>5, <1>6 DEF Stops
  <1>8. first + p <= L /\ p > 0
    BY <1>3, <1>5
  <1>9. ASSUME k < Chunks(data)
        PROVE  s + first + p = s + First(k + 1)
    <2>1. PICK n : n = Chunks(data)
      OBVIOUS
    <2>2. Cut(data, n)
      BY <1>1, <2>1, DataIsCut
    <2>3. n \in Nat /\ k \in 1 .. n /\ k + 1 \in 1 .. n
      <3>1. n \in Nat
        BY <2>2 DEF Cut
      <3> QED
        BY <1>9, <2>1, <3>1
    <2>4. First(k + 1) < L /\ First(k + 1) = first + B
      BY <1>2, <1>3, <2>2, <2>3 DEF Cut
    <2>5. first + B < L
      BY <2>4
    <2>6. p = B
      BY <1>5, <2>5
    <2> QED
      BY <2>4, <2>6
  <1>10. PICK t \in Nat : t = s + first + p
    OBVIOUS
  <1>11. /\ Stops(g, i) = t /\ Lands(g, i) < t /\ t <= s + L
         /\ Lands(g, i) \in Nat
    <2>1. first \in Nat /\ s \in Nat /\ p \in Nat /\ L \in Nat
      BY <1>2, <1>3, <1>5, <1>6
    <2> QED
      BY <1>7, <1>8, <1>10, <2>1
  <1>12. WellFormedLine(g[i]) /\ IsData(g[i])
    BY <1>3, <1>4, <1>5
  <1>13. StopsAt(g, i, r, data, k)
    BY <1>2, <1>6, <1>9, <1>10, <1>11, <1>12 DEF StopsAt
  <1> QED
    BY <1>13, ChunkLands

(* A region adds good lines to a file of good lines. *)
LEMMA RegionLinesGood ==
    ASSUME NEW f, NEW r, NEW data, Printable(f, r, data),
           LinesGood(f, Len(f)), NEW g, g = f \o RegionLines(r, data)
    PROVE  LinesGood(g, Len(g))
  <1>1. /\ f \in Seq(Plain) /\ r \in Region /\ data \in Seq(Byte)
        /\ r.start \in Nat /\ r.end \in Nat
    BY DEF Printable, Region
  <1>2. PICK h, n, l : h = Heads(r) /\ n = Chunks(data) /\ l = Len(f)
    OBVIOUS
  <1>3. /\ n \in Nat /\ h \in {0, 1} /\ l \in Nat /\ Len(g) = l + h + n
        /\ Agree(f, g, l) /\ (h = 1 => g[l + 1] = ExtendedOf(r))
    <2>1. Appended(f, g, r, data, h, n)
      BY <1>1, <1>2, RegionAppended
    <2> QED
      BY <1>2, <2>1 DEF Appended
  <1>4. LinesGood(g, l)
    BY <1>2, <1>3, AgreeLines
  <1>5. ASSUME h = 1
        PROVE  LineGood(g, l + 1) /\ ~ IsData(g[l + 1])
    BY <1>1, <1>3, <1>5, ExtendedShape DEF LineGood
  <1>6. ASSUME NEW k \in 1 .. n, NEW i, i = l + h + k
        PROVE  LineGood(g, i)
    <2>1. /\ WellFormedLine(g[i]) /\ IsData(g[i])
          /\ Lands(g, i) = r.start + First(k)
          /\ Lands(g, i) < Stops(g, i)
          /\ Stops(g, i) <= r.start + Len(data)
          /\ Lands(g, i) \in Nat /\ Stops(g, i) \in Nat
          /\ First(k) \in Nat /\ First(k) < Len(data)
      <3>1. LandsAt(g, i, r, data, k) /\ StopsAt(g, i, r, data, k)
        BY <1>2, <1>6, ChunkStops
      <3> QED
        BY <3>1 DEF LandsAt, StopsAt
    <2>2. PICK j \in DOMAIN Map : r = Map[j]
      BY DEF Printable
    <2>4. r.start + Len(data) <= r.end /\ r.start <= Lands(g, i)
      <3>1. data # <<>>
        BY <2>1
      <3> QED
        BY <1>1, <2>1, <3>1 DEF Printable
    <2>5. ASSUME i > 1, IsData(g[i - 1])
          PROVE  r.start <= Lands(g, i - 1) /\ Lands(g, i) = Stops(g, i - 1)
      <3>1. CASE k = 1
        <4>1. h = 0 => l = 0
          BY <1>2 DEF Heads, Printable
        <4>2. h = 1 => i - 1 = l + 1
          BY <1>3, <1>6, <3>1
        <4>3. h = 0 => i = 1
          BY <1>3, <1>6, <3>1, <4>1
        <4> QED
          BY <1>3, <1>5, <2>5, <4>2, <4>3
      <3>2. CASE k # 1
        <4>1. PICK m : m = k - 1
          OBVIOUS
        <4>2. /\ m \in 1 .. n /\ i - 1 = l + h + m /\ m < n
              /\ k = m + 1
          BY <1>3, <1>6, <3>2, <4>1
        <4>3. LandsAt(g, i - 1, r, data, m) /\ StopsAt(g, i - 1, r, data, m)
          BY <1>2, <4>2, ChunkStops
        <4>4. Stops(g, i - 1) = r.start + First(m + 1)
          BY <1>2, <4>2, <4>3 DEF StopsAt
        <4>5. Lands(g, i - 1) = r.start + First(m) /\ First(m) \in Nat
          BY <4>3 DEF LandsAt
        <4> QED
          BY <1>1, <2>1, <4>2, <4>4, <4>5
      <3> QED
        BY <3>1, <3>2
    <2>6. Stops(g, i) <= r.end
      BY <1>1, <2>1, <2>4
    <2>7. InPlace(g, i)
      BY <2>1, <2>2, <2>4, <2>5, <2>6 DEF InPlace
    <2> QED
      BY <2>1, <2>7 DEF LineGood
  <1>7. ASSUME NEW i \in 1 .. Len(g) PROVE LineGood(g, i)
    <2>1. CASE i <= l
      BY <1>3, <1>4, <1>7, <2>1 DEF LinesGood
    <2>2. CASE i = l + 1 /\ h = 1
      BY <1>5, <2>2
    <2>3. CASE i > l + h
      <3>1. i - (l + h) \in 1 .. n /\ i = l + h + (i - (l + h))
        BY <1>3, <1>7, <2>3
      <3> QED
        BY <1>6, <3>1
    <2> QED
      BY <1>3, <1>7, <2>1, <2>2, <2>3
  <1> QED
    BY <1>7 DEF LinesGood

(* A region adds its own bytes of the memory mem, and no other. *)
InMemory(x, mem, from, to) ==
    \E a \in Nat : from <= a /\ a < to /\ x = <<a, mem[a]>>

ReadOf(r, mem, data) == \A j \in 1 .. Len(data) : data[j] = mem[r.start + j - 1]

AddsBytes(x, g, i, mem) ==
    InLine(x, UpperOf(g, i), g[i]) <=> InMemory(x, mem, Lands(g, i), Stops(g, i))

LEMMA ChunkBytes ==
    ASSUME NEW f, NEW r, NEW data, Printable(f, r, data),
           NEW g, g = f \o RegionLines(r, data),
           NEW k \in 1 .. Chunks(data), NEW i, i = Len(f) + Heads(r) + k,
           NEW mem, ReadOf(r, mem, data), NEW x
    PROVE  AddsBytes(x, g, i, mem)
  <1>1. r \in Region /\ data \in Seq(Byte) /\ r.start \in Nat
    BY DEF Printable, Region
  <1>2. LandsAt(g, i, r, data, k) /\ StopsAt(g, i, r, data, k)
    BY ChunkStops
  <1>3. PICK first \in Nat : /\ first = First(k) /\ first < Len(data)
                             /\ g[i] = DataLine(r, data, first)
    BY <1>2 DEF LandsAt
  <1>4. PICK s \in Nat, lo \in Nat :
            s = r.start /\ lo = Lands(g, i) /\ lo = s + first
    BY <1>1, <1>2, <1>3 DEF LandsAt
  <1>5. PICK q : q = Payload(g[i])
    OBVIOUS
  <1>6. q \in Seq(Byte) /\ \A t \in 1 .. Len(q) : q[t] = data[first + t]
    BY <1>1, <1>3, <1>5, ChunkShape
  <1>7. PICK p \in Nat : p = Len(q)
    BY <1>6
  <1>8. PICK L \in Nat : /\ L = Len(data) /\ lo + p <= s + L
                         /\ Stops(g, i) = lo + p
    <2>1. Stops(g, i) = lo + p
      BY <1>4, <1>5, <1>7 DEF Stops
    <2>2. Stops(g, i) <= s + Len(data)
      BY <1>2, <1>4 DEF StopsAt
    <2> QED
      BY <1>1, <2>1, <2>2
  <1>9. DOMAIN q = 1 .. p
    BY <1>6, <1>7
  <1>10. ASSUME NEW t \in 1 .. p
         PROVE  /\ q[t] = mem[lo + t - 1] /\ lo + t - 1 \in Nat
                /\ lo <= lo + t - 1 /\ lo + t - 1 < lo + p
    <2>1. q[t] = data[first + t]
      BY <1>6, <1>7
    <2>2. first \in Nat /\ s \in Nat /\ lo \in Nat /\ p \in Nat /\ lo = s + first
      BY <1>3, <1>4, <1>7
    <2>3. first + t \in 1 .. L
      BY <1>8, <1>10, <2>2
    <2>4. data[first + t] = mem[s + (first + t) - 1]
      BY <1>4, <1>8, <2>3 DEF ReadOf
    <2>5. s + (first + t) - 1 = lo + t - 1
      BY <1>10, <2>2
    <2>6. q[t] = mem[lo + t - 1]
      BY <2>1, <2>4, <2>5
    <2> QED
      BY <1>10, <2>2, <2>6
  <1>11. InLine(x, UpperOf(g, i), g[i]) <=>
            \E t \in 1 .. p : x = <<UpperOf(g, i) + Addr(g[i]) + t - 1, q[t]>>
    BY <1>5, <1>9 DEF InLine
  <1>12. InLine(x, UpperOf(g, i), g[i]) <=> \E t \in 1 .. p : x = <<lo + t - 1, q[t]>>
    BY <1>4, <1>11 DEF Lands
  <1>13. ASSUME NEW t \in 1 .. p, x = <<lo + t - 1, q[t]>>
         PROVE  InMemory(x, mem, lo, lo + p)
    BY <1>10, <1>13 DEF InMemory
  <1>14. ASSUME NEW a \in Nat, lo <= a, a < lo + p, x = <<a, mem[a]>>
         PROVE  \E t \in 1 .. p : x = <<lo + t - 1, q[t]>>
    <2>1. PICK t \in 1 .. p : t = a - lo + 1 /\ lo + t - 1 = a
      <3>1. a - lo + 1 \in 1 .. p /\ lo + (a - lo + 1) - 1 = a
        BY <1>14
      <3> QED
        BY <3>1
    <2>2. q[t] = mem[a]
      BY <1>10, <2>1
    <2> QED
      BY <1>14, <2>1, <2>2
  <1> QED
    BY <1>4, <1>8, <1>12, <1>13, <1>14 DEF InMemory, AddsBytes

LEMMA RegionBytes ==
    ASSUME NEW f, NEW r, NEW data, Printable(f, r, data),
           NEW g, g = f \o RegionLines(r, data),
           NEW mem, ReadOf(r, mem, data), NEW x
    PROVE  InFile(x, g, Len(g)) <=>
              InFile(x, f, Len(f)) \/ InMemory(x, mem, r.start, r.start + Len(data))
  <1>1. /\ f \in Seq(Plain) /\ r \in Region /\ data \in Seq(Byte)
        /\ r.start \in Nat /\ Len(data) \in Nat
    BY DEF Printable, Region
  <1>2. PICK h, n, l : h = Heads(r) /\ n = Chunks(data) /\ l = Len(f)
    OBVIOUS
  <1>3. /\ n \in Nat /\ h \in {0, 1} /\ l \in Nat /\ Len(g) = l + h + n
        /\ Agree(f, g, l) /\ (h = 1 => g[l + 1] = ExtendedOf(r))
    <2>1. Appended(f, g, r, data, h, n)
      BY <1>1, <1>2, RegionAppended
    <2> QED
      BY <1>2, <2>1 DEF Appended
  <1>4. InFile(x, g, l) <=> InFile(x, f, l)
    BY <1>3, AgreeLines
  <1>5. \A i \in 1 .. Len(g) : i > l =>
            \/ h = 1 /\ i = l + 1 /\ ~ IsData(g[i])
            \/ \E k \in 1 .. n : i = l + h + k
    <2> TAKE i \in 1 .. Len(g)
    <2>1. CASE i = l + 1 /\ h = 1
      BY <1>1, <1>3, <2>1, ExtendedShape
    <2>2. CASE i > l + h
      <3>1. i - (l + h) \in 1 .. n /\ i = l + h + (i - (l + h))
        BY <1>3, <2>2
      <3> QED
        BY <3>1
    <2> QED
      BY <1>3, <2>1, <2>2
  <1>6. \A k \in 1 .. n : l + h + k \in 1 .. Len(g) /\ l + h + k > l
    BY <1>3
  <1>7. ASSUME NEW k \in 1 .. n, NEW i, i = l + h + k
        PROVE  /\ IsData(g[i]) /\ AddsBytes(x, g, i, mem)
               /\ LandsAt(g, i, r, data, k) /\ StopsAt(g, i, r, data, k)
    <2>1. LandsAt(g, i, r, data, k) /\ StopsAt(g, i, r, data, k)
      BY <1>2, <1>7, ChunkStops
    <2>2. AddsBytes(x, g, i, mem)
      BY <1>2, <1>7, ChunkBytes
    <2> QED
      BY <2>1, <2>2 DEF StopsAt
  <1>8. InFile(x, g, Len(g)) <=>
            \/ InFile(x, g, l)
            \/ \E i \in 1 .. Len(g) :
                  i > l /\ IsData(g[i]) /\ InLine(x, UpperOf(g, i), g[i])
    <2>1. 1 .. l \subseteq 1 .. Len(g) /\ \A i \in 1 .. Len(g) : i \in 1 .. l \/ i > l
      BY <1>3
    <2> QED
      BY <2>1 DEF InFile, IsData
  <1>9. InFile(x, g, Len(g)) <=>
            \/ InFile(x, g, l)
            \/ \E k \in 1 .. n :
                  InMemory(x, mem, Lands(g, l + h + k), Stops(g, l + h + k))
    BY <1>5, <1>6, <1>7, <1>8 DEF AddsBytes
  <1>10. ASSUME NEW k \in 1 .. n,
                InMemory(x, mem, Lands(g, l + h + k), Stops(g, l + h + k))
         PROVE  InMemory(x, mem, r.start, r.start + Len(data))
    <2>1. PICK i : i = l + h + k
      OBVIOUS
    <2>2. /\ First(k) \in Nat /\ Lands(g, i) = r.start + First(k)
          /\ Lands(g, i) \in Nat /\ Stops(g, i) \in Nat
          /\ Stops(g, i) <= r.start + Len(data)
      BY <1>7, <2>1 DEF LandsAt, StopsAt
    <2> QED
      BY <1>1, <1>10, <2>1, <2>2 DEF InMemory
  <1>11. ASSUME InMemory(x, mem, r.start, r.start + Len(data))
         PROVE  \E k \in 1 .. n :
                   InMemory(x, mem, Lands(g, l + h + k), Stops(g, l + h + k))
    <2>1. PICK a \in Nat : /\ r.start <= a /\ a < r.start + Len(data)
                           /\ x = <<a, mem[a]>>
      BY <1>11 DEF InMemory
    <2>2. PICK L \in Nat, B \in Nat \ {0}, j \in Nat, s \in Nat :
              /\ L = Len(data) /\ B = LineBytes /\ s = r.start /\ a = s + j
              /\ j \in 0 .. L - 1
      <3>1. /\ a - r.start \in 0 .. Len(data) - 1 /\ a - r.start \in Nat
            /\ a = r.start + (a - r.start)
        BY <1>1, <2>1
      <3>2. LineBytes \in Nat \ {0}
        BY DumpAssumption, HexAssumption
      <3> QED
        BY <1>1, <3>1, <3>2
    <2>3. Cut(data, n)
      BY <1>1, <1>2, DataIsCut
    <2>4. PICK k \in 1 .. n : First(k) <= j /\ j < First(k) + B
      BY <2>2, <2>3 DEF Cut
    <2>5. PICK first \in Nat : /\ first = First(k) /\ first <= j /\ j < first + B
      BY <2>3, <2>4 DEF Cut
    <2>6. PICK i : i = l + h + k
      OBVIOUS
    <2>7. LandsAt(g, i, r, data, k) /\ StopsAt(g, i, r, data, k)
      BY <1>7, <2>6
    <2>8. g[i] = DataLine(r, data, first) /\ first < L
      BY <2>2, <2>5, <2>7 DEF LandsAt
    <2>9. Len(Payload(g[i])) = IF first + B > L THEN L - first ELSE B
      BY <1>1, <2>2, <2>5, <2>8, ChunkShape
    <2>10. Stops(g, i) = Lands(g, i) + Len(Payload(g[i])) /\ Lands(g, i) = r.start + first
      BY <2>5, <2>7 DEF Stops, LandsAt
    <2>11. Lands(g, i) <= a
      <3>1. Lands(g, i) = s + first
        BY <2>2, <2>10
      <3>2. s \in Nat /\ j \in Nat /\ first \in Nat /\ a = s + j
        BY <2>2, <2>5
      <3>3. first <= j
        BY <2>5
      <3> QED
        BY <3>1, <3>2, <3>3
    <2>12. a < Stops(g, i)
      <3>1. PICK q \in Nat : q = IF first + B > L THEN L - first ELSE B
        <4>1. L \in Nat /\ B \in Nat /\ first \in Nat /\ first < L
          BY <2>2, <2>5, <2>8
        <4>2. (IF first + B > L THEN L - first ELSE B) \in Nat
          BY <4>1
        <4> QED
          BY <4>2
      <3>2. Stops(g, i) = s + first + q
        BY <2>2, <2>9, <2>10, <3>1
      <3>3. /\ s \in Nat /\ L \in Nat /\ B \in Nat /\ j \in Nat
            /\ first \in Nat /\ q \in Nat /\ a = s + j
        BY <2>2, <2>5, <3>1
      <3>4. j < first + q
        <4>1. j < L /\ j < first + B
          BY <2>2, <2>5, <3>3
        <4> QED
          BY <3>1, <3>3, <4>1
      <3> QED
        BY <3>2, <3>3, <3>4
    <2>13. InMemory(x, mem, Lands(g, i), Stops(g, i))
      BY <2>1, <2>11, <2>12 DEF InMemory
    <2> QED
      BY <2>6, <2>13
  <1> QED
    BY <1>2, <1>4, <1>9, <1>10, <1>11

-----------------------------------------------------------------------------
(***************************************************************************)
(* What has been printed of the sections asked for, of which those of the  *)
(* first window come first: lines in place, and the bytes of the sections. *)
(***************************************************************************)
AskedOf(s, n, a) == \E j \in 1 .. n : \E r \in Named(Map, s[j]) : InRegion(a, r)

FileHolds(f, l, s, n, mem) ==
    \A x : InFile(x, f, l) <=> \E a \in Nat : AskedOf(s, n, a) /\ x = <<a, mem[a]>>

PrintedOf(f, l, s, n, mem) ==
    /\ s \in Sections
    /\ l \in Nat /\ LinesGood(f, l)
    /\ n \in 1 .. Len(s) + 1 /\ (n = 1 => l = 0)
    /\ FileHolds(f, l, s, n - 1, mem)

PrintedInv ==
    FirstWindowFirst(sections) =>
        /\ dump \in {"writing", "reading"} =>
              PrintedOf(file, Len(file), sections, next, memory)
        /\ dump = "written" =>
              /\ PrintedOf(file, Len(file) - 1, sections, next, memory)
              /\ next = Len(sections) + 1
              /\ file[Len(file)] = EndLine

LEMMA SectionsListed ==
    ASSUME NEW s \in Sections
    PROVE  Len(s) \in Nat /\ DOMAIN s = 1 .. Len(s)
  <1>1. s \in Seq({Map[i].name : i \in DOMAIN Map})
    BY DumpAssumption
  <1> QED
    BY <1>1, LenProperties

LEMMA PrintedInitial == DumpInit => PrintedInv
  <1> SUFFICES ASSUME DumpInit, dump \in {"writing", "reading", "written"}
               PROVE  PrintedOf(file, Len(file), sections, next, memory) /\ dump # "written"
    BY DEF PrintedInv
  <1>1. /\ dump = "writing" /\ file = <<>> /\ sections \in Sections /\ next = 1
    BY DEF DumpInit
  <1>2. Len(file) = 0 /\ Len(sections) \in Nat
    BY <1>1, DumpAssumption
  <1>3. LinesGood(file, 0)
    BY DEF LinesGood
  <1>4. FileHolds(file, 0, sections, 0, memory)
    BY DEF FileHolds, InFile, AskedOf
  <1> QED
    BY <1>1, <1>2, <1>3, <1>4 DEF PrintedOf

(* One more region is one more section asked for. *)
LEMMA PrintedRegion == DumpInv /\ PrintedInv /\ PrintRegion => PrintedInv'
  <1> SUFFICES ASSUME DumpInv, PrintedInv, PrintRegion, FirstWindowFirst(sections)
               PROVE  /\ dump' = "writing"
                      /\ PrintedOf(file', Len(file'), sections, next', memory)
    BY DEF PrintedInv, PrintRegion
  <1>1. /\ dump = "reading" /\ dump' = "writing" /\ next' = next + 1
        /\ file' = file \o RegionLines(Current, buffer)
        /\ Len(buffer) >= Current.end - Current.start
    BY DEF PrintRegion
  <1>2. /\ file \in Seq(Plain) /\ sections \in Sections /\ More
        /\ buffer \in Seq(Byte) /\ (buffer = <<>> \/ pc <= Current.end)
        /\ pc = Current.start + Len(buffer)
        /\ \A j \in DOMAIN buffer : buffer[j] = memory[Current.start + j - 1]
    BY <1>1 DEF DumpInv, LinesInv, ReadingInv
  <1>3. PICK r : r = Current
    OBVIOUS
  <1>4. /\ r \in Region /\ (\E i \in DOMAIN Map : r = Map[i])
        /\ Named(Map, sections[next]) = {r}
    BY <1>2, <1>3, CurrentRegion
  <1>5. /\ LinesGood(file, Len(file)) /\ next \in 1 .. Len(sections) + 1
        /\ (next = 1 => Len(file) = 0)
        /\ FileHolds(file, Len(file), sections, next - 1, memory)
    BY <1>1 DEF PrintedInv, PrintedOf
  <1>6. next \in 1 .. Len(sections) /\ Len(sections) \in Nat /\ next \in Nat
    BY <1>2, SectionsListed DEF More
  <1>7. Printable(file, r, buffer)
    <2>1. r.start < Window => next = 1
      BY <1>4, <1>6 DEF FirstWindowFirst, More
    <2>2. r.start < Window => file = <<>>
      BY <1>2, <1>5, <2>1, EmptySeq
    <2> QED
      BY <1>2, <1>3, <1>4, <2>2 DEF Printable
  <1>8. ReadOf(r, memory, buffer)
    BY <1>2, <1>3 DEF ReadOf
  <1>9. PICK g : g = file'
    OBVIOUS
  <1>10. g \in Seq(Plain) /\ Len(g) \in Nat
    <2>1. PICK lines : lines = RegionLines(r, buffer)
      OBVIOUS
    <2>2. lines \in Seq(Plain) /\ g = file \o lines
      BY <1>1, <1>2, <1>3, <1>4, <1>9, <2>1, RegionLinesShape
    <2>3. g \in Seq(Plain)
      BY <1>2, <2>2, ConcatJoins
    <2> QED
      BY <2>3, LenProperties
  <1>11. LinesGood(g, Len(g))
    BY <1>1, <1>3, <1>5, <1>7, <1>9, RegionLinesGood
  <1>12. \A x : InMemory(x, memory, r.start, r.start + Len(buffer)) <=>
                   \E a \in Nat : InRegion(a, r) /\ x = <<a, memory[a]>>
    <2>1. PICK L \in Nat, b \in Nat, e \in Nat :
              L = Len(buffer) /\ b = r.start /\ e = r.end
      BY <1>2, <1>4 DEF Region
    <2>2. L >= e - b /\ (L = 0 \/ b + L <= e)
      BY <1>1, <1>2, <1>3, <2>1
    <2>3. \A a \in Nat : b <= a /\ a < b + L <=> b <= a /\ a < e
      BY <2>1, <2>2
    <2> QED
      BY <2>1, <2>3 DEF InMemory, InRegion
  <1>13. \A a \in Nat : AskedOf(sections, next, a) <=>
                           AskedOf(sections, next - 1, a) \/ InRegion(a, r)
    BY <1>4, <1>6 DEF AskedOf
  <1>14. \A x : InFile(x, g, Len(g)) <=>
                   \/ InFile(x, file, Len(file))
                   \/ InMemory(x, memory, r.start, r.start + Len(buffer))
    BY <1>1, <1>3, <1>7, <1>8, <1>9, RegionBytes
  <1>15. FileHolds(g, Len(g), sections, next, memory)
    BY <1>5, <1>12, <1>13, <1>14 DEF FileHolds
  <1>16. next' - 1 = next /\ next' \in 1 .. Len(sections) + 1 /\ next' # 1
    BY <1>1, <1>6
  <1> QED
    BY <1>1, <1>2, <1>9, <1>10, <1>11, <1>15, <1>16 DEF PrintedOf

(* The end line is no part of it. *)
LEMMA PrintedEnd == DumpInv /\ PrintedInv /\ DumpEnd => PrintedInv'
  <1> SUFFICES ASSUME DumpInv, PrintedInv, DumpEnd, FirstWindowFirst(sections)
               PROVE  /\ dump' = "written"
                      /\ PrintedOf(file', Len(file') - 1, sections, next, memory)
                      /\ next = Len(sections) + 1
                      /\ file'[Len(file')] = EndLine
    BY DEF PrintedInv, DumpEnd
  <1>1. /\ dump = "writing" /\ dump' = "written" /\ ~ More
        /\ file' = Append(file, EndLine)
    BY DEF DumpEnd
  <1>2. file \in Seq(Plain) /\ sections \in Sections
    BY <1>1 DEF DumpInv, LinesInv, ReadingInv
  <1>3. PICK l \in Nat : l = Len(file)
    BY <1>2
  <1>4. PrintedOf(file, l, sections, next, memory)
    BY <1>1, <1>3 DEF PrintedInv
  <1>5. next = Len(sections) + 1
    BY <1>1, <1>2, <1>4, SectionsListed DEF PrintedOf, More
  <1>6. PICK g : g = file'
    OBVIOUS
  <1>7. /\ Len(g) = l + 1 /\ g[l + 1] = EndLine
        /\ \A j \in 1 .. l : g[j] = file[j]
    <2>1. file \in Seq(Intact)
      BY <1>2, PlainFile
    <2> QED
      BY <1>1, <1>3, <1>6, <2>1, EndLineShape, AppendProperties
  <1>8. Agree(file, g, l)
    BY <1>7 DEF Agree
  <1>9. LinesGood(g, l) /\ FileHolds(g, l, sections, next - 1, memory)
    BY <1>4, <1>8, AgreeLines DEF PrintedOf, FileHolds
  <1>10. PrintedOf(g, l, sections, next, memory)
    BY <1>4, <1>9 DEF PrintedOf
  <1>11. Len(g) - 1 = l
    BY <1>7
  <1> QED
    BY <1>1, <1>5, <1>6, <1>7, <1>10, <1>11

LEMMA PrintedStep ==
    DumpInv /\ PrintedInv /\ [DumpNext]_<<vars, dumpVars>> => PrintedInv'
  <1> SUFFICES ASSUME DumpInv, PrintedInv, [DumpNext]_<<vars, dumpVars>>
               PROVE  PrintedInv'
    OBVIOUS
  <1>1. CASE PrintRegion
    BY <1>1, PrintedRegion
  <1>2. CASE DumpEnd
    BY <1>2, PrintedEnd
  <1>3. CASE BeginRegion \/ ReadWord
    <2>1. /\ UNCHANGED <<file, sections, memory, next>>
          /\ dump \in {"writing", "reading"} /\ dump' \in {"writing", "reading"}
      BY <1>3 DEF BeginRegion, ReadWord, vars
    <2> QED
      BY <2>1 DEF PrintedInv
  <1>4. CASE Interrupt \/ Damage
    <2>1. dump' \in {"interrupted", "damaged"}
      BY <1>4 DEF Interrupt, Damage
    <2> QED
      BY <2>1 DEF PrintedInv
  <1>5. CASE Parse \/ UNCHANGED <<vars, dumpVars>>
    <2>1. UNCHANGED <<file, sections, memory, next, dump>>
      BY <1>5 DEF Parse, Next, DataRecord, RejectData, ExtendedAddressRecord,
                  EndOfFileRecord, NoMoreLines, vars, dumpVars
    <2> QED
      BY <2>1 DEF PrintedInv
  <1> QED
    BY <1>1, <1>2, <1>3, <1>4, <1>5 DEF DumpNext, Program

-----------------------------------------------------------------------------
(***************************************************************************)
(* What the parser makes of the file: every line goes on with the element  *)
(* of the one before it or opens a block, and no byte is outside its       *)
(* block's region.                                                         *)
(***************************************************************************)
Fits(b) ==
    \A i \in DOMAIN b.elems :
        b.elems[i].base_addr + Len(b.elems[i].data) <= b.region.end

ReaderInv ==
    dump = "written" /\ FirstWindowFirst(sections) =>
        /\ status # "error" /\ at <= Len(file)
        /\ status = "parsed" => at = Len(file)
        /\ at = 1 => result = <<>>
        /\ at > 1 /\ ~ IsData(file[at - 1]) => base_addr # NoBase
        /\ at > 1 /\ IsData(file[at - 1]) =>
              /\ base_addr = NoBase /\ result # <<>>
              /\ ExpectedAddr(result) = Stops(file, at - 1)
              /\ InRegion(Lands(file, at - 1), Final(result).region)
        /\ \A b \in DOMAIN result : Fits(result[b])

(* A line that follows on makes the last element longer, and no other.     *)
LEMMA AppendFits ==
    ASSUME NEW fw, Appendable(fw), NEW line \in Line, Len(line) >= 5,
           LinearAddr(fw, line) = ExpectedAddr(fw),
           NEW stop, stop = LinearAddr(fw, line) + Len(Payload(line)),
           stop <= Final(fw).region.end,
           \A b \in DOMAIN fw : Fits(fw[b]),
           NEW g, g = AppendData(fw, line)
    PROVE  /\ g # <<>> /\ ExpectedAddr(g) = stop
           /\ Final(g).region = Final(fw).region
           /\ \A b \in DOMAIN g : Fits(g[b])
  <1>1. PICK n : n = Len(fw)
    OBVIOUS
  <1>2. PICK es : es = fw[n].elems
    OBVIOUS
  <1>3. PICK gs : gs = g[n].elems
    OBVIOUS
  <1>4. PICK p \in Nat : p = Len(Payload(line))
    BY LineFields
  <1>5. /\ n \in Nat \ {0} /\ es \in Seq(HexElem) /\ Len(es) \in Nat \ {0}
        /\ es[Len(es)].base_addr \in Nat
        /\ es[Len(es)].data \in Seq(Byte) /\ Len(es[Len(es)].data) \in Nat
        /\ ExpectedAddr(fw) = es[Len(es)].base_addr + Len(es[Len(es)].data)
    BY <1>1, <1>2, LastFields
  <1>6. /\ g \in Firmware /\ Len(g) = n
        /\ \A b \in 1 .. n - 1 : g[b] = fw[b]
        /\ g[n].region = fw[n].region /\ gs \in Seq(HexElem)
    BY <1>1, <1>2, <1>3, AppendDataShape
  <1>7. LastExtended(fw, line, es, gs)
    <2>1. LastExtended(fw, line, es, gs) \/ OneAdded(fw, line, es, gs)
      BY <1>1, <1>2, <1>3, AppendDataShape
    <2> QED
      BY <2>1 DEF OneAdded
  <1>8. PICK m \in Nat \ {0} : m = Len(es)
    BY <1>5
  <1>9. /\ Len(gs) = m /\ \A i \in 1 .. m - 1 : gs[i] = es[i]
        /\ gs[m].base_addr = es[m].base_addr
        /\ gs[m].data = es[m].data \o Payload(line)
    BY <1>7, <1>8 DEF LastExtended
  <1>10. Len(gs[m].data) = Len(es[m].data) + p
    <2>1. PICK d, q : d = es[m].data /\ q = Payload(line)
      OBVIOUS
    <2>2. d \in Seq(Byte) /\ q \in Seq(Byte)
      BY <1>5, <1>8, <2>1, LineFields
    <2>3. Len(d \o q) = Len(d) + Len(q)
      BY <2>2, ConcatProperties
    <2> QED
      BY <1>4, <1>9, <2>1, <2>3
  <1>11. gs[m].base_addr + Len(gs[m].data) = stop
    <2>1. PICK b \in Nat, d \in Nat : b = es[m].base_addr /\ d = Len(es[m].data)
      BY <1>5, <1>8
    <2>2. stop = b + d + p
      BY <1>4, <1>5, <1>8, <2>1
    <2>3. gs[m].base_addr + Len(gs[m].data) = b + (d + p)
      BY <1>9, <1>10, <2>1
    <2>4. b + (d + p) = b + d + p
      OBVIOUS
    <2> QED
      BY <2>2, <2>3, <2>4
  <1>12. ExpectedAddr(g) = stop
    BY <1>3, <1>6, <1>9, <1>11 DEF ExpectedAddr, Final
  <1>13. g # <<>> /\ Final(g).region = Final(fw).region /\ DOMAIN g = 1 .. n
    BY <1>1, <1>5, <1>6 DEF Final, Firmware
  <1>14. Fits(g[n])
    <2>1. DOMAIN gs = 1 .. m /\ DOMAIN es = 1 .. m
      BY <1>5, <1>6, <1>8, <1>9
    <2>2. n \in DOMAIN fw /\ stop <= fw[n].region.end
      BY <1>1, <1>5 DEF Appendable, Firmware, Final
    <2>3. Fits(fw[n])
      BY <2>2
    <2>4. ASSUME NEW i \in 1 .. m
          PROVE  gs[i].base_addr + Len(gs[i].data) <= fw[n].region.end
      <3>1. CASE i = m
        BY <1>11, <2>2, <3>1
      <3>2. CASE i # m
        <4>1. gs[i] = es[i]
          BY <1>8, <1>9, <3>2
        <4> QED
          BY <1>2, <2>1, <2>3, <4>1 DEF Fits
      <3> QED
        BY <3>1, <3>2
    <2> QED
      BY <1>3, <1>6, <2>1, <2>4 DEF Fits
  <1>15. ASSUME NEW b \in 1 .. n - 1 PROVE Fits(g[b])
    <2>1. b \in DOMAIN fw
      BY <1>1, <1>5 DEF Appendable, Firmware
    <2> QED
      BY <1>6, <2>1
  <1> QED
    BY <1>5, <1>12, <1>13, <1>14, <1>15

(* The line in turn is accepted, and goes on with the firmware opened for  *)
(* it.                                                                     *)
GoesOnAt(fw, line, lo, stop) ==
    /\ Appendable(fw)
    /\ LinearAddr(fw, line) = lo /\ ExpectedAddr(fw) = lo
    /\ InRegion(lo, Final(fw).region) /\ stop <= Final(fw).region.end
    /\ \A b \in DOMAIN fw : Fits(fw[b])

(* A line of an opened block. *)
LEMMA OpenedGoesOn ==
    ASSUME LayoutInv, Opens, NEW line \in Line, Len(line) >= 5,
           \A b \in DOMAIN result : Fits(result[b]),
           NEW lo \in Nat, lo = BaseOr0 + Addr(line),
           NEW j \in DOMAIN Map, InRegion(lo, Map[j]),
           NEW stop \in Nat, stop <= Map[j].end
    PROVE  /\ Acceptable(line)
           /\ GoesOnAt(Opened(line), line, lo, stop)
  <1>1. PICK r : r = Map[j]
    OBVIOUS
  <1>2. /\ r \in Region /\ r.start \in Nat /\ r.end \in Nat
        /\ WithRegion(Map, lo) = r
    <2>1. r \in Region
      BY <1>1, HexAssumption
    <2>2. WithRegion(Map, lo) = r
      BY <1>1, OrderedLookup
    <2> QED
      BY <2>1, <2>2 DEF Region
  <1>3. PICK e : e = [base_addr |-> lo, data |-> <<>>]
    OBVIOUS
  <1>4. e.base_addr = lo /\ Len(e.data) = 0
    BY <1>3
  <1>5. PICK nb : nb = [region |-> r, base_addr |-> BaseOr0, elems |-> <<e>>]
    OBVIOUS
  <1>6. nb.region = r /\ nb.base_addr = BaseOr0 /\ nb.elems = <<e>>
    BY <1>5
  <1>7. PICK fw : fw = Opened(line)
    OBVIOUS
  <1>8. fw = Append(result, nb)
    BY <1>2, <1>3, <1>5, <1>7 DEF Opened
  <1>9. result \in Seq(HexBlock)
    BY DEF LayoutInv, TypeOK, HexBlock, HexElem
  <1>10. /\ Len(fw) = Len(result) + 1 /\ Len(result) \in Nat
         /\ fw[Len(fw)] = nb /\ DOMAIN fw = 1 .. Len(result) + 1
         /\ \A b \in 1 .. Len(result) : fw[b] = result[b]
    BY <1>8, <1>9
  <1>11. LinearAddr(fw, line) = lo
    BY <1>6, <1>10 DEF LinearAddr, Final
  <1>12. ExpectedAddr(fw) = lo
    <2>1. Final(Final(fw).elems) = e
      <3>1. PICK es : es = <<e>>
        OBVIOUS
      <3>2. es[Len(es)] = e
        BY <3>1
      <3>3. fw[Len(fw)].elems = es
        BY <1>6, <1>10, <3>1
      <3> QED
        BY <3>2, <3>3 DEF Final
    <2> QED
      BY <1>4, <2>1 DEF ExpectedAddr
  <1>13. Final(fw).region = r
    BY <1>6, <1>10 DEF Final
  <1>14. Acceptable(line)
    <2>1. Mapped(Map, lo)
      BY DEF Mapped
    <2> QED
      BY <1>1, <1>7, <1>11, <1>12, <1>13, <2>1
      DEF Acceptable, NonOverlapping, InBounds
  <1>15. Appendable(fw)
    BY <1>7, <1>14, OpenedShape DEF LayoutInv, BlocksGood, GoodBlock, BlocksHoldElements
  <1>16. Fits(nb)
    <2>1. lo + 0 <= r.end
      BY <1>1, <1>2 DEF InRegion
    <2> QED
      BY <1>4, <1>6, <2>1 DEF Fits
  <1>17. ASSUME NEW b \in DOMAIN fw PROVE Fits(fw[b])
    <2>1. CASE b = Len(result) + 1
      BY <1>10, <1>16, <2>1
    <2>2. CASE b # Len(result) + 1
      <3>1. b \in 1 .. Len(result) /\ b \in DOMAIN result
        BY <1>9, <1>10, <1>17, <2>2
      <3> QED
        BY <1>10, <3>1
    <2> QED
      BY <2>1, <2>2
  <1> QED
    BY <1>1, <1>7, <1>11, <1>12, <1>13, <1>14, <1>15, <1>17 DEF GoesOnAt

(* A line that goes on with the one before it, in the same region.         *)
LEMMA SameBlockGoesOn ==
    ASSUME LayoutInv, ~ Opens, NEW line \in Line, Len(line) >= 5,
           \A b \in DOMAIN result : Fits(result[b]),
           NEW lo \in Nat, lo = Final(result).base_addr + Addr(line),
           ExpectedAddr(result) = lo,
           NEW j \in DOMAIN Map, InRegion(lo, Map[j]),
           NEW last \in Nat, InRegion(last, Map[j]),
           InRegion(last, Final(result).region),
           NEW stop \in Nat, stop <= Map[j].end
    PROVE  /\ Acceptable(line)
           /\ GoesOnAt(Opened(line), line, lo, stop)
  <1>1. Opened(line) = result /\ result # <<>>
    BY DEF Opened, Opens
  <1>2. result \in Seq(HexBlock) /\ Len(result) \in DOMAIN result
    <2>1. result \in Seq(HexBlock)
      BY DEF LayoutInv, TypeOK, HexBlock, HexElem
    <2> QED
      BY <1>1, <2>1
  <1>3. PICK b : b = Final(result)
    OBVIOUS
  <1>4. GoodBlock(b)
    BY <1>2, <1>3 DEF LayoutInv, BlocksGood, Final
  <1>5. PICK m \in DOMAIN Map : b.region = Map[m]
    BY <1>4 DEF GoodBlock, InsideRegion
  <1>6. b.region = Map[j]
    <2>1. WithRegion(Map, last) = Map[j]
      BY OrderedLookup
    <2>2. WithRegion(Map, last) = Map[m]
      BY <1>3, <1>5, OrderedLookup
    <2> QED
      BY <1>5, <2>1, <2>2
  <1>7. Appendable(result)
    BY <1>1, <1>2, <1>3, <1>4 DEF Appendable, Firmware, GoodBlock
  <1>8. LinearAddr(result, line) = lo
    BY DEF LinearAddr
  <1>9. Acceptable(line)
    BY <1>1, <1>3, <1>6, <1>8 DEF Acceptable, NonOverlapping, InBounds
  <1> QED
    BY <1>1, <1>3, <1>6, <1>7, <1>8, <1>9 DEF GoesOnAt

(* The file ends with the line dump_end prints. *)
LEMMA EndLineEnds ==
    /\ EndLine[4] = RecordType["END_OF_FILE"]
    /\ WellFormedLine(EndLine)
  <1> USE HexAssumption
  <1>1. PICK none : none = <<>>
    OBVIOUS
  <1>2. none \in Seq(Byte) /\ Len(none) = 0 /\ Len(none) \in Byte
    BY <1>1 DEF Byte
  <1>3. PICK zero \in Nat, type \in {0, 1, 4} :
            zero = 0 /\ type = 1 /\ EndLine = HexLine(zero, type, none)
    BY <1>1 DEF EndLine, RecordType
  <1>4. zero \in 0 .. Window - 1
    BY <1>3, WindowRest
  <1>5. PICK line : line = HexLine(zero, type, none)
    OBVIOUS
  <1>6. line[4] = type /\ ChecksumHolds(line) /\ Len(line) = 5
    <2> HIDE HexAssumption
    <2>1. none \in Seq(Byte) /\ Len(none) \in Byte
      BY <1>2
    <2>2. line[4] = type /\ ChecksumHolds(line)
      BY <1>4, <1>5, <2>1, HexLineShape
    <2>3. Len(line) = Len(none) + 5
      BY <1>4, <1>5, <2>1, HexLineShape
    <2> QED
      BY <1>2, <2>2, <2>3
  <1>7. line = EndLine /\ line[4] = 1
    BY <1>3, <1>5, <1>6
  <1>8. RecordType["END_OF_FILE"] = 1 /\ "END_OF_FILE" \in DOMAIN RecordType
    BY DEF RecordType
  <1>9. line[4] = RecordType["END_OF_FILE"]
    BY <1>7, <1>8
  <1>10. \E kind \in DOMAIN RecordType : line[4] = RecordType[kind]
    BY <1>8, <1>9
  <1>11. WellFormedLine(line)
    BY <1>6, <1>10 DEF WellFormedLine
  <1> QED
    BY <1>7, <1>9, <1>11

ReadingDump ==
    /\ DumpInv /\ PrintedInv /\ ReaderInv
    /\ dump = "written" /\ FirstWindowFirst(sections)

LEMMA DumpedLines ==
    ASSUME ReadingDump
    PROVE  /\ Len(file) - 1 \in Nat /\ at \in 1 .. Len(file)
           /\ file[Len(file)] = EndLine /\ file \in Seq(Intact)
           /\ LinesGood(file, Len(file) - 1)
           /\ WellFormedLine(file[at])
           /\ file[at][4] = RecordType["END_OF_FILE"] <=> at = Len(file)
  <1>1. /\ DumpInv /\ dump = "written" /\ at <= Len(file)
        /\ Len(file) - 1 \in Nat
        /\ LinesGood(file, Len(file) - 1) /\ file[Len(file)] = EndLine
    BY DEF ReadingDump, PrintedInv, PrintedOf, ReaderInv
  <1>2. file \in Seq(Intact) /\ at \in Nat \ {0} /\ Len(file) \in Nat
    BY <1>1 DEF DumpInv, LinesInv, LayoutInv, TypeOK
  <1>3. CASE at = Len(file)
    BY <1>1, <1>2, <1>3, EndLineEnds
  <1>4. CASE at # Len(file)
    <2>1. at \in 1 .. Len(file) - 1
      BY <1>1, <1>2, <1>4
    <2>2. LineGood(file, at)
      BY <1>1, <2>1 DEF LinesGood
    <2>3. file[at][4] # RecordType["END_OF_FILE"]
      BY <2>2 DEF LineGood, IsData, IsExtended, RecordType
    <2> QED
      BY <1>1, <1>2, <1>4, <2>2, <2>3 DEF LineGood
  <1> QED
    BY <1>3, <1>4

(* Every data record of a dump is accepted at its place. *)
LEMMA DumpedDataGoesOn ==
    ASSUME ReadingDump, Reading("DATA"), NEW line, line = file[at]
    PROVE  /\ line \in Line /\ Len(line) >= 5 /\ at < Len(file)
           /\ Acceptable(line)
           /\ GoesOnAt(Opened(line), line, Lands(file, at), Stops(file, at))
           /\ Lands(file, at) \in Nat /\ Stops(file, at) \in Nat
           /\ Lands(file, at) < Stops(file, at)
  <1>1. /\ LayoutInv /\ HoldsInv /\ ReaderInv /\ dump = "written"
        /\ FirstWindowFirst(sections) /\ TypeOK
    BY DEF ReadingDump, DumpInv, LayoutInv
  <1>2. line \in Line /\ Len(line) >= 5 /\ at \in Nat \ {0}
    BY <1>1, LineRead
  <1>3. IsData(line) /\ line[4] # RecordType["EXTENDED_LIN_ADDR"]
        /\ line[4] # RecordType["END_OF_FILE"]
    BY DEF Reading, IsData, RecordType
  <1>4. at \in 1 .. Len(file) - 1 /\ at < Len(file)
    BY <1>3, DumpedLines
  <1>5. LinesGood(file, Len(file) - 1)
    BY DumpedLines
  <1>6. InPlace(file, at)
    BY <1>3, <1>4, <1>5 DEF LinesGood, LineGood
  <1>7. PICK j \in DOMAIN Map :
            /\ Lands(file, at) \in Nat /\ Stops(file, at) \in Nat
            /\ Map[j].start <= Lands(file, at) /\ Lands(file, at) < Stops(file, at)
            /\ Stops(file, at) <= Map[j].end
            /\ at > 1 /\ IsData(file[at - 1]) =>
                  /\ Map[j].start <= Lands(file, at - 1)
                  /\ Lands(file, at) = Stops(file, at - 1)
    BY <1>6 DEF InPlace
  <1>8. PICK lo \in Nat, stop \in Nat : lo = Lands(file, at) /\ stop = Stops(file, at)
    BY <1>7
  <1>9. Map[j].start \in Nat /\ Map[j].end \in Nat
    <2>1. Map[j] \in Region
      BY HexAssumption
    <2> QED
      BY <2>1 DEF Region
  <1>10. InRegion(lo, Map[j]) /\ stop <= Map[j].end
    BY <1>7, <1>8, <1>9 DEF InRegion
  <1>11. lo = WindowInForce + Addr(line)
    <2>1. UpperOf(file, at) = UpperOf(file, at - 1)
      BY <1>2, <1>3, UpperOfNext
    <2> QED
      BY <1>1, <1>8, <2>1 DEF HoldsInv, Lands
  <1>12. \A b \in DOMAIN result : Fits(result[b])
    BY <1>1 DEF ReaderInv
  <1>13. CASE Opens
    <2>1. BaseOr0 = WindowInForce
      BY <1>13 DEF Opens, BaseOr0, WindowInForce
    <2>2. lo = BaseOr0 + Addr(line)
      BY <1>11, <2>1
    <2>3. Acceptable(line) /\ GoesOnAt(Opened(line), line, lo, stop)
      BY <1>1, <1>2, <1>10, <1>12, <1>13, <2>2, OpenedGoesOn
    <2> QED
      BY <1>2, <1>4, <1>7, <1>8, <2>3
  <1>14. CASE ~ Opens
    <2>1. base_addr = NoBase /\ result # <<>> /\ WindowInForce = Final(result).base_addr
      BY <1>14 DEF Opens, WindowInForce
    <2>2. at > 1 /\ IsData(file[at - 1])
      BY <1>1, <1>2, <2>1 DEF ReaderInv
    <2>3. /\ ExpectedAddr(result) = Stops(file, at - 1)
          /\ InRegion(Lands(file, at - 1), Final(result).region)
      BY <1>1, <2>2 DEF ReaderInv
    <2>4. ExpectedAddr(result) = lo /\ Map[j].start <= Lands(file, at - 1)
      BY <1>7, <1>8, <2>2, <2>3
    <2>5. PICK last \in Nat : last = Lands(file, at - 1) /\ last < lo
      <3>1. at - 1 \in 1 .. Len(file) - 1
        BY <1>2, <1>4, <2>2
      <3>2. InPlace(file, at - 1)
        BY <1>5, <2>2, <3>1 DEF LinesGood, LineGood
      <3>3. Lands(file, at - 1) \in Nat /\ Lands(file, at - 1) < Stops(file, at - 1)
        BY <3>2 DEF InPlace
      <3> QED
        BY <1>7, <1>8, <2>2, <3>3
    <2>6. InRegion(last, Map[j]) /\ InRegion(last, Final(result).region)
      BY <1>8, <1>9, <1>10, <2>3, <2>4, <2>5 DEF InRegion
    <2>7. lo = Final(result).base_addr + Addr(line)
      BY <1>11, <2>1
    <2>8. Acceptable(line) /\ GoesOnAt(Opened(line), line, lo, stop)
      BY <1>1, <1>2, <1>10, <1>12, <1>14, <2>4, <2>6, <2>7, SameBlockGoesOn
    <2> QED
      BY <1>2, <1>4, <1>7, <1>8, <2>8
  <1> QED
    BY <1>13, <1>14

LEMMA ReaderParses == ReadingDump /\ Parse => ReaderInv'
  <1> SUFFICES ASSUME ReadingDump, Parse PROVE ReaderInv'
    OBVIOUS
  <1>1. /\ Next /\ DumpInv /\ ReaderInv /\ TypeOK
        /\ dump = "written" /\ FirstWindowFirst(sections)
    BY DEF ReadingDump, Parse, DumpInv, LayoutInv
  <1>2. file' = file /\ dump' = dump /\ sections' = sections
    BY <1>1 DEF Parse, dumpVars, Next, DataRecord, RejectData,
                ExtendedAddressRecord, EndOfFileRecord, NoMoreLines
  <1>3. /\ status # "error" /\ at <= Len(file)
        /\ status = "parsed" => at = Len(file)
        /\ at = 1 => result = <<>>
        /\ at > 1 /\ ~ IsData(file[at - 1]) => base_addr # NoBase
        /\ at > 1 /\ IsData(file[at - 1]) =>
              /\ base_addr = NoBase /\ result # <<>>
              /\ ExpectedAddr(result) = Stops(file, at - 1)
              /\ InRegion(Lands(file, at - 1), Final(result).region)
        /\ \A b \in DOMAIN result : Fits(result[b])
    BY <1>1 DEF ReaderInv
  <1>4. Len(file) \in Nat /\ at \in Nat \ {0}
    BY DumpedLines
  <1>5. CASE DataRecord
    <2>1. /\ Reading("DATA") /\ base_addr' = NoBase /\ at' = at + 1
          /\ result' = AppendData(Opened(file[at]), file[at])
          /\ status' = status /\ status = "reading"
      BY <1>5 DEF DataRecord, Reading
    <2>2. PICK line, fw, g :
              line = file[at] /\ fw = Opened(line) /\ g = result'
      OBVIOUS
    <2>3. /\ line \in Line /\ Len(line) >= 5 /\ at < Len(file)
          /\ Lands(file, at) \in Nat /\ Stops(file, at) \in Nat
          /\ Lands(file, at) < Stops(file, at)
      BY <2>1, <2>2, DumpedDataGoesOn
    <2>4. GoesOnAt(fw, line, Lands(file, at), Stops(file, at))
      BY <2>1, <2>2, DumpedDataGoesOn
    <2>5. PICK lo, stop : lo = Lands(file, at) /\ stop = Stops(file, at)
      OBVIOUS
    <2>6. /\ Appendable(fw) /\ LinearAddr(fw, line) = lo /\ ExpectedAddr(fw) = lo
          /\ InRegion(lo, Final(fw).region) /\ stop <= Final(fw).region.end
          /\ \A b \in DOMAIN fw : Fits(fw[b])
      BY <2>4, <2>5 DEF GoesOnAt
    <2>7. stop = lo + Len(Payload(line))
      BY <2>2, <2>5 DEF Stops
    <2>8. /\ g # <<>> /\ ExpectedAddr(g) = stop
          /\ Final(g).region = Final(fw).region
          /\ \A b \in DOMAIN g : Fits(g[b])
      BY <2>1, <2>2, <2>3, <2>6, <2>7, AppendFits
    <2>9. at' - 1 = at /\ at' <= Len(file) /\ at' > 1 /\ IsData(file[at])
      BY <1>4, <2>1, <2>3 DEF Reading, IsData
    <2> QED
      BY <1>2, <1>3, <2>1, <2>2, <2>5, <2>6, <2>8, <2>9 DEF ReaderInv
  <1>6. CASE RejectData
    BY <1>6, DumpedDataGoesOn DEF RejectData
  <1>7. CASE ExtendedAddressRecord
    <2>1. /\ Reading("EXTENDED_LIN_ADDR") /\ result' = result
          /\ status = "reading"
      BY <1>7 DEF ExtendedAddressRecord, Reading
    <2>2. ~ IsData(file[at]) /\ file[at][4] # RecordType["END_OF_FILE"]
      BY <2>1 DEF Reading, IsData, RecordType
    <2>3. at < Len(file)
      BY <1>3, <1>4, <2>2, DumpedLines
    <2>4. IsExtended(file[at])
      <3>1. at \in 1 .. Len(file) - 1
        BY <1>4, <2>3
      <3> QED
        BY <2>2, <3>1, DumpedLines DEF LinesGood, LineGood
    <2>5. PICK p : p = Payload(file[at])
      OBVIOUS
    <2>6. /\ base_addr' = (p[1] * Base + p[2]) * Window /\ at' = at + 1
          /\ status' = status
      BY <1>7, <2>4, <2>5 DEF ExtendedAddressRecord, IsExtended
    <2>7. p \in Seq(Byte) /\ Len(p) = 2
      BY <1>1, <2>1, <2>4, <2>5, LineRead, LineFields DEF IsExtended
    <2>8. base_addr' \in Nat
      BY <2>6, <2>7, ExtendedAddress
    <2>9. base_addr' # NoBase
      BY <2>8 DEF NoBase
    <2>10. at' - 1 = at /\ at' <= Len(file) /\ at' > 1
      BY <1>4, <2>3, <2>6
    <2> QED
      BY <1>2, <1>3, <2>1, <2>2, <2>6, <2>9, <2>10 DEF ReaderInv
  <1>8. CASE EndOfFileRecord
    <2>1. /\ status' = "parsed" /\ UNCHANGED <<at, base_addr, result>>
          /\ file[at][4] = RecordType["END_OF_FILE"]
      BY <1>8 DEF EndOfFileRecord, Reading
    <2>2. at = Len(file)
      BY <2>1, DumpedLines
    <2> QED
      BY <1>2, <1>3, <2>1, <2>2 DEF ReaderInv
  <1>9. CASE NoMoreLines
    <2>1. at \in DOMAIN file => ~ WellFormedLine(file[at])
      BY <1>9 DEF NoMoreLines
    <2>2. at \in DOMAIN file
      BY DumpedLines
    <2> QED
      BY <2>1, <2>2, DumpedLines
  <1> QED
    BY <1>1, <1>5, <1>6, <1>7, <1>8, <1>9 DEF Next

LEMMA ReaderStep ==
    DumpInv /\ PrintedInv /\ ReaderInv /\ [DumpNext]_<<vars, dumpVars>>
        => ReaderInv'
  <1> SUFFICES ASSUME DumpInv, PrintedInv, ReaderInv, [DumpNext]_<<vars, dumpVars>>,
                      dump' = "written", FirstWindowFirst(sections')
               PROVE  ReaderInv'
    BY DEF ReaderInv
  <1>1. CASE DumpEnd
    <2>1. /\ dump = "writing" /\ file' = Append(file, EndLine)
          /\ UNCHANGED <<at, base_addr, result, status>>
      BY <1>1 DEF DumpEnd
    <2>2. at = 1 /\ status = "reading" /\ file \in Seq(Plain) /\ result = <<>>
      BY <2>1 DEF DumpInv, LinesInv
    <2>3. Len(file') \in Nat /\ Len(file') = Len(file) + 1 /\ Len(file) \in Nat
      <3>1. file \in Seq(Intact)
        BY <2>2, PlainFile
      <3> QED
        BY <2>1, <3>1, EndLineShape, AppendProperties
    <2> QED
      BY <2>1, <2>2, <2>3 DEF ReaderInv
  <1>2. CASE Parse
    <2>1. dump = "written" /\ sections' = sections
      BY <1>2 DEF Parse, dumpVars
    <2> QED
      BY <1>2, <2>1, ReaderParses DEF ReadingDump
  <1>3. CASE UNCHANGED <<vars, dumpVars>>
    BY <1>3 DEF ReaderInv, vars, dumpVars, Final, ExpectedAddr
  <1>4. CASE BeginRegion \/ ReadWord \/ PrintRegion \/ Interrupt \/ Damage
    BY <1>4 DEF BeginRegion, ReadWord, PrintRegion, Interrupt, Damage
  <1> QED
    BY <1>1, <1>2, <1>3, <1>4 DEF DumpNext, Program

ReadBackInv == DumpInv /\ PrintedInv /\ ReaderInv

LEMMA ReadBackAlways == DumpSpec => []ReadBackInv
  <1>1. DumpInit => ReadBackInv
    <2>1. DumpInit => ReaderInv
      BY DEF DumpInit, ReaderInv
    <2> QED
      BY <2>1, DumpInitial, PrintedInitial DEF ReadBackInv
  <1>2. ReadBackInv /\ [DumpNext]_<<vars, dumpVars>> => ReadBackInv'
    BY DumpStep, PrintedStep, ReaderStep DEF ReadBackInv
  <1> QED
    BY <1>1, <1>2, PTL DEF DumpSpec

LEMMA DumpedIsAsked ==
    ASSUME sections \in Sections, NEW a
    PROVE  a \in Dumped <=> a \in Nat /\ AskedOf(sections, Len(sections), a)
  <1>1. DOMAIN sections = 1 .. Len(sections)
    BY SectionsListed
  <1>2. ASSUME NEW i \in DOMAIN Map
        PROVE  a \in Addrs(Map[i]) <=> a \in Nat /\ InRegion(a, Map[i])
    <2>1. Map[i] \in Region
      BY HexAssumption
    <2>2. Map[i].start \in Nat /\ Map[i].end \in Nat
      BY <2>1 DEF Region
    <2> QED
      BY <2>2 DEF Addrs, InRegion
  <1>3. a \in Dumped <=>
            \E i \in DOMAIN Map : \E j \in 1 .. Len(sections) :
                Map[i].name = sections[j] /\ a \in Addrs(Map[i])
    BY <1>1 DEF Dumped, MaskAddrs
  <1>4. AskedOf(sections, Len(sections), a) <=>
            \E i \in DOMAIN Map : \E j \in 1 .. Len(sections) :
                Map[i].name = sections[j] /\ InRegion(a, Map[i])
    BY DEF AskedOf, Named
  <1> QED
    BY <1>2, <1>3, <1>4

LEMMA ReadBackMeans ==
    ReadBackInv => (FirstWindowFirst(sections) => DumpReadsBack)
  <1> SUFFICES ASSUME ReadBackInv, FirstWindowFirst(sections), dump = "written"
               PROVE  /\ status # "error"
                      /\ status = "parsed" =>
                            FirmwareBytes = {<<a, memory[a]>> : a \in Dumped}
                      /\ OutOfBoundsRejected
    BY DEF DumpReadsBack
  <1>1. /\ LayoutInv /\ HoldsInv /\ status # "error"
        /\ status = "parsed" => at = Len(file)
    BY DEF ReadBackInv, DumpInv, ReaderInv
  <1>2. /\ PrintedOf(file, Len(file) - 1, sections, next, memory)
        /\ next = Len(sections) + 1
    BY DEF ReadBackInv, PrintedInv
  <1>3. sections \in Sections /\ Len(sections) \in Nat
    BY <1>2, SectionsListed DEF PrintedOf
  <1>4. next - 1 = Len(sections)
    BY <1>2, <1>3
  <1>5. FileHolds(file, Len(file) - 1, sections, Len(sections), memory)
    BY <1>2, <1>4 DEF PrintedOf
  <1>6. ASSUME status = "parsed", NEW x
        PROVE  x \in FirmwareBytes <=> x \in {<<a, memory[a]>> : a \in Dumped}
    <2>1. x \in FirmwareBytes <=> InFirmware(x, result)
      BY <1>1, BytesByMember
    <2>2. InFirmware(x, result) <=> InFile(x, file, Len(file) - 1)
      BY <1>1, <1>6 DEF HoldsInv
    <2>3. InFile(x, file, Len(file) - 1) <=>
              \E a \in Nat : AskedOf(sections, Len(sections), a) /\ x = <<a, memory[a]>>
      BY <1>5 DEF FileHolds
    <2>4. \A a : a \in Dumped <=> a \in Nat /\ AskedOf(sections, Len(sections), a)
      BY <1>3, DumpedIsAsked
    <2> QED
      BY <2>1, <2>2, <2>3, <2>4
  <1>7. OutOfBoundsRejected
    BY DEF ReadBackInv, ReaderInv, Fits, OutOfBoundsRejected
  <1> QED
    BY <1>1, <1>6, <1>7

(* A dump of any sections, those of the first window first, is accepted by *)
(* the parser and read back to the memory of these sections and to nothing *)
(* else, every byte in a block of its own region, which the parser does    *)
(* not ensure for the files of others; for every map whose regions are in  *)
(* order and in one window each, every memory, width of a byte and length  *)
(* of a line.                                                              *)
THEOREM ReadsBack ==
    DumpSpec => [](FirstWindowFirst(sections) => DumpReadsBack)
  <1> QED
    BY ReadBackAlways, ReadBackMeans, PTL
=============================================================================
