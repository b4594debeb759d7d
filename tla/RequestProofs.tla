----------------------------- MODULE RequestProofs -----------------------------
(***************************************************************************)
(* Theorems about a request: how it is read (RequestBuffer), for every     *)
(* initial capacity and any number of bytes; the base64 in it              *)
(* (Base64Decode, Credentials), for every width of digits and bytes whose  *)
(* groups fit each other, and for texts of any length; and the target that *)
(* is read from its Host line (HostField), wherever the line stands.       *)
(***************************************************************************)
EXTENDS RequestBuffer, Credentials, FiniteSetTheorems, SequenceTheorems,
        WellFoundedInduction, TLAPS

-----------------------------------------------------------------------------
\* The buffer

\* Until the connection forwards, nothing that was received has left the
\* buffer, and the buffer has never shrunk.
KeptInv ==
  /\ state # "FORWARDING" => len = taken
  /\ capacity >= InitialCapacity

BufferInv == TypeOK /\ KeptInv /\ HeadNotMissed /\ MemoryFollowsData

\* What one recv leaves: the lengths grow by the same number of bytes, within
\* the capacity, which has doubled only for a buffer with one byte left.
LEMMA ReceiveStep ==
  ASSUME TypeOK, KeptInv, Receive
  PROVE  /\ state = "READING_REQUEST" /\ UNCHANGED client
         /\ capacity' \in Nat /\ capacity' >= capacity
         /\ len' \in len .. capacity' /\ taken' \in taken .. sent
         /\ len' = taken'
         /\ capacity' # capacity => capacity' = 2 * (taken + 1)
         /\ state' \in {"READING_REQUEST", "AUTHENTICATING", "CLOSING"}
         /\ state' = "READING_REQUEST" /\ taken' # taken => ~HeadFound(len, len')
<1>1. /\ capacity \in Nat /\ len \in 0 .. capacity
      /\ sent \in Nat /\ taken \in 0 .. sent
  BY BytesAssumption DEF TypeOK
<1>2. state = "READING_REQUEST" /\ len = taken
  BY DEF Receive, KeptInv
<1>3. PICK c : /\ c = capacity'
               /\ c = IF len = capacity - 1 THEN 2 * capacity ELSE capacity
  BY DEF Receive, Crowded
<1>4. PICK n : n = IF c - len < sent - taken THEN c - len ELSE sent - taken
  OBVIOUS
<1>5. /\ c \in Nat /\ c >= capacity /\ len <= c
      /\ c # capacity => c = 2 * (taken + 1)
  BY <1>1, <1>2, <1>3
<1>6. n \in Nat /\ n <= sent - taken /\ n <= c - len
  BY <1>1, <1>4, <1>5
<1>7. /\ len' = len + n /\ taken' = taken + n
      /\ state' = IF len' = 0 THEN "CLOSING"
                  ELSE IF n > 0 /\ HeadFound(len, len') THEN "AUTHENTICATING"
                  ELSE state
  BY <1>3, <1>4 DEF Receive, Room
<1>8. len + n \in len .. c /\ taken + n \in taken .. sent
  BY <1>1, <1>5, <1>6
<1>9. state' = "READING_REQUEST" /\ taken' # taken => ~HeadFound(len, len')
  BY <1>1, <1>6, <1>7
<1>10. state' \in {"READING_REQUEST", "AUTHENTICATING", "CLOSING"} /\ UNCHANGED client
  BY <1>2, <1>7 DEF Receive
<1> QED BY <1>2, <1>3, <1>5, <1>7, <1>8, <1>9, <1>10

\* Every state satisfies the invariant at the start.
LEMMA BufferInitInv == Init => BufferInv
<1> SUFFICES ASSUME Init PROVE BufferInv
  OBVIOUS
<1>1. TypeOK
  <2>1. headEnd \in 0 .. MaxBytes
    BY BytesAssumption DEF Init
  <2>2. is_https \in BOOLEAN /\ ended \in BOOLEAN
    BY Zenon DEF Init
  <2>3. /\ sent \in 0 .. MaxBytes /\ taken \in 0 .. sent
        /\ capacity \in Nat /\ len \in 0 .. capacity /\ state = "READING_REQUEST"
    BY CapacityAssumption, BytesAssumption DEF Init
  <2> QED BY <2>1, <2>2, <2>3 DEF TypeOK
<1>2. KeptInv /\ HeadNotMissed /\ MemoryFollowsData
  BY CapacityAssumption, BytesAssumption
     DEF Init, KeptInv, HeadNotMissed, MemoryFollowsData
<1> QED BY <1>1, <1>2 DEF BufferInv

\* No step leaves the invariant.
LEMMA BufferNextInv ==
  ASSUME BufferInv, [Next]_vars
  PROVE  BufferInv'
<1> USE CapacityAssumption, BytesAssumption
<1>1. CASE Sends
  <2>1. TypeOK'
    BY <1>1 DEF Sends, BufferInv, TypeOK
  <2> QED BY <1>1, <2>1 DEF Sends, BufferInv, KeptInv, HeadNotMissed, MemoryFollowsData
<1>2. CASE Ends
  BY <1>2 DEF Ends, BufferInv, TypeOK, KeptInv, HeadNotMissed, MemoryFollowsData
<1>3. CASE ReadFails
  <2>1. /\ state = "READING_REQUEST" /\ state' = "CLOSING"
        /\ UNCHANGED <<taken, len>> /\ UNCHANGED client
        /\ capacity' = capacity \/ (len = capacity - 1 /\ capacity' = 2 * capacity)
    BY <1>3 DEF ReadFails, Crowded
  <2>2. /\ capacity \in Nat /\ capacity' \in Nat /\ capacity' >= capacity
        /\ len \in 0 .. capacity /\ len = taken
    BY <2>1 DEF BufferInv, TypeOK, KeptInv
  <2>3. TypeOK'
    BY <2>1, <2>2 DEF BufferInv, TypeOK, client
  <2>4. KeptInv' /\ HeadNotMissed' /\ MemoryFollowsData'
    BY <2>1, <2>2 DEF BufferInv, KeptInv, HeadNotMissed, MemoryFollowsData
  <2> QED BY <2>3, <2>4 DEF BufferInv
<1>4. CASE Receive
  <2>1. TypeOK /\ KeptInv
    BY DEF BufferInv
  <2>2. TypeOK'
    BY <1>4, <2>1, ReceiveStep DEF TypeOK, client
  <2>3. KeptInv'
    BY <1>4, <2>1, ReceiveStep DEF TypeOK, KeptInv
  <2>4. HeadNotMissed'
    BY <1>4, <2>1, ReceiveStep DEF BufferInv, TypeOK, HeadNotMissed, HeadFound, client
  <2>5. MemoryFollowsData'
    BY <1>4, <2>1, ReceiveStep DEF BufferInv, TypeOK, MemoryFollowsData
  <2> QED BY <2>2, <2>3, <2>4, <2>5 DEF BufferInv
<1>5. CASE Rejects
  BY <1>5 DEF Rejects, client, BufferInv, TypeOK, KeptInv, HeadNotMissed, MemoryFollowsData
<1>6. CASE Accepts
  BY <1>6 DEF Accepts, client, BufferInv, TypeOK, KeptInv, HeadNotMissed, MemoryFollowsData
<1>7. CASE Connects
  BY <1>7 DEF Connects, client, BufferInv, TypeOK, KeptInv, HeadNotMissed, MemoryFollowsData
<1>8. CASE TimesOut
  BY <1>8 DEF TimesOut, client, BufferInv, TypeOK, KeptInv, HeadNotMissed, MemoryFollowsData
<1>9. CASE UNCHANGED vars
  BY <1>9 DEF vars, BufferInv, TypeOK, KeptInv, HeadNotMissed, MemoryFollowsData
<1> QED BY <1>1, <1>2, <1>3, <1>4, <1>5, <1>6, <1>7, <1>8, <1>9 DEF Next

\* The invariant holds in every behaviour of read_request_nonblocking and of
\* what follows it.
LEMMA BufferInvariance == Spec => []BufferInv
<1>1. BufferInv /\ [Next]_vars => BufferInv'
  BY BufferNextInv
<1> QED BY BufferInitInv, <1>1, PTL DEF Spec

\* No length passes its capacity and nothing is taken that was not sent.
THEOREM TypeCorrect == Spec => []TypeOK
<1>1. BufferInv => TypeOK
  BY DEF BufferInv
<1> QED BY BufferInvariance, <1>1, PTL

\* The empty line is found by the recv that completes it, wherever the
\* segments were cut and however often the buffer has grown.
THEOREM HeadIsNotMissed == Spec => []HeadNotMissed
<1>1. BufferInv => HeadNotMissed
  BY DEF BufferInv
<1> QED BY BufferInvariance, <1>1, PTL

\* request_capacity is bounded by what the client has sent.
THEOREM MemoryIsBounded == Spec => []MemoryFollowsData
<1>1. BufferInv => MemoryFollowsData
  BY DEF BufferInv
<1> QED BY BufferInvariance, <1>1, PTL

-----------------------------------------------------------------------------
\* Numbers

\* Quotient and remainder are what they are in the C of the decoder.
LEMMA DivMod ==
  ASSUME NEW k \in Nat \ {0}, NEW q \in Int, NEW r \in 0 .. k-1
  PROVE  (q*k+r) \div k = q /\ (q*k+r) % k = r
<1>1. (q*k+r) \div k = q
  OBVIOUS
<1>2. (q*k+r) % k = r
  OBVIOUS
<1> QED BY <1>1, <1>2

\* What remains is what the quotient leaves.
LEMMA Division ==
  ASSUME NEW k \in Nat \ {0}, NEW n \in Int
  PROVE  /\ n \div k \in Int /\ n % k \in 0 .. k-1
         /\ n = (n \div k)*k + (n % k)
         /\ n \in Nat => n \div k \in Nat
<1>0. n \div k \in Int /\ (n \in Nat => n \div k \in Nat)
  OBVIOUS
<1>1. PICK q \in Int : q = n \div k
  BY <1>0
<1>2. PICK r \in Int : r = n - q*k
  OBVIOUS
<1>3. q*k <= n
  BY <1>1
<1>4. r < k
  BY <1>1, <1>2
<1>5. r \in 0 .. k-1 /\ n = q*k + r
  BY <1>2, <1>3, <1>4
<1>6. n % k = r
  BY <1>5, DivMod
<1>7. n = (n \div k)*k + (n % k)
  BY <1>1, <1>5, <1>6
<1>8. n % k \in 0 .. k-1
  BY <1>5, <1>6
<1> QED BY <1>0, <1>7, <1>8

\* Multiples of the modulus do not matter, nor do multiples of the field's end.
LEMMA ModOfSum ==
  ASSUME NEW k \in Nat \ {0}, NEW n \in Int, NEW c \in Int
  PROVE  (c*k + n) % k = n % k
<1>1. PICK q \in Int, r \in 0 .. k-1 : n = q*k + r /\ r = n % k
  BY Division
<1>2. c*k + n = (c + q)*k + r
  BY <1>1
<1>3. c + q \in Int
  OBVIOUS
<1>4. ((c + q)*k + r) % k = r
  BY <1>3, DivMod
<1> QED BY <1>1, <1>2, <1>4

\* Multiples of a field's upper end do not change it.
LEMMA FieldOfSum ==
  ASSUME NEW s \in Nat \ {0}, NEW y \in Nat \ {0}, NEW n \in Int, NEW c \in Int
  PROVE  ((c*(s*y) + n) \div s) % y = (n \div s) % y
<1>1. PICK q \in Int, r \in 0 .. s-1 : n = q*s + r /\ q = n \div s
  BY Division
<1>2. PICK a \in Int : a = c*y
  OBVIOUS
<1>3. c*(s*y) + n = (a + q)*s + r
  <2>1. c*(s*y) = a*s
    <3>1. c*(s*y) = (c*y)*s
      OBVIOUS
    <3> QED BY <3>1, <1>2
  <2>2. n = q*s + r
    BY <1>1
  <2>3. PICK as \in Int, qs \in Int, csy \in Int : as = a*s /\ qs = q*s /\ csy = c*(s*y)
    OBVIOUS
  <2>4. (a + q)*s = as + qs
    BY <2>3
  <2> QED BY <2>1, <2>2, <2>3, <2>4
<1>4. (c*(s*y) + n) \div s = a + q
  BY <1>3, DivMod
<1>5. (a + q) % y = q % y
  BY <1>2, ModOfSum
<1> QED BY <1>1, <1>4, <1>5

\* A field of a number does not see what is below it.
LEMMA DivOfSum ==
  ASSUME NEW k \in Nat \ {0}, NEW s \in Nat \ {0}, NEW e \in Int, NEW t \in 0 .. k-1
  PROVE  (e*k + t) \div (s*k) = e \div s
<1>1. PICK q \in Int, r \in 0 .. s-1 : e = q*s + r /\ q = e \div s
  BY Division
<1>2. e*k + t = q*(s*k) + (r*k + t)
  <2>1. e*k = (q*s)*k + r*k
    BY <1>1
  <2>2. (q*s)*k = q*(s*k)
    OBVIOUS
  <2> QED BY <2>1, <2>2
<1>3. s*k \in Nat \ {0}
  OBVIOUS
<1>4. r*k + t \in 0 .. s*k - 1
  <2>1. r*k + t \in Nat
    OBVIOUS
  <2>2. r*k + k <= s*k
    <3>1. (r+1)*k <= s*k
      BY <1>1
    <3> QED BY <3>1
  <2> QED BY <2>1, <2>2
<1> QED BY <1>1, <1>2, <1>3, <1>4, DivMod

\* d is the number of digits and y of bytes, in terms of what a digit and a
\* byte differ by.
Scale(b, d, y) == d = b*b*b /\ y = b*b*b*b

\* Each byte of a group is a field of two of its digits.
BytesOfDigits(b, d, y, d1, d2, d3, d4) ==
  LET group == ((d1*d + d2)*d + d3)*d + d4
  IN /\ (group \div (y*y)) % y = ((d1*d + d2) \div (b*b)) % y
     /\ (group \div y) % y = ((d2*d + d3) \div b) % y
     /\ (group \div 1) % y = ((d3*d + d4) \div 1) % y

\* The bytes of a group, each from two of its digits.
LEMMA Groups ==
  ASSUME NEW b \in Nat \ {0}, NEW d \in Nat \ {0}, NEW y \in Nat \ {0}, Scale(b, d, y),
         NEW d1 \in 0 .. d-1, NEW d2 \in 0 .. d-1, NEW d3 \in 0 .. d-1, NEW d4 \in 0 .. d-1
  PROVE  BytesOfDigits(b, d, y, d1, d2, d3, d4)
<1>s. d = b*b*b /\ y = b*b*b*b
  BY DEF Scale
<1> DEFINE group == ((d1*d + d2)*d + d3)*d + d4
           e == d1*d + d2
           f == d2*d + d3
           t == d3*d + d4
<1>0. e \in Int /\ f \in Int /\ t \in Int
  OBVIOUS
<1>1. group = e*(d*d) + t
  <2>1. \A x \in Int : (x*d + d3)*d + d4 = x*(d*d) + (d3*d + d4)
    OBVIOUS
  <2> QED BY <2>1, <1>0
<1>2. group = (d1*(d*d) + f)*d + d4
  OBVIOUS
<1>3. d*d = (b*b)*y
  BY <1>s
<1>4. d*d \in Nat \ {0} /\ t \in 0 .. d*d - 1
  <2>1. d3*d + d <= d*d
    <3>1. (d3+1)*d <= d*d
      OBVIOUS
    <3> QED BY <3>1
  <2>2. d*d \in Nat \ {0} /\ t \in Nat
    OBVIOUS
  <2> QED BY <2>1, <2>2
<1>5. y*y = (b*b)*(d*d) /\ y = b*d
  BY <1>s
<1>6. group \div (y*y) = e \div (b*b)
  <2>1. b*b \in Nat \ {0}
    OBVIOUS
  <2> HIDE DEF group, e, t
  <2> QED BY <1>0, <1>1, <1>4, <1>5, <2>1, DivOfSum
<1>7. group \div y = (d1*(d*d) + f) \div b
  <2>1. PICK x \in Int : x = d1*(d*d) + f
    OBVIOUS
  <2>2. group = x*d + d4
    BY <1>2, <2>1
  <2>3. (x*d + d4) \div (b*d) = x \div b
    BY DivOfSum
  <2> HIDE DEF group, f
  <2> QED BY <1>5, <2>1, <2>2, <2>3
<1>8. ((d1*(d*d) + f) \div b) % y = (f \div b) % y
  <2>1. d1*(d*d) = (d1*b)*(b*y)
    <3>1. d*d = b*(b*y)
      BY <1>s
    <3>2. \A x \in Int : d1*(b*x) = (d1*b)*x
      OBVIOUS
    <3>3. b*y \in Int
      OBVIOUS
    <3> QED BY <3>1, <3>2, <3>3
  <2>2. PICK c \in Int : c = d1*b
    OBVIOUS
  <2>3. PICK n \in Int : n = f
    BY <1>0
  <2>4. ((c*(b*y) + n) \div b) % y = (n \div b) % y
    BY FieldOfSum, Zenon
  <2> HIDE DEF f
  <2> QED BY <2>1, <2>2, <2>3, <2>4
<1>9. (group \div 1) % y = (t \div 1) % y
  <2>1. e*(d*d) = (e*(b*b))*(1*y)
    <3>1. \A x \in Int : x*((b*b)*y) = (x*(b*b))*(1*y)
      OBVIOUS
    <3> HIDE DEF e
    <3> QED BY <1>0, <1>3, <3>1
  <2>2. PICK c \in Int, n \in Int, x \in Nat \ {0} : c = e*(b*b) /\ n = t /\ x = 1
    BY <1>0
  <2>3. ((c*(x*y) + n) \div x) % y = (n \div x) % y
    BY FieldOfSum, Zenon
  <2> HIDE DEF group, e, t
  <2> QED BY <1>1, <2>1, <2>2, <2>3
<1> QED BY <1>6, <1>7, <1>8, <1>9 DEF BytesOfDigits

\* x and n differ by a multiple of k.
Congruent(x, n, k) == \E z \in Int : x = z*k + n

\* What lies below k does not tell them apart.
LEMMA FieldsOfCongruent ==
  ASSUME NEW b \in Nat \ {0}, NEW y \in Nat \ {0}, NEW n \in Int, NEW x \in Int,
         Congruent(x, n, (b*b)*y)
  PROVE  /\ (x \div (b*b)) % y = (n \div (b*b)) % y
         /\ (x \div b) % y = (n \div b) % y
         /\ (x \div 1) % y = (n \div 1) % y
<1>0. PICK z \in Int : x = z*((b*b)*y) + n
  BY DEF Congruent
<1>1. PICK s \in Nat \ {0}, a \in Int, h \in Int, f \in Nat \ {0} :
        s = b*b /\ a = z*b /\ h = z*s /\ f = 1
  OBVIOUS
<1>3. x = z*(s*y) + n
  BY <1>0, <1>1
<1>4. x = a*(b*y) + n
  <2>1. z*((b*b)*y) = (z*b)*(b*y)
    OBVIOUS
  <2> QED BY <1>0, <1>1, <2>1
<1>5. x = h*(f*y) + n
  <2>1. z*(s*y) = (z*s)*(1*y)
    OBVIOUS
  <2> QED BY <1>1, <1>3, <2>1
<1>6. ((z*(s*y) + n) \div s) % y = (n \div s) % y
  BY FieldOfSum, Zenon
<1>7. ((a*(b*y) + n) \div b) % y = (n \div b) % y
  BY FieldOfSum, Zenon
<1>8. ((h*(f*y) + n) \div f) % y = (n \div f) % y
  BY FieldOfSum, Zenon
<1> QED BY <1>1, <1>3, <1>4, <1>5, <1>6, <1>7, <1>8

\* What is left of the digits read before in an accumulator that takes a new one.
TakesDigit(d, c, acc, digit) ==
  LET x == (acc*d + digit) % (c*(d*d))
      n == (acc % d)*d + digit
  IN /\ x \in 0 .. c*(d*d) - 1 /\ n \in Nat
     /\ x % d = digit /\ Congruent(x, n, d*d)

\* One turn in numbers: the overflow leaves everything below two digits.
LEMMA Shifted ==
  ASSUME NEW d \in Nat \ {0}, NEW c \in Nat \ {0}, NEW acc \in Nat, NEW digit \in 0 .. d-1
  PROVE  TakesDigit(d, c, acc, digit)
<1>1. PICK u \in Int, p \in 0 .. d-1 : acc = u*d + p /\ p = acc % d
  <2>1. acc \in Int
    OBVIOUS
  <2> QED BY <2>1, Division
<1>2. PICK n \in Int : n = p*d + digit
  OBVIOUS
<1>3. PICK w \in Nat \ {0} : w = d*d
  OBVIOUS
<1>4. PICK k \in Nat \ {0} : k = c*w
  OBVIOUS
<1>5. PICK g \in Int : g = acc*d + digit /\ g = u*w + n
  BY <1>1, <1>2, <1>3
<1>7. PICK v \in Int, x \in 0 .. k-1 : g = v*k + x /\ x = g % k
  BY Division
<1>8. PICK z \in Int : z = u - v*c
  OBVIOUS
<1>9. x = z*w + n
  <2>1. PICK a \in Int : a = v*c
    OBVIOUS
  <2>2. v*k = a*w
    BY <1>4, <2>1
  <2>3. z*w = u*w - a*w
    BY <1>8, <2>1
  <2>4. PICK uw \in Int, aw \in Int : uw = u*w /\ aw = a*w
    OBVIOUS
  <2>5. g = uw + n /\ g = aw + x /\ z*w = uw - aw
    BY <1>5, <1>7, <2>2, <2>3, <2>4
  <2> QED BY <2>5
<1>10. x % d = digit
  <2>1. PICK q \in Int : q = z*d + p
    OBVIOUS
  <2>2. x = q*d + digit
    BY <1>2, <1>3, <1>9, <2>1
  <2> QED BY <2>2, DivMod
<1>11. Congruent(x, n, d*d)
  BY <1>3, <1>9 DEF Congruent
<1>12. x = (acc*d + digit) % (c*(d*d)) /\ n = (acc % d)*d + digit
  BY <1>1, <1>2, <1>3, <1>4, <1>5, <1>7
<1>13. x \in 0 .. c*(d*d) - 1 /\ n \in Nat
  BY <1>2, <1>3, <1>4, <1>7
<1> QED BY <1>10, <1>11, <1>12, <1>13 DEF TakesDigit
\* 2^n is not 0, and exponents add up: the subsets of a set of x + y elements are
\* the pairs of subsets of its two parts.
LEMMA PowPositive == ASSUME NEW n \in Nat PROVE 2^n \in Nat \ {0}
<1>1. IsFiniteSet(1..n) /\ Cardinality(1..n) = n
  BY FS_Interval
<1>2. IsFiniteSet(SUBSET (1..n)) /\ Cardinality(SUBSET (1..n)) = 2^n
  BY <1>1, FS_SUBSET
<1>3. SUBSET (1..n) # {}
  OBVIOUS
<1>4. Cardinality(SUBSET (1..n)) # 0
  BY <1>2, <1>3, FS_EmptySet
<1> QED BY <1>2, <1>4, FS_CardinalityType

\* The law of exponents, by counting the subsets of a disjoint union.
LEMMA PowSum == ASSUME NEW x \in Nat, NEW y \in Nat PROVE 2^(x+y) = 2^x * 2^y
<1> DEFINE S == 1..x
           T == x+1 .. x+y
<1>1. IsFiniteSet(S) /\ Cardinality(S) = x /\ IsFiniteSet(T) /\ Cardinality(T) = y
  <2>1. IsFiniteSet(1..x) /\ Cardinality(1..x) = x
    BY FS_Interval
  <2>2. IsFiniteSet(x+1..x+y) /\ Cardinality(x+1..x+y) = IF x+1 > x+y THEN 0 ELSE x+y-(x+1)+1
    <3>1. x+1 \in Int /\ x+y \in Int
      OBVIOUS
    <3> HIDE DEF S, T
    <3> QED BY <3>1, FS_Interval
  <2> QED BY <2>1, <2>2
<1>2. S \cup T = 1 .. x+y /\ S \cap T = {}
  OBVIOUS
<1>3. IsFiniteSet(S \cup T) /\ Cardinality(S \cup T) = x+y
  <2>0. PICK z \in Nat : z = x + y
    OBVIOUS
  <2>1. IsFiniteSet(1 .. z) /\ Cardinality(1 .. z) = z
    BY FS_Interval
  <2> HIDE DEF S, T
  <2> QED BY <1>2, <2>0, <2>1
<1> HIDE DEF S, T
<1>4. /\ Cardinality(SUBSET S) = 2^x /\ Cardinality(SUBSET T) = 2^y
      /\ Cardinality(SUBSET (S \cup T)) = 2^(x+y)
      /\ IsFiniteSet(SUBSET S) /\ IsFiniteSet(SUBSET T)
      /\ IsFiniteSet(SUBSET (S \cup T))
  BY <1>1, <1>3, FS_SUBSET
<1>5. /\ IsFiniteSet((SUBSET S) \X (SUBSET T))
      /\ Cardinality((SUBSET S) \X (SUBSET T)) = 2^x * 2^y
  BY <1>4, FS_Product
<1> DEFINE f == [U \in SUBSET (S \cup T) |-> <<U \cap S, U \cap T>>]
<1>6. f \in [SUBSET (S \cup T) -> (SUBSET S) \X (SUBSET T)]
  OBVIOUS
<1>7. ASSUME NEW U \in SUBSET (S \cup T), NEW V \in SUBSET (S \cup T), f[U] = f[V]
      PROVE  U = V
  <2>1. U \cap S = V \cap S /\ U \cap T = V \cap T
    BY <1>7
  <2> QED BY <2>1
<1>8. ASSUME NEW p \in (SUBSET S) \X (SUBSET T)
      PROVE  \E U \in SUBSET (S \cup T) : f[U] = p
  <2>1. PICK U \in SUBSET S, V \in SUBSET T : p = <<U, V>>
    OBVIOUS
  <2>2. (U \cup V) \cap S = U /\ (U \cup V) \cap T = V
    BY <1>2
  <2>3. U \cup V \in SUBSET (S \cup T)
    BY Zenon
  <2>4. f[U \cup V] = <<(U \cup V) \cap S, (U \cup V) \cap T>>
    BY <2>3
  <2> QED BY <2>1, <2>2, <2>3, <2>4
<1> HIDE DEF f
<1>9. f \in Bijection(SUBSET (S \cup T), (SUBSET S) \X (SUBSET T))
  <2>1. f \in Injection(SUBSET (S \cup T), (SUBSET S) \X (SUBSET T))
    BY <1>6, <1>7 DEF Injection, IsInjective
  <2>2. f \in Surjection(SUBSET (S \cup T), (SUBSET S) \X (SUBSET T))
    BY <1>6, <1>8 DEF Surjection
  <2> QED BY <2>1, <2>2 DEF Bijection
<1>10. ExistsBijection(SUBSET (S \cup T), (SUBSET S) \X (SUBSET T))
  BY <1>9 DEF ExistsBijection
<1> QED BY <1>4, <1>5, <1>10, FS_Bijection

-----------------------------------------------------------------------------
\* Widths

\* What a digit has fewer bits than a byte, as a factor: a digit has three times
\* as many bits, a byte four times, the accumulator at least six times.
Unit == ByteBits - DigitBits
B == 2^Unit

\* The widths in these units.
LEMMA Widths ==
  /\ Unit \in Nat \ {0} /\ DigitBits = 3 * Unit /\ ByteBits = 4 * Unit
  /\ AccumulatorBits \in Nat /\ AccumulatorBits >= 6 * Unit
BY BitsAssumption, AccumulatorAssumption DEF Unit

\* Their powers of two; that of the accumulator is a multiple of two digits'.
LEMMA Powers ==
  /\ B \in Nat \ {0}
  /\ 2^(2 * Unit) = B*B /\ 2^DigitBits = B*B*B /\ 2^ByteBits = B*B*B*B
  /\ 2^(2 * ByteBits) = (B*B*B*B)*(B*B*B*B)
  /\ \E c \in Nat \ {0} : 2^AccumulatorBits = c * ((B*B*B)*(B*B*B))
<1>1. B \in Nat \ {0}
  BY Widths, PowPositive DEF B
<1>2. 2^(2 * Unit) = B*B
  <2>1. 2 * Unit = Unit + Unit
    BY Widths
  <2> QED BY <2>1, Widths, PowSum DEF B
<1>3. 2^(3 * Unit) = B*B*B
  <2>1. 3 * Unit = 2 * Unit + Unit /\ 2 * Unit \in Nat
    BY Widths
  <2> QED BY <2>1, <1>2, Widths, PowSum DEF B
<1>4. 2^(4 * Unit) = B*B*B*B
  <2>1. 4 * Unit = 3 * Unit + Unit /\ 3 * Unit \in Nat
    BY Widths
  <2> QED BY <2>1, <1>3, Widths, PowSum DEF B
<1>5. 2^(2 * ByteBits) = 2^ByteBits * 2^ByteBits
  <2>1. 2 * ByteBits = ByteBits + ByteBits /\ ByteBits \in Nat
    BY BitsAssumption
  <2> QED BY <2>1, PowSum
<1>6. 2^(6 * Unit) = (B*B*B)*(B*B*B)
  <2>1. 6 * Unit = 3 * Unit + 3 * Unit /\ 3 * Unit \in Nat
    BY Widths
  <2> QED BY <2>1, <1>3, PowSum
<1>7. \E c \in Nat \ {0} : 2^AccumulatorBits = c * 2^(6 * Unit)
  <2>1. PICK more \in Nat : AccumulatorBits = more + 6 * Unit /\ 6 * Unit \in Nat
    BY Widths
  <2>2. 2^AccumulatorBits = 2^more * 2^(6 * Unit)
    BY <2>1, PowSum
  <2> QED BY <2>2, PowPositive
<1> QED BY <1>1, <1>2, <1>3, <1>4, <1>5, <1>6, <1>7, Widths

\* Digits and bytes are numbers, and '=' counts as a digit.
LEMMA DigitType ==
  /\ 2^DigitBits \in Nat \ {0} /\ 2^ByteBits \in Nat \ {0} /\ 2^AccumulatorBits \in Nat \ {0}
  /\ 0 \in Byte /\ Digit \subseteq Nat
  /\ \A c \in Symbol : c # Bad => DigitOf(c) \in Digit
<1>1. /\ 2^DigitBits \in Nat \ {0} /\ 2^ByteBits \in Nat \ {0}
      /\ 2^AccumulatorBits \in Nat \ {0}
  BY BitsAssumption, AccumulatorAssumption, PowPositive
<1>2. 0 \in Digit /\ 0 \in Byte /\ Digit \subseteq Nat
  BY <1>1 DEF Digit, Byte
<1>3. \A c \in Symbol : c # Bad => DigitOf(c) \in Digit
  BY <1>2 DEF Symbol, DigitOf
<1> QED BY <1>1, <1>2, <1>3

\* A field of ByteBits is a byte.
LEMMA FieldType ==
  ASSUME NEW n \in Int, NEW s \in Nat
  PROVE  Field(n, s, ByteBits) \in Byte
<1>1. PICK k \in Nat \ {0} : k = 2^s
  BY PowPositive
<1>2. PICK q \in Int : q = n \div k
  BY Division
<1>3. PICK y \in Nat \ {0} : y = 2^ByteBits
  BY DigitType
<1>4. q % y \in 0 .. y - 1
  BY Division
<1> QED BY <1>1, <1>2, <1>3, <1>4 DEF Field, Byte

\* The fields that the loop and DecodedByte take.
LEMMA ThreePowers ==
  /\ B \in Nat \ {0} /\ 2 * Unit \in Nat /\ Unit \in Nat
  /\ \A n : Field(n, 2 * Unit, ByteBits) = (n \div (B*B)) % (B*B*B*B)
  /\ \A n : Field(n, Unit, ByteBits) = (n \div B) % (B*B*B*B)
  /\ \A n : Field(n, 0, ByteBits) = (n \div 1) % (B*B*B*B)
  /\ \A n : Field(n, ByteBits, ByteBits) = (n \div (B*B*B*B)) % (B*B*B*B)
  /\ \A n : Field(n, 2 * ByteBits, ByteBits)
              = (n \div ((B*B*B*B)*(B*B*B*B))) % (B*B*B*B)
<1>1. 2^0 = 1
  OBVIOUS
<1> QED BY <1>1, Powers, Widths DEF Field, B

\* One turn of the loop: whatever the accumulator has lost on the left, the new
\* digit is its lowest field, and the byte that is taken from it, if one is, is
\* made of the last two digits.
LEMMA Turn ==
  ASSUME NEW acc \in Nat, NEW digit \in Digit
  PROVE  LET x == (acc * 2^DigitBits + digit) % 2^AccumulatorBits
             n == (acc % 2^DigitBits) * 2^DigitBits + digit
         IN /\ x \in 0 .. 2^AccumulatorBits - 1 /\ x % 2^DigitBits = digit
            /\ \A r \in 1 .. 3 :
                 Field(x, (r - 1) * Unit, ByteBits) = Field(n, (r - 1) * Unit, ByteBits)
<1>1. PICK b \in Nat \ {0}, d \in Nat \ {0}, y \in Nat \ {0}, c \in Nat \ {0} :
        /\ b = B /\ d = 2^DigitBits /\ y = 2^ByteBits /\ d = b*b*b /\ y = b*b*b*b
        /\ 2^AccumulatorBits = c*((b*b*b)*(b*b*b))
  BY Powers, DigitType
<1>2. digit \in 0 .. d - 1
  BY <1>1 DEF Digit
<1>3. PICK x \in Int, n \in Int :
        /\ x = (acc*d + digit) % (c*(d*d)) /\ n = (acc % d)*d + digit
        /\ x \in 0 .. c*(d*d) - 1 /\ n \in Nat
        /\ x % d = digit /\ Congruent(x, n, d*d)
  <2>1. TakesDigit(d, c, acc, digit)
    BY <1>2, Shifted, Zenon
  <2> QED BY <2>1, <1>1 DEF TakesDigit
<1>4. Congruent(x, n, (b*b)*y)
  <2>1. d*d = (b*b)*y
    BY <1>1
  <2> QED BY <1>3, <2>1
<1>5. /\ (x \div (b*b)) % y = (n \div (b*b)) % y
      /\ (x \div b) % y = (n \div b) % y
      /\ (x \div 1) % y = (n \div 1) % y
  BY <1>4, FieldsOfCongruent, ZenonT(60)
<1>6. /\ Field(x, 2 * Unit, ByteBits) = Field(n, 2 * Unit, ByteBits)
      /\ Field(x, Unit, ByteBits) = Field(n, Unit, ByteBits)
      /\ Field(x, 0, ByteBits) = Field(n, 0, ByteBits)
  BY <1>1, <1>5, ThreePowers
<1>7. (3 - 1) * Unit = 2 * Unit /\ (2 - 1) * Unit = Unit /\ (1 - 1) * Unit = 0
  BY Widths
<1>8. \A r \in 1 .. 3 :
        Field(x, (r - 1) * Unit, ByteBits) = Field(n, (r - 1) * Unit, ByteBits)
  <2>1. \A r \in 1 .. 3 : r = 1 \/ r = 2 \/ r = 3
    OBVIOUS
  <2> QED BY <1>6, <1>7, <2>1
<1>9. 2^AccumulatorBits = c*(d*d)
  BY <1>1
<1> QED BY <1>1, <1>3, <1>8, <1>9

\* The last two digits read make the byte that is due.
LEMMA GroupByte ==
  ASSUME NEW text \in Seq(Symbol), Decodes(text),
         NEW g \in Nat, 4 * g + 4 <= Len(text), NEW r \in 1 .. 3
  PROVE  DecodedByte(text, 3 * g + 4 - r)
           = Field(DigitOf(text[4 * g + 4 - r]) * 2^DigitBits + DigitOf(text[4 * g + 5 - r]),
                   (r - 1) * Unit, ByteBits)
<1>1. PICK b \in Nat \ {0}, d \in Nat \ {0}, y \in Nat \ {0} :
        b = B /\ d = 2^DigitBits /\ y = 2^ByteBits /\ d = b*b*b /\ y = b*b*b*b
  BY Powers, DigitType
<1>2. \A k \in 1 .. 4 : DigitOf(text[4 * g + k]) \in 0 .. d - 1
  <2>1. \A k \in 1 .. 4 : 4 * g + k \in DOMAIN text
    OBVIOUS
  <2>2. \A k \in DOMAIN text : text[k] \in Symbol /\ text[k] # Bad
    BY DEF Decodes
  <2>3. \A k \in DOMAIN text : DigitOf(text[k]) \in Digit
    BY <2>2, DigitType
  <2> QED BY <1>1, <2>1, <2>3 DEF Digit
<1>3. PICK d1 \in 0 .. d-1, d2 \in 0 .. d-1, d3 \in 0 .. d-1, d4 \in 0 .. d-1 :
        /\ d1 = DigitOf(text[4 * g + 1]) /\ d2 = DigitOf(text[4 * g + 2])
        /\ d3 = DigitOf(text[4 * g + 3]) /\ d4 = DigitOf(text[4 * g + 4])
  BY <1>2
<1>4. PICK group \in Int :
        /\ group = ((d1*d + d2)*d + d3)*d + d4
        /\ (group \div (y*y)) % y = ((d1*d + d2) \div (b*b)) % y
        /\ (group \div y) % y = ((d2*d + d3) \div b) % y
        /\ (group \div 1) % y = ((d3*d + d4) \div 1) % y
  <2>1. Scale(b, d, y)
    BY <1>1 DEF Scale
  <2>2. BytesOfDigits(b, d, y, d1, d2, d3, d4)
    BY <2>1, Groups, Zenon
  <2>3. ((d1*d + d2)*d + d3)*d + d4 \in Int
    OBVIOUS
  <2> QED BY <2>2, <2>3 DEF BytesOfDigits
<1>5. PICK j \in Nat : j = 3 * g + 4 - r /\ (j - 1) \div 3 = g /\ 2 - ((j - 1) % 3) = r - 1
  OBVIOUS
<1>6. DecodedByte(text, j) = Field(group, (r - 1) * ByteBits, ByteBits)
  BY <1>1, <1>3, <1>4, <1>5 DEF DecodedByte
<1>7. CASE r = 3
  <2>1. (r - 1) * ByteBits = 2 * ByteBits /\ (r - 1) * Unit = 2 * Unit
    BY <1>7, Widths
  <2>2. Field(group, 2 * ByteBits, ByteBits) = Field(d1*d + d2, 2 * Unit, ByteBits)
    BY <1>1, <1>4, ThreePowers
  <2>3. 4 * g + 4 - r = 4 * g + 1 /\ 4 * g + 5 - r = 4 * g + 2
    BY <1>7
  <2> QED BY <1>1, <1>3, <1>5, <1>6, <2>1, <2>2, <2>3
<1>8. CASE r = 2
  <2>1. (r - 1) * ByteBits = ByteBits /\ (r - 1) * Unit = Unit
    BY <1>8, Widths
  <2>2. Field(group, ByteBits, ByteBits) = Field(d2*d + d3, Unit, ByteBits)
    BY <1>1, <1>4, ThreePowers
  <2>3. 4 * g + 4 - r = 4 * g + 2 /\ 4 * g + 5 - r = 4 * g + 3
    BY <1>8
  <2> QED BY <1>1, <1>3, <1>5, <1>6, <2>1, <2>2, <2>3
<1>9. CASE r = 1
  <2>1. (r - 1) * ByteBits = 0 /\ (r - 1) * Unit = 0
    BY <1>9, Widths
  <2>2. Field(group, 0, ByteBits) = Field(d3*d + d4, 0, ByteBits)
    BY <1>1, <1>4, ThreePowers
  <2>3. 4 * g + 4 - r = 4 * g + 3 /\ 4 * g + 5 - r = 4 * g + 4
    BY <1>9
  <2> QED BY <1>1, <1>3, <1>5, <1>6, <2>1, <2>2, <2>3
<1> QED BY <1>7, <1>8, <1>9

-----------------------------------------------------------------------------
\* The inductive invariant

\* The loop begins with nothing.
StartInv ==
  pc = "start" => i = 0 /\ accumulator = 0 /\ bits_collected = 0 /\ decoded = <<>>

\* r digits of the present group are still to come, and r times what a byte has
\* more bits than a digit are in the accumulator that no byte has taken.
CountInv ==
  pc = "loop" =>
    /\ Len(input) % 4 = 0 /\ decoded_len = DecodedLen(input)
    /\ \E r \in 0 .. 3 : bits_collected = r * Unit /\ 3 * i = 4 * Len(decoded) + r

\* The accumulator ends in the digit read last.
ReadInv ==
  pc = "loop" =>
    /\ \A k \in 1 .. i : input[k] # Bad
    /\ i > 0 => accumulator % 2^DigitBits = DigitOf(input[i])

\* If the text decodes, what has been written is its decoding.  If a bad
\* character is still to come, the bytes of its group need not make sense.
WrittenInv ==
  pc = "loop" /\ Decodes(input) =>
    \A j \in 1 .. Len(decoded) : decoded[j] = DecodedByte(input, j)

\* What the caller gets is a C string.
EndInv ==
  pc = "done" =>
    /\ decoded_len = DecodedLen(input)
    /\ decoded_len + 1 \in DOMAIN decoded /\ decoded[decoded_len + 1] = 0

DecoderInv ==
  DecoderTypeOK /\ StartInv /\ CountInv /\ ReadInv /\ WrittenInv /\ EndInv /\ LoopDecodes

\* The length that is allocated.
LEMMA PaddingRange ==
  ASSUME NEW text \in Seq(Symbol), Len(text) % 4 = 0
  PROVE  /\ PaddingOf(text) \in 0 .. 2
         /\ DecodedLen(text) \in 0 .. 3 * (Len(text) \div 4)
         /\ DecodedLen(text) = 3 * (Len(text) \div 4) - PaddingOf(text)
<1>1. PaddingOf(text) \in 0 .. 2 /\ (Len(text) < 2 => PaddingOf(text) = 0)
  BY DEF PaddingOf
<1>2. Len(text) \in Nat /\ (Len(text) >= 2 => Len(text) \div 4 >= 1)
  OBVIOUS
<1> QED BY <1>1, <1>2 DEF DecodedLen

\* The invariant holds before the first call.
LEMMA DecoderInitInv == DecoderInit => DecoderInv
<1> SUFFICES ASSUME DecoderInit PROVE DecoderInv
  OBVIOUS
<1>1. DecoderTypeOK
  BY DigitType, BitsAssumption DEF DecoderInit, DecoderTypeOK, PaddingOf
<1> QED BY <1>1 DEF DecoderInit, DecoderInv, StartInv, CountInv, ReadInv, WrittenInv, EndInv, LoopDecodes

\* The test of the length and the allocation keep it.
LEMMA StartStep == DecoderInv /\ Start => DecoderInv'
<1> SUFFICES ASSUME DecoderInv, Start PROVE DecoderInv'
  OBVIOUS
<1>1. /\ pc = "start" /\ i = 0 /\ accumulator = 0 /\ bits_collected = 0 /\ decoded = <<>>
      /\ UNCHANGED <<input, i, accumulator, bits_collected, decoded>>
      /\ input \in Seq(Symbol) /\ Len(decoded) = 0
  BY DEF DecoderInv, Start, StartInv, DecoderTypeOK
<1>2. CASE pc' = "null" /\ Len(input) % 4 # 0 /\ UNCHANGED decoded_len
  <2>1. DecoderTypeOK'
    BY <1>1, <1>2 DEF DecoderInv, DecoderTypeOK
  <2>2. LoopDecodes'
    BY <1>1, <1>2 DEF LoopDecodes, Decodes
  <2> QED BY <1>2, <2>1, <2>2 DEF DecoderInv, StartInv, CountInv, ReadInv, WrittenInv, EndInv
<1>3. CASE pc' \in {"loop", "nomem"} /\ Len(input) % 4 = 0 /\ decoded_len' = DecodedLen(input)
  <2>1. DecodedLen(input) \in 0 .. 3 * (Len(input) \div 4)
    BY <1>1, <1>3, PaddingRange
  <2>2. DecoderTypeOK'
    BY <1>1, <1>3, <2>1 DEF DecoderInv, DecoderTypeOK
  <2>3. CountInv'
    <3>1. 0 = 0 * Unit
      BY Widths
    <3>2. 0 \in 0 .. 3 /\ 3 * i' = 4 * Len(decoded') + 0
      BY <1>1
    <3> QED BY <1>1, <1>3, <3>1, <3>2 DEF CountInv
  <2> QED BY <1>1, <1>3, <2>2, <2>3 DEF DecoderInv, StartInv, ReadInv, WrittenInv, EndInv, LoopDecodes
<1> QED BY <1>2, <1>3 DEF Start

\* Where a group is: of the 4 * g + 4 - r digits read, the last two give byte
\* 3 * g + 4 - r.
LEMMA GroupPlace ==
  ASSUME NEW n \in Nat, n % 4 = 0, NEW k \in 0 .. n, k < n, NEW l \in Nat, NEW r \in 0 .. 3,
         3 * k = 4 * l + r
  PROVE  r # 0 => \E g \in Nat :
           /\ k = 4 * g + 4 - r /\ l + 1 = 3 * g + 4 - r /\ 4 * g + 4 <= n
           /\ 3 * (k + 1) = 4 * (l + 1) + (r - 1)
<1> SUFFICES ASSUME r # 0
             PROVE  \E g \in Nat :
                      /\ k = 4 * g + 4 - r /\ l + 1 = 3 * g + 4 - r /\ 4 * g + 4 <= n
                      /\ 3 * (k + 1) = 4 * (l + 1) + (r - 1)
  OBVIOUS
<1>1. PICK g \in Nat : l = 3 * g + 3 - r
  <2>1. (l + r) % 3 = 0
    OBVIOUS
  <2>2. l + r >= 3
    OBVIOUS
  <2>3. PICK h \in Nat : h = (l + r) \div 3 /\ l + r = 3 * h /\ h >= 1
    BY <2>1, <2>2
  <2>4. h - 1 \in Nat /\ l = 3 * (h - 1) + 3 - r
    BY <2>3
  <2> QED BY <2>4
<1>2. k = 4 * g + 4 - r
  BY <1>1
<1>3. 4 * g + 4 <= n
  BY <1>2
<1> QED BY <1>1, <1>2, <1>3

\* A turn of the loop keeps it: the first digit of a group writes nothing, each
\* of the others one byte, from itself and the digit before it.
LEMMA NextDigitStep == DecoderInv /\ NextDigit => DecoderInv'
<1> SUFFICES ASSUME DecoderInv, NextDigit PROVE DecoderInv'
  OBVIOUS
<1> DEFINE c == input[i + 1]
           acc == (accumulator * 2^DigitBits + DigitOf(c)) % 2^AccumulatorBits
           bits == bits_collected + DigitBits
<1>1. /\ pc = "loop" /\ i < Len(input) /\ UNCHANGED <<input, decoded_len>>
      /\ input \in Seq(Symbol) /\ i \in 0 .. Len(input) /\ decoded \in Seq(Byte)
      /\ accumulator \in Nat /\ decoded_len = DecodedLen(input) /\ Len(input) % 4 = 0
      /\ Len(input) \in Nat /\ i \in Nat /\ Len(decoded) \in Nat
  <2>1. pc = "loop" /\ i < Len(input) /\ UNCHANGED <<input, decoded_len>>
    BY DEF NextDigit
  <2>2. /\ input \in Seq(Symbol) /\ i \in 0 .. Len(input) /\ decoded \in Seq(Byte)
        /\ accumulator \in 0 .. 2^AccumulatorBits - 1
    BY DEF DecoderInv, DecoderTypeOK
  <2>3. decoded_len = DecodedLen(input) /\ Len(input) % 4 = 0
    BY <2>1 DEF DecoderInv, CountInv
  <2>4. accumulator \in Nat
    BY <2>2, DigitType
  <2> QED BY <2>1, <2>2, <2>3, <2>4
<1>2. c \in Symbol
  BY <1>1
<1>3. CASE c = Bad
  <2>1. pc' = "null" /\ UNCHANGED <<i, accumulator, bits_collected, decoded>>
    BY <1>3 DEF NextDigit
  <2>2. DecoderTypeOK'
    BY <1>1, <2>1 DEF DecoderInv, DecoderTypeOK
  <2>3. ~Decodes(input)
    <3>1. i + 1 \in DOMAIN input
      BY <1>1
    <3> QED BY <1>3, <3>1 DEF Decodes
  <2>4. LoopDecodes'
    BY <1>1, <2>1, <2>3 DEF LoopDecodes
  <2> QED BY <2>1, <2>2, <2>4 DEF DecoderInv, StartInv, CountInv, ReadInv, WrittenInv, EndInv
<1>4. CASE c # Bad
  <2>1. DigitOf(c) \in Digit
    BY <1>2, <1>4, DigitType
  <2>2. /\ pc' = "loop" /\ i' = i + 1 /\ accumulator' = acc
        /\ IF bits >= ByteBits
           THEN /\ bits_collected' = bits - ByteBits
                /\ decoded' = Append(decoded, Field(acc, bits - ByteBits, ByteBits))
           ELSE bits_collected' = bits /\ UNCHANGED decoded
    BY <1>1, <1>4 DEF NextDigit
  <2>3. /\ acc \in 0 .. 2^AccumulatorBits - 1 /\ acc % 2^DigitBits = DigitOf(c)
        /\ \A r \in 1 .. 3 : Field(acc, (r - 1) * Unit, ByteBits)
             = Field((accumulator % 2^DigitBits) * 2^DigitBits + DigitOf(c),
                     (r - 1) * Unit, ByteBits)
    BY <1>1, <2>1, Turn
  <2> HIDE DEF acc, c
  <2>4. PICK r \in 0 .. 3 : bits_collected = r * Unit /\ 3 * i = 4 * Len(decoded) + r
    BY <1>1 DEF DecoderInv, CountInv
  <2>5. ReadInv'
    <3>1. \A k \in 1 .. i : input[k] # Bad
      BY <1>1 DEF DecoderInv, ReadInv
    <3>2. \A k \in 1 .. i + 1 : k \in 1 .. i \/ k = i + 1
      BY <1>1
    <3>3. \A k \in 1 .. i + 1 : input[k] # Bad
      BY <1>4, <3>1, <3>2 DEF c
    <3> QED BY <1>1, <2>2, <2>3, <3>3 DEF ReadInv, c
  <2>6. CASE r = 0
    <3>1. bits = 3 * Unit /\ ~(bits >= ByteBits) /\ bits \in 0 .. ByteBits - 1
      BY <2>4, <2>6, Widths
    <3>2. bits_collected' = 3 * Unit /\ decoded' = decoded
      BY <2>2, <3>1
    <3>3. 3 * i' = 4 * Len(decoded') + 3
      <4>1. 3 * i = 4 * Len(decoded)
        BY <1>1, <2>4, <2>6
      <4>2. 3 * (i + 1) = 4 * Len(decoded) + 3
        BY <1>1, <4>1
      <4> QED BY <2>2, <3>2, <4>2
    <3>4. CountInv'
      BY <1>1, <2>2, <3>2, <3>3 DEF CountInv
    <3>5. DecoderTypeOK'
      BY <1>1, <2>2, <2>3, <3>1, <3>2 DEF DecoderInv, DecoderTypeOK
    <3>6. WrittenInv'
      BY <1>1, <2>2, <3>2 DEF DecoderInv, WrittenInv
    <3> QED BY <2>2, <2>5, <3>4, <3>5, <3>6 DEF DecoderInv, StartInv, EndInv, LoopDecodes
  <2>7. CASE r # 0
    <3>1. PICK g \in Nat :
            /\ i = 4 * g + 4 - r /\ Len(decoded) + 1 = 3 * g + 4 - r
            /\ 4 * g + 4 <= Len(input)
            /\ 3 * (i + 1) = 4 * (Len(decoded) + 1) + (r - 1)
      <4>1. /\ Len(input) \in Nat /\ Len(input) % 4 = 0 /\ i \in 0 .. Len(input)
            /\ i < Len(input) /\ Len(decoded) \in Nat /\ 3 * i = 4 * Len(decoded) + r
        BY <1>1, <2>4
      <4>2. \E g \in Nat :
              /\ i = 4 * g + 4 - r /\ Len(decoded) + 1 = 3 * g + 4 - r
              /\ 4 * g + 4 <= Len(input)
              /\ 3 * (i + 1) = 4 * (Len(decoded) + 1) + (r - 1)
        BY <4>1, <2>7, GroupPlace, Zenon
      <4> QED BY <4>2
    <3>2. /\ bits >= ByteBits /\ bits - ByteBits = (r - 1) * Unit
          /\ (r - 1) * Unit \in 0 .. ByteBits - 1 /\ r - 1 \in 0 .. 3
      <4>1. CASE r = 1
        BY <2>4, <4>1, Widths
      <4>2. CASE r = 2
        BY <2>4, <4>2, Widths
      <4>3. CASE r = 3
        BY <2>4, <4>3, Widths
      <4> QED BY <2>7, <4>1, <4>2, <4>3
    <3> DEFINE byte == Field(acc, (r - 1) * Unit, ByteBits)
    <3>3. bits_collected' = (r - 1) * Unit /\ decoded' = Append(decoded, byte)
      BY <2>2, <3>2
    <3>4. byte \in Byte
      BY <2>3, <3>2, FieldType, DigitType
    <3>5. /\ decoded' \in Seq(Byte) /\ Len(decoded') = Len(decoded) + 1
          /\ \A j \in 1 .. Len(decoded) : decoded'[j] = decoded[j]
          /\ decoded'[Len(decoded) + 1] = byte
      BY <1>1, <3>3, <3>4, AppendProperties
    <3> HIDE DEF byte
    <3>6. CountInv'
      BY <1>1, <2>2, <3>1, <3>2, <3>3, <3>5 DEF CountInv
    <3>7. DecoderTypeOK'
      <4>1. Len(decoded') <= decoded_len + (IF PaddingOf(input) = 2 THEN 2 ELSE 1)
        <5>1. Len(decoded') <= 3 * (Len(input) \div 4)
          <6>1. PICK q \in Nat : q = Len(input) \div 4 /\ Len(input) = 4 * q
            BY <1>1
          <6>2. g + 1 <= q /\ Len(decoded') <= 3 * g + 3
            BY <2>7, <3>1, <3>5, <6>1
          <6> QED BY <6>1, <6>2
        <5> QED BY <1>1, <3>5, <5>1, PaddingRange
      <4>2. accumulator' \in 0 .. 2^AccumulatorBits - 1 /\ bits_collected' \in 0 .. ByteBits - 1
        BY <2>2, <2>3, <3>2, <3>3
      <4>3. i' \in 0 .. Len(input')
        <5>1. i' = i + 1 /\ input' = input
          BY <1>1, <2>2
        <5> QED BY <1>1, <5>1
      <4> QED BY <1>1, <2>2, <3>5, <4>1, <4>2, <4>3 DEF DecoderInv, DecoderTypeOK
    <3>8. WrittenInv'
      <4> SUFFICES ASSUME Decodes(input), NEW j \in 1 .. Len(decoded) + 1
                   PROVE  decoded'[j] = DecodedByte(input, j)
        BY <1>1, <2>2, <3>5 DEF WrittenInv
      <4>1. CASE j \in 1 .. Len(decoded)
        BY <1>1, <3>5, <4>1 DEF DecoderInv, WrittenInv
      <4>2. CASE j = Len(decoded) + 1
        <5>1. accumulator % 2^DigitBits = DigitOf(input[4 * g + 4 - r])
          <6>1. i > 0
            BY <2>7, <3>1
          <6> QED BY <1>1, <3>1, <6>1 DEF DecoderInv, ReadInv
        <5>2. c = input[4 * g + 5 - r]
          <6>1. i + 1 = 4 * g + 5 - r
            BY <3>1
          <6> QED BY <6>1 DEF c
        <5>3. r \in 1 .. 3
          BY <2>7
        <5>4. byte = Field(DigitOf(input[4 * g + 4 - r]) * 2^DigitBits
                             + DigitOf(input[4 * g + 5 - r]), (r - 1) * Unit, ByteBits)
          BY <2>3, <5>1, <5>2, <5>3 DEF byte
        <5>5. DecodedByte(input, 3 * g + 4 - r) = byte
          BY <1>1, <3>1, <5>3, <5>4, GroupByte
        <5> QED BY <3>1, <3>5, <4>2, <5>5
      <4> QED BY <1>1, <4>1, <4>2
    <3> QED BY <2>2, <2>5, <3>6, <3>7, <3>8 DEF DecoderInv, StartInv, EndInv, LoopDecodes
  <2> QED BY <2>6, <2>7
<1> QED BY <1>3, <1>4

\* A text cut after m bytes.
LEMMA CutBytes ==
  ASSUME NEW t \in Seq(Byte), NEW m \in Nat, m <= Len(t)
  PROVE  /\ SubSeq(t, 1, m) \in Seq(Byte) /\ Len(SubSeq(t, 1, m)) = m
         /\ \A j \in 1 .. m : SubSeq(t, 1, m)[j] = t[j]
OBVIOUS

\* When the loop ends every group is complete; the NUL is behind the decoding.
LEMMA TerminateStep == DecoderInv /\ Terminate => DecoderInv'
<1> SUFFICES ASSUME DecoderInv, Terminate PROVE DecoderInv'
  OBVIOUS
<1>1. /\ pc = "loop" /\ i = Len(input) /\ pc' = "done"
      /\ UNCHANGED <<input, i, accumulator, bits_collected, decoded_len>>
      /\ input \in Seq(Symbol) /\ decoded \in Seq(Byte) /\ decoded_len = DecodedLen(input)
      /\ Len(input) % 4 = 0 /\ Len(input) \in Nat /\ Len(decoded) \in Nat
  BY DEF DecoderInv, Terminate, DecoderTypeOK, CountInv
<1>2. PICK q \in Nat : q = Len(input) \div 4 /\ Len(input) = 4 * q
  BY <1>1
<1>3. Len(decoded) = 3 * q
  <2>1. PICK r \in 0 .. 3 : 3 * i = 4 * Len(decoded) + r
    BY <1>1 DEF DecoderInv, CountInv
  <2> QED BY <1>1, <1>2, <2>1
<1>4. PICK pad \in 0 .. 2 : pad = PaddingOf(input) /\ decoded_len = 3 * q - pad
                              /\ decoded_len \in 0 .. 3 * q
  BY <1>1, <1>2, PaddingRange
<1>5. PICK n \in Nat : /\ n = IF pad = 0 THEN 3 * q + 1 ELSE 3 * q
                       /\ 1 .. Len(decoded) \cup {decoded_len + 1} = 1 .. n
                       /\ decoded_len <= n
                       /\ n <= decoded_len + (IF pad = 2 THEN 2 ELSE 1)
  BY <1>3, <1>4
<1>6. decoded' = [j \in 1 .. n |-> IF j = decoded_len + 1 THEN 0 ELSE decoded[j]]
  BY <1>5 DEF Terminate
<1>7. \A j \in 1 .. n : j # decoded_len + 1 => j \in 1 .. Len(decoded)
  BY <1>5
<1>8. decoded' \in [1 .. n -> Byte]
  BY <1>1, <1>6, <1>7, DigitType
<1>9. decoded' \in Seq(Byte) /\ Len(decoded') = n
  BY <1>8
<1>10. Decodes(input)
  <2>1. \A k \in 1 .. Len(input) : input[k] # Bad
    BY <1>1 DEF DecoderInv, ReadInv
  <2> QED BY <1>1, <2>1 DEF Decodes
<1>11. SubSeq(decoded', 1, decoded_len) = Decoded(input)
  <2>1. \A j \in 1 .. decoded_len : decoded'[j] = DecodedByte(input, j) /\ decoded'[j] \in Byte
    <3>1. \A j \in 1 .. decoded_len : j \in 1 .. n /\ j # decoded_len + 1 /\ j \in 1 .. Len(decoded)
      BY <1>3, <1>4, <1>5
    <3>2. \A j \in 1 .. Len(decoded) : decoded[j] = DecodedByte(input, j)
      BY <1>1, <1>10 DEF DecoderInv, WrittenInv
    <3> QED BY <1>6, <1>8, <3>1, <3>2
  <2>2. PICK t \in Seq(Byte), m \in Nat :
          t = decoded' /\ m = decoded_len /\ m <= Len(t)
    BY <1>4, <1>5, <1>9
  <2>3. PICK s \in Seq(Byte) : /\ s = SubSeq(t, 1, m) /\ Len(s) = m
                               /\ \A j \in 1 .. m : s[j] = t[j]
    <3>1. m <= Len(t)
      BY <2>2
    <3> QED BY <3>1, CutBytes
  <2>4. /\ Decoded(input) \in Seq(Byte) /\ Len(Decoded(input)) = decoded_len
        /\ \A j \in 1 .. decoded_len : Decoded(input)[j] = DecodedByte(input, j)
    <3>1. Decoded(input) = [j \in 1 .. decoded_len |-> DecodedByte(input, j)]
      BY <1>1 DEF Decoded
    <3>2. \A j \in 1 .. decoded_len : DecodedByte(input, j) \in Byte
      BY <2>1
    <3>3. Decoded(input) \in [1 .. decoded_len -> Byte] /\ decoded_len \in Nat
      BY <1>4, <3>1, <3>2
    <3>4. Decoded(input) \in Seq(Byte) /\ Len(Decoded(input)) = decoded_len
      BY <3>3
    <3> QED BY <3>1, <3>4
  <2>5. Decoded(input) = s
    BY <2>1, <2>2, <2>3, <2>4, SeqEqual
  <2> QED BY <2>2, <2>3, <2>5
<1>12. DecoderTypeOK'
  BY <1>1, <1>4, <1>5, <1>9 DEF DecoderInv, DecoderTypeOK
<1>13. LoopDecodes'
  BY <1>1, <1>10, <1>11 DEF LoopDecodes
<1>14. EndInv'
  BY <1>1, <1>4, <1>5, <1>6, <1>9 DEF EndInv
<1> QED BY <1>1, <1>12, <1>13, <1>14 DEF DecoderInv, StartInv, CountInv, ReadInv, WrittenInv

\* A call and the end of one leave nothing to be said.
LEMMA CallStep ==
  ASSUME DecoderInv, Free \/ \E text \in Seq(Symbol) : Call(text)
  PROVE  DecoderInv'
<1>1. /\ pc' \in {"idle", "start"} /\ input' \in Seq(Symbol)
      /\ i' = 0 /\ accumulator' = 0 /\ bits_collected' = 0 /\ decoded_len' = 0 /\ decoded' = <<>>
  <2>1. CASE Free
    BY <2>1 DEF Free
  <2>2. CASE \E text \in Seq(Symbol) : Call(text)
    BY <2>2 DEF Call
  <2> QED BY <2>1, <2>2
<1>2. PaddingOf(input)' \in 0 .. 2
  BY <1>1 DEF PaddingOf
<1>3. DecoderTypeOK'
  BY <1>1, <1>2, DigitType, BitsAssumption DEF DecoderTypeOK
<1> QED BY <1>1, <1>3 DEF DecoderInv, StartInv, CountInv, ReadInv, WrittenInv, EndInv, LoopDecodes

-----------------------------------------------------------------------------
\* Encodings come back

\* Two divisions are one.
LEMMA DivOfDiv ==
  ASSUME NEW a \in Nat \ {0}, NEW s \in Nat \ {0}, NEW n \in Int
  PROVE  (n \div a) \div s = n \div (s*a)
<1>1. PICK q \in Int, r \in 0 .. a-1 : n = q*a + r /\ q = n \div a
  BY Division
<1>2. (q*a + r) \div (s*a) = q \div s
  BY DivOfSum, Zenon
<1> QED BY <1>1, <1>2

\* Four digits have the number they were cut from.
Regrouped(d, n) ==
  ((((n \div (d*d*d)) % d) * d + ((n \div (d*d)) % d)) * d + ((n \div d) % d)) * d + ((n \div 1) % d)

\* Cutting a number into digits and joining them again.
LEMMA Regroup ==
  ASSUME NEW d \in Nat \ {0}, NEW n \in Nat, n < (d*d*d)*d
  PROVE  Regrouped(d, n) = n
<1>1. PICK n1 \in Int, f0 \in 0 .. d-1 : n = n1*d + f0 /\ n1 = n \div d /\ f0 = n % d
  BY Division
<1>2. PICK n2 \in Int, f1 \in 0 .. d-1 : n1 = n2*d + f1 /\ n2 = n1 \div d /\ f1 = n1 % d
  BY Division
<1>3. PICK n3 \in Int, f2 \in 0 .. d-1 : n2 = n3*d + f2 /\ n3 = n2 \div d /\ f2 = n2 % d
  BY Division
<1>4. PICK dd \in Nat \ {0} : dd = d*d
  OBVIOUS
<1>5. n2 = n \div dd
  <2>0. n \in Int
    OBVIOUS
  <2>1. (n \div d) \div d = n \div (d*d)
    BY <2>0, DivOfDiv, Zenon
  <2> QED BY <1>1, <1>2, <1>4, <2>1
<1>6. n3 = n \div (d*dd)
  <2>0. n \in Int
    OBVIOUS
  <2>1. (n \div dd) \div d = n \div (d*dd)
    BY <2>0, DivOfDiv, Zenon
  <2> QED BY <1>3, <1>5, <2>1
<1>7. n3 % d = n3
  <2>1. n1 \in Nat /\ n2 \in Nat /\ n3 \in Nat
    <3>1. \A m \in Nat : m \div d \in Nat
      OBVIOUS
    <3> QED BY <1>1, <1>2, <1>3, <3>1
  <2>2. PICK k \in Nat \ {0} : k = d*d*d /\ k = d*dd
    BY <1>4
  <2>3. n3*k <= n
    <3>1. PICK q \in Int, r \in 0 .. k-1 : n = q*k + r /\ q = n \div k
      BY Division
    <3>2. n3 = q
      BY <1>6, <2>2, <3>1
    <3>3. PICK m \in Int : m = q*k
      OBVIOUS
    <3> QED BY <3>1, <3>2, <3>3
  <2>4. n3 < d
    <3>1. n3 >= d => n3*k >= k*d
      OBVIOUS
    <3> QED BY <2>2, <2>3, <3>1
  <2>5. n3 = 0*d + n3 /\ n3 \in 0 .. d-1
    BY <2>1, <2>4
  <2> QED BY <2>5, DivMod
<1>8. n \div 1 = n
  OBVIOUS
<1>9. (n3*d + f2)*d + f1 = n1
  BY <1>2, <1>3
<1>10. d*d*d = d*dd
  BY <1>4
<1> QED BY <1>1, <1>2, <1>3, <1>4, <1>5, <1>6, <1>7, <1>8, <1>9, <1>10 DEF Regrouped

\* Three bytes as one number, and back.
HoldsBytes(y, b1, b2, b3) ==
  LET n == b1 * (y*y) + b2 * y + b3
  IN /\ n \in Nat /\ n < (y*y)*y
     /\ (n \div (y*y)) % y = b1 /\ (n \div y) % y = b2 /\ (n \div 1) % y = b3

\* Three bytes can be taken from their number.
LEMMA ThreeBytes ==
  ASSUME NEW y \in Nat \ {0}, NEW b1 \in 0 .. y-1, NEW b2 \in 0 .. y-1, NEW b3 \in 0 .. y-1
  PROVE  HoldsBytes(y, b1, b2, b3)
<1>1. PICK yy \in Nat \ {0} : yy = y*y
  OBVIOUS
<1>2. PICK n \in Nat : n = b1 * yy + b2 * y + b3
  OBVIOUS
<1>3. PICK t \in Nat : t = b2*y + b3 /\ t < yy
  <2>1. (b2 + 1)*y <= y*y
    OBVIOUS
  <2>2. b2*y + b3 < (b2 + 1)*y
    OBVIOUS
  <2>3. b2*y + b3 \in Nat
    OBVIOUS
  <2> QED BY <1>1, <2>1, <2>2, <2>3
<1>4. n < yy*y
  <2>1. (b1 + 1)*yy <= yy*y
    OBVIOUS
  <2>2. b1*yy + t < (b1 + 1)*yy
    BY <1>3
  <2> QED BY <1>2, <1>3, <2>1, <2>2
<1>5. n = b1*yy + t /\ t \in 0 .. yy - 1
  BY <1>2, <1>3
<1>6. n \div yy = b1
  BY <1>5, DivMod
<1>7. PICK m \in Int : m = b1*y + b2
  OBVIOUS
<1>8. n = m*y + b3
  <2>1. m*y = b1*(y*y) + b2*y
    BY <1>7
  <2> QED BY <1>1, <1>2, <2>1
<1>9. n \div y = m /\ n % y = b3
  BY <1>8, DivMod
<1>10. m % y = b2
  BY <1>7, DivMod
<1>11. b1 % y = b1
  <2>1. b1 = 0*y + b1
    OBVIOUS
  <2> QED BY <2>1, DivMod
<1>12. n \div 1 = n
  OBVIOUS
<1> QED BY <1>1, <1>2, <1>4, <1>6, <1>9, <1>10, <1>11, <1>12 DEF HoldsBytes

\* Where a byte is missing, the digits that '=' stands for are 0.
LEMMA MissingBytes ==
  ASSUME NEW b \in Nat \ {0}, NEW d \in Nat \ {0}, NEW y \in Nat \ {0}, Scale(b, d, y),
         NEW b1 \in Nat, NEW b2 \in Nat
  PROVE  /\ (b1*(y*y) + b2*y) % d = 0
         /\ ((b1*(y*y)) \div d) % d = 0
<1>1. d = b*b*b /\ y = b*b*b*b
  BY DEF Scale
<1>2. b1*(y*y) + b2*y = ((b1*y + b2)*b)*d + 0
  <2>1. y = b*d
    BY <1>1
  <2>2. (b1*y + b2)*y = b1*(y*y) + b2*y
    OBVIOUS
  <2>3. (b1*y + b2)*(b*d) = ((b1*y + b2)*b)*d
    OBVIOUS
  <2> QED BY <2>1, <2>2, <2>3
<1>3. b1*(y*y) = (((b1*b)*b)*d)*d + 0
  <2>1. y*y = ((b*b)*d)*d
    BY <1>1
  <2>2. b1*(((b*b)*d)*d) = (((b1*b)*b)*d)*d
    OBVIOUS
  <2> QED BY <2>1, <2>2
<1>4. PICK u \in Int, v \in Int, w \in Int, z \in 0 .. d-1 :
        u = (b1*y + b2)*b /\ v = (b1*b)*b /\ w = v*d /\ z = 0
  OBVIOUS
<1>5. (u*d + z) % d = z
  BY DivMod, Zenon
<1>6. (w*d + z) \div d = w
  BY DivMod, Zenon
<1>7. (v*d + z) % d = z
  BY DivMod, Zenon
<1>8. v*d + z = w /\ b1*(y*y) = w*d + z /\ b1*(y*y) + b2*y = u*d + z
  BY <1>2, <1>3, <1>4
<1> QED BY <1>4, <1>5, <1>6, <1>7, <1>8

\* Byte k of a group that may have fewer.
ByteAt(bytes, k) == IF k <= Len(bytes) THEN bytes[k] ELSE 0

\* It is a byte.
LEMMA ByteAtType ==
  ASSUME NEW bytes \in Seq(Byte), NEW k \in Nat \ {0}
  PROVE  ByteAt(bytes, k) \in Byte
BY DigitType DEF ByteAt

\* Triple in these terms.
LEMMA TripleOfBytes ==
  ASSUME NEW bytes, NEW g
  PROVE  Triple(bytes, g) = ByteAt(bytes, 3 * g + 1) * 2^(2 * ByteBits)
                            + ByteAt(bytes, 3 * g + 2) * 2^ByteBits + ByteAt(bytes, 3 * g + 3)
BY DEF Triple, ByteAt

\* The fields of a digit.
LEMMA FourPowers ==
  ASSUME NEW d, d = 2^DigitBits
  PROVE  /\ d \in Nat \ {0}
         /\ \A n : Field(n, 3 * DigitBits, DigitBits) = (n \div (d*d*d)) % d
         /\ \A n : Field(n, 2 * DigitBits, DigitBits) = (n \div (d*d)) % d
         /\ \A n : Field(n, DigitBits, DigitBits) = (n \div d) % d
         /\ \A n : Field(n, 0, DigitBits) = (n \div 1) % d
<1>1. 2^(2 * DigitBits) = d*d
  <2>1. 2 * DigitBits = DigitBits + DigitBits /\ DigitBits \in Nat
    BY BitsAssumption
  <2> QED BY <2>1, PowSum
<1>2. 2^(3 * DigitBits) = d*d*d
  <2>1. 3 * DigitBits = 2 * DigitBits + DigitBits /\ DigitBits \in Nat /\ 2 * DigitBits \in Nat
    BY BitsAssumption
  <2> QED BY <1>1, <2>1, PowSum
<1>3. 2^0 = 1 /\ d \in Nat \ {0}
  BY DigitType
<1> QED BY <1>1, <1>2, <1>3 DEF Field

\* The digits of a text say the bytes, group by group.
Says(text, bytes) ==
  /\ Len(text) = EncodedLen(Len(bytes))
  /\ \A j \in 1 .. Len(text) :
       /\ text[j] # Bad
       /\ DigitOf(text[j])
            = Field(Triple(bytes, (j - 1) \div 4), (3 - ((j - 1) % 4)) * DigitBits, DigitBits)

\* A text that says the bytes decodes to them, and to NULs behind them.
LEMMA SaidBytes ==
  ASSUME NEW bytes \in Seq(Byte), NEW text \in Seq(Symbol), Says(text, bytes)
  PROVE  /\ Decodes(text) /\ Len(text) \div 4 = (Len(bytes) + 2) \div 3
         /\ \A j \in 1 .. 3 * (Len(text) \div 4) : DecodedByte(text, j) = ByteAt(bytes, j)
<1>1. Len(text) = 4 * ((Len(bytes) + 2) \div 3) /\ Len(bytes) \in Nat /\ Len(text) \in Nat
  BY DEF Says, EncodedLen
<1>2. Decodes(text) /\ Len(text) \div 4 = (Len(bytes) + 2) \div 3
  BY <1>1 DEF Says, Decodes
<1>3. ASSUME NEW j \in 1 .. 3 * (Len(text) \div 4)
      PROVE  DecodedByte(text, j) = ByteAt(bytes, j)
  <2>1. PICK g \in Nat, h \in 0 .. 2 :
          /\ g = (j - 1) \div 3 /\ h = (j - 1) % 3 /\ j = 3 * g + h + 1
          /\ 4 * g + 4 <= Len(text)
    <3>1. PICK q \in Nat : q = Len(text) \div 4 /\ Len(text) = 4 * q
      BY <1>1
    <3>2. j \in 1 .. 3 * q
      BY <3>1
    <3>3. PICK g \in Nat, h \in 0 .. 2 :
            g = (j - 1) \div 3 /\ h = (j - 1) % 3 /\ j = 3 * g + h + 1
      <4>1. PICK m \in Nat : m = j - 1
        BY <3>2
      <4>2. m \div 3 \in Nat /\ m % 3 \in 0 .. 2 /\ m = 3 * (m \div 3) + (m % 3)
        OBVIOUS
      <4> QED BY <4>1, <4>2
    <3>4. 4 * g + 4 <= 4 * q
      BY <3>2, <3>3
    <3> QED BY <3>1, <3>3, <3>4
  <2>2. PICK b \in Nat \ {0}, d \in Nat \ {0}, y \in Nat \ {0} :
          /\ b = B /\ d = 2^DigitBits /\ y = 2^ByteBits /\ d = b*b*b /\ y = b*b*b*b
          /\ 2^(2 * ByteBits) = y*y
    BY Powers, DigitType
  <2>3. PICK b1 \in 0 .. y-1, b2 \in 0 .. y-1, b3 \in 0 .. y-1 :
          /\ b1 = ByteAt(bytes, 3 * g + 1) /\ b2 = ByteAt(bytes, 3 * g + 2)
          /\ b3 = ByteAt(bytes, 3 * g + 3)
    <3>1. 3 * g + 1 \in Nat \ {0} /\ 3 * g + 2 \in Nat \ {0} /\ 3 * g + 3 \in Nat \ {0}
      OBVIOUS
    <3> QED BY <2>2, <3>1, ByteAtType DEF Byte
  <2>4. PICK n \in Nat :
          /\ n = b1 * (y*y) + b2 * y + b3 /\ n < (y*y)*y
          /\ (n \div (y*y)) % y = b1 /\ (n \div y) % y = b2 /\ (n \div 1) % y = b3
    <3>1. HoldsBytes(y, b1, b2, b3)
      BY ThreeBytes
    <3> QED BY <3>1 DEF HoldsBytes
  <2>5. Triple(bytes, g) = n
    BY <2>2, <2>3, <2>4, TripleOfBytes
  <2>6. Regrouped(d, n) = n
    <3>1. (y*y)*y = (d*d*d)*d
      BY <2>2
    <3> QED BY <2>4, <3>1, Regroup
  <2>7. /\ DigitOf(text[4 * g + 1]) = (n \div (d*d*d)) % d
        /\ DigitOf(text[4 * g + 2]) = (n \div (d*d)) % d
        /\ DigitOf(text[4 * g + 3]) = (n \div d) % d
        /\ DigitOf(text[4 * g + 4]) = (n \div 1) % d
    <3>1. \A k \in 0 .. 3 : DigitOf(text[4 * g + k + 1]) = Field(n, (3 - k) * DigitBits, DigitBits)
      <4> SUFFICES ASSUME NEW k \in 0 .. 3
                   PROVE  DigitOf(text[4 * g + k + 1]) = Field(n, (3 - k) * DigitBits, DigitBits)
        OBVIOUS
      <4>1. PICK m \in 1 .. Len(text) :
              m = 4 * g + k + 1 /\ (m - 1) \div 4 = g /\ (m - 1) % 4 = k
        BY <1>1, <2>1
      <4> QED BY <2>5, <4>1 DEF Says
    <3>2. /\ (3 - 0) * DigitBits = 3 * DigitBits /\ (3 - 1) * DigitBits = 2 * DigitBits
          /\ (3 - 2) * DigitBits = DigitBits /\ (3 - 3) * DigitBits = 0
      BY BitsAssumption
    <3>3. /\ DigitOf(text[4 * g + 0 + 1]) = Field(n, 3 * DigitBits, DigitBits)
          /\ DigitOf(text[4 * g + 1 + 1]) = Field(n, 2 * DigitBits, DigitBits)
          /\ DigitOf(text[4 * g + 2 + 1]) = Field(n, DigitBits, DigitBits)
          /\ DigitOf(text[4 * g + 3 + 1]) = Field(n, 0, DigitBits)
      BY <3>1, <3>2
    <3>4. /\ 4 * g + 0 + 1 = 4 * g + 1 /\ 4 * g + 1 + 1 = 4 * g + 2
          /\ 4 * g + 2 + 1 = 4 * g + 3 /\ 4 * g + 3 + 1 = 4 * g + 4
      OBVIOUS
    <3> QED BY <2>2, <3>3, <3>4, FourPowers
  <2>8. DecodedByte(text, j) = Field(n, (2 - h) * ByteBits, ByteBits)
    BY <2>1, <2>2, <2>6, <2>7 DEF DecodedByte, Regrouped
  <2>9. /\ Field(n, 2 * ByteBits, ByteBits) = b1 /\ Field(n, ByteBits, ByteBits) = b2
        /\ Field(n, 0, ByteBits) = b3
    BY <2>2, <2>4, ThreePowers
  <2>10. /\ (2 - 0) * ByteBits = 2 * ByteBits /\ (2 - 1) * ByteBits = ByteBits
         /\ (2 - 2) * ByteBits = 0
    BY BitsAssumption
  <2>11. CASE h = 0
    BY <2>1, <2>3, <2>8, <2>9, <2>10, <2>11
  <2>12. CASE h = 1
    BY <2>1, <2>3, <2>8, <2>9, <2>10, <2>12
  <2>13. CASE h = 2
    BY <2>1, <2>3, <2>8, <2>9, <2>10, <2>13
  <2> QED BY <2>11, <2>12, <2>13
<1> QED BY <1>2, <1>3

\* A field of a digit is a digit.
LEMMA DigitField ==
  ASSUME NEW bytes \in Seq(Byte), NEW g \in Nat, NEW s \in Nat
  PROVE  /\ Field(Triple(bytes, g), s, DigitBits) \in Digit
         /\ DigitOf(Field(Triple(bytes, g), s, DigitBits)) = Field(Triple(bytes, g), s, DigitBits)
         /\ Field(Triple(bytes, g), s, DigitBits) \notin {Pad, Bad}
<1>1. Triple(bytes, g) \in Int
  <2>1. 3 * g + 1 \in Nat \ {0} /\ 3 * g + 2 \in Nat \ {0} /\ 3 * g + 3 \in Nat \ {0}
    OBVIOUS
  <2>2. PICK b1 \in Nat, b2 \in Nat, b3 \in Nat :
          /\ b1 = ByteAt(bytes, 3 * g + 1) /\ b2 = ByteAt(bytes, 3 * g + 2)
          /\ b3 = ByteAt(bytes, 3 * g + 3)
    BY <2>1, ByteAtType DEF Byte
  <2>3. PICK y \in Nat, z \in Nat : y = 2^ByteBits /\ z = 2^(2 * ByteBits)
    BY Powers, DigitType
  <2>4. Triple(bytes, g) = b1 * z + b2 * y + b3
    BY <2>2, <2>3, TripleOfBytes, Zenon
  <2>5. b1 * z + b2 * y + b3 \in Int
    OBVIOUS
  <2> QED BY <2>4, <2>5
<1>2. PICK k \in Nat \ {0} : k = 2^s
  BY PowPositive
<1>3. PICK q \in Int : q = Triple(bytes, g) \div k
  BY <1>1, Division
<1>4. PICK d \in Nat \ {0} : d = 2^DigitBits
  BY DigitType
<1>5. q % d \in 0 .. d - 1
  BY Division
<1>6. Field(Triple(bytes, g), s, DigitBits) \in Digit
  BY <1>2, <1>3, <1>4, <1>5 DEF Field, Digit
<1>7. \A c \in Digit : c \notin {Pad, Bad} /\ DigitOf(c) = c
  BY DigitType DEF Pad, Bad, DigitOf
<1> QED BY <1>6, <1>7

\* Both encodings of bytes say them: what '=' stands for is 0, and what is there
\* instead in the program's own encoding is the digit 0.
LEMMA PadIsZero ==
  ASSUME NEW bytes \in Seq(Byte), NEW g \in Nat
  PROVE  /\ Len(bytes) < 3 * g + 3 => Field(Triple(bytes, g), 0, DigitBits) = 0
         /\ Len(bytes) < 3 * g + 2 => Field(Triple(bytes, g), DigitBits, DigitBits) = 0
<1>1. PICK b \in Nat \ {0}, d \in Nat \ {0}, y \in Nat \ {0} :
        /\ b = B /\ d = 2^DigitBits /\ y = 2^ByteBits /\ Scale(b, d, y)
        /\ 2^(2 * ByteBits) = y*y
  BY Powers, DigitType DEF Scale
<1>2. PICK b1 \in Nat, b2 \in Nat, b3 \in Nat :
        /\ b1 = ByteAt(bytes, 3 * g + 1) /\ b2 = ByteAt(bytes, 3 * g + 2)
        /\ b3 = ByteAt(bytes, 3 * g + 3)
  <2>1. 3 * g + 1 \in Nat \ {0} /\ 3 * g + 2 \in Nat \ {0} /\ 3 * g + 3 \in Nat \ {0}
    OBVIOUS
  <2> QED BY <2>1, ByteAtType DEF Byte
<1>3. /\ (b1*(y*y) + b2*y) % d = 0 /\ ((b1*(y*y)) \div d) % d = 0
  <2>1. Scale(b, d, y)
    BY <1>1
  <2>2. (b1*(y*y) + b2*y) % d = 0
    BY <2>1, MissingBytes, Zenon
  <2>3. ((b1*(y*y)) \div d) % d = 0
    BY <2>1, MissingBytes, Zenon
  <2> QED BY <2>2, <2>3
<1>4. PICK u \in Int, v \in Int : u = b1*(y*y) /\ v = b2*y
  OBVIOUS
<1>5. Triple(bytes, g) = u + v + b3
  BY <1>1, <1>2, <1>4, TripleOfBytes
<1>6. ASSUME Len(bytes) < 3 * g + 3
      PROVE  Field(Triple(bytes, g), 0, DigitBits) = 0
  <2>1. b3 = 0
    BY <1>2, <1>6 DEF ByteAt
  <2>2. Triple(bytes, g) = u + v
    BY <1>5, <2>1
  <2>3. (u + v) \div 1 = u + v
    OBVIOUS
  <2> QED BY <1>1, <1>3, <1>4, <2>2, <2>3, FourPowers
<1>7. ASSUME Len(bytes) < 3 * g + 2
      PROVE  Field(Triple(bytes, g), DigitBits, DigitBits) = 0
  <2>1. b3 = 0 /\ b2 = 0
    BY <1>2, <1>7 DEF ByteAt
  <2>2. v = 0
    BY <1>4, <2>1
  <2>3. Triple(bytes, g) = u
    BY <1>5, <2>1, <2>2
  <2> QED BY <1>1, <1>3, <1>4, <2>3, FourPowers
<1> QED BY <1>6, <1>7

\* The length of a text.
LEMMA EncodedSize ==
  ASSUME NEW n \in Nat
  PROVE  EncodedLen(n) \in Nat /\ EncodedLen(n) % 4 = 0
BY DEF EncodedLen

\* Where character j of a text is.
LEMMA CharacterPlace ==
  ASSUME NEW j \in Nat \ {0}
  PROVE  \E g \in Nat, k \in 0 .. 3 :
           j = 4 * g + k + 1 /\ (j - 1) \div 4 = g /\ (j - 1) % 4 = k
<1>1. PICK m \in Nat : m = j - 1
  OBVIOUS
<1>2. m \div 4 \in Nat /\ m % 4 \in 0 .. 3 /\ m = 4 * (m \div 4) + (m % 4)
  OBVIOUS
<1> QED BY <1>1, <1>2

\* What clients write says its bytes: '=' only stands where the digit is 0.
LEMMA PaddedSays ==
  ASSUME NEW bytes \in Seq(Byte)
  PROVE  /\ Padded(bytes) \in Seq(Symbol) /\ Says(Padded(bytes), bytes)
         /\ DecodedLen(Padded(bytes)) = Len(bytes)
<1> DEFINE text == Padded(bytes)
           n == Len(bytes)
<1>1. n \in Nat /\ EncodedLen(n) \in Nat
  BY EncodedSize
<1>2. text = [j \in 1 .. EncodedLen(n) |->
                LET g == (j - 1) \div 4
                    k == (j - 1) % 4
                IN IF (k = 2 /\ 3 * g + 3 > n + 1) \/ (k = 3 /\ 3 * g + 3 > n)
                   THEN Pad
                   ELSE Field(Triple(bytes, g), (3 - k) * DigitBits, DigitBits)]
  BY DEF Padded, EncodedWith
<1> HIDE DEF text
<1>3. ASSUME NEW j \in 1 .. EncodedLen(n)
      PROVE  /\ text[j] \in Symbol /\ text[j] # Bad
             /\ DigitOf(text[j])
                  = Field(Triple(bytes, (j - 1) \div 4), (3 - ((j - 1) % 4)) * DigitBits, DigitBits)
             /\ text[j] = Pad <=> \/ (j - 1) % 4 = 2 /\ 3 * ((j - 1) \div 4) + 3 > n + 1
                                  \/ (j - 1) % 4 = 3 /\ 3 * ((j - 1) \div 4) + 3 > n
  <2>1. PICK g \in Nat, k \in 0 .. 3 :
          j = 4 * g + k + 1 /\ (j - 1) \div 4 = g /\ (j - 1) % 4 = k
    <3>1. j \in Nat \ {0}
      BY <1>1
    <3> QED BY <3>1, CharacterPlace
  <2>2. PICK s \in Nat : s = (3 - k) * DigitBits /\ (k = 3 => s = 0) /\ (k = 2 => s = DigitBits)
    <3>1. CASE k = 0
      BY <3>1, BitsAssumption
    <3>2. CASE k = 1
      BY <3>2, BitsAssumption
    <3>3. CASE k = 2
      BY <3>3, BitsAssumption
    <3>4. CASE k = 3
      BY <3>4, BitsAssumption
    <3> QED BY <3>1, <3>2, <3>3, <3>4
  <2>3. text[j] = IF (k = 2 /\ 3 * g + 3 > n + 1) \/ (k = 3 /\ 3 * g + 3 > n)
                  THEN Pad ELSE Field(Triple(bytes, g), s, DigitBits)
    BY <1>2, <2>1, <2>2
  <2>4. /\ Field(Triple(bytes, g), s, DigitBits) \in Digit
        /\ DigitOf(Field(Triple(bytes, g), s, DigitBits)) = Field(Triple(bytes, g), s, DigitBits)
        /\ Field(Triple(bytes, g), s, DigitBits) \notin {Pad, Bad}
    BY DigitField
  <2>5. CASE k = 2 /\ 3 * g + 3 > n + 1
    <3>1. Field(Triple(bytes, g), DigitBits, DigitBits) = 0
      BY <1>1, <2>5, PadIsZero
    <3> QED BY <2>1, <2>2, <2>3, <2>5, <3>1 DEF Pad, Bad, Symbol, DigitOf
  <2>6. CASE k = 3 /\ 3 * g + 3 > n
    <3>1. Field(Triple(bytes, g), 0, DigitBits) = 0
      BY <1>1, <2>6, PadIsZero
    <3> QED BY <2>1, <2>2, <2>3, <2>6, <3>1 DEF Pad, Bad, Symbol, DigitOf
  <2>7. CASE ~(k = 2 /\ 3 * g + 3 > n + 1) /\ ~(k = 3 /\ 3 * g + 3 > n)
    <3>1. text[j] = Field(Triple(bytes, g), s, DigitBits)
      BY <2>3, <2>7
    <3> QED BY <2>1, <2>2, <2>4, <2>7, <3>1 DEF Symbol
  <2> QED BY <2>5, <2>6, <2>7
<1>4. text \in Seq(Symbol) /\ Len(text) = EncodedLen(n)
  <2>1. text \in [1 .. EncodedLen(n) -> Symbol]
    BY <1>2, <1>3
  <2> QED BY <1>1, <2>1
<1>5. Says(text, bytes)
  BY <1>3, <1>4 DEF Says
<1>6. DecodedLen(text) = n
  <2>1. PICK q \in Nat : q = (n + 2) \div 3 /\ 3 * q >= n /\ 3 * q <= n + 2 /\ EncodedLen(n) = 4 * q
    BY <1>1 DEF EncodedLen
  <2>2. CASE q = 0
    BY <1>1, <1>4, <2>1, <2>2 DEF DecodedLen, PaddingOf
  <2>3. CASE q > 0
    <3>1. /\ 4 * q \in 1 .. EncodedLen(n) /\ 4 * q - 1 \in 1 .. EncodedLen(n)
          /\ (4 * q - 1) \div 4 = q - 1 /\ (4 * q - 1) % 4 = 3
          /\ (4 * q - 1 - 1) \div 4 = q - 1 /\ (4 * q - 1 - 1) % 4 = 2
      BY <2>1, <2>3
    <3>2. text[4 * q] = Pad <=> 3 * (q - 1) + 3 > n
      BY <1>3, <3>1
    <3>3. text[4 * q - 1] = Pad <=> 3 * (q - 1) + 3 > n + 1
      <4>1. PICK j \in 1 .. EncodedLen(n) :
              j = 4 * q - 1 /\ (j - 1) \div 4 = q - 1 /\ (j - 1) % 4 = 2
        BY <3>1
      <4>2. text[j] = Pad <=> 3 * (q - 1) + 3 > n + 1
        BY <1>3, <4>1
      <4> QED BY <4>1, <4>2
    <3>4. PaddingOf(text) = 3 * q - n
      BY <1>1, <1>4, <2>1, <2>3, <3>2, <3>3 DEF PaddingOf
    <3>5. Len(text) \div 4 = q
      BY <1>4, <2>1
    <3> QED BY <1>1, <2>1, <3>4, <3>5 DEF DecodedLen
  <2> QED BY <2>1, <2>2, <2>3
<1> QED BY <1>4, <1>5, <1>6 DEF text

\* So does what the program's encoder writes, which has no '='.
LEMMA EncodeSays ==
  ASSUME NEW bytes \in Seq(Byte)
  PROVE  /\ base64_encode(bytes) \in Seq(Symbol) /\ Says(base64_encode(bytes), bytes)
         /\ DecodedLen(base64_encode(bytes)) = 3 * ((Len(bytes) + 2) \div 3)
<1> DEFINE text == base64_encode(bytes)
           n == Len(bytes)
<1>1. n \in Nat /\ EncodedLen(n) \in Nat
  BY EncodedSize
<1>2. text = [j \in 1 .. EncodedLen(n) |->
                LET g == (j - 1) \div 4
                    k == (j - 1) % 4
                    i2 == IF 3 * g + 3 < n THEN 3 * g + 3 ELSE n
                IN IF (k = 2 /\ i2 > n + 1) \/ (k = 3 /\ i2 > n)
                   THEN Pad
                   ELSE Field(Triple(bytes, g), (3 - k) * DigitBits, DigitBits)]
  BY DEF base64_encode, EncodedWith
<1> HIDE DEF text
<1>3. ASSUME NEW j \in 1 .. EncodedLen(n)
      PROVE  /\ text[j] \in Digit
             /\ text[j] # Bad /\ text[j] # Pad
             /\ DigitOf(text[j])
                  = Field(Triple(bytes, (j - 1) \div 4), (3 - ((j - 1) % 4)) * DigitBits, DigitBits)
  <2>1. PICK g \in Nat, k \in 0 .. 3 :
          j = 4 * g + k + 1 /\ (j - 1) \div 4 = g /\ (j - 1) % 4 = k
    <3>1. j \in Nat \ {0}
      BY <1>1
    <3> QED BY <3>1, CharacterPlace
  <2>2. PICK s \in Nat : s = (3 - k) * DigitBits
    <3>1. CASE k = 0
      BY <3>1, BitsAssumption
    <3>2. CASE k = 1
      BY <3>2, BitsAssumption
    <3>3. CASE k = 2
      BY <3>3, BitsAssumption
    <3>4. CASE k = 3
      BY <3>4, BitsAssumption
    <3> QED BY <3>1, <3>2, <3>3, <3>4
  <2>3. ~((IF 3 * g + 3 < n THEN 3 * g + 3 ELSE n) > n)
    BY <1>1
  <2>4. ~((IF 3 * g + 3 < n THEN 3 * g + 3 ELSE n) > n + 1)
    BY <1>1
  <2>5. text[j] = Field(Triple(bytes, g), s, DigitBits)
    BY <1>2, <2>1, <2>2, <2>3, <2>4
  <2>6. /\ Field(Triple(bytes, g), s, DigitBits) \in Digit
        /\ DigitOf(Field(Triple(bytes, g), s, DigitBits)) = Field(Triple(bytes, g), s, DigitBits)
        /\ Field(Triple(bytes, g), s, DigitBits) \notin {Pad, Bad}
    BY DigitField
  <2> QED BY <2>1, <2>2, <2>5, <2>6
<1>4. text \in Seq(Symbol) /\ Len(text) = EncodedLen(n)
  <2>1. text \in [1 .. EncodedLen(n) -> Symbol]
    BY <1>2, <1>3 DEF Symbol
  <2> QED BY <1>1, <2>1
<1>5. Says(text, bytes)
  BY <1>3, <1>4 DEF Says
<1>6. DecodedLen(text) = 3 * ((n + 2) \div 3)
  <2>1. \A j \in 1 .. Len(text) : text[j] # Pad
    BY <1>3, <1>4
  <2>2. PaddingOf(text) = 0
    BY <1>1, <1>4, <2>1 DEF PaddingOf
  <2>3. Len(text) \div 4 = (n + 2) \div 3
    BY <1>1, <1>4 DEF EncodedLen
  <2> QED BY <1>1, <2>2, <2>3 DEF DecodedLen
<1> QED BY <1>4, <1>5, <1>6 DEF text

-----------------------------------------------------------------------------
\* From a name and a password to its text and back

\* What a caller sees of bytes without a NUL that a NUL follows.
LEMMA CStringIs ==
  ASSUME NEW bytes \in Seq(Byte \ {0}), NEW s \in Seq(Byte), Len(bytes) + 1 \in DOMAIN s,
         \A j \in 1 .. Len(bytes) : s[j] = bytes[j], s[Len(bytes) + 1] = 0
  PROVE  CString(s) = bytes
<1> DEFINE n == Len(bytes)
           nuls == {k \in DOMAIN s : s[k] = 0}
<1>1. n \in Nat /\ n + 1 \in nuls /\ n <= Len(s) /\ nuls \subseteq Nat \ {0}
  OBVIOUS
<1>2. ASSUME NEW m \in nuls PROVE n + 1 <= m
  <2>1. \A j \in 1 .. n : bytes[j] # 0
    OBVIOUS
  <2> QED BY <1>1, <2>1
<1> HIDE DEF nuls
<1>3. (CHOOSE k \in nuls : \A m \in nuls : k <= m) = n + 1
  <2>1. \A k \in nuls : (\A m \in nuls : k <= m) => k = n + 1
    BY <1>1, <1>2
  <2> QED BY <1>1, <1>2, <2>1
<1>4. CString(s) = SubSeq(s, 1, n)
  <2>1. nuls # {}
    BY <1>1
  <2>2. CString(s) = SubSeq(s, 1, (CHOOSE k \in nuls : \A m \in nuls : k <= m) - 1)
    BY <2>1 DEF CString, nuls
  <2>3. n + 1 - 1 = n
    BY <1>1
  <2>4. PICK c : c = n + 1 /\ CString(s) = SubSeq(s, 1, c - 1)
    BY <1>3, <2>2, Zenon
  <2> QED BY <2>3, <2>4
<1>5. PICK t \in Seq(Byte) : /\ t = SubSeq(s, 1, n) /\ Len(t) = n
                             /\ \A j \in 1 .. n : t[j] = s[j]
  BY <1>1, CutBytes
<1>6. bytes \in Seq(Byte)
  OBVIOUS
<1>7. t = bytes
  BY <1>1, <1>5, <1>6, SeqEqual
<1> QED BY <1>4, <1>5, <1>7

\* What is sent for a name and a password.
LEMMA JoinedBytes ==
  ASSUME NEW u \in Names, NEW w \in Passwords
  PROVE  /\ Joined(Pair(u, w)) \in Seq(Byte \ {0})
         /\ Joined(Pair(u, w)) \in Seq(Byte)
<1>1. u \in Seq(Byte \ {0}) /\ w \in Seq(Byte \ {0}) /\ <<Colon>> \in Seq(Byte \ {0})
  BY TypedAssumption, SpecialAssumption
<1>2. Joined(Pair(u, w)) = u \o <<Colon>> \o w
  BY DEF Joined, Pair
<1> QED BY <1>1, <1>2

\* Every text that is given to base64_decode is one.
LEMMA ArrivingText ==
  ASSUME NEW r \in Requests, extract_basic_auth_b64(r).scheme = "basic"
  PROVE  extract_basic_auth_b64(r).text \in Seq(Symbol)
<1>1. \A h \in Headers \cup Others : h.scheme = "basic" => h.text \in Seq(Symbol)
  <2> SUFFICES ASSUME NEW h \in Headers \cup Others, h.scheme = "basic"
               PROVE  h.text \in Seq(Symbol)
    OBVIOUS
  <2>1. CASE h \in {Missing, Foreign}
    BY <2>1 DEF Missing, Foreign
  <2>2. CASE h \in Others
    BY <2>2, TypedAssumption DEF Others, Basic
  <2>3. CASE h \in {HeaderOf(Pair(u, w)) : u \in Names, w \in Passwords}
    <3>1. PICK u \in Names, w \in Passwords : h = HeaderOf(Pair(u, w))
      BY <2>3
    <3>2. h.text = Padded(Joined(Pair(u, w)))
      BY <3>1 DEF HeaderOf, Basic
    <3> QED BY <3>2, JoinedBytes, PaddedSays
  <2> QED BY <2>1, <2>2, <2>3 DEF Headers
<1>2. r.proxy \in Headers \cup Others /\ r.origin \in Headers \cup Others
  BY DEF Requests, Headers
<1> QED BY <1>1, <1>2 DEF extract_basic_auth_b64

\* The decoder's invariant holds through every request and every change of the
\* table.
LEMMA LoginInvariance == LoginSpec => []DecoderInv
<1>1. LoginInit => DecoderInv
  BY DecoderInitInv DEF LoginInit
<1>2. DecoderInv /\ [LoginNext]_login => DecoderInv'
  <2> SUFFICES ASSUME DecoderInv, [LoginNext]_login PROVE DecoderInv'
    OBVIOUS
  <2>1. CASE base64_decode
    BY <2>1, StartStep, NextDigitStep, TerminateStep DEF base64_decode
  <2>2. CASE Free \/ \E text \in Seq(Symbol) : Call(text)
    BY <2>2, CallStep
  <2>3. CASE UNCHANGED decoder
    <3>1. DecoderTypeOK'
      BY <2>3 DEF decoder, DecoderInv, DecoderTypeOK
    <3>2. StartInv' /\ CountInv' /\ ReadInv' /\ WrittenInv' /\ EndInv' /\ LoopDecodes'
      BY <2>3 DEF decoder, DecoderInv, StartInv, CountInv, ReadInv, WrittenInv, EndInv, LoopDecodes
    <3> QED BY <3>1, <3>2 DEF DecoderInv
  <2>4. CASE Arrives
    <3>1. CASE UNCHANGED decoder
      BY <2>3, <3>1
    <3>2. CASE ~UNCHANGED decoder
      <4>1. \E text \in Seq(Symbol) : Call(text)
        BY <2>4, <3>2, ArrivingText, Zenon DEF Arrives
      <4> QED BY <2>2, <4>1
    <3> QED BY <3>1, <3>2
  <2>5. CASE cmd_add \/ cmd_remove \/ UNCHANGED login
    BY <2>3, <2>5 DEF cmd_add, cmd_remove, login
  <2>6. CASE Decoding
    BY <2>1, <2>6 DEF Decoding
  <2>7. CASE Answers \/ Fails
    BY <2>2, <2>7 DEF Answers, has_valid_auth, Fails
  <2> QED BY <2>4, <2>5, <2>6, <2>7 DEF LoginNext
<1> QED BY <1>1, <1>2, PTL DEF LoginSpec

\* util.c:74-125: no byte is written past the allocation, whatever the text, but
\* for the one that a text ending in two '=' has too many; no number leaves its
\* width.
THEOREM DecoderTypeCorrect == LoginSpec => []DecoderTypeOK
<1>1. DecoderInv => DecoderTypeOK
  BY DEF DecoderInv
<1> QED BY LoginInvariance, <1>1, PTL

\* util.c:74-125: the loop computes the decoding of the text as a whole, for any
\* text and any widths, although its accumulator overflows, and returns NULL
\* exactly for the texts that have none.
THEOREM DecoderCorrect == LoginSpec => []LoopDecodes
<1>1. DecoderInv => LoopDecodes
  BY DEF DecoderInv
<1> QED BY LoginInvariance, <1>1, PTL

\* What stands in decoded when the text says the bytes.
LEMMA DecodedSaid ==
  ASSUME DecoderInv, pc = "done", NEW bytes \in Seq(Byte), Says(input, bytes)
  PROVE  /\ decoded \in Seq(Byte) /\ decoded_len \in Nat /\ decoded_len = DecodedLen(input)
         /\ decoded_len + 1 \in DOMAIN decoded /\ decoded[decoded_len + 1] = 0
         /\ \A j \in 1 .. decoded_len : decoded[j] = ByteAt(bytes, j)
<1>1. /\ decoded \in Seq(Byte) /\ input \in Seq(Symbol)
      /\ decoded_len \in 0 .. 3 * (Len(input) \div 4)
      /\ decoded_len = DecodedLen(input)
      /\ decoded_len + 1 \in DOMAIN decoded /\ decoded[decoded_len + 1] = 0
      /\ SubSeq(decoded, 1, decoded_len) = Decoded(input)
  BY DEF DecoderInv, DecoderTypeOK, EndInv, LoopDecodes
<1>2. \A j \in 1 .. decoded_len : decoded[j] = DecodedByte(input, j)
  <2>1. decoded_len \in Nat /\ decoded_len <= Len(decoded)
    BY <1>1
  <2>2. \A j \in 1 .. decoded_len : SubSeq(decoded, 1, decoded_len)[j] = decoded[j]
    BY <1>1, <2>1, CutBytes
  <2>3. \A j \in 1 .. decoded_len : Decoded(input)[j] = DecodedByte(input, j)
    BY <1>1 DEF Decoded
  <2> QED BY <1>1, <2>2, <2>3
<1>3. \A j \in 1 .. 3 * (Len(input) \div 4) : DecodedByte(input, j) = ByteAt(bytes, j)
  BY <1>1, SaidBytes
<1>4. \A j \in 1 .. decoded_len : j \in 1 .. 3 * (Len(input) \div 4)
  BY <1>1
<1> QED BY <1>1, <1>2, <1>3, <1>4

\* The invariant is enough for names and passwords to come back.
LEMMA ComesBack == DecoderInv => RoundTrip
<1> SUFFICES ASSUME DecoderInv, pc = "done", NEW u \in Names, NEW w \in Passwords,
                    NEW bytes, bytes = Joined(Pair(u, w))
             PROVE  /\ input = Padded(bytes) => SubSeq(decoded, 1, decoded_len) = bytes
                    /\ input \in {Padded(bytes), base64_encode(bytes)}
                         => CString(decoded) = bytes
  BY DEF RoundTrip
<1>1. bytes \in Seq(Byte \ {0}) /\ bytes \in Seq(Byte) /\ Len(bytes) \in Nat
  BY JoinedBytes
<1>2. \A j \in 1 .. Len(bytes) : ByteAt(bytes, j) = bytes[j]
  BY <1>1 DEF ByteAt
<1>3. ByteAt(bytes, Len(bytes) + 1) = 0
  BY <1>1 DEF ByteAt
<1>4. CASE input = Padded(bytes)
  <2>1. Says(input, bytes) /\ DecodedLen(input) = Len(bytes)
    BY <1>1, <1>4, PaddedSays
  <2>2. /\ decoded \in Seq(Byte) /\ decoded_len = Len(bytes)
        /\ Len(bytes) + 1 \in DOMAIN decoded /\ decoded[Len(bytes) + 1] = 0
        /\ \A j \in 1 .. Len(bytes) : decoded[j] = bytes[j]
    BY <1>1, <1>2, <2>1, DecodedSaid
  <2>3. CString(decoded) = bytes
    BY <1>1, <2>2, CStringIs
  <2>4. PICK t \in Seq(Byte) : /\ t = SubSeq(decoded, 1, decoded_len) /\ Len(t) = Len(bytes)
                               /\ \A j \in 1 .. Len(bytes) : t[j] = decoded[j]
    <3>1. Len(bytes) <= Len(decoded)
      BY <1>1, <2>2
    <3> QED BY <1>1, <2>2, <3>1, CutBytes
  <2>5. t = bytes
    BY <1>1, <2>2, <2>4, SeqEqual
  <2> QED BY <2>3, <2>4, <2>5
<1>5. CASE input = base64_encode(bytes) /\ input # Padded(bytes)
  <2>1. Says(input, bytes) /\ DecodedLen(input) = 3 * ((Len(bytes) + 2) \div 3)
    BY <1>1, <1>5, EncodeSays
  <2>2. /\ decoded \in Seq(Byte) /\ decoded_len = 3 * ((Len(bytes) + 2) \div 3)
        /\ decoded_len + 1 \in DOMAIN decoded /\ decoded[decoded_len + 1] = 0
        /\ \A j \in 1 .. decoded_len : decoded[j] = ByteAt(bytes, j)
    BY <1>1, <2>1, DecodedSaid
  <2>3. decoded_len \in Nat /\ decoded_len >= Len(bytes)
    BY <1>1, <2>2
  <2>4. \A j \in 1 .. Len(bytes) : decoded[j] = bytes[j]
    BY <1>1, <1>2, <2>2, <2>3
  <2>5. Len(bytes) + 1 \in DOMAIN decoded /\ decoded[Len(bytes) + 1] = 0
    <3>1. CASE decoded_len = Len(bytes)
      BY <2>2, <3>1
    <3>2. CASE decoded_len > Len(bytes)
      <4>1. Len(bytes) + 1 \in 1 .. decoded_len /\ Len(bytes) + 1 \in DOMAIN decoded
        BY <1>1, <2>2, <2>3, <3>2
      <4> QED BY <1>3, <2>2, <4>1
    <3> QED BY <1>1, <2>3, <3>1, <3>2
  <2> QED BY <1>1, <1>5, <2>2, <2>4, <2>5, CStringIs
<1> QED BY <1>4, <1>5

\* auth.c:14-34, util.c:38-125: whatever name and password an administrator has
\* typed, what a client makes of them comes back byte by byte, and what the
\* program's own encoder makes of them comes back as a C string, the encoder's
\* missing '=' being NULs behind it.
THEOREM EncodingComesBack == LoginSpec => []RoundTrip
BY LoginInvariance, ComesBack, PTL

-----------------------------------------------------------------------------
\* Who gets in

\* While a request is being served its own header is what is decoded.
HeaderInv ==
  pc # "idle" =>
    /\ request \in Requests /\ extract_basic_auth_b64(request).scheme = "basic"
    /\ input = extract_basic_auth_b64(request).text

\* The row is one that the table could take, and what was typed for it while the
\* statement carried that as it is.
RowInv ==
  /\ row # None => \E u \in Names, w \in Passwords :
       Len(u) <= MaxName /\ Len(w) <= MaxPassword /\ row = Pair(u, w)
  /\ added # None => row = added /\ Plain(added.username)

\* base64_decode leaves its argument alone and does not end the request.
LEMMA DecodingKeeps == base64_decode => pc # "idle" /\ input' = input
BY DEF base64_decode, Start, NextDigit, Terminate

\* Both hold through every request and every change of the table.
LEMMA ServedInvariance == LoginSpec => [](HeaderInv /\ RowInv)
<1>1. LoginInit => HeaderInv /\ RowInv
  BY DEF LoginInit, DecoderInit, HeaderInv, RowInv
<1>2. (HeaderInv /\ RowInv) /\ [LoginNext]_login => (HeaderInv /\ RowInv)'
  <2> SUFFICES ASSUME HeaderInv, RowInv, [LoginNext]_login PROVE HeaderInv' /\ RowInv'
    OBVIOUS
  <2>1. CASE cmd_add
    <3>1. HeaderInv'
      BY <2>1 DEF cmd_add, decoder, HeaderInv
    <3>2. PICK u \in Names, w \in Passwords :
            IF Plain(u) /\ Plain(w)
            THEN row' = Pair(u, w) /\ FitsColumns(row') /\ added' = row'
            ELSE row' \in {s \in Rows : FitsColumns(s)} /\ added' = None
      BY <2>1 DEF cmd_add
    <3>3. CASE Plain(u) /\ Plain(w)
      <4>1. row' = Pair(u, w) /\ FitsColumns(row') /\ added' = row'
        BY <3>2, <3>3
      <4>2. row'.username = u /\ row'.password = w
        BY <4>1 DEF Pair
      <4>3. Len(u) <= MaxName /\ Len(w) <= MaxPassword /\ Plain(row'.username)
        BY <3>3, <4>1, <4>2 DEF FitsColumns
      <4> QED BY <3>1, <4>1, <4>3 DEF RowInv
    <3>4. CASE ~(Plain(u) /\ Plain(w))
      <4>1. row' \in Rows /\ FitsColumns(row') /\ added' = None
        BY <3>2, <3>4
      <4>2. ASSUME row' # None
            PROVE  /\ row'.username \in Names /\ row'.password \in Passwords
                   /\ row' = Pair(row'.username, row'.password)
        BY <4>1, <4>2 DEF Rows, Pair
      <4> QED BY <3>1, <4>1, <4>2 DEF RowInv, FitsColumns
    <3> QED BY <3>1, <3>3, <3>4
  <2>2. CASE cmd_remove
    BY <2>2 DEF cmd_remove, decoder, HeaderInv, RowInv
  <2>3. CASE Arrives
    <3>1. RowInv'
      BY <2>3 DEF Arrives, RowInv
    <3>2. HeaderInv'
      BY <2>3 DEF Arrives, HeaderInv, Call, decoder
    <3> QED BY <3>1, <3>2
  <2>4. CASE Decoding
    BY <2>4, DecodingKeeps DEF Decoding, HeaderInv, RowInv
  <2>5. CASE Answers \/ Fails
    BY <2>5 DEF Answers, has_valid_auth, Fails, Free, HeaderInv, RowInv
  <2>6. CASE UNCHANGED login
    BY <2>6 DEF login, decoder, HeaderInv, RowInv
  <2> QED BY <2>1, <2>2, <2>3, <2>4, <2>5, <2>6 DEF LoginNext
<1> QED BY <1>1, <1>2, PTL DEF LoginSpec

\* extract_basic_auth_b64 and Own take the same header.
LEMMA OwnHeader ==
  ASSUME NEW r \in Requests
  PROVE  extract_basic_auth_b64(r) = Own(r)
<1>1. \A h \in Headers \cup Others : h.scheme = "missing" <=> h = Missing
  <2> SUFFICES ASSUME NEW h \in Headers \cup Others
               PROVE  h.scheme = "missing" <=> h = Missing
    OBVIOUS
  <2>1. CASE h \in {Missing, Foreign}
    BY <2>1 DEF Missing, Foreign
  <2>2. CASE h \in Others
    BY <2>2 DEF Others, Basic, Missing
  <2>3. CASE h \in {HeaderOf(Pair(u, w)) : u \in Names, w \in Passwords}
    BY <2>3 DEF HeaderOf, Basic, Missing
  <2> QED BY <2>1, <2>2, <2>3 DEF Headers
<1>2. r.proxy \in Headers \cup Others
  BY DEF Requests
<1> QED BY <1>1, <1>2 DEF extract_basic_auth_b64, Own

\* A set of places that is not empty has a first one.
LEMMA FirstExists ==
  ASSUME NEW S, S \subseteq Nat, S # {}
  PROVE  /\ (CHOOSE k \in S : \A m \in S : k <= m) \in S
         /\ \A m \in S : (CHOOSE k \in S : \A j \in S : k <= j) <= m
<1>1. PICK k \in S : \A m \in S : ~(<<m, k>> \in OpToRel(<, Nat))
  BY NatLessThanWellFounded, WFMin
<1>2. \A m \in S : k <= m
  <2> SUFFICES ASSUME NEW m \in S, m < k
               PROVE  FALSE
    OBVIOUS
  <2>1. <<m, k>> \in {ss \in Nat \X Nat : ss[1] < ss[2]}
    OBVIOUS
  <2> QED BY <1>1, <2>1, Zenon DEF OpToRel
<1> QED BY <1>2

\* The first place is the only one of its kind.
LEMMA FirstIs ==
  ASSUME NEW S, S \subseteq Nat, NEW n \in S, \A m \in S : n <= m
  PROVE  (CHOOSE k \in S : \A m \in S : k <= m) = n
<1>1. \A k \in S : (\A m \in S : k <= m) => k = n
  OBVIOUS
<1> QED BY <1>1

\* The part behind a place of a text.
LEMMA Behind ==
  ASSUME NEW s \in Seq(Byte), NEW k \in Nat, k <= Len(s)
  PROVE  /\ SubSeq(s, k + 1, Len(s)) \in Seq(Byte)
         /\ Len(SubSeq(s, k + 1, Len(s))) = Len(s) - k
         /\ \A j \in 1 .. Len(s) - k : SubSeq(s, k + 1, Len(s))[j] = s[k + j]
<1>1. k + 1 \in Int /\ Len(s) \in Int /\ \A i0 \in k + 1 .. Len(s) : s[i0] \in Byte
  OBVIOUS
<1>2. /\ SubSeq(s, k + 1, Len(s)) \in Seq(Byte)
      /\ Len(SubSeq(s, k + 1, Len(s))) = IF k + 1 <= Len(s) THEN Len(s) - (k + 1) + 1 ELSE 0
      /\ \A j \in 1 .. Len(s) - (k + 1) + 1 : SubSeq(s, k + 1, Len(s))[j] = s[k + 1 + j - 1]
  BY <1>1, SubSeqProperties
<1>3. Len(s) - (k + 1) + 1 = Len(s) - k
  OBVIOUS
<1>4. \A j \in 1 .. Len(s) - k : k + 1 + j - 1 = k + j
  OBVIOUS
<1> QED BY <1>2, <1>3, <1>4

\* A prefix, place by place.
LEMMA PrefixByPlaces ==
  ASSUME NEW s \in Seq(Byte), NEW t \in Seq(Byte), Len(s) <= Len(t),
         \A j \in 1 .. Len(s) : s[j] = t[j]
  PROVE  IsPrefix(s, t)
<1>1. Len(s) \in Nat
  OBVIOUS
<1>2. PICK a \in Seq(Byte) : /\ a = SubSeq(s, 1, Len(s)) /\ Len(a) = Len(s)
                             /\ \A j \in 1 .. Len(s) : a[j] = s[j]
  BY <1>1, CutBytes
<1>3. PICK b \in Seq(Byte) : /\ b = SubSeq(t, 1, Len(s)) /\ Len(b) = Len(s)
                             /\ \A j \in 1 .. Len(s) : b[j] = t[j]
  BY <1>1, CutBytes
<1>4. a = b
  BY <1>2, <1>3, SeqEqual
<1> QED BY <1>2, <1>3, <1>4 DEF IsPrefix

\* A field ends within the text, at a byte of its own.
LEMMA SpanRange ==
  ASSUME NEW bytes \in Seq(Byte), NEW byte
  PROVE  Span(bytes, byte) \in 0 .. Len(bytes)
<1> DEFINE stops == {k \in DOMAIN bytes : bytes[k] = byte \/ k > MaxField}
<1>1. stops \subseteq 1 .. Len(bytes) /\ stops \subseteq Nat /\ Len(bytes) \in Nat
  OBVIOUS
<1>2. Span(bytes, byte) = IF stops = {} THEN Len(bytes)
                          ELSE (CHOOSE k \in stops : \A m \in stops : k <= m) - 1
  BY DEF Span
<1> HIDE DEF stops
<1>3. CASE stops = {}
  BY <1>1, <1>2, <1>3
<1>4. CASE stops # {}
  <2>1. PICK c \in stops : c = CHOOSE k \in stops : \A m \in stops : k <= m
    BY <1>1, <1>4, FirstExists
  <2>2. Span(bytes, byte) = c - 1
    BY <1>2, <1>4, <2>1, Zenon
  <2> QED BY <1>1, <2>2
<1> QED BY <1>3, <1>4

\* A field that is followed by the byte it ends at is the part in front of it.
LEMMA SpanUpTo ==
  ASSUME NEW bytes \in Seq(Byte), NEW byte, NEW n \in Nat, n <= Len(bytes), n <= MaxField,
         \A j \in 1 .. n : bytes[j] # byte,
         n < Len(bytes) => bytes[n + 1] = byte
  PROVE  Span(bytes, byte) = n
<1> DEFINE stops == {k \in DOMAIN bytes : bytes[k] = byte \/ k > MaxField}
<1>1. stops \subseteq 1 .. Len(bytes) /\ stops \subseteq Nat /\ Len(bytes) \in Nat
  OBVIOUS
<1>2. Span(bytes, byte) = IF stops = {} THEN Len(bytes)
                          ELSE (CHOOSE k \in stops : \A m \in stops : k <= m) - 1
  BY DEF Span
<1>3. \A k \in stops : n + 1 <= k
  <2> SUFFICES ASSUME NEW k \in stops, k <= n PROVE FALSE
    BY <1>1
  <2>1. k \in 1 .. n /\ ~(k > MaxField)
    BY <1>1, MaxAssumption
  <2> QED BY <2>1
<1>4. n < Len(bytes) => n + 1 \in stops
  BY <1>1
<1> HIDE DEF stops
<1>5. CASE n = Len(bytes)
  <2>1. stops = {}
    BY <1>1, <1>3, <1>5
  <2> QED BY <1>2, <1>5, <2>1
<1>6. CASE n < Len(bytes)
  <2>1. n + 1 \in stops
    BY <1>4, <1>6
  <2>2. (CHOOSE k \in stops : \A m \in stops : k <= m) = n + 1
    BY <1>1, <1>3, <2>1, FirstIs
  <2>3. Span(bytes, byte) = (CHOOSE k \in stops : \A m \in stops : k <= m) - 1
    BY <1>2, <2>1
  <2>4. PICK c : c = n + 1 /\ Span(bytes, byte) = c - 1
    BY <2>2, <2>3, Zenon
  <2> QED BY <2>4
<1> QED BY <1>5, <1>6

\* The caller sees the decoded bytes up to a NUL, which is at their end at the
\* latest.
LEMMA CStringCut ==
  ASSUME NEW s \in Seq(Byte), NEW m \in Nat, m + 1 \in DOMAIN s, s[m + 1] = 0
  PROVE  \E l \in 0 .. m : CString(s) = SubSeq(s, 1, l)
<1> DEFINE nuls == {k \in DOMAIN s : s[k] = 0}
<1>1. m + 1 \in nuls /\ nuls \subseteq Nat \ {0} /\ nuls # {}
  OBVIOUS
<1>2. CString(s) = SubSeq(s, 1, (CHOOSE k \in nuls : \A j \in nuls : k <= j) - 1)
  BY <1>1 DEF CString
<1> HIDE DEF nuls
<1>3. PICK c \in nuls :
        c = (CHOOSE k \in nuls : \A j \in nuls : k <= j) /\ \A j \in nuls : c <= j
  BY <1>1, FirstExists
<1>4. CString(s) = SubSeq(s, 1, c - 1)
  BY <1>2, <1>3, Zenon
<1>5. c - 1 \in 0 .. m
  <2>1. c \in Nat \ {0} /\ c <= m + 1
    BY <1>1, <1>3
  <2> QED BY <2>1
<1> QED BY <1>4, <1>5

\* The name stands at the front of the bytes, with a colon behind it, and the
\* password somewhere behind the colon, after k bytes.
Found(bytes, name, k, password) ==
  /\ Len(name) + 1 <= k /\ k + Len(password) <= Len(bytes)
  /\ bytes[Len(name) + 1] = Colon
  /\ \A j \in 1 .. Len(name) : name[j] = bytes[j]
  /\ \A j \in 1 .. Len(password) : password[j] = bytes[k + j]

\* What sscanf finds does.
LEMMA ScanFinds ==
  ASSUME NEW bytes \in Seq(Byte), Scan(bytes) # None
  PROVE  \E name \in Seq(Byte), k \in Nat, password \in Seq(Byte) :
           Scan(bytes) = Pair(name, password) /\ Found(bytes, name, k, password)
<1> DEFINE n == Span(bytes, Colon)
           behind == SubSeq(bytes, n + 2, Len(bytes))
           words == {k \in DOMAIN behind : behind[k] # Space}
           word == Unspaced(behind)
           l == Span(word, Space)
<1>1. /\ n # 0 /\ n # Len(bytes) /\ word # <<>> /\ bytes[n + 1] = Colon
      /\ Scan(bytes) = Pair(SubSeq(bytes, 1, n), SubSeq(word, 1, l))
  BY DEF Scan
<1>2. n \in Nat /\ n + 1 <= Len(bytes) /\ Len(bytes) \in Nat
  <2>1. n \in 0 .. Len(bytes) /\ Len(bytes) \in Nat
    BY SpanRange
  <2> HIDE DEF n
  <2> QED BY <1>1, <2>1
<1> HIDE DEF n
<1>3. /\ behind \in Seq(Byte) /\ Len(behind) = Len(bytes) - (n + 1)
      /\ \A j \in 1 .. Len(behind) : behind[j] = bytes[n + 1 + j]
  <2>1. PICK c \in Nat : c = n + 1 /\ c <= Len(bytes) /\ c + 1 = n + 2
    BY <1>2
  <2>2. /\ SubSeq(bytes, c + 1, Len(bytes)) \in Seq(Byte)
        /\ Len(SubSeq(bytes, c + 1, Len(bytes))) = Len(bytes) - c
        /\ \A j \in 1 .. Len(bytes) - c : SubSeq(bytes, c + 1, Len(bytes))[j] = bytes[c + j]
    BY <2>1, Behind
  <2> QED BY <2>1, <2>2
<1> HIDE DEF behind
<1>4. words \subseteq 1 .. Len(behind) /\ words \subseteq Nat /\ words # {}
  <2>1. words # {}
    BY <1>1 DEF Unspaced
  <2> QED BY <1>3, <2>1
<1>5. word = SubSeq(behind, CHOOSE k \in words : \A m \in words : k <= m, Len(behind))
  BY <1>4, Zenon DEF Unspaced
<1> HIDE DEF words, word
<1>6. PICK k0 \in words : k0 = CHOOSE k \in words : \A m \in words : k <= m
  BY <1>4, FirstExists
<1>7. PICK k1 \in Nat : k1 + 1 = k0 /\ k1 <= Len(behind)
  <2>1. k0 \in 1 .. Len(behind) /\ Len(behind) \in Nat
    BY <1>3, <1>4
  <2>2. k0 - 1 \in Nat /\ (k0 - 1) + 1 = k0 /\ k0 - 1 <= Len(behind)
    BY <2>1
  <2> QED BY <2>2
<1>8. /\ word \in Seq(Byte) /\ Len(word) = Len(behind) - k1
      /\ \A j \in 1 .. Len(behind) - k1 : word[j] = behind[k1 + j]
  <2>1. word = SubSeq(behind, k1 + 1, Len(behind))
    BY <1>5, <1>6, <1>7, Zenon
  <2>2. behind \in Seq(Byte) /\ k1 \in Nat /\ k1 <= Len(behind)
    BY <1>3, <1>7
  <2> QED BY <2>1, <2>2, Behind
<1>9. l \in Nat /\ l <= Len(word)
  BY <1>8, SpanRange
<1> HIDE DEF l
<1>10. PICK name \in Seq(Byte) : /\ name = SubSeq(bytes, 1, n) /\ Len(name) = n
                                 /\ \A j \in 1 .. n : name[j] = bytes[j]
  <2>1. n <= Len(bytes)
    BY <1>2
  <2> QED BY <1>2, <2>1, CutBytes
<1>11. PICK password \in Seq(Byte) : /\ password = SubSeq(word, 1, l) /\ Len(password) = l
                                     /\ \A j \in 1 .. l : password[j] = word[j]
  BY <1>8, <1>9, CutBytes
<1>12. PICK k \in Nat : k = n + 1 + k1 /\ n + 1 <= k /\ k + l <= Len(bytes)
  <2>1. n + 1 + k1 + l <= Len(bytes) /\ n + 1 <= n + 1 + k1 /\ n + 1 + k1 \in Nat
    BY <1>2, <1>3, <1>7, <1>8, <1>9
  <2> QED BY <2>1
<1>13. \A j \in 1 .. l : password[j] = bytes[k + j]
  <2> SUFFICES ASSUME NEW j \in 1 .. l PROVE password[j] = bytes[k + j]
    OBVIOUS
  <2>1. j \in 1 .. Len(behind) - k1 /\ k1 + j \in 1 .. Len(behind) /\ n + 1 + (k1 + j) = k + j
    BY <1>2, <1>3, <1>7, <1>8, <1>9, <1>12
  <2> QED BY <1>3, <1>8, <1>11, <2>1
<1>14. Found(bytes, name, k, password)
  BY <1>1, <1>2, <1>9, <1>10, <1>11, <1>12, <1>13 DEF Found
<1>15. Scan(bytes) = Pair(name, password)
  BY <1>1, <1>10, <1>11
<1> QED BY <1>14, <1>15

\* auth.c:33-40, 55-92, 120-145: for any names, passwords, widths, texts and
\* collation, who is let through with a name that the SELECT carries as it is has
\* sent the row's name and password in the header that is its own.
THEOREM NobodyElseGetsIn == LoginSpec => GrantedWasSent
<1>1. ASSUME DecoderInv, HeaderInv, RowInv, [LoginNext]_login, Answers, granted',
             Plain(get_user_from_b64.username)
      PROVE  row # None /\ Sent
  <2>0. PICK user : /\ user = get_user_from_b64 /\ user # None /\ row # None
                    /\ SameName(user.username, row.username) /\ user.password = row.password
    BY <1>1 DEF Answers, has_valid_auth, Valid
  <2>1. pc = "done" /\ user = Scan(CString(decoded))
    BY <2>0 DEF get_user_from_b64
  <2>2. /\ request \in Requests /\ Own(request).scheme = "basic"
        /\ input = Own(request).text
    BY <1>1, <2>1, OwnHeader DEF HeaderInv
  <2>3. /\ decoded \in Seq(Byte) /\ decoded_len \in Nat
        /\ decoded_len + 1 \in DOMAIN decoded /\ decoded[decoded_len + 1] = 0
        /\ SubSeq(decoded, 1, decoded_len) = Decoded(input)
    BY <1>1, <2>1 DEF DecoderInv, DecoderTypeOK, EndInv, LoopDecodes
  <2>4. PICK claimed \in Seq(Byte) :
          /\ claimed = Decoded(input) /\ Len(claimed) = decoded_len
          /\ \A j \in 1 .. decoded_len : claimed[j] = decoded[j]
    <3>1. decoded_len <= Len(decoded)
      BY <2>3
    <3> QED BY <2>3, <3>1, CutBytes
  <2>5. PICK m \in 0 .. decoded_len : CString(decoded) = SubSeq(decoded, 1, m)
    BY <2>3, CStringCut
  <2>6. PICK bytes \in Seq(Byte) : /\ bytes = CString(decoded) /\ Len(bytes) = m
                                   /\ \A j \in 1 .. m : bytes[j] = claimed[j]
    <3>1. m \in Nat /\ m <= Len(decoded)
      BY <2>3
    <3>2. \A j \in 1 .. m : j \in 1 .. decoded_len
      BY <2>3
    <3>3. PICK bytes \in Seq(Byte) : /\ bytes = SubSeq(decoded, 1, m) /\ Len(bytes) = m
                                     /\ \A j \in 1 .. m : bytes[j] = decoded[j]
      BY <2>3, <3>1, CutBytes
    <3> QED BY <2>4, <2>5, <3>2, <3>3
  <2>7. PICK name \in Seq(Byte), k \in Nat, password \in Seq(Byte) :
          user = Pair(name, password) /\ Found(bytes, name, k, password)
    <3>1. Scan(bytes) # None /\ user = Scan(bytes)
      BY <2>0, <2>1, <2>6
    <3> QED BY <3>1, ScanFinds
  <2>8. SameName(name, row.username) /\ row.password = password
    BY <2>0, <2>7 DEF Pair
  <2>9. PICK n \in Nat, l \in Nat :
          /\ Len(name) = n /\ Len(password) = l
          /\ n + 1 <= k /\ k + l <= m
          /\ bytes[n + 1] = Colon
          /\ \A j \in 1 .. n : name[j] = bytes[j]
          /\ \A j \in 1 .. l : password[j] = bytes[k + j]
    <3>1. PICK n \in Nat, l \in Nat : n = Len(name) /\ l = Len(password)
      OBVIOUS
    <3> QED BY <2>6, <2>7, <3>1 DEF Found
  <2>10. PICK front \in Seq(Byte) :
          /\ front = name \o <<Colon>> /\ Len(front) = n + 1
          /\ \A j \in 1 .. n + 1 : front[j] = IF j <= n THEN name[j] ELSE Colon
    <3>1. <<Colon>> \in Seq(Byte) /\ Len(<<Colon>>) = 1 /\ <<Colon>>[1] = Colon
      BY SpecialAssumption
    <3>2. /\ name \o <<Colon>> \in Seq(Byte) /\ Len(name \o <<Colon>>) = n + 1
          /\ \A j \in 1 .. n + 1 :
               (name \o <<Colon>>)[j] = IF j <= n THEN name[j] ELSE <<Colon>>[j - n]
      BY <2>9, <3>1, ConcatProperties
    <3>3. \A j \in 1 .. n + 1 : j <= n \/ (j > n /\ j - n = 1)
      BY <2>9
    <3>4. \A j \in 1 .. n + 1 : (name \o <<Colon>>)[j] = IF j <= n THEN name[j] ELSE Colon
      BY <3>1, <3>2, <3>3
    <3> QED BY <3>2, <3>4
  <2>11. IsPrefix(front, claimed)
    <3>1. n + 1 <= Len(claimed) /\ \A j \in 1 .. n + 1 : j \in 1 .. m
      BY <2>3, <2>4, <2>9
    <3>2. \A j \in 1 .. n + 1 : front[j] = claimed[j]
      <4> SUFFICES ASSUME NEW j \in 1 .. n + 1 PROVE front[j] = claimed[j]
        OBVIOUS
      <4>1. bytes[j] = claimed[j]
        BY <2>6, <3>1
      <4>2. CASE j <= n
        <5>1. j \in 1 .. n
          BY <2>9, <4>2
        <5> QED BY <2>9, <2>10, <4>1, <4>2, <5>1
      <4>3. CASE j = n + 1
        <5>1. ~(j <= n)
          BY <2>9, <4>3
        <5>2. front[j] = Colon /\ bytes[j] = Colon
          BY <2>9, <2>10, <4>3, <5>1
        <5> QED BY <4>1, <5>2
      <4>4. j <= n \/ j = n + 1
        BY <2>9
      <4> QED BY <4>2, <4>3, <4>4
    <3> QED BY <2>10, <3>1, <3>2, PrefixByPlaces
  <2>12. IsPrefix(password, SubSeq(claimed, k + 1, Len(claimed)))
    <3>1. k <= Len(claimed) /\ l <= Len(claimed) - k
      BY <2>3, <2>4, <2>9
    <3>2. PICK t \in Seq(Byte) :
            /\ t = SubSeq(claimed, k + 1, Len(claimed)) /\ Len(t) = Len(claimed) - k
            /\ \A j \in 1 .. Len(claimed) - k : t[j] = claimed[k + j]
      BY <2>9, <3>1, Behind
    <3>3. \A j \in 1 .. l : password[j] = t[j]
      <4> SUFFICES ASSUME NEW j \in 1 .. l PROVE password[j] = t[j]
        OBVIOUS
      <4>1. k + j \in 1 .. m /\ j \in 1 .. Len(claimed) - k
        BY <2>4, <2>9, <3>1
      <4> QED BY <2>6, <2>9, <3>2, <4>1
    <3> QED BY <2>9, <3>1, <3>2, <3>3, PrefixByPlaces
  <2>13. k \in Len(name) + 1 .. Len(claimed)
    BY <2>3, <2>4, <2>9
  <2>14. n \in 0 .. Len(claimed) /\ name = SubSeq(claimed, 1, n)
    <3>1. n <= Len(claimed) /\ \A j \in 1 .. n : j \in 1 .. m
      BY <2>3, <2>4, <2>9
    <3>2. PICK cut \in Seq(Byte) : /\ cut = SubSeq(claimed, 1, n) /\ Len(cut) = n
                                   /\ \A j \in 1 .. n : cut[j] = claimed[j]
      BY <3>1, CutBytes
    <3>3. \A j \in 1 .. n : cut[j] = name[j]
      BY <2>6, <2>9, <3>1, <3>2
    <3>4. cut = name
      BY <2>9, <3>2, <3>3, SeqEqual
    <3> QED BY <3>1, <3>2, <3>4
  <2>15. \E k0 \in Len(name) + 1 .. Len(claimed) :
           IsPrefix(row.password, SubSeq(claimed, k0 + 1, Len(claimed)))
    BY <2>8, <2>12, <2>13
  <2>16. name \in {SubSeq(claimed, 1, n0) : n0 \in 0 .. Len(claimed)}
    BY <2>14
  <2>17. IsPrefix(name \o <<Colon>>, claimed)
    BY <2>10, <2>11
  <2>18. claimed = Decoded(Own(request).text)
    BY <2>2, <2>4
  <2>19. Sent
    BY <2>2, <2>8, <2>15, <2>16, <2>17, <2>18, Zenon DEF Sent
  <2> QED BY <2>0, <2>19
<1>2. DecoderInv /\ (HeaderInv /\ RowInv) /\ [LoginNext]_login
        => [Answers /\ granted' /\ Plain(get_user_from_b64.username) => row # None /\ Sent]_login
  BY <1>1
<1> QED BY LoginInvariance, ServedInvariance, <1>2, PTL DEF LoginSpec, GrantedWasSent

\* A name and a password that the scan can carry come out of it.
LEMMA ScanReads ==
  ASSUME NEW u \in Names, NEW w \in Passwords, Len(u) <= MaxName, Len(w) <= MaxPassword,
         Readable(Pair(u, w))
  PROVE  Scan(Joined(Pair(u, w))) = Pair(u, w)
<1>1. PICK bytes \in Seq(Byte) :
        /\ bytes = Joined(Pair(u, w)) /\ Len(bytes) = Len(u) + 1 + Len(w)
        /\ bytes[Len(u) + 1] = Colon
        /\ \A j \in 1 .. Len(u) : bytes[j] = u[j]
        /\ \A j \in 1 .. Len(w) : bytes[Len(u) + 1 + j] = w[j]
  <2>1. Joined(Pair(u, w)) = u \o <<Colon>> \o w
    BY DEF Joined, Pair
  <2>2. u \in Seq(Byte) /\ w \in Seq(Byte) /\ <<Colon>> \in Seq(Byte)
    BY TypedAssumption, SpecialAssumption
  <2>3. /\ u \o <<Colon>> \o w \in Seq(Byte) /\ Len(u \o <<Colon>> \o w) = Len(u) + 1 + Len(w)
        /\ (u \o <<Colon>> \o w)[Len(u) + 1] = Colon
        /\ \A j \in 1 .. Len(u) : (u \o <<Colon>> \o w)[j] = u[j]
        /\ \A j \in 1 .. Len(w) : (u \o <<Colon>> \o w)[Len(u) + 1 + j] = w[j]
    BY <2>2
  <2> QED BY <2>1, <2>3
<1>2. /\ u \in Seq(Byte) /\ w \in Seq(Byte) /\ Len(u) \in Nat /\ Len(w) \in Nat
      /\ Len(u) # 0 /\ Len(w) # 0
      /\ \A j \in 1 .. Len(u) : u[j] # Colon
      /\ \A j \in 1 .. Len(w) : w[j] # Space
  <2>1. u \in Seq(Byte) /\ w \in Seq(Byte)
    BY TypedAssumption
  <2>2. u # <<>> /\ Colon \notin Range(u) /\ w # <<>> /\ Space \notin Range(w)
    BY DEF Readable, Pair
  <2> QED BY <2>1, <2>2 DEF Range
<1>3. Span(bytes, Colon) = Len(u)
  <2>1. PICK n \in Nat : n = Len(u)
    BY <1>2
  <2>2. /\ n <= Len(bytes) /\ n <= MaxField /\ bytes[n + 1] = Colon
        /\ \A j \in 1 .. n : bytes[j] # Colon
    BY <1>1, <1>2, <2>1, MaxAssumption
  <2> QED BY <2>1, <2>2, SpanUpTo
<1>4. SubSeq(bytes, Len(u) + 2, Len(bytes)) = w
  <2>1. PICK c \in Nat : c = Len(u) + 1 /\ c <= Len(bytes) /\ c + 1 = Len(u) + 2
    BY <1>1, <1>2
  <2>2. PICK t \in Seq(Byte) :
          /\ t = SubSeq(bytes, c + 1, Len(bytes)) /\ Len(t) = Len(bytes) - c
          /\ \A j \in 1 .. Len(bytes) - c : t[j] = bytes[c + j]
    BY <2>1, Behind
  <2>3. Len(t) = Len(w) /\ \A j \in 1 .. Len(w) : t[j] = w[j]
    BY <1>1, <1>2, <2>1, <2>2
  <2>4. t = w
    BY <1>2, <2>3, SeqEqual
  <2> QED BY <2>1, <2>2, <2>4
<1>5. SubSeq(bytes, 1, Len(u)) = u
  <2>1. Len(u) <= Len(bytes)
    BY <1>1, <1>2
  <2>2. PICK t \in Seq(Byte) : /\ t = SubSeq(bytes, 1, Len(u)) /\ Len(t) = Len(u)
                               /\ \A j \in 1 .. Len(u) : t[j] = bytes[j]
    BY <1>2, <2>1, CutBytes
  <2>3. t = u
    BY <1>1, <1>2, <2>2, SeqEqual
  <2> QED BY <2>2, <2>3
<1> DEFINE words == {k \in DOMAIN w : w[k] # Space}
<1>6. words # {} /\ (CHOOSE k \in words : \A m \in words : k <= m) = 1
  <2>1. 1 \in words /\ words \subseteq Nat /\ \A m \in words : 1 <= m
    BY <1>2
  <2> HIDE DEF words
  <2> QED BY <2>1, FirstIs
<1>7. SubSeq(w, 1, Len(w)) = w /\ w # <<>>
  BY <1>2
<1>8. Span(w, Space) = Len(w)
  <2>1. PICK n \in Nat : n = Len(w) /\ n <= MaxField /\ ~(n < Len(w))
    BY <1>2, MaxAssumption
  <2>2. n <= Len(w) /\ (\A j \in 1 .. n : w[j] # Space) /\ (n < Len(w) => w[n + 1] = Space)
    BY <1>2, <2>1
  <2> QED BY <1>2, <2>1, <2>2, SpanUpTo
<1>9. Len(u) # Len(bytes)
  BY <1>1, <1>2
<1>10. Unspaced(w) = w
  BY <1>6, <1>7, Zenon DEF Unspaced
<1> HIDE DEF words
<1>11. Scan(bytes) = Pair(u, w)
  BY <1>1, <1>2, <1>3, <1>4, <1>5, <1>7, <1>8, <1>9, <1>10 DEF Scan
<1> QED BY <1>1, <1>11

\* auth.c:14-92, util.c:38-125: for any names, passwords, widths, texts and
\* collation, a user who was added with a name and a password that the statement
\* and the scan can carry is let through.
THEOREM UsersGetIn == LoginSpec => ReadableLogsIn
<1>1. ASSUME DecoderInv, HeaderInv, RowInv, [LoginNext]_login,
             Answers /\ pc # "nomem" /\ Readable(added) /\ Own(request) = HeaderOf(added)
      PROVE  granted'
  <2>0. added # None /\ row = added /\ row # None /\ Plain(row.username)
    <3>1. added # None
      BY <1>1 DEF Readable, None, Pair
    <3> QED BY <1>1, <3>1 DEF RowInv
  <2>1. PICK u \in Names, w \in Passwords :
          Len(u) <= MaxName /\ Len(w) <= MaxPassword /\ row = Pair(u, w)
    BY <1>1, <2>0 DEF RowInv
  <2>2. PICK bytes \in Seq(Byte) : bytes = Joined(row) /\ bytes \in Seq(Byte \ {0})
    BY <2>1, JoinedBytes
  <2>3. pc \in {"done", "null"}
    BY <1>1 DEF Answers, has_valid_auth, Free
  <2>4. input = Padded(bytes) /\ input \in Seq(Symbol)
    <3>1. input = Own(request).text
      BY <1>1, <2>3, OwnHeader DEF HeaderInv
    <3>2. Own(request).text = Padded(bytes)
      BY <1>1, <2>0, <2>2 DEF HeaderOf, Basic
    <3> QED BY <1>1, <3>1, <3>2 DEF DecoderInv, DecoderTypeOK
  <2>5. Decodes(input)
    BY <2>2, <2>4, PaddedSays, SaidBytes
  <2>6. pc = "done"
    BY <1>1, <2>3, <2>5 DEF DecoderInv, LoopDecodes
  <2>7. CString(decoded) = bytes
    BY <1>1, <2>1, <2>2, <2>4, <2>6, ComesBack DEF RoundTrip
  <2>8. Scan(bytes) = row
    BY <1>1, <2>0, <2>1, <2>2, ScanReads
  <2>9. get_user_from_b64 = row
    BY <2>6, <2>7, <2>8 DEF get_user_from_b64
  <2>10. Valid(row) = {TRUE}
    BY <2>0 DEF Valid, SameName
  <2> QED BY <1>1, <2>0, <2>9, <2>10 DEF Answers, has_valid_auth
<1>2. DecoderInv /\ (HeaderInv /\ RowInv) /\ [LoginNext]_login
        => [Answers /\ pc # "nomem" /\ Readable(added) /\ Own(request) = HeaderOf(added)
              => granted']_login
  BY <1>1
<1> QED BY LoginInvariance, ServedInvariance, <1>2, PTL DEF LoginSpec, ReadableLogsIn

-----------------------------------------------------------------------------
\* parse_host_port's searches

\* Up to the first stop, or the whole text when it has none.
LEMMA UpToStop ==
  ASSUME NEW S, NEW text \in Seq(S), NEW stops, NEW k \in 1 .. Len(text),
         text[k] \in stops, \A j \in 1 .. k - 1 : text[j] \notin stops
  PROVE  UpTo(text, stops) = SubSeq(text, 1, k - 1)
<1> DEFINE I == {m \in 1 .. Len(text) : text[m] \in stops}
<1>1. UpTo(text, stops) = LET n == IF I # {} THEN Min(I) ELSE 0
                          IN IF n = 0 THEN text ELSE SubSeq(text, 1, n - 1)
  BY DEF UpTo, SelectInSeq
<1>2. Min(I) = k /\ I # {}
  BY DEF Min
<1>3. k # 0
  OBVIOUS
<1> HIDE DEF I
<1> QED BY <1>1, <1>2, <1>3

\* A text without a stop is taken to its end.
LEMMA UpToEnd ==
  ASSUME NEW S, NEW text \in Seq(S), NEW stops,
         \A j \in 1 .. Len(text) : text[j] \notin stops
  PROVE  UpTo(text, stops) = text
BY DEF UpTo, SelectInSeq

\* Skipping what a text begins with.
LEMMA SkipFront ==
  ASSUME NEW text \in Seq(Char), NEW c \in Char, NEW k \in 1 .. Len(text),
         text[k] # c, \A j \in 1 .. k - 1 : text[j] = c
  PROVE  Skip(text, {c}) = SubSeq(text, k, Len(text))
<1>1. text[k] \in Char \ {c} /\ \A j \in 1 .. k - 1 : text[j] \notin Char \ {c}
  OBVIOUS
<1>2. UpTo(text, Char \ {c}) = SubSeq(text, 1, k - 1)
  BY <1>1, UpToStop, Zenon
<1>3. Len(SubSeq(text, 1, k - 1)) + 1 = k
  OBVIOUS
<1> QED BY <1>2, <1>3 DEF Skip

-----------------------------------------------------------------------------
\* Numbers

\* One digit more in NumberOf.
TurnOf(number, digits, k) ==
  IF k = 0 THEN 0 ELSE 10 * number[k - 1] + (digits[k] - 48)

\* A function that runs through the digits ends with their number.
LEMMA NumberFound ==
  ASSUME NEW digits, NEW f, f = [k \in 0 .. Len(digits) |-> TurnOf(f, digits, k)]
  PROVE  \E g : NumberOf(digits) = g[Len(digits)]
                /\ g = [k \in 0 .. Len(digits) |-> TurnOf(g, digits, k)]
<1> DEFINE Runs(g) == g = [k \in 0 .. Len(digits) |-> TurnOf(g, digits, k)]
<1>1. Runs(f)
  OBVIOUS
<1>2. Runs(CHOOSE g : Runs(g))
  BY <1>1, Zenon
<1>3. NumberOf(digits) = (CHOOSE g : Runs(g))[Len(digits)]
  BY DEF NumberOf, TurnOf
<1> QED BY <1>2, <1>3

\* The leading digits of a number and the one behind them.
LEMMA DigitAdded ==
  ASSUME NEW n \in Nat, NEW m \in 1 .. 5
  PROVE  10 * (n \div Tens[m + 1]) + ((n \div Tens[m]) % 10) = n \div Tens[m]
<1>1. CASE m = 1
  BY <1>1 DEF Tens
<1>2. CASE m = 2
  BY <1>2 DEF Tens
<1>3. CASE m = 3
  BY <1>3 DEF Tens
<1>4. CASE m = 4
  BY <1>4 DEF Tens
<1>5. CASE m = 5
  BY <1>5 DEF Tens
<1> QED BY <1>1, <1>2, <1>3, <1>4, <1>5

\* What Digits writes is numerals, and the number comes back from them.
LEMMA DigitsSay ==
  ASSUME NEW n \in Nat, n < Tens[6]
  PROVE  /\ Digits(n) \in Seq(Numeral) /\ Len(Digits(n)) \in 1 .. 5
         /\ NumberOf(Digits(n)) = n
<1>1. /\ DOMAIN Tens = 1 .. 6 /\ \A j \in 1 .. 6 : Tens[j] \in Nat \ {0}
      /\ Tens[1] = 1
  BY DEF Tens
<1> DEFINE Fits(l) == n < Tens[l + 1] /\ (l > 1 => n >= Tens[l])
<1>2. \E l \in 1 .. 5 : Fits(l)
  <2>1. \/ n < Tens[2]
        \/ n >= Tens[2] /\ n < Tens[3]
        \/ n >= Tens[3] /\ n < Tens[4]
        \/ n >= Tens[4] /\ n < Tens[5]
        \/ n >= Tens[5] /\ n < Tens[6]
    BY SMT DEF Tens
  <2> QED BY <2>1
<1>3. PICK l \in 1 .. 5 : l = CHOOSE m \in 1 .. 5 : Fits(m)
  BY <1>2, Zenon
<1>4. Fits(l)
  BY <1>2, <1>3, Zenon
<1> DEFINE D == [j \in 1 .. l |-> 48 + ((n \div Tens[l - j + 1]) % 10)]
           f == [k \in 0 .. l |-> n \div Tens[l - k + 1]]
<1>5. Digits(n) = D
  <2> DEFINE Numerals(m) == [j \in 1 .. m |-> 48 + ((n \div Tens[m - j + 1]) % 10)]
  <2>1. Digits(n) = Numerals(CHOOSE m \in 1 .. 5 : Fits(m))
    BY DEF Digits
  <2>2. D = Numerals(l)
    OBVIOUS
  <2> HIDE DEF Numerals, Fits, D
  <2> QED BY <1>3, <2>1, <2>2, Zenon
<1>6. \A j \in 1 .. l : D[j] \in Numeral /\ D[j] - 48 = (n \div Tens[l - j + 1]) % 10
  <2> TAKE j \in 1 .. l
  <2>1. l - j + 1 \in 1 .. 6
    OBVIOUS
  <2>2. PICK q \in Nat : q = n \div Tens[l - j + 1]
    BY <1>1, <2>1
  <2>3. D[j] = 48 + (q % 10)
    BY <2>2
  <2>4. q % 10 \in 0 .. 9
    BY <2>2
  <2> HIDE DEF f, D
  <2> QED BY <2>2, <2>3, <2>4 DEF Numeral
<1>7. D \in Seq(Numeral) /\ Len(D) = l
  <2>1. D \in [1 .. l -> Numeral]
    BY <1>6
  <2> HIDE DEF D
  <2> QED BY <2>1
<1>8. /\ \A k \in 0 .. l : f[k] \in Nat
      /\ f[0] = 0 /\ f[l] = n
      /\ \A k \in 1 .. l : f[k] = 10 * f[k - 1] + (D[k] - 48)
  <2>1. \A k \in 0 .. l : l - k + 1 \in 1 .. 6
    OBVIOUS
  <2>2. \A k \in 0 .. l : f[k] \in Nat
    BY <1>1, <2>1
  <2>3. f[0] = 0
    <3>1. f[0] = n \div Tens[l + 1] /\ n < Tens[l + 1]
      BY <1>4
    <3>2. \A m \in 2 .. 6 : n < Tens[m] => n \div Tens[m] = 0
      BY SMT DEF Tens
    <3> HIDE DEF f
    <3> QED BY <3>1, <3>2
  <2>4. f[l] = n
    BY <1>1
  <2>5. \A k \in 1 .. l : f[k] = 10 * f[k - 1] + (D[k] - 48)
    <3> TAKE k \in 1 .. l
    <3>1. PICK m \in 1 .. 5 : m = l - k + 1
      OBVIOUS
    <3>2. f[k] = n \div Tens[m] /\ f[k - 1] = n \div Tens[m + 1]
      BY <3>1
    <3>3. D[k] - 48 = (n \div Tens[m]) % 10
      BY <1>6, <3>1
    <3> HIDE DEF f, D
    <3> QED BY <3>2, <3>3, DigitAdded
  <2> QED BY <2>2, <2>3, <2>4, <2>5
<1>9. f = [k \in 0 .. Len(D) |-> TurnOf(f, D, k)]
  <2>1. \A k \in 0 .. l : f[k] = TurnOf(f, D, k)
    <3> TAKE k \in 0 .. l
    <3> HIDE DEF f, D
    <3>1. CASE k = 0
      BY <1>8, <3>1 DEF TurnOf
    <3>2. CASE k # 0
      <4>1. k \in 1 .. l
        BY <3>2
      <4> QED BY <1>8, <3>2, <4>1 DEF TurnOf
    <3> QED BY <3>1, <3>2
  <2>2. f = [k \in 0 .. l |-> f[k]]
    OBVIOUS
  <2> HIDE DEF f, D
  <2> QED BY <1>7, <2>1, <2>2
<1> HIDE DEF f, D
<1>10. PICK g : NumberOf(D) = g[l] /\ g = [k \in 0 .. l |-> TurnOf(g, D, k)]
  BY <1>7, <1>9, NumberFound
<1>11. g[l] = f[l]
  <2> DEFINE Wrong == {k \in 0 .. l : g[k] # f[k]}
  <2>1. \A k \in 0 .. l : g[k] = TurnOf(g, D, k)
    BY <1>10
  <2>2. SUFFICES Wrong = {}
    OBVIOUS
  <2>3. SUFFICES ASSUME Wrong # {}
                 PROVE  FALSE
    OBVIOUS
  <2>4. Wrong \subseteq Nat
    OBVIOUS
  <2>5. PICK m \in Wrong : \A k \in Wrong : m <= k
    <3> HIDE DEF Wrong
    <3> QED BY <2>3, <2>4, FirstExists
  <2>6. m # 0
    BY <1>8, <2>1, <2>5 DEF TurnOf
  <2>7. g[m - 1] = f[m - 1]
    BY <2>5, <2>6
  <2>8. g[m] = f[m]
    BY <1>8, <2>1, <2>6, <2>7 DEF TurnOf
  <2> QED BY <2>5, <2>8
<1> QED BY <1>5, <1>7, <1>8, <1>10, <1>11

\* atoi reads the number that was written.
LEMMA NumberReadBack ==
  ASSUME NEW n \in Nat, n < Tens[6]
  PROVE  atoi(Digits(n)) = n
<1>1. PICK d \in Seq(Numeral) : d = Digits(n) /\ Len(d) \in 1 .. 5 /\ NumberOf(d) = n
  BY DigitsSay
<1>2. d \in Seq(Char) /\ d[1] \in Numeral /\ Head(d) = d[1]
  BY <1>1 DEF Numeral, Char
<1>3. Skip(d, {BLANK}) = d
  <2>1. d[1] # BLANK /\ BLANK \in Char
    BY <1>2 DEF Numeral, BLANK, Char
  <2>2. Skip(d, {BLANK}) = SubSeq(d, 1, Len(d))
    <3>1. 1 \in 1 .. Len(d) /\ d[1] # BLANK
      BY <1>1, <2>1
    <3>2. \A j \in 1 .. 1 - 1 : d[j] = BLANK
      OBVIOUS
    <3> QED BY <1>2, <2>1, <3>1, <3>2, SkipFront, Zenon
  <2>3. SubSeq(d, 1, Len(d)) = d
    OBVIOUS
  <2> QED BY <2>2, <2>3
<1>4. Head(d) # 45
  BY <1>2 DEF Numeral
<1>5. UpTo(d, Char \ Numeral) = d
  BY UpToEnd
<1> QED BY <1>1, <1>3, <1>4, <1>5 DEF atoi

-----------------------------------------------------------------------------
\* Texts by their places

\* s stands in the text behind the first n characters.
At(text, n, s) ==
  n + Len(s) <= Len(text) /\ \A j \in 1 .. Len(s) : text[n + j] = s[j]

\* Each of two parts stands where the whole stands.
LEMMA AtConcat ==
  ASSUME NEW text \in Seq(Char), NEW n \in Nat, NEW s \in Seq(Char), NEW t \in Seq(Char),
         At(text, n, s \o t)
  PROVE  At(text, n, s) /\ At(text, n + Len(s), t)
<1>1. /\ Len(s \o t) = Len(s) + Len(t) /\ Len(s) \in Nat /\ Len(t) \in Nat
      /\ \A j \in 1 .. Len(s) : (s \o t)[j] = s[j]
      /\ \A j \in 1 .. Len(t) : (s \o t)[Len(s) + j] = t[j]
  OBVIOUS
<1>2. PICK u : u = s \o t
  OBVIOUS
<1>3. /\ Len(u) = Len(s) + Len(t) /\ n + Len(u) <= Len(text)
      /\ \A j \in 1 .. Len(u) : text[n + j] = u[j]
  BY <1>1, <1>2 DEF At
<1>4. \A j \in 1 .. Len(s) : text[n + j] = s[j]
  BY <1>1, <1>2, <1>3
<1>5. \A j \in 1 .. Len(t) : text[(n + Len(s)) + j] = t[j]
  <2> TAKE j \in 1 .. Len(t)
  <2>1. Len(s) + j \in 1 .. Len(u) /\ n + (Len(s) + j) = (n + Len(s)) + j
    BY <1>1, <1>3
  <2>2. text[n + (Len(s) + j)] = u[Len(s) + j]
    BY <1>3, <2>1
  <2> QED BY <1>1, <1>2, <2>1, <2>2
<1>6. Len(text) \in Nat
  OBVIOUS
<1> QED BY <1>1, <1>3, <1>4, <1>5, <1>6 DEF At

\* What stands there is what is cut out.
LEMMA AtCut ==
  ASSUME NEW text \in Seq(Char), NEW n \in Nat, NEW s \in Seq(Char), At(text, n, s)
  PROVE  SubSeq(text, n + 1, n + Len(s)) = s
<1>1. Len(s) \in Nat /\ n + Len(s) <= Len(text) /\ Len(text) \in Nat
      /\ \A j \in 1 .. Len(s) : text[n + j] = s[j]
  BY DEF At
<1>2. /\ Len(SubSeq(text, n + 1, n + Len(s))) = Len(s)
      /\ SubSeq(text, n + 1, n + Len(s)) \in Seq(Char)
      /\ \A j \in 1 .. Len(s) : SubSeq(text, n + 1, n + Len(s))[j] = text[n + j]
  BY <1>1
<1> QED BY <1>1, <1>2, SeqEqual

\* What stands behind the first k characters is found again in the rest.
LEMMA AtBehind ==
  ASSUME NEW text \in Seq(Char), NEW k \in Nat, k <= Len(text), NEW n \in Nat, NEW s \in Seq(Char),
         At(text, k + n, s)
  PROVE  /\ SubSeq(text, k + 1, Len(text)) \in Seq(Char)
         /\ At(SubSeq(text, k + 1, Len(text)), n, s)
<1>1. PICK back : back = SubSeq(text, k + 1, Len(text))
  OBVIOUS
<1>2. /\ back \in Seq(Char) /\ Len(back) = Len(text) - k
      /\ \A j \in 1 .. Len(text) - k : back[j] = text[k + j]
  BY <1>1
<1>3. /\ Len(s) \in Nat /\ Len(text) \in Nat /\ (k + n) + Len(s) <= Len(text)
      /\ \A j \in 1 .. Len(s) : text[(k + n) + j] = s[j]
  BY DEF At
<1>4. \A j \in 1 .. Len(s) : back[n + j] = s[j]
  <2> TAKE j \in 1 .. Len(s)
  <2>1. n + j \in 1 .. Len(text) - k /\ k + (n + j) = (k + n) + j
    BY <1>3
  <2> QED BY <1>2, <1>3, <2>1
<1> QED BY <1>1, <1>2, <1>3, <1>4 DEF At

\* A prefix of the rest from k on stands behind the first k - 1 characters.
LEMMA AtPrefix ==
  ASSUME NEW text \in Seq(Char), NEW k \in 1 .. Len(text), NEW s \in Seq(Char),
         IsPrefix(s, SubSeq(text, k, Len(text)))
  PROVE  At(text, k - 1, s)
<1>1. PICK back : back = SubSeq(text, k, Len(text))
  OBVIOUS
<1>2. /\ back \in Seq(Char) /\ Len(back) = Len(text) - (k - 1)
      /\ \A j \in 1 .. Len(back) : back[j] = text[(k - 1) + j]
  BY <1>1
<1>3. Len(s) <= Len(back) /\ SubSeq(s, 1, Len(s)) = SubSeq(back, 1, Len(s))
  BY <1>1 DEF IsPrefix
<1>4. Len(s) \in Nat /\ Len(text) \in Nat
  OBVIOUS
<1>5. /\ \A j \in 1 .. Len(s) : SubSeq(s, 1, Len(s))[j] = s[j]
      /\ \A j \in 1 .. Len(s) : SubSeq(back, 1, Len(s))[j] = back[j]
  BY <1>2, <1>3, <1>4
<1>6. \A j \in 1 .. Len(s) : text[(k - 1) + j] = s[j]
  BY <1>2, <1>3, <1>4, <1>5
<1> QED BY <1>2, <1>3, <1>4, <1>6 DEF At

\* What parse_host_port copies out of the line that begins behind h.
LEMMA HostPortIs ==
  ASSUME NEW text \in Seq(Char), NEW h \in 1 .. Len(text), HostPlaces(text) = {h},
         NEW b \in Seq({BLANK}), NEW w \in Seq(Char \ {LF, CR, BLANK}), Len(w) < MaxHostPort,
         At(text, h + 1, b \o (w \o <<CR>>))
  PROVE  HostPort(text) = w
<1>1. /\ BLANK \in Char /\ CR \in Char /\ CR # BLANK
      /\ <<CR>> \in Seq(Char) /\ Len(<<CR>>) = 1 /\ <<CR>>[1] = CR
  BY DEF BLANK, CR, Char
<1>2. /\ b \in Seq(Char) /\ w \in Seq(Char) /\ w \o <<CR>> \in Seq(Char)
      /\ Len(b) \in Nat /\ Len(w) \in Nat /\ Len(w \o <<CR>>) = Len(w) + 1
      /\ \A j \in 1 .. Len(b) : b[j] = BLANK
      /\ \A j \in 1 .. Len(w) : w[j] \in Char \ {LF, CR, BLANK}
  BY <1>1
<1>3. PICK line : line = w \o <<CR>>
  OBVIOUS
<1>4. PICK back : back = SubSeq(text, h + 2, Len(text))
  OBVIOUS
<1>5. back \in Seq(Char) /\ At(back, 0, b \o line)
  <2>1. h + 1 <= Len(text)
    <3>1. Len(b \o (w \o <<CR>>)) \in Nat /\ Len(text) \in Nat
      BY <1>2
    <3> QED BY <3>1 DEF At
  <2>2. (h + 1) + 0 = h + 1 /\ (h + 1) + 1 = h + 2 /\ h + 1 \in Nat
    OBVIOUS
  <2>3. b \o line \in Seq(Char)
    BY <1>2, <1>3
  <2>4. At(text, (h + 1) + 0, b \o line)
    BY <1>3, <2>2
  <2> QED BY <1>4, <2>1, <2>2, <2>3, <2>4, AtBehind
<1>6. At(back, 0, b) /\ At(back, Len(b), line)
  <2>1. At(back, 0, b) /\ At(back, 0 + Len(b), line)
    BY <1>2, <1>3, <1>5, AtConcat
  <2> QED BY <1>2, <2>1
<1>7. PICK value : value = SubSeq(back, Len(b) + 1, Len(back))
  OBVIOUS
<1>8. /\ Len(b) + 1 \in 1 .. Len(back) /\ back[Len(b) + 1] = line[1]
      /\ \A j \in 1 .. Len(b) : back[j] = BLANK
  <2>1. /\ Len(b) + Len(line) <= Len(back) /\ Len(line) = Len(w) + 1
        /\ \A j \in 1 .. Len(line) : back[Len(b) + j] = line[j]
        /\ \A j \in 1 .. Len(b) : back[0 + j] = b[j]
    BY <1>2, <1>3, <1>6 DEF At
  <2>2. Len(back) \in Nat
    BY <1>5
  <2>3. 1 \in 1 .. Len(line)
    BY <1>2, <2>1
  <2> QED BY <1>2, <2>1, <2>2, <2>3
<1>9. Skip(back, {BLANK}) = value
  <2>1. line[1] # BLANK
    <3>1. CASE Len(w) = 0
      <4>1. line[1] = CR
        BY <1>2, <1>3, <3>1
      <4> QED BY <1>1, <4>1
    <3>2. CASE Len(w) # 0
      <4>1. line[1] = w[1] /\ 1 \in 1 .. Len(w)
        BY <1>2, <1>3, <3>2
      <4> QED BY <1>2, <4>1
    <3> QED BY <3>1, <3>2
  <2>2. back[Len(b) + 1] # BLANK /\ \A j \in 1 .. (Len(b) + 1) - 1 : back[j] = BLANK
    BY <1>2, <1>8, <2>1
  <2> QED BY <1>1, <1>5, <1>7, <1>8, <2>2, SkipFront, Zenon
<1>10. value \in Seq(Char) /\ At(value, 0, line)
  <2>1. Len(b) + 0 = Len(b) /\ Len(b) <= Len(back) /\ line \in Seq(Char)
    BY <1>2, <1>3, <1>5, <1>8
  <2>2. At(back, Len(b) + 0, line)
    BY <1>6, <2>1
  <2> QED BY <1>2, <1>5, <1>7, <2>1, <2>2, AtBehind
<1>11. /\ Len(w) + 1 \in 1 .. Len(value) /\ value[Len(w) + 1] = CR
       /\ \A j \in 1 .. Len(w) : value[j] = w[j]
  <2>1. /\ 0 + Len(line) <= Len(value) /\ Len(line) = Len(w) + 1
        /\ \A j \in 1 .. Len(line) : value[0 + j] = line[j]
    BY <1>2, <1>3, <1>10 DEF At
  <2>2. line[Len(w) + 1] = CR /\ \A j \in 1 .. Len(w) : line[j] = w[j]
    BY <1>1, <1>2, <1>3
  <2>3. Len(value) \in Nat
    BY <1>10
  <2> QED BY <1>2, <2>1, <2>2, <2>3
<1>12. UpTo(value, {CR}) = w
  <2>1. value[Len(w) + 1] \in {CR}
        /\ \A j \in 1 .. (Len(w) + 1) - 1 : value[j] \notin {CR}
    BY <1>2, <1>11
  <2>2. UpTo(value, {CR}) = SubSeq(value, 1, (Len(w) + 1) - 1)
    BY <1>10, <1>11, <2>1, UpToStop
  <2>3. At(value, 0, w)
    <3>1. Len(value) \in Nat /\ 0 + Len(w) <= Len(value)
      BY <1>2, <1>10, <1>11
    <3> QED BY <1>2, <1>11, <3>1 DEF At
  <2>4. SubSeq(value, 0 + 1, 0 + Len(w)) = w
    BY <1>2, <1>10, <2>3, AtCut
  <2>5. 0 + 1 = 1 /\ 0 + Len(w) = (Len(w) + 1) - 1
    BY <1>2
  <2> QED BY <2>2, <2>4, <2>5
<1>13. \E k \in DOMAIN value : value[k] = CR
  BY <1>10, <1>11
<1>14. Min(HostPlaces(text)) + 2 = h + 2
  BY DEF Min
<1>15. SubSeq(w, 1, Len(w)) = w /\ ~(Len(w) >= MaxHostPort)
  BY <1>2, HostFieldAssumption
<1> QED BY <1>4, <1>9, <1>12, <1>13, <1>14, <1>15 DEF HostPort

-----------------------------------------------------------------------------
\* From the Host line to the target

\* Where strstr finds the word is one behind the LF of its line.
LEMMA FieldPlace ==
  ASSUME NEW word, rest \in Seq(Char)
  PROVE  FieldPlaces(rest, word) = {k + 1 : k \in Lines(word)}
<1> DEFINE found == {k + 1 : k \in Lines(word)}
<1>1. Len(rest) \in Nat
  OBVIOUS
<1>2. ASSUME NEW m \in FieldPlaces(rest, word)
      PROVE  m \in found
  <2>1. m \in 2 .. Len(rest) - 1 /\ SubSeq(rest, m - 1, m + 1) = <<LF, word, COLON>>
    BY <1>2 DEF FieldPlaces
  <2>2. m - 1 \in 1 .. Len(rest) - 2 /\ (m - 1) + 2 = m + 1 /\ (m - 1) + 1 = m
    BY <1>1, <2>1
  <2>3. m - 1 \in Lines(word)
    BY <2>1, <2>2 DEF Lines
  <2> QED BY <2>2, <2>3
<1>3. ASSUME NEW m \in found
      PROVE  m \in FieldPlaces(rest, word)
  <2>1. PICK k \in Lines(word) : m = k + 1
    OBVIOUS
  <2>2. k \in 1 .. Len(rest) - 2 /\ SubSeq(rest, k, k + 2) = <<LF, word, COLON>>
    BY DEF Lines
  <2>3. m \in 2 .. Len(rest) - 1 /\ m - 1 = k /\ m + 1 = k + 2
    BY <1>1, <2>1, <2>2
  <2> QED BY <2>2, <2>3 DEF FieldPlaces
<1> HIDE DEF found
<1>4. FieldPlaces(rest, word) = found
  BY <1>2, <1>3
<1> QED BY <1>4 DEF found

\* With no other Host line about, the line that parse_host_port takes.
LEMMA PlaceTaken ==
  ASSUME rest \in Seq(Char), NEW w \in {HOST, LOWER}, NEW k \in Lines(w),
         Lines(w) \cup Lines(HOST) = {k}
  PROVE  HostPlaces(rest) = {k + 1}
<1>1. FieldPlaces(rest, w) = {k + 1}
  <2>1. Lines(w) = {k}
    OBVIOUS
  <2> QED BY <2>1, FieldPlace
<1>2. CASE w = HOST
  BY <1>1, <1>2 DEF HostPlaces
<1>3. CASE w = LOWER
  <2>1. Lines(HOST) = {}
    <3>1. k \notin Lines(HOST)
      <4>1. SubSeq(rest, k, k + 2) = <<LF, LOWER, COLON>>
        BY <1>3 DEF Lines
      <4>2. <<LF, LOWER, COLON>> # <<LF, HOST, COLON>>
        BY DEF LOWER, HOST
      <4> QED BY <4>1, <4>2 DEF Lines
    <3> QED BY <3>1
  <2>2. FieldPlaces(rest, HOST) = {}
    BY <2>1, FieldPlace
  <2> QED BY <1>1, <1>3, <2>2 DEF HostPlaces
<1> QED BY <1>2, <1>3

\* A port has a number of at most five digits.
LEMMA PortRange ==
  ASSUME NEW port \in Ports
  PROVE  \/ port = NoPort
         \/ port # NoPort /\ port \in Nat /\ port < Tens[6] /\ port % 2^PortBits = port
<1>1. PICK size \in Nat : size = 2^PortBits /\ 80 < size /\ size <= Tens[6]
  BY HostFieldAssumption, PowPositive
<1>2. Tens[6] \in Nat
  BY DEF Tens
<1>3. CASE port # NoPort
  <2>1. port \in 0 .. size - 1
    BY <1>1, <1>3, HostAssumption
  <2>2. port \in Nat /\ port < size
    BY <1>1, <2>1
  <2>3. port % size = port
    BY <1>1, <2>2, SMT
  <2> QED BY <1>1, <1>2, <1>3, <2>2, <2>3
<1> QED BY <1>3

\* The name and the port come back from what was written of them.
LEMMA WrittenSays ==
  ASSUME NEW name \in HostNames, NEW port \in Ports
  PROVE  /\ Written(name, port) \in Seq(Char \ {LF, CR, BLANK})
         /\ LET w == Written(name, port)
                front == UpTo(w, {COLON})
            IN /\ front = name
               /\ front = w <=> port = NoPort
               /\ port # NoPort => atoi(SubSeq(w, Len(front) + 2, Len(w))) = port
<1>1. /\ name \in Seq(Char) /\ Len(name) \in Nat
      /\ \A j \in 1 .. Len(name) : name[j] \in Char \ {LF, CR, COLON, BLANK}
  BY HostAssumption
<1>2. name \in Seq(Char \ {LF, CR, BLANK})
  BY HostAssumption
<1>3. CASE port = NoPort
  <2>1. Written(name, port) = name
    BY <1>1, <1>3 DEF Written
  <2>2. UpTo(name, {COLON}) = name
    BY <1>1, UpToEnd
  <2> QED BY <1>2, <1>3, <2>1, <2>2
<1>4. CASE port # NoPort
  <2>1. port \in Nat /\ port < Tens[6]
    BY <1>4, PortRange
  <2>2. PICK d \in Seq(Numeral) : d = Digits(port) /\ atoi(d) = port
    BY <2>1, DigitsSay, NumberReadBack
  <2>3. /\ d \in Seq(Char \ {LF, CR, BLANK}) /\ Len(d) \in Nat
        /\ <<COLON>> \in Seq(Char \ {LF, CR, BLANK}) /\ Len(<<COLON>>) = 1
        /\ <<COLON>>[1] = COLON
    BY DEF Numeral, Char, LF, CR, BLANK, COLON
  <2>4. PICK tail : tail = <<COLON>> \o d
    OBVIOUS
  <2>5. /\ tail \in Seq(Char \ {LF, CR, BLANK}) /\ Len(tail) = 1 + Len(d) /\ tail[1] = COLON
        /\ \A j \in 1 .. Len(d) : tail[1 + j] = d[j]
    BY <2>3, <2>4
  <2>6. PICK w : w = name \o tail
    OBVIOUS
  <2>7. /\ w \in Seq(Char \ {LF, CR, BLANK}) /\ w \in Seq(Char)
        /\ Len(w) = Len(name) + (1 + Len(d)) /\ Len(w) \in Nat
        /\ \A j \in 1 .. Len(name) : w[j] = name[j]
        /\ w[Len(name) + 1] = COLON
        /\ \A j \in 1 .. Len(d) : w[Len(name) + (1 + j)] = d[j]
    <3>1. /\ w \in Seq(Char \ {LF, CR, BLANK})
          /\ Len(w) = Len(name) + Len(tail) /\ Len(w) \in Nat
          /\ \A j \in 1 .. Len(name) : w[j] = name[j]
          /\ \A j \in 1 .. Len(tail) : w[Len(name) + j] = tail[j]
      <4>1. w \in Seq(Char \ {LF, CR, BLANK}) /\ Len(w) = Len(name) + Len(tail)
        BY <1>2, <2>5, <2>6, ConcatProperties
      <4>2. \A j \in 1 .. Len(name) + Len(tail) :
              w[j] = IF j <= Len(name) THEN name[j] ELSE tail[j - Len(name)]
        BY <1>2, <2>5, <2>6, ConcatProperties
      <4>3. Len(tail) \in Nat
        BY <2>5
      <4>4. \A j \in 1 .. Len(name) : w[j] = name[j]
        BY <1>1, <4>2, <4>3
      <4>5. \A j \in 1 .. Len(tail) : w[Len(name) + j] = tail[j]
        BY <1>1, <4>2, <4>3
      <4> QED BY <1>1, <4>1, <4>3, <4>4, <4>5
    <3>2. w \in Seq(Char)
      BY <3>1
    <3>3. 1 \in 1 .. Len(tail) /\ \A j \in 1 .. Len(d) : 1 + j \in 1 .. Len(tail)
      BY <2>3, <2>5
    <3> QED BY <2>3, <2>5, <3>1, <3>2, <3>3
  <2>8. w = Written(name, port)
    BY <1>4, <2>2, <2>4, <2>6 DEF Written
  <2>9. UpTo(w, {COLON}) = name
    <3>1. Len(name) + 1 \in 1 .. Len(w)
      BY <1>1, <2>3, <2>7
    <3>2. w[Len(name) + 1] \in {COLON} /\ \A j \in 1 .. (Len(name) + 1) - 1 : w[j] \notin {COLON}
      BY <1>1, <2>7
    <3>3. UpTo(w, {COLON}) = SubSeq(w, 1, (Len(name) + 1) - 1)
      BY <2>7, <3>1, <3>2, UpToStop
    <3>4. At(w, 0, name)
      BY <1>1, <2>3, <2>7 DEF At
    <3>5. SubSeq(w, 0 + 1, 0 + Len(name)) = name
      BY <1>1, <2>7, <3>4, AtCut
    <3>6. 0 + 1 = 1 /\ 0 + Len(name) = (Len(name) + 1) - 1
      BY <1>1
    <3> QED BY <3>3, <3>5, <3>6
  <2>10. SubSeq(w, Len(name) + 2, Len(w)) = d
    <3>1. At(w, Len(name) + 1, d)
      <4>1. (Len(name) + 1) + Len(d) <= Len(w)
        BY <1>1, <2>3, <2>7
      <4>2. \A j \in 1 .. Len(d) : (Len(name) + 1) + j = Len(name) + (1 + j)
        BY <1>1
      <4> QED BY <2>7, <4>1, <4>2 DEF At
    <3>2. d \in Seq(Char) /\ Len(name) + 1 \in Nat
      BY <1>1, <2>3
    <3>3. SubSeq(w, (Len(name) + 1) + 1, (Len(name) + 1) + Len(d)) = d
      BY <2>7, <3>1, <3>2, AtCut
    <3>4. (Len(name) + 1) + 1 = Len(name) + 2 /\ (Len(name) + 1) + Len(d) = Len(w)
      BY <1>1, <2>3, <2>7
    <3> QED BY <3>3, <3>4
  <2>11. w # name
    BY <1>1, <2>3, <2>7
  <2> QED BY <1>4, <2>2, <2>7, <2>8, <2>9, <2>10, <2>11
<1> QED BY <1>3, <1>4

\* Concatenation of texts is associative.
LEMMA CharsAssociative ==
  \A s, t, v \in Seq(Char) : (s \o t) \o v = s \o (t \o v)
<1>1. \A S : \A s, t, v \in Seq(S) : (s \o t) \o v = s \o (t \o v)
  BY ConcatAssociative, Zenon
<1> QED BY <1>1

\* A line that is the only one of its kind is read as it was written.
LEMMA LineRead ==
  ASSUME rest \in Seq(Char), NEW w \in {HOST, LOWER}, NEW k \in Lines(w),
         Lines(w) \cup Lines(HOST) = {k},
         NEW b \in Blanks, NEW name \in HostNames, NEW port \in Ports,
         Len(Written(name, port)) < MaxHostPort,
         IsPrefix(HostLine(w, b, name, port), SubSeq(rest, k, Len(rest)))
  PROVE  /\ parse_host_port(rest) # NoPlace
         /\ server_addr(parse_host_port(rest))
              = Place(name, IF port = NoPort THEN 80 ELSE port)
<1>1. PICK x \in Seq(Char \ {LF, CR, BLANK}) : x = Written(name, port)
  BY WrittenSays
<1>2. HostPort(rest) = x
  <2>1. k \in Nat /\ k >= 1 /\ k + 2 <= Len(rest) /\ Len(rest) \in Nat
    BY DEF Lines
  <2>2. PICK field \in Seq(Char) : field = <<LF, w, COLON>> /\ Len(field) = 3
    <3>1. w \in Char /\ LF \in Char /\ COLON \in Char
      BY DEF LF, COLON, HOST, LOWER, Char
    <3>2. <<LF, w, COLON>> \in Seq(Char) /\ Len(<<LF, w, COLON>>) = 3
      BY <3>1
    <3> QED BY <3>2
  <2>3. /\ b \in Seq({BLANK}) /\ b \in Seq(Char) /\ x \in Seq(Char) /\ <<CR>> \in Seq(Char)
    BY HostAssumption DEF BLANK, CR, Char
  <2>4. PICK value \in Seq(Char) : value = b \o (x \o <<CR>>)
    <3>1. x \o <<CR>> \in Seq(Char)
      BY <2>3, ConcatProperties
    <3> QED BY <2>3, <3>1, ConcatProperties
  <2>5. HostLine(w, b, name, port) = field \o value
    <3>1. HostLine(w, b, name, port) = ((field \o b) \o x) \o <<CR>>
      BY <1>1, <2>2 DEF HostLine
    <3>2. ((field \o b) \o x) \o <<CR>> = (field \o b) \o (x \o <<CR>>)
      <4>1. field \o b \in Seq(Char)
        BY <2>3, ConcatProperties
      <4> QED BY <2>3, <4>1, CharsAssociative, Zenon
    <3>3. (field \o b) \o (x \o <<CR>>) = field \o (b \o (x \o <<CR>>))
      <4>1. x \o <<CR>> \in Seq(Char)
        BY <2>3, ConcatProperties
      <4> QED BY <2>3, <4>1, CharsAssociative, Zenon
    <3> QED BY <2>4, <3>1, <3>2, <3>3
  <2>6. field \o value \in Seq(Char)
    BY ConcatProperties
  <2>7. At(rest, k - 1, field \o value)
    <3>1. k \in 1 .. Len(rest)
      BY <2>1
    <3> QED BY <2>5, <2>6, <3>1, AtPrefix
  <2>8. At(rest, (k - 1) + Len(field), value)
    <3>1. k - 1 \in Nat
      BY <2>1
    <3> QED BY <2>7, <3>1, AtConcat
  <2>9. PICK h \in 1 .. Len(rest) : h = k + 1
    BY <2>1
  <2>10. At(rest, h + 1, value)
    <3>1. (k - 1) + Len(field) = h + 1
      BY <2>1, <2>2, <2>9
    <3> QED BY <2>8, <3>1
  <2>11. HostPlaces(rest) = {h}
    BY <2>9, PlaceTaken
  <2>12. At(rest, h + 1, b \o (x \o <<CR>>))
    BY <2>4, <2>10
  <2> QED BY <1>1, <2>3, <2>11, <2>12, HostPortIs
<1>3. HostPlaces(rest) # {}
  BY PlaceTaken
<1>4. PICK front : front = UpTo(x, {COLON})
  OBVIOUS
<1>5. /\ front = name /\ (front = x <=> port = NoPort)
      /\ port # NoPort => atoi(SubSeq(x, Len(front) + 2, Len(x))) = port
  BY <1>1, <1>4, WrittenSays
<1>6. parse_host_port(rest) = Place(name, IF port = NoPort THEN 80 ELSE port)
  <2>1. parse_host_port(rest) =
          IF front = x THEN Place(front, 80)
          ELSE Place(front, atoi(SubSeq(x, Len(front) + 2, Len(x))))
    BY <1>2, <1>3, <1>4, Zenon DEF parse_host_port
  <2> QED BY <1>5, <2>1
<1>7. 80 % 2^PortBits = 80
  <2>1. PICK size \in Nat : size = 2^PortBits /\ 80 < size
    BY HostFieldAssumption, PowPositive
  <2> QED BY <2>1
<1>8. port = NoPort \/ (port \in Nat /\ port % 2^PortBits = port)
  BY PortRange
<1>9. parse_host_port(rest).port # -1
  BY <1>6, <1>8 DEF Place
<1>10. parse_host_port(rest) # NoPlace
  BY <1>9 DEF NoPlace, Place
<1>11. server_addr(Place(name, IF port = NoPort THEN 80 ELSE port))
         = Place(name, (IF port = NoPort THEN 80 ELSE port) % 2^PortBits)
  BY DEF server_addr, Place
<1> QED BY <1>6, <1>7, <1>8, <1>10, <1>11

\* What is connected to is what parse_host_port has made of the request.
TargetInv ==
  /\ rest \in Seq(Char)
  /\ target = IF parse_host_port(rest) = NoPlace THEN NoPlace
              ELSE server_addr(parse_host_port(rest))

\* It holds from the request that is granted to the next one that arrives.
LEMMA TargetInvariance == LoginSpec => []TargetInv
<1>0. <<>> \in Seq(Char) /\ parse_host_port(<<>>) = NoPlace
  <2>1. HostPlaces(<<>>) = {}
    BY DEF HostPlaces, FieldPlaces
  <2> QED BY <2>1 DEF parse_host_port
<1>1. LoginInit => TargetInv
  BY <1>0 DEF LoginInit, TargetInv
<1>2. TargetInv /\ [LoginNext]_login => TargetInv'
  <2> SUFFICES ASSUME TargetInv, [LoginNext]_login PROVE TargetInv'
    OBVIOUS
  <2>1. CASE UNCHANGED <<rest, target>>
    BY <2>1 DEF TargetInv
  <2>2. CASE cmd_add \/ cmd_remove \/ Decoding \/ Fails \/ UNCHANGED login
    BY <2>1, <2>2 DEF cmd_add, cmd_remove, Decoding, Fails, login
  <2>3. CASE Arrives
    <3>1. rest' = <<>> /\ target' = NoPlace
      BY <2>3 DEF Arrives
    <3> QED BY <1>0, <3>1 DEF TargetInv
  <2>4. CASE Answers
    <3>1. CASE granted'
      <4>1. /\ rest' \in Seq(Char)
            /\ target' = IF parse_host_port(rest') = NoPlace THEN NoPlace
                         ELSE server_addr(parse_host_port(rest'))
        BY <2>4, <3>1, HostAssumption DEF Answers
      <4> QED BY <4>1 DEF TargetInv
    <3>2. CASE ~granted'
      BY <2>1, <2>4, <3>2 DEF Answers
    <3> QED BY <3>1, <3>2
  <2> QED BY <2>2, <2>3, <2>4 DEF LoginNext
<1> QED BY <1>1, <1>2, PTL DEF LoginSpec

\* util.c:7-50, connection.c:37: for any names, ports, blanks and texts, a
\* request is connected to the host and the port of its only Host line, whatever
\* else stands in it, and to nothing without one.
THEOREM ConnectsAsAsked == LoginSpec => []TargetAsAsked
<1>1. TargetInv => TargetAsAsked
  <2> SUFFICES ASSUME TargetInv PROVE TargetAsAsked
    OBVIOUS
  <2>1. rest \in Seq(Char)
    BY DEF TargetInv
  <2>2. target # NoPlace => Lines(HOST) \cup Lines(LOWER) # {}
    <3> SUFFICES ASSUME Lines(HOST) = {}, Lines(LOWER) = {} PROVE target = NoPlace
      OBVIOUS
    <3>1. HostPlaces(rest) = {}
      BY <2>1, FieldPlace DEF HostPlaces
    <3>2. parse_host_port(rest) = NoPlace
      BY <3>1 DEF parse_host_port
    <3> QED BY <3>2 DEF TargetInv
  <2>3. ASSUME NEW w \in {HOST, LOWER}, NEW b \in Blanks, NEW name \in HostNames,
               NEW port \in Ports, Len(Written(name, port)) < MaxHostPort,
               NEW k \in Lines(w), Lines(w) \cup Lines(HOST) = {k},
               IsPrefix(HostLine(w, b, name, port), SubSeq(rest, k, Len(rest)))
        PROVE  target = Place(name, IF port = NoPort THEN 80 ELSE port)
    BY <2>1, <2>3, LineRead DEF TargetInv
  <2> QED BY <2>2, <2>3 DEF TargetAsAsked
<1> QED BY TargetInvariance, <1>1, PTL
=============================================================================
