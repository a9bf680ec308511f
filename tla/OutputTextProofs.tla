-------------------------- MODULE OutputTextProofs --------------------------
(***************************************************************************)
(* Theorems about what is printed, for arrays of any length and registers  *)
(* with any values: the text of an array reads back as its bytes, and a    *)
(* call of print_registers prints each register it is asked for.           *)
(*                                                                         *)
(* The first needs the layout of the text, with the place of every byte in *)
(* it; that there are as many digits before a byte's as a reader expects   *)
(* is then a bijection between numbers and places.                         *)
(***************************************************************************)
EXTENDS OutputProofs, FunctionTheorems, FiniteSetTheorems, SequenceTheorems

(* The byte printed after n others.                                        *)
Byte(n) == array[IF reversed THEN Len(array) - n ELSE n + 1]

(* Where its first digit is, behind a prefix, two digits for every byte    *)
(* before it, a separator after every second one, of two characters after  *)
(* every sixteenth.                                                        *)
Place(n) == 2 + 2 * n + n \div 2 + (IF reversed THEN 0 ELSE n \div 16)

(* Where the m-th digit of the text is.                                    *)
DigitPlace(m) == Place(m \div 2) + (m % 2)

Printing ==
  /\ reversed \in BOOLEAN
  /\ array \in Seq(0 .. 255)
  /\ i \in 0 .. Len(array)
  /\ text \in Seq(Nat)

(* The digits of every byte are in their places,                           *)
DigitsThere ==
  \A n \in 0 .. i - 1 :
    /\ text[Place(n)] = convert_byte_to_char(Byte(n), TRUE)
    /\ text[Place(n) + 1] = convert_byte_to_char(Byte(n), FALSE)

(* and nothing else is a digit.                                            *)
NothingElse ==
  \A p \in 1 .. Len(text) :
    \/ \E n \in 0 .. i - 1 : p = Place(n) \/ p = Place(n) + 1
    \/ text[p] \in {Prefix, Newline, Space}

(* A line ends after every sixteenth byte and nowhere else.                *)
BreaksThere ==
  \A n \in 1 .. i :
    ~reversed /\ n % 16 = 0 => /\ text[Place(n) - 2] = Newline
                               /\ text[Place(n) - 1] = Prefix

NoOtherBreaks ==
  \A p \in 1 .. Len(text) :
    text[p] = Newline =>
      ~reversed /\ \E n \in 1 .. i : n % 16 = 0 /\ p = Place(n) - 2

Layout ==
  /\ Len(text) = Place(i) - 1
  /\ text[1] = Prefix
  /\ DigitsThere
  /\ NothingElse
  /\ BreaksThere
  /\ NoOtherBreaks

TextInv == pc = "print_in_hex" => Printing /\ Layout

(* What the program prints backwards fits a line, which the code does not  *)
(* break.                                                                  *)
OneLine == reversed => Len(array) <= 16
OneLineInv == pc = "print_in_hex" => OneLine

-----------------------------------------------------------------------------
(* What a character of convert_byte_to_char is worth.                      *)
LEMMA Characters ==
  ASSUME NEW b \in 0 .. 255, NEW high \in BOOLEAN
  PROVE  /\ convert_byte_to_char(b, high) \in Nat
         /\ convert_byte_to_char(b, high) # Newline
         /\ IsDigit(convert_byte_to_char(b, high))
         /\ ValueOf(convert_byte_to_char(b, high)) = Half(b, high)
  BY DEF convert_byte_to_char, IsDigit, ValueOf, Half, Newline

LEMMA NoCharacters ==
  ASSUME NEW c \in {Prefix, Newline, Space}
  PROVE  ~IsDigit(c) /\ c \in Nat
  BY DEF Prefix, Newline, Space, IsDigit

LEMMA Bytes0 ==
  ASSUME Printing, NEW n \in 0 .. Len(array) - 1
  PROVE  Byte(n) \in 0 .. 255
  <1> DEFINE k == IF reversed THEN Len(array) - n ELSE n + 1
  <1>1. array \in Seq(0 .. 255) /\ Len(array) \in Nat /\ k \in 1 .. Len(array)
    BY DEF Printing
  <1>2. array[k] \in 0 .. 255
    BY <1>1, ElementOfSeq, Zenon
  <1> QED BY <1>2 DEF Byte

(* Places are numbers, two digits apart or more.                           *)
LEMMA Places ==
  ASSUME reversed \in BOOLEAN, NEW n \in Nat
  PROVE  /\ Place(n) \in Nat /\ Place(n) >= 2
         /\ ~reversed /\ n % 16 = 15 => Place(n + 1) = Place(n) + 4
         /\ ~(~reversed /\ n % 16 = 15) /\ n % 2 = 1 => Place(n + 1) = Place(n) + 3
         /\ n % 2 = 0 => Place(n + 1) = Place(n) + 2
  BY DEF Place

LEMMA PlacesApart ==
  ASSUME reversed \in BOOLEAN, NEW n \in Nat, NEW k \in Nat, n < k
  PROVE  /\ Place(n) + 2 <= Place(k)
         /\ ~reversed /\ k % 16 = 0 => Place(n) + 4 <= Place(k)
  BY DEF Place

LEMMA DigitPlaces ==
  ASSUME reversed \in BOOLEAN, NEW m \in Nat
  PROVE  /\ DigitPlace(m) \in Nat
         /\ \A k \in Nat : m < k => DigitPlace(m) < DigitPlace(k)
  <1>1. ASSUME NEW k \in Nat
        PROVE  k \div 2 \in Nat /\ k % 2 \in 0 .. 1 /\ k = 2 * (k \div 2) + (k % 2)
    OBVIOUS
  <1>2. DigitPlace(m) \in Nat
    BY <1>1, Places DEF DigitPlace
  <1>3. ASSUME NEW k \in Nat, m < k PROVE DigitPlace(m) < DigitPlace(k)
    <2>1. CASE m \div 2 = k \div 2
      BY <1>1, <1>3, <2>1, Places DEF DigitPlace
    <2>2. CASE m \div 2 < k \div 2
      <3>1. Place(m \div 2) + 2 <= Place(k \div 2)
        BY <1>1, <2>2, PlacesApart
      <3>2. Place(m \div 2) \in Nat /\ Place(k \div 2) \in Nat
        BY <1>1, Places
      <3> QED BY <1>1, <3>1, <3>2 DEF DigitPlace
    <2> QED BY <1>1, <1>3, <2>1, <2>2
  <1> QED BY <1>2, <1>3

(* The m-th digit is in its place, and is half of byte m \div 2.            *)
LEMMA DigitOf ==
  ASSUME Printing, Layout, NEW m, m \in 0 .. 2 * i - 1
  PROVE  /\ DigitPlace(m) \in Digits(text)
         /\ ValueOf(text[DigitPlace(m)]) = Half(Byte(m \div 2), m % 2 = 0)
  <1>1. i \in 0 .. Len(array) /\ i \in Nat /\ Len(array) \in Nat
        /\ reversed \in BOOLEAN /\ text \in Seq(Nat) /\ Len(text) \in Nat
    BY DEF Printing
  <1> DEFINE n == m \div 2
  <1>2. n \in 0 .. i - 1 /\ n \in Nat /\ m % 2 \in {0, 1}
    BY <1>1
  <1>3. n \in 0 .. Len(array) - 1
    BY <1>1, <1>2
  <1>4. Byte(n) \in 0 .. 255
    BY <1>3, Bytes0
  <1> HIDE DEF n
  <1>5. Place(n) + 2 <= Place(i) /\ Place(n) \in Nat /\ Place(n) >= 2
        /\ Place(i) \in Nat
    <2>1. i \in Nat /\ n \in Nat /\ n < i
      BY <1>1, <1>2
    <2>2. Place(n) + 2 <= Place(i)
      BY <1>1, <2>1, PlacesApart
    <2>3. Place(n) \in Nat /\ Place(n) >= 2
      BY ONLY <1>1, <2>1, Places
    <2>4. Place(i) \in Nat
      BY ONLY <1>1, <2>1, Places
    <2> QED BY <2>2, <2>3, <2>4
  <1>6. /\ text[Place(n)] = convert_byte_to_char(Byte(n), TRUE)
        /\ text[Place(n) + 1] = convert_byte_to_char(Byte(n), FALSE)
        /\ Len(text) = Place(i) - 1
    BY <1>2 DEF Layout, DigitsThere
  <1>7. DOMAIN text = 1 .. Len(text)
    BY <1>1
  <1>8. DigitPlace(m) = Place(n) + (m % 2)
    BY DEF DigitPlace, n
  <1>9. text[DigitPlace(m)] = convert_byte_to_char(Byte(n), m % 2 = 0)
        /\ DigitPlace(m) \in DOMAIN text
    <2>1. CASE m % 2 = 0
      <3>1. DigitPlace(m) = Place(n) /\ (m % 2 = 0) = TRUE
        BY <1>5, <1>8, <2>1
      <3>2. Place(n) \in 1 .. Len(text)
        BY <1>5, <1>6
      <3> QED BY <1>6, <1>7, <3>1, <3>2
    <2>2. CASE m % 2 = 1
      <3>1. DigitPlace(m) = Place(n) + 1 /\ (m % 2 = 0) = FALSE
        BY <1>5, <1>8, <2>2
      <3>2. Place(n) + 1 \in 1 .. Len(text)
        BY <1>5, <1>6
      <3> QED BY <1>6, <1>7, <3>1, <3>2
    <2> QED BY <1>2, <2>1, <2>2
  <1>10. (m % 2 = 0) \in BOOLEAN
    OBVIOUS
  <1>11. IsDigit(text[DigitPlace(m)])
         /\ ValueOf(text[DigitPlace(m)]) = Half(Byte(n), m % 2 = 0)
    BY <1>4, <1>9, <1>10, Characters
  <1> QED BY <1>9, <1>11 DEF Digits, n

(* There are no other digits.                                              *)
LEMMA DigitFrom ==
  ASSUME Printing, Layout, NEW p \in Digits(text)
  PROVE  \E m : m \in 0 .. 2 * i - 1 /\ p = DigitPlace(m)
  <1>1. i \in Nat /\ text \in Seq(Nat) /\ reversed \in BOOLEAN
    BY DEF Printing
  <1>2. p \in 1 .. Len(text) /\ IsDigit(text[p])
    BY <1>1 DEF Digits
  <1>3. text[p] \notin {Prefix, Newline, Space}
    BY <1>2, NoCharacters
  <1>4. PICK n \in 0 .. i - 1 : p = Place(n) \/ p = Place(n) + 1
    BY <1>2, <1>3 DEF Layout, NothingElse
  <1>5. n \in Nat
    BY <1>1, <1>4
  <1>6. Place(n) \in Nat
    BY <1>1, <1>5, Places
  <1>7. CASE p = Place(n)
    <2>1. 2 * n \in 0 .. 2 * i - 1 /\ (2 * n) \div 2 = n /\ (2 * n) % 2 = 0
      BY <1>1, <1>4, <1>5
    <2> QED BY <1>6, <1>7, <2>1 DEF DigitPlace
  <1>8. CASE p = Place(n) + 1
    <2>1. 2 * n + 1 \in 0 .. 2 * i - 1 /\ (2 * n + 1) \div 2 = n
          /\ (2 * n + 1) % 2 = 1
      BY <1>1, <1>4, <1>5
    <2> QED BY <1>6, <1>8, <2>1 DEF DigitPlace
  <1> QED BY <1>4, <1>7, <1>8

(* Numbers and places correspond, so that there are m digits before the    *)
(* m-th.                                                                   *)
LEMMA Counted ==
  ASSUME Printing, NEW m \in Nat, NEW S,
         \A k : k \in 0 .. m - 1 => DigitPlace(k) \in S,
         \A p \in S : \E k : k \in 0 .. m - 1 /\ p = DigitPlace(k)
  PROVE  IsFiniteSet(S) /\ Cardinality(S) = m
  <1> DEFINE f == [k \in 0 .. m - 1 |-> DigitPlace(k)]
  <1>1. reversed \in BOOLEAN
    BY DEF Printing
  <1>2. f \in [0 .. m - 1 -> S]
    OBVIOUS
  <1>3. ASSUME NEW j \in 0 .. m - 1, NEW k \in 0 .. m - 1, f[j] = f[k]
        PROVE  j = k
    <2>1. /\ DigitPlace(j) \in Nat /\ DigitPlace(k) \in Nat
          /\ j < k => DigitPlace(j) < DigitPlace(k)
          /\ k < j => DigitPlace(k) < DigitPlace(j)
      BY <1>1, DigitPlaces
    <2> QED BY <1>3, <2>1
  <1>4. \A p \in S : \E k \in 0 .. m - 1 : f[k] = p
    OBVIOUS
  <1> HIDE DEF f
  <1>5. f \in Bijection(0 .. m - 1, S)
    BY <1>2, <1>3, <1>4, Fun_IsBij
  <1>6. ExistsBijection(0 .. m - 1, S)
    BY <1>5 DEF ExistsBijection
  <1>7. IsFiniteSet(0 .. m - 1) /\ Cardinality(0 .. m - 1) = m
    BY FS_Interval
  <1> QED BY <1>6, <1>7, FS_Bijection

LEMMA Rank ==
  ASSUME Printing, Layout, NEW m, m \in 0 .. 2 * i - 1
  PROVE  DigitsBefore(text, DigitPlace(m)) = m
  <1> DEFINE S == {q \in Digits(text) : q < DigitPlace(m)}
  <1>1. m \in Nat /\ i \in Nat /\ reversed \in BOOLEAN
    BY DEF Printing
  <1>2. ASSUME NEW k, k \in 0 .. m - 1 PROVE DigitPlace(k) \in S
    <2>1. k \in 0 .. 2 * i - 1 /\ k \in Nat /\ k < m
      BY <1>1, <1>2
    <2>2. DigitPlace(k) \in Digits(text)
      BY <2>1, DigitOf
    <2>3. DigitPlace(k) < DigitPlace(m)
      BY <1>1, <2>1, DigitPlaces
    <2> QED BY <2>2, <2>3
  <1>3. ASSUME NEW p \in S PROVE \E k : k \in 0 .. m - 1 /\ p = DigitPlace(k)
    <2>1. PICK k : k \in 0 .. 2 * i - 1 /\ p = DigitPlace(k)
      BY DigitFrom
    <2>2. k \in Nat
      BY <2>1
    <2>3. DigitPlace(k) < DigitPlace(m)
      BY <2>1
    <2>4. ~(m < k) /\ m # k
      <3>1. DigitPlace(m) \in Nat /\ DigitPlace(k) \in Nat
        BY <1>1, <2>2, DigitPlaces
      <3>2. m < k => DigitPlace(m) < DigitPlace(k)
        BY <1>1, <2>2, DigitPlaces
      <3> QED BY <2>3, <3>1, <3>2
    <2> QED BY <1>1, <2>1, <2>2, <2>4
  <1> HIDE DEF S
  <1>4. Cardinality(S) = m
    BY <1>1, <1>2, <1>3, Counted
  <1> QED BY <1>4 DEF DigitsBefore, S

(* The text reads back.                                                    *)
LEMMA Reading ==
  ASSUME Printing, Layout
  PROVE  ReadsAs(text, SubSeq(IF reversed THEN Reverse(array) ELSE array, 1, i))
  <1> DEFINE bytes == SubSeq(IF reversed THEN Reverse(array) ELSE array, 1, i)
  <1>1. i \in 0 .. Len(array) /\ i \in Nat /\ Len(array) \in Nat
        /\ array \in Seq(0 .. 255) /\ reversed \in BOOLEAN
    BY DEF Printing
  <1>2. Len(bytes) = i /\ \A n \in 0 .. i - 1 : bytes[n + 1] = Byte(n)
    <2>1. CASE reversed
      <3>1. Reverse(array) = [k \in 1 .. Len(array) |-> array[Len(array) - k + 1]]
        BY DEF Reverse
      <3>2. bytes = [k \in 1 .. i |-> Reverse(array)[k]]
        BY <1>1, <2>1, <3>1
      <3> HIDE DEF bytes
      <3>3. ASSUME NEW k \in 1 .. i PROVE bytes[k] = array[Len(array) - k + 1]
        <4>1. k \in 1 .. Len(array)
          BY <1>1
        <4>2. Reverse(array)[k] = array[Len(array) - k + 1]
          BY <3>1, <4>1
        <4> QED BY <3>2, <4>2
      <3>4. Len(bytes) = i
        BY <1>1, <3>2
      <3>5. \A n \in 0 .. i - 1 : bytes[n + 1] = array[Len(array) - n]
        <4> SUFFICES ASSUME NEW n \in 0 .. i - 1
                     PROVE  bytes[n + 1] = array[Len(array) - n]
          OBVIOUS
        <4>1. n + 1 \in 1 .. i /\ Len(array) - (n + 1) + 1 = Len(array) - n
          BY <1>1
        <4> QED BY <3>3, <4>1
      <3> QED BY <1>1, <2>1, <3>4, <3>5 DEF Byte
    <2>2. CASE ~reversed
      <3>1. bytes = [k \in 1 .. i |-> array[k]]
        BY <1>1, <2>2
      <3>2. Len(bytes) = i
        BY <1>1, <3>1
      <3> QED BY <1>1, <2>2, <3>1, <3>2 DEF Byte
    <2> QED BY <1>1, <2>1, <2>2
  <1> HIDE DEF bytes
  <1>3. Cardinality(Digits(text)) = 2 * i
    <2>1. 2 * i \in Nat
      BY <1>1
    <2>2. \A k : k \in 0 .. 2 * i - 1 => DigitPlace(k) \in Digits(text)
      BY DigitOf
    <2>3. \A p \in Digits(text) : \E k : k \in 0 .. 2 * i - 1 /\ p = DigitPlace(k)
      BY DigitFrom
    <2> QED BY <2>1, <2>2, <2>3, Counted
  <1>4. ASSUME NEW p \in Digits(text)
        PROVE  ValueOf(text[p]) = Half(bytes[DigitsBefore(text, p) \div 2 + 1],
                                       DigitsBefore(text, p) % 2 = 0)
    <2>1. PICK m : m \in 0 .. 2 * i - 1 /\ p = DigitPlace(m)
      BY DigitFrom
    <2>2. DigitsBefore(text, p) = m
      BY <2>1, Rank
    <2>3. ValueOf(text[p]) = Half(Byte(m \div 2), m % 2 = 0)
      BY <2>1, DigitOf
    <2>4. m \div 2 \in 0 .. i - 1
      BY <1>1, <2>1
    <2>5. bytes[m \div 2 + 1] = Byte(m \div 2)
      BY <1>2, <2>4
    <2> QED BY <2>2, <2>3, <2>5
  <1> QED BY <1>2, <1>3, <1>4 DEF ReadsAs, bytes

(* A line is that of the sixteen bytes from some n0 on: its start, if it   *)
(* is no break, is the text's.                                             *)
Starts(start, n) ==
  \/ start = 0 /\ n = 0
  \/ start \in Breaks /\ ~reversed /\ n \in 1 .. i /\ n % 16 = 0
                      /\ start = Place(n) - 2

LEMMA StartOf ==
  ASSUME Printing, Layout, NEW start \in Breaks \cup {0}
  PROVE  \E n \in Nat : Starts(start, n)
  <1>1. CASE start = 0
    BY <1>1 DEF Starts
  <1>2. CASE start \in Breaks
    <2>1. start \in 1 .. Len(text) /\ text[start] = Newline
      BY <1>2 DEF Breaks, Printing
    <2>2. ~reversed /\ \E n \in 1 .. i : n % 16 = 0 /\ start = Place(n) - 2
      BY <2>1 DEF Layout, NoOtherBreaks
    <2>3. PICK n \in 1 .. i : n % 16 = 0 /\ start = Place(n) - 2
      BY <2>2
    <2>4. n \in Nat
      BY <2>3
    <2> QED BY <1>2, <2>2, <2>3, <2>4 DEF Starts
  <1> QED BY <1>1, <1>2

LEMMA StartPlace ==
  ASSUME Printing, Layout, NEW n \in Nat, NEW start, Starts(start, n)
  PROVE  /\ start \in Nat
         /\ text[start + 1] = Prefix
         /\ \A k \in Nat : k < n => Place(k) + 1 < start
  <1>1. reversed \in BOOLEAN /\ i \in Nat
    BY DEF Printing
  <1>2. CASE start = 0 /\ n = 0
    BY <1>2 DEF Layout
  <1>3. CASE start \in Breaks /\ ~reversed /\ n \in 1 .. i /\ n % 16 = 0
             /\ start = Place(n) - 2
    <2>1. Place(n) \in Nat /\ Place(n) >= 2
      BY <1>1, Places
    <2>2. text[Place(n) - 1] = Prefix
      BY <1>3 DEF Layout, BreaksThere
    <2>3. ASSUME NEW k \in Nat, k < n PROVE Place(k) + 1 < start
      <3>1. Place(k) + 4 <= Place(n)
        BY <1>1, <1>3, <2>3, PlacesApart
      <3>2. Place(k) \in Nat
        BY <1>1, Places
      <3> QED BY <1>3, <2>1, <3>1, <3>2
    <2>4. start + 1 = Place(n) - 1 /\ start \in Nat
      BY <1>3, <2>1
    <2> QED BY <2>2, <2>3, <2>4
  <1> QED BY <1>2, <1>3 DEF Starts

(* No more than sixteen bytes are in a line.                               *)
LEMMA LineBytes ==
  ASSUME Printing, Layout, OneLine, NEW n \in Nat, NEW start, Starts(start, n),
         NEW p \in Digits(text) \cap Line(start)
  PROVE  \E m \in 2 * n .. 2 * n + 31 : p = DigitPlace(m)
  <1>1. reversed \in BOOLEAN /\ i \in Nat /\ Len(array) \in Nat /\ i <= Len(array)
        /\ (reversed => Len(array) <= 16) /\ DOMAIN text = 1 .. Len(text)
    BY DEF Printing, OneLine
  <1>2. PICK m : m \in 0 .. 2 * i - 1 /\ p = DigitPlace(m)
    BY DigitFrom
  <1> DEFINE k == m \div 2
  <1>3. m \in Nat /\ k \in Nat /\ k < i /\ m % 2 \in {0, 1} /\ m = 2 * k + (m % 2)
    BY <1>1, <1>2
  <1> HIDE DEF k
  <1>4. Place(k) \in Nat
    BY <1>1, <1>3, Places
  <1>5. p = Place(k) + (m % 2)
    BY <1>2 DEF DigitPlace, k
  <1>6. p > start /\ \A b \in Breaks : b <= start \/ p < b
    BY DEF Line
  <1>7. start \in Nat /\ ~(k < n)
    <2>1. start \in Nat /\ (k < n => Place(k) + 1 < start)
      BY <1>3, StartPlace
    <2> QED BY <1>3, <1>4, <1>5, <1>6, <2>1
  <1>8. ASSUME k >= n + 16 PROVE FALSE
    <2>1. ~reversed /\ n % 16 = 0
      BY <1>1, <1>3, <1>8 DEF Starts
    <2> DEFINE e == n + 16
    <2>2. e \in 1 .. i /\ e \in Nat /\ e % 16 = 0 /\ n < e /\ e <= k
      BY <1>1, <1>3, <1>8, <2>1
    <2> HIDE DEF e
    <2>3. text[Place(e) - 2] = Newline
      BY <2>1, <2>2 DEF Layout, BreaksThere
    <2>4. Place(e) \in Nat /\ Place(e) >= 2
      BY <1>1, <2>2, Places
    <2>5. Place(n) + 4 <= Place(e) /\ Place(n) \in Nat /\ Place(n) >= 2
      <3>1. Place(n) + 4 <= Place(e)
        BY <1>1, <2>1, <2>2, PlacesApart
      <3> QED BY <1>1, <3>1, Places
    <2>6. Place(e) <= Place(k)
      <3>1. CASE e = k
        BY <1>4, <3>1
      <3>2. CASE e < k
        <4>1. Place(e) + 2 <= Place(k)
          BY <1>1, <1>3, <2>2, <3>2, PlacesApart
        <4> QED BY <1>4, <2>4, <4>1
      <3> QED BY <1>3, <2>2, <3>1, <3>2
    <2>7. Place(k) + 2 <= Place(i) /\ Place(i) \in Nat
      <3>1. Place(k) + 2 <= Place(i)
        BY <1>1, <1>3, PlacesApart
      <3> QED BY <1>1, <3>1, Places
    <2>8. Len(text) = Place(i) - 1
      BY DEF Layout
    <2>9. Place(e) - 2 \in 1 .. Len(text)
      BY <1>4, <2>4, <2>5, <2>6, <2>7, <2>8
    <2>10. Place(e) - 2 \in Breaks
      BY <1>1, <2>3, <2>9 DEF Breaks
    <2>11. Place(e) - 2 > start
      <3>1. start = 0 \/ start = Place(n) - 2
        BY DEF Starts
      <3> QED BY <2>4, <2>5, <3>1
    <2>12. p < Place(e) - 2
      BY <1>6, <1>7, <2>4, <2>10, <2>11
    <2> QED BY <1>3, <1>4, <1>5, <2>4, <2>6, <2>12
  <1>9. m \in 2 * n .. 2 * n + 31
    BY <1>3, <1>7, <1>8
  <1> QED BY <1>2, <1>9

LEMMA LineStart ==
  ASSUME Printing, Layout, NEW start \in Breaks \cup {0}
  PROVE  text[start + 1] = Prefix
  BY StartOf, StartPlace

LEMMA Lines ==
  ASSUME Printing, Layout, OneLine, NEW start \in Breaks \cup {0}
  PROVE  Cardinality(Digits(text) \cap Line(start)) <= 2 * 16
  <1>1. PICK n \in Nat : Starts(start, n)
    BY StartOf
  <1> DEFINE M == 2 * n .. 2 * n + 31
             T == {DigitPlace(m) : m \in M}
             f == [m \in M |-> DigitPlace(m)]
  <1>2. IsFiniteSet(M) /\ Cardinality(M) = 32
    BY FS_Interval
  <1>3. f \in Surjection(M, T)
    BY Fun_IsSurj
  <1> HIDE DEF M, f
  <1>4. IsFiniteSet(T) /\ Cardinality(T) <= 32
    BY <1>2, <1>3, FS_Surjection
  <1>5. Digits(text) \cap Line(start) \in SUBSET T
    BY <1>1, LineBytes DEF M
  <1> DEFINE D == Digits(text) \cap Line(start)
  <1> HIDE DEF T, D
  <1>6. IsFiniteSet(D) /\ Cardinality(D) <= Cardinality(T)
    BY <1>4, <1>5, FS_Subset DEF D
  <1>7. Cardinality(D) \in Nat /\ Cardinality(T) \in Nat
    BY <1>4, <1>6, FS_CardinalityType
  <1>8. Cardinality(D) <= 2 * 16
    BY <1>4, <1>6, <1>7
  <1> QED BY <1>8 DEF D

LEMMA LayoutReads == TextInv /\ OneLineInv => TextReadsBack
  BY Reading, LineStart, Lines DEF TextInv, OneLineInv, TextReadsBack

LEMMA NoBreakBackwards ==
  ASSUME Printing, Layout, reversed
  PROVE  Breaks = {}
  BY DEF Layout, NoOtherBreaks, Breaks, Printing

LEMMA LayoutReadsEitherWay == TextInv => HexReadsBack
  <1> SUFFICES ASSUME Printing, Layout PROVE
        /\ ReadsAs(text, SubSeq(IF reversed THEN Reverse(array) ELSE array, 1, i))
        /\ \A start \in Breaks \cup {0} :
             /\ text[start + 1] = Prefix
             /\ ~reversed => Cardinality(Digits(text) \cap Line(start)) <= 2 * 16
        /\ reversed => Breaks = {}
    BY DEF TextInv, HexReadsBack
  <1>1. ~reversed => OneLine
    BY DEF OneLine
  <1> QED BY <1>1, Reading, LineStart, Lines, NoBreakBackwards

-----------------------------------------------------------------------------
LEMMA OneMore ==
  ASSUME NEW s \in Seq(Nat), NEW a \in Nat
  PROVE  /\ s \o <<a>> \in Seq(Nat) /\ Len(s \o <<a>>) = Len(s) + 1
         /\ \A p \in 1 .. Len(s) : (s \o <<a>>)[p] = s[p]
         /\ (s \o <<a>>)[Len(s) + 1] = a
  OBVIOUS

LEMMA TwoMore ==
  ASSUME NEW s \in Seq(Nat), NEW a \in Nat, NEW b \in Nat
  PROVE  /\ s \o <<a, b>> \in Seq(Nat) /\ Len(s \o <<a, b>>) = Len(s) + 2
         /\ \A p \in 1 .. Len(s) : (s \o <<a, b>>)[p] = s[p]
         /\ (s \o <<a, b>>)[Len(s) + 1] = a
         /\ (s \o <<a, b>>)[Len(s) + 2] = b
  OBVIOUS

LEMMA NoneMore ==
  ASSUME NEW s \in Seq(Nat)
  PROVE  s \o <<>> = s
  OBVIOUS

LEMMA Remainders ==
  ASSUME NEW n \in Nat
  PROVE  /\ n % 16 = 15 <=> (n + 1) % 16 = 0
         /\ n % 16 # 16
         /\ n % 2 \in {0, 1}
  OBVIOUS

(* What print_byte appends: two digits                                     *)
TwoDigits ==
  /\ text' \in Seq(Nat)
  /\ Len(text') = Place(i + 1) - 1
  /\ \A p \in 1 .. Len(text) : text'[p] = text[p]
  /\ text'[Place(i)] = convert_byte_to_char(Byte(i), TRUE)
  /\ text'[Place(i) + 1] = convert_byte_to_char(Byte(i), FALSE)

(* and what is before the next place.                                      *)
Separated ==
  \/ /\ ~reversed /\ (i + 1) % 16 = 0
     /\ Place(i + 1) = Place(i) + 4
     /\ text'[Place(i) + 2] = Newline /\ text'[Place(i) + 3] = Prefix
  \/ /\ reversed \/ (i + 1) % 16 # 0
     /\ \/ Place(i + 1) = Place(i) + 3 /\ text'[Place(i) + 2] = Space
        \/ Place(i + 1) = Place(i) + 2

LEMMA Appended ==
  ASSUME Printing, Layout, print_byte
  PROVE  TwoDigits /\ Separated
  <1> DEFINE hi == convert_byte_to_char(Byte(i), TRUE)
             lo == convert_byte_to_char(Byte(i), FALSE)
             u == text \o <<hi, lo>>
  <1>1. /\ i \in Nat /\ reversed \in BOOLEAN /\ text \in Seq(Nat)
        /\ Len(text) \in Nat /\ i \in 0 .. Len(array) - 1 /\ Len(array) \in Nat
    BY DEF Printing, print_byte
  <1>2. hi \in Nat /\ lo \in Nat
    <2>1. Byte(i) \in 0 .. 255
      BY <1>1, Bytes0
    <2> QED BY <2>1, Characters
  <1>3. text' = u \o Separator(i)
    BY DEF print_byte, Current, Byte
  <1>4. Len(text) = Place(i) - 1 /\ Place(i) \in Nat /\ Place(i) >= 2
    BY <1>1, Places DEF Layout
  <1> HIDE DEF hi, lo
  <1>5. /\ u \in Seq(Nat) /\ Len(u) = Len(text) + 2
        /\ \A p \in 1 .. Len(text) : u[p] = text[p]
        /\ u[Len(text) + 1] = hi /\ u[Len(text) + 2] = lo
    BY <1>1, <1>2, TwoMore
  <1> HIDE DEF u
  <1>6. /\ Len(text) + 1 = Place(i) /\ Len(text) + 2 = Place(i) + 1
        /\ Len(u) + 1 = Place(i) + 2 /\ Len(u) + 2 = Place(i) + 3
        /\ Len(text) + 1 \in 1 .. Len(u) /\ Len(text) + 2 \in 1 .. Len(u)
        /\ \A p \in 1 .. Len(text) : p \in 1 .. Len(u)
    <2>1. Len(u) = Len(text) + 2 /\ Len(text) \in Nat
          /\ Len(text) = Place(i) - 1 /\ Place(i) \in Nat
      BY <1>1, <1>4, <1>5
    <2>2. \A p \in 1 .. Len(text) : p \in 1 .. Len(u)
      BY ONLY <2>1
    <2> QED BY ONLY <2>1, <2>2
  <1>7. ASSUME text' \in Seq(Nat), Len(text') = Place(i + 1) - 1,
               \A p \in 1 .. Len(u) : text'[p] = u[p]
        PROVE  TwoDigits
    <2>1. \A p \in 1 .. Len(text) : text'[p] = text[p]
      BY <1>5, <1>6, <1>7
    <2>2. text'[Place(i)] = hi /\ text'[Place(i) + 1] = lo
      BY <1>5, <1>6, <1>7
    <2> QED BY <1>7, <2>1, <2>2 DEF TwoDigits, hi, lo
  <1>8. CASE ~reversed /\ i % 16 = 15
    <2>1. Place(i + 1) = Place(i) + 4
      BY <1>1, <1>8, Places
    <2>2. (i + 1) % 16 = 0
      BY <1>1, <1>8, Remainders
    <2>3. text' = u \o <<Newline, Prefix>> /\ Newline \in Nat /\ Prefix \in Nat
      BY <1>3, <1>8 DEF Separator, Newline, Prefix
    <2>4. /\ text' \in Seq(Nat) /\ Len(text') = Len(u) + 2
          /\ \A p \in 1 .. Len(u) : text'[p] = u[p]
          /\ text'[Len(u) + 1] = Newline /\ text'[Len(u) + 2] = Prefix
      BY <1>5, <2>3, TwoMore
    <2>5. Len(text') = Place(i + 1) - 1
      BY <1>4, <1>5, <2>1, <2>4
    <2> QED BY <1>6, <1>7, <1>8, <2>1, <2>2, <2>4, <2>5 DEF Separated
  <1>9. CASE ~(~reversed /\ i % 16 = 15) /\ i % 2 = 1
    <2>1. Place(i + 1) = Place(i) + 3
      BY <1>1, <1>9, Places
    <2>2. reversed \/ (i + 1) % 16 # 0
      BY <1>1, <1>9, Remainders
    <2>3. text' = u \o <<Space>> /\ Space \in Nat
      BY <1>1, <1>3, <1>9, Remainders DEF Separator, Space
    <2>4. /\ text' \in Seq(Nat) /\ Len(text') = Len(u) + 1
          /\ \A p \in 1 .. Len(u) : text'[p] = u[p]
          /\ text'[Len(u) + 1] = Space
      BY <1>5, <2>3, OneMore
    <2>5. Len(text') = Place(i + 1) - 1
      BY <1>4, <1>5, <2>1, <2>4
    <2> QED BY <1>6, <1>7, <2>1, <2>2, <2>4, <2>5 DEF Separated
  <1>10. CASE ~(~reversed /\ i % 16 = 15) /\ i % 2 = 0
    <2>1. Place(i + 1) = Place(i) + 2
      BY <1>1, <1>10, Places
    <2>2. reversed \/ (i + 1) % 16 # 0
      BY <1>1, <1>10, Remainders
    <2>3. text' = u
      <3>1. Separator(i) = <<>>
        BY <1>1, <1>10, Remainders DEF Separator
      <3> QED BY <1>3, <1>5, <3>1, NoneMore
    <2>4. Len(text') = Place(i + 1) - 1
      BY <1>4, <1>5, <2>1, <2>3
    <2> QED BY <1>5, <1>7, <2>1, <2>2, <2>3, <2>4 DEF Separated
  <1>11. i % 16 = 15 => i % 2 = 1
    BY <1>1
  <1> QED BY <1>1, <1>8, <1>9, <1>10, <1>11, Remainders

(* The state print_byte runs in, and what it changes besides the text.     *)
AtByte ==
  /\ Printing /\ Layout
  /\ i \in Nat /\ i + 1 <= Len(array) /\ i' = i + 1 /\ Len(array) \in Nat
  /\ reversed \in BOOLEAN
  /\ array' = array /\ reversed' = reversed
  /\ text \in Seq(Nat) /\ Len(text) \in Nat /\ Len(text) = Place(i) - 1
  /\ Place(i) \in Nat /\ Place(i) >= 2
  /\ TwoDigits /\ Separated

LEMMA ReachByte ==
  ASSUME TextInv, print_byte
  PROVE  AtByte /\ pc' = "print_in_hex"
  <1>1. /\ Printing /\ Layout /\ pc' = "print_in_hex" /\ i < Len(array)
        /\ i' = i + 1 /\ array' = array /\ reversed' = reversed
    BY DEF TextInv, print_byte
  <1>2. i \in Nat /\ Len(array) \in Nat /\ reversed \in BOOLEAN
        /\ text \in Seq(Nat) /\ Len(text) \in Nat
    BY <1>1 DEF Printing
  <1>3. Len(text) = Place(i) - 1
    BY <1>1 DEF Layout
  <1>4. Place(i) \in Nat /\ Place(i) >= 2
    BY <1>2, Places
  <1>5. TwoDigits /\ Separated
    BY <1>1, Appended
  <1> QED BY <1>1, <1>2, <1>3, <1>4, <1>5 DEF AtByte

(* Bytes and places do not change.                                         *)
LEMMA SamePlace ==
  ASSUME AtByte, NEW n
  PROVE  Byte(n)' = Byte(n) /\ Place(n)' = Place(n)
  BY DEF AtByte, Byte, Place

LEMMA EarlierPlace ==
  ASSUME AtByte, NEW n \in Nat, n < i
  PROVE  Place(n) \in Nat /\ Place(n) >= 2 /\ Place(n) + 2 <= Place(i)
  <1>1. reversed \in BOOLEAN /\ i \in Nat
    BY DEF AtByte
  <1>2. Place(n) + 2 <= Place(i)
    BY <1>1, PlacesApart
  <1> QED BY <1>1, <1>2, Places

LEMMA DigitsStep ==
  ASSUME AtByte
  PROVE  DigitsThere'
  <1>1. i \in Nat /\ i' = i + 1
    BY DEF AtByte
  <1>2. ASSUME NEW n \in 0 .. i
        PROVE  /\ text'[Place(n)] = convert_byte_to_char(Byte(n), TRUE)
               /\ text'[Place(n) + 1] = convert_byte_to_char(Byte(n), FALSE)
    <2>1. CASE n = i
      BY <2>1 DEF AtByte, TwoDigits
    <2>2. CASE n < i
      <3>1. n \in 0 .. i - 1 /\ n \in Nat
        BY <1>1, <2>2
      <3>2. Place(n) \in 1 .. Len(text) /\ Place(n) + 1 \in 1 .. Len(text)
        <4>1. Place(n) \in Nat /\ Place(n) >= 2 /\ Place(n) + 2 <= Place(i)
          BY <2>2, <3>1, EarlierPlace
        <4>2. Len(text) = Place(i) - 1 /\ Place(i) \in Nat
          BY DEF AtByte
        <4> QED BY <4>1, <4>2
      <3>3. /\ text[Place(n)] = convert_byte_to_char(Byte(n), TRUE)
            /\ text[Place(n) + 1] = convert_byte_to_char(Byte(n), FALSE)
        BY <3>1 DEF AtByte, Layout, DigitsThere
      <3>4. \A p \in 1 .. Len(text) : text'[p] = text[p]
        BY DEF AtByte, TwoDigits
      <3>5. text'[Place(n)] = text[Place(n)] /\ text'[Place(n) + 1] = text[Place(n) + 1]
        BY ONLY <3>2, <3>4
      <3> QED BY ONLY <3>3, <3>5
    <2>3. n = i \/ n < i
      BY <1>1
    <2> QED BY ONLY <2>1, <2>2, <2>3
  <1>3. ASSUME NEW n \in 0 .. i
        PROVE  /\ text'[Place(n)'] = convert_byte_to_char(Byte(n)', TRUE)
               /\ text'[Place(n)' + 1] = convert_byte_to_char(Byte(n)', FALSE)
    BY <1>2, SamePlace
  <1>4. 0 .. i' - 1 = 0 .. i
    BY <1>1
  <1>5. ASSUME NEW b, NEW high
        PROVE  convert_byte_to_char(b, high)' = convert_byte_to_char(b, high)
    OBVIOUS
  <1> QED BY <1>3, <1>4, <1>5 DEF DigitsThere

LEMMA NothingStep ==
  ASSUME AtByte
  PROVE  NothingElse'
  <1>1. i \in Nat /\ i' = i + 1 /\ Len(text) \in Nat /\ Len(text) = Place(i) - 1
        /\ Place(i) \in Nat /\ Place(i) >= 2
    BY DEF AtByte
  <1> DEFINE Some(p) == \/ \E n \in 0 .. i : p = Place(n) \/ p = Place(n) + 1
                        \/ text'[p] \in {Prefix, Newline, Space}
  <1>2. ASSUME NEW p \in 1 .. Len(text') PROVE Some(p)
    <2>1. CASE p \in 1 .. Len(text)
      <3>1. text'[p] = text[p]
        BY <2>1 DEF AtByte, TwoDigits
      <3>2. \/ \E n \in 0 .. i - 1 : p = Place(n) \/ p = Place(n) + 1
            \/ text[p] \in {Prefix, Newline, Space}
        BY <2>1 DEF AtByte, Layout, NothingElse
      <3>3. \A n \in 0 .. i - 1 : n \in 0 .. i
        BY <1>1
      <3> QED BY <3>1, <3>2, <3>3
    <2>2. CASE p \in {Place(i), Place(i) + 1}
      BY <1>1, <2>2
    <2>3. /\ p \in 1 .. Len(text') /\ Len(text') = Place(i + 1) - 1
          /\ \/ /\ Place(i + 1) = Place(i) + 4
                /\ text'[Place(i) + 2] = Newline /\ text'[Place(i) + 3] = Prefix
             \/ Place(i + 1) = Place(i) + 3 /\ text'[Place(i) + 2] = Space
             \/ Place(i + 1) = Place(i) + 2
      BY DEF AtByte, TwoDigits, Separated
    <2>4. CASE p = Place(i) + 2
      <3>1. text'[p] \in {Prefix, Newline, Space}
        BY ONLY <1>1, <2>3, <2>4
      <3> QED BY <3>1
    <2>5. CASE p = Place(i) + 3
      <3>1. Place(i + 1) = Place(i) + 4
        BY <1>1, <2>3, <2>5
      <3>2. text'[Place(i) + 3] = Prefix
        BY <1>1, <2>3, <3>1
      <3> QED BY <2>5, <3>2
    <2>6. p \in 1 .. Len(text) \/ p = Place(i) \/ p = Place(i) + 1
          \/ p = Place(i) + 2 \/ p = Place(i) + 3
      BY ONLY <1>1, <2>3
    <2>7. CASE p = Place(i) \/ p = Place(i) + 1
      BY <2>2, <2>7
    <2> QED BY <2>1, <2>4, <2>5, <2>6, <2>7
  <1>3. 0 .. i' - 1 = 0 .. i
    BY <1>1
  <1>4. ASSUME NEW p \in 1 .. Len(text')
        PROVE  \/ \E n \in 0 .. i' - 1 : p = Place(n)' \/ p = Place(n)' + 1
               \/ text'[p] \in {Prefix, Newline, Space}
    <2>1. Some(p)
      BY <1>2
    <2> QED BY <1>3, <2>1, SamePlace
  <1> QED BY <1>4 DEF NothingElse, Prefix, Newline, Space

LEMMA BreaksStep ==
  ASSUME AtByte
  PROVE  BreaksThere'
  <1>1. i \in Nat /\ i' = i + 1 /\ reversed' = reversed /\ reversed \in BOOLEAN
    BY DEF AtByte
  <1>2. ASSUME NEW n, n \in 1 .. i', ~reversed, n % 16 = 0
        PROVE  text'[Place(n) - 2] = Newline /\ text'[Place(n) - 1] = Prefix
    <2>1. CASE n = i + 1
      <3>1. /\ Place(n) = Place(i) + 4 /\ Place(i) \in Nat
            /\ text'[Place(i) + 2] = Newline /\ text'[Place(i) + 3] = Prefix
        BY <1>2, <2>1 DEF AtByte, Separated
      <3>2. Place(n) - 2 = Place(i) + 2 /\ Place(n) - 1 = Place(i) + 3
        BY <3>1
      <3> QED BY <3>1, <3>2
    <2>2. CASE n <= i
      <3>1. n \in 1 .. i /\ n \in Nat
        BY <1>1, <1>2, <2>2
      <3>2. text[Place(n) - 2] = Newline /\ text[Place(n) - 1] = Prefix
        BY <1>2, <3>1 DEF AtByte, Layout, BreaksThere
      <3>3. Place(n) \in Nat /\ Place(n) >= 4 /\ Place(n) <= Place(i)
        <4>1. Place(n) <= Place(i) /\ Place(n) \in Nat
          <5>1. CASE n = i
            BY <5>1 DEF AtByte
          <5>2. CASE n < i
            <6>1. Place(n) \in Nat /\ Place(n) + 2 <= Place(i) /\ Place(i) \in Nat
              BY <3>1, <5>2, EarlierPlace DEF AtByte
            <6> QED BY <6>1
          <5> QED BY <1>1, <2>2, <3>1, <5>1, <5>2
        <4>2. 0 < n /\ 0 \in Nat
          BY <3>1
        <4>3. Place(0) + 2 <= Place(n)
          BY <1>1, <3>1, <4>2, PlacesApart
        <4>4. Place(0) \in Nat /\ Place(0) >= 2
          BY <1>1, Places
        <4> QED BY <4>1, <4>3, <4>4
      <3>4. Len(text) = Place(i) - 1 /\ Place(i) \in Nat
        BY DEF AtByte
      <3>5. Place(n) - 2 \in 1 .. Len(text) /\ Place(n) - 1 \in 1 .. Len(text)
        BY <3>3, <3>4
      <3>6. \A p \in 1 .. Len(text) : text'[p] = text[p]
        BY DEF AtByte, TwoDigits
      <3> QED BY <3>2, <3>5, <3>6
    <2>3. n = i + 1 \/ n <= i
      BY <1>1, <1>2
    <2> QED BY ONLY <2>1, <2>2, <2>3
  <1>3. ASSUME NEW n \in 1 .. i', ~reversed', n % 16 = 0
        PROVE  text'[Place(n)' - 2] = Newline /\ text'[Place(n)' - 1] = Prefix
    <2>1. text'[Place(n) - 2] = Newline /\ text'[Place(n) - 1] = Prefix
      BY <1>1, <1>2, <1>3
    <2>2. Place(n)' = Place(n)
      BY SamePlace
    <2> QED BY <2>1, <2>2
  <1> QED BY <1>3 DEF BreaksThere, Newline, Prefix

LEMMA OthersStep ==
  ASSUME AtByte
  PROVE  NoOtherBreaks'
  <1>1. /\ i \in Nat /\ i' = i + 1 /\ reversed' = reversed /\ reversed \in BOOLEAN
        /\ Len(text) \in Nat /\ Len(text) = Place(i) - 1
        /\ Place(i) \in Nat /\ Place(i) >= 2
    BY DEF AtByte
  <1>2. ASSUME NEW p, p \in 1 .. Len(text'), text'[p] = Newline
        PROVE  ~reversed /\ \E n \in 1 .. i + 1 : n % 16 = 0 /\ p = Place(n) - 2
    <2>1. CASE p \in 1 .. Len(text)
      <3>1. text[p] = Newline
        BY <1>2, <2>1 DEF AtByte, TwoDigits
      <3>2. ~reversed /\ \E n \in 1 .. i : n % 16 = 0 /\ p = Place(n) - 2
        BY <2>1, <3>1 DEF AtByte, Layout, NoOtherBreaks
      <3>3. \A n \in 1 .. i : n \in 1 .. i + 1
        BY <1>1
      <3> QED BY <3>2, <3>3
    <2>2. p # Place(i) /\ p # Place(i) + 1
      <3>1. Byte(i) \in 0 .. 255
        <4>1. Printing /\ i \in 0 .. Len(array) - 1
          BY DEF AtByte
        <4> QED BY <4>1, Bytes0
      <3>2. /\ convert_byte_to_char(Byte(i), TRUE) # Newline
            /\ convert_byte_to_char(Byte(i), FALSE) # Newline
        BY <3>1, Characters
      <3>3. /\ text'[Place(i)] = convert_byte_to_char(Byte(i), TRUE)
            /\ text'[Place(i) + 1] = convert_byte_to_char(Byte(i), FALSE)
        BY DEF AtByte, TwoDigits
      <3> QED BY <1>2, <3>2, <3>3
    <2>3. Len(text') = Place(i + 1) - 1 /\ Separated
      BY DEF AtByte, TwoDigits
    <2>4. CASE ~reversed /\ (i + 1) % 16 = 0
      <3>1. /\ Place(i + 1) = Place(i) + 4
            /\ text'[Place(i) + 3] = Prefix
        BY <2>3, <2>4 DEF Separated
      <3>2. p # Place(i) + 3
        BY <1>2, <3>1 DEF Prefix, Newline
      <3>3. p \in 1 .. Len(text) \/ p = Place(i + 1) - 2
        BY <1>1, <1>2, <2>2, <2>3, <3>1, <3>2
      <3>4. i + 1 \in 1 .. i + 1
        BY <1>1
      <3> QED BY <2>1, <2>4, <3>3, <3>4
    <2>5. CASE ~(~reversed /\ (i + 1) % 16 = 0)
      <3>1. \/ Place(i + 1) = Place(i) + 3 /\ text'[Place(i) + 2] = Space
            \/ Place(i + 1) = Place(i) + 2
        BY <2>3, <2>5 DEF Separated
      <3>2. Space # Newline
        BY DEF Space, Newline
      <3>3. p \in 1 .. Len(text)
        <4>1. CASE Place(i + 1) = Place(i) + 3 /\ text'[Place(i) + 2] = Space
          <5>1. p # Place(i) + 2
            BY <1>2, <3>2, <4>1
          <5> QED BY <1>1, <1>2, <2>2, <2>3, <4>1, <5>1
        <4>2. CASE Place(i + 1) = Place(i) + 2
          BY <1>1, <1>2, <2>2, <2>3, <4>2
        <4> QED BY <3>1, <4>1, <4>2
      <3> QED BY <2>1, <3>3
    <2> QED BY <2>4, <2>5
  <1>3. ASSUME NEW p \in 1 .. Len(text'), text'[p] = Newline
        PROVE  ~reversed' /\ \E n \in 1 .. i' : n % 16 = 0 /\ p = Place(n)' - 2
    <2>1. PICK n \in 1 .. i + 1 : n % 16 = 0 /\ p = Place(n) - 2
      BY <1>2, <1>3
    <2>2. Place(n)' = Place(n)
      BY SamePlace
    <2>3. ~reversed
      BY <1>2, <1>3
    <2> QED BY <1>1, <2>1, <2>2, <2>3
  <1> QED BY <1>3 DEF NoOtherBreaks, Newline

LEMMA ByteStep ==
  ASSUME TextInv, print_byte
  PROVE  TextInv'
  <1>1. AtByte /\ pc' = "print_in_hex"
    BY ReachByte
  <1>2. Printing'
    <2>1. /\ array' = array /\ reversed' = reversed /\ i' = i + 1 /\ i \in Nat
          /\ i + 1 <= Len(array) /\ Len(array) \in Nat /\ text' \in Seq(Nat)
      BY <1>1 DEF AtByte, TwoDigits
    <2>2. Printing
      BY <1>1 DEF AtByte
    <2>3. i' \in 0 .. Len(array)
      BY <2>1
    <2> QED BY <2>1, <2>2, <2>3 DEF Printing
  <1>3. Len(text') = Place(i') - 1 /\ text'[1] = Prefix
    <2>1. Len(text') = Place(i + 1) - 1 /\ i' = i + 1
          /\ \A p \in 1 .. Len(text) : text'[p] = text[p]
      BY <1>1 DEF AtByte, TwoDigits
    <2>2. text[1] = Prefix /\ 1 \in 1 .. Len(text)
      BY <1>1 DEF AtByte, Layout
    <2> QED BY <2>1, <2>2
  <1>4. Len(text)' = Place(i)' - 1 /\ text[1]' = Prefix
    <2>1. Place(i)' = Place(i')
      BY <1>1 DEF AtByte, Place
    <2> QED BY <1>3, <2>1
  <1>5. DigitsThere' /\ NothingElse' /\ BreaksThere' /\ NoOtherBreaks'
    BY <1>1, DigitsStep, NothingStep, BreaksStep, OthersStep
  <1> QED BY <1>2, <1>4, <1>5 DEF TextInv, Layout, Prefix

-----------------------------------------------------------------------------
(* Every word has eight bytes to print.                                    *)
Values ==
  /\ env \in [0 .. Words -> DOMAIN Bytes]
  /\ caller \in [0 .. Words -> DOMAIN Bytes]
  /\ read \in [0 .. Words -> DOMAIN Bytes]

LEMMA CopiedValues ==
  ASSUME NEW V, NEW from \in [0 .. Words -> V], NEW to \in [0 .. Words -> V], NEW m
  PROVE  Copied(from, to, m) \in [0 .. Words -> V]
  BY DEF Copied

LEMMA NoValues == NoRegisters \in [0 .. Words -> DOMAIN Bytes]
  BY OutputAssumption DEF NoRegisters

LEMMA ValuesInit == PrintInit => Values
  <1> SUFFICES ASSUME PrintInit PROVE Values
    OBVIOUS
  <1>1. env = EnvStart /\ caller = CallerStart /\ read = NoRegisters
        /\ EnvStart \in [0 .. Words -> Int] /\ CallerStart \in [0 .. Words -> Int]
    BY RegisterAssumption DEF PrintInit, Init
  <1>2. \A k \in 0 .. Words : EnvStart[k] \in DOMAIN Bytes
                              /\ CallerStart[k] \in DOMAIN Bytes
    BY OutputAssumption
  <1> QED BY <1>1, <1>2, NoValues DEF Values

LEMMA ValuesStep ==
  ASSUME Values, [PrintNext]_printvars
  PROVE  Values'
  <1> USE DEF Values
  <1>1. ASSUME NEW m \in Masks, print_registers(m) PROVE Values'
    <2>1. read' \in {NoRegisters, Copied(env, NoRegisters, m)}
          /\ env' = env /\ caller' = caller
      BY <1>1 DEF print_registers
    <2>2. Copied(env, NoRegisters, m) \in [0 .. Words -> DOMAIN Bytes]
      BY NoValues, CopiedValues
    <2> QED BY <2>1, <2>2, NoValues
  <1>2. CASE end_registers
    BY <1>2, NoValues DEF end_registers, vars
  <1>3. CASE access_registers
    <2>1. read' = read
      BY <1>3 DEF access_registers, registers
    <2>2. \/ env' = env /\ caller' = caller
          \/ \E m \in Masks : env' = env /\ caller' = Copied(env, caller, m)
          \/ \E m \in Masks : caller' = caller /\ env' = Copied(caller, env, m)
      BY <1>3, Calls DEF access_registers
    <2>3. \A m : /\ Copied(env, caller, m) \in [0 .. Words -> DOMAIN Bytes]
                 /\ Copied(caller, env, m) \in [0 .. Words -> DOMAIN Bytes]
      BY CopiedValues
    <2> QED BY <2>1, <2>2, <2>3
  <1>4. CASE env' = env /\ caller' = caller /\ read' = read
    BY <1>4
  <1> QED
    BY <1>1, <1>2, <1>3, <1>4
    DEF PrintNext, printvars, vars, registers, print_opcodes, print_byte,
        end_hex, print_register, next_register

(* What print_registers keeps.  A register it was asked for is printed, or *)
(* its bit is still in the mask, index places lower.                       *)
Numbers == {printed[k][1] : k \in DOMAIN printed}
Left == {b + index : b \in mask}
InCall == pc \in {"registers", "next_register"} \/ (pc = "print_in_hex" /\ reversed)

RegistersInv ==
  /\ pc \in {"main", "registers", "next_register", "print_in_hex"}
  /\ printed \in Seq(Nat \X Seq(Nat))
  /\ asked = Numbers \cup Left
  /\ ~InCall => asked = {} /\ printed = <<>>
  /\ pc \in {"print_in_hex", "next_register"} /\ InCall => 0 \in mask
  /\ pc = "print_in_hex" /\ reversed => array = Bytes[read[index]]
  /\ pc = "next_register" => index \in Numbers
  /\ \A k \in DOMAIN printed :
       IF pc = "next_register" THEN printed[k][1] <= index ELSE printed[k][1] < index
  /\ \A j, k \in DOMAIN printed : j < k => printed[j][1] < printed[k][1]
  /\ \A r \in asked : read[r] = env[r]
  /\ \A k \in DOMAIN printed :
       ReadsAs(printed[k][2], Reverse(Bytes[env[printed[k][1]]]))

LEMMA RegistersInit == PrintInit => RegistersInv
  BY DEF PrintInit, RegistersInv, InCall, Numbers, Left

(* While print_registers runs no register changes.                         *)
LEMMA AcceptedWords ==
  ASSUME BoundFits, Values, NEW m \in Masks, print_registers(m), pc' = "registers"
  PROVE  \A r \in m : r \in 0 .. Words /\ read'[r] = env[r]
  <1>1. PICK bit \in Limit(GetWidth) :
          /\ result' = ~OutOfRange(m, bit)
          /\ read' = IF result' THEN Copied(env, NoRegisters, m) ELSE NoRegisters
    BY DEF print_registers
  <1>2. result'
    BY DEF print_registers
  <1>3. m \subseteq Nat /\ \A b \in m : b < Words
    BY <1>1, <1>2, AcceptedFits
  <1>4. Words \in Nat
    BY RegisterAssumption
  <1> QED BY <1>1, <1>2, <1>3, <1>4 DEF Copied

LEMMA CallStep ==
  ASSUME BoundFits, Values, RegistersInv, NEW m \in Masks, print_registers(m),
         pc = "main" => index = 0
  PROVE  RegistersInv'
  <1>1. /\ pc = "main" /\ printed = <<>> /\ printed' = <<>> /\ index' = 0
        /\ env' = env /\ asked' = mask' /\ reversed' = reversed
        /\ pc' \in {"main", "registers"}
    BY DEF print_registers, RegistersInv, InCall, hex
  <1>2. mask' \subseteq Int
    BY RegisterAssumption DEF print_registers
  <1>3. Numbers' = {} /\ Left' = mask'
    <2>1. DOMAIN printed' = {}
      BY <1>1
    <2>2. \A b \in mask' : b + index' = b
      BY <1>1, <1>2
    <2> QED BY <2>1, <2>2 DEF Numbers, Left
  <1>4. pc' = "main" => mask' = {}
    BY DEF print_registers
  <1>5. \A r \in asked' : read'[r] = env'[r]
    <2>1. CASE pc' = "main"
      BY <1>1, <1>4, <2>1
    <2>2. CASE pc' = "registers"
      <3>1. mask' = m
        BY <2>2 DEF print_registers
      <3> QED BY <1>1, <2>2, <3>1, AcceptedWords
    <2> QED BY <1>1, <2>1, <2>2
  <1>6. /\ printed' \in Seq(Nat \X Seq(Nat)) /\ DOMAIN printed' = {}
        /\ asked' = Numbers' \cup Left'
    BY <1>1, <1>3
  <1>7. pc' # "next_register" /\ pc' # "print_in_hex"
        /\ (pc' = "main" => asked' = {})
    BY <1>1, <1>4
  <1>8. InCall' <=> pc' = "registers"
    BY <1>1 DEF InCall
  <1>9. \A k \in DOMAIN printed' : FALSE
    BY <1>6
  <1> QED BY <1>1, <1>5, <1>6, <1>7, <1>8, <1>9 DEF RegistersInv

LEMMA PrintStep ==
  ASSUME RegistersInv, print_register
  PROVE  RegistersInv'
  <1>1. /\ pc = "registers" /\ pc' = "print_in_hex" /\ 0 \in mask /\ reversed'
        /\ array' = Bytes[read[index]]
        /\ UNCHANGED <<env, read, mask, index, printed, asked>>
    BY DEF print_register, print_in_hex, vars, registers
  <1>2. Numbers' = Numbers /\ Left' = Left
    BY <1>1 DEF Numbers, Left
  <1> QED BY <1>1, <1>2 DEF RegistersInv, InCall

LEMMA HexStep ==
  ASSUME RegistersInv, print_byte
  PROVE  RegistersInv'
  <1>1. /\ pc' = pc /\ array' = array /\ reversed' = reversed
        /\ UNCHANGED <<env, read, mask, index, printed, asked>>
    BY DEF print_byte, vars, registers
  <1>2. Numbers' = Numbers /\ Left' = Left
    BY <1>1 DEF Numbers, Left
  <1> QED BY <1>1, <1>2 DEF RegistersInv, InCall

(* The bits are shifted as the index advances, so the registers left are   *)
(* the same, without the one printed.                                      *)
LEMMA NextStep ==
  ASSUME BoundFits, Looping, RegistersInv, next_register
  PROVE  RegistersInv'
  <1>1. /\ pc \in {"registers", "next_register"} /\ pc' = "registers"
        /\ pc = "registers" => 0 \notin mask
        /\ mask' = {b - 1 : b \in mask \ {0}} /\ index' = index + 1
        /\ UNCHANGED <<env, read, printed, asked, array, reversed>>
    BY DEF next_register, vars, hex
  <1>2. mask \subseteq Nat /\ index \in Nat
    BY DEF Looping
  <1>3. Numbers' = Numbers
    BY <1>1 DEF Numbers
  <1>4. Left' = {b + index : b \in mask \ {0}}
    <2>1. \A b \in mask \ {0} : (b - 1) + (index + 1) = b + index
      BY <1>2
    <2> QED BY <1>1, <2>1 DEF Left
  <1>5. asked = Numbers \cup Left'
    <2>1. asked = Numbers \cup Left /\ (pc = "next_register" => index \in Numbers)
      BY DEF RegistersInv
    <2>2. Left \subseteq Left' \cup Numbers
      <3>1. ASSUME NEW b \in mask PROVE b + index \in Left' \cup Numbers
        <4>1. CASE b = 0
          BY <1>1, <1>2, <2>1, <4>1
        <4>2. CASE b # 0
          BY <1>4, <4>2
        <4> QED BY <4>1, <4>2
      <3> QED BY <3>1 DEF Left
    <2>3. Left' \subseteq Left
      BY <1>4 DEF Left
    <2> QED BY <2>1, <2>2, <2>3
  <1>6. ASSUME NEW k \in DOMAIN printed PROVE printed[k][1] < index + 1
    <2>1. printed[k][1] \in Nat
      BY DEF RegistersInv
    <2>2. printed[k][1] <= index
      BY <1>1, <1>2, <2>1 DEF RegistersInv
    <2> QED BY <1>2, <2>1, <2>2
  <1> QED BY <1>1, <1>3, <1>5, <1>6 DEF RegistersInv, InCall

(* The text of a number whose last byte was printed is all of it.          *)
LEMMA WholeNumber ==
  ASSUME Printing, Layout, reversed, i = Len(array)
  PROVE  ReadsAs(text, Reverse(array))
  <1>1. array \in Seq(0 .. 255) /\ Len(array) \in Nat
    BY DEF Printing
  <1> DEFINE r == Reverse(array)
  <1>2. r = [k \in 1 .. Len(array) |-> array[Len(array) - k + 1]]
    BY DEF Reverse
  <1>3. SubSeq(r, 1, Len(array)) = [k \in 1 .. Len(array) |-> r[k]]
    BY <1>1
  <1>4. [k \in 1 .. Len(array) |-> r[k]] = r
    BY <1>2
  <1>5. ReadsAs(text, SubSeq(r, 1, Len(array)))
    BY Reading
  <1> QED BY <1>3, <1>4, <1>5

LEMMA EndStep ==
  ASSUME Looping, TextInv, RegistersInv, end_hex
  PROVE  RegistersInv'
  <1>1. /\ pc = "print_in_hex" /\ i = Len(array)
        /\ UNCHANGED <<env, read, mask, index, asked>>
        /\ index \in Nat /\ Printing /\ Layout
    BY DEF end_hex, vars, TextInv, Looping
  <1>2. reversed \in BOOLEAN /\ text \in Seq(Nat)
    BY <1>1 DEF Printing
  <1>3. Left' = Left
    BY <1>1 DEF Left
  <1>4. CASE ~reversed
    <2>1. pc' = "main" /\ printed' = printed
      BY <1>4 DEF end_hex
    <2>2. Numbers' = Numbers
      BY <2>1 DEF Numbers
    <2>3. ~InCall /\ ~InCall'
      BY <1>1, <1>4, <2>1 DEF InCall
    <2> QED BY <1>1, <1>3, <2>1, <2>2, <2>3 DEF RegistersInv
  <1>5. CASE reversed
    <2>1. pc' = "next_register" /\ printed' = Append(printed, <<index, text>>)
      BY <1>5 DEF end_hex
    <2>2. InCall /\ InCall'
      BY <1>1, <1>5, <2>1 DEF InCall
    <2> DEFINE n == Len(printed)
    <2>3. /\ printed \in Seq(Nat \X Seq(Nat)) /\ n \in Nat
          /\ DOMAIN printed = 1 .. n
      BY DEF RegistersInv
    <2>4. /\ printed' \in Seq(Nat \X Seq(Nat)) /\ DOMAIN printed' = 1 .. (n + 1)
          /\ \A k \in 1 .. n : printed'[k] = printed[k]
          /\ printed'[n + 1] = <<index, text>>
      BY <1>1, <1>2, <2>1, <2>3
    <2> HIDE DEF n
    <2>5. 1 .. (n + 1) = (1 .. n) \cup {n + 1}
      BY <2>3
    <2>6. Numbers' = Numbers \cup {index}
      <3>1. Numbers' = {printed'[k][1] : k \in 1 .. n} \cup {printed'[n + 1][1]}
        <4>1. Numbers' = {printed'[k][1] : k \in (1 .. n) \cup {n + 1}}
          BY ONLY <2>4, <2>5 DEF Numbers
        <4> QED BY ONLY <4>1
      <3>2. {printed'[k][1] : k \in 1 .. n} = Numbers
        BY <2>3, <2>4, ZenonT(30) DEF Numbers
      <3>3. printed'[n + 1][1] = index
        BY <2>4
      <3> QED BY ONLY <3>1, <3>2, <3>3
    <2>7. 0 \in mask /\ index \in asked
      <3>1. 0 \in mask /\ asked = Numbers \cup Left
        BY <1>1, <2>2 DEF RegistersInv
      <3>2. 0 + index \in Left
        BY <3>1 DEF Left
      <3> QED BY <1>1, <3>1, <3>2
    <2>8. asked = Numbers' \cup Left'
      <3>1. asked = Numbers \cup Left
        BY DEF RegistersInv
      <3> QED BY <1>3, <2>6, <2>7, <3>1
    <2>9. ReadsAs(text, Reverse(Bytes[env[index]]))
      <3>1. array = Bytes[read[index]] /\ read[index] = env[index]
        BY <1>1, <1>5, <2>7 DEF RegistersInv
      <3>2. ReadsAs(text, Reverse(array))
        BY <1>1, <1>5, WholeNumber
      <3> QED BY <3>1, <3>2
    <2>10. ASSUME NEW k \in 1 .. n PROVE printed[k][1] < index /\ printed[k][1] \in Nat
      <3>1. printed[k][1] < index
        <4>1. pc # "next_register" /\ k \in DOMAIN printed
          BY <1>1, <2>3
        <4> QED BY <4>1 DEF RegistersInv
      <3>2. printed[k] \in Nat \X Seq(Nat)
        BY <2>3
      <3> QED BY <3>1, <3>2
    <2>11. ASSUME NEW k \in DOMAIN printed'
           PROVE  /\ printed'[k][1] <= index
                  /\ ReadsAs(printed'[k][2], Reverse(Bytes[env[printed'[k][1]]]))
      <3>1. CASE k = n + 1
        <4>1. printed'[k][1] = index /\ printed'[k][2] = text
          BY <2>4, <3>1
        <4> QED BY <1>1, <2>9, <4>1
      <3>2. CASE k \in 1 .. n
        <4>1. printed'[k] = printed[k] /\ printed[k][1] < index /\ printed[k][1] \in Nat
          BY <2>4, <2>10, <3>2
        <4>2. ReadsAs(printed[k][2], Reverse(Bytes[env[printed[k][1]]]))
          BY <2>3, <3>2 DEF RegistersInv
        <4> QED BY <1>1, <4>1, <4>2
      <3> QED BY <2>4, <2>5, <3>1, <3>2
    <2>12. ASSUME NEW j \in DOMAIN printed', NEW k \in DOMAIN printed', j < k
           PROVE  printed'[j][1] < printed'[k][1]
      <3>1. j \in 1 .. n /\ k \in 1 .. (n + 1)
        BY <2>3, <2>4, <2>12
      <3>2. printed'[j] = printed[j] /\ printed[j][1] < index
        BY <2>4, <2>10, <3>1
      <3>3. CASE k = n + 1
        BY <2>4, <3>2, <3>3
      <3>4. CASE k \in 1 .. n
        <4>1. printed[j][1] < printed[k][1]
          BY <2>3, <2>12, <3>1, <3>4 DEF RegistersInv
        <4>2. printed'[k] = printed[k]
          BY <2>4, <3>4
        <4> QED BY <3>2, <4>1, <4>2
      <3> QED BY <2>5, <3>1, <3>3, <3>4
    <2>13. \A r \in asked : read[r] = env[r]
      BY DEF RegistersInv
    <2> QED
      BY <1>1, <2>1, <2>2, <2>4, <2>6, <2>7, <2>8, <2>11, <2>12, <2>13
      DEF RegistersInv
  <1> QED BY <1>2, <1>4, <1>5

LEMMA ReturnStep ==
  ASSUME RegistersInv, end_registers
  PROVE  /\ RegistersInv'
         /\ Numbers = asked
  <1>1. /\ pc = "registers" /\ mask = {} /\ pc' = "main" /\ mask' = {}
        /\ printed' = <<>> /\ asked' = {}
    BY DEF end_registers
  <1>2. Left = {} /\ Left' = {} /\ Numbers' = {}
    BY <1>1 DEF Left, Numbers
  <1>3. ~InCall'
    BY <1>1 DEF InCall
  <1>4. Numbers = asked
    BY <1>2 DEF RegistersInv
  <1>5. printed' \in Seq(Nat \X Seq(Nat)) /\ DOMAIN printed' = {}
    BY <1>1
  <1> QED BY <1>1, <1>2, <1>3, <1>4, <1>5 DEF RegistersInv

(* Nothing else happens while print_registers runs.                        *)
LEMMA OutsideStep ==
  ASSUME RegistersInv,
         (\E a \in Opcodes : print_opcodes(a)) \/ access_registers
  PROVE  RegistersInv'
  <1>1. /\ pc = "main" /\ pc' \in {"main", "print_in_hex"}
        /\ pc' = "print_in_hex" => ~reversed'
        /\ UNCHANGED <<mask, index, printed, asked>>
    BY DEF print_opcodes, print_in_hex, access_registers, registers
  <1>2. Numbers' = Numbers /\ Left' = Left
    BY <1>1 DEF Numbers, Left
  <1>3. ~InCall /\ ~InCall'
    BY <1>1 DEF InCall
  <1>4. asked = {} /\ printed = <<>>
    BY <1>3 DEF RegistersInv
  <1>5. DOMAIN printed = {}
    BY <1>4
  <1> QED BY <1>1, <1>2, <1>3, <1>4, <1>5 DEF RegistersInv

LEMMA RegistersStep ==
  ASSUME BoundFits, Values, Looping, TextInv, RegistersInv,
         [PrintNext]_printvars
  PROVE  RegistersInv'
  <1>1. CASE UNCHANGED printvars
    <2>1. UNCHANGED <<env, pc, array, reversed, read, mask, index, printed, asked>>
      BY <1>1 DEF printvars, vars, hex, registers
    <2> QED BY <2>1, ZenonT(30) DEF RegistersInv, InCall, Numbers, Left
  <1>2. ASSUME NEW m \in Masks, print_registers(m) PROVE RegistersInv'
    <2>1. pc = "main" => index = 0
      BY DEF Looping
    <2> QED BY <1>2, <2>1, CallStep
  <1>3. CASE print_register \/ print_byte
    BY <1>3, PrintStep, HexStep
  <1>4. CASE next_register
    BY <1>4, NextStep
  <1>5. CASE end_hex
    BY <1>5, EndStep
  <1>6. CASE end_registers
    BY <1>6, ReturnStep
  <1>7. CASE (\E a \in Opcodes : print_opcodes(a)) \/ access_registers
    BY <1>7, OutsideStep
  <1> QED
    BY <1>1, <1>2, <1>3, <1>4, <1>5, <1>6, <1>7 DEF PrintNext

-----------------------------------------------------------------------------
LEMMA TextInit == PrintInit => TextInv
  BY DEF PrintInit, TextInv

(* A text begins as its prefix.                                            *)
LEMMA Beginning ==
  ASSUME text' = <<Prefix>>, i' = 0, array' \in Seq(0 .. 255),
         reversed' \in BOOLEAN
  PROVE  (Printing /\ Layout)'
  <1>1. text' \in Seq(Nat) /\ Len(text') = 1 /\ text'[1] = Prefix
    BY DEF Prefix
  <1>2. Place(i)' = 2
    BY DEF Place
  <1>3. Len(array') \in Nat
    OBVIOUS
  <1>4. Printing'
    BY <1>1, <1>3 DEF Printing
  <1>5. DigitsThere' /\ BreaksThere'
    BY DEF DigitsThere, BreaksThere
  <1>6. \A p \in 1 .. Len(text') : text'[p] = Prefix
    BY <1>1
  <1>7. NothingElse' /\ NoOtherBreaks'
    BY <1>6 DEF NothingElse, NoOtherBreaks, Prefix, Newline
  <1> QED BY <1>1, <1>2, <1>4, <1>5, <1>7 DEF Layout, Prefix

LEMMA EightBytes ==
  ASSUME NEW s \in [1 .. 8 -> 0 .. 255]
  PROVE  s \in Seq(0 .. 255) /\ Len(s) = 8
  <1>1. s \in Seq(0 .. 255)
    <2> DEFINE F(n) == [1 .. n -> 0 .. 255]
    <2>1. s \in F(8) /\ 8 \in Nat
      OBVIOUS
    <2>2. Seq(0 .. 255) = UNION {F(n) : n \in Nat}
      BY SeqDef, ZenonT(30)
    <2> HIDE DEF F
    <2> QED BY <2>1, <2>2
  <1>2. Len(s) \in Nat /\ DOMAIN s = 1 .. Len(s)
    BY <1>1, LenProperties, ZenonT(30)
  <1>3. DOMAIN s = 1 .. 8
    OBVIOUS
  <1>4. \A k : k \in 1 .. Len(s) <=> k \in 1 .. 8
    BY <1>2, <1>3
  <1> DEFINE n == Len(s)
  <1> HIDE DEF n
  <1>5. n \in Nat /\ (8 \in 1 .. n) /\ ~(9 \in 1 .. n)
    BY <1>2, <1>4 DEF n
  <1>6. n = 8
    BY ONLY <1>5
  <1> QED BY <1>1, <1>6 DEF n

LEMMA ValueBytes ==
  ASSUME Values, Looping, 0 \in mask
  PROVE  Bytes[read[index]] \in [1 .. 8 -> 0 .. 255]
  <1>1. 0 + index < Words /\ index \in Nat
    BY DEF Looping
  <1>2. index \in 0 .. Words
    BY <1>1, RegisterAssumption
  <1> QED BY <1>2, OutputAssumption, Zenon DEF Values

LEMMA SameText ==
  ASSUME TextInv, UNCHANGED printvars
  PROVE  TextInv'
  <1>1. UNCHANGED <<pc, array, reversed, i, text>>
    BY DEF printvars, hex
  <1> QED
    BY <1>1 DEF TextInv, Printing, Layout, DigitsThere, NothingElse, BreaksThere,
                NoOtherBreaks, Place, Byte, convert_byte_to_char, Prefix,
                Newline, Space

LEMMA EndOfText ==
  ASSUME end_hex
  PROVE  TextInv'
  BY DEF end_hex, TextInv

LEMMA OneLineInit == PrintInit => OneLineInv
  BY DEF PrintInit, OneLineInv

LEMMA OneLineStep ==
  ASSUME BoundFits, Values, Looping, OneLineInv, [PrintNext]_printvars
  PROVE  OneLineInv'
  <1>1. CASE UNCHANGED printvars \/ print_byte
    <2>1. UNCHANGED <<array, reversed>> /\ pc' = pc
      BY <1>1 DEF printvars, hex, print_byte
    <2> QED BY <2>1 DEF OneLineInv, OneLine
  <1>2. ASSUME NEW a \in Opcodes, print_opcodes(a) PROVE OneLineInv'
    BY <1>2 DEF print_opcodes, print_in_hex, OneLineInv, OneLine
  <1>3. CASE print_register
    <2>1. array' = Bytes[read[index]] /\ 0 \in mask
      BY <1>3 DEF print_register, print_in_hex
    <2>2. Bytes[read[index]] \in [1 .. 8 -> 0 .. 255]
      BY <2>1, ValueBytes
    <2>3. Len(array') = 8
      BY <2>1, <2>2, EightBytes
    <2> QED BY <2>3 DEF OneLineInv, OneLine
  <1>4. CASE \/ \E m \in Masks : print_registers(m)
             \/ end_hex \/ next_register \/ end_registers \/ access_registers
    <2>1. pc' # "print_in_hex"
      BY <1>4 DEF print_registers, end_hex, next_register, end_registers,
                  access_registers
    <2> QED BY <2>1 DEF OneLineInv
  <1> QED BY <1>1, <1>2, <1>3, <1>4 DEF PrintNext

LEMMA TextStep ==
  ASSUME BoundFits, Values, Looping, TextInv, [PrintNext]_printvars
  PROVE  TextInv'
  <1>1. CASE UNCHANGED printvars
    BY <1>1, SameText
  <1>2. CASE print_byte
    BY <1>2, ByteStep
  <1>3. ASSUME NEW a \in Opcodes, print_opcodes(a) PROVE TextInv'
    <2>1. /\ text' = <<Prefix>> /\ i' = 0 /\ array' = a /\ reversed' = FALSE
          /\ a \in Seq(0 .. 255)
      BY <1>3, OutputAssumption DEF print_opcodes, print_in_hex
    <2>2. (Printing /\ Layout)'
      BY <2>1, Beginning
    <2> QED BY <2>2 DEF TextInv
  <1>4. CASE print_register
    <2>1. /\ text' = <<Prefix>> /\ i' = 0 /\ array' = Bytes[read[index]]
          /\ reversed' = TRUE /\ 0 \in mask
      BY <1>4 DEF print_register, print_in_hex
    <2>3. Bytes[read[index]] \in [1 .. 8 -> 0 .. 255]
      BY <2>1, ValueBytes
    <2>4. array' \in Seq(0 .. 255)
      BY <2>1, <2>3, EightBytes
    <2>5. (Printing /\ Layout)'
      BY <2>1, <2>4, Beginning
    <2> QED BY <2>5 DEF TextInv
  <1>5. CASE \/ \E m \in Masks : print_registers(m)
             \/ end_hex \/ next_register \/ end_registers \/ access_registers
    <2>1. pc' # "print_in_hex"
      BY <1>5 DEF print_registers, end_hex, next_register, end_registers,
                  access_registers
    <2> QED BY <2>1 DEF TextInv
  <1> QED
    BY <1>1, <1>2, <1>3, <1>4, <1>5 DEF PrintNext

-----------------------------------------------------------------------------
(* The inductive invariant.                                                *)
PrintInv == Values /\ Looping /\ TextInv /\ OneLineInv /\ RegistersInv

(* Where the bound fits the struct, the invariant holds.                   *)
THEOREM PrintingInductive ==
  ASSUME BoundFits
  PROVE  PrintSpec => []PrintInv
  <1>1. PrintInit => PrintInv
    BY ValuesInit, LoopingInit, TextInit, OneLineInit, RegistersInit DEF PrintInv
  <1>2. PrintInv /\ [PrintNext]_printvars => PrintInv'
    BY ValuesStep, LoopingStep, TextStep, OneLineStep, RegistersStep DEF PrintInv
  <1> QED BY <1>1, <1>2, PTL DEF PrintSpec

(* What main prints, opcodes of any length forwards and the eight bytes of *)
(* a register's value backwards, reads back, at most sixteen to a line.    *)
THEOREM PrintedTextReadsBack ==
  ASSUME BoundFits
  PROVE  PrintSpec => []TextReadsBack
  <1>1. PrintInv => TextReadsBack
    BY LayoutReads DEF PrintInv
  <1> QED BY <1>1, PrintingInductive, PTL

(* print_in_hex by itself: the text of an array of any length reads back   *)
(* in either direction.  Forwards a line holds at most sixteen bytes;      *)
(* backwards there is no line break, however long the array.               *)
THEOREM AnyArrayReadsBack == HexSpec => []HexReadsBack
  <1>1. HexInit => TextInv
    <2> SUFFICES ASSUME HexInit PROVE Printing /\ Layout
      BY DEF TextInv
    <2>1. array \in Seq(0 .. 255) /\ reversed \in BOOLEAN /\ i = 0
          /\ text = <<Prefix>>
      BY OutputAssumption DEF HexInit
    <2>2. text \in Seq(Nat) /\ Len(text) = 1 /\ text[1] = Prefix
          /\ Len(array) \in Nat
      BY <2>1 DEF Prefix
    <2>3. Place(i) = 2
      BY <2>1 DEF Place
    <2>4. Printing
      BY <2>1, <2>2 DEF Printing
    <2>5. \A p \in 1 .. Len(text) : text[p] = Prefix
      BY <2>2
    <2>6. DigitsThere /\ BreaksThere /\ NothingElse /\ NoOtherBreaks
      BY <2>1, <2>5
      DEF DigitsThere, BreaksThere, NothingElse, NoOtherBreaks, Prefix, Newline
    <2> QED BY <2>2, <2>3, <2>4, <2>6 DEF Layout
  <1>2. TextInv /\ [print_byte \/ end_hex]_printvars => TextInv'
    BY ByteStep, SameText, EndOfText
  <1> QED BY <1>1, <1>2, LayoutReadsEitherWay, PTL DEF HexSpec

(* A call of print_registers that is not refused prints the registers in   *)
(* its mask, each once, in order and with its own value.                   *)
THEOREM EveryRegisterIsPrinted ==
  ASSUME BoundFits
  PROVE  PrintSpec => RegistersPrinted
  <1> DEFINE Printed ==
        /\ {printed[k][1] : k \in DOMAIN printed} = asked
        /\ \A j, k \in DOMAIN printed : j < k => printed[j][1] < printed[k][1]
        /\ \A k \in DOMAIN printed :
             ReadsAs(printed[k][2], Reverse(Bytes[env[printed[k][1]]]))
  <1>1. PrintInv /\ [PrintNext]_printvars => [end_registers => Printed]_printvars
    <2> SUFFICES ASSUME RegistersInv, end_registers PROVE Printed
      BY DEF PrintInv
    <2>1. Numbers = asked
      BY ReturnStep
    <2> QED BY <2>1 DEF RegistersInv, Numbers
  <1> QED BY <1>1, PrintingInductive, PTL DEF PrintSpec, RegistersPrinted
=============================================================================
