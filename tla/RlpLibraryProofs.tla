-------------------------- MODULE RlpLibraryProofs --------------------------
(***************************************************************************)
(* For lists of any number of strings, strings of every length and any     *)
(* number of calls: reconstruct_ints_sequence_list returns the strings that*)
(* were packed, extract_data the bytes asked for, also from one of them,   *)
(* and it reads no word outside of its argument and fails no assertion of a*)
(* shift.                                                                  *)
(***************************************************************************)
EXTENDS RlpLibrary, Foundations

-----------------------------------------------------------------------------
(***************************************************************************)
(* Extracting data from a string (ExtractFromRlp).                         *)
(***************************************************************************)

(* A call within the string. *)
InCall ==
  /\ origin \in Nat /\ start_pos \in Nat /\ size \in Nat
  /\ rlp.element_size_bytes \in Nat
  /\ rlp = Packed(origin, rlp.element_size_bytes)
  /\ start_pos + size <= rlp.element_size_bytes

LEMMA ElementIsPacked ==
  ASSUME InCall, NEW i \in 0..(NWords(rlp.element_size_bytes) - 1)
  PROVE  /\ Element(i) = PackedWord(origin, rlp.element_size_bytes, i)
         /\ rlp.element_size_words = NWords(rlp.element_size_bytes)
<1> DEFINE b == rlp.element_size_bytes
<1>1. /\ rlp.element = [k \in 1..NWords(b) |-> PackedWord(origin, b, k - 1)]
      /\ rlp.element_size_words = NWords(b)
  BY DEF InCall, Packed, IntsSequence
<1>2. i + 1 \in 1..NWords(b) /\ (i + 1) - 1 = i
  BY DEF InCall, NWords
<1> QED BY <1>1, <1>2 DEF Element

LEMMA RecWord ==
  ASSUME InCall, NEW i \in Nat, i < size \div 8, NEW w \in Nat, w = start_word + i
  PROVE  /\ AddWords(BitshiftLeft(Element(w), left_shift), RightPart(w + 1))
              = PackedWord(origin + start_pos, size, i)
         /\ Inside(w) /\ (~IsLast(w) => Inside(w + 1))
         /\ MayShift(left_shift) /\ (~IsLast(w) => MayShift(Size(ShiftOf(w + 1))))
<1> DEFINE b == rlp.element_size_bytes
           k == left_shift
           l == last_rlp_word_len
<1>0. /\ b \in Nat /\ origin \in Nat /\ start_pos \in Nat /\ size \in Nat /\ start_pos + size <= b
      /\ w = start_pos \div 8 + i /\ k \in Nat /\ k = start_pos % 8
      /\ l \in Nat /\ l = (IF b % 8 = 0 THEN 8 ELSE b % 8)
  BY DEF InCall, start_word, left_shift, last_rlp_word_len
<1> HIDE DEF k, l
<1>1. /\ w \in 0..(NWords(b) - 1) /\ k \in 0..7 /\ l \in 1..8
      /\ 8 * w + k = start_pos + 8 * i
      /\ w = NWords(b) - 1 => k = 0 /\ 8 * w + 8 <= b
      /\ w # NWords(b) - 1 => w + 1 \in 0..(NWords(b) - 1) /\ 8 * w + 8 <= b
      /\ w + 1 = NWords(b) - 1 => k <= l /\ b = 8 * (w + 1) + l
      /\ w # NWords(b) - 1 /\ w + 1 # NWords(b) - 1 => 8 * (w + 1) + 8 <= b
  BY <1>0, SMT DEF NWords
<1>2. Element(w) = PackedWord(origin, b, w) /\ rlp.element_size_words = NWords(b)
  BY <1>1, ElementIsPacked
<1>3. w # NWords(b) - 1 => Element(w + 1) = PackedWord(origin, b, w + 1)
  BY <1>1, ElementIsPacked
<1>4. NWords(b) \in Nat
  BY <1>0 DEF NWords
<1>5. 8 * i + 8 <= size
  BY <1>0
<1> DEFINE Goal == PackedWord(origin + start_pos, size, i)
<1>6. \A j \in 0..7 : Goal[j] = Byte(origin + start_pos + 8 * i + j)
  BY <1>0, <1>5 DEF PackedWord
<1>7. \A j \in 0..7 : Element(w)[j] = Byte(origin + 8 * w + j)
  BY <1>0, <1>1, <1>2 DEF PackedWord
<1>8. CASE w = NWords(b) - 1
  <2>1. RightPart(w + 1) = ZeroWord
    BY <1>2, <1>8, <1>1 DEF RightPart, IsLast
  <2>2. \A j \in 0..7 : BitshiftLeft(Element(w), left_shift)[j] = Element(w)[j]
    BY <1>1, <1>8 DEF BitshiftLeft, k
  <2>3. \A j \in 0..7 : Element(w)[j] + 0 = Goal[j]
    BY <1>0, <1>1, <1>6, <1>7, <1>8 DEF Byte
  <2>4. AddWords(BitshiftLeft(Element(w), left_shift), RightPart(w + 1)) = Goal
    BY <2>1, <2>2, <2>3 DEF AddWords, ZeroWord, PackedWord
  <2> QED BY <2>4, <1>1, <1>2, <1>8 DEF Inside, IsLast, MayShift, k
<1>9. CASE w # NWords(b) - 1
  <2> DEFINE n == ShiftOf(w + 1)
             Right == RightPart(w + 1)
             Left == BitshiftLeft(Element(w), left_shift)
  <2>1. Right = Shifted(Element(w + 1), n)
    BY <1>2, <1>9, <1>1 DEF RightPart, IsLast
  <2>2. n = IF w + 1 = NWords(b) - 1 THEN l - k ELSE 8 - k
    BY <1>2, <1>4 DEF ShiftOf, IsLast, last_word_right_shift, right_shift, k, l
  <2>3. n \in 0..8 /\ Size(n) \in 0..8
    BY <2>2, <1>1 DEF Size
  <2>4. \A j \in 0..7 : Right[j] = IF j >= n THEN Element(w + 1)[j - n] ELSE 0
    BY <2>1, <2>3 DEF Shifted, BitshiftRight
  <2>5. \A j \in 0..7 : Left[j] = IF j + k <= 7 THEN Element(w)[j + k] ELSE 0
    BY <1>1 DEF BitshiftLeft, k
  <2>6. ASSUME NEW j \in 0..7
        PROVE  Left[j] + Right[j] = Goal[j]
    <3>1. CASE j + k <= 7
      <4>1. Left[j] = Byte(origin + 8 * w + (j + k))
        BY <3>1, <2>5, <1>7, <1>1
      <4>2. Right[j] = 0
        <5>1. CASE w + 1 = NWords(b) - 1
          <6>1. j >= n => j - n \in 0..7 /\ j - n < 8 - l
            BY <5>1, <2>2, <2>3, <3>1, <1>1
          <6>2. \A m \in 0..7 : m < 8 - l => Element(w + 1)[m] = 0
            BY <5>1, <1>3, <1>9, <1>1, <1>0 DEF PackedWord
          <6> QED BY <6>1, <6>2, <2>4
        <5>2. CASE w + 1 # NWords(b) - 1
          BY <5>2, <2>2, <2>4, <3>1, <1>1
        <5> QED BY <5>1, <5>2
      <4>3. 8 * w + (j + k) = start_pos + 8 * i + j
        BY <1>1, <1>0
      <4>4. Left[j] = Byte(origin + (8 * w + (j + k))) /\ origin + (8 * w + (j + k)) + 1 \in Nat
        BY <4>1, <1>0, <1>1 DEF Byte
      <4>5. Goal[j] = Byte(origin + (start_pos + 8 * i + j))
        BY <1>6, <1>0 DEF Byte
      <4> HIDE DEF Left, Right, Goal
      <4> QED BY <4>2, <4>3, <4>4, <4>5 DEF Byte
    <3>2. CASE j + k > 7
      <4>1. Left[j] = 0
        BY <3>2, <2>5, <1>1
      <4>2. j >= n => j - n \in 0..7
        BY <2>3
      <4>3. j >= n /\ Right[j] = Byte(origin + 8 * (w + 1) + (j + k - 8))
        <5>1. CASE w + 1 = NWords(b) - 1
          <6>1. j >= n /\ j - n >= 8 - l /\ (j - n) - (8 - l) = j + k - 8
            BY <5>1, <2>2, <3>2, <1>1
          <6>3. (IF 8 * (w + 1) + 8 <= b THEN 8 ELSE b - 8 * (w + 1)) = l
            BY <5>1, <1>1, <1>0
          <6>2. \A m \in 0..7 : m >= 8 - l =>
                  Element(w + 1)[m] = Byte(origin + 8 * (w + 1) + (m - (8 - l)))
            BY <6>3, <1>3, <1>9 DEF PackedWord
          <6> QED BY <6>1, <6>2, <2>4, <4>2
        <5>2. CASE w + 1 # NWords(b) - 1
          <6>1. j >= n /\ j - n = j + k - 8
            BY <5>2, <2>2, <3>2, <1>1
          <6>2. \A m \in 0..7 : Element(w + 1)[m] = Byte(origin + 8 * (w + 1) + m)
            BY <5>2, <1>3, <1>9, <1>1, <1>0 DEF PackedWord
          <6> QED BY <6>1, <6>2, <2>4, <4>2
        <5> QED BY <5>1, <5>2
      <4>4. 8 * (w + 1) + (j + k - 8) = start_pos + 8 * i + j
        BY <1>1, <1>0
      <4> QED BY <4>1, <4>3, <4>4, <1>6, <1>0, <1>1 DEF Byte
    <3> QED BY <3>1, <3>2, <1>1
  <2>7. AddWords(Left, Right) = Goal
    BY <2>6 DEF AddWords, PackedWord
  <2> QED BY <2>7, <2>3, <1>1, <1>2, <1>9 DEF Inside, IsLast, MayShift, k
<1> QED BY <1>8, <1>9

(* Every word read is whole but the last of the string. *)
LEMMA BytesOfElement ==
  ASSUME InCall, NEW w \in 0..(NWords(rlp.element_size_bytes) - 1)
  PROVE  /\ last_rlp_word_len \in 1..8
         /\ ~IsLast(w) => /\ 8 * w + 8 <= rlp.element_size_bytes
                          /\ \A m \in 0..7 : Element(w)[m] = Byte(origin + (8 * w + m))
         /\ IsLast(w) => /\ rlp.element_size_bytes = 8 * w + last_rlp_word_len
                         /\ \A m \in 0..7 : Element(w)[m] =
                              IF m >= 8 - last_rlp_word_len
                              THEN Byte(origin + (8 * w + (m - (8 - last_rlp_word_len)))) ELSE 0
<1> DEFINE b == rlp.element_size_bytes
           l == last_rlp_word_len
<1>1. b \in Nat /\ origin \in Nat /\ w \in Nat
  BY DEF InCall, NWords
<1>2. Element(w) = PackedWord(origin, b, w) /\ (IsLast(w) <=> w = NWords(b) - 1)
  BY ElementIsPacked DEF IsLast
<1>3. l = (IF b % 8 = 0 THEN 8 ELSE b % 8) /\ l \in 1..8
  BY <1>1 DEF last_rlp_word_len
<1>4. w # NWords(b) - 1 => 8 * w + 8 <= b
  BY <1>1 DEF NWords
<1>5. w = NWords(b) - 1 => b = 8 * w + l
  BY <1>1, <1>3 DEF NWords
<1> HIDE DEF l
<1>6. CASE w # NWords(b) - 1
  BY <1>1, <1>2, <1>3, <1>4, <1>6 DEF PackedWord, Byte, l
<1>7. CASE w = NWords(b) - 1
  <2>1. (IF 8 * w + 8 <= b THEN 8 ELSE b - 8 * w) = l
    BY <1>1, <1>3, <1>5, <1>7
  <2>2. \A m \in 0..7 : Element(w)[m] = IF m >= 8 - l THEN Byte(origin + 8 * w + (m - (8 - l))) ELSE 0
    BY <2>1, <1>2 DEF PackedWord
  <2>3. \A m \in 0..7 : origin + 8 * w + (m - (8 - l)) = origin + (8 * w + (m - (8 - l)))
    BY <1>1, <1>3
  <2> QED BY <2>2, <2>3, <1>2, <1>3, <1>5, <1>7 DEF l
<1> QED BY <1>6, <1>7

LEMMA LastWord ==
  ASSUME InCall, remainder # 0
  PROVE  /\ FinalWord = PackedWord(origin + start_pos, size, size \div 8)
         /\ \A i \in LastReads : Inside(i)
         /\ \A n \in LastShifts : MayShift(n)
<1> DEFINE b == rlp.element_size_bytes
           k == left_shift
           r == remainder
           p == end_pos
           e == end_word
           l == last_rlp_word_len
           from == start_pos + 8 * (size \div 8)
           Goal == PackedWord(origin + start_pos, size, size \div 8)
<1>0. /\ b \in Nat /\ origin \in Nat /\ start_pos \in Nat /\ size \in Nat /\ start_pos + size <= b
      /\ k = start_pos % 8 /\ k \in 0..7 /\ r = size % 8 /\ r \in 1..7
      /\ p \in 1..8 /\ e \in Nat /\ start_pos + size = 8 * e + p /\ from \in Nat
      /\ from + r = 8 * e + p
  BY DEF InCall, left_shift, remainder, end_pos, end_word
<1>1. e \in 0..(NWords(b) - 1) /\ NWords(b) \in Nat
  BY <1>0 DEF NWords
<1>2. (r + k >= 9 => p = r + k - 8) /\ (r + k <= 8 => p = r + k)
  BY <1>0 DEF end_pos
<1>3. r + k >= 9 => e \in Nat \ {0} /\ from = 8 * (e - 1) + k
  BY <1>0, <1>2
<1>4. r + k <= 8 => from = 8 * e + k
  BY <1>0, <1>2
<1>5. /\ l \in 1..8
      /\ ~IsLast(e) => /\ 8 * e + 8 <= b
                       /\ \A m \in 0..7 : Element(e)[m] = Byte(origin + (8 * e + m))
      /\ IsLast(e) => /\ p <= l
                      /\ \A m \in 0..7 : Element(e)[m] =
                           IF m >= 8 - l THEN Byte(origin + (8 * e + (m - (8 - l)))) ELSE 0
  BY <1>0, <1>1, BytesOfElement
<1>6. \A j \in 0..7 : Goal[j] = IF j >= 8 - r THEN Byte(origin + (from + (j - (8 - r)))) ELSE 0
  <2>1. (IF 8 * (size \div 8) + 8 <= size THEN 8 ELSE size - 8 * (size \div 8)) = r
    BY <1>0
  <2>2. \A j \in 0..7 : Goal[j] =
          IF j >= 8 - r THEN Byte(origin + start_pos + 8 * (size \div 8) + (j - (8 - r))) ELSE 0
    BY <2>1 DEF PackedWord
  <2>3. \A j \in 0..7 : origin + start_pos + 8 * (size \div 8) + (j - (8 - r))
                          = origin + (from + (j - (8 - r)))
    BY <1>0
  <2> QED BY <2>2, <2>3
<1>7. rlp.element_size_words = NWords(b)
  BY <1>1, ElementIsPacked
<1> HIDE DEF k, r, p, e, l, from, b
<1>8. CASE r + k >= 9
  <2> DEFINE n == ShiftOf(e)
             Left == BitshiftLeft(Element(e - 1), left_shift)
             Right == Shifted(Element(e), n)
             S == AddWords(Left, Right)
  <2>1. n = IF IsLast(e) THEN l - k ELSE 8 - k
    BY DEF ShiftOf, last_word_right_shift, right_shift, k, l
  <2>2. n \in (0 - 7)..8 /\ Size(n) \in 0..8
    BY <2>1, <1>0, <1>5 DEF Size
  <2>3. \A m \in 0..7 : Element(e - 1)[m] = Byte(origin + (8 * (e - 1) + m))
    <3>1. e - 1 \in 0..(NWords(b) - 1) /\ e - 1 # NWords(b) - 1
      BY <1>1, <1>3, <1>8
    <3> QED BY <3>1, <1>7, BytesOfElement DEF IsLast, b
  <2>4. \A j \in 0..7 : Left[j] = IF j + k <= 7 THEN Element(e - 1)[j + k] ELSE 0
    BY DEF BitshiftLeft, k
  <2>5. \A j \in 0..7 : Right[j] = IF j - n \in 0..7 THEN Element(e)[j - n] ELSE 0
    <3>1. CASE n < 0
      BY <3>1, <2>2 DEF Shifted, BitshiftLeft
    <3>2. CASE n >= 0
      BY <3>2, <2>2 DEF Shifted, BitshiftRight
    <3> QED BY <3>1, <3>2, <2>2
  <2> HIDE DEF n
  <2>6. ASSUME NEW j \in 0..7, j < r
        PROVE  S[j] = Byte(origin + (from + j))
    <3>0. S[j] = Left[j] + Right[j]
      BY DEF AddWords
    <3>1. CASE j + k <= 7
      <4>1. Left[j] = Byte(origin + (from + j)) /\ Byte(origin + (from + j)) \in Nat
        <5>1. 8 * (e - 1) + (j + k) = from + j /\ j + k \in 0..7
          BY <3>1, <1>0, <1>3, <1>8
        <5> QED BY <5>1, <3>1, <2>3, <2>4, <1>0 DEF Byte
      <4>2. Right[j] = 0
        <5>1. CASE IsLast(e)
          <6>1. j - n \in 0..7 => j - n < 8 - l
            BY <5>1, <2>1, <3>1, <1>0, <1>5
          <6> QED BY <5>1, <6>1, <2>5, <1>5
        <5>2. CASE ~IsLast(e)
          <6>1. j - n \notin 0..7
            BY <5>2, <2>1, <3>1, <1>0
          <6> QED BY <6>1, <2>5
        <5> QED BY <5>1, <5>2
      <4> HIDE DEF Left, Right, S
      <4> QED BY <3>0, <4>1, <4>2
    <3>2. CASE j + k > 7
      <4>1. Left[j] = 0
        BY <3>2, <2>4, <1>0
      <4>2. Right[j] = Byte(origin + (8 * e + (j + k - 8)))
        <5>1. CASE IsLast(e)
          <6>1. /\ j - n \in 0..7 /\ j - n >= 8 - l
                /\ (j - n) - (8 - l) = j + k - 8
            BY <5>1, <2>1, <2>6, <3>2, <1>0, <1>2, <1>5, <1>8
          <6> QED BY <5>1, <6>1, <2>5, <1>5
        <5>2. CASE ~IsLast(e)
          <6>1. j - n \in 0..7 /\ j - n = j + k - 8
            BY <5>2, <2>1, <2>6, <3>2, <1>0
          <6> QED BY <5>2, <6>1, <2>5, <1>5
        <5> QED BY <5>1, <5>2
      <4>3. 8 * e + (j + k - 8) = from + j /\ Byte(origin + (from + j)) \in Nat
        BY <1>0, <1>3, <1>8 DEF Byte
      <4> HIDE DEF Left, Right, S
      <4> QED BY <3>0, <4>1, <4>2, <4>3
    <3> QED BY <3>1, <3>2, <1>0
  <2>7. FinalWord = [j \in 0..7 |-> IF j >= 8 - r THEN BitshiftRight(S, 8 - r)[j] ELSE 0]
    BY <1>8 DEF FinalWord, left_shift_above_8_bytes, LowBytes, k, r, e, n
  <2>8. \A j \in 0..7 : j >= 8 - r => BitshiftRight(S, 8 - r)[j] = S[j - (8 - r)]
    BY DEF BitshiftRight
  <2>9. \A j \in 0..7 : j >= 8 - r => j - (8 - r) \in 0..7 /\ j - (8 - r) < r
    BY <1>0
  <2>10. \A j \in 0..7 : FinalWord[j] = Goal[j]
    BY <2>6, <2>7, <2>8, <2>9, <1>6
  <2>11. FinalWord = Goal
    <3>1. Goal = [j \in 0..7 |-> Goal[j]]
      BY DEF PackedWord
    <3>2. FinalWord = [j \in 0..7 |-> FinalWord[j]]
      <4> HIDE DEF S
      <4> QED BY <2>7, Zenon
    <3>3. [j \in 0..7 |-> FinalWord[j]] = [j \in 0..7 |-> Goal[j]]
      <4> HIDE DEF Goal
      <4> QED BY <2>10
    <3> HIDE DEF Goal
    <3> QED BY <3>1, <3>2, <3>3, Zenon
  <2>12. LastReads = {e - 1, e} /\ LastShifts = {k, Size(n), 8 - r}
    BY <1>8 DEF LastReads, LastShifts, left_shift_above_8_bytes, k, r, e, n
  <2> QED BY <2>2, <2>11, <2>12, <1>0, <1>1, <1>3, <1>7, <1>8 DEF Inside, MayShift
<1>9. CASE r + k <= 8
  <2> DEFINE t == ShiftToEnd
  <2>1. t = IF IsLast(e) THEN l - p ELSE 8 - p
    BY DEF ShiftToEnd, l, p, e
  <2>2. t \in 0..8 /\ t <= 8 - r
    BY <2>1, <1>0, <1>2, <1>5, <1>9
  <2>3. FinalWord = [j \in 0..7 |-> IF j >= 8 - (p - k) THEN BitshiftRight(Element(e), t)[j] ELSE 0]
    <3>1. ~left_shift_above_8_bytes
      BY <1>9, <1>0 DEF left_shift_above_8_bytes, k, r
    <3> QED BY <3>1 DEF FinalWord, LowBytes, k, p, e
  <2>4. \A j \in 0..7 : BitshiftRight(Element(e), t)[j] = IF j >= t THEN Element(e)[j - t] ELSE 0
    BY DEF BitshiftRight
  <2> HIDE DEF t
  <2>5. 8 - (p - k) = 8 - r
    BY <1>0, <1>2, <1>9
  <2>6. ASSUME NEW j \in 0..7, j >= 8 - r
        PROVE  Element(e)[j - t] = Byte(origin + (from + (j - (8 - r)))) /\ j >= t
    <3>1. CASE IsLast(e)
      <4>1. /\ j - t \in 0..7 /\ j - t >= 8 - l
            /\ 8 * e + ((j - t) - (8 - l)) = from + (j - (8 - r))
        BY <3>1, <2>1, <2>2, <2>6, <1>0, <1>2, <1>4, <1>5, <1>9
      <4> QED BY <3>1, <4>1, <2>2, <2>6, <1>0, <1>5
    <3>2. CASE ~IsLast(e)
      <4>1. j - t \in 0..7 /\ 8 * e + (j - t) = from + (j - (8 - r))
        BY <3>2, <2>1, <2>2, <2>6, <1>0, <1>2, <1>4, <1>9
      <4> QED BY <3>2, <4>1, <2>2, <2>6, <1>0, <1>5
    <3> QED BY <3>1, <3>2
  <2>7. \A j \in 0..7 : FinalWord[j] = Goal[j]
    BY <2>3, <2>4, <2>5, <2>6, <1>6
  <2>8. FinalWord = Goal
    <3>1. Goal = [j \in 0..7 |-> Goal[j]]
      BY DEF PackedWord
    <3>2. FinalWord = [j \in 0..7 |-> FinalWord[j]]
      BY <2>3
    <3> HIDE DEF Goal
    <3> QED BY <3>1, <3>2, <2>7
  <2>9. LastReads = {e} /\ LastShifts = {t}
    BY <1>9, <1>0 DEF LastReads, LastShifts, left_shift_above_8_bytes, k, r, e, t
  <2> QED BY <2>2, <2>8, <2>9, <1>1, <1>7 DEF Inside, MayShift
<1> QED BY <1>8, <1>9, <1>0

-----------------------------------------------------------------------------
(* The string is packed, and in a call the words so far are the first ones *)
(* of what was asked for.                                                  *)
IInv ==
  /\ TypeOK
  /\ InCall
  /\ pc = "idle" => start_pos = 0 /\ size = 0
  /\ pc # "idle" => /\ Len(new_words) <= full_words
                    /\ \A i \in 1..Len(new_words) :
                         new_words[i] = PackedWord(origin + start_pos, size, i - 1)
  /\ pc = "remainder" => Len(new_words) = full_words

LEMMA PackedIsAWord ==
  ASSUME NEW o \in Nat, NEW b \in Nat, NEW i \in Nat, 8 * i <= b
  PROVE  PackedWord(o, b, i) \in Words
BY DEF PackedWord, Words, Byte

LEMMA PackedIsASequence ==
  ASSUME NEW o \in Nat, NEW b \in Nat
  PROVE  /\ Packed(o, b) \in [element : Seq(Words), element_size_words : Nat, element_size_bytes : Nat]
         /\ Packed(o, b).element_size_words = Len(Packed(o, b).element)
         /\ Packed(o, b).element_size_bytes = b
<1> DEFINE s == [i \in 1..NWords(b) |-> PackedWord(o, b, i - 1)]
<1>1. NWords(b) \in Nat /\ \A i \in 1..NWords(b) : i - 1 \in Nat /\ 8 * (i - 1) <= b
  BY DEF NWords
<1>2. \A i \in 1..NWords(b) : PackedWord(o, b, i - 1) \in Words
  BY <1>1, PackedIsAWord
<1>3. s \in Seq(Words) /\ Len(s) = NWords(b)
  BY <1>1, <1>2
<1> HIDE DEF s
<1> QED BY <1>1, <1>3 DEF Packed, IntsSequence, s

(* A sequence of the right words is what a caller would have packed. *)
LEMMA ReturnedIsPacked ==
  ASSUME NEW o \in Nat, NEW b \in Nat, NEW s \in Seq(Words), Len(s) = NWords(b),
         \A i \in 1..Len(s) : s[i] = PackedWord(o, b, i - 1)
  PROVE  IntsSequence(s, Len(s), b) = Packed(o, b)
<1>1. s = [i \in 1..NWords(b) |-> PackedWord(o, b, i - 1)]
  BY DEF NWords
<1> QED BY <1>1 DEF Packed

LEMMA InitIsInvariant == Init => IInv
<1> SUFFICES ASSUME Init PROVE IInv
  OBVIOUS
<1>1. PICK bytes \in Lengths : rlp = Packed(0, bytes)
  BY DEF Init
<1>2. bytes \in Nat
  BY LengthsAssumption
<1>3. /\ rlp \in [element : Seq(Words), element_size_words : Nat, element_size_bytes : Nat]
      /\ rlp.element_size_words = Len(rlp.element) /\ rlp.element_size_bytes = bytes
  BY <1>1, <1>2, PackedIsASequence
<1> QED BY <1>1, <1>2, <1>3 DEF Init, IInv, TypeOK, InCall

LEMMA StepKeepsInvariant == IInv /\ [Next]_vars => IInv'
<1> SUFFICES ASSUME IInv, [Next]_vars PROVE IInv'
  OBVIOUS
<1> USE DEF IInv
<1>0. /\ start_pos \in Nat /\ size \in Nat /\ origin \in Nat /\ rlp.element_size_bytes \in Nat
      /\ size \div 8 \in Nat /\ new_words \in Seq(Words) /\ Len(new_words) \in Nat
  BY DEF InCall, TypeOK
<1>1. CASE ExtractData
  <2>1. PICK call \in Calls : /\ call[1] + call[2] <= rlp.element_size_bytes
                             /\ start_pos' = call[1] /\ size' = call[2]
    BY <1>1 DEF ExtractData
  <2>2. call[1] \in Nat /\ call[2] \in Nat
    BY CallsAssumption
  <2>3. /\ new_words' = <<>> /\ pc' = "extract_data_rec" /\ calls' \in Nat
        /\ rlp' = rlp /\ origin' = origin
    BY <1>1 DEF ExtractData, TypeOK
  <2>4. TypeOK' /\ InCall'
    BY <2>1, <2>2, <2>3 DEF TypeOK, InCall
  <2>5. Len(new_words') = 0 /\ full_words' \in Nat
    BY <2>1, <2>2, <2>3 DEF full_words
  <2> QED BY <2>3, <2>4, <2>5
<1>2. CASE ExtractDataRec
  <2> DEFINE i == Len(new_words)
             word == AddWords(BitshiftLeft(Element(current_index), left_shift), RightPart(current_index + 1))
  <2>1. pc = "extract_data_rec" /\ i \in Nat /\ i < size \div 8 /\ current_index = start_word + i
    BY <1>0, <1>2 DEF ExtractDataRec, full_words, current_index
  <2>2. start_word + i \in Nat
    BY <1>0 DEF start_word
  <2>3. word = PackedWord(origin + start_pos, size, i)
    BY <2>1, <2>2, RecWord
  <2>4. word \in Words
    BY <1>0, <2>1, <2>3, PackedIsAWord
  <2>5. /\ new_words' = Append(new_words, word)
        /\ UNCHANGED <<rlp, origin, start_pos, size, pc, calls>>
    BY <1>2 DEF ExtractDataRec
  <2> HIDE DEF word
  <2>6. /\ new_words' \in Seq(Words) /\ Len(new_words') = i + 1
        /\ new_words'[i + 1] = word /\ \A m \in 1..i : new_words'[m] = new_words[m]
    BY <1>0, <2>4, <2>5
  <2>7. TypeOK' /\ InCall'
    BY <2>5, <2>6 DEF TypeOK, InCall
  <2>8. \A m \in 1..(i + 1) : new_words'[m] = PackedWord(origin + start_pos, size, m - 1)
    <3> SUFFICES ASSUME NEW m \in 1..(i + 1)
                 PROVE  new_words'[m] = PackedWord(origin + start_pos, size, m - 1)
      OBVIOUS
    <3>1. CASE m = i + 1
      <4>1. m - 1 = i
        BY <3>1, <2>1
      <4> QED BY <3>1, <4>1, <2>3, <2>6
    <3>2. CASE m # i + 1
      <4>1. m \in 1..i
        BY <3>2, <2>1
      <4> QED BY <4>1, <2>1, <2>6
    <3> QED BY <3>1, <3>2
  <2>9. /\ full_words' = size \div 8 /\ Len(new_words') <= full_words'
        /\ origin' = origin /\ start_pos' = start_pos /\ size' = size /\ pc' = "extract_data_rec"
    <3>1. origin' = origin /\ start_pos' = start_pos /\ size' = size /\ pc' = "extract_data_rec"
      BY <2>1, <2>5
    <3> QED BY <3>1, <2>1, <2>6, <1>0 DEF full_words
  <2> QED BY <2>6, <2>7, <2>8, <2>9
<1>3. CASE RecReturns
  BY <1>3 DEF RecReturns, TypeOK, InCall, full_words
<1>4. ASSUME NEW s \in Seq(Words), Return(s), Len(s) = NWords(size),
             \A m \in 1..Len(s) : s[m] = PackedWord(origin + start_pos, size, m - 1)
      PROVE  IInv'
  <2>1. origin + start_pos \in Nat
    BY <1>0
  <2>2. /\ rlp' = IntsSequence(s, Len(s), size) /\ origin' = origin + start_pos
        /\ start_pos' = 0 /\ size' = 0 /\ new_words' = <<>> /\ pc' = "idle" /\ calls' = calls
    BY <1>4 DEF Return
  <2>3. rlp' = Packed(origin', size)
    BY <1>0, <1>4, <2>1, <2>2, ReturnedIsPacked
  <2>4. /\ rlp' \in [element : Seq(Words), element_size_words : Nat, element_size_bytes : Nat]
        /\ rlp'.element_size_words = Len(rlp'.element) /\ rlp'.element_size_bytes = size
    <3>1. origin' \in Nat
      BY <2>1, <2>2
    <3> QED BY <1>0, <2>3, <3>1, PackedIsASequence
  <2>5. TypeOK' /\ InCall'
    BY <1>0, <2>1, <2>2, <2>3, <2>4 DEF TypeOK, InCall
  <2> QED BY <2>2, <2>5
<1>5. CASE NoRemainder
  <2>1. Return(new_words) /\ remainder = 0 /\ Len(new_words) = size \div 8 /\ pc # "idle"
    BY <1>5 DEF NoRemainder, full_words
  <2>2. Len(new_words) = NWords(size)
    BY <1>0, <2>1 DEF remainder, NWords
  <2> QED BY <1>0, <1>4, <2>1, <2>2
<1>6. CASE Remainder
  <2> DEFINE s == Append(new_words, FinalWord)
  <2>1. Return(s) /\ remainder # 0 /\ Len(new_words) = size \div 8 /\ pc # "idle"
    BY <1>6 DEF Remainder, full_words
  <2>2. FinalWord = PackedWord(origin + start_pos, size, size \div 8)
    BY <2>1, LastWord
  <2>3. FinalWord \in Words
    BY <1>0, <2>2, PackedIsAWord
  <2>4. /\ s \in Seq(Words) /\ Len(s) = size \div 8 + 1
        /\ s[size \div 8 + 1] = FinalWord /\ \A m \in 1..(size \div 8) : s[m] = new_words[m]
    BY <1>0, <2>1, <2>3
  <2>5. Len(s) = NWords(size)
    BY <1>0, <2>1, <2>4 DEF remainder, NWords
  <2>6. \A m \in 1..Len(s) : s[m] = PackedWord(origin + start_pos, size, m - 1)
    <3> SUFFICES ASSUME NEW m \in 1..(size \div 8 + 1)
                 PROVE  s[m] = PackedWord(origin + start_pos, size, m - 1)
      BY <2>4
    <3>1. CASE m = size \div 8 + 1
      <4>1. m - 1 = size \div 8
        BY <3>1, <1>0
      <4> QED BY <3>1, <4>1, <2>2, <2>4
    <3>2. CASE m # size \div 8 + 1
      <4>1. m \in 1..(size \div 8)
        BY <3>2, <1>0
      <4> QED BY <4>1, <2>1, <2>4
    <3> QED BY <3>1, <3>2
  <2> QED BY <1>4, <2>1, <2>4, <2>5, <2>6
<1>7. CASE UNCHANGED vars
  BY <1>7 DEF vars, TypeOK, InCall, full_words
<1> QED BY <1>1, <1>2, <1>3, <1>5, <1>6, <1>7 DEF Next, Done

-----------------------------------------------------------------------------
(***************************************************************************)
(* Cutting a list of strings apart (IntsSequenceList).                     *)
(***************************************************************************)

(* The words of the strings before the one of number i + 1. *)
WordsUpTo(i) == SumOfFirst(L!elements_sizes_words, i)

(* The definitions that both modules have are the same. *)
LEMMA SameFlatten == ASSUME NEW s PROVE L!FlattenSeq(s) = FlattenSeq(s)
BY DEF L!FlattenSeq, FlattenSeq

LEMMA SameSum == ASSUME NEW s, NEW n PROVE L!SumOfFirst(s, n) = SumOfFirst(s, n)
BY DEF L!SumOfFirst, SumOfFirst

LEMMA SamePacked ==
  ASSUME NEW o, NEW b
  PROVE  /\ L!Packed(o, b) = Packed(o, b) /\ L!NWords(b) = NWords(b)
         /\ \A s, n : L!IntsSequence(s, n, b) = IntsSequence(s, n, b)
BY DEF L!Packed, L!IntsSequence, L!NWords, L!PackedWord, L!Byte,
       Packed, IntsSequence, NWords, PackedWord, Byte

LEMMA SumOfNothing == ASSUME NEW s PROVE SumOfFirst(s, 0) = 0
<1>1. 0 \in Nat /\ \A i \in 1..0 : s[i] \in Nat
  OBVIOUS
<1> QED BY <1>1, SumOfFirstIs

LEMMA GivenStringIs ==
  ASSUME sizes \in Seq(Nat), NEW i \in 1..Len(sizes)
  PROVE  /\ L!BytesBefore(i) \in Nat /\ sizes[i] \in Nat /\ NWords(sizes[i]) \in Nat
         /\ L!GivenString(i) = Packed(L!BytesBefore(i), sizes[i])
<1>1. sizes[i] \in Nat /\ NWords(sizes[i]) \in Nat
  BY DEF NWords
<1>2. i - 1 \in 0..Len(sizes) /\ Len(sizes) \in Nat /\ \A k \in 1..Len(sizes) : sizes[k] \in Nat
  OBVIOUS
<1>3. SumOfFirst(sizes, i - 1) \in Nat
  BY <1>2, SumOfFirstIs
<1> QED
  BY <1>1, <1>3, SameSum, SamePacked DEF L!BytesBefore, L!GivenString

LEMMA SizesInWords ==
  ASSUME sizes \in Seq(Nat)
  PROVE  /\ Len(L!elements_sizes_words) = Len(sizes)
         /\ \A i \in 1..Len(sizes) : L!elements_sizes_words[i] = NWords(sizes[i])
         /\ WordsUpTo(0) = 0
         /\ \A i \in 0..Len(sizes) : WordsUpTo(i) \in Nat
         /\ \A i \in 1..Len(sizes) : WordsUpTo(i) = WordsUpTo(i - 1) + NWords(sizes[i])
<1> DEFINE w == L!elements_sizes_words
<1>1. Len(sizes) \in Nat
  OBVIOUS
<1>2. w = [i \in 1..Len(sizes) |-> NWords(sizes[i])]
  BY SamePacked DEF L!elements_sizes_words
<1>3. ASSUME NEW i \in 1..Len(sizes) PROVE w[i] = NWords(sizes[i]) /\ w[i] \in Nat
  <2>1. sizes[i] \in Nat
    OBVIOUS
  <2> QED BY <1>2, <2>1 DEF NWords
<1>4. Len(w) = Len(sizes)
  BY <1>1, <1>2
<1> HIDE DEF w
<1>5. /\ SumOfFirst(w, 0) = 0
      /\ \A k \in 0..Len(sizes) : SumOfFirst(w, k) \in Nat
      /\ \A k \in 0..(Len(sizes) - 1) : SumOfFirst(w, k + 1) = SumOfFirst(w, k) + w[k + 1]
  BY <1>1, <1>3, SumOfFirstIs
<1>6. ASSUME NEW i \in 1..Len(sizes) PROVE SumOfFirst(w, i) = SumOfFirst(w, i - 1) + NWords(sizes[i])
  <2>1. i - 1 \in 0..(Len(sizes) - 1) /\ (i - 1) + 1 = i
    BY <1>1
  <2> QED BY <2>1, <1>3, <1>5
<1> QED
  BY <1>3, <1>4, <1>5, <1>6 DEF WordsUpTo, w

(* All words, one string after the other. *)
LEMMA ConcatIs ==
  ASSUME sizes \in Seq(Nat)
  PROVE  /\ Len(L!elements_concat) = WordsUpTo(Len(sizes))
         /\ \A i \in 1..Len(sizes) : \A k \in 1..NWords(sizes[i]) :
              L!elements_concat[WordsUpTo(i - 1) + k] = PackedWord(L!BytesBefore(i), sizes[i], k - 1)
<1> DEFINE lists == [i \in 1..Len(sizes) |-> L!GivenString(i).element]
           before == [i \in 0..Len(sizes) |-> WordsUpTo(i)]
<1>1. Len(sizes) \in Nat
  OBVIOUS
<1>2. IsList(lists) /\ Len(lists) = Len(sizes)
  BY <1>1, IndexedIsList
<1>3. ASSUME NEW i \in 1..Len(sizes)
      PROVE  /\ IsList(lists[i]) /\ Len(lists[i]) = NWords(sizes[i])
             /\ \A k \in 1..NWords(sizes[i]) :
                  lists[i][k] = PackedWord(L!BytesBefore(i), sizes[i], k - 1)
  <2>1. L!GivenString(i) = Packed(L!BytesBefore(i), sizes[i]) /\ NWords(sizes[i]) \in Nat
    BY GivenStringIs
  <2>2. PICK one : one = [k \in 1..NWords(sizes[i]) |-> PackedWord(L!BytesBefore(i), sizes[i], k - 1)]
    OBVIOUS
  <2>3. lists[i] = one
    BY <2>1, <2>2 DEF Packed, IntsSequence
  <2>4. one = [k \in 1..NWords(sizes[i]) |-> one[k]]
    BY <2>2
  <2>5. IsList(one) /\ Len(one) = NWords(sizes[i])
    BY <2>1, <2>4, IndexedIsList
  <2> QED BY <2>2, <2>3, <2>5
<1>4. L!elements_concat = FlattenSeq(lists)
  BY SameFlatten DEF L!elements_concat
<1>5. before[0] = 0 /\ \A i \in 1..Len(sizes) : before[i] = before[i - 1] + Len(lists[i])
  <2>1. before[0] = 0
    BY <1>1, SizesInWords
  <2>2. ASSUME NEW i \in 1..Len(sizes) PROVE before[i] = before[i - 1] + Len(lists[i])
    <3>1. i \in 0..Len(sizes) /\ i - 1 \in 0..Len(sizes)
      OBVIOUS
    <3>2. WordsUpTo(i) = WordsUpTo(i - 1) + NWords(sizes[i]) /\ Len(lists[i]) = NWords(sizes[i])
      BY <1>3, SizesInWords
    <3> HIDE DEF lists
    <3> QED BY <3>1, <3>2
  <2> QED BY <2>1, <2>2
<1>6. \A i \in 0..Len(sizes) : before[i] = WordsUpTo(i)
  OBVIOUS
<1> HIDE DEF lists, before
<1>7. /\ Len(FlattenSeq(lists)) = before[Len(lists)]
      /\ \A i \in 1..Len(lists) : \A k \in 1..Len(lists[i]) :
           FlattenSeq(lists)[before[i - 1] + k] = lists[i][k]
  <2>1. IsList(lists) /\ \A i \in 1..Len(lists) : IsList(lists[i])
    BY <1>2, <1>3
  <2>2. before[0] = 0 /\ \A i \in 1..Len(lists) : before[i] = before[i - 1] + Len(lists[i])
    BY <1>2, <1>5
  <2>3. PICK ls, bf : ls = lists /\ bf = before
    OBVIOUS
  <2>4. /\ IsList(ls) /\ \A i \in 1..Len(ls) : IsList(ls[i])
        /\ bf[0] = 0 /\ \A i \in 1..Len(ls) : bf[i] = bf[i - 1] + Len(ls[i])
    BY <2>1, <2>2, <2>3
  <2>5. /\ Len(FlattenSeq(ls)) = bf[Len(ls)]
        /\ \A i \in 1..Len(ls) : \A k \in 1..Len(ls[i]) :
             FlattenSeq(ls)[bf[i - 1] + k] = ls[i][k]
    BY ONLY <2>4, FlattenIs
  <2> QED BY <2>3, <2>5
<1>8. ASSUME NEW i \in 1..Len(sizes), NEW k \in 1..NWords(sizes[i])
      PROVE  L!elements_concat[WordsUpTo(i - 1) + k] = PackedWord(L!BytesBefore(i), sizes[i], k - 1)
  <2>1. i - 1 \in 0..Len(sizes) /\ k \in 1..Len(lists[i]) /\ i \in 1..Len(lists)
    BY <1>2, <1>3
  <2>2. FlattenSeq(lists)[before[i - 1] + k] = lists[i][k]
    BY <1>7, <2>1
  <2> QED BY <1>3, <1>4, <1>6, <2>1, <2>2
<1> QED
  BY <1>1, <1>2, <1>4, <1>6, <1>7, <1>8

(* The strings cut so far are those that were packed, and offset is where  *)
(* they end; of the next one the first words have been copied.             *)
ListInv ==
  /\ sizes \in Seq(Nat) /\ IsList(acc) /\ IsList(slice)
  /\ list_pc \in {"reconstruct_ints_sequence_list", "slice_arr", "done"}
  /\ Len(acc) <= Len(sizes) /\ offset = WordsUpTo(Len(acc))
  /\ \A i \in 1..Len(acc) : acc[i] = L!GivenString(i)
  /\ \A k \in 1..Len(slice) :
       slice[k] = PackedWord(L!BytesBefore(Len(acc) + 1), sizes[Len(acc) + 1], k - 1)
  /\ list_pc = "slice_arr" => Len(acc) < Len(sizes) /\ Len(slice) <= NWords(sizes[Len(acc) + 1])
  /\ list_pc # "slice_arr" => slice = <<>>
  /\ list_pc = "done" => Len(acc) = Len(sizes)

LEMMA ListBegins ==
  ASSUME sizes \in Seq(Nat), acc = <<>>, offset = 0, slice = <<>>,
         \/ list_pc = "reconstruct_ints_sequence_list"
         \/ list_pc = "done" /\ sizes = <<>>
  PROVE  ListInv
<1>1. Len(acc) = 0 /\ Len(slice) = 0 /\ IsList(acc) /\ IsList(slice) /\ Len(sizes) \in Nat
  BY EmptyList
<1>2. WordsUpTo(0) = 0
  BY SizesInWords
<1> QED BY <1>1, <1>2, EmptyList DEF ListInv

LEMMA InitIsListInv == LibraryInit => ListInv
<1>1. CASE NoList
  BY <1>1, ListBegins DEF NoList
<1>2. CASE L!Init
  BY <1>2, ListsAssumption, ListBegins DEF L!Init
<1> QED BY <1>1, <1>2 DEF LibraryInit

(* One step of reconstruct_ints_sequence_list or of slice_arr. *)
LEMMA RebuildKeepsListInv ==
  ASSUME ListInv, L!Next
  PROVE  ListInv'
<1> USE DEF ListInv
<1>0. /\ Len(acc) \in Nat /\ Len(slice) \in Nat /\ Len(sizes) \in Nat
      /\ Len(L!elements_sizes_words) = Len(sizes)
  BY ListProperties, SizesInWords
<1>1. CASE L!ReconstructIntsSequenceList
  <2>1. /\ list_pc = "reconstruct_ints_sequence_list"
        /\ list_pc' = IF Len(acc) = Len(sizes) THEN "done" ELSE "slice_arr"
        /\ UNCHANGED <<sizes, acc, offset, slice>>
    BY <1>0, <1>1 DEF L!ReconstructIntsSequenceList, L!current_index
  <2>2. Len(slice) = 0
    BY <2>1, EmptyList
  <2>3. WordsUpTo(Len(acc))' = WordsUpTo(Len(acc))
    BY <2>1 DEF WordsUpTo, L!elements_sizes_words
  <2>4. \A i \in 1..Len(acc) : L!GivenString(i)' = L!GivenString(i)
    BY <2>1 DEF L!GivenString, L!BytesBefore
  <2>5. Len(acc) # Len(sizes) =>
          Len(acc) < Len(sizes) /\ 0 <= NWords(sizes[Len(acc) + 1])
    <3> SUFFICES ASSUME Len(acc) # Len(sizes)
                 PROVE  Len(acc) < Len(sizes) /\ 0 <= NWords(sizes[Len(acc) + 1])
      OBVIOUS
    <3>1. Len(acc) + 1 \in 1..Len(sizes)
      BY <1>0
    <3>2. NWords(sizes[Len(acc) + 1]) \in Nat
      BY <3>1, GivenStringIs
    <3> QED BY <1>0, <3>2
  <2> QED BY <2>1, <2>2, <2>3, <2>4, <2>5
<1>2. ASSUME list_pc = "slice_arr"
      PROVE  /\ Len(acc) + 1 \in 1..Len(sizes) /\ L!SliceSize = NWords(sizes[Len(acc) + 1])
             /\ sizes[Len(acc) + 1] \in Nat /\ NWords(sizes[Len(acc) + 1]) \in Nat
             /\ L!BytesBefore(Len(acc) + 1) \in Nat
  <2>1. Len(acc) + 1 \in 1..Len(sizes)
    BY <1>0, <1>2
  <2>2. L!SliceSize = NWords(sizes[Len(acc) + 1])
    BY <2>1, SizesInWords DEF L!SliceSize, L!SizeWords, L!current_index
  <2> QED BY <2>1, <2>2, GivenStringIs
<1>3. CASE L!SliceArr
  <2>1. /\ list_pc = "slice_arr" /\ Len(slice) # L!SliceSize
        /\ slice' = Append(slice, L!NextWord) /\ UNCHANGED <<sizes, acc, offset, list_pc>>
    BY <1>3 DEF L!SliceArr
  <2> DEFINE n == Len(acc) + 1
             word == PackedWord(L!BytesBefore(n), sizes[n], Len(slice))
  <2>2. n \in 1..Len(sizes) /\ Len(slice) + 1 \in 1..NWords(sizes[n]) /\ n - 1 = Len(acc)
        /\ (Len(slice) + 1) - 1 = Len(slice)
    BY <1>0, <1>2, <2>1
  <2>3. L!elements_concat[WordsUpTo(n - 1) + (Len(slice) + 1)]
          = PackedWord(L!BytesBefore(n), sizes[n], (Len(slice) + 1) - 1)
    BY <2>2, ConcatIs
  <2>4. WordsUpTo(Len(acc)) \in Nat
    BY <1>0, SizesInWords
  <2>5. L!NextWord = word
    <3>1. offset + Len(slice) + 1 = WordsUpTo(n - 1) + (Len(slice) + 1)
      BY <1>0, <2>2, <2>4
    <3> HIDE DEF n
    <3> QED BY <2>2, <2>3, <3>1 DEF L!NextWord
  <2>6. /\ IsList(slice') /\ Len(slice') = Len(slice) + 1
        /\ \A k \in 1..Len(slice) : slice'[k] = slice[k]
        /\ slice'[Len(slice) + 1] = word
    <3>1. slice' = slice \o <<word>>
      <4>1. slice' = Append(slice, word)
        BY <2>1, <2>5
      <4>2. slice \in Seq({slice[i] : i \in DOMAIN slice})
        BY <1>0 DEF IsList
      <4> HIDE DEF word
      <4> QED BY ONLY <4>1, <4>2
    <3> HIDE DEF word
    <3> QED BY <3>1, OneMoreElement
  <2>7. ASSUME NEW k \in 1..Len(slice')
        PROVE  slice'[k] = PackedWord(L!BytesBefore(n), sizes[n], k - 1)
    <3>1. CASE k = Len(slice) + 1
      BY <3>1, <2>2, <2>6
    <3>2. CASE k # Len(slice) + 1
      <4>1. k \in 1..Len(slice)
        BY <3>2, <1>0, <2>6
      <4> QED BY <4>1, <2>6
    <3> QED BY <3>1, <3>2
  <2>8. Len(slice') <= NWords(sizes[n])
    BY <2>2, <2>6
  <2>9. /\ L!BytesBefore(n)' = L!BytesBefore(n) /\ WordsUpTo(Len(acc))' = WordsUpTo(Len(acc))
        /\ \A i \in 1..Len(acc) : L!GivenString(i)' = L!GivenString(i)
    BY <2>1 DEF L!GivenString, L!BytesBefore, WordsUpTo, L!elements_sizes_words
  <2>10. L!BytesBefore(Len(acc) + 1)' = L!BytesBefore(n) /\ sizes[Len(acc) + 1]' = sizes[n]
    BY <2>1, <2>9
  <2> QED BY <1>2, <2>1, <2>6, <2>7, <2>8, <2>9, <2>10
<1>4. CASE L!SliceReturns
  <2> DEFINE n == Len(acc) + 1
             string == L!IntsSequence(slice, L!SizeWords, sizes[L!current_index + 1])
  <2>1. /\ list_pc = "slice_arr" /\ Len(slice) = NWords(sizes[n])
        /\ acc' = Append(acc, string)
        /\ offset' = offset + Len(slice) /\ slice' = <<>>
        /\ list_pc' = "reconstruct_ints_sequence_list" /\ sizes' = sizes
    BY <1>2, <1>4 DEF L!SliceReturns, L!OffsetBehind
  <2>2. n \in 1..Len(sizes) /\ n - 1 = Len(acc) /\ L!SizeWords = NWords(sizes[n])
    BY <1>0, <1>2, <2>1 DEF L!SliceSize
  <2>3. string = L!GivenString(n)
    <3>1. string = IntsSequence(slice, NWords(sizes[n]), sizes[n])
      BY <2>2, SamePacked DEF L!current_index
    <3>2. slice = [k \in 1..NWords(sizes[n]) |-> PackedWord(L!BytesBefore(n), sizes[n], k - 1)]
      <4>1. slice = [k \in 1..Len(slice) |-> slice[k]]
        BY ListProperties
      <4> QED BY <4>1, <2>1
    <3> HIDE DEF n
    <3>3. L!GivenString(n) = Packed(L!BytesBefore(n), sizes[n])
      BY <2>2, GivenStringIs
    <3> QED BY <3>1, <3>2, <3>3 DEF Packed
  <2>4. /\ IsList(acc') /\ Len(acc') = n
        /\ \A i \in 1..Len(acc) : acc'[i] = acc[i]
        /\ acc'[n] = string
    <3>1. acc' = acc \o <<string>>
      <4> HIDE DEF string
      <4> QED BY <2>1 DEF IsList
    <3> HIDE DEF string
    <3> QED BY <3>1, OneMoreElement
  <2>5. ASSUME NEW i \in 1..Len(acc') PROVE acc'[i] = L!GivenString(i)
    <3>1. CASE i = n
      BY <3>1, <2>3, <2>4
    <3>2. CASE i # n
      <4>1. i \in 1..Len(acc)
        BY <3>2, <1>0, <2>4
      <4> QED BY <4>1, <2>4
    <3> QED BY <3>1, <3>2
  <2>6. offset' = WordsUpTo(n)
    <3> HIDE DEF n
    <3> QED BY <2>1, <2>2, SizesInWords
  <2>7. \A i : L!GivenString(i)' = L!GivenString(i) /\ WordsUpTo(i)' = SumOfFirst(L!elements_sizes_words, i)
    BY <2>1 DEF L!GivenString, L!BytesBefore, WordsUpTo, L!elements_sizes_words
  <2>8. WordsUpTo(Len(acc))' = WordsUpTo(n)
    <3>1. L!elements_sizes_words' = L!elements_sizes_words
      BY <2>1 DEF L!elements_sizes_words
    <3> QED BY <3>1, <2>4 DEF WordsUpTo
  <2>9. Len(slice') = 0 /\ IsList(slice')
    BY <2>1, EmptyList
  <2> HIDE DEF string
  <2> QED BY <1>0, <2>1, <2>2, <2>4, <2>5, <2>6, <2>7, <2>8, <2>9
<1>5. CASE L!Done
  <2>1. UNCHANGED <<sizes, acc, offset, slice, list_pc>>
    BY <1>5 DEF L!Done, L!vars
  <2> QED BY <2>1 DEF L!GivenString, L!BytesBefore, WordsUpTo, L!elements_sizes_words
<1> QED BY <1>1, <1>3, <1>4, <1>5 DEF L!Next

-----------------------------------------------------------------------------
(***************************************************************************)
(* The library.  A string of a list is packed, so it may be the argument.  *)
(***************************************************************************)

LEMMA LibraryInitIsInvariant == LibraryInit => IInv /\ ListInv
<1>1. ASSUME LibraryInit PROVE IInv
  <2>1. CASE Init
    BY <2>1, InitIsInvariant
  <2>2. CASE /\ rlp = Packed(0, 0) /\ origin = 0 /\ start_pos = 0 /\ size = 0
             /\ new_words = <<>> /\ pc = "idle" /\ calls = 0
    <3>1. /\ rlp \in [element : Seq(Words), element_size_words : Nat, element_size_bytes : Nat]
          /\ rlp.element_size_words = Len(rlp.element) /\ rlp.element_size_bytes = 0
      BY <2>2, PackedIsASequence
    <3> QED BY <2>2, <3>1 DEF IInv, TypeOK, InCall
  <2> QED BY <1>1, <2>1, <2>2 DEF LibraryInit
<1> QED BY <1>1, InitIsListInv

LEMMA TakeStringKeepsInvariant ==
  ASSUME IInv, ListInv, TakeString
  PROVE  IInv' /\ ListInv'
<1>1. PICK i \in DOMAIN acc : rlp' = acc[i] /\ origin' = L!BytesBefore(i)
  BY DEF TakeString
<1>2. i \in 1..Len(acc) /\ Len(acc) \in Nat /\ Len(sizes) \in Nat /\ Len(acc) <= Len(sizes)
  BY ListProperties DEF ListInv
<1>3. i \in 1..Len(sizes) /\ sizes \in Seq(Nat) /\ acc[i] = L!GivenString(i)
  BY <1>2 DEF ListInv
<1>4. rlp' = Packed(origin', sizes[i]) /\ origin' \in Nat /\ sizes[i] \in Nat
  BY <1>1, <1>3, GivenStringIs
<1>5. /\ rlp' \in [element : Seq(Words), element_size_words : Nat, element_size_bytes : Nat]
      /\ rlp'.element_size_words = Len(rlp'.element) /\ rlp'.element_size_bytes = sizes[i]
  BY <1>4, PackedIsASequence
<1>6. /\ start_pos' = 0 /\ size' = 0 /\ pc' = "idle" /\ new_words' = new_words
      /\ new_words \in Seq(Words) /\ calls' \in Nat
  BY DEF TakeString, IInv, TypeOK
<1>7. IInv'
  BY <1>4, <1>5, <1>6 DEF IInv, TypeOK, InCall
<1>8. /\ sizes' = <<>> /\ acc' = <<>> /\ offset' = 0 /\ slice' = <<>> /\ list_pc' = "done"
  BY DEF TakeString
<1>9. WordsUpTo(Len(acc))' = 0
  <2>1. WordsUpTo(Len(acc))' = SumOfFirst(L!elements_sizes_words', 0)
    BY <1>8, EmptyList DEF WordsUpTo
  <2> QED BY <2>1, SumOfNothing
<1>10. ListInv'
  BY <1>8, <1>9, EmptyList DEF ListInv
<1> QED BY <1>7, <1>10

LEMMA LibraryKeepsInvariant ==
  IInv /\ ListInv /\ [LibraryNext]_<<vars, list_vars>> => IInv' /\ ListInv'
<1> SUFFICES ASSUME IInv, ListInv, [LibraryNext]_<<vars, list_vars>>
             PROVE  IInv' /\ ListInv'
  OBVIOUS
<1>1. CASE Rebuild
  BY <1>1, RebuildKeepsListInv, StepKeepsInvariant DEF Rebuild
<1>2. CASE TakeString
  BY <1>2, TakeStringKeepsInvariant
<1>3. ASSUME UNCHANGED list_vars PROVE ListInv'
  BY <1>3 DEF list_vars, ListInv, L!GivenString, L!BytesBefore, WordsUpTo, L!elements_sizes_words
<1>4. CASE Extract
  BY <1>3, <1>4, StepKeepsInvariant DEF Extract
<1>5. CASE UNCHANGED <<vars, list_vars>>
  BY <1>3, <1>5, StepKeepsInvariant
<1> QED BY <1>1, <1>2, <1>4, <1>5 DEF LibraryNext

LEMMA InvariantHolds == LibrarySpec => [](IInv /\ ListInv)
<1> QED BY LibraryInitIsInvariant, LibraryKeepsInvariant, PTL DEF LibrarySpec

(* For lists of any number of strings, each of any length, the strings come*)
(* back as they were packed, and when the last one has all words are used  *)
(* (lib/types.cairo:41-103).                                               *)
THEOREM ListsAreCutRight == LibrarySpec => []StringsAreRebuilt
<1>1. ListInv => StringsAreRebuilt
  <2> SUFFICES ASSUME ListInv PROVE StringsAreRebuilt
    OBVIOUS
  <2>1. \A i \in 1..Len(acc) : acc[i] = L!GivenString(i)
    BY DEF ListInv
  <2>2. list_pc = "done" => Len(acc) = Len(sizes) /\ offset = Len(L!elements_concat)
    BY ConcatIs DEF ListInv
  <2> QED BY <2>1, <2>2 DEF StringsAreRebuilt, L!StringsAreRebuilt
<1> QED BY <1>1, InvariantHolds, PTL

(* extract_data_rec and extract_data type check for every string. *)
THEOREM TypeCorrect == LibrarySpec => []TypeOK
<1>1. IInv /\ ListInv => TypeOK
  BY DEF IInv
<1> QED BY <1>1, InvariantHolds, PTL

(* For strings of every length, calls anywhere in them and any number of   *)
(* calls on the result of calls, extract_data returns the bytes asked for, *)
(* packed the way its own argument is.                                     *)
THEOREM ExtractionIsRight == LibrarySpec => []ResultIsTheBytesAskedFor
<1>1. IInv => ResultIsTheBytesAskedFor
  BY DEF IInv, InCall, ResultIsTheBytesAskedFor
<1> QED BY <1>1, InvariantHolds, PTL

(* extract_data reads no word before or after those of its argument. *)
THEOREM NothingOutsideIsRead == LibrarySpec => []ReadsAreInside
<1>1. IInv => ReadsAreInside
  <2> SUFFICES ASSUME IInv PROVE ReadsAreInside
    OBVIOUS
  <2>1. InCall /\ size \in Nat /\ start_pos \in Nat /\ new_words \in Seq(Words)
    BY DEF IInv, InCall, TypeOK
  <2>2. ASSUME pc = "extract_data_rec", Len(new_words) # full_words
        PROVE  \A i \in RecReads : Inside(i)
    <3>1. Len(new_words) \in Nat /\ Len(new_words) < size \div 8
      BY <2>1, <2>2 DEF IInv, full_words
    <3>2. current_index \in Nat /\ current_index = start_word + Len(new_words)
      BY <2>1, <3>1 DEF current_index, start_word
    <3> QED BY <2>1, <3>1, <3>2, RecWord DEF RecReads
  <2>3. ASSUME pc = "remainder", remainder # 0
        PROVE  \A i \in LastReads : Inside(i)
    BY <2>1, <2>3, LastWord
  <2> QED BY <2>2, <2>3 DEF ReadsAreInside
<1> QED BY <1>1, InvariantHolds, PTL

(* No assertion of bitshift_left or bitshift_right fails for a call within *)
(* the string.                                                             *)
THEOREM NoAssertionFails == LibrarySpec => []AssertionsHold
<1>1. IInv => AssertionsHold
  <2> SUFFICES ASSUME IInv PROVE AssertionsHold
    OBVIOUS
  <2>1. InCall /\ size \in Nat /\ start_pos \in Nat /\ new_words \in Seq(Words)
    BY DEF IInv, InCall, TypeOK
  <2>2. ASSUME pc = "extract_data_rec", Len(new_words) # full_words
        PROVE  \A n \in RecShifts : MayShift(n)
    <3>1. Len(new_words) \in Nat /\ Len(new_words) < size \div 8
      BY <2>1, <2>2 DEF IInv, full_words
    <3>2. current_index \in Nat /\ current_index = start_word + Len(new_words)
      BY <2>1, <3>1 DEF current_index, start_word
    <3> QED BY <2>1, <3>1, <3>2, RecWord DEF RecShifts
  <2>3. ASSUME pc = "remainder", remainder # 0
        PROVE  \A n \in LastShifts : MayShift(n)
    BY <2>1, <2>3, LastWord
  <2> QED BY <2>2, <2>3 DEF AssertionsHold
<1> QED BY <1>1, InvariantHolds, PTL
=============================================================================
