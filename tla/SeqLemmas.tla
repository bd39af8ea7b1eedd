----------------------------- MODULE SeqLemmas -----------------------------
(***************************************************************************)
(* Facts about the operators on sequences that the models of the kernel's  *)
(* lists are built from: RemoveAt, InsertAt, Head, Tail, Append and Range. *)
(***************************************************************************)
EXTENDS Integers, SequencesExt, SequenceTheorems, FiniteSetTheorems,
        WellFoundedInduction, TLAPS

\* The members of a sequence are its entries.
LEMMA InRange ==
    ASSUME NEW S, NEW s \in Seq(S), NEW x
    PROVE  x \in Range(s) <=> \E i \in 1 .. Len(s) : s[i] = x
<1>1. DOMAIN s = 1 .. Len(s)
  BY LenProperties
<1> QED
  BY <1>1 DEF Range

\* What a sequence contains are its entries.
LEMMA ContainsRange ==
    ASSUME NEW S, NEW s \in Seq(S), NEW x
    PROVE  Contains(s, x) <=> x \in Range(s)
BY InRange DEF Contains

\* The bounded sequences are the sequences of bounded length.
LEMMA BoundedSequences ==
    ASSUME NEW S, NEW n \in Nat, NEW s
    PROVE  s \in BoundedSeq(S, n) <=> s \in Seq(S) /\ Len(s) <= n
<1>1. ASSUME s \in Seq(S), Len(s) <= n
      PROVE  s \in BoundedSeq(S, n)
  <2>1. Len(s) \in 0 .. n /\ s \in [1 .. Len(s) -> S]
    BY <1>1, LenProperties
  <2> QED
    BY <2>1 DEF BoundedSeq, SeqOf
<1>2. ASSUME s \in BoundedSeq(S, n)
      PROVE  s \in Seq(S) /\ Len(s) <= n
  <2>1. PICK m \in 0 .. n : s \in [1 .. m -> S]
    BY <1>2 DEF BoundedSeq, SeqOf
  <2>2. m \in Nat /\ m <= n
    OBVIOUS
  <2>3. s \in Seq(S)
    BY <2>1, <2>2
  <2>4. Len(s) = m
    BY <2>1, <2>2, <2>3, LenProperties
  <2> QED
    BY <2>2, <2>3, <2>4
<1> QED
  BY <1>1, <1>2

\* Removing the i-th entry shifts the later ones down.
LEMMA RemoveAtEntries ==
    ASSUME NEW S, NEW s \in Seq(S), NEW i \in 1 .. Len(s)
    PROVE  /\ RemoveAt(s, i) \in Seq(S)
           /\ Len(RemoveAt(s, i)) = Len(s) - 1
           /\ \A j \in 1 .. Len(s) - 1 :
                 RemoveAt(s, i)[j] = IF j < i THEN s[j] ELSE s[j + 1]
<1>0. Len(s) \in Nat /\ \A k \in 1 .. Len(s) : s[k] \in S
  BY LenProperties, ElementOfSeq
<1> DEFINE l == SubSeq(s, 1, i - 1)
           r == SubSeq(s, i + 1, Len(s))
<1>1. /\ l \in Seq(S)
      /\ Len(l) = i - 1
      /\ \A j \in 1 .. i - 1 : l[j] = s[j]
  <2>1. \A k \in 1 .. i - 1 : s[k] \in S
    BY <1>0
  <2>2. /\ SubSeq(s, 1, i - 1) \in Seq(S)
        /\ Len(SubSeq(s, 1, i - 1)) =
              IF 1 <= i - 1 THEN (i - 1) - 1 + 1 ELSE 0
        /\ \A j \in 1 .. (i - 1) - 1 + 1 :
              SubSeq(s, 1, i - 1)[j] = s[1 + j - 1]
    BY <2>1, <1>0, SubSeqProperties
  <2> QED
    BY <2>2, <1>0
<1>2. /\ r \in Seq(S)
      /\ Len(r) = Len(s) - i
      /\ \A j \in 1 .. Len(s) - i : r[j] = s[i + j]
  <2>1. \A k \in i + 1 .. Len(s) : s[k] \in S
    BY <1>0
  <2>2. /\ SubSeq(s, i + 1, Len(s)) \in Seq(S)
        /\ Len(SubSeq(s, i + 1, Len(s))) =
              IF i + 1 <= Len(s) THEN Len(s) - (i + 1) + 1 ELSE 0
        /\ \A j \in 1 .. Len(s) - (i + 1) + 1 :
              SubSeq(s, i + 1, Len(s))[j] = s[(i + 1) + j - 1]
    BY <2>1, <1>0, SubSeqProperties
  <2> QED
    BY <2>2, <1>0
<1>3. RemoveAt(s, i) = l \o r
  BY DEF RemoveAt
<1>4. /\ l \o r \in Seq(S)
      /\ Len(l \o r) = Len(l) + Len(r)
      /\ \A j \in 1 .. Len(l) + Len(r) :
            (l \o r)[j] = IF j <= Len(l) THEN l[j] ELSE r[j - Len(l)]
  <2> HIDE DEF l, r
  <2> QED
    BY <1>1, <1>2, ConcatProperties
<1> HIDE DEF l, r
<1>5. Len(l) + Len(r) = Len(s) - 1
  BY <1>0, <1>1, <1>2
<1>6. ASSUME NEW j \in 1 .. Len(s) - 1
      PROVE  (l \o r)[j] = IF j < i THEN s[j] ELSE s[j + 1]
  <2>1. CASE j < i
    BY <1>0, <1>1, <1>4, <1>5, <2>1
  <2>2. CASE ~ (j < i)
    <3>1. j - (i - 1) \in 1 .. Len(s) - i
      BY <1>0, <2>2
    <3>2. (l \o r)[j] = r[j - (i - 1)]
      BY <1>0, <1>1, <1>4, <1>5, <2>2
    <3>3. r[j - (i - 1)] = s[i + (j - (i - 1))]
      BY <3>1, <1>2
    <3> QED
      BY <1>0, <2>2, <3>2, <3>3
  <2> QED
    BY <2>1, <2>2
<1> QED
  BY <1>3, <1>4, <1>5, <1>6

\* Inserting at position i shifts the later entries up.
LEMMA InsertAtEntries ==
    ASSUME NEW S, NEW s \in Seq(S), NEW i \in 1 .. Len(s) + 1, NEW x \in S
    PROVE  /\ InsertAt(s, i, x) \in Seq(S)
           /\ Len(InsertAt(s, i, x)) = Len(s) + 1
           /\ \A j \in 1 .. Len(s) + 1 :
                 InsertAt(s, i, x)[j] =
                    IF j < i THEN s[j] ELSE IF j = i THEN x ELSE s[j - 1]
<1>0. Len(s) \in Nat /\ \A k \in 1 .. Len(s) : s[k] \in S
  BY LenProperties, ElementOfSeq
<1> DEFINE l == SubSeq(s, 1, i - 1)
           m == <<x>>
           r == SubSeq(s, i, Len(s))
<1>1. /\ l \in Seq(S)
      /\ Len(l) = i - 1
      /\ \A j \in 1 .. i - 1 : l[j] = s[j]
  <2>1. \A k \in 1 .. i - 1 : s[k] \in S
    BY <1>0
  <2>2. /\ SubSeq(s, 1, i - 1) \in Seq(S)
        /\ Len(SubSeq(s, 1, i - 1)) =
              IF 1 <= i - 1 THEN (i - 1) - 1 + 1 ELSE 0
        /\ \A j \in 1 .. (i - 1) - 1 + 1 :
              SubSeq(s, 1, i - 1)[j] = s[1 + j - 1]
    BY <2>1, <1>0, SubSeqProperties
  <2> QED
    BY <2>2, <1>0
<1>2. /\ r \in Seq(S)
      /\ Len(r) = Len(s) - i + 1
      /\ \A j \in 1 .. Len(s) - i + 1 : r[j] = s[i + j - 1]
  <2>1. \A k \in i .. Len(s) : s[k] \in S
    BY <1>0
  <2>2. /\ SubSeq(s, i, Len(s)) \in Seq(S)
        /\ Len(SubSeq(s, i, Len(s))) =
              IF i <= Len(s) THEN Len(s) - i + 1 ELSE 0
        /\ \A j \in 1 .. Len(s) - i + 1 :
              SubSeq(s, i, Len(s))[j] = s[i + j - 1]
    BY <2>1, <1>0, SubSeqProperties
  <2> QED
    BY <2>2, <1>0
<1>3. m \in Seq(S) /\ Len(m) = 1 /\ m[1] = x
  OBVIOUS
<1>4. InsertAt(s, i, x) = (l \o m) \o r
  BY DEF InsertAt
<1> HIDE DEF l, m, r
<1>5. /\ l \o m \in Seq(S)
      /\ Len(l \o m) = i
      /\ \A j \in 1 .. i : (l \o m)[j] = IF j < i THEN s[j] ELSE x
  <2>1. /\ l \o m \in Seq(S)
        /\ Len(l \o m) = Len(l) + Len(m)
        /\ \A j \in 1 .. Len(l) + Len(m) :
              (l \o m)[j] = IF j <= Len(l) THEN l[j] ELSE m[j - Len(l)]
    BY <1>1, <1>3, ConcatProperties
  <2> QED
    BY <2>1, <1>0, <1>1, <1>3
<1> DEFINE lm == l \o m
<1> HIDE DEF lm
<1>6. /\ lm \o r \in Seq(S)
      /\ Len(lm \o r) = Len(lm) + Len(r)
      /\ \A j \in 1 .. Len(lm) + Len(r) :
            (lm \o r)[j] = IF j <= Len(lm) THEN lm[j] ELSE r[j - Len(lm)]
  <2>1. lm \in Seq(S) /\ r \in Seq(S)
    BY <1>2, <1>5 DEF lm
  <2> QED
    BY <2>1, ConcatProperties
<1>7. Len(lm) = i /\ Len(lm) + Len(r) = Len(s) + 1
  BY <1>0, <1>2, <1>5 DEF lm
<1>8. ASSUME NEW j \in 1 .. Len(s) + 1
      PROVE  (lm \o r)[j] =
                IF j < i THEN s[j] ELSE IF j = i THEN x ELSE s[j - 1]
  <2>1. CASE j <= i
    BY <1>0, <1>5, <1>6, <1>7, <2>1 DEF lm
  <2>2. CASE j > i
    <3>1. j - i \in 1 .. Len(s) - i + 1
      BY <1>0, <2>2
    <3>2. (lm \o r)[j] = r[j - i]
      BY <1>0, <1>6, <1>7, <2>2
    <3>3. r[j - i] = s[i + (j - i) - 1]
      BY <3>1, <1>2
    <3>4. i + (j - i) - 1 = j - 1 /\ ~ (j < i) /\ j # i
      BY <1>0, <2>2
    <3> QED
      BY <3>2, <3>3, <3>4
  <2>3. j <= i \/ j > i
    BY <1>0
  <2> QED
    BY <2>1, <2>2, <2>3
<1> QED
  BY <1>4, <1>6, <1>7, <1>8 DEF lm

\* A sequence is its first entry and then the rest.
LEMMA HeadThenTail ==
    ASSUME NEW S, NEW s \in Seq(S), s # <<>>
    PROVE  s = <<Head(s)>> \o Tail(s)
<1> DEFINE c == <<Head(s)>>
           r == Tail(s)
<1>1. /\ Head(s) \in S /\ r \in Seq(S)
      /\ Len(r) = Len(s) - 1
      /\ \A i \in 1 .. Len(r) : r[i] = s[i + 1]
  BY HeadTailProperties
<1>2. c \in Seq(S) /\ Len(c) = 1 /\ c[1] = s[1]
  BY <1>1
<1>3. Len(s) \in Nat /\ Len(s) >= 1
  BY LenProperties, EmptySeq
<1> HIDE DEF c, r
<1>4. /\ c \o r \in Seq(S)
      /\ Len(c \o r) = Len(c) + Len(r)
      /\ \A i \in 1 .. Len(c) + Len(r) :
            (c \o r)[i] = IF i <= Len(c) THEN c[i] ELSE r[i - Len(c)]
  <2>1. c \in Seq(S) /\ r \in Seq(S)
    BY <1>1, <1>2
  <2> QED
    BY <2>1, ConcatProperties
<1>5. Len(c \o r) = Len(s)
  BY <1>1, <1>2, <1>3, <1>4
<1>6. ASSUME NEW i \in 1 .. Len(s)
      PROVE  s[i] = (c \o r)[i]
  <2>1. CASE i = 1
    BY <1>2, <1>3, <1>4, <1>1, <2>1
  <2>2. CASE i # 1
    <3>1. i - 1 \in 1 .. Len(r) /\ ~ (i <= Len(c)) /\ i - Len(c) = i - 1
      BY <1>1, <1>2, <1>3, <2>2
    <3>2. (c \o r)[i] = r[i - 1]
      BY <1>1, <1>2, <1>3, <1>4, <3>1
    <3>3. r[i - 1] = s[(i - 1) + 1]
      BY <1>1, <3>1
    <3>4. (i - 1) + 1 = i
      OBVIOUS
    <3> QED
      BY <3>2, <3>3, <3>4
  <2> QED
    BY <2>1, <2>2
<1>7. s = c \o r
  BY <1>4, <1>5, <1>6, SeqEqual
<1> QED
  BY <1>7 DEF c, r

\* A sequence in which no entry occurs twice.
Distinct(s) == \A i, j \in DOMAIN s : s[i] = s[j] => i = j

\* Appending a newcomer.
LEMMA AppendRange ==
    ASSUME NEW S, NEW s \in Seq(S), NEW x \in S
    PROVE  /\ Range(Append(s, x)) = Range(s) \cup {x}
           /\ Distinct(s) /\ x \notin Range(s) => Distinct(Append(s, x))
           /\ s # <<>> => Head(Append(s, x)) = Head(s)
<1>1. /\ Append(s, x) \in Seq(S)
      /\ Len(Append(s, x)) = Len(s) + 1
      /\ \A i \in 1 .. Len(s) : Append(s, x)[i] = s[i]
      /\ Append(s, x)[Len(s) + 1] = x
  BY AppendProperties
<1>2. Len(s) \in Nat /\ DOMAIN s = 1 .. Len(s)
  BY LenProperties
<1>3. DOMAIN Append(s, x) = 1 .. Len(s) + 1
  BY <1>1, LenProperties
<1>4. Range(Append(s, x)) = Range(s) \cup {x}
  BY <1>1, <1>2, <1>3 DEF Range
<1>5. ASSUME Distinct(s), x \notin Range(s)
      PROVE  Distinct(Append(s, x))
  BY <1>1, <1>2, <1>3, <1>5 DEF Distinct, Range
<1>6. s # <<>> => Head(Append(s, x)) = Head(s)
  BY HeadTailAppend
<1> QED
  BY <1>4, <1>5, <1>6

\* What holds of all entries and of a newcomer holds of all entries then.
LEMMA AppendEntries ==
    ASSUME NEW S, NEW s \in Seq(S), NEW x \in S, NEW A, x \in A,
           \A i \in 1 .. Len(s) : s[i] \in A
    PROVE  \A i \in 1 .. Len(Append(s, x)) : Append(s, x)[i] \in A
<1>1. /\ Len(Append(s, x)) = Len(s) + 1
      /\ \A i \in 1 .. Len(s) : Append(s, x)[i] = s[i]
      /\ Append(s, x)[Len(s) + 1] = x
  BY AppendProperties
<1>2. Len(s) \in Nat
  BY LenProperties
<1>3. ASSUME NEW i \in 1 .. Len(s) + 1
      PROVE  Append(s, x)[i] \in A
  <2>1. i \in 1 .. Len(s) \/ i = Len(s) + 1
    BY <1>2
  <2> QED
    BY <1>1, <2>1
<1> QED
  BY <1>1, <1>3

\* The entries behind the head are entries, and not the head.
LEMMA TailEntries ==
    ASSUME NEW S, NEW s \in Seq(S), s # <<>>, Distinct(s)
    PROVE  \A i \in 1 .. Len(Tail(s)) :
              /\ i + 1 \in 1 .. Len(s) /\ Tail(s)[i] = s[i + 1]
              /\ Tail(s)[i] # Head(s)
<1>1. /\ Len(Tail(s)) = Len(s) - 1
      /\ \A i \in 1 .. Len(Tail(s)) : Tail(s)[i] = s[i + 1]
  BY HeadTailProperties
<1>2. Len(s) \in Nat \ {0} /\ DOMAIN s = 1 .. Len(s) /\ Head(s) = s[1]
  BY LenProperties, EmptySeq
<1>3. ASSUME NEW i \in 1 .. Len(Tail(s))
      PROVE  i + 1 \in 1 .. Len(s) /\ 1 \in 1 .. Len(s) /\ i + 1 # 1
  BY <1>1, <1>2
<1> QED
  BY <1>1, <1>2, <1>3 DEF Distinct

\* Putting a newcomer first.
LEMMA ConsRange ==
    ASSUME NEW S, NEW s \in Seq(S), NEW x \in S
    PROVE  /\ <<x>> \o s \in Seq(S)
           /\ <<x>> \o s # <<>>
           /\ Range(<<x>> \o s) = Range(s) \cup {x}
           /\ Distinct(s) /\ x \notin Range(s) => Distinct(<<x>> \o s)
           /\ Head(<<x>> \o s) = x
<1> DEFINE c == <<x>>
<1>1. c \in Seq(S) /\ Len(c) = 1 /\ c[1] = x
  OBVIOUS
<1>2. Len(s) \in Nat /\ DOMAIN s = 1 .. Len(s)
  BY LenProperties
<1> HIDE DEF c
<1>3. /\ c \o s \in Seq(S)
      /\ Len(c \o s) = 1 + Len(s)
      /\ \A i \in 1 .. 1 + Len(s) :
            (c \o s)[i] = IF i <= 1 THEN c[i] ELSE s[i - 1]
  <2>1. /\ c \o s \in Seq(S)
        /\ Len(c \o s) = Len(c) + Len(s)
        /\ \A i \in 1 .. Len(c) + Len(s) :
              (c \o s)[i] = IF i <= Len(c) THEN c[i] ELSE s[i - Len(c)]
    BY <1>1, ConcatProperties
  <2> QED
    BY <2>1, <1>1
<1> DEFINE cs == c \o s
<1>4. /\ DOMAIN cs = 1 .. 1 + Len(s)
      /\ cs[1] = x
      /\ \A i \in 1 .. Len(s) : cs[i + 1] = s[i]
      /\ \A i \in 2 .. 1 + Len(s) : cs[i] = s[i - 1]
  <2>1. DOMAIN cs = 1 .. 1 + Len(s)
    BY <1>3, LenProperties
  <2> QED
    BY <2>1, <1>1, <1>2, <1>3
<1> HIDE DEF cs
<1>5. Range(cs) = Range(s) \cup {x}
  <2>1. ASSUME NEW y \in Range(s) \cup {x}
        PROVE  y \in Range(cs)
    <3>1. CASE y = x
      BY <1>2, <1>4, <3>1 DEF Range
    <3>2. CASE y \in Range(s)
      <4>1. PICK i \in 1 .. Len(s) : y = s[i]
        BY <1>2, <3>2 DEF Range
      <4>2. i + 1 \in DOMAIN cs /\ cs[i + 1] = y
        BY <1>2, <1>4, <4>1
      <4> QED
        BY <4>2 DEF Range
    <3> QED
      BY <2>1, <3>1, <3>2
  <2>2. ASSUME NEW y \in Range(cs)
        PROVE  y \in Range(s) \cup {x}
    <3>1. PICK i \in 1 .. 1 + Len(s) : y = cs[i]
      BY <1>4, <2>2 DEF Range
    <3>2. CASE i = 1
      BY <3>1, <3>2, <1>4
    <3>3. CASE i # 1
      BY <3>1, <3>3, <1>2, <1>4 DEF Range
    <3> QED
      BY <3>2, <3>3
  <2> QED
    BY <2>1, <2>2
<1>6. ASSUME Distinct(s), x \notin Range(s)
      PROVE  Distinct(cs)
  <2> SUFFICES ASSUME NEW i \in 1 .. 1 + Len(s), NEW j \in 1 .. 1 + Len(s),
                      cs[i] = cs[j]
               PROVE  i = j
    BY <1>4 DEF Distinct
  <2>1. CASE i = 1 /\ j # 1
    BY <1>2, <1>4, <1>6, <2>1 DEF Range
  <2>2. CASE i # 1 /\ j = 1
    BY <1>2, <1>4, <1>6, <2>2 DEF Range
  <2>3. CASE i # 1 /\ j # 1
    <3>1. i - 1 \in DOMAIN s /\ j - 1 \in DOMAIN s
      BY <1>2, <2>3
    <3>2. s[i - 1] = s[j - 1]
      BY <1>2, <1>4, <2>3
    <3>3. i - 1 = j - 1
      BY <3>1, <3>2, <1>6 DEF Distinct
    <3> QED
      BY <3>3
  <2> QED
    BY <2>1, <2>2, <2>3
<1>7. Head(cs) = x /\ cs # <<>>
  BY <1>2, <1>3, <1>4 DEF cs
<1> QED
  BY <1>3, <1>5, <1>6, <1>7 DEF c, cs

\* Dropping the head.
LEMMA TailRange ==
    ASSUME NEW S, NEW s \in Seq(S), s # <<>>, Distinct(s)
    PROVE  /\ Tail(s) \in Seq(S)
           /\ Head(s) \in S
           /\ Head(s) \in Range(s)
           /\ Range(Tail(s)) = Range(s) \ {Head(s)}
           /\ Distinct(Tail(s))
<1>1. /\ Head(s) \in S
      /\ Tail(s) \in Seq(S)
      /\ Len(Tail(s)) = Len(s) - 1
      /\ \A i \in 1 .. Len(Tail(s)) : Tail(s)[i] = s[i + 1]
  BY HeadTailProperties
<1>2. Len(s) \in Nat \ {0} /\ DOMAIN s = 1 .. Len(s) /\ Head(s) = s[1]
  BY LenProperties, EmptySeq
<1>3. DOMAIN Tail(s) = 1 .. Len(s) - 1
  BY <1>1, LenProperties
<1>4. Head(s) \in Range(s)
  BY <1>2 DEF Range
<1>5. ASSUME NEW y \in Range(Tail(s))
      PROVE  y \in Range(s) \ {Head(s)}
  <2>1. PICK i \in 1 .. Len(s) - 1 : y = s[i + 1]
    BY <1>1, <1>3, <1>5 DEF Range
  <2>2. i + 1 \in DOMAIN s /\ 1 \in DOMAIN s /\ i + 1 # 1
    BY <1>2
  <2> QED
    BY <2>1, <2>2, <1>2 DEF Range, Distinct
<1>6. ASSUME NEW y \in Range(s) \ {Head(s)}
      PROVE  y \in Range(Tail(s))
  <2>1. PICK i \in 1 .. Len(s) : y = s[i]
    BY <1>2 DEF Range
  <2>2. i # 1
    BY <2>1, <1>2
  <2>3. i - 1 \in 1 .. Len(s) - 1
    BY <2>2, <1>2
  <2>4. Tail(s)[i - 1] = s[i]
    <3>1. Tail(s)[i - 1] = s[(i - 1) + 1]
      BY <2>3, <1>1
    <3>2. (i - 1) + 1 = i
      BY <1>2
    <3> QED
      BY <3>1, <3>2
  <2> QED
    BY <2>1, <2>3, <2>4, <1>3 DEF Range
<1>7. Distinct(Tail(s))
  <2> SUFFICES ASSUME NEW i \in 1 .. Len(s) - 1, NEW j \in 1 .. Len(s) - 1,
                      Tail(s)[i] = Tail(s)[j]
               PROVE  i = j
    BY <1>3 DEF Distinct
  <2>1. s[i + 1] = s[j + 1]
    BY <1>1
  <2>2. i + 1 \in DOMAIN s /\ j + 1 \in DOMAIN s
    BY <1>2
  <2>3. i + 1 = j + 1
    BY <2>1, <2>2 DEF Distinct
  <2> QED
    BY <2>3
<1> QED
  BY <1>1, <1>4, <1>5, <1>6, <1>7

\* Removing an entry by its position.
LEMMA RemoveAtRange ==
    ASSUME NEW S, NEW s \in Seq(S), Distinct(s), NEW i \in 1 .. Len(s)
    PROVE  /\ RemoveAt(s, i) \in Seq(S)
           /\ Range(RemoveAt(s, i)) = Range(s) \ {s[i]}
           /\ Distinct(RemoveAt(s, i))
           /\ i # 1 => RemoveAt(s, i) # <<>> /\ Head(RemoveAt(s, i)) = Head(s)
<1> DEFINE r == RemoveAt(s, i)
<1>1. /\ r \in Seq(S)
      /\ Len(r) = Len(s) - 1
      /\ \A j \in 1 .. Len(s) - 1 : r[j] = IF j < i THEN s[j] ELSE s[j + 1]
  BY RemoveAtEntries
<1>2. Len(s) \in Nat /\ DOMAIN s = 1 .. Len(s)
  BY LenProperties
<1>3. DOMAIN r = 1 .. Len(s) - 1
  BY <1>1, LenProperties
<1> HIDE DEF r
<1> DEFINE Old(j) == IF j < i THEN j ELSE j + 1
<1>4. \A j \in 1 .. Len(s) - 1 :
         Old(j) \in DOMAIN s /\ Old(j) # i /\ r[j] = s[Old(j)]
  BY <1>1, <1>2
<1>5. ASSUME NEW y \in Range(r)
      PROVE  y \in Range(s) \ {s[i]}
  <2>1. PICK j \in 1 .. Len(s) - 1 : y = r[j]
    BY <1>3, <1>5 DEF Range
  <2>2. Old(j) \in DOMAIN s /\ Old(j) # i /\ y = s[Old(j)]
    BY <2>1, <1>4
  <2> HIDE DEF Old
  <2> QED
    BY <2>2, <1>2 DEF Range, Distinct
<1>6. ASSUME NEW y \in Range(s) \ {s[i]}
      PROVE  y \in Range(r)
  <2>1. PICK k \in 1 .. Len(s) : y = s[k]
    BY <1>2, <1>6 DEF Range
  <2>2. k # i
    BY <2>1, <1>6
  <2>3. CASE k < i
    <3>1. k \in 1 .. Len(s) - 1 /\ r[k] = s[k]
      BY <1>1, <1>2, <2>3
    <3> QED
      BY <2>1, <3>1, <1>3 DEF Range
  <2>4. CASE k > i
    <3>1. k - 1 \in 1 .. Len(s) - 1 /\ ~ (k - 1 < i)
      BY <1>2, <2>4
    <3>2. r[k - 1] = s[(k - 1) + 1]
      BY <1>1, <3>1
    <3>3. (k - 1) + 1 = k
      BY <1>2
    <3> QED
      BY <2>1, <3>1, <3>2, <3>3, <1>3 DEF Range
  <2> QED
    BY <1>2, <2>2, <2>3, <2>4
<1>7. Distinct(r)
  <2> SUFFICES ASSUME NEW j \in 1 .. Len(s) - 1, NEW k \in 1 .. Len(s) - 1,
                      r[j] = r[k]
               PROVE  j = k
    BY <1>3 DEF Distinct
  <2>1. Old(j) = Old(k)
    <3>1. /\ Old(j) \in DOMAIN s /\ r[j] = s[Old(j)]
          /\ Old(k) \in DOMAIN s /\ r[k] = s[Old(k)]
      BY <1>4
    <3> HIDE DEF Old
    <3> QED
      BY <3>1 DEF Distinct
  <2> QED
    BY <2>1, <1>2
<1>8. ASSUME i # 1
      PROVE  r # <<>> /\ Head(r) = Head(s)
  <2>1. 1 \in 1 .. Len(s) - 1 /\ 1 < i
    BY <1>2, <1>8
  <2>2. r[1] = s[1] /\ Len(r) > 0
    BY <1>1, <1>2, <2>1
  <2> QED
    BY <1>1, <1>2, <2>1, <2>2
<1> QED
  BY <1>1, <1>5, <1>6, <1>7, <1>8 DEF r

\* Inserting a newcomer at any position.
LEMMA InsertAtRange ==
    ASSUME NEW S, NEW s \in Seq(S), Distinct(s), NEW i \in 1 .. Len(s) + 1,
           NEW x \in S, x \notin Range(s)
    PROVE  /\ InsertAt(s, i, x) \in Seq(S)
           /\ Range(InsertAt(s, i, x)) = Range(s) \cup {x}
           /\ Distinct(InsertAt(s, i, x))
<1> DEFINE r == InsertAt(s, i, x)
<1>1. /\ r \in Seq(S)
      /\ Len(r) = Len(s) + 1
      /\ \A j \in 1 .. Len(s) + 1 :
            r[j] = IF j < i THEN s[j] ELSE IF j = i THEN x ELSE s[j - 1]
  BY InsertAtEntries
<1>2. Len(s) \in Nat /\ DOMAIN s = 1 .. Len(s)
  BY LenProperties
<1>3. DOMAIN r = 1 .. Len(s) + 1
  BY <1>1, LenProperties
<1> HIDE DEF r
<1> DEFINE Old(j) == IF j < i THEN j ELSE j - 1
<1>4. /\ r[i] = x
      /\ \A j \in 1 .. Len(s) + 1 :
            j # i => Old(j) \in DOMAIN s /\ r[j] = s[Old(j)]
  BY <1>1, <1>2
<1>5. ASSUME NEW y \in Range(r)
      PROVE  y \in Range(s) \cup {x}
  <2>1. PICK j \in 1 .. Len(s) + 1 : y = r[j]
    BY <1>3, <1>5 DEF Range
  <2> HIDE DEF Old
  <2> QED
    BY <2>1, <1>4 DEF Range
<1>6. ASSUME NEW y \in Range(s) \cup {x}
      PROVE  y \in Range(r)
  <2>1. CASE y = x
    BY <2>1, <1>2, <1>3, <1>4 DEF Range
  <2>2. CASE y \in Range(s)
    <3>1. PICK k \in 1 .. Len(s) : y = s[k]
      BY <1>2, <2>2 DEF Range
    <3>2. CASE k < i
      <4>1. k \in DOMAIN r /\ r[k] = s[k]
        BY <1>1, <1>2, <1>3, <3>2
      <4> QED
        BY <3>1, <4>1 DEF Range
    <3>3. CASE k >= i
      <4>1. k + 1 \in DOMAIN r /\ r[k + 1] = s[(k + 1) - 1]
        BY <1>1, <1>2, <1>3, <3>3
      <4>2. (k + 1) - 1 = k
        BY <1>2
      <4> QED
        BY <3>1, <4>1, <4>2 DEF Range
    <3>4. k < i \/ k >= i
      BY <1>2
    <3> QED
      BY <3>2, <3>3, <3>4
  <2> QED
    BY <1>6, <2>1, <2>2
<1>7. Distinct(r)
  <2> SUFFICES ASSUME NEW j \in 1 .. Len(s) + 1, NEW k \in 1 .. Len(s) + 1,
                      r[j] = r[k]
               PROVE  j = k
    BY <1>3 DEF Distinct
  <2>1. ASSUME NEW n \in 1 .. Len(s) + 1, r[n] = x
        PROVE  n = i
    <3> HIDE DEF Old
    <3> QED
      BY <2>1, <1>4 DEF Range
  <2>2. CASE j = i \/ k = i
    BY <2>1, <2>2, <1>4
  <2>3. CASE j # i /\ k # i
    <3>1. Old(j) = Old(k)
      <4> HIDE DEF Old
      <4> QED
        BY <2>3, <1>4 DEF Distinct
    <3> QED
      BY <3>1, <2>3, <1>2
  <2> QED
    BY <2>2, <2>3
<1> QED
  BY <1>1, <1>5, <1>6, <1>7 DEF r

\* A non-empty set of naturals has a least element, and Min is it.
LEMMA MinOfNaturals ==
    ASSUME NEW S, S \subseteq Nat, S # {}
    PROVE  Min(S) \in S /\ \A n \in S : Min(S) <= n
<1> DEFINE T == {0 .. n - 1 : n \in S}
<1>1. T \subseteq FiniteSubsetsOf(Nat) /\ T # {}
  <2>1. ASSUME NEW n \in S
        PROVE  0 .. n - 1 \in FiniteSubsetsOf(Nat)
    <3>1. IsFiniteSet(0 .. n - 1)
      BY FS_Interval
    <3> QED
      BY <3>1 DEF FiniteSubsetsOf
  <2> QED
    BY <2>1
<1>2. IsWellFoundedOn(StrictSubsetOrdering(Nat), FiniteSubsetsOf(Nat))
  BY FS_StrictSubsetOrderingWellFounded
<1>3. PICK x \in T : \A y \in T : ~ (<<y, x>> \in StrictSubsetOrdering(Nat))
  <2> HIDE DEF T
  <2> QED
    BY <1>1, <1>2, WFMin
<1>4. PICK n \in S : x = 0 .. n - 1
  BY <1>3
<1>5. ASSUME NEW k \in S
      PROVE  n <= k
  <2>1. ~ (<<0 .. k - 1, 0 .. n - 1>> \in StrictSubsetOrdering(Nat))
    BY <1>3, <1>4
  <2>2. CASE k < n
    <3>1. 0 .. k - 1 \subseteq 0 .. n - 1 /\ 0 .. k - 1 # 0 .. n - 1
      <4>1. n - 1 \in 0 .. n - 1 /\ n - 1 \notin 0 .. k - 1
        BY <2>2
      <4> QED
        BY <2>2, <4>1
    <3>2. 0 .. k - 1 \in SUBSET Nat /\ 0 .. n - 1 \in SUBSET Nat
      OBVIOUS
    <3> QED
      BY <2>1, <3>1, <3>2 DEF StrictSubsetOrdering
  <2> QED
    BY <2>2
<1> QED
  BY <1>5 DEF Min
=============================================================================
