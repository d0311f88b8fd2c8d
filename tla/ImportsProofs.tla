---------------------------- MODULE ImportsProofs ----------------------------
(***************************************************************************)
(* Proofs about two parts of MCImports: the compressed log                 *)
(* (CompressedLog), for any number of frames and of lines in each, and the *)
(* arithmetic of dates (Calendar), for every date of every year.           *)
(***************************************************************************)
EXTENDS MCImports, FiniteSetTheorems, SequenceTheorems, WellFoundedInduction, TLAPS

-----------------------------------------------------------------------------
(* Numbers.                                                                *)

\* A set of numbers that is not empty has a least one.
LEMMA Least == ASSUME NEW T \in SUBSET Nat, T # {} PROVE \E n \in T : \A m \in T : n <= m
<1> DEFINE Below == {0 .. n : n \in T}
<1>1. \A n \in T : IsFiniteSet(0 .. n)
  BY FS_Interval
<1>2. Below \subseteq FiniteSubsetsOf(Nat) /\ Below # {}
  <2>1. \A n \in T : 0 .. n \in SUBSET Nat
    OBVIOUS
  <2> QED
    BY <1>1, <2>1 DEF FiniteSubsetsOf
<1>3. PICK X \in Below : \A Y \in Below : <<Y, X>> \notin StrictSubsetOrdering(Nat)
  BY <1>2, FS_StrictSubsetOrderingWellFounded, WFMin
<1>4. PICK n \in T : X = 0 .. n
  BY <1>3
<1>5. ASSUME NEW m \in T, m < n PROVE FALSE
  <2>1. /\ 0 .. m \in Below /\ 0 .. m \subseteq 0 .. n
        /\ n \in 0 .. n /\ n \notin 0 .. m /\ 0 .. n \subseteq Nat
    BY <1>5
  <2>2. <<0 .. m, 0 .. n>> \in StrictSubsetOrdering(Nat)
    BY <2>1 DEF StrictSubsetOrdering
  <2> QED
    BY <1>3, <1>4, <2>1, <2>2
<1> QED
  BY <1>5

\* So what holds of 0, and of n + 1 when it does of n, holds of every number.
LEMMA Induction == ASSUME NEW T \in SUBSET Nat, 0 \in T, \A n \in T : n + 1 \in T PROVE T = Nat
<1>1. SUFFICES ASSUME Nat \ T # {} PROVE FALSE
  OBVIOUS
<1>2. PICK n \in Nat \ T : \A m \in Nat \ T : n <= m
  BY <1>1, Least
<1>3. n - 1 \in Nat \ T
  BY <1>2
<1> QED
  BY <1>2, <1>3

\* The character at k of a log's text, and the first m of them.
Char(k) == IF k % 3 = 0 THEN Packed!NL ELSE (k + 2) \div 3
Chars(m) == [k \in 1 .. m |-> Char(k)]

LEMMA Thirds == ASSUME NEW k \in Nat PROVE \E j \in Nat : k \in {3 * j, 3 * j + 1, 3 * j + 2}
<1> DEFINE j == k \div 3
<1>1. j \in Nat /\ k = 3 * j + (k % 3) /\ k % 3 \in 0 .. 2
  OBVIOUS
<1> HIDE DEF j
<1> QED
  BY <1>1

LEMMA CharIs == ASSUME NEW j \in Nat
  PROVE Char(3 * j) = 0 /\ Char(3 * j + 1) = j + 1 /\ Char(3 * j + 2) = j + 1
<1>1. (3 * j) % 3 = 0 /\ (3 * j + 1) % 3 = 1 /\ (3 * j + 2) % 3 = 2
  OBVIOUS
<1>2. (3 * j + 1 + 2) \div 3 = j + 1 /\ (3 * j + 2 + 2) \div 3 = j + 1
  OBVIOUS
<1> QED
  BY <1>1, <1>2 DEF Char, Packed!NL

LEMMA TextIs == ASSUME NEW b \in Nat, NEW n \in Nat
  PROVE Packed!Text(b, n) = [k \in 1 .. (3 * n) |-> Char(3 * b + k)]
<1>1. ASSUME NEW k \in 1 .. (3 * n)
      PROVE (IF k % 3 = 0 THEN Packed!NL ELSE b + ((k + 2) \div 3)) = Char(3 * b + k)
  <2>1. (3 * b + k) % 3 = k % 3 /\ (3 * b + k + 2) \div 3 = b + ((k + 2) \div 3)
    OBVIOUS
  <2> QED
    BY <2>1 DEF Char
<1> QED
  BY <1>1 DEF Packed!Text

LEMMA CharsAre == ASSUME NEW m \in Nat
  PROVE /\ Chars(m) \in Seq(Nat) /\ Len(Chars(m)) = m /\ DOMAIN Chars(m) = 1 .. m
        /\ \A k \in 1 .. m : Chars(m)[k] = Char(k)
        /\ \A l \in 0 .. m : SubSeq(Chars(m), 1, l) = Chars(l)
<1>1. \A k \in Nat : Char(k) \in Nat
  BY DEF Char, Packed!NL
<1>2. Chars(m) \in Seq(Nat) /\ Len(Chars(m)) = m
  BY <1>1 DEF Chars
<1>3. \A k \in 1 .. m : Chars(m)[k] = Char(k)
  BY DEF Chars
<1>4. ASSUME NEW l \in 0 .. m PROVE SubSeq(Chars(m), 1, l) = Chars(l)
  <2>1. l - 1 + 1 = l /\ \A i \in 1 .. l : i \in 1 .. m /\ 1 + i - 1 = i
    OBVIOUS
  <2>2. SubSeq(Chars(m), 1, l) = [i \in 1 .. l |-> Chars(m)[i]]
    BY <1>2
  <2>3. [i \in 1 .. l |-> Chars(m)[i]] = [i \in 1 .. l |-> Char(i)]
    BY <1>3, <2>1
  <2> QED
    BY <2>2, <2>3 DEF Chars
<1> QED
  BY <1>2, <1>3, <1>4 DEF Chars

\* Text that follows on, or the start of it.
LEMMA Joins == ASSUME NEW b \in Nat, NEW n \in Nat, NEW p \in 0 .. (3 * n)
  PROVE /\ Packed!Text(b, n) \in Seq(Nat) /\ Len(Packed!Text(b, n)) = 3 * n
        /\ SubSeq(Packed!Text(b, n), 1, p) \in Seq(Nat) /\ Len(SubSeq(Packed!Text(b, n), 1, p)) = p
        /\ Chars(3 * b) \o SubSeq(Packed!Text(b, n), 1, p) = Chars(3 * b + p)
        /\ Chars(3 * b) \o Packed!Text(b, n) = Chars(3 * (b + n))
        /\ SubSeq(Packed!Text(b, n), 1, p) \o SubSeq(Packed!Text(b, n), p + 1, 3 * n) = Packed!Text(b, n)
<1> DEFINE t == Packed!Text(b, n)
<1>0. 3 * b \in Nat /\ 3 * n \in Nat /\ 3 * (b + n) = 3 * b + 3 * n /\ p \in Nat /\ 3 * b + p \in Nat
  OBVIOUS
<1>1. \A k \in Nat : Char(k) \in Nat
  BY DEF Char, Packed!NL
<1>2. \A k \in 1 .. (3 * n) : t[k] = Char(3 * b + k)
  BY TextIs
<1>3. t \in Seq(Nat) /\ Len(t) = 3 * n
  <2>1. \A k \in 1 .. (3 * n) : Char(3 * b + k) \in Nat
    BY <1>0, <1>1
  <2>2. t = [k \in 1 .. (3 * n) |-> Char(3 * b + k)]
    BY TextIs
  <2> QED
    BY <1>0, <2>1, <2>2
<1> HIDE DEF t
<1>4. \A i \in 1 .. (3 * b) : Chars(3 * b)[i] = Char(i)
  BY DEF Chars
<1>5. Chars(3 * b) \in Seq(Nat) /\ Len(Chars(3 * b)) = 3 * b
  BY <1>0, CharsAre
<1>6. ASSUME NEW l \in 0 .. (3 * n)
      PROVE  /\ SubSeq(t, 1, l) \in Seq(Nat) /\ Len(SubSeq(t, 1, l)) = l
             /\ Chars(3 * b) \o SubSeq(t, 1, l) = Chars(3 * b + l)
  <2>1. SubSeq(t, 1, l) \in Seq(Nat) /\ Len(SubSeq(t, 1, l)) = l
    BY <1>0, <1>3
  <2>2. \A i \in 1 .. l : SubSeq(t, 1, l)[i] = Char(3 * b + i)
    BY <1>0, <1>2, <1>3
  <2> DEFINE s == SubSeq(t, 1, l)
             r == Chars(3 * b)
  <2> HIDE DEF s, r
  <2>3. r \o s \in Seq(Nat) /\ Len(r \o s) = 3 * b + l
    BY SMTT(60), <1>5, <2>1 DEF r, s
  <2>4. ASSUME NEW i \in 1 .. (3 * b + l) PROVE (r \o s)[i] = Char(i)
    <3>1. CASE i <= 3 * b
      BY <1>0, <1>4, <1>5, <2>1, <3>1 DEF r, s
    <3>2. CASE i > 3 * b
      <4>1. i - 3 * b \in 1 .. l /\ 3 * b + (i - 3 * b) = i
        BY <1>0, <3>2
      <4>2. (r \o s)[i] = s[i - 3 * b]
        BY <1>0, <1>5, <2>1, <3>2 DEF r, s
      <4> QED
        BY <2>2, <4>1, <4>2 DEF s
    <3>3. i <= 3 * b \/ i > 3 * b
      BY <1>0
    <3> QED
      BY <3>1, <3>2, <3>3
  <2>5. r \o s = [i \in 1 .. (3 * b + l) |-> Char(i)]
    <3> DEFINE w == r \o s
    <3>1. w \in Seq(Nat) /\ Len(w) = 3 * b + l /\ \A i \in 1 .. (3 * b + l) : w[i] = Char(i)
      BY <2>3, <2>4
    <3> HIDE DEF w
    <3>2. w = [i \in 1 .. (3 * b + l) |-> Char(i)]
      BY <3>1
    <3> QED
      BY <3>2 DEF w
  <2> QED
    BY <2>1, <2>5 DEF Chars, r, s
<1>7. SubSeq(t, 1, 3 * n) = t
  BY <1>0, <1>3
<1>8. SubSeq(t, 1, p) \o SubSeq(t, p + 1, 3 * n) = t
  BY <1>0, <1>3
<1>9. Chars(3 * b) \o t = Chars(3 * (b + n))
  <2>1. 3 * n \in 0 .. (3 * n)
    BY <1>0
  <2>2. Chars(3 * b) \o SubSeq(t, 1, 3 * n) = Chars(3 * b + 3 * n)
    BY <1>6, <2>1
  <2> QED
    BY <1>0, <1>7, <2>2
<1> QED
  BY <1>3, <1>6, <1>8, <1>9 DEF t

-----------------------------------------------------------------------------
(* What the operators on sequences give.                                   *)

LEMMA FlattenNone == ASSUME NEW s, Len(s) = 0 PROVE Packed!FlattenSeq(s) = s
  BY DEF Packed!FlattenSeq

LEMMA FlattenOne == ASSUME NEW s, Len(s) = 1 PROVE Packed!FlattenSeq(s) = s[1]
<1> DEFINE D == 1 .. Len(s)
           F(g) == [i \in D |-> IF i = 1 THEN s[i] ELSE g[i - 1] \o s[i]]
           flat == CHOOSE g : g = F(g)
<1>1. [i \in D |-> s[1]] = F([i \in D |-> s[1]])
  <2>1. D = {1}
    OBVIOUS
  <2> HIDE DEF D
  <2> QED
    BY <2>1
<1>2. flat = F(flat)
  <2> HIDE DEF F
  <2> QED
    BY <1>1
<1>3. flat[1] = s[1]
  <2> HIDE DEF flat
  <2>1. 1 \in D
    OBVIOUS
  <2> HIDE DEF D
  <2> QED
    BY <1>2, <2>1
<1>4. Packed!FlattenSeq(s) = flat[Len(s)]
  BY DEF Packed!FlattenSeq
<1> HIDE DEF flat
<1> QED
  BY <1>3, <1>4

LEMMA FlattenTwo == ASSUME NEW s, Len(s) = 2 PROVE Packed!FlattenSeq(s) = s[1] \o s[2]
<1> DEFINE D == 1 .. Len(s)
           F(g) == [i \in D |-> IF i = 1 THEN s[i] ELSE g[i - 1] \o s[i]]
           flat == CHOOSE g : g = F(g)
           h == [i \in D |-> IF i = 1 THEN s[1] ELSE s[1] \o s[2]]
<1>0. 1 \in D /\ 2 \in D /\ \A i \in D : i = 1 \/ i = 2
  OBVIOUS
<1>1. h = F(h)
  <2> HIDE DEF D
  <2>1. h[1] = s[1]
    BY <1>0
  <2>2. ASSUME NEW i \in D PROVE h[i] = F(h)[i]
    <3>1. CASE i = 1
      BY <1>0, <2>1, <3>1
    <3>2. CASE i = 2
      <4>1. i # 1 /\ i - 1 = 1
        BY <3>2
      <4> QED
        BY <2>1, <3>2, <4>1
    <3> QED
      BY <1>0, <3>1, <3>2
  <2> QED
    BY <2>2
<1>2. flat = F(flat)
  <2> HIDE DEF F
  <2> QED
    BY <1>1
<1>3. flat[1] = s[1] /\ flat[2] = flat[1] \o s[2]
  <2> HIDE DEF flat, D
  <2>1. flat[1] = s[1]
    BY <1>0, <1>2
  <2>2. 2 # 1 /\ 2 - 1 = 1
    OBVIOUS
  <2>3. F(flat)[2] = flat[2 - 1] \o s[2]
    BY <1>0, <2>2, Zenon
  <2>4. flat[2] = F(flat)[2]
    BY <1>2, Zenon
  <2>5. flat[2] = flat[1] \o s[2]
    BY <2>2, <2>3, <2>4, Zenon
  <2> QED
    BY <2>1, <2>5
<1>4. Packed!FlattenSeq(s) = flat[Len(s)]
  BY DEF Packed!FlattenSeq
<1> HIDE DEF flat
<1> QED
  BY <1>3, <1>4

\* Texts that follow one on the other from the first, flattened.
LEMMA FlattenChars ==
  ASSUME NEW n \in Nat, NEW at \in [Nat -> Nat], NEW s, Len(s) = n, at[0] = 0,
         \A i \in 1 .. n : Chars(3 * at[i - 1]) \o s[i] = Chars(3 * at[i]), n # 0 => s[1] = Chars(3 * at[1])
  PROVE  n # 0 => Packed!FlattenSeq(s) = Chars(3 * at[n])
<1> SUFFICES ASSUME n # 0 PROVE Packed!FlattenSeq(s) = Chars(3 * at[n])
  OBVIOUS
<1> DEFINE D == 1 .. n
           F(g) == [i \in D |-> IF i = 1 THEN s[i] ELSE g[i - 1] \o s[i]]
           flat == CHOOSE g : g = F(g)
           h == [i \in D |-> Chars(3 * at[i])]
<1>1. h = F(h)
  <2>1. ASSUME NEW i \in D PROVE h[i] = F(h)[i]
    <3>1. CASE i = 1
      BY <3>1
    <3>2. CASE i # 1
      <4>1. i - 1 \in D
        BY <3>2
      <4> HIDE DEF D
      <4>2. h[i - 1] = Chars(3 * at[i - 1]) /\ h[i] = Chars(3 * at[i]) /\ F(h)[i] = h[i - 1] \o s[i]
        BY <3>2, <4>1
      <4> QED
        BY <4>2 DEF D
    <3> QED
      BY <3>1, <3>2
  <2> QED
    BY <2>1
<1>2. flat = F(flat)
  <2> HIDE DEF F
  <2> QED
    BY <1>1
<1> DEFINE Same == {i \in Nat : i + 1 \in D => flat[i + 1] = Chars(3 * at[i + 1])}
<1>3. Same = Nat
  <2> HIDE DEF flat
  <2>1. 0 \in Same
    BY <1>2
  <2>2. ASSUME NEW i \in Same PROVE i + 1 \in Same
    <3> DEFINE k == i + 1 + 1
    <3>1. SUFFICES ASSUME k \in D PROVE flat[k] = Chars(3 * at[k])
      OBVIOUS
    <3>2. i \in Nat /\ i + 1 \in D /\ k # 1 /\ k - 1 = i + 1
      BY <3>1
    <3>3. flat[k - 1] = Chars(3 * at[k - 1])
      BY <3>2
    <3>4. Chars(3 * at[k - 1]) \o s[k] = Chars(3 * at[k])
      BY <3>1
    <3> HIDE DEF D, k
    <3>5. flat[k] = F(flat)[k]
      BY <1>2, Zenon
    <3>6. F(flat)[k] = flat[k - 1] \o s[k]
      BY <3>1, <3>2, Zenon
    <3> QED
      BY <3>3, <3>4, <3>5, <3>6, Zenon
  <2> HIDE DEF Same
  <2>3. Same \in SUBSET Nat
    BY DEF Same
  <2> QED
    BY <2>1, <2>2, <2>3, Induction
<1>4. Packed!FlattenSeq(s) = flat[n]
  BY DEF Packed!FlattenSeq
<1>5. n - 1 \in Nat /\ n - 1 + 1 = n /\ n \in D
  OBVIOUS
<1> HIDE DEF flat, D
<1>6. flat[n] = Chars(3 * at[n])
  BY <1>3, <1>5
<1> QED
  BY <1>4, <1>6

-----------------------------------------------------------------------------
(* What is read of a text.                                                 *)

LEMMA LineEnds == ASSUME NEW k \in Nat PROVE Char(k) = Packed!NL <=> \E j \in Nat : k = 3 * j
<1>1. PICK j \in Nat : k \in {3 * j, 3 * j + 1, 3 * j + 2}
  BY Thirds
<1>2. Char(3 * j) = 0 /\ Char(3 * j + 1) = j + 1 /\ Char(3 * j + 2) = j + 1 /\ Packed!NL = 0
  BY CharIs DEF Packed!NL
<1>3. CASE k = 3 * j
  BY <1>2, <1>3
<1>4. CASE k # 3 * j
  <2>1. Char(k) = j + 1
    BY <1>1, <1>2, <1>4
  <2>2. \A i \in Nat : k # 3 * i
    BY <1>1, <1>4
  <2> QED
    BY <1>2, <2>1, <2>2
<1> QED
  BY <1>3, <1>4

\* A text that a log may begin with has its last line end where the whole lines end.
LEMMA TranscriptIs ==
  ASSUME NEW fs, NEW m \in Nat, NEW q \in Nat, m \in (3 * q) .. (3 * q + 2),
         Packed!Unpack(fs, FALSE).text = Chars(m), ~Packed!Unpack(fs, FALSE).failed => m = 3 * q
  PROVE  Packed!ReadTranscript(fs) = Chars(3 * q)
<1> DEFINE got == Packed!Unpack(fs, FALSE)
           I == {i \in 1 .. Len(Chars(m)) : Chars(m)[i] = Packed!NL}
<1>1. Len(Chars(m)) = m /\ DOMAIN Chars(m) = 1 .. m /\ \A k \in 1 .. m : Chars(m)[k] = Char(k)
  BY CharsAre
<1>2. I = {i \in 1 .. m : \E j \in Nat : i = 3 * j}
  <2>1. \A i \in 1 .. m : Chars(m)[i] = Packed!NL <=> \E j \in Nat : i = 3 * j
    <3> TAKE i \in 1 .. m
    <3>1. i \in Nat /\ Chars(m)[i] = Char(i)
      BY <1>1
    <3> QED
      BY <3>1, LineEnds, Zenon
  <2> QED
    BY <1>1, <2>1
<1>3. SubSeq(Chars(m), 1, 3 * q) = Chars(3 * q)
  BY CharsAre
<1>4. q = 0 <=> I = {}
  <2>1. ASSUME q = 0 PROVE I = {}
    BY <1>2, <2>1
  <2>2. ASSUME q # 0 PROVE 3 * q \in I
    BY <1>2, <2>2
  <2> QED
    BY <2>1, <2>2
<1>5. (IF I # {} THEN Packed!Max(I) ELSE 0) = 3 * q
  <2>1. CASE q = 0
    BY <1>4, <2>1
  <2>2. CASE q # 0
    <3>1. 3 * q \in I /\ \A y \in I : 3 * q >= y
      BY <1>2, <2>2
    <3>2. \A x \in I : (\A y \in I : x >= y) => x = 3 * q
      BY <1>2, <3>1
    <3> HIDE DEF I
    <3>3. Packed!Max(I) = 3 * q
      BY <3>1, <3>2, Zenon DEF Packed!Max
    <3> QED
      BY <3>1, <3>3
  <2> QED
    BY <2>1, <2>2
<1>6. Packed!ReadTranscript(fs) = IF got.failed THEN SubSeq(Chars(m), 1, IF I # {} THEN Packed!Max(I) ELSE 0)
                                  ELSE Chars(m)
  BY Zenon DEF Packed!ReadTranscript, Packed!SelectLastInSeq
<1> HIDE DEF got, I
<1> QED
  BY <1>3, <1>5, <1>6 DEF got

\* Its lines are each number, twice.
Line(i) == <<i, i>>
LEMMA LinesAre == ASSUME NEW q \in Nat PROVE Packed!Lines(Chars(3 * q)) = [i \in 1 .. q |-> Line(i)]
<1> DEFINE text == Chars(3 * q)
           starts == {k \in DOMAIN text : text[k] # Packed!NL /\ (k = 1 \/ text[k - 1] = Packed!NL)}
           line(k) == LET rest == SubSeq(text, k, Len(text))
                          end == Packed!SelectInSeq(rest, LAMBDA c : c = Packed!NL)
                      IN  IF end = 0 THEN rest ELSE SubSeq(rest, 1, end - 1)
           nth(i) == CHOOSE k \in starts : Cardinality({j \in starts : j <= k}) = i
           first(n) == {3 * j - 2 : j \in 1 .. n}
<1>1. /\ 3 * q \in Nat /\ text \in Seq(Nat) /\ Len(text) = 3 * q /\ DOMAIN text = 1 .. (3 * q)
      /\ \A k \in 1 .. (3 * q) : text[k] = Char(k)
  BY CharsAre
<1> HIDE DEF text
<1>2. starts = first(q)
  <2>1. ASSUME NEW k \in starts PROVE k \in first(q)
    <3>1. k \in 1 .. (3 * q) /\ Char(k) # Packed!NL /\ (k = 1 \/ text[k - 1] = Packed!NL)
      BY <1>1, <2>1
    <3>2. CASE k = 1
      <4>1. 1 \in 1 .. q /\ 3 * 1 - 2 = 1
        BY <3>1, <3>2
      <4> QED
        BY <3>2, <4>1
    <3>3. CASE k # 1
      <4>1. k - 1 \in 1 .. (3 * q)
        BY <3>1, <3>3
      <4>2. Char(k - 1) = Packed!NL
        BY <1>1, <3>1, <3>3, <4>1
      <4>3. PICK j \in Nat : k - 1 = 3 * j
        BY <4>1, <4>2, LineEnds
      <4>4. j + 1 \in 1 .. q /\ k = 3 * (j + 1) - 2
        BY <3>1, <4>3
      <4> QED
        BY <4>4
    <3> QED
      BY <3>2, <3>3
  <2>2. ASSUME NEW j \in 1 .. q PROVE 3 * j - 2 \in starts
    <3> DEFINE k == 3 * j - 2
    <3>1. k \in 1 .. (3 * q) /\ k = 3 * (j - 1) + 1 /\ j - 1 \in Nat
      OBVIOUS
    <3>2. Char(k) = j /\ j # Packed!NL
      <4>1. Char(3 * (j - 1) + 1) = j - 1 + 1
        BY <3>1, CharIs
      <4> QED
        BY <3>1, <4>1 DEF Packed!NL
    <3>3. k = 1 \/ text[k - 1] = Packed!NL
      <4>1. CASE j # 1
        <5>1. k - 1 \in 1 .. (3 * q) /\ k - 1 = 3 * (j - 1)
          BY <4>1
        <5>2. Char(k - 1) = Packed!NL
          BY <3>1, <5>1, CharIs DEF Packed!NL
        <5> QED
          BY <1>1, <5>1, <5>2
      <4> QED
        BY <4>1
    <3> QED
      BY <1>1, <3>1, <3>2, <3>3
  <2> QED
    BY <2>1, <2>2
<1>3. ASSUME NEW n \in Nat PROVE IsFiniteSet(first(n)) /\ Cardinality(first(n)) = n
  <2> DEFINE f == [j \in 1 .. n |-> 3 * j - 2]
  <2>1. f \in Bijection(1 .. n, first(n))
    <3>1. f \in [1 .. n -> first(n)]
      OBVIOUS
    <3>2. \A a, b \in 1 .. n : f[a] = f[b] => a = b
      OBVIOUS
    <3>3. \A t \in first(n) : \E j \in 1 .. n : f[j] = t
      OBVIOUS
    <3> HIDE DEF f, first
    <3> QED
      BY <3>1, <3>2, <3>3 DEF Bijection, Injection, Surjection, IsInjective
  <2>2. IsFiniteSet(1 .. n) /\ Cardinality(1 .. n) = n
    BY FS_Interval
  <2> HIDE DEF f, first
  <2> QED
    BY <2>1, <2>2, FS_Bijection DEF ExistsBijection
<1>4. \A a \in 1 .. q : {j \in starts : j <= 3 * a - 2} = first(a)
  <2> TAKE a \in 1 .. q
  <2> HIDE DEF starts
  <2>1. \A j \in 1 .. q : 3 * j - 2 <= 3 * a - 2 <=> j \in 1 .. a
    OBVIOUS
  <2>2. \A j \in 1 .. a : j \in 1 .. q
    OBVIOUS
  <2> QED
    BY <1>2, <2>1, <2>2
<1>5. \A i \in 1 .. q : nth(i) = 3 * i - 2
  <2> TAKE i \in 1 .. q
  <2>1. 3 * i - 2 \in starts /\ Cardinality({j \in starts : j <= 3 * i - 2}) = i
    <3>1. 3 * i - 2 \in first(q)
      OBVIOUS
    <3>2. Cardinality(first(i)) = i
      <4>1. i \in Nat
        OBVIOUS
      <4> HIDE DEF first
      <4> QED
        BY <1>3, <4>1
    <3> HIDE DEF starts, first
    <3> QED
      BY <1>2, <1>4, <3>1, <3>2
  <2>2. \A k \in starts : Cardinality({j \in starts : j <= k}) = i => k = 3 * i - 2
    <3> TAKE k \in starts
    <3>1. PICK a \in 1 .. q : k = 3 * a - 2
      <4> HIDE DEF starts
      <4> QED
        BY <1>2
    <3>2. Cardinality(first(a)) = a
      <4>1. a \in Nat
        OBVIOUS
      <4> HIDE DEF first
      <4> QED
        BY <1>3, <4>1
    <3> HIDE DEF starts, first
    <3>3. Cardinality({j \in starts : j <= k}) = a
      BY <1>4, <3>1, <3>2
    <3> QED
      BY <3>1, <3>3
  <2> HIDE DEF starts
  <2> QED
    BY <2>1, <2>2, Zenon
<1>6. \A i \in 1 .. q : line(3 * i - 2) = Line(i)
  <2> TAKE i \in 1 .. q
  <2> DEFINE k == 3 * i - 2
             rest == SubSeq(text, k, Len(text))
             I == {j \in 1 .. Len(rest) : rest[j] = Packed!NL}
             end == IF I # {} THEN Packed!Min(I) ELSE 0
  <2>1. k \in 1 .. (3 * q) /\ k + 2 <= 3 * q /\ i - 1 \in Nat /\ k = 3 * (i - 1) + 1 /\ k + 1 = 3 * (i - 1) + 2
        /\ k + 2 = 3 * i
    OBVIOUS
  <2>2. text[k] = i /\ text[k + 1] = i /\ text[k + 2] = 0
    <3>1. Char(3 * (i - 1) + 1) = i /\ Char(3 * (i - 1) + 2) = i /\ Char(3 * i) = 0
      <4>1. i - 1 + 1 = i
        OBVIOUS
      <4> QED
        BY <2>1, <4>1, CharIs
    <3>2. k + 1 \in 1 .. (3 * q) /\ k + 2 \in 1 .. (3 * q)
      BY <2>1
    <3> HIDE DEF k
    <3> QED
      BY <1>1, <2>1, <3>1, <3>2
  <2> HIDE DEF k
  <2>3. rest \in Seq(Nat) /\ Len(rest) = 3 * q - k + 1 /\ \A j \in 1 .. (3 * q - k + 1) : rest[j] = text[k + j - 1]
    BY <1>1, <2>1
  <2>4. rest[1] = i /\ rest[2] = i /\ rest[3] = 0 /\ Len(rest) >= 3
    <3>1. /\ 1 \in 1 .. (3 * q - k + 1) /\ 2 \in 1 .. (3 * q - k + 1) /\ 3 \in 1 .. (3 * q - k + 1)
          /\ k + 1 - 1 = k /\ k + 2 - 1 = k + 1 /\ k + 3 - 1 = k + 2 /\ 3 * q - k + 1 >= 3
      BY <1>1, <2>1
    <3> HIDE DEF rest
    <3> QED
      BY <2>2, <2>3, <3>1
  <2> HIDE DEF rest
  <2>5. end = 3
    <3>1. 3 \in I /\ \A j \in I : 3 <= j
      <4>1. i # Packed!NL /\ 0 = Packed!NL
        BY DEF Packed!NL
      <4>2. ASSUME NEW j \in I PROVE 3 <= j
        BY <2>3, <2>4, <4>1, <4>2
      <4> QED
        BY <2>3, <2>4, <4>1, <4>2
    <3>2. \A x \in I : (\A y \in I : x <= y) => x = 3
      BY <2>3, <3>1
    <3> HIDE DEF I
    <3>3. Packed!Min(I) = 3
      BY <3>1, <3>2, Zenon DEF Packed!Min
    <3> QED
      BY <3>1, <3>3
  <2>6. line(k) = IF end = 0 THEN rest ELSE SubSeq(rest, 1, end - 1)
    BY Zenon DEF Packed!SelectInSeq, rest
  <2> HIDE DEF end
  <2>7. SubSeq(rest, 1, end - 1) = <<i, i>>
    <3>1. end - 1 = 2
      BY <2>5
    <3> DEFINE w == SubSeq(rest, 1, 2)
    <3>2. w \in Seq(Nat) /\ Len(w) = 2 /\ w[1] = rest[1] /\ w[2] = rest[2]
      BY <2>3, <2>4
    <3>3. SubSeq(rest, 1, 2) = w
      OBVIOUS
    <3> HIDE DEF w
    <3>4. w = <<i, i>>
      BY <2>4, <3>2
    <3> QED
      BY <3>1, <3>3, <3>4
  <2> HIDE DEF line
  <2>8. line(k) = <<i, i>>
    BY <2>5, <2>6, <2>7
  <2> QED
    BY <2>8 DEF k, Line
<1>7. Cardinality(starts) = q
  BY <1>2, <1>3
<1>8. Packed!Lines(text) = [i \in 1 .. Cardinality(starts) |-> line(nth(i))]
  BY Zenon DEF Packed!Lines, Packed!Cardinality, Cardinality
<1> HIDE DEF starts, line, nth
<1>9. [i \in 1 .. q |-> line(nth(i))] = [i \in 1 .. q |-> Line(i)]
  <2>1. \A i \in 1 .. q : line(nth(i)) = Line(i)
    BY <1>5, <1>6
  <2> QED
    BY <2>1
<1> QED
  BY <1>7, <1>8, <1>9 DEF text

-----------------------------------------------------------------------------
(* Frames, and a log of them.                                              *)

LogFrames == [kind : {"data", "skip", "junk"}, blocks : Seq(Seq(Nat)), there : Nat, sum : {"none", "right", "wrong"}]
\* f holds the n lines after the first b, and no frame of another kind than data holds any.
Fits(f, b, n) ==
  /\ f.kind = "data" => /\ f.blocks \in Packed!Pieces(Packed!Text(b, n))
                        /\ f.there \in 0 .. Len(f.blocks) /\ (f.sum # "none" => f.there = Len(f.blocks))
  /\ f.kind # "data" => n = 0 /\ f.blocks = <<>> /\ f.there = 0 /\ f.sum = "right"
Good(f) == f.kind # "junk" /\ f.sum = "right"

LEMMA PiecesAre ==
  ASSUME NEW b \in Nat, NEW n \in Nat, NEW blocks \in Packed!Pieces(Packed!Text(b, n))
  PROVE  /\ Packed!FlattenSeq(blocks) = Packed!Text(b, n)
         /\ blocks \in Seq(Seq(Nat)) /\ Len(blocks) \in {1, 2}
         /\ Len(blocks) = 2 => \E p \in 0 .. (3 * n) : blocks[1] = SubSeq(Packed!Text(b, n), 1, p)
<1> DEFINE t == Packed!Text(b, n)
<1>1. t \in Seq(Nat) /\ Len(t) = 3 * n
  <2>1. 0 \in 0 .. (3 * n)
    OBVIOUS
  <2> QED
    BY <2>1, Joins, Zenon
<1>2. \/ blocks = <<t>>
      \/ \E k \in 1 .. (Len(t) - 1) : blocks = <<SubSeq(t, 1, k), SubSeq(t, k + 1, Len(t))>>
  BY DEF Packed!Pieces
<1>3. CASE blocks = <<t>>
  <2> HIDE DEF t
  <2>1. Len(blocks) = 1 /\ blocks[1] = t /\ blocks \in Seq(Seq(Nat))
    BY <1>1, <1>3
  <2> QED
    BY <2>1, FlattenOne DEF t
<1>4. CASE \E k \in 1 .. (Len(t) - 1) : blocks = <<SubSeq(t, 1, k), SubSeq(t, k + 1, Len(t))>>
  <2>1. PICK k \in 1 .. (Len(t) - 1) : blocks = <<SubSeq(t, 1, k), SubSeq(t, k + 1, Len(t))>>
    BY <1>4
  <2>2. k \in 0 .. (3 * n)
    BY <1>1, <2>1
  <2>3. SubSeq(t, 1, k) \o SubSeq(t, k + 1, Len(t)) = t /\ SubSeq(t, 1, k) \in Seq(Nat)
    BY <1>1, <2>2, Joins
  <2>4. SubSeq(t, k + 1, Len(t)) \in Seq(Nat)
    <3> HIDE DEF t
    <3> QED
      BY SMTT(60), <1>1, <2>1
  <2> DEFINE u == SubSeq(t, 1, k)
             v == SubSeq(t, k + 1, Len(t))
  <2>5. blocks = <<u, v>> /\ u \in Seq(Nat) /\ v \in Seq(Nat) /\ u \o v = t
    BY <2>1, <2>3, <2>4
  <2> HIDE DEF u, v
  <2>6. Len(blocks) = 2 /\ blocks[1] = u /\ blocks[2] = v /\ blocks \in Seq(Seq(Nat))
    BY <2>5
  <2>7. Packed!FlattenSeq(blocks) = t
    BY <2>5, <2>6, FlattenTwo
  <2> QED
    BY <2>2, <2>6, <2>7 DEF u
<1> QED
  BY <1>2, <1>3, <1>4

\* What a frame gives: the lines it holds, or the start of them and that it failed.
Reads(f, b, n, p) ==
  LET got == Packed!UnpackFrame(f)
  IN  /\ got.text \in Seq(Nat) /\ Len(got.text) = p /\ Chars(3 * b) \o got.text = Chars(3 * b + p)
      /\ Good(f) => got.failed = FALSE
      /\ ~Good(f) => got.failed = TRUE
      /\ Good(f) => p = 3 * n /\ got.text = Packed!FlattenSeq(f.blocks)
      /\ ~Good(f) => got.text = Packed!FlattenSeq([k \in {x \in 1 .. f.there : x < Len(f.blocks)} |-> f.blocks[k]])

LEMMA FrameReads ==
  ASSUME NEW b \in Nat, NEW n \in Nat, NEW f \in LogFrames, Fits(f, b, n)
  PROVE  \E p \in 0 .. (3 * n) : Reads(f, b, n, p)
<1>0. f.kind \in {"data", "skip", "junk"} /\ f.sum \in {"none", "right", "wrong"}
  BY DEF LogFrames
<1>1. /\ Chars(3 * b) \o <<>> = Chars(3 * b) /\ <<>> \in Seq(Nat) /\ Len(<<>>) = 0 /\ 0 \in 0 .. (3 * n)
      /\ 3 * b + 0 = 3 * b
  <2>1. 3 * b \in Nat
    OBVIOUS
  <2>2. Chars(3 * b) \in Seq(Nat)
    BY <2>1, CharsAre
  <2> QED
    BY <2>2
<1>2. CASE f.kind # "data"
  <2>1. n = 0 /\ f.blocks = <<>> /\ f.there = 0 /\ f.sum = "right"
    BY <1>2 DEF Fits
  <2>2. /\ Packed!UnpackFrame(f).text = <<>>
        /\ f.kind # "junk" => Packed!UnpackFrame(f).failed = FALSE
        /\ f.kind = "junk" => Packed!UnpackFrame(f).failed = TRUE
    <3>1. CASE f.kind = "skip"
      <4>1. Packed!UnpackFrame(f) = [text |-> <<>>, failed |-> FALSE] /\ f.kind # "junk"
        BY <3>1 DEF Packed!UnpackFrame
      <4> QED
        BY <4>1
    <3>2. CASE f.kind = "junk"
      <4>1. Packed!UnpackFrame(f) = [text |-> <<>>, failed |-> TRUE]
        BY <3>2 DEF Packed!UnpackFrame
      <4> QED
        BY <3>2, <4>1
    <3> QED
      BY <1>0, <1>2, <3>1, <3>2
  <2>3. Packed!FlattenSeq(<<>>) = <<>>
    BY <1>1, FlattenNone
  <2>4. [k \in {x \in 1 .. f.there : x < Len(f.blocks)} |-> f.blocks[k]] = <<>>
    <3>1. {x \in 1 .. f.there : x < Len(f.blocks)} = {}
      BY <2>1
    <3> QED
      BY <3>1
  <2>5. Good(f) <=> f.kind # "junk"
    BY <2>1 DEF Good
  <2>6. 0 = 3 * n
    BY <2>1
  <2> QED
    BY <1>1, <2>1, <2>2, <2>3, <2>4, <2>5, <2>6, Zenon DEF Reads
<1>3. CASE f.kind = "data"
  <2>1. f.blocks \in Packed!Pieces(Packed!Text(b, n)) /\ f.there \in 0 .. Len(f.blocks)
    BY <1>3 DEF Fits
  <2>2. /\ Packed!FlattenSeq(f.blocks) = Packed!Text(b, n) /\ f.blocks \in Seq(Seq(Nat)) /\ Len(f.blocks) \in {1, 2}
        /\ Len(f.blocks) = 2 => \E p \in 0 .. (3 * n) : f.blocks[1] = SubSeq(Packed!Text(b, n), 1, p)
    BY <2>1, PiecesAre
  <2>3. 3 * n \in 0 .. (3 * n) /\ 3 * b + 3 * n = 3 * (b + n)
    OBVIOUS
  <2>4. CASE f.sum = "right"
    <3>1. Packed!UnpackFrame(f).text = Packed!Text(b, n) /\ Packed!UnpackFrame(f).failed = FALSE
      <4>1. Packed!UnpackFrame(f) = [text |-> Packed!FlattenSeq(f.blocks), failed |-> FALSE]
        BY <1>3, <2>4 DEF Packed!UnpackFrame
      <4> QED
        BY <2>2, <4>1
    <3>2. Good(f)
      BY <1>3, <2>4 DEF Good
    <3>3. /\ Packed!Text(b, n) \in Seq(Nat) /\ Len(Packed!Text(b, n)) = 3 * n
          /\ Chars(3 * b) \o Packed!Text(b, n) = Chars(3 * (b + n))
      BY <2>3, Joins
    <3> QED
      <4>1. Reads(f, b, n, 3 * n)
        BY <2>2, <2>3, <3>1, <3>2, <3>3, Zenon DEF Reads
      <4> QED
        BY <2>3, <4>1, Zenon
  <2>5. CASE f.sum # "right"
    <3> DEFINE w == IF f.there = Len(f.blocks) THEN f.there - 1 ELSE f.there
               whole == SubSeq(f.blocks, 1, w)
    <3>1. Packed!UnpackFrame(f).text = Packed!FlattenSeq(whole) /\ Packed!UnpackFrame(f).failed = TRUE
      BY <1>3, <2>5 DEF Packed!UnpackFrame, Packed!WholeBlocks
    <3>2. ~Good(f)
      BY <2>5 DEF Good
    <3>3. w \in {0, 1} /\ w < Len(f.blocks) /\ (w = 1 => Len(f.blocks) = 2)
      <4>1. f.there \in 0 .. Len(f.blocks) /\ Len(f.blocks) \in {1, 2}
        BY <2>1, <2>2
      <4>2. CASE f.there = Len(f.blocks)
        BY <4>1, <4>2
      <4>3. CASE f.there # Len(f.blocks)
        <5>1. w = f.there
          BY <4>3
        <5>2. \A l \in {1, 2} : \A k \in 0 .. l : k # l => k \in {0, 1} /\ k < l /\ (k = 1 => l = 2)
          OBVIOUS
        <5> HIDE DEF w
        <5> QED
          BY <4>1, <4>3, <5>1, <5>2, Zenon
      <4> QED
        BY <4>2, <4>3
    <3>4. {x \in 1 .. f.there : x < Len(f.blocks)} = 1 .. w
      BY <2>1, <2>2
    <3> HIDE DEF w
    <3>5. whole = [k \in 1 .. w |-> f.blocks[k]] /\ Len(whole) = w
      BY <2>2, <3>3
    <3> HIDE DEF whole
    <3>6. \E p \in 0 .. (3 * n) : /\ Packed!FlattenSeq(whole) \in Seq(Nat) /\ Len(Packed!FlattenSeq(whole)) = p
                                  /\ Chars(3 * b) \o Packed!FlattenSeq(whole) = Chars(3 * b + p)
      <4>1. CASE w = 0
        <5>1. whole = <<>>
          BY <3>5, <4>1
        <5>2. Packed!FlattenSeq(whole) = <<>>
          BY <1>1, <5>1, FlattenNone
        <5> QED
          BY <1>1, <5>2, Zenon
      <4>2. CASE w = 1
        <5>1. PICK p \in 0 .. (3 * n) : f.blocks[1] = SubSeq(Packed!Text(b, n), 1, p)
          BY <2>2, <3>3, <4>2, Zenon
        <5>2. whole[1] = f.blocks[1] /\ Len(whole) = 1
          BY <3>5, <4>2
        <5>3. Packed!FlattenSeq(whole) = SubSeq(Packed!Text(b, n), 1, p)
          BY <5>1, <5>2, FlattenOne
        <5>4. /\ SubSeq(Packed!Text(b, n), 1, p) \in Seq(Nat) /\ Len(SubSeq(Packed!Text(b, n), 1, p)) = p
              /\ Chars(3 * b) \o SubSeq(Packed!Text(b, n), 1, p) = Chars(3 * b + p)
          BY Joins
        <5> QED
          BY <5>3, <5>4, Zenon
      <4> QED
        BY <3>3, <4>1, <4>2
    <3> QED
      BY <3>1, <3>2, <3>4, <3>5, <3>6, Zenon DEF Reads
  <2> QED
    BY <2>4, <2>5
<1> QED
  BY <1>2, <1>3

-----------------------------------------------------------------------------
(* Unpacking a log, frame after frame.                                     *)

After(before, frame, firstLine) ==
  IF before.failed \/ (firstLine /\ Packed!NL \in Packed!Range(before.text)) THEN before
  ELSE [text |-> before.text \o frame.text, failed |-> frame.failed]
Steps(fs, firstLine, g) ==
  [i \in 0 .. Len(fs) |-> IF i = 0 THEN [text |-> <<>>, failed |-> FALSE]
                          ELSE After(g[i - 1], Packed!UnpackFrame(fs[i]), firstLine)]

\* Whatever takes those steps is what Unpack does.
LEMMA UnpackSteps ==
  ASSUME NEW fs, Len(fs) \in Nat, NEW firstLine, NEW g, g = Steps(fs, firstLine, g)
  PROVE  Packed!Unpack(fs, firstLine) = g[Len(fs)]
<1> DEFINE got == CHOOSE f : f = Steps(fs, firstLine, f)
           D == 0 .. Len(fs)
<1>1. Packed!Unpack(fs, firstLine) = got[Len(fs)]
  BY Zenon DEF Packed!Unpack, Steps, After
<1>2. got = Steps(fs, firstLine, got)
  BY Zenon
<1> HIDE DEF got
<1>3. ASSUME NEW f, f = Steps(fs, firstLine, f)
      PROVE  /\ f[0] = [text |-> <<>>, failed |-> FALSE]
             /\ \A i \in D : i # 0 => f[i] = After(f[i - 1], Packed!UnpackFrame(fs[i]), firstLine)
  <2>1. 0 \in D
    OBVIOUS
  <2> DEFINE e(i) == IF i = 0 THEN [text |-> <<>>, failed |-> FALSE]
                     ELSE After(f[i - 1], Packed!UnpackFrame(fs[i]), firstLine)
  <2>2. f = [i \in D |-> e(i)]
    BY <1>3, Zenon DEF Steps
  <2> HIDE DEF D, e
  <2>3. \A i \in D : f[i] = e(i)
    BY <2>2
  <2> QED
    BY <2>1, <2>3, Zenon DEF e
<1> DEFINE Same == {i \in Nat : i \in D => got[i] = g[i]}
<1>4. Same = Nat
  <2>1. 0 \in Same
    BY <1>2, <1>3, Zenon
  <2>2. ASSUME NEW i \in Same PROVE i + 1 \in Same
    <3> DEFINE k == i + 1
    <3>1. SUFFICES ASSUME k \in D PROVE got[k] = g[k]
      OBVIOUS
    <3>2. i \in D /\ k # 0 /\ k - 1 = i
      BY <3>1
    <3>3. got[k - 1] = g[k - 1]
      BY <3>2
    <3> HIDE DEF k, D
    <3>4. got[k] = After(got[k - 1], Packed!UnpackFrame(fs[k]), firstLine)
      BY <1>2, <1>3, <3>1, <3>2, Zenon
    <3>5. g[k] = After(g[k - 1], Packed!UnpackFrame(fs[k]), firstLine)
      BY <1>3, <3>1, <3>2, Zenon
    <3> QED
      BY <3>3, <3>4, <3>5, Zenon
  <2> HIDE DEF Same
  <2>3. Same \in SUBSET Nat
    BY DEF Same
  <2> QED
    BY <2>1, <2>2, <2>3, Induction
<1>5. Len(fs) \in D
  OBVIOUS
<1> HIDE DEF D
<1> QED
  BY <1>1, <1>4, <1>5

LEMMA AfterWhole == ASSUME NEW a, NEW frame
  PROVE After([text |-> a, failed |-> FALSE], frame, FALSE) = [text |-> a \o frame.text, failed |-> frame.failed]
  BY DEF After

LEMMA Made == ASSUME NEW text, NEW failed, NEW r, r = [text |-> text, failed |-> failed]
  PROVE r.text = text /\ r.failed = failed
  OBVIOUS

LogFits(fs, at, w) ==
  /\ fs \in Seq(LogFrames)
  /\ at \in [Nat -> Nat] /\ at[0] = 0 /\ at[Len(fs)] = w
  /\ \A i, j \in 0 .. Len(fs) : i <= j => at[i] <= at[j]
  /\ \A i \in 1 .. Len(fs) : Fits(fs[i], at[i - 1], at[i] - at[i - 1])
  /\ \A i \in 1 .. Len(fs) : fs[i].sum = "none" => i = Len(fs)

\* Of a log whose first h frames are whole, and no more, m characters are unpacked.
Whole(fs, h) == (\A i \in 1 .. h : Good(fs[i])) /\ (h < Len(fs) => ~Good(fs[h + 1]))
Unpacked(fs, at, h, m) ==
  LET got == Packed!Unpack(fs, FALSE)
  IN  /\ got.text = Chars(m)
      /\ h = Len(fs) => got.failed = FALSE /\ m = 3 * at[h]
      /\ h < Len(fs) => /\ got.failed = TRUE /\ m <= 3 * at[h + 1]
                        /\ m = 3 * at[h] + Len(Packed!UnpackFrame(fs[h + 1]).text)

LEMMA WholeFrames == ASSUME NEW fs, Len(fs) \in Nat PROVE \E h \in 0 .. Len(fs) : Whole(fs, h)
<1> DEFINE T == {i \in Nat : i < Len(fs) => ~Good(fs[i + 1])}
<1>1. Len(fs) \in T /\ T \in SUBSET Nat
  OBVIOUS
<1> HIDE DEF T
<1>2. PICK h \in T : \A m \in T : h <= m
  BY <1>1, Least
<1>3. h \in 0 .. Len(fs)
  BY <1>1, <1>2
<1>4. ASSUME NEW i \in 1 .. h PROVE Good(fs[i])
  <2>1. i - 1 \in Nat /\ i - 1 < h /\ i - 1 + 1 = i
    BY <1>3
  <2>2. i - 1 \notin T
    BY <1>1, <1>2, <2>1
  <2> QED
    BY <2>1, <2>2 DEF T
<1>5. h < Len(fs) => ~Good(fs[h + 1])
  BY <1>2 DEF T
<1> QED
  BY <1>3, <1>4, <1>5 DEF Whole

\* What the frames of a log give.
LEMMA FrameAt ==
  ASSUME NEW fs, NEW at, NEW w, LogFits(fs, at, w), NEW i \in 1 .. Len(fs)
  PROVE  /\ i - 1 \in 0 .. Len(fs) /\ at[i - 1] \in Nat /\ at[i] \in Nat /\ at[i] - at[i - 1] \in Nat
         /\ \E p \in 0 .. (3 * (at[i] - at[i - 1])) : Reads(fs[i], at[i - 1], at[i] - at[i - 1], p)
<1>1. Len(fs) \in Nat /\ fs[i] \in LogFrames
  BY SMTT(60) DEF LogFits
<1>2. i - 1 \in 0 .. Len(fs) /\ i \in 0 .. Len(fs) /\ i - 1 <= i
  BY <1>1
<1>3. at[i - 1] \in Nat /\ at[i] \in Nat /\ at[i - 1] <= at[i]
  BY <1>1, <1>2 DEF LogFits
<1>4. at[i] - at[i - 1] \in Nat
  BY <1>3
<1>5. Fits(fs[i], at[i - 1], at[i] - at[i - 1])
  BY DEF LogFits
<1> HIDE DEF LogFits
<1>6. \E p \in 0 .. (3 * (at[i] - at[i - 1])) : Reads(fs[i], at[i - 1], at[i] - at[i - 1], p)
  BY <1>1, <1>3, <1>4, <1>5, FrameReads
<1> QED
  BY <1>2, <1>3, <1>4, <1>6

LEMMA UnpackIs ==
  ASSUME NEW fs, NEW at, NEW w \in Nat, LogFits(fs, at, w), NEW h \in 0 .. Len(fs), Whole(fs, h)
  PROVE  /\ \E m \in Nat : Unpacked(fs, at, h, m)
         /\ \E g : g = Steps(fs, FALSE, g) /\ \A i \in 0 .. Len(fs) : \E c \in Nat : g[i].text = Chars(c)
<1>0. Len(fs) \in Nat /\ at[0] = 0 /\ \A i \in 0 .. Len(fs) : at[i] \in Nat
  BY DEF LogFits
<1> DEFINE m == IF h = Len(fs) THEN 3 * at[h] ELSE 3 * at[h] + Len(Packed!UnpackFrame(fs[h + 1]).text)
           g == [i \in 0 .. Len(fs) |-> IF i <= h THEN [text |-> Chars(3 * at[i]), failed |-> FALSE]
                                        ELSE [text |-> Chars(m), failed |-> TRUE]]
<1>1. /\ m \in Nat
      /\ h < Len(fs) => m <= 3 * at[h + 1]
      /\ h < Len(fs) => Chars(3 * at[h]) \o Packed!UnpackFrame(fs[h + 1]).text = Chars(m)
      /\ h < Len(fs) => Packed!UnpackFrame(fs[h + 1]).failed = TRUE
  <2>1. CASE h = Len(fs)
    <3>1. ~(h < Len(fs)) /\ m = 3 * at[h] /\ 3 * at[h] \in Nat
      BY <1>0, <2>1
    <3> HIDE DEF m
    <3> QED
      BY <3>1, Zenon
  <2>2. CASE h < Len(fs)
    <3>1. h + 1 \in 1 .. Len(fs) /\ h + 1 - 1 = h
      BY <1>0, <2>2
    <3>2. /\ at[h] \in Nat /\ at[h + 1] \in Nat /\ at[h + 1] - at[h] \in Nat
          /\ \E p \in 0 .. (3 * (at[h + 1] - at[h])) : Reads(fs[h + 1], at[h], at[h + 1] - at[h], p)
      BY <3>1, FrameAt
    <3>3. PICK p \in 0 .. (3 * (at[h + 1] - at[h])) : Reads(fs[h + 1], at[h], at[h + 1] - at[h], p)
      BY <3>2
    <3>4. ~Good(fs[h + 1])
      BY <2>2 DEF Whole
    <3>5. /\ Len(Packed!UnpackFrame(fs[h + 1]).text) = p
          /\ Chars(3 * at[h]) \o Packed!UnpackFrame(fs[h + 1]).text = Chars(3 * at[h] + p)
          /\ Packed!UnpackFrame(fs[h + 1]).failed = TRUE
      BY <3>3, <3>4, Zenon DEF Reads
    <3>6. m = 3 * at[h] + p /\ p \in Nat /\ 3 * at[h] + p \in Nat /\ 3 * at[h] + p <= 3 * at[h + 1]
      <4>1. m = 3 * at[h] + p
        BY <2>2, <3>5
      <4>2. \A a, b \in Nat : \A k \in 0 .. (3 * (b - a)) : k \in Nat /\ 3 * a + k \in Nat /\ 3 * a + k <= 3 * b
        OBVIOUS
      <4> HIDE DEF m
      <4> QED
        BY <3>2, <4>1, <4>2
    <3> HIDE DEF m
    <3> QED
      BY <3>5, <3>6
  <2>3. h = Len(fs) \/ h < Len(fs)
    BY <1>0
  <2> QED
    BY <2>1, <2>2, <2>3, Zenon
<1> HIDE DEF m
<1>2. g = Steps(fs, FALSE, g)
  <2>0. /\ \A i \in 0 .. Len(fs) : i <= h => g[i] = [text |-> Chars(3 * at[i]), failed |-> FALSE]
        /\ \A i \in 0 .. Len(fs) : i > h => g[i] = [text |-> Chars(m), failed |-> TRUE]
    BY <1>0
  <2> DEFINE e(i) == IF i = 0 THEN [text |-> <<>>, failed |-> FALSE]
                     ELSE After(g[i - 1], Packed!UnpackFrame(fs[i]), FALSE)
  <2>1. ASSUME NEW i \in 0 .. Len(fs) PROVE g[i] = e(i)
    <3> HIDE DEF g
    <3>1. CASE i = 0
      <4>1. Chars(3 * at[0]) = <<>> /\ 0 \in 0 .. Len(fs) /\ 0 <= h
        BY <1>0 DEF Chars
      <4> QED
        BY <2>0, <3>1, <4>1
    <3>2. CASE i # 0 /\ i <= h
      <4>1. i \in 1 .. Len(fs) /\ i \in 1 .. h /\ i - 1 \in 0 .. Len(fs) /\ i - 1 <= h
        BY <1>0, <3>2
      <4>2. /\ at[i - 1] \in Nat /\ at[i] - at[i - 1] \in Nat /\ at[i] \in Nat
            /\ \E p \in 0 .. (3 * (at[i] - at[i - 1])) : Reads(fs[i], at[i - 1], at[i] - at[i - 1], p)
        BY <4>1, FrameAt
      <4>3. Good(fs[i])
        BY <4>1 DEF Whole
      <4>4. /\ Chars(3 * at[i - 1]) \o Packed!UnpackFrame(fs[i]).text = Chars(3 * at[i - 1] + 3 * (at[i] - at[i - 1]))
            /\ Packed!UnpackFrame(fs[i]).failed = FALSE
        BY <4>2, <4>3, Zenon DEF Reads
      <4>5. 3 * at[i - 1] + 3 * (at[i] - at[i - 1]) = 3 * at[i]
        BY SMTT(60), <4>2
      <4>6. g[i - 1] = [text |-> Chars(3 * at[i - 1]), failed |-> FALSE] /\ g[i] = [text |-> Chars(3 * at[i]), failed |-> FALSE]
        BY <2>0, <3>2, <4>1
      <4>7. After(g[i - 1], Packed!UnpackFrame(fs[i]), FALSE) = [text |-> Chars(3 * at[i]), failed |-> FALSE]
        <5>1. Chars(3 * at[i - 1]) \o Packed!UnpackFrame(fs[i]).text = Chars(3 * at[i])
          BY <4>4, <4>5, Zenon
        <5>2. After(g[i - 1], Packed!UnpackFrame(fs[i]), FALSE)
              = [text |-> Chars(3 * at[i - 1]) \o Packed!UnpackFrame(fs[i]).text, failed |-> Packed!UnpackFrame(fs[i]).failed]
          BY <4>6, AfterWhole, Zenon
        <5> HIDE DEF g
        <5> QED
          BY <4>4, <5>1, <5>2, Zenon
      <4> QED
        BY <3>2, <4>6, <4>7
    <3>3. CASE i = h + 1
      <4>1. h < Len(fs) /\ i # 0 /\ i - 1 = h /\ i - 1 \in 0 .. Len(fs) /\ i > h
        BY <1>0, <3>3
      <4>2. g[i - 1] = [text |-> Chars(3 * at[h]), failed |-> FALSE] /\ g[i] = [text |-> Chars(m), failed |-> TRUE]
        <5>1. h <= h
          BY <1>0
        <5> QED
          BY <2>0, <4>1, <5>1, Zenon
      <4>3. /\ Chars(3 * at[h]) \o Packed!UnpackFrame(fs[i]).text = Chars(m)
            /\ Packed!UnpackFrame(fs[i]).failed = TRUE
        BY <1>1, <3>3, <4>1
      <4>4. After(g[i - 1], Packed!UnpackFrame(fs[i]), FALSE) = [text |-> Chars(m), failed |-> TRUE]
        <5>1. After(g[i - 1], Packed!UnpackFrame(fs[i]), FALSE)
              = [text |-> Chars(3 * at[h]) \o Packed!UnpackFrame(fs[i]).text, failed |-> Packed!UnpackFrame(fs[i]).failed]
          BY <4>2, AfterWhole, Zenon
        <5> QED
          BY <4>3, <5>1, Zenon
      <4> QED
        BY <4>1, <4>2, <4>4
    <3>4. CASE i > h + 1
      <4>1. i # 0 /\ i - 1 \in 0 .. Len(fs) /\ i > h /\ i - 1 > h
        BY <1>0, <3>4
      <4>2. g[i - 1] = [text |-> Chars(m), failed |-> TRUE] /\ g[i] = [text |-> Chars(m), failed |-> TRUE]
        BY <2>0, <4>1
      <4>3. After(g[i - 1], Packed!UnpackFrame(fs[i]), FALSE) = g[i - 1]
        BY <4>2 DEF After
      <4> QED
        BY <4>1, <4>2, <4>3
    <3>5. i = 0 \/ (i # 0 /\ i <= h) \/ i = h + 1 \/ i > h + 1
      BY <1>0
    <3> QED
      BY <3>1, <3>2, <3>3, <3>4, <3>5, Zenon
  <2>2. Steps(fs, FALSE, g) = [i \in 0 .. Len(fs) |-> e(i)]
    BY Zenon DEF Steps
  <2>3. g = [i \in 0 .. Len(fs) |-> g[i]]
    OBVIOUS
  <2> HIDE DEF g, e
  <2> QED
    BY <2>1, <2>2, <2>3
<1>3. Packed!Unpack(fs, FALSE) = g[Len(fs)]
  <2> HIDE DEF g
  <2> QED
    BY <1>0, <1>2, UnpackSteps
<1>4. ASSUME h = Len(fs) PROVE Unpacked(fs, at, h, m)
  <2>1. g[Len(fs)] = [text |-> Chars(3 * at[h]), failed |-> FALSE] /\ m = 3 * at[h]
    BY <1>0, <1>4 DEF m
  <2> HIDE DEF g
  <2>2. Packed!Unpack(fs, FALSE).text = Chars(m) /\ Packed!Unpack(fs, FALSE).failed = FALSE
    <3>1. Packed!Unpack(fs, FALSE) = [text |-> Chars(m), failed |-> FALSE]
      BY <1>3, <2>1, Zenon
    <3> QED
      BY <3>1, Made, ZenonT(60)
  <2>3. ~(h < Len(fs))
    BY <1>0, <1>4
  <2> QED
    BY <1>1, <2>1, <2>2, <2>3, Zenon DEF Unpacked
<1>5. ASSUME h < Len(fs) PROVE Unpacked(fs, at, h, m)
  <2>1. g[Len(fs)] = [text |-> Chars(m), failed |-> TRUE]
    BY <1>0, <1>5
  <2>2. m = 3 * at[h] + Len(Packed!UnpackFrame(fs[h + 1]).text)
    BY <1>0, <1>5 DEF m
  <2> HIDE DEF g
  <2>3. Packed!Unpack(fs, FALSE).text = Chars(m) /\ Packed!Unpack(fs, FALSE).failed = TRUE
    <3>1. Packed!Unpack(fs, FALSE) = [text |-> Chars(m), failed |-> TRUE]
      BY <1>3, <2>1, Zenon
    <3> QED
      BY <3>1, Made, ZenonT(60)
  <2>4. h # Len(fs)
    BY <1>0, <1>5
  <2> QED
    BY <1>1, <1>5, <2>2, <2>3, <2>4, Zenon DEF Unpacked
<1>6. \A i \in 0 .. Len(fs) : \E c \in Nat : g[i].text = Chars(c)
  <2> TAKE i \in 0 .. Len(fs)
  <2>1. CASE i <= h
    <3>1. g[i].text = Chars(3 * at[i]) /\ 3 * at[i] \in Nat
      BY <1>0, <2>1
    <3> QED
      BY <3>1, Zenon
  <2>2. CASE ~(i <= h)
    <3>1. g[i].text = Chars(m)
      BY <2>2
    <3> QED
      BY <1>1, <3>1, Zenon
  <2> QED
    BY <2>1, <2>2
<1>7. h = Len(fs) \/ h < Len(fs)
  BY <1>0
<1> HIDE DEF g
<1> QED
  BY <1>1, <1>2, <1>4, <1>5, <1>6, <1>7, Zenon

LEMMA HasLineEnd == ASSUME NEW c \in Nat PROVE Packed!NL \in Packed!Range(Chars(c)) <=> c >= 3
<1>1. DOMAIN Chars(c) = 1 .. c /\ \A k \in 1 .. c : Chars(c)[k] = Char(k)
  BY CharsAre
<1>2. Packed!NL \in Packed!Range(Chars(c)) <=> \E k \in 1 .. c : Char(k) = Packed!NL
  BY <1>1 DEF Packed!Range
<1>3. ASSUME NEW k \in 1 .. c, Char(k) = Packed!NL PROVE c >= 3
  <2>1. PICK j \in Nat : k = 3 * j
    <3>1. k \in Nat
      OBVIOUS
    <3> QED
      BY <1>3, <3>1, LineEnds
  <2> QED
    BY <2>1
<1>4. ASSUME c >= 3 PROVE \E k \in 1 .. c : Char(k) = Packed!NL
  <2>1. 3 \in 1 .. c /\ 3 = 3 * 1
    BY <1>4
  <2>2. Char(3) = Packed!NL
    BY <2>1, LineEnds
  <2> QED
    BY <2>1, <2>2
<1> QED
  BY <1>2, <1>3, <1>4

\* Reading no further than the first line gives the same, or what has a line at least.
LEMMA FirstUnpacked ==
  ASSUME NEW fs, NEW at, NEW w \in Nat, LogFits(fs, at, w)
  PROVE  \/ Packed!Unpack(fs, TRUE) = Packed!Unpack(fs, FALSE)
         \/ \E c \in Nat : c >= 3 /\ Packed!Unpack(fs, TRUE).text = Chars(c)
<1>0. Len(fs) \in Nat
  BY DEF LogFits
<1>1. PICK g : g = Steps(fs, FALSE, g) /\ \A i \in 0 .. Len(fs) : \E c \in Nat : g[i].text = Chars(c)
  BY <1>0, WholeFrames, UnpackIs
<1> DEFINE T == {i \in Nat : i <= Len(fs) /\ (i = Len(fs) \/ Packed!NL \in Packed!Range(g[i].text))}
<1>2. Len(fs) \in T /\ T \in SUBSET Nat
  BY <1>0
<1> HIDE DEF T
<1>3. PICK s \in T : \A i \in T : s <= i
  BY <1>2, Least
<1>4. /\ s \in 0 .. Len(fs) /\ (s < Len(fs) => Packed!NL \in Packed!Range(g[s].text))
      /\ \A i \in 0 .. Len(fs) : i < s => Packed!NL \notin Packed!Range(g[i].text)
  <2>1. s \in 0 .. Len(fs) /\ (s < Len(fs) => Packed!NL \in Packed!Range(g[s].text))
    BY <1>0, <1>3 DEF T
  <2>2. ASSUME NEW i \in 0 .. Len(fs), i < s PROVE Packed!NL \notin Packed!Range(g[i].text)
    <3>1. i \notin T /\ i \in Nat /\ i <= Len(fs)
      BY <1>0, <1>2, <1>3, <2>2
    <3> QED
      BY <3>1 DEF T
  <2> QED
    BY <2>1, <2>2
<1> DEFINE f == [i \in 0 .. Len(fs) |-> IF i <= s THEN g[i] ELSE g[s]]
<1>5. /\ \A i \in 0 .. Len(fs) : i <= s => f[i] = g[i]
      /\ \A i \in 0 .. Len(fs) : i >= s => f[i] = g[s]
  <2>1. \A i \in 0 .. Len(fs) : i <= s => f[i] = g[i]
    OBVIOUS
  <2>2. ASSUME NEW i \in 0 .. Len(fs), i >= s PROVE f[i] = g[s]
    <3>1. CASE i = s
      BY <1>4, <3>1
    <3>2. CASE i # s
      <4>1. ~(i <= s)
        BY <1>4, <2>2, <3>2
      <4> QED
        BY <4>1
    <3> QED
      BY <3>1, <3>2
  <2> QED
    BY <2>1, <2>2
<1>6. \A i \in 0 .. Len(fs) : g[i] = IF i = 0 THEN [text |-> <<>>, failed |-> FALSE]
                                     ELSE After(g[i - 1], Packed!UnpackFrame(fs[i]), FALSE)
  <2> DEFINE e(i) == IF i = 0 THEN [text |-> <<>>, failed |-> FALSE]
                     ELSE After(g[i - 1], Packed!UnpackFrame(fs[i]), FALSE)
  <2>1. g = [i \in 0 .. Len(fs) |-> e(i)]
    BY <1>1, Zenon DEF Steps
  <2> HIDE DEF e
  <2>2. \A i \in 0 .. Len(fs) : g[i] = e(i)
    BY <2>1
  <2> QED
    BY <2>2, Zenon DEF e
<1>7. f = Steps(fs, TRUE, f)
  <2> DEFINE e(i) == IF i = 0 THEN [text |-> <<>>, failed |-> FALSE]
                     ELSE After(f[i - 1], Packed!UnpackFrame(fs[i]), TRUE)
  <2>1. ASSUME NEW i \in 0 .. Len(fs) PROVE f[i] = e(i)
    <3> HIDE DEF f
    <3>1. CASE i = 0
      <4>1. i <= s
        BY <1>4, <3>1
      <4> QED
        BY <1>5, <1>6, <3>1, <4>1, Zenon
    <3>2. CASE i # 0 /\ i <= s
      <4>1. i - 1 \in 0 .. Len(fs) /\ i - 1 <= s /\ i - 1 < s
        BY <1>0, <1>4, <3>2
      <4>2. f[i] = After(g[i - 1], Packed!UnpackFrame(fs[i]), FALSE) /\ f[i - 1] = g[i - 1]
        BY <1>5, <1>6, <3>2, <4>1, Zenon
      <4>3. Packed!NL \notin Packed!Range(g[i - 1].text)
        BY <1>4, <4>1, Zenon
      <4>4. After(g[i - 1], Packed!UnpackFrame(fs[i]), TRUE) = After(g[i - 1], Packed!UnpackFrame(fs[i]), FALSE)
        BY <4>3, Zenon DEF After
      <4> QED
        BY <3>2, <4>2, <4>4, Zenon
    <3>3. CASE i > s
      <4>1. i - 1 \in 0 .. Len(fs) /\ i - 1 >= s /\ i >= s /\ s < Len(fs) /\ i # 0
        BY <1>0, <1>4, <3>3
      <4>2. f[i] = g[s] /\ f[i - 1] = g[s] /\ Packed!NL \in Packed!Range(g[s].text)
        BY <1>4, <1>5, <4>1, Zenon
      <4>3. After(g[s], Packed!UnpackFrame(fs[i]), TRUE) = g[s]
        BY <4>2, Zenon DEF After
      <4> QED
        BY <4>1, <4>2, <4>3, Zenon
    <3>4. i <= s \/ i > s
      BY <1>4
    <3> QED
      BY <3>1, <3>2, <3>3, <3>4, Zenon
  <2>2. Steps(fs, TRUE, f) = [i \in 0 .. Len(fs) |-> e(i)]
    BY Zenon DEF Steps
  <2>3. f = [i \in 0 .. Len(fs) |-> f[i]]
    OBVIOUS
  <2> HIDE DEF f, e
  <2> QED
    BY <2>1, <2>2, <2>3
<1>8. Packed!Unpack(fs, TRUE) = f[Len(fs)] /\ Packed!Unpack(fs, FALSE) = g[Len(fs)]
  <2> HIDE DEF f
  <2> QED
    BY <1>0, <1>1, <1>7, UnpackSteps
<1>9. f[Len(fs)] = g[s]
  <2>1. Len(fs) \in 0 .. Len(fs) /\ Len(fs) >= s
    BY <1>0, <1>4
  <2> HIDE DEF f
  <2> QED
    BY <1>5, <2>1, Zenon
<1>10. CASE s = Len(fs)
  <2> HIDE DEF f
  <2> QED
    BY <1>8, <1>9, <1>10, Zenon
<1>11. CASE s < Len(fs)
  <2>1. PICK c \in Nat : g[s].text = Chars(c)
    BY <1>1, <1>4
  <2>2. c >= 3
    BY <1>4, <1>11, <2>1, HasLineEnd
  <2> HIDE DEF f
  <2> QED
    BY <1>8, <1>9, <2>1, <2>2, Zenon
<1>12. s = Len(fs) \/ s < Len(fs)
  BY <1>0, <1>4
<1> HIDE DEF f
<1> QED
  BY <1>10, <1>11, <1>12, Zenon

-----------------------------------------------------------------------------
(* What is read of a log.                                                  *)

\* The lines whose ends were unpacked, each whole.
LEMMA ReadLinesAre ==
  ASSUME NEW fs, NEW at, NEW w \in Nat, LogFits(fs, at, w), NEW h \in 0 .. Len(fs), Whole(fs, h),
         NEW m \in Nat, Unpacked(fs, at, h, m)
  PROVE  \E q \in Nat : m \in (3 * q) .. (3 * q + 2) /\ Packed!ReadLines(fs) = [i \in 1 .. q |-> Line(i)]
<1>0. Len(fs) \in Nat /\ at[h] \in Nat
  BY DEF LogFits
<1>1. PICK q \in Nat : m \in {3 * q, 3 * q + 1, 3 * q + 2}
  BY Thirds
<1>2. m \in (3 * q) .. (3 * q + 2)
  BY <1>1
<1>3. Packed!Unpack(fs, FALSE).text = Chars(m)
  BY Zenon DEF Unpacked
<1>4. ASSUME ~Packed!Unpack(fs, FALSE).failed PROVE m = 3 * q
  <2>1. h = Len(fs)
    <3>1. h < Len(fs) => Packed!Unpack(fs, FALSE).failed
      BY Zenon DEF Unpacked
    <3> QED
      <4>1. ~(h < Len(fs))
        BY <1>4, <3>1, Zenon
      <4> QED
        BY <1>0, <4>1
  <2>2. m = 3 * at[h]
    BY <2>1, Zenon DEF Unpacked
  <2> QED
    BY <1>0, <1>1, <2>2
<1>5. Packed!ReadTranscript(fs) = Chars(3 * q)
  <2>1. ~Packed!Unpack(fs, FALSE).failed => m = 3 * q
    BY <1>4, Zenon
  <2> QED
    BY <1>2, <1>3, <2>1, TranscriptIs, Zenon
<1>6. Packed!ReadLines(fs) = [i \in 1 .. q |-> Line(i)]
  BY <1>5, LinesAre, Zenon DEF Packed!ReadLines
<1> QED
  BY <1>2, <1>6, Zenon

\* The first line of a text that has one.
LEMMA FirstOfText ==
  ASSUME NEW fs, NEW c \in Nat, c >= 3, Packed!Unpack(fs, TRUE).text = Chars(c)
  PROVE  Packed!FirstLine(fs) = Line(1)
<1> DEFINE I == {k \in 1 .. Len(Chars(c)) : Chars(c)[k] = Packed!NL}
           end == IF I # {} THEN Packed!Min(I) ELSE 0
<1>1. /\ Len(Chars(c)) = c /\ \A k \in 1 .. c : Chars(c)[k] = Char(k)
      /\ \A l \in 0 .. c : SubSeq(Chars(c), 1, l) = Chars(l)
  BY CharsAre
<1>2. 3 \in I /\ \A k \in I : 3 <= k
  <2>1. 3 \in 1 .. c /\ 3 = 3 * 1
    OBVIOUS
  <2>2. Char(3) = Packed!NL
    BY <2>1, LineEnds
  <2>3. ASSUME NEW k \in I PROVE 3 <= k
    <3>1. k \in 1 .. c /\ Char(k) = Packed!NL
      BY <1>1
    <3>2. PICK j \in Nat : k = 3 * j
      <4>1. k \in Nat
        BY <3>1
      <4> QED
        BY <3>1, <4>1, LineEnds
    <3> QED
      BY <3>1, <3>2
  <2> QED
    BY <1>1, <2>1, <2>2, <2>3
<1>3. end = 3
  <2>1. \A x \in I : (\A y \in I : x <= y) => x = 3
    BY <1>1, <1>2
  <2> HIDE DEF I
  <2>2. Packed!Min(I) = 3
    BY <1>2, <2>1, Zenon DEF Packed!Min
  <2> QED
    BY <1>2, <2>2
<1>4. Packed!FirstLine(fs) = IF end = 0 THEN Chars(c) ELSE SubSeq(Chars(c), 1, end - 1)
  BY Zenon DEF Packed!FirstLine, Packed!SelectInSeq
<1> HIDE DEF end
<1>5. Packed!FirstLine(fs) = Chars(2)
  <2>1. end - 1 = 2 /\ end # 0 /\ 2 \in 0 .. c
    BY <1>3
  <2>2. SubSeq(Chars(c), 1, 2) = Chars(2)
    BY <1>1, <2>1
  <2> QED
    BY <1>4, <2>1, <2>2
<1>6. Chars(2) = <<1, 1>>
  <2>1. Char(3 * 0 + 1) = 0 + 1 /\ Char(3 * 0 + 2) = 0 + 1
    BY CharIs
  <2>2. Char(1) = 1 /\ Char(2) = 1
    BY <2>1
  <2>3. Chars(2) \in Seq(Nat) /\ Len(Chars(2)) = 2 /\ Chars(2)[1] = Char(1) /\ Chars(2)[2] = Char(2)
    <3>1. 2 \in Nat /\ 1 \in 1 .. 2 /\ 2 \in 1 .. 2
      OBVIOUS
    <3> QED
      BY <3>1, CharsAre, Zenon
  <2> QED
    BY <2>2, <2>3
<1> QED
  BY <1>5, <1>6 DEF Line

LEMMA ReadLinesType ==
  ASSUME NEW fs, NEW at, NEW w \in Nat, LogFits(fs, at, w)
  PROVE  Packed!ReadLines(fs) \in Seq(Seq(Nat))
<1>0. Len(fs) \in Nat
  BY DEF LogFits
<1>1. PICK h \in 0 .. Len(fs) : Whole(fs, h)
  BY <1>0, WholeFrames
<1>2. PICK m \in Nat : Unpacked(fs, at, h, m)
  BY <1>1, UnpackIs
<1>3. PICK q \in Nat : m \in (3 * q) .. (3 * q + 2) /\ Packed!ReadLines(fs) = [i \in 1 .. q |-> Line(i)]
  BY <1>1, <1>2, ReadLinesAre
<1>4. \A i \in Nat : Line(i) \in Seq(Nat)
  BY DEF Line
<1>5. Packed!ReadLines(fs) \in [1 .. q -> Seq(Nat)]
  BY <1>3, <1>4
<1> QED
  BY <1>5

LEMMA FirstAgrees ==
  ASSUME NEW at, NEW w \in Nat, LogFits(frames, at, w)
  PROVE  Packed!OnlyWholeLines /\ Packed!FirstLineAgrees
<1>0. Len(frames) \in Nat
  BY DEF LogFits
<1>1. PICK h \in 0 .. Len(frames) : Whole(frames, h)
  BY <1>0, WholeFrames
<1>2. PICK m \in Nat : Unpacked(frames, at, h, m)
  BY <1>1, UnpackIs
<1>3. PICK q \in Nat : m \in (3 * q) .. (3 * q + 2) /\ Packed!ReadLines(frames) = [i \in 1 .. q |-> Line(i)]
  BY <1>1, <1>2, ReadLinesAre
<1>4. Packed!OnlyWholeLines
  <2>1. \A j \in DOMAIN Packed!ReadLines(frames) : Packed!ReadLines(frames)[j] = <<j, j>>
    BY <1>3 DEF Line
  <2> QED
    BY <2>1, Zenon DEF Packed!OnlyWholeLines
<1>5. ASSUME Packed!ReadLines(frames) # <<>> PROVE Packed!FirstLine(frames) = Head(Packed!ReadLines(frames))
  <2>1. q >= 1
    <3>1. ASSUME q = 0 PROVE FALSE
      <4>1. [i \in 1 .. q |-> Line(i)] = <<>>
        BY <3>1
      <4> QED
        BY <1>3, <1>5, <4>1
    <3> QED
      BY <3>1
  <2>2. m >= 3
    BY <1>3, <2>1
  <2>3. Packed!Unpack(frames, FALSE).text = Chars(m)
    BY <1>2, Zenon DEF Unpacked
  <2>4. \E c \in Nat : c >= 3 /\ Packed!Unpack(frames, TRUE).text = Chars(c)
    BY <2>2, <2>3, FirstUnpacked
  <2>5. Packed!FirstLine(frames) = Line(1)
    BY <2>4, FirstOfText
  <2>6. Head(Packed!ReadLines(frames)) = Line(1)
    <3>1. 1 \in 1 .. q
      BY <2>1
    <3>2. Head([i \in 1 .. q |-> Line(i)]) = [i \in 1 .. q |-> Line(i)][1]
      BY <2>1
    <3>3. [i \in 1 .. q |-> Line(i)][1] = Line(1)
      BY <3>1
    <3> QED
      BY <1>3, <3>2, <3>3
  <2> QED
    BY <2>5, <2>6
<1>6. Packed!FirstLineAgrees
  BY <1>5, Zenon DEF Packed!FirstLineAgrees
<1> QED
  BY <1>4, <1>6

\* The frames that are whole, flattened.
LEMMA WholeText ==
  ASSUME NEW fs, NEW at, NEW w \in Nat, LogFits(fs, at, w), NEW h \in 0 .. Len(fs), Whole(fs, h)
  PROVE  Packed!FlattenSeq([i \in 1 .. h |-> Packed!FlattenSeq(fs[i].blocks)]) = Chars(3 * at[h])
<1> DEFINE s == [i \in 1 .. h |-> Packed!FlattenSeq(fs[i].blocks)]
<1>0. Len(fs) \in Nat /\ at[0] = 0 /\ at \in [Nat -> Nat]
  BY DEF LogFits
<1>1. h \in Nat /\ Len(s) = h
  BY <1>0
<1>2. ASSUME NEW i \in 1 .. h
      PROVE  s[i] \in Seq(Nat) /\ at[i - 1] \in Nat /\ Chars(3 * at[i - 1]) \o s[i] = Chars(3 * at[i])
  <2>1. i \in 1 .. Len(fs)
    BY <1>0
  <2>2. /\ at[i - 1] \in Nat /\ at[i] \in Nat /\ at[i] - at[i - 1] \in Nat
        /\ \E p \in 0 .. (3 * (at[i] - at[i - 1])) : Reads(fs[i], at[i - 1], at[i] - at[i - 1], p)
    BY <2>1, FrameAt
  <2>3. Good(fs[i])
    BY DEF Whole
  <2>4. /\ Packed!FlattenSeq(fs[i].blocks) \in Seq(Nat)
        /\ Chars(3 * at[i - 1]) \o Packed!FlattenSeq(fs[i].blocks) = Chars(3 * at[i - 1] + 3 * (at[i] - at[i - 1]))
    BY <2>2, <2>3, Zenon DEF Reads
  <2>5. 3 * at[i - 1] + 3 * (at[i] - at[i - 1]) = 3 * at[i]
    <3>1. \A a, b \in Nat : 3 * a + 3 * (b - a) = 3 * b
      OBVIOUS
    <3> QED
      BY <2>2, <3>1, Zenon
  <2>6. s[i] = Packed!FlattenSeq(fs[i].blocks)
    OBVIOUS
  <2> QED
    BY <2>2, <2>4, <2>5, <2>6, Zenon
<1>3. CASE h = 0
  <2>1. Packed!FlattenSeq(s) = s /\ s = <<>>
    <3>1. s = <<>>
      BY <1>3
    <3>2. Len(s) = 0
      BY <1>1, <1>3
    <3> HIDE DEF s
    <3> QED
      BY <3>1, <3>2, FlattenNone
  <2>2. Chars(3 * at[h]) = <<>>
    <3>1. 3 * at[h] = 0
      BY <1>0, <1>3
    <3>2. Chars(0) = <<>>
      BY DEF Chars
    <3> QED
      BY <3>1, <3>2, Zenon
  <2> HIDE DEF s
  <2>3. Packed!FlattenSeq(s) = Chars(3 * at[h])
    BY <2>1, <2>2
  <2> QED
    BY <2>3 DEF s
<1>4. CASE h # 0
  <2>1. s[1] = Chars(3 * at[1])
    <3>1. 1 \in 1 .. h /\ 1 - 1 = 0
      BY <1>1, <1>4
    <3>2. Chars(3 * at[0]) = <<>>
      BY <1>0 DEF Chars
    <3>3. s[1] \in Seq(Nat) /\ Chars(3 * at[0]) \o s[1] = Chars(3 * at[1])
      <4> HIDE DEF s
      <4> QED
        BY <1>2, <3>1
    <3> HIDE DEF s
    <3>4. <<>> \o s[1] = s[1]
      BY <3>3
    <3> QED
      BY <3>2, <3>3, <3>4
  <2> HIDE DEF s
  <2>2. \A i \in 1 .. h : Chars(3 * at[i - 1]) \o s[i] = Chars(3 * at[i])
    BY <1>2
  <2>3. Packed!FlattenSeq(s) = Chars(3 * at[h])
    BY <1>0, <1>1, <1>4, <2>1, <2>2, FlattenChars
  <2> QED
    BY <2>3 DEF s
<1> QED
  BY <1>3, <1>4

\* A text of q lines, and what follows of the next, has q line ends.
LEMMA CountEnds ==
  ASSUME NEW m \in Nat, NEW q \in Nat, m \in (3 * q) .. (3 * q + 2)
  PROVE  Cardinality({k \in DOMAIN Chars(m) : Chars(m)[k] = Packed!NL}) = q
<1> DEFINE E == {k \in DOMAIN Chars(m) : Chars(m)[k] = Packed!NL}
           f == [j \in 1 .. q |-> 3 * j]
<1>1. DOMAIN Chars(m) = 1 .. m /\ \A k \in 1 .. m : Chars(m)[k] = Char(k)
  BY CharsAre
<1>2. ASSUME NEW k \in E PROVE \E j \in 1 .. q : k = 3 * j
  <2>1. k \in 1 .. m /\ k \in Nat /\ Char(k) = Packed!NL
    BY <1>1
  <2>2. PICK j \in Nat : k = 3 * j
    BY <2>1, LineEnds
  <2> QED
    BY <2>1, <2>2
<1>3. ASSUME NEW j \in 1 .. q PROVE 3 * j \in E
  <2>1. 3 * j \in 1 .. m /\ 3 * j \in Nat /\ j \in Nat
    OBVIOUS
  <2>2. Char(3 * j) = Packed!NL
    BY <2>1, LineEnds
  <2> QED
    BY <1>1, <2>1, <2>2
<1> HIDE DEF E
<1>4. f \in Bijection(1 .. q, E)
  <2>1. f \in [1 .. q -> E] /\ \A j \in 1 .. q : f[j] = 3 * j
    BY <1>3
  <2>2. \A a, b \in 1 .. q : f[a] = f[b] => a = b
    OBVIOUS
  <2> HIDE DEF f
  <2>3. \A k \in E : \E j \in 1 .. q : f[j] = k
    BY <1>2, <2>1
  <2> QED
    BY <2>1, <2>2, <2>3 DEF Bijection, Injection, Surjection, IsInjective
<1>5. IsFiniteSet(1 .. q) /\ Cardinality(1 .. q) = q
  BY FS_Interval
<1> HIDE DEF f
<1>6. Cardinality(E) = q
  BY <1>4, <1>5, FS_Bijection DEF ExistsBijection
<1> QED
  BY <1>6 DEF E

LEMMA NothingLost ==
  ASSUME NEW at, NEW w \in Nat, LogFits(frames, at, w)
  PROVE  Packed!NothingFinishedIsLost
<1>0. Len(frames) \in Nat /\ \A i \in 0 .. Len(frames) : at[i] \in Nat
  BY DEF LogFits
<1>1. PICK h \in 0 .. Len(frames) : Whole(frames, h)
  BY <1>0, WholeFrames
<1>2. PICK m \in Nat : Unpacked(frames, at, h, m)
  BY <1>1, UnpackIs
<1>3. PICK q \in Nat : m \in (3 * q) .. (3 * q + 2) /\ Packed!ReadLines(frames) = [i \in 1 .. q |-> Line(i)]
  BY <1>1, <1>2, ReadLinesAre
<1> DEFINE good == {k \in 0 .. Len(frames) : \A i \in 1 .. k : frames[i].kind # "junk" /\ frames[i].sum = "right"}
           whole == CHOOSE k \in good : \A j \in good : j <= k
           sure == Packed!FlattenSeq([i \in 1 .. whole |-> Packed!FlattenSeq(frames[i].blocks)])
           torn == IF whole = Len(frames) THEN <<>>
                   ELSE LET f == frames[whole + 1]
                        IN  Packed!FlattenSeq([b \in {x \in 1 .. f.there : x < Len(f.blocks)} |-> f.blocks[b]])
           due == Cardinality({k \in DOMAIN (sure \o torn) : (sure \o torn)[k] = Packed!NL})
<1>4. h \in good /\ \A j \in good : j <= h
  <2>1. \A k \in 0 .. Len(frames) : k \in good <=> \A i \in 1 .. k : Good(frames[i])
    BY Zenon DEF Good
  <2>2. h \in good
    BY <1>1, <2>1, Zenon DEF Whole
  <2>3. ASSUME NEW j \in good, ~(j <= h) PROVE FALSE
    <3>1. j \in 0 .. Len(frames)
      OBVIOUS
    <3>2. h + 1 \in 1 .. j /\ h < Len(frames)
      BY <1>0, <2>3, <3>1
    <3>3. Good(frames[h + 1])
      BY <2>1, <2>3, <3>1, <3>2, Zenon
    <3> QED
      BY <1>1, <3>2, <3>3 DEF Whole
  <2> HIDE DEF good
  <2> QED
    BY <2>2, <2>3
<1>5. whole = h
  <2>1. good \subseteq 0 .. Len(frames)
    OBVIOUS
  <2> HIDE DEF good
  <2>2. \A k \in good : (\A j \in good : j <= k) => k = h
    BY <1>0, <1>4, <2>1
  <2> QED
    BY <1>4, <2>2, Zenon
<1> HIDE DEF whole, good
<1>6. sure = Chars(3 * at[h])
  BY <1>1, <1>5, WholeText
<1>7. sure \o torn = Chars(m)
  <2>1. CASE h = Len(frames)
    <3>1. torn = <<>>
      BY <1>5, <2>1
    <3>2. m = 3 * at[h]
      BY <1>2, <2>1, Zenon DEF Unpacked
    <3>3. Chars(m) \in Seq(Nat)
      BY CharsAre
    <3> HIDE DEF sure, torn
    <3>4. Chars(m) \o <<>> = Chars(m)
      BY <3>3
    <3> QED
      BY <1>6, <3>1, <3>2, <3>4, Zenon
  <2>2. CASE h # Len(frames)
    <3>1. h < Len(frames) /\ h + 1 \in 1 .. Len(frames) /\ h + 1 - 1 = h
      BY <1>0, <2>2
    <3>2. \E p \in 0 .. (3 * (at[h + 1] - at[h])) : Reads(frames[h + 1], at[h], at[h + 1] - at[h], p)
      BY <3>1, FrameAt
    <3>3. ~Good(frames[h + 1])
      BY <1>1, <3>1 DEF Whole
    <3> DEFINE f == frames[h + 1]
    <3>4. torn = Packed!FlattenSeq([b \in {x \in 1 .. f.there : x < Len(f.blocks)} |-> f.blocks[b]])
      BY <1>5, <2>2, Zenon
    <3>5. /\ torn = Packed!UnpackFrame(f).text
          /\ Chars(3 * at[h]) \o Packed!UnpackFrame(f).text = Chars(3 * at[h] + Len(Packed!UnpackFrame(f).text))
      BY <3>2, <3>3, <3>4, Zenon DEF Reads
    <3>6. m = 3 * at[h] + Len(Packed!UnpackFrame(f).text)
      BY <1>2, <3>1, Zenon DEF Unpacked
    <3> HIDE DEF sure, torn
    <3> QED
      BY <1>6, <3>5, <3>6, Zenon
  <2> QED
    BY <2>1, <2>2
<1>8. due = q
  <2> HIDE DEF sure, torn
  <2>1. due = Cardinality({k \in DOMAIN Chars(m) : Chars(m)[k] = Packed!NL})
    BY <1>7, Zenon
  <2> HIDE DEF due
  <2> QED
    BY <1>3, <2>1, CountEnds, Zenon
<1>9. Len(Packed!ReadLines(frames)) = q
  <2>1. Len([i \in 1 .. q |-> Line(i)]) = q
    OBVIOUS
  <2> QED
    BY <1>3, <2>1, Zenon
<1>10. Packed!NothingFinishedIsLost <=> Len(Packed!ReadLines(frames)) >= due
  BY Zenon DEF Packed!NothingFinishedIsLost, Packed!Cardinality, Cardinality, good, whole
<1> HIDE DEF due
<1> QED
  BY <1>8, <1>9, <1>10

\* Where no frame gives less, nothing less is read: each whole frame stays whole, holds the
\* same lines, and the others give as many characters as before.
Grows(fs, gs, at, to) ==
  /\ Len(fs) <= Len(gs) /\ \A i \in 0 .. Len(fs) : to[i] = at[i]
  /\ \A i \in 1 .. Len(fs) : /\ Good(fs[i]) => Good(gs[i])
                             /\ Len(Packed!UnpackFrame(fs[i]).text) <= Len(Packed!UnpackFrame(gs[i]).text)
LEMMA Upwards == \A m, n, a, b, c \in Nat : m <= 3 * a /\ b = a /\ b <= c /\ n >= 3 * c => m <= n
  OBVIOUS

LEMMA MoreIsRead ==
  ASSUME NEW fs, NEW at, NEW v \in Nat, LogFits(fs, at, v),
         NEW gs, NEW to, NEW w \in Nat, LogFits(gs, to, w), Grows(fs, gs, at, to)
  PROVE  Packed!IsPrefix(Packed!ReadLines(fs), Packed!ReadLines(gs))
<1>0. /\ Len(fs) \in Nat /\ Len(gs) \in Nat /\ Len(fs) <= Len(gs)
      /\ \A i \in 0 .. Len(fs) : at[i] \in Nat /\ to[i] = at[i]
      /\ \A i \in 0 .. Len(gs) : to[i] \in Nat
      /\ \A i, j \in 0 .. Len(gs) : i <= j => to[i] <= to[j]
  <2>1. /\ at \in [Nat -> Nat] /\ to \in [Nat -> Nat] /\ fs \in Seq(LogFrames) /\ gs \in Seq(LogFrames)
        /\ \A i, j \in 0 .. Len(gs) : i <= j => to[i] <= to[j]
    BY Zenon DEF LogFits
  <2>2. Len(fs) <= Len(gs) /\ \A i \in 0 .. Len(fs) : to[i] = at[i]
    BY Zenon DEF Grows
  <2>3. Len(fs) \in Nat /\ Len(gs) \in Nat
    <3>1. \A s \in Seq(LogFrames) : Len(s) \in Nat
      OBVIOUS
    <3> QED
      BY <2>1, <3>1, Zenon
  <2>4. (\A i \in 0 .. Len(fs) : at[i] \in Nat) /\ (\A i \in 0 .. Len(gs) : to[i] \in Nat)
    <3>1. \A l \in Nat : \A i \in 0 .. l : i \in Nat
      OBVIOUS
    <3>2. \A i \in Nat : at[i] \in Nat /\ to[i] \in Nat
      BY <2>1, Zenon
    <3> QED
      BY <2>3, <3>1, <3>2, Zenon
  <2> QED
    BY <2>1, <2>2, <2>3, <2>4, Zenon
<1>1. PICK h \in 0 .. Len(fs) : Whole(fs, h)
  BY <1>0, WholeFrames
<1>2. PICK k \in 0 .. Len(gs) : Whole(gs, k)
  BY <1>0, WholeFrames
<1>3. PICK m \in Nat : Unpacked(fs, at, h, m)
  BY <1>1, UnpackIs
<1>4. PICK n \in Nat : Unpacked(gs, to, k, n)
  BY <1>2, UnpackIs
<1>5. PICK q \in Nat : m \in (3 * q) .. (3 * q + 2) /\ Packed!ReadLines(fs) = [i \in 1 .. q |-> Line(i)]
  BY <1>1, <1>3, ReadLinesAre
<1>6. PICK r \in Nat : n \in (3 * r) .. (3 * r + 2) /\ Packed!ReadLines(gs) = [i \in 1 .. r |-> Line(i)]
  BY <1>2, <1>4, ReadLinesAre
<1>7. h <= k
  <2>1. SUFFICES ASSUME ~(h <= k) PROVE FALSE
    OBVIOUS
  <2>2. k < Len(gs) /\ k + 1 \in 1 .. h /\ k + 1 \in 1 .. Len(fs)
    BY <1>0, <2>1
  <2>3. Good(fs[k + 1])
    BY <1>1, <2>2, Zenon DEF Whole
  <2>4. Good(gs[k + 1])
    BY <2>2, <2>3, Zenon DEF Grows
  <2> QED
    BY <1>2, <2>2, <2>4, Zenon DEF Whole
<1>8. n >= 3 * to[k]
  <2>1. CASE k = Len(gs)
    <3>1. n = 3 * to[k]
      BY <1>4, <2>1, Zenon DEF Unpacked
    <3> QED
      BY <1>0, <3>1
  <2>2. CASE k < Len(gs)
    <3>1. n = 3 * to[k] + Len(Packed!UnpackFrame(gs[k + 1]).text)
      BY <1>4, <2>2, Zenon DEF Unpacked
    <3>2. Len(Packed!UnpackFrame(gs[k + 1]).text) \in Nat
      <4>1. k + 1 \in 1 .. Len(gs)
        BY <1>0, <2>2
      <4>2. \E a, b, p : Reads(gs[k + 1], a, b, p) /\ p \in Nat
        <5>1. \E p \in 0 .. (3 * (to[k + 1] - to[k + 1 - 1])) :
                Reads(gs[k + 1], to[k + 1 - 1], to[k + 1] - to[k + 1 - 1], p)
          BY <4>1, FrameAt
        <5>2. PICK p \in 0 .. (3 * (to[k + 1] - to[k + 1 - 1])) :
                Reads(gs[k + 1], to[k + 1 - 1], to[k + 1] - to[k + 1 - 1], p)
          BY <5>1
        <5>3. p \in Nat
          OBVIOUS
        <5> QED
          BY <5>2, <5>3
      <4> QED
        BY <4>2, Zenon DEF Reads
    <3>3. \A a, b \in Nat : 3 * a + b >= 3 * a
      OBVIOUS
    <3>4. to[k] \in Nat
      BY <1>0
    <3> QED
      BY <3>1, <3>2, <3>3, <3>4, Zenon
  <2>3. k = Len(gs) \/ k < Len(gs)
    BY <1>0
  <2> QED
    BY <2>1, <2>2, <2>3, Zenon
<1>9. m <= n
  <2>1. CASE h = Len(fs)
    <3>1. m <= 3 * at[h]
      <4>1. m = 3 * at[h]
        BY <1>3, <2>1, Zenon DEF Unpacked
      <4> QED
        BY <1>0, <4>1
    <3>2. to[h] <= to[k] /\ to[h] = at[h] /\ to[k] \in Nat /\ at[h] \in Nat
      <4>1. h \in 0 .. Len(gs) /\ h <= k
        BY <1>0, <1>7
      <4> QED
        BY <1>0, <4>1, Zenon
    <3> QED
      BY <1>8, <3>1, <3>2, Upwards, Zenon
  <2>2. CASE h < Len(fs) /\ h < k
    <3>1. m <= 3 * at[h + 1]
      BY <1>3, <2>2, Zenon DEF Unpacked
    <3>2. to[h + 1] <= to[k] /\ to[h + 1] = at[h + 1] /\ to[k] \in Nat /\ at[h + 1] \in Nat
      <4>1. h + 1 \in 0 .. Len(fs) /\ h + 1 \in 0 .. Len(gs) /\ h + 1 <= k
        BY <1>0, <2>2
      <4> QED
        BY <1>0, <4>1, Zenon
    <3> QED
      BY <1>8, <3>1, <3>2, Upwards, Zenon
  <2>3. CASE h < Len(fs) /\ h = k
    <3>1. m = 3 * at[h] + Len(Packed!UnpackFrame(fs[h + 1]).text)
      BY <1>3, <2>3, Zenon DEF Unpacked
    <3>2. k < Len(gs) /\ h + 1 \in 1 .. Len(fs) /\ at[h] \in Nat /\ to[h] = at[h]
      BY <1>0, <2>3
    <3>3. n = 3 * to[k] + Len(Packed!UnpackFrame(gs[k + 1]).text)
      BY <1>4, <3>2, Zenon DEF Unpacked
    <3> DEFINE a == Len(Packed!UnpackFrame(fs[h + 1]).text)
               b == Len(Packed!UnpackFrame(gs[h + 1]).text)
    <3>4. a <= b
      BY <3>2, Zenon DEF Grows
    <3>5. m = 3 * at[h] + a /\ n = 3 * at[h] + b
      BY <2>3, <3>1, <3>2, <3>3
    <3> HIDE DEF a, b
    <3>6. a \in Int /\ b \in Int
      <4>1. a \in Nat /\ b \in Nat
        <5>1. PICK p \in 0 .. (3 * (at[h + 1] - at[h + 1 - 1])) :
                Reads(fs[h + 1], at[h + 1 - 1], at[h + 1] - at[h + 1 - 1], p)
          BY <3>2, FrameAt
        <5>2. h + 1 \in 1 .. Len(gs)
          BY <1>0, <3>2
        <5>3. PICK r1 \in 0 .. (3 * (to[h + 1] - to[h + 1 - 1])) :
                Reads(gs[h + 1], to[h + 1 - 1], to[h + 1] - to[h + 1 - 1], r1)
          BY <5>2, FrameAt
        <5>4. a = p /\ b = r1
          BY <5>1, <5>3, Zenon DEF Reads, a, b
        <5> QED
          BY <5>4
      <4> QED
        BY <4>1
    <3>7. \A c \in Nat : \A x, y \in Int : x <= y => 3 * c + x <= 3 * c + y
      OBVIOUS
    <3> QED
      BY <3>2, <3>4, <3>5, <3>6, <3>7, Zenon
  <2> QED
    BY <1>0, <1>7, <2>1, <2>2, <2>3
<1>10. q <= r
  BY <1>5, <1>6, <1>9
<1>11. Packed!IsPrefix([i \in 1 .. q |-> Line(i)], [i \in 1 .. r |-> Line(i)])
  <2> DEFINE s == [i \in 1 .. q |-> Line(i)]
             t == [i \in 1 .. r |-> Line(i)]
  <2>1. \A i \in Nat : Line(i) \in Seq(Nat)
    BY DEF Line
  <2>2. s \in Seq(Seq(Nat)) /\ Len(s) = q /\ t \in Seq(Seq(Nat)) /\ Len(t) = r
    <3>1. \A l \in Nat : [i \in 1 .. l |-> Line(i)] \in Seq(Seq(Nat)) /\ Len([i \in 1 .. l |-> Line(i)]) = l
      <4> TAKE l \in Nat
      <4>1. [i \in 1 .. l |-> Line(i)] \in [1 .. l -> Seq(Nat)]
        BY <2>1
      <4> DEFINE u == [i \in 1 .. l |-> Line(i)]
      <4> HIDE DEF u
      <4>2. u \in [1 .. l -> Seq(Nat)]
        BY <4>1 DEF u
      <4>3. u \in Seq(Seq(Nat)) /\ Len(u) = l
        BY <4>2
      <4> QED
        BY <4>3 DEF u
    <3> QED
      BY <3>1, Zenon
  <2>3. \A i \in 1 .. q : s[i] = Line(i) /\ t[i] = Line(i)
    BY <1>10
  <2> HIDE DEF s, t
  <2>4. SubSeq(s, 1, q) = SubSeq(t, 1, q)
    <3>1. SubSeq(s, 1, q) = [i \in 1 .. q |-> s[i]] /\ SubSeq(t, 1, q) = [i \in 1 .. q |-> t[i]]
      BY <1>10, <2>2
    <3>2. [i \in 1 .. q |-> s[i]] = [i \in 1 .. q |-> t[i]]
      BY <2>3
    <3> QED
      BY <3>1, <3>2
  <2>5. Packed!IsPrefix(s, t)
    BY <1>10, <2>2, <2>4 DEF Packed!IsPrefix
  <2> QED
    BY <2>5 DEF s, t
<1> QED
  BY <1>5, <1>6, <1>11

-----------------------------------------------------------------------------
(* A log as it grows.                                                      *)

LogInv ==
  /\ Len(frames) <= MaxFrames /\ written \in Nat /\ written <= Len(frames) * MaxFrameLines
  /\ \E at \in [Nat -> Nat] : LogFits(frames, at, written)

LEMMA AppendFrame ==
  ASSUME NEW fs, NEW at \in [Nat -> Nat], NEW v \in Nat, LogFits(fs, at, v), \A i \in 1 .. Len(fs) : fs[i].sum # "none",
         NEW n \in Nat, NEW f \in LogFrames, Fits(f, v, n)
  PROVE  \E to \in [Nat -> Nat] : LogFits(Append(fs, f), to, v + n) /\ Grows(fs, Append(fs, f), at, to)
<1> DEFINE L == Len(fs)
           gs == Append(fs, f)
           to == [at EXCEPT ![L + 1] = v + n]
<1>0. /\ fs \in Seq(LogFrames) /\ at[0] = 0 /\ at[L] = v
      /\ \A i, j \in 0 .. L : i <= j => at[i] <= at[j]
      /\ \A i \in 1 .. L : Fits(fs[i], at[i - 1], at[i] - at[i - 1])
  BY Zenon DEF LogFits
<1>1. L \in Nat
  <2>1. \A s \in Seq(LogFrames) : Len(s) \in Nat
    OBVIOUS
  <2> QED
    BY <1>0, <2>1, Zenon
<1>2. gs \in Seq(LogFrames) /\ Len(gs) = L + 1 /\ gs[L + 1] = f /\ \A i \in 1 .. L : gs[i] = fs[i]
  <2>1. \A s \in Seq(LogFrames) : \A g \in LogFrames :
          Append(s, g) \in Seq(LogFrames) /\ Len(Append(s, g)) = Len(s) + 1 /\ Append(s, g)[Len(s) + 1] = g
    OBVIOUS
  <2>2. \A i \in 1 .. L : gs[i] = fs[i]
    BY <1>0, <1>1
  <2> QED
    BY <1>0, <2>1, <2>2, Zenon
<1> HIDE DEF gs
<1>3. to \in [Nat -> Nat] /\ to[L + 1] = v + n /\ \A i \in 0 .. L : to[i] = at[i]
  <2> HIDE DEF L
  <2> QED
    BY SMTT(60), <1>1
<1> HIDE DEF to
<1>4. ASSUME NEW i \in 0 .. (L + 1), NEW j \in 0 .. (L + 1), i <= j PROVE to[i] <= to[j]
  <2>1. CASE j <= L
    <3>1. i \in 0 .. L /\ j \in 0 .. L
      BY <1>1, <1>4, <2>1
    <3> QED
      BY <1>0, <1>3, <1>4, <3>1, Zenon
  <2>2. CASE j = L + 1 /\ i <= L
    <3>1. i \in 0 .. L /\ L \in 0 .. L /\ i <= L
      BY <1>1, <2>2
    <3>2. at[i] <= v /\ to[i] = at[i] /\ at[i] \in Nat
      <4>1. i \in Nat
        BY <3>1
      <4> QED
        BY <1>0, <1>3, <3>1, <4>1
    <3>3. to[j] = v + n
      BY <1>3, <2>2
    <3> QED
      BY <3>2, <3>3
  <2>3. CASE j = L + 1 /\ i = L + 1
    <3>1. to[i] \in Nat /\ to[j] = to[i]
      BY <1>3, <2>3
    <3>2. \A x \in Nat : x <= x
      OBVIOUS
    <3> QED
      BY <3>1, <3>2, Zenon
  <2>4. j <= L \/ (j = L + 1 /\ i <= L) \/ (j = L + 1 /\ i = L + 1)
    <3> HIDE DEF L
    <3> QED
      BY <1>1, <1>4
  <2> QED
    BY <2>1, <2>2, <2>3, <2>4, Zenon
<1>5. ASSUME NEW i \in 1 .. (L + 1) PROVE Fits(gs[i], to[i - 1], to[i] - to[i - 1])
  <2>1. CASE i \in 1 .. L
    <3>1. i - 1 \in 0 .. L /\ i \in 0 .. L
      <4> HIDE DEF L
      <4> QED
        BY <1>1, <2>1
    <3> QED
      BY <1>0, <1>2, <1>3, <2>1, <3>1, Zenon
  <2>2. CASE i = L + 1
    <3>1. i - 1 = L /\ L \in 0 .. L
      BY <1>1, <2>2
    <3>2. to[i - 1] = v /\ to[i] = v + n /\ v + n - v = n /\ gs[i] = f
      BY <1>0, <1>2, <1>3, <2>2, <3>1
    <3> QED
      BY <3>2
  <2>3. i \in 1 .. L \/ i = L + 1
    <3> HIDE DEF L
    <3> QED
      BY <1>1
  <2> QED
    BY <2>1, <2>2, <2>3, Zenon
<1>6. ASSUME NEW i \in 1 .. (L + 1), gs[i].sum = "none" PROVE i = L + 1
  <2>1. i \notin 1 .. L
    BY <1>2, <1>6, Zenon
  <2> HIDE DEF L
  <2> QED
    BY <1>1, <2>1
<1>7. to[0] = 0
  <2>1. 0 \in 0 .. L
    BY <1>1
  <2> QED
    BY <1>0, <1>3, <2>1, Zenon
<1>8. LogFits(gs, to, v + n)
  BY <1>2, <1>3, <1>4, <1>5, <1>6, <1>7, Zenon DEF LogFits
<1>9. Grows(fs, gs, at, to)
  <2>1. ASSUME NEW i \in 1 .. L
        PROVE  Len(Packed!UnpackFrame(fs[i]).text) <= Len(Packed!UnpackFrame(gs[i]).text)
    <3>1. \E p \in 0 .. (3 * (at[i] - at[i - 1])) : Reads(fs[i], at[i - 1], at[i] - at[i - 1], p)
      BY FrameAt
    <3>2. PICK p \in 0 .. (3 * (at[i] - at[i - 1])) : Reads(fs[i], at[i - 1], at[i] - at[i - 1], p)
      BY <3>1
    <3>3. Len(Packed!UnpackFrame(fs[i]).text) = p /\ p <= p
      <4>1. p <= p
        OBVIOUS
      <4> QED
        BY <3>2, <4>1, Zenon DEF Reads
    <3>4. gs[i] = fs[i]
      BY <1>2
    <3> QED
      BY <3>3, <3>4, Zenon
  <2>2. L <= Len(gs)
    BY <1>1, <1>2
  <2> QED
    BY <1>2, <1>3, <2>1, <2>2, Zenon DEF Grows
<1> QED
  BY <1>3, <1>8, <1>9, Zenon DEF gs

LEMMA ChangeLast ==
  ASSUME NEW fs, NEW at \in [Nat -> Nat], NEW v \in Nat, LogFits(fs, at, v), fs # <<>>, fs[Len(fs)].sum = "none",
         NEW f \in LogFrames, Fits(f, at[Len(fs) - 1], at[Len(fs)] - at[Len(fs) - 1]),
         Len(Packed!UnpackFrame(fs[Len(fs)]).text) <= Len(Packed!UnpackFrame(f).text)
  PROVE  LogFits([fs EXCEPT ![Len(fs)] = f], at, v) /\ Grows(fs, [fs EXCEPT ![Len(fs)] = f], at, at)
<1> DEFINE L == Len(fs)
           gs == [fs EXCEPT ![L] = f]
<1>0. /\ fs \in Seq(LogFrames) /\ at[0] = 0 /\ at[L] = v
      /\ \A i, j \in 0 .. L : i <= j => at[i] <= at[j]
      /\ \A i \in 1 .. L : Fits(fs[i], at[i - 1], at[i] - at[i - 1])
      /\ \A i \in 1 .. L : fs[i].sum = "none" => i = L
  BY Zenon DEF LogFits
<1>1. L \in Nat /\ L \in 1 .. L
  <2>1. Len(fs) \in Nat /\ Len(fs) > 0
    <3>1. Len(fs) \in Nat \ {0}
      BY <1>0, EmptySeq, Zenon
    <3> QED
      BY <3>1
  <2>2. \A l \in Nat : l > 0 => l \in 1 .. l
    OBVIOUS
  <2> QED
    BY <1>0, <2>1, <2>2, Zenon
<1>2. gs \in Seq(LogFrames) /\ Len(gs) = L /\ gs[L] = f /\ \A i \in 1 .. L : i # L => gs[i] = fs[i]
  <2>1. fs \in [1 .. L -> LogFrames]
    BY <1>0, <1>1
  <2>2. gs \in [1 .. L -> LogFrames] /\ gs[L] = f /\ \A i \in 1 .. L : i # L => gs[i] = fs[i]
    BY <1>1, <2>1
  <2> HIDE DEF gs, L
  <2>3. gs \in Seq(LogFrames) /\ Len(gs) = L
    BY <1>1, <2>2
  <2> QED
    BY <2>2, <2>3, Zenon
<1> HIDE DEF gs
<1>3. ASSUME NEW i \in 1 .. L PROVE Fits(gs[i], at[i - 1], at[i] - at[i - 1])
  <2>1. CASE i = L
    BY <1>2, <2>1
  <2>2. CASE i # L
    BY <1>0, <1>2, <2>2, Zenon
  <2> QED
    BY <2>1, <2>2
<1>4. ASSUME NEW i \in 1 .. L, gs[i].sum = "none" PROVE i = L
  BY <1>0, <1>2, <1>4, Zenon
<1>5. LogFits(gs, at, v)
  BY <1>0, <1>2, <1>3, <1>4, Zenon DEF LogFits
<1>6. Grows(fs, gs, at, at)
  <2>1. ASSUME NEW i \in 1 .. L
        PROVE  /\ Good(fs[i]) => Good(gs[i])
               /\ Len(Packed!UnpackFrame(fs[i]).text) <= Len(Packed!UnpackFrame(gs[i]).text)
    <3>1. CASE i = L
      <4>1. ~Good(fs[i])
        BY <3>1 DEF Good
      <4> QED
        BY <1>2, <3>1, <4>1
    <3>2. CASE i # L
      <4>1. PICK p \in 0 .. (3 * (at[i] - at[i - 1])) : Reads(fs[i], at[i - 1], at[i] - at[i - 1], p)
        BY FrameAt
      <4>2. p <= p
        OBVIOUS
      <4>3. Len(Packed!UnpackFrame(fs[i]).text) <= Len(Packed!UnpackFrame(fs[i]).text)
        BY <4>1, <4>2, Zenon DEF Reads
      <4>4. gs[i] = fs[i]
        BY <1>2, <3>2, Zenon
      <4> QED
        BY <4>3, <4>4, Zenon
    <3> QED
      BY <3>1, <3>2
  <2>2. L <= Len(gs) /\ \A i \in 0 .. L : at[i] = at[i]
    BY <1>1, <1>2
  <2> QED
    BY <2>1, <2>2, Zenon DEF Grows
<1> QED
  BY <1>5, <1>6, Zenon DEF gs

\* A frame being written gives no less as more of it is there, and no less when it is sealed.
LEMMA FrameGrows ==
  ASSUME NEW b \in Nat, NEW n \in Nat, NEW f \in LogFrames, Fits(f, b, n), f.sum = "none", NEW g \in LogFrames, Fits(g, b, n),
         g.kind = f.kind, g.blocks = f.blocks,
         \/ g.sum = "none" /\ f.there < Len(f.blocks) /\ g.there = f.there + 1
         \/ g.sum # "none" /\ g.there = f.there
  PROVE  Len(Packed!UnpackFrame(f).text) <= Len(Packed!UnpackFrame(g).text)
<1> DEFINE w(t) == IF t = Len(f.blocks) THEN t - 1 ELSE t
           whole(t) == Packed!FlattenSeq(SubSeq(f.blocks, 1, w(t)))
<1>0. f.kind = "data"
  BY Zenon DEF Fits
<1>1. PICK p \in 0 .. (3 * n) : Reads(f, b, n, p)
  BY FrameReads
<1>2. PICK r \in 0 .. (3 * n) : Reads(g, b, n, r)
  BY FrameReads
<1>3. Len(Packed!UnpackFrame(f).text) = p /\ Len(Packed!UnpackFrame(g).text) = r
  BY <1>1, <1>2, Zenon DEF Reads
<1>4. Packed!UnpackFrame(f).text = whole(f.there)
  <2>1. f.kind # "skip" /\ f.kind # "junk" /\ f.sum # "right"
    BY <1>0
  <2>2. Packed!UnpackFrame(f) = [text |-> Packed!WholeBlocks(f), failed |-> TRUE]
    BY <2>1 DEF Packed!UnpackFrame
  <2>3. Packed!WholeBlocks(f) = whole(f.there)
    BY Zenon DEF Packed!WholeBlocks
  <2> HIDE DEF whole
  <2>4. Packed!UnpackFrame(f).text = Packed!WholeBlocks(f)
    BY <2>2
  <2> QED
    BY <2>3, <2>4, Zenon
<1>5. CASE g.sum = "right"
  <2>1. Good(g)
    BY <1>0, <1>5 DEF Good
  <2>2. r = 3 * n /\ p <= 3 * n
    BY <1>2, <2>1 DEF Reads
  <2> QED
    BY <1>3, <2>2
<1>6. CASE g.sum # "right"
  <2>1. Packed!UnpackFrame(g).text = whole(g.there)
    <3>1. g.kind # "skip" /\ g.kind # "junk" /\ g.sum # "right"
      BY <1>0, <1>6
    <3>2. Packed!UnpackFrame(g) = [text |-> Packed!WholeBlocks(g), failed |-> TRUE]
      BY <3>1 DEF Packed!UnpackFrame
    <3>3. Packed!WholeBlocks(g) = whole(g.there)
      BY Zenon DEF Packed!WholeBlocks
    <3> HIDE DEF whole
    <3>4. Packed!UnpackFrame(g).text = Packed!WholeBlocks(g)
      BY <3>2
    <3> QED
      BY <3>3, <3>4, Zenon
  <2>2. f.there \in 0 .. Len(f.blocks) /\ Len(f.blocks) \in {1, 2}
    <3>1. f.blocks \in Packed!Pieces(Packed!Text(b, n)) /\ f.there \in 0 .. Len(f.blocks)
      BY <1>0, Zenon DEF Fits
    <3> QED
      BY <3>1, PiecesAre
  <2>3. w(f.there) = 0 \/ w(f.there) = w(g.there)
    <3>1. CASE g.there = f.there
      BY <3>1
    <3>2. CASE f.there < Len(f.blocks) /\ g.there = f.there + 1
      <4>1. \A l \in {1, 2} : \A t \in 0 .. l : t < l => t = 0 \/ (t = 1 /\ l = 2)
        OBVIOUS
      <4>2. f.there = 0 \/ (f.there = 1 /\ Len(f.blocks) = 2)
        BY <2>2, <3>2, <4>1, Zenon
      <4>3. CASE f.there = 0
        <5>1. f.there # Len(f.blocks)
          BY <3>2, <4>3
        <5> QED
          BY <4>3, <5>1
      <4>4. CASE f.there = 1 /\ Len(f.blocks) = 2
        <5>1. w(f.there) = 1 /\ w(g.there) = 1
          <6>1. g.there = 2
            BY <3>2, <4>4
          <6> QED
            BY <4>4, <6>1
        <5> HIDE DEF w
        <5> QED
          BY <5>1, Zenon
      <4> HIDE DEF w
      <4> QED
        BY <4>2, <4>3, <4>4, Zenon
    <3> QED
      BY <3>1, <3>2
  <2>4. CASE w(f.there) = 0
    <3>1. SubSeq(f.blocks, 1, 0) = <<>>
      <4>1. f.blocks \in Seq(Seq(Nat))
        BY DEF LogFrames
      <4> QED
        BY <4>1
    <3>2. whole(f.there) = <<>>
      <4>1. Packed!FlattenSeq(<<>>) = <<>>
        <5>1. Len(<<>>) = 0
          OBVIOUS
        <5> QED
          BY <5>1, FlattenNone
      <4> HIDE DEF w
      <4> QED
        BY <2>4, <3>1, <4>1, Zenon
    <3>3. p = 0
      <4>1. Len(<<>>) = 0
        OBVIOUS
      <4> HIDE DEF whole
      <4> QED
        BY <1>3, <1>4, <3>2, <4>1, Zenon
    <3> QED
      BY <1>3, <3>3
  <2>5. CASE w(f.there) = w(g.there)
    <3>1. whole(f.there) = whole(g.there)
      <4> HIDE DEF w
      <4> QED
        BY <2>5, Zenon
    <3>2. p = r /\ r <= r
      <4>1. r <= r
        OBVIOUS
      <4> HIDE DEF whole
      <4> QED
        BY <1>3, <1>4, <2>1, <3>1, <4>1, Zenon
    <3> QED
      BY <1>3, <3>2, Zenon
  <2> QED
    BY <2>3, <2>4, <2>5, Zenon
<1> QED
  BY <1>5, <1>6

LEMMA Constants == MaxFrames \in Nat /\ MaxFrameLines \in Nat
  BY ImportsAssumption DEF ImportsAssumption, Packed!LogAssumption

\* Frames appended, n lines at most.
LEMMA Appended ==
  ASSUME LogInv, ~Packed!Writing, Len(frames) < MaxFrames, NEW n \in 0 .. MaxFrameLines, NEW f \in LogFrames, Fits(f, written, n),
         frames' = Append(frames, f), written' = written + n
  PROVE  LogInv' /\ Packed!NeverLess
<1>1. PICK at \in [Nat -> Nat] : LogFits(frames, at, written)
  BY Zenon DEF LogInv
<1>2. /\ written \in Nat /\ written <= Len(frames) * MaxFrameLines /\ n \in Nat /\ n <= MaxFrameLines
      /\ MaxFrames \in Nat /\ MaxFrameLines \in Nat
  BY Constants DEF LogInv
<1>3. frames \in Seq(LogFrames) /\ \A i \in 1 .. Len(frames) : frames[i].sum = "none" => i = Len(frames)
  BY <1>1, Zenon DEF LogFits
<1>4. Len(frames) \in Nat
  BY <1>3, LenProperties
<1>5. ASSUME NEW i \in 1 .. Len(frames) PROVE frames[i].sum # "none"
  <2>1. SUFFICES ASSUME frames[i].sum = "none" PROVE FALSE
    OBVIOUS
  <2>2. i = Len(frames)
    BY <1>3, <2>1, Zenon
  <2>3. frames # <<>>
    <3>1. SUFFICES ASSUME frames = <<>> PROVE FALSE
      OBVIOUS
    <3>2. Len(<<>>) = 0 /\ \A k \in 1 .. 0 : FALSE
      OBVIOUS
    <3> QED
      BY <3>1, <3>2, Zenon
  <2> QED
    BY <2>1, <2>2, <2>3 DEF Packed!Writing, Packed!Last
<1>6. PICK to \in [Nat -> Nat] : LogFits(Append(frames, f), to, written + n) /\ Grows(frames, Append(frames, f), at, to)
  BY <1>1, <1>2, <1>5, AppendFrame
<1>7. LogInv'
  <2>1. LogFits(frames', to, written')
    BY <1>6
  <2>2. Len(frames') = Len(frames) + 1
    BY <1>3
  <2>3. Len(frames') <= MaxFrames
    BY <1>2, <1>4, <2>2
  <2>4. written' \in Nat /\ written' <= Len(frames') * MaxFrameLines
    <3>1. \A l, k, v, m \in Nat : v <= l * k /\ m <= k => v + m \in Nat /\ v + m <= (l + 1) * k
      <4> TAKE l, k, v, m \in Nat
      <4>1. (l + 1) * k = l * k + k
        OBVIOUS
      <4>2. l * k \in Nat
        OBVIOUS
      <4> QED
        BY <4>1, <4>2
    <3> QED
      BY <1>2, <1>4, <2>2, <3>1, Zenon
  <2> QED
    BY <2>1, <2>3, <2>4, Zenon DEF LogInv
<1>8. Packed!NeverLess
  <2>1. written + n \in Nat
    BY <1>2
  <2>2. Packed!IsPrefix(Packed!ReadLines(frames), Packed!ReadLines(Append(frames, f)))
    BY <1>1, <1>2, <1>6, <2>1, MoreIsRead
  <2> QED
    BY <2>2, Zenon DEF Packed!NeverLess
<1> QED
  BY <1>7, <1>8

\* The last frame, being written, gets further.
LEMMA Changed ==
  ASSUME LogInv, Packed!Writing, NEW f, f.kind = frames[Len(frames)].kind, f.blocks = frames[Len(frames)].blocks, f \in LogFrames,
         \/ /\ f.sum = "none" /\ frames[Len(frames)].there < Len(f.blocks)
            /\ f.there = frames[Len(frames)].there + 1
         \/ /\ f.sum # "none" /\ frames[Len(frames)].there = Len(f.blocks)
            /\ f.there = frames[Len(frames)].there,
         frames' = [frames EXCEPT ![Len(frames)] = f], written' = written
  PROVE  LogInv' /\ Packed!NeverLess
<1> DEFINE L == Len(frames)
           e == frames[L]
<1>1. PICK at \in [Nat -> Nat] : LogFits(frames, at, written)
  BY Zenon DEF LogInv
<1>2. written \in Nat /\ written <= Len(frames) * MaxFrameLines /\ Len(frames) <= MaxFrames
  BY Zenon DEF LogInv
<1>3. frames # <<>> /\ e.sum = "none"
  BY Zenon DEF Packed!Writing, Packed!Last
<1>4. frames \in Seq(LogFrames)
  BY <1>1, Zenon DEF LogFits
<1>5. L \in 1 .. L /\ L \in Nat
  <2>1. L \in Nat \ {0}
    BY <1>3, <1>4, EmptySeq, Zenon
  <2> HIDE DEF L
  <2> QED
    BY <2>1
<1> DEFINE b == at[L - 1]
           n == at[L] - at[L - 1]
<1>6. b \in Nat /\ n \in Nat
  BY <1>1, <1>2, <1>5, FrameAt
<1>7. Fits(e, b, n)
  BY <1>1, <1>5, Zenon DEF LogFits
<1>8. e \in LogFrames
  <2>1. frames \in [1 .. L -> LogFrames]
    BY <1>4, LenProperties
  <2> QED
    BY <1>5, <2>1
<1>9. e.kind = "data" /\ f.blocks \in Packed!Pieces(Packed!Text(b, n)) /\ e.there \in 0 .. Len(f.blocks)
  <2>1. e.kind = "data"
    BY <1>3, <1>7 DEF Fits
  <2> QED
    BY <1>7, <2>1, Zenon DEF Fits
<1> HIDE DEF b, n, e
<1>10. Fits(f, b, n)
  <2>1. f.there \in 0 .. Len(f.blocks) /\ (f.sum # "none" => f.there = Len(f.blocks))
    <3>1. Len(f.blocks) \in {1, 2}
      BY <1>6, <1>9, PiecesAre
    <3>2. CASE f.sum = "none"
      <4>1. e.there < Len(f.blocks) /\ f.there = e.there + 1
        BY <3>2 DEF e
      <4>2. \A l \in {1, 2} : \A t \in 0 .. l : t < l => t + 1 \in 0 .. l
        OBVIOUS
      <4>3. f.there \in 0 .. Len(f.blocks)
        BY <1>9, <3>1, <4>1, <4>2, Zenon
      <4> QED
        BY <3>2, <4>3, Zenon
    <3>3. CASE f.sum # "none"
      <4>1. e.there = Len(f.blocks) /\ f.there = e.there
        BY <3>3 DEF e
      <4> QED
        BY <1>9, <3>1, <3>3, <4>1
    <3> QED
      BY <3>2, <3>3
  <2>2. f.kind = "data"
    BY <1>9 DEF e
  <2> QED
    BY <1>9, <2>1, <2>2, Zenon DEF Fits
<1>11. Len(Packed!UnpackFrame(e).text) <= Len(Packed!UnpackFrame(f).text)
  <2>1. \/ f.sum = "none" /\ e.there < Len(e.blocks) /\ f.there = e.there + 1
        \/ f.sum # "none" /\ f.there = e.there
    BY Zenon DEF e
  <2>2. f.kind = e.kind /\ f.blocks = e.blocks
    BY Zenon DEF e
  <2> QED
    BY <1>3, <1>6, <1>7, <1>8, <1>10, <2>1, <2>2, FrameGrows, Zenon
<1>12. LogFits([frames EXCEPT ![Len(frames)] = f], at, written) /\ Grows(frames, [frames EXCEPT ![Len(frames)] = f], at, at)
  BY <1>1, <1>2, <1>3, <1>10, <1>11, ChangeLast, Zenon DEF b, n, e
<1>13. LogInv'
  <2>1. LogFits(frames', at, written')
    BY <1>12
  <2>2. Len(frames') = Len(frames)
    <3>1. frames \in [1 .. L -> LogFrames]
      BY <1>4, LenProperties
    <3>2. frames' \in [1 .. L -> LogFrames]
      BY <1>5, <3>1
    <3> HIDE DEF L
    <3>3. Len(frames') = L
      BY <1>5, <3>2
    <3> QED
      BY <3>3 DEF L
  <2> QED
    BY <1>2, <2>1, <2>2, Zenon DEF LogInv
<1>14. Packed!NeverLess
  <2>1. Packed!IsPrefix(Packed!ReadLines(frames), Packed!ReadLines([frames EXCEPT ![Len(frames)] = f]))
    BY <1>1, <1>2, <1>12, MoreIsRead, Zenon
  <2> QED
    BY <2>1, Zenon DEF Packed!NeverLess
<1> QED
  BY <1>13, <1>14

LEMMA LastFrame == ASSUME LogInv, Packed!Writing PROVE frames[Len(frames)] \in LogFrames
<1>1. frames \in Seq(LogFrames)
  BY Zenon DEF LogInv, LogFits
<1>2. frames # <<>>
  BY Zenon DEF Packed!Writing
<1>3. Len(frames) \in Nat \ {0}
  BY <1>1, <1>2, EmptySeq, Zenon
<1>4. frames \in [1 .. Len(frames) -> LogFrames] /\ Len(frames) \in 1 .. Len(frames)
  BY <1>1, <1>3, LenProperties
<1> QED
  BY <1>4

LEMMA LogStep == ASSUME LogInv, Packed!Next PROVE LogInv' /\ Packed!NeverLess
<1>0. MaxFrames \in Nat /\ MaxFrameLines \in Nat /\ written \in Nat
  BY Constants, Zenon DEF LogInv
<1>1. ASSUME NEW n \in 1 .. MaxFrameLines, Packed!Begin(n) PROVE LogInv' /\ Packed!NeverLess
  <2>1. /\ ~Packed!Writing /\ Len(frames) < MaxFrames /\ written' = written + n
        /\ \E blocks \in Packed!Pieces(Packed!Text(written, n)) :
             frames' = Append(frames, Packed!Frame("data", blocks, "none"))
    BY <1>1, Zenon DEF Packed!Begin
  <2>2. PICK blocks \in Packed!Pieces(Packed!Text(written, n)) :
          frames' = Append(frames, Packed!Frame("data", blocks, "none"))
    BY <2>1
  <2> DEFINE f == Packed!Frame("data", blocks, "none")
  <2>3. n \in 0 .. MaxFrameLines /\ n \in Nat
    BY <1>0
  <2>4. blocks \in Seq(Seq(Nat)) /\ Len(blocks) \in {1, 2}
    BY <1>0, <2>3, PiecesAre
  <2>5. f.kind = "data" /\ f.blocks = blocks /\ f.there = 0 /\ f.sum = "none" /\ f \in LogFrames
    BY <2>4 DEF Packed!Frame, LogFrames
  <2>6. 0 \in 0 .. Len(blocks)
    BY <2>4
  <2> HIDE DEF f
  <2>7. Fits(f, written, n)
    BY <2>5, <2>6, Zenon DEF Fits
  <2>8. frames' = Append(frames, f)
    BY <2>2 DEF f
  <2> QED
    BY <2>1, <2>3, <2>5, <2>7, <2>8, Appended, Zenon
<1>2. ASSUME Packed!Block PROVE LogInv' /\ Packed!NeverLess
  <2> DEFINE e == frames[Len(frames)]
             f == [e EXCEPT !.there = e.there + 1]
  <2>1. /\ Packed!Writing /\ e.there < Len(e.blocks) /\ e.sum = "none" /\ written' = written
        /\ frames' = [frames EXCEPT ![Len(frames)] = f]
    BY <1>2, Zenon DEF Packed!Block, Packed!Writing, Packed!Last
  <2>2. e \in LogFrames
    BY <2>1, LastFrame
  <2>3. /\ f.kind = e.kind /\ f.blocks = e.blocks /\ f.sum = e.sum /\ f.there = e.there + 1 /\ f \in LogFrames
    <3> HIDE DEF e
    <3>1. e.there + 1 \in Nat
      <4>1. e.there \in Nat
        BY <2>2 DEF LogFrames
      <4> QED
        BY <4>1
    <3>2. f \in LogFrames
      BY <2>2, <3>1 DEF LogFrames
    <3>3. f.kind = e.kind /\ f.blocks = e.blocks /\ f.sum = e.sum
      BY <2>2 DEF LogFrames
    <3>4. f.there = e.there + 1
      BY <2>2 DEF LogFrames
    <3> QED
      BY <3>2, <3>3, <3>4
  <2> HIDE DEF f
  <2> QED
    BY <2>1, <2>3, Changed, Zenon
<1>3. ASSUME NEW sum \in {"right", "wrong"}, Packed!Seal(sum) PROVE LogInv' /\ Packed!NeverLess
  <2> DEFINE e == frames[Len(frames)]
             f == [e EXCEPT !.sum = sum]
  <2>1. /\ Packed!Writing /\ e.there = Len(e.blocks) /\ written' = written
        /\ frames' = [frames EXCEPT ![Len(frames)] = f]
    BY <1>3, Zenon DEF Packed!Seal, Packed!Last
  <2>2. e \in LogFrames
    BY <2>1, LastFrame
  <2>3. /\ f.kind = e.kind /\ f.blocks = e.blocks /\ f.sum = sum /\ f.there = e.there /\ f \in LogFrames
    BY <2>2 DEF LogFrames
  <2>4. f.sum # "none"
    BY <2>3
  <2> HIDE DEF f
  <2> QED
    BY <2>1, <2>3, <2>4, Changed, Zenon
<1>4. ASSUME NEW kind \in {"skip", "junk"}, Packed!Other(kind) PROVE LogInv' /\ Packed!NeverLess
  <2> DEFINE f == Packed!Frame(kind, <<>>, "right")
  <2>1. ~Packed!Writing /\ Len(frames) < MaxFrames /\ frames' = Append(frames, f) /\ written' = written
    BY <1>4, Zenon DEF Packed!Other
  <2>2. f.kind = kind /\ f.blocks = <<>> /\ f.there = 0 /\ f.sum = "right" /\ f \in LogFrames
    BY DEF Packed!Frame, LogFrames
  <2>3. f.kind # "data"
    BY <2>2
  <2> HIDE DEF f
  <2>4. Fits(f, written, 0)
    BY <2>2, <2>3, Zenon DEF Fits
  <2>5. written' = written + 0 /\ 0 \in 0 .. MaxFrameLines
    BY <1>0, <2>1
  <2> QED
    BY <2>1, <2>2, <2>4, <2>5, Appended, Zenon
<1> QED
  BY <1>1, <1>2, <1>3, <1>4, Zenon DEF Packed!Next

\* What LogInv says is what a reader is promised.
LEMMA LogPromise ==
  ASSUME LogInv
  PROVE  Packed!LogTypeOK /\ Packed!OnlyWholeLines /\ Packed!NothingFinishedIsLost /\ Packed!FirstLineAgrees
<1>1. PICK at \in [Nat -> Nat] : LogFits(frames, at, written)
  BY Zenon DEF LogInv
<1>2. written \in Nat /\ written <= Len(frames) * MaxFrameLines /\ Len(frames) <= MaxFrames
  BY Zenon DEF LogInv
<1>3. frames \in Seq(LogFrames) /\ \A i \in 1 .. Len(frames) : Fits(frames[i], at[i - 1], at[i] - at[i - 1])
  BY <1>1, Zenon DEF LogFits
<1>4. Len(frames) \in Nat /\ DOMAIN frames = 1 .. Len(frames) /\ frames \in [1 .. Len(frames) -> LogFrames]
  BY <1>3, LenProperties, Zenon
<1>5. written \in 0 .. (MaxFrames * MaxFrameLines)
  <2>1. \A l, x, k, v \in Nat : l <= x /\ v <= l * k => v \in 0 .. (x * k)
    <3> TAKE l, x, k, v \in Nat
    <3>1. l <= x => l * k <= x * k
      OBVIOUS
    <3>2. l * k \in Nat /\ x * k \in Nat
      OBVIOUS
    <3> QED
      BY <3>1, <3>2
  <2> QED
    BY <1>2, <1>4, <2>1, Constants, Zenon
<1>6. ASSUME NEW i \in DOMAIN frames
      PROVE  frames[i].there \in 0 .. Len(frames[i].blocks) /\ frames[i].sum \in {"none", "right", "wrong"}
  <2>1. i \in 1 .. Len(frames) /\ frames[i] \in LogFrames
    BY <1>4
  <2>2. frames[i].sum \in {"none", "right", "wrong"}
    BY <2>1 DEF LogFrames
  <2>3. CASE frames[i].kind = "data"
    BY <1>3, <2>1, <2>2, <2>3, Zenon DEF Fits
  <2>4. CASE frames[i].kind # "data"
    <3>1. frames[i].there = 0 /\ frames[i].blocks = <<>>
      BY <1>3, <2>1, <2>4, Zenon DEF Fits
    <3>2. 0 \in 0 .. Len(<<>>)
      OBVIOUS
    <3> QED
      BY <2>2, <3>1, <3>2, Zenon
  <2> QED
    BY <2>3, <2>4
<1>7. Packed!LogTypeOK
  BY <1>2, <1>5, <1>6, Zenon DEF Packed!LogTypeOK
<1> QED
  BY <1>1, <1>2, <1>7, FirstAgrees, NothingLost, Zenon

\* The log is its own: no other behaviour writes it.
LEMMA LogInitially == Init => LogInv
<1> SUFFICES ASSUME Init PROVE LogInv
  OBVIOUS
<1>1. frames = <<>> /\ written = 0
  <2>1. Packed!Init
    BY DEF Init
  <2> QED
    BY <2>1, Zenon DEF Packed!Init
<1> DEFINE at == [i \in Nat |-> 0]
<1>2. at \in [Nat -> Nat] /\ LogFits(<<>>, at, 0)
  BY DEF LogFits
<1>3. Len(<<>>) <= MaxFrames /\ 0 \in Nat /\ 0 <= Len(<<>>) * MaxFrameLines
  BY Constants
<1> HIDE DEF at
<1> QED
  BY <1>1, <1>2, <1>3, Zenon DEF LogInv

LEMMA LogSteps == LogInv /\ [Next]_vars => LogInv' /\ (Is("compressed log") => Packed!NeverLess)
<1> SUFFICES ASSUME LogInv, [Next]_vars PROVE LogInv' /\ Packed!NeverLess
  OBVIOUS
<1>1. Packed!Next \/ (frames' = frames /\ written' = written)
  BY Zenon DEF Next, ImportNext, CheckNext, LogNext, PiNext, NestedNext, importVars, packedVars, vars
<1>2. CASE frames' = frames /\ written' = written
  <2>1. LogInv'
    BY <1>2, Zenon DEF LogInv
  <2>2. Packed!NeverLess
    <3>1. PICK at \in [Nat -> Nat] : LogFits(frames, at, written)
      BY Zenon DEF LogInv
    <3>2. Packed!ReadLines(frames) \in Seq(Seq(Nat))
      BY <3>1, ReadLinesType DEF LogInv
    <3>3. Packed!IsPrefix(Packed!ReadLines(frames), Packed!ReadLines(frames))
      <4>1. \A s \in Seq(Seq(Nat)) : Len(s) <= Len(s)
        OBVIOUS
      <4> QED
        BY <3>2, <4>1, Zenon DEF Packed!IsPrefix
    <3> QED
      BY <1>2, <3>3, Zenon DEF Packed!NeverLess
  <2> QED
    BY <2>1, <2>2
<1> QED
  BY <1>1, <1>2, LogStep

\* Wherever a compressed log ends or is damaged, whole lines are read of it, none of those
\* that were finished is lost, and its first line is the same read alone: for any number of
\* frames and of lines in each (discover.rs, read_transcript and first_line).
THEOREM LinesReadWhole == Spec => []WholeLinesRead
<1>1. LogInv => WholeLinesRead
  BY LogPromise, Zenon DEF WholeLinesRead
<1> QED
  BY <1>1, LogInitially, LogSteps, PTL DEF Spec

\* The longer a log grows the more is read of it: no line once read is taken back, by a
\* crash or by damage to what is written after it.
THEOREM LinesNeverTakenBack == Spec => [][Is("compressed log") => Packed!NeverLess]_vars
  BY LogInitially, LogSteps, PTL DEF Spec

-----------------------------------------------------------------------------
(* Dates (Calendar), of any year.  An era has centuries, fours of years and *)
(* years, which here begin in March.  Sets are named, so that a step that   *)
(* is about them and not about their numbers does not see those.            *)

EraYears == 0 .. 399
Centuries == 0 .. 3
FourYears == 0 .. 24
YearDays == 0 .. 365
FourYearDays == 0 .. 1460
Months == 1 .. 12
MonthDays == 1 .. 31

LEMMA Over4 == ASSUME NEW a \in Int, NEW c \in Int, 4 * c <= a, a < 4 * c + 4 PROVE a \div 4 = c
  OBVIOUS
LEMMA Over100 == ASSUME NEW a \in Int, NEW c \in Int, 100 * c <= a, a < 100 * c + 100 PROVE a \div 100 = c
  OBVIOUS

\* Year y of an era is year r of the q-th four years of century c, and day e is that year's
\* day d, from March.
YearIs(y, c, q, r) == y = 100 * c + 4 * q + r
DayIs(e, c, q, r, d) ==
  /\ e = 36524 * c + 1461 * q + 365 * r + d
  /\ d = 365 => r = 3 /\ (q = 24 => c = 3)
Rest(e, c, u) == e = 36524 * c + u /\ 0 <= u /\ u <= 100 * 365 + 24 /\ (u = 100 * 365 + 24 => c = 3)
Left(u, q, v) == u = 1461 * q + v
InEra(e) == e \in Int /\ 0 <= e /\ e <= 400 * 365 + 96

LEMMA YearParts == ASSUME NEW y \in EraYears
  PROVE \E c \in Centuries, q \in FourYears, r \in Centuries : YearIs(y, c, q, r)
<1>1. PICK c \in Centuries, z \in 0 .. 99 : y = 100 * c + z
  <2>1. y \div 100 \in 0 .. 3 /\ y - 100 * (y \div 100) \in 0 .. 99
    BY DEF EraYears
  <2> QED
    BY <2>1 DEF EraYears, Centuries
<1>2. PICK q \in FourYears, r \in Centuries : z = 4 * q + r
  <2>1. z \div 4 \in 0 .. 24 /\ z - 4 * (z \div 4) \in 0 .. 3
    OBVIOUS
  <2> QED
    BY <2>1 DEF FourYears, Centuries
<1>3. YearIs(y, c, q, r)
  BY <1>1, <1>2 DEF YearIs, Centuries, FourYears
<1> QED
  BY <1>3, Zenon

LEMMA YearStarts ==
  ASSUME NEW c \in Centuries, NEW q \in FourYears, NEW r \in Centuries, NEW y, YearIs(y, c, q, r)
  PROVE  /\ Dates!DaysBefore(y) = 36524 * c + 1461 * q + 365 * r
         /\ Dates!Leap(y + 1) <=> r = 3 /\ (q = 24 => c = 3)
<1>1. y \in Int /\ y \div 100 = c
  BY Over100 DEF YearIs, Centuries, FourYears
<1>2. y \div 4 = 25 * c + q
  BY Over4 DEF YearIs, Centuries, FourYears
<1>3. Dates!DaysBefore(y) = 36524 * c + 1461 * q + 365 * r
  BY <1>1, <1>2 DEF Dates!DaysBefore, YearIs, Centuries, FourYears
<1>4. (y + 1) % 4 = 0 <=> r = 3
  BY DEF YearIs, Centuries, FourYears
<1>5. (y + 1) % 100 = 0 <=> q = 24 /\ r = 3
  BY DEF YearIs, Centuries, FourYears
<1>6. (y + 1) % 400 = 0 <=> q = 24 /\ r = 3 /\ c = 3
  BY DEF YearIs, Centuries, FourYears
<1> QED
  BY <1>3, <1>4, <1>5, <1>6 DEF Dates!Leap

LEMMA DayInYear ==
  ASSUME NEW c \in Centuries, NEW q \in FourYears, NEW r \in Centuries, NEW y, YearIs(y, c, q, r),
         NEW d \in YearDays
  PROVE  (d = 365 => Dates!Leap(y + 1)) <=> DayIs(Dates!DaysBefore(y) + d, c, q, r, d)
  BY YearStarts DEF DayIs, Centuries, FourYears, YearDays

LEMMA YearBack ==
  ASSUME NEW c \in Centuries, NEW q \in FourYears, NEW r \in Centuries, NEW d \in YearDays, NEW e, DayIs(e, c, q, r, d)
  PROVE  InEra(e) /\ YearIs(Dates!YearOfEra(e), c, q, r)
<1>1. InEra(e)
  BY DEF DayIs, InEra, Centuries, FourYears, YearDays
<1>2. Dates!YearOfEra(e) = 100 * c + 4 * q + r
  BY SMTT(60) DEF DayIs, Dates!YearOfEra, Centuries, FourYears, YearDays
<1> QED
  BY <1>1, <1>2 DEF YearIs

LEMMA YearOf ==
  ASSUME NEW y \in EraYears, NEW d \in YearDays, d = 365 => Dates!Leap(y + 1), NEW e, e = Dates!DaysBefore(y) + d
  PROVE  InEra(e) /\ Dates!YearOfEra(e) = y
<1>1. PICK c \in Centuries, q \in FourYears, r \in Centuries : YearIs(y, c, q, r)
  BY YearParts, Zenon
<1>2. InEra(e) /\ YearIs(Dates!YearOfEra(e), c, q, r)
  BY <1>1, DayInYear, YearBack, Zenon
<1> QED
  BY <1>1, <1>2 DEF YearIs, EraYears, Centuries, FourYears

LEMMA EraParts ==
  ASSUME NEW e, InEra(e)
  PROVE  \E c \in Centuries, q \in FourYears, r \in Centuries, d \in YearDays : DayIs(e, c, q, r, d)
<1>1. \E c \in Centuries, u \in Int : Rest(e, c, u)
  <2>1. PICK c \in Centuries :
          36524 * c <= e /\ e <= 36524 * c + 100 * 365 + 24 /\ (e = 36524 * c + 100 * 365 + 24 => c = 3)
    BY DEF InEra, Centuries
  <2>2. PICK u \in Int : u = e - 36524 * c
    BY DEF InEra, Centuries
  <2>3. Rest(e, c, u)
    BY <2>1, <2>2 DEF Rest, InEra, Centuries
  <2> QED
    BY <2>3, Zenon
<1>2. PICK c \in Centuries, u \in Int : Rest(e, c, u)
  BY <1>1, Zenon
<1>3. PICK q \in FourYears, v \in FourYearDays : Left(u, q, v)
  <2>1. PICK q \in FourYears : 1461 * q <= u /\ u <= 1461 * q + 4 * 365
    BY <1>2 DEF Rest, FourYears, FourYearDays
  <2>2. PICK v \in FourYearDays : v = u - 1461 * q
    BY <1>2, <2>1 DEF Rest, FourYears, FourYearDays
  <2>3. Left(u, q, v)
    BY <1>2, <2>1, <2>2 DEF Rest, Left, FourYears, FourYearDays
  <2> QED
    BY <2>3, Zenon
<1>4. PICK r \in Centuries, d \in YearDays : v = 365 * r + d /\ (d = 365 => r = 3)
  <2>1. CASE v = 1460
    <3>1. v = 365 * 3 + 365
      BY <2>1
    <3> QED
      BY <3>1 DEF Centuries, YearDays, FourYearDays
  <2>2. CASE v # 1460
    <3>1. v \div 365 \in 0 .. 3 /\ v - 365 * (v \div 365) \in 0 .. 364
      BY <2>2 DEF FourYearDays
    <3> QED
      BY <3>1 DEF Centuries, YearDays, FourYearDays
  <2> QED
    BY <2>1, <2>2
<1>5. DayIs(e, c, q, r, d)
  BY <1>2, <1>3, <1>4 DEF DayIs, Rest, Left, Centuries, FourYears, YearDays, FourYearDays
<1> QED
  BY <1>5, Zenon

LEMMA EraDays == ASSUME NEW e, InEra(e)
  PROVE \E y \in EraYears, d \in YearDays : e = Dates!DaysBefore(y) + d /\ (d = 365 => Dates!Leap(y + 1))
<1>1. PICK c \in Centuries, q \in FourYears, r \in Centuries, d \in YearDays : DayIs(e, c, q, r, d)
  BY EraParts, Zenon
<1>2. PICK y \in EraYears : YearIs(y, c, q, r)
  BY DEF YearIs, EraYears, Centuries, FourYears, Centuries, FourYears
<1>3. e = Dates!DaysBefore(y) + d
  BY <1>1, <1>2, YearStarts DEF DayIs, Centuries, FourYears, YearDays
<1>4. d = 365 => Dates!Leap(y + 1)
  BY <1>1, <1>2, <1>3, DayInYear, Zenon
<1> QED
  BY <1>3, <1>4, Zenon

-----------------------------------------------------------------------------
(* The arithmetic of the calendar.                                         *)

Length(m, long) ==
  CASE m \in {1, 3, 5, 7, 8, 10, 12} -> 31 [] m \in {4, 6, 9, 11} -> 30
    [] m = 2 -> IF long THEN 29 ELSE 28 [] OTHER -> 0

LEMMA LengthIs == ASSUME NEW y, NEW m PROVE Dates!MonthLength(y, m) = Length(m, Dates!Leap(y))
  BY DEF Dates!MonthLength, Length

LEMMA LeapIs == ASSUME NEW y PROVE Dates!Leap(y) \in BOOLEAN
  BY DEF Dates!Leap

LEMMA FromMonth ==
  ASSUME NEW m \in Months, NEW d \in MonthDays, NEW long \in BOOLEAN, d <= Length(m, long)
  PROVE  /\ Dates!DayOfYear(m, d) \in YearDays /\ (Dates!DayOfYear(m, d) = 365 => long)
         /\ Dates!IndexAt(Dates!DayOfYear(m, d)) = Dates!MonthIndex(m)
         /\ Dates!MonthAt(Dates!DayOfYear(m, d)) = m /\ Dates!DayAt(Dates!DayOfYear(m, d)) = d
<1>1. /\ Dates!DayOfYear(m, d) \in YearDays /\ (Dates!DayOfYear(m, d) = 365 => long)
      /\ Dates!IndexAt(Dates!DayOfYear(m, d)) = Dates!MonthIndex(m)
  BY DEF Dates!DayOfYear, Dates!IndexAt, Dates!MonthIndex, Length, Months, MonthDays, YearDays
<1>2. Dates!MonthAt(Dates!DayOfYear(m, d)) = m
  BY <1>1 DEF Dates!MonthAt, Dates!MonthIndex, Months
<1>3. Dates!DayAt(Dates!DayOfYear(m, d)) = d
  <2>1. Dates!MonthIndex(m) \in 0 .. 11
    BY DEF Dates!MonthIndex, Months
  <2> QED
    BY <1>1, <2>1 DEF Dates!DayAt, Dates!DayOfYear, MonthDays
<1> QED
  BY <1>1, <1>2, <1>3

LEMMA ToMonth ==
  ASSUME NEW n \in YearDays, NEW long \in BOOLEAN, n = 365 => long
  PROVE  /\ Dates!MonthAt(n) \in Months /\ Dates!DayAt(n) \in MonthDays /\ Dates!DayAt(n) <= Length(Dates!MonthAt(n), long)
         /\ Dates!DayOfYear(Dates!MonthAt(n), Dates!DayAt(n)) = n
<1>1. PICK i \in 0 .. 11 : i = Dates!IndexAt(n)
  BY DEF Dates!IndexAt, YearDays
<1>2. /\ Dates!MonthAt(n) \in Months /\ Dates!DayAt(n) \in MonthDays /\ Dates!MonthIndex(Dates!MonthAt(n)) = i
      /\ Dates!DayAt(n) <= Length(Dates!MonthAt(n), long)
  BY <1>1 DEF Dates!IndexAt, Dates!MonthAt, Dates!DayAt, Dates!MonthIndex, Length, Months, MonthDays, YearDays
<1>3. Dates!DayOfYear(Dates!MonthAt(n), Dates!DayAt(n)) = n
  BY <1>1, <1>2 DEF Dates!DayOfYear, Dates!DayAt, YearDays
<1> QED
  BY <1>2, <1>3

\* 400 years on, the same years are leap years.
LEMMA LeapInEra == ASSUME NEW k \in Int, NEW y \in EraYears PROVE Dates!Leap(400 * k + y + 1) <=> Dates!Leap(y + 1)
  BY DEF Dates!Leap, EraYears

\* The day a year from March begins on.
YearAt(year, k, y) == year = k * 400 + y
Before(k, y) == k * Dates!Era + Dates!DaysBefore(y)

LEMMA Numbers == Dates!Era \in Int /\ Dates!March0 \in Int /\ \A y \in Int : Dates!DaysBefore(y) \in Int
  BY DEF Dates!Era, Dates!March0, Dates!DaysBefore

LEMMA Eras == ASSUME NEW k \in Int, NEW e, InEra(e) PROVE (k * Dates!Era + e) % Dates!Era = e /\ (k * Dates!Era + e) \div Dates!Era = k
  BY DEF Dates!Era, InEra

LEMMA DaysAre ==
  ASSUME NEW k \in Int, NEW y \in EraYears, NEW m, NEW d,
         NEW year, YearAt(year, k, y), NEW civil, civil - Dates!If(m <= 2) = year
  PROVE  Dates!DaysFromCivil(civil, m, d) = Before(k, y) + Dates!DayOfYear(m, d) - Dates!March0
<1>1. year \div 400 = k /\ year % 400 = y
  BY DEF EraYears, YearAt
<1>2. Dates!DaysFromCivil(civil, m, d) = (year \div 400) * Dates!Era + Dates!DaysBefore(year % 400) + Dates!DayOfYear(m, d) - Dates!March0
  BY DEF Dates!DaysFromCivil
<1>3. (year \div 400) * Dates!Era = k * Dates!Era /\ Dates!DaysBefore(year % 400) = Dates!DaysBefore(y)
  BY <1>1
<1> QED
  BY <1>2, <1>3 DEF Before

LEMMA CivilIs ==
  ASSUME NEW k \in Int, NEW y \in EraYears, NEW n \in YearDays, n = 365 => Dates!Leap(y + 1)
  PROVE  Dates!CivilFromDays(Before(k, y) + n - Dates!March0) =
           Dates!Date(k * 400 + y + Dates!If(Dates!MonthAt(n) <= 2), Dates!MonthAt(n), Dates!DayAt(n))
<1>1. PICK e \in Int : e = Dates!DaysBefore(y) + n
  BY Numbers DEF EraYears, YearDays
<1>2. InEra(e) /\ Dates!YearOfEra(e) = y
  BY <1>1, YearOf, Zenon
<1>3. PICK days \in Int : days = Before(k, y) + n - Dates!March0 /\ days + Dates!March0 = k * Dates!Era + e
  <2>1. k * Dates!Era \in Int /\ Dates!DaysBefore(y) \in Int /\ n \in Int /\ Dates!March0 \in Int
    BY Numbers DEF EraYears, YearDays
  <2> QED
    BY <1>1, <2>1 DEF Before
<1>4. (days + Dates!March0) % Dates!Era = e /\ (days + Dates!March0) \div Dates!Era = k
  BY <1>2, <1>3, Eras, Zenon
<1>5. e - Dates!DaysBefore(y) = n
  BY <1>1, Numbers DEF EraYears, YearDays
<1>6. Dates!CivilFromDays(days) = Dates!Date(k * 400 + y + Dates!If(Dates!MonthAt(n) <= 2), Dates!MonthAt(n), Dates!DayAt(n))
  BY <1>2, <1>4, <1>5 DEF Dates!CivilFromDays
<1> QED
  BY <1>3, <1>6

LEMMA EraOf == ASSUME NEW year \in Int PROVE \E k \in Int, y \in EraYears : YearAt(year, k, y)
<1>1. year \div 400 \in Int /\ year % 400 \in 0 .. 399 /\ year = (year \div 400) * 400 + (year % 400)
  OBVIOUS
<1> QED
  BY <1>1 DEF YearAt, EraYears

LEMMA LeapAt ==
  ASSUME NEW k \in Int, NEW y \in EraYears, NEW year, YearAt(year, k, y)
  PROVE  year \in Int /\ (Dates!Leap(year + 1) <=> Dates!Leap(y + 1))
  BY DEF Dates!Leap, YearAt, EraYears

LEMMA LastDay == Dates!MonthAt(365) = 2
  BY DEF Dates!MonthAt, Dates!IndexAt

LEMMA AllDays == ASSUME NEW k \in Int, NEW y \in EraYears, NEW n \in YearDays PROVE Before(k, y) \in Int /\ n \in Int
  BY Numbers DEF Before, EraYears, YearDays

DaysOf(t) == Dates!DaysFromCivil(t.year, t.month, t.day)

IsDated(t) ==
  /\ t = Dates!Date(t.year, t.month, t.day) /\ t.year \in Int /\ t.month \in Months /\ t.day \in MonthDays
  /\ t.day <= Dates!MonthLength(t.year, t.month)

LEMMA IsDatedIs == ASSUME NEW t PROVE Dates!IsDate(t) <=> IsDated(t)
  BY DEF Dates!IsDate, IsDated, Dates!Date, Months, MonthDays

\* Where a date is: in a year from March, and in its era.
LEMMA DateIs ==
  ASSUME NEW t, IsDated(t)
  PROVE  \E k \in Int, y \in EraYears, n \in YearDays :
           /\ n = Dates!DayOfYear(t.month, t.day) /\ YearAt(t.year - Dates!If(t.month <= 2), k, y)
           /\ n = 365 => Dates!Leap(y + 1)
           /\ Dates!MonthAt(n) = t.month /\ Dates!DayAt(n) = t.day /\ Dates!IndexAt(n) = Dates!MonthIndex(t.month)
           /\ DaysOf(t) = Before(k, y) + n - Dates!March0
<1> DEFINE n == Dates!DayOfYear(t.month, t.day)
           year == t.year - Dates!If(t.month <= 2)
<1>1. /\ t.month \in Months /\ t.day \in MonthDays /\ t.year \in Int /\ Dates!Leap(t.year) \in BOOLEAN
      /\ t.day <= Length(t.month, Dates!Leap(t.year))
  BY LengthIs, LeapIs DEF IsDated
<1>2. /\ n \in YearDays /\ (n = 365 => Dates!Leap(t.year))
      /\ Dates!IndexAt(n) = Dates!MonthIndex(t.month) /\ Dates!MonthAt(n) = t.month /\ Dates!DayAt(n) = t.day
  BY <1>1, FromMonth
<1>3. year \in Int
  BY <1>1 DEF Dates!If
<1>4. PICK k \in Int, y \in EraYears : YearAt(year, k, y)
  BY <1>3, EraOf, Zenon
<1>5. n = 365 => Dates!Leap(y + 1)
  <2>1. SUFFICES ASSUME n = 365 PROVE Dates!Leap(y + 1)
    OBVIOUS
  <2>2. t.month = 2
    BY <1>2, <2>1, LastDay
  <2>3. t.year = year + 1
    BY <1>1, <2>2 DEF Dates!If
  <2> HIDE DEF n, year
  <2> QED
    BY <1>2, <1>4, <2>1, <2>3, LeapAt
<1>6. DaysOf(t) = Before(k, y) + n - Dates!March0
  BY <1>4, DaysAre DEF DaysOf
<1> QED
  BY <1>2, <1>4, <1>5, <1>6, Zenon

\* From a date to its day and back.
LEMMA CivilOfDays == ASSUME NEW t, IsDated(t) PROVE DaysOf(t) \in Int /\ Dates!CivilFromDays(DaysOf(t)) = t
<1>1. PICK k \in Int, y \in EraYears, n \in YearDays :
         /\ n = Dates!DayOfYear(t.month, t.day) /\ YearAt(t.year - Dates!If(t.month <= 2), k, y)
         /\ n = 365 => Dates!Leap(y + 1)
         /\ Dates!MonthAt(n) = t.month /\ Dates!DayAt(n) = t.day /\ Dates!IndexAt(n) = Dates!MonthIndex(t.month)
         /\ DaysOf(t) = Before(k, y) + n - Dates!March0
  BY DateIs, Zenon
<1>2. DaysOf(t) \in Int
  BY <1>1, AllDays, Numbers
<1>3. Dates!CivilFromDays(DaysOf(t)) = Dates!Date(k * 400 + y + Dates!If(t.month <= 2), t.month, t.day)
  BY <1>1, CivilIs
<1>4. k * 400 + y + Dates!If(t.month <= 2) = t.year
  BY <1>1 DEF YearAt, Dates!If, IsDated, EraYears
<1>5. t = Dates!Date(t.year, t.month, t.day)
  BY DEF IsDated
<1> QED
  BY <1>2, <1>3, <1>4, <1>5

\* From a day to its date and back.
LEMMA DaysOfCivil == ASSUME NEW days \in Int PROVE IsDated(Dates!CivilFromDays(days)) /\ DaysOf(Dates!CivilFromDays(days)) = days
<1>1. PICK k \in Int, e \in Int : InEra(e) /\ days + Dates!March0 = k * Dates!Era + e
  <2>1. PICK number \in Int : number = days + Dates!March0
    BY Numbers
  <2>2. /\ number \div Dates!Era \in Int /\ InEra(number % Dates!Era)
        /\ number = (number \div Dates!Era) * Dates!Era + (number % Dates!Era)
    BY DEF Dates!Era, InEra
  <2> QED
    BY <2>1, <2>2 DEF InEra
<1>2. PICK y \in EraYears, n \in YearDays : e = Dates!DaysBefore(y) + n /\ (n = 365 => Dates!Leap(y + 1))
  BY <1>1, EraDays
<1>3. days = Before(k, y) + n - Dates!March0
  <2>1. k * Dates!Era \in Int /\ Dates!DaysBefore(y) \in Int /\ n \in Int /\ Dates!March0 \in Int
    BY Numbers DEF EraYears, YearDays
  <2> QED
    BY <1>1, <1>2, <2>1 DEF Before
<1>4. PICK year \in Int : YearAt(year, k, y)
  BY DEF YearAt, EraYears
<1> DEFINE t == Dates!Date(year + Dates!If(Dates!MonthAt(n) <= 2), Dates!MonthAt(n), Dates!DayAt(n))
<1>5. Dates!CivilFromDays(days) = t
  BY <1>2, <1>3, <1>4, CivilIs DEF YearAt
<1>6. /\ t.year = year + Dates!If(Dates!MonthAt(n) <= 2) /\ t.month = Dates!MonthAt(n) /\ t.day = Dates!DayAt(n)
      /\ t = Dates!Date(t.year, t.month, t.day)
  BY DEF Dates!Date
<1> HIDE DEF t
<1>7. t.year \in Int /\ Dates!Leap(t.year) \in BOOLEAN /\ t.year - Dates!If(t.month <= 2) = year
  BY <1>6, LeapIs DEF Dates!If
<1>8. n = 365 => Dates!Leap(t.year)
  <2>1. SUFFICES ASSUME n = 365 PROVE Dates!Leap(t.year)
    OBVIOUS
  <2>2. t.year = year + 1
    BY <1>6, <2>1, LastDay DEF Dates!If
  <2> QED
    BY <1>2, <1>4, <2>1, <2>2, LeapAt
<1>9. /\ t.month \in Months /\ t.day \in MonthDays /\ t.day <= Length(t.month, Dates!Leap(t.year))
      /\ Dates!DayOfYear(t.month, t.day) = n
  BY <1>6, <1>7, <1>8, ToMonth
<1>10. IsDated(t)
  BY <1>6, <1>7, <1>9, LengthIs DEF IsDated
<1>11. DaysOf(t) = days
  BY <1>3, <1>4, <1>7, <1>9, DaysAre DEF DaysOf
<1> QED
  BY <1>5, <1>10, <1>11

\* A year from March has 365 days, or 366 when its February is a leap year's.
LEMMA YearLong ==
  ASSUME NEW k \in Int, NEW y \in EraYears, NEW l \in Int, NEW z \in EraYears,
         NEW year \in Int, YearAt(year, k, y), YearAt(year + 1, l, z)
  PROVE  Before(l, z) = Before(k, y) + 365 + Dates!If(Dates!Leap(y + 1))
<1>1. CASE y = 399
  <2>1. z = 0 /\ l = k + 1
    BY <1>1 DEF YearAt, EraYears
  <2>2. Dates!Leap(y + 1) /\ Dates!DaysBefore(0) = 0 /\ Dates!DaysBefore(399) + 365 + 1 = Dates!Era
    BY <1>1 DEF Dates!Leap, Dates!DaysBefore, Dates!Era
  <2>3. (k + 1) * Dates!Era = k * Dates!Era + Dates!Era /\ k * Dates!Era \in Int /\ Dates!Era \in Int /\ Dates!DaysBefore(399) \in Int
    BY Numbers
  <2> QED
    BY <1>1, <2>1, <2>2, <2>3 DEF Before, Dates!If
<1>2. CASE y # 399
  <2>1. z = y + 1 /\ l = k
    BY <1>2 DEF YearAt, EraYears
  <2>2. Dates!DaysBefore(y + 1) = Dates!DaysBefore(y) + 365 + Dates!If(Dates!Leap(y + 1))
    BY <1>2 DEF Dates!DaysBefore, Dates!Leap, Dates!If, EraYears
  <2>3. k * Dates!Era \in Int /\ Dates!DaysBefore(y) \in Int /\ Dates!If(Dates!Leap(y + 1)) \in Int
    BY Numbers DEF EraYears, Dates!If
  <2> QED
    BY <2>1, <2>2, <2>3 DEF Before
<1> QED
  BY <1>1, <1>2

\* The day after a date.
NextDate(t) ==
  CASE t.day < Dates!MonthLength(t.year, t.month) -> [t EXCEPT !.day = @ + 1]
    [] t.month = 12 /\ t.day = 31 -> Dates!Date(t.year + 1, 1, 1)
    [] OTHER -> Dates!Date(t.year, t.month + 1, 1)

LEMMA MonthAfter == ASSUME NEW m \in Months, m \notin {2, 12}, NEW d \in MonthDays, NEW long \in BOOLEAN, d = Length(m, long)
  PROVE  /\ Dates!DayOfYear(m + 1, 1) = Dates!DayOfYear(m, d) + 1 /\ Dates!If(m + 1 <= 2) = Dates!If(m <= 2)
         /\ m + 1 \in Months /\ 1 \in MonthDays /\ 1 <= Length(m + 1, long)
  BY DEF Months, MonthDays, Dates!DayOfYear, Dates!MonthIndex, Length, Dates!If

LEMMA DayAfter == ASSUME NEW t, IsDated(t) PROVE IsDated(NextDate(t)) /\ DaysOf(NextDate(t)) = DaysOf(t) + 1
<1> DEFINE m == t.month
           d == t.day
           long == Dates!Leap(t.year)
<1>1. /\ m \in Months /\ d \in MonthDays /\ t.year \in Int /\ long \in BOOLEAN
      /\ d <= Dates!MonthLength(t.year, m) /\ Dates!MonthLength(t.year, m) = Length(m, long)
      /\ t = Dates!Date(t.year, m, d)
  BY LengthIs, LeapIs DEF IsDated
<1>2. PICK k \in Int, y \in EraYears, n \in YearDays :
         /\ n = Dates!DayOfYear(t.month, t.day) /\ YearAt(t.year - Dates!If(t.month <= 2), k, y)
         /\ n = 365 => Dates!Leap(y + 1)
         /\ Dates!MonthAt(n) = t.month /\ Dates!DayAt(n) = t.day /\ Dates!IndexAt(n) = Dates!MonthIndex(t.month)
         /\ DaysOf(t) = Before(k, y) + n - Dates!March0
  BY DateIs
<1>3. Before(k, y) \in Int /\ n \in Int /\ Dates!March0 \in Int
  BY AllDays, Numbers
\* Who has the date u, with a day more of the same year from March, is the day after.
<1>4. ASSUME NEW u, u.year - Dates!If(u.month <= 2) = t.year - Dates!If(m <= 2), Dates!DayOfYear(u.month, u.day) = n + 1
      PROVE  DaysOf(u) = DaysOf(t) + 1
  <2>1. DaysOf(u) = Before(k, y) + Dates!DayOfYear(u.month, u.day) - Dates!March0
    BY <1>2, <1>4, DaysAre DEF DaysOf
  <2> QED
    BY <1>2, <1>3, <1>4, <2>1
<1>5. CASE d < Dates!MonthLength(t.year, m)
  <2> DEFINE u == Dates!Date(t.year, m, d + 1)
  <2>1. NextDate(t) = u
    <3>1. ~(m = 12 /\ d = 31)
      BY <1>1, <1>5 DEF Length
    <3>2. NextDate(t) = [t EXCEPT !.day = @ + 1]
      BY <1>5, <3>1 DEF NextDate
    <3> QED
      BY <1>1, <3>2 DEF Dates!Date
  <2>2. u.year = t.year /\ u.month = m /\ u.day = d + 1 /\ u = Dates!Date(u.year, u.month, u.day)
    BY DEF Dates!Date
  <2> HIDE DEF u
  <2>3. d + 1 \in MonthDays /\ d + 1 <= Dates!MonthLength(t.year, m)
    BY <1>1, <1>5 DEF MonthDays, Length, Months
  <2>4. Dates!DayOfYear(m, d + 1) = n + 1
    BY <1>1, <1>2 DEF Dates!DayOfYear, Dates!MonthIndex, Months, MonthDays
  <2>5. IsDated(u)
    BY <1>1, <2>2, <2>3 DEF IsDated
  <2> QED
    BY <1>4, <2>1, <2>2, <2>4, <2>5
<1>6. CASE ~(d < Dates!MonthLength(t.year, m)) /\ m = 12
  <2> DEFINE u == Dates!Date(t.year + 1, 1, 1)
  <2>1. d = 31
    BY <1>1, <1>6 DEF MonthDays, Length
  <2>2. NextDate(t) = u
    BY <1>1, <1>6, <2>1 DEF NextDate
  <2>3. u.year = t.year + 1 /\ u.month = 1 /\ u.day = 1 /\ u = Dates!Date(u.year, u.month, u.day)
    BY DEF Dates!Date
  <2> HIDE DEF u
  <2>4. Dates!DayOfYear(u.month, u.day) = n + 1 /\ u.year - Dates!If(u.month <= 2) = t.year - Dates!If(m <= 2)
    BY <1>1, <1>2, <1>6, <2>1, <2>3 DEF Dates!DayOfYear, Dates!MonthIndex, Dates!If
  <2>5. IsDated(u)
    <3>1. Dates!MonthLength(u.year, 1) = 31
      BY DEF Dates!MonthLength
    <3> QED
      BY <1>1, <2>3, <3>1 DEF IsDated, Months, MonthDays
  <2> QED
    BY <1>4, <2>2, <2>4, <2>5
<1>7. CASE ~(d < Dates!MonthLength(t.year, m)) /\ m # 12
  <2> DEFINE u == Dates!Date(t.year, m + 1, 1)
  <2>1. d = Length(m, long) /\ d \in Int
    BY <1>1, <1>7 DEF MonthDays, Length, Months
  <2>2. NextDate(t) = u
    BY <1>1, <1>7 DEF NextDate
  <2>3. u.year = t.year /\ u.month = m + 1 /\ u.day = 1 /\ u = Dates!Date(u.year, u.month, u.day)
    BY DEF Dates!Date
  <2> HIDE DEF u
  <2>4. CASE m # 2
    <3>1. /\ Dates!DayOfYear(m + 1, 1) = Dates!DayOfYear(m, d) + 1 /\ Dates!If(m + 1 <= 2) = Dates!If(m <= 2)
          /\ m + 1 \in Months /\ 1 \in MonthDays /\ 1 <= Length(m + 1, long)
      BY <1>1, <1>7, <2>1, <2>4, MonthAfter
    <3>2. IsDated(u)
      BY <1>1, <2>3, <3>1, LengthIs DEF IsDated
    <3> QED
      BY <1>2, <1>4, <2>2, <2>3, <3>1, <3>2
  <2>5. CASE m = 2
    <3>1. IsDated(u)
      BY <1>1, <2>3, <2>5, LengthIs DEF IsDated, Length, Months, MonthDays
    <3>2. PICK year \in Int : year = t.year - Dates!If(m <= 2)
      BY <1>1 DEF Dates!If
    <3>3. u.year - Dates!If(u.month <= 2) = year + 1 /\ t.year = year + 1
      BY <1>1, <2>3, <2>5, <3>2 DEF Dates!If
    <3>4. PICK l \in Int, z \in EraYears : YearAt(year + 1, l, z)
      <4>1. year + 1 \in Int
        BY <3>2
      <4> QED
        BY <4>1, EraOf, Zenon
    <3>5. Before(l, z) = Before(k, y) + 365 + Dates!If(Dates!Leap(y + 1)) /\ (Dates!Leap(y + 1) <=> long)
      BY <1>2, <3>2, <3>3, <3>4, YearLong, LeapAt
    <3>6. DaysOf(u) = Before(l, z) + Dates!DayOfYear(u.month, u.day) - Dates!March0
      BY <3>3, <3>4, DaysAre DEF DaysOf
    <3>7. Dates!DayOfYear(3, 1) = 0 /\ n = 364 + Dates!If(long)
      BY <1>1, <1>2, <2>1, <2>5 DEF Dates!DayOfYear, Dates!MonthIndex, Length, Dates!If
    <3>8. DaysOf(u) = DaysOf(t) + 1
      <4>1. u.month = 3 /\ Dates!If(Dates!Leap(y + 1)) = Dates!If(long) /\ Dates!If(long) \in {0, 1}
        BY <2>3, <2>5, <3>5 DEF Dates!If
      <4> QED
        BY <1>2, <1>3, <2>3, <3>5, <3>6, <3>7, <4>1
    <3> QED
      BY <2>2, <3>1, <3>8
  <2> QED
    BY <2>4, <2>5
<1> QED
  BY <1>5, <1>6, <1>7

-----------------------------------------------------------------------------
(* Moments.                                                                *)

LEMMA ReadsAreAllowed == Dates!ReadIsAllowed
<1>1. SUFFICES ASSUME NEW d \in {0, 1, 28, 29, 30, 31, 32}, NEW t \in Dates!Texts(date.year, date.month, d), Dates!Reads(t)
               PROVE  Dates!Allows(t)
  BY DEF Dates!ReadIsAllowed
<1>2. t.second \in {0, 59, 60, 61}
  BY DEF Dates!Texts
<1> QED
  BY <1>1, <1>2 DEF Dates!Reads, Dates!Allows

LEMMA SecondOfDay == ASSUME NEW s \in Int, 0 <= s, s < 24 * 3600
  PROVE /\ s \div 3600 \in 0 .. 23 /\ (s \div 60) % 60 \in 0 .. 59 /\ s % 60 \in 0 .. 59
        /\ (s \div 3600) * 3600 + ((s \div 60) % 60) * 60 + (s % 60) = s
  OBVIOUS

LEMMA WholeDays == ASSUME NEW s \in Int PROVE s \div 86400 \in Int /\ s % 86400 \in Int /\ 0 <= s % 86400 /\ s % 86400 < 24 * 3600
  OBVIOUS

LEMMA InDay == ASSUME NEW s \in Int, 0 <= s, s < 24 * 3600 PROVE s \div 86400 = 0 /\ s % 86400 = s
  OBVIOUS

LEMMA MomentsAreOne ==
  ASSUME date.year \in Int, date.month \in Months PROVE Dates!SameMoment
<1> DEFINE utc(t) == Dates!Stamp(Dates!Instant(t))
           again(t) == [date |-> Dates!Date(utc(t)[1], utc(t)[2], utc(t)[3]), hour |-> utc(t)[4], minute |-> utc(t)[5],
                        second |-> utc(t)[6], east |-> 0, upper |-> TRUE]
<1>1. SUFFICES ASSUME NEW t \in Dates!Texts(date.year, date.month, date.day), Dates!Reads(t)
               PROVE  Dates!Reads(again(t)) /\ Dates!Instant(again(t)) = Dates!Instant(t)
  BY DEF Dates!SameMoment
<1>2. /\ t.date = Dates!Date(date.year, date.month, date.day)
      /\ t.hour \in Int /\ t.minute \in Int /\ t.second \in Int /\ t.east \in Int
  BY DEF Dates!Texts
<1>3. t.date.year = date.year /\ t.date.month = date.month /\ t.date.day = date.day
  BY <1>2 DEF Dates!Date
<1>4. IsDated(t.date)
  <2>1. t.date.day \in 1 .. Dates!MonthLength(date.year, date.month)
    BY <1>1, <1>3 DEF Dates!Reads, Dates!GoodDate
  <2>2. t.date.day \in MonthDays
    BY <2>1, LengthIs, LeapIs DEF Length, Months, MonthDays
  <2> QED
    BY <1>2, <1>3, <2>1, <2>2, LengthIs, LeapIs DEF IsDated, Length, Months
<1>5. PICK s \in Int : s = Dates!OfDay(t)
  BY <1>2 DEF Dates!OfDay
<1>6. PICK days \in Int, of \in Int :
        Dates!Instant(t) = <<days, of>> /\ 0 <= of /\ of < 24 * 3600
  <2>1. DaysOf(t.date) \in Int
    BY <1>4, CivilOfDays
  <2>2. Dates!Instant(t) = <<DaysOf(t.date) + s \div 86400, s % 86400>>
    BY <1>5 DEF Dates!Instant, Dates!MomentAt, DaysOf
  <2> QED
    BY <2>1, <2>2, WholeDays
<1>7. PICK u : u = Dates!CivilFromDays(days) /\ IsDated(u) /\ DaysOf(u) = days
  BY DaysOfCivil
<1>8. PICK hour \in Int, minute \in Int, second \in Int :
        hour = of \div 3600 /\ minute = (of \div 60) % 60 /\ second = of % 60
  OBVIOUS
<1> DEFINE a == [date |-> u, hour |-> hour, minute |-> minute, second |-> second, east |-> 0, upper |-> TRUE]
<1>9. again(t) = a
  <2>1. utc(t) = <<u.year, u.month, u.day, hour, minute, second>>
    BY <1>6, <1>7, <1>8 DEF Dates!Stamp
  <2>2. u = Dates!Date(u.year, u.month, u.day)
    BY <1>7 DEF IsDated
  <2> HIDE DEF utc
  <2>3. /\ utc(t)[1] = u.year /\ utc(t)[2] = u.month /\ utc(t)[3] = u.day
        /\ utc(t)[4] = hour /\ utc(t)[5] = minute /\ utc(t)[6] = second
    BY <2>1
  <2>4. Dates!Date(utc(t)[1], utc(t)[2], utc(t)[3]) = u
    BY <2>2, <2>3, Zenon
  <2> QED
    BY <2>3, <2>4, Zenon
<1>10. /\ a.date = u /\ a.hour = hour /\ a.minute = minute /\ a.second = second
       /\ a.east = 0 /\ a.upper = TRUE
  OBVIOUS
<1> HIDE DEF a, again
<1>11. hour \in 0 .. 23 /\ minute \in 0 .. 59 /\ second \in 0 .. 59 /\ hour * 3600 + minute * 60 + second = of
  BY <1>6, <1>8, SecondOfDay
<1>12. Dates!Reads(a)
  <2>1. Dates!GoodOffset(a)
    BY <1>10 DEF Dates!GoodOffset
  <2>2. Dates!GoodDate(a)
    BY <1>7, <1>10 DEF Dates!GoodDate, IsDated, MonthDays
  <2> QED
    BY <1>10, <1>11, <2>1, <2>2 DEF Dates!Reads
<1>13. Dates!Instant(a) = Dates!Instant(t)
  <2>1. Dates!OfDay(a) = of
    BY <1>10, <1>11 DEF Dates!OfDay
  <2>2. Dates!Instant(a) = <<days + of \div 86400, of % 86400>>
    BY <1>7, <1>10, <2>1 DEF Dates!Instant, Dates!MomentAt, DaysOf
  <2> QED
    BY <1>6, <2>2, InDay
<1> QED
  BY <1>9, <1>12, <1>13, Zenon

-----------------------------------------------------------------------------
\* The day and the date that the clock shows are the same.
DatesInv == Dates!IsDate(date) /\ day = DaysOf(date)

LEMMA DatesInitially == Init => DatesInv
<1>1. SUFFICES ASSUME Init PROVE DatesInv
  OBVIOUS
<1>2. Dates!CalendarInit
  BY <1>1, Zenon DEF Init
<1>3. Dates!CalendarAssumption
  BY ImportsAssumption, Zenon DEF ImportsAssumption
<1> QED
  BY <1>2, <1>3 DEF Dates!CalendarInit, Dates!CalendarAssumption, DatesInv, DaysOf

LEMMA DatesStep == DatesInv /\ [Next]_vars => DatesInv'
<1>1. SUFFICES ASSUME DatesInv, [Next]_vars PROVE DatesInv'
  OBVIOUS
<1>2. Dates!Tomorrow \/ (day' = day /\ date' = date)
  BY <1>1, Zenon DEF Next, ImportNext, CheckNext, dateVars, vars
<1>3. CASE Dates!Tomorrow
  <2>1. day' = day + 1 /\ date' = NextDate(date)
    BY <1>3 DEF Dates!Tomorrow, NextDate
  <2>2. IsDated(date) /\ day = DaysOf(date)
    BY <1>1, IsDatedIs DEF DatesInv
  <2>3. IsDated(date') /\ day' = DaysOf(date')
    BY <2>1, <2>2, DayAfter
  <2> QED
    BY <2>3, IsDatedIs DEF DatesInv
<1>4. CASE day' = day /\ date' = date
  BY <1>1, <1>4 DEF DatesInv
<1> QED
  BY <1>2, <1>3, <1>4

LEMMA ArithmeticHolds == DatesInv => Dates!ArithmeticKeepsUp
<1>1. SUFFICES ASSUME DatesInv PROVE Dates!ArithmeticKeepsUp
  OBVIOUS
<1>2. IsDated(date) /\ day = DaysOf(date)
  BY <1>1, IsDatedIs DEF DatesInv
<1>3. Dates!CivilFromDays(day) = date
  BY <1>2, CivilOfDays
<1> QED
  BY <1>2, <1>3 DEF Dates!ArithmeticKeepsUp, DaysOf

\* The dates' part of OwnModelAndTimes, for every date of every year: the arithmetic of eras
\* and the calendar agree both ways, what is read as a moment may stand in a document, and a
\* moment is one, whatever offset it is written with (slink-format, time.rs and datetime.rs).
THEOREM TimesAreMoments ==
  Spec => [](Dates!ArithmeticKeepsUp /\ Dates!ReadIsAllowed /\ Dates!SameMoment)
<1>1. DatesInv => Dates!ArithmeticKeepsUp /\ Dates!ReadIsAllowed /\ Dates!SameMoment
  <2>1. SUFFICES ASSUME DatesInv PROVE Dates!SameMoment
    BY ArithmeticHolds, ReadsAreAllowed
  <2>2. date.year \in Int /\ date.month \in Months
    BY <2>1, IsDatedIs DEF DatesInv, IsDated
  <2> QED
    BY <2>2, MomentsAreOne
<1> QED
  BY <1>1, DatesInitially, DatesStep, PTL DEF Spec

====
