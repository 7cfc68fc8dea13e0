------------------------- MODULE RequestIntakeProofs -------------------------
(***************************************************************************)
(* RequestIntake for any requests, any sizes and any cuts of what was      *)
(* sent.  Sequences and their ends, which the parser looks for; the types; *)
(* and the life of a spool file, which its creator or its reader removes.  *)
(* RequestIntakeStream goes on from here.                                  *)
(***************************************************************************)
EXTENDS RequestIntake, SequenceTheorems, FiniteSetTheorems, WellFoundedInduction, TLAPS

-----------------------------------------------------------------------------
(* Natural numbers. *)

\* Every non-empty set of natural numbers has a least element.
LEMMA LeastNat ==
  ASSUME NEW T \in SUBSET Nat, T # {}
  PROVE  \E n \in T : \A m \in T : n <= m
<1> DEFINE less == OpToRel(<, Nat)
<1>1. \A m, n \in Nat : m < n => <<m, n>> \in less
  BY DEF OpToRel
<1>2. IsWellFoundedOn(less, Nat)
  BY NatLessThanWellFounded
<1> HIDE DEF less
<1>3. PICK n \in T : \A m \in T : <<m, n>> \notin less
  BY <1>2, WFMin
<1>4. \A m \in T : n \in Nat /\ m \in Nat /\ ~(m < n)
  BY <1>1, <1>3
<1>5. \A m \in T : n <= m
  BY <1>4
<1>6. QED
  BY <1>5

\* Induction over the natural numbers, for a set of those that it holds of.
LEMMA NatSet ==
  ASSUME NEW S, 0 \in S, \A n \in Nat : n \in S => n + 1 \in S
  PROVE  \A n \in Nat : n \in S
<1>1. SUFFICES ASSUME Nat \ S # {} PROVE FALSE
  OBVIOUS
<1>2. PICK n \in Nat \ S : \A m \in Nat \ S : n <= m
  BY <1>1, LeastNat
<1>3. n # 0 /\ n - 1 \in Nat
  BY <1>2
<1>4. n - 1 \in S
  BY <1>2, <1>3
<1>5. QED
  BY <1>2, <1>3, <1>4

\* A set of numbers up to a bound has a greatest element.
LEMMA GreatestNat ==
  ASSUME NEW n \in Nat, NEW T \in SUBSET (0 .. n), T # {}
  PROVE  \E i \in T : \A j \in T : j <= i
<1> DEFINE U == {k \in Nat : n - k \in T}
<1>1. U \in SUBSET Nat /\ U # {}
  <2>1. PICK j \in T : TRUE
    OBVIOUS
  <2>2. n - j \in Nat /\ n - (n - j) = j
    BY <2>1
  <2>3. n - j \in U
    BY <2>1, <2>2
  <2>4. QED
    BY <2>3
<1>2. PICK m \in U : \A k \in U : m <= k
  BY <1>1, LeastNat
<1>3. PICK i \in T : m = n - i
  BY <1>2
<1>4. ASSUME NEW j \in T PROVE j <= i
  <2>1. n - i <= n - j
    <3>1. n - j \in Nat /\ n - (n - j) = j
      OBVIOUS
    <3>2. n - j \in U
      BY <3>1
    <3>3. QED
      BY <3>2, <1>2, <1>3
  <2>2. i \in Nat /\ j \in Nat
    OBVIOUS
  <2>3. QED
    BY <2>1, <2>2
<1>5. QED
  BY <1>4

-----------------------------------------------------------------------------
(* Items and sequences of them. *)

\* Strings; the provers do not know that a literal is in STRING.
Word == STRING \cup {"", "connection", "transfer-encoding"}
HeaderField == [kind : {"header"}, name : Word, n : Nat]
Item ==
  {CR, LF} \cup [kind : {"data"}, n : Nat] \cup [kind : {"size"}, n : Nat] \cup HeaderField
    \cup [kind : {"line"}, method : Word, target : Word, code : Nat]

LEMMA ItemKinds ==
  /\ CR \in Item /\ LF \in Item /\ CR # LF
  /\ \A n \in Nat : Data(n) \in Item /\ Size(n) \in Item
  /\ \A n \in Nat : Data(n).kind = "data" /\ Size(n).kind = "size" /\ Size(n).n = n
  /\ \A m, t \in Word, code \in Nat :
       /\ Line(m, t, code) \in Item /\ Line(m, t, code).kind = "line"
       /\ Line(m, t, code).method = m /\ Line(m, t, code).target = t /\ Line(m, t, code).code = code
  /\ \A h \in HeaderField : h \in Item /\ h.kind = "header" /\ h.name \in Word /\ h.n \in Nat
  /\ \A name \in Word, n \in Nat :
       /\ Header(name, n) \in HeaderField
       /\ Header(name, n).name = name /\ Header(name, n).n = n
BY DEF Item, HeaderField, CR, LF, Data, Size, Line, Header

LEMMA KindsOfItem ==
  ASSUME NEW x \in Item
  PROVE  /\ x.kind \in {"CR", "LF", "data", "size", "header", "line"}
         /\ x.kind = "CR" <=> x = CR
         /\ x.kind = "LF" <=> x = LF
         /\ x.kind = "size" => x.n \in Nat
         /\ x.kind = "header" => x \in HeaderField
         /\ x.kind = "line" => x.method \in Word /\ x.target \in Word /\ x.code \in Nat
<1>1. CASE x \in {CR, LF}
  BY <1>1 DEF CR, LF
<1>2. CASE x \in [kind : {"data"}, n : Nat] \cup [kind : {"size"}, n : Nat]
  BY <1>2 DEF CR, LF
<1>3. CASE x \in HeaderField
  BY <1>3 DEF CR, LF, HeaderField
<1>4. CASE x \in [kind : {"line"}, method : Word, target : Word, code : Nat]
  BY <1>4 DEF CR, LF
<1>5. QED
  BY <1>1, <1>2, <1>3, <1>4 DEF Item

From(s, k) == SubSeq(s, k, Len(s))

LEMMA FromIs ==
  ASSUME NEW S, NEW s \in Seq(S), NEW n \in 0 .. Len(s)
  PROVE  /\ From(s, n + 1) \in Seq(S)
         /\ Len(From(s, n + 1)) = Len(s) - n
         /\ \A i \in 1 .. Len(s) - n : From(s, n + 1)[i] = s[n + i]
<1>1. Len(s) \in Nat /\ n + 1 \in Int /\ \A i \in n + 1 .. Len(s) : s[i] \in S
  BY LenProperties, ElementOfSeq
<1>2. /\ SubSeq(s, n + 1, Len(s)) \in Seq(S)
      /\ Len(SubSeq(s, n + 1, Len(s))) = IF n + 1 <= Len(s) THEN Len(s) - (n + 1) + 1 ELSE 0
      /\ \A i \in 1 .. Len(s) - (n + 1) + 1 : SubSeq(s, n + 1, Len(s))[i] = s[n + 1 + i - 1]
  BY <1>1, SubSeqProperties
<1>3. QED
  BY <1>1, <1>2 DEF From

LEMMA FirstIs ==
  ASSUME NEW S, NEW s \in Seq(S), NEW n \in 0 .. Len(s)
  PROVE  /\ SubSeq(s, 1, n) \in Seq(S)
         /\ Len(SubSeq(s, 1, n)) = n
         /\ \A i \in 1 .. n : SubSeq(s, 1, n)[i] = s[i]
<1>1. Len(s) \in Nat /\ n \in Int /\ \A i \in 1 .. n : s[i] \in S
  BY LenProperties, ElementOfSeq
<1>2. /\ SubSeq(s, 1, n) \in Seq(S)
      /\ Len(SubSeq(s, 1, n)) = IF 1 <= n THEN n - 1 + 1 ELSE 0
      /\ \A i \in 1 .. n - 1 + 1 : SubSeq(s, 1, n)[i] = s[1 + i - 1]
  BY <1>1, SubSeqProperties
<1>3. QED
  BY <1>1, <1>2

LEMMA Together ==
  ASSUME NEW s \in Seq(Item), NEW t \in Seq(Item), NEW u \in Seq(Item)
  PROVE  s \o (t \o u) = (s \o t) \o u
BY ConcatAssociative

LEMMA Joined ==
  ASSUME NEW s \in Seq(Item), NEW t \in Seq(Item)
  PROVE  /\ s \o t \in Seq(Item) /\ Len(s \o t) = Len(s) + Len(t)
         /\ Len(s) \in Nat /\ Len(t) \in Nat
         /\ \A i \in 1 .. Len(s) : (s \o t)[i] = s[i]
         /\ \A i \in 1 .. Len(t) : (s \o t)[Len(s) + i] = t[i]
<1>1. /\ s \o t \in Seq(Item) /\ Len(s \o t) = Len(s) + Len(t)
      /\ \A i \in 1 .. Len(s) + Len(t) : (s \o t)[i] = IF i <= Len(s) THEN s[i] ELSE t[i - Len(s)]
      /\ Len(s) \in Nat /\ Len(t) \in Nat
  BY ConcatProperties, LenProperties
<1>2. ASSUME NEW i \in 1 .. Len(t) PROVE (s \o t)[Len(s) + i] = t[i]
  BY <1>1
<1>3. QED
  BY <1>1, <1>2

\* Two sequences that are the same up to their end.
LEMMA SameItems ==
  ASSUME NEW s \in Seq(Item), NEW t \in Seq(Item), Len(s) = Len(t), \A i \in 1 .. Len(s) : s[i] = t[i]
  PROVE  s = t
BY SeqEqual

LEMMA CutAt ==
  ASSUME NEW s \in Seq(Item), NEW n \in 0 .. Len(s)
  PROVE  s = SubSeq(s, 1, n) \o From(s, n + 1)
<1> DEFINE a == SubSeq(s, 1, n)
           b == From(s, n + 1)
<1>1. /\ a \in Seq(Item) /\ Len(a) = n /\ \A i \in 1 .. n : a[i] = s[i]
  BY FirstIs
<1>2. b \in Seq(Item) /\ Len(b) = Len(s) - n /\ \A i \in 1 .. Len(s) - n : b[i] = s[n + i]
  BY FromIs
<1>3. Len(s) \in Nat
  BY LenProperties
<1> HIDE DEF a, b
<1>4. /\ a \o b \in Seq(Item) /\ Len(a \o b) = Len(a) + Len(b)
      /\ \A i \in 1 .. Len(a) : (a \o b)[i] = a[i]
      /\ \A i \in 1 .. Len(b) : (a \o b)[Len(a) + i] = b[i]
  BY <1>1, <1>2, Joined
<1>5. Len(a \o b) = Len(s)
  BY <1>1, <1>2, <1>3, <1>4
<1>6. ASSUME NEW i \in 1 .. Len(s) PROVE (a \o b)[i] = s[i]
  <2>1. CASE i <= n
    BY <2>1, <1>1, <1>3, <1>4
  <2>2. CASE ~(i <= n)
    <3>1. i - n \in 1 .. Len(b) /\ n + (i - n) = i
      BY <2>2, <1>2, <1>3
    <3>2. (a \o b)[n + (i - n)] = b[i - n] /\ b[i - n] = s[n + (i - n)]
      BY <3>1, <1>1, <1>2, <1>4
    <3>3. QED
      BY <3>1, <3>2
  <2>3. QED
    BY <2>1, <2>2
<1>7. QED
  BY <1>4, <1>5, <1>6, SameItems DEF a, b

LEMMA FromConcat ==
  ASSUME NEW s \in Seq(Item), NEW t \in Seq(Item), NEW n \in 0 .. Len(s)
  PROVE  From(s \o t, n + 1) = From(s, n + 1) \o t
<1> DEFINE u == s \o t
           b == From(s, n + 1)
           d == From(u, n + 1)
<1>1. /\ u \in Seq(Item) /\ Len(u) = Len(s) + Len(t) /\ Len(s) \in Nat /\ Len(t) \in Nat
      /\ \A i \in 1 .. Len(s) : u[i] = s[i]
      /\ \A i \in 1 .. Len(t) : u[Len(s) + i] = t[i]
  BY Joined
<1> HIDE DEF u
<1>2. b \in Seq(Item) /\ Len(b) = Len(s) - n /\ \A i \in 1 .. Len(s) - n : b[i] = s[n + i]
  BY FromIs
<1>3. n \in 0 .. Len(u)
  BY <1>1
<1>4. d \in Seq(Item) /\ Len(d) = Len(u) - n /\ \A i \in 1 .. Len(u) - n : d[i] = u[n + i]
  BY <1>1, <1>3, FromIs
<1> HIDE DEF b, d
<1>5. /\ b \o t \in Seq(Item) /\ Len(b \o t) = Len(b) + Len(t)
      /\ \A i \in 1 .. Len(b) : (b \o t)[i] = b[i]
      /\ \A i \in 1 .. Len(t) : (b \o t)[Len(b) + i] = t[i]
  BY <1>2, Joined
<1>6. Len(b \o t) = Len(d)
  BY <1>1, <1>2, <1>4, <1>5
<1>7. ASSUME NEW i \in 1 .. Len(d) PROVE (b \o t)[i] = d[i]
  <2>1. CASE i <= Len(b)
    <3>1. i \in 1 .. Len(b) /\ i \in 1 .. Len(s) - n /\ n + i \in 1 .. Len(s) /\ i \in 1 .. Len(u) - n
      BY <2>1, <1>1, <1>2, <1>4
    <3>2. QED
      BY <3>1, <1>1, <1>2, <1>4, <1>5
  <2>2. CASE ~(i <= Len(b))
    <3>1. /\ i - Len(b) \in 1 .. Len(t) /\ i = Len(b) + (i - Len(b)) /\ i \in 1 .. Len(u) - n
          /\ n + i = Len(s) + (i - Len(b))
      BY <2>2, <1>1, <1>2, <1>4
    <3>2. (b \o t)[Len(b) + (i - Len(b))] = t[i - Len(b)] /\ u[Len(s) + (i - Len(b))] = t[i - Len(b)]
      BY <3>1, <1>1, <1>5
    <3>3. d[i] = u[n + i]
      BY <3>1, <1>4
    <3>4. QED
      BY <3>1, <3>2, <3>3
  <2>3. QED
    BY <2>1, <2>2
<1>8. QED
  BY <1>4, <1>5, <1>6, <1>7, SameItems DEF u, b, d

LEMMA FromEnd ==
  ASSUME NEW s \in Seq(Item), NEW t \in Seq(Item)
  PROVE  From(s \o t, Len(s) + 1) = t
<1>1. Len(s) \in 0 .. Len(s)
  BY LenProperties
<1>2. From(s \o t, Len(s) + 1) = From(s, Len(s) + 1) \o t
  BY <1>1, FromConcat
<1>3. From(s, Len(s) + 1) \in Seq(Item) /\ Len(From(s, Len(s) + 1)) = Len(s) - Len(s)
  BY <1>1, FromIs
<1>4. From(s, Len(s) + 1) = <<>>
  BY <1>3, LenProperties, EmptySeq
<1>5. QED
  BY <1>2, <1>4, ConcatEmptySeq

\* What a and b begin with, when they are the same in front of their rests.
LEMMA Behind ==
  ASSUME NEW a \in Seq(Item), NEW b \in Seq(Item), NEW v \in Seq(Item), NEW w \in Seq(Item),
         b \o v = a \o w, Len(a) <= Len(b)
  PROVE  /\ From(b, Len(a) + 1) \in Seq(Item)
         /\ From(b, Len(a) + 1) \o v = w
         /\ \A i \in 1 .. Len(a) : b[i] = a[i]
<1>1. Len(a) \in 0 .. Len(b)
  BY LenProperties
<1>2. From(b \o v, Len(a) + 1) = From(b, Len(a) + 1) \o v /\ From(b, Len(a) + 1) \in Seq(Item)
  BY <1>1, FromConcat, FromIs
<1>3. From(a \o w, Len(a) + 1) = w
  BY FromEnd
<1>4. ASSUME NEW i \in 1 .. Len(a) PROVE b[i] = a[i]
  <2>1. i \in 1 .. Len(b)
    BY <1>1, LenProperties
  <2>2. (b \o v)[i] = b[i] /\ (a \o w)[i] = a[i]
    BY <2>1, Joined
  <2>3. QED
    BY <2>2
<1>5. QED
  BY <1>2, <1>3, <1>4

LEMMA Ahead ==
  ASSUME NEW a \in Seq(Item), NEW b \in Seq(Item), NEW v \in Seq(Item), NEW w \in Seq(Item),
         b \o v = a \o w, Len(b) <= Len(a)
  PROVE  /\ From(a, Len(b) + 1) \in Seq(Item)
         /\ v = From(a, Len(b) + 1) \o w
         /\ \A i \in 1 .. Len(b) : b[i] = a[i]
<1>1. a \in Seq(Item) /\ b \in Seq(Item) /\ v \in Seq(Item) /\ w \in Seq(Item)
      /\ a \o w = b \o v /\ Len(b) <= Len(a)
  OBVIOUS
<1>2. From(a, Len(b) + 1) \in Seq(Item)
  BY ONLY <1>1, Behind
<1>3. v = From(a, Len(b) + 1) \o w
  BY ONLY <1>1, Behind
<1>4. \A i \in 1 .. Len(b) : b[i] = a[i]
  BY ONLY <1>1, Behind
<1>5. QED
  BY <1>2, <1>3, <1>4

-----------------------------------------------------------------------------
(* Recursive functions over numbers. *)

\* What is computed step by step is a function.
Steps(X, step, n) == \A i \in 1 .. n : \A x \in X : step[i][x] \in X
Computes(X, base, step, n, f) ==
  f \in [0 .. n -> X] /\ f[0] = base /\ \A i \in 1 .. n : f[i] = step[i][f[i - 1]]

LEMMA Recursion ==
  ASSUME NEW X, NEW base, NEW step, NEW n, base \in X, n \in Nat, Steps(X, step, n)
  PROVE  \E f : Computes(X, base, step, n, f)
<1> DEFINE Does(m, f) == f \in [0 .. m -> X] /\ f[0] = base /\ \A i \in 1 .. m : f[i] = step[i][f[i - 1]]
           S == {m \in Nat : m <= n => \E f : Does(m, f)}
<1> HIDE DEF Does
<1>1. 0 \in S
  <2>1. Does(0, [i \in 0 .. 0 |-> base])
    BY DEF Does
  <2>2. QED
    BY <2>1
<1>2. ASSUME NEW m \in Nat, m \in S
      PROVE  m + 1 \in S
  <2>1. SUFFICES ASSUME m + 1 <= n PROVE \E f : Does(m + 1, f)
    OBVIOUS
  <2>2. PICK f : Does(m, f)
    BY <1>2, <2>1
  <2> DEFINE last == step[m + 1][f[m]]
             g == [i \in 0 .. m + 1 |-> IF i <= m THEN f[i] ELSE last]
  <2>3. f[m] \in X /\ m + 1 \in 1 .. n
    BY <2>1, <2>2 DEF Does
  <2>4. last \in X
    BY <2>3 DEF Steps
  <2>5. g \in [0 .. m + 1 -> X]
    BY <2>2, <2>4 DEF Does
  <2>6. g[0] = base
    BY <2>2 DEF Does
  <2>7. ASSUME NEW i \in 1 .. m + 1 PROVE g[i] = step[i][g[i - 1]]
    <3>1. CASE i = m + 1
      BY <3>1
    <3>2. CASE i \in 1 .. m
      BY <3>2, <2>2 DEF Does
    <3>3. QED
      BY <3>1, <3>2
  <2> HIDE DEF g
  <2>8. Does(m + 1, g)
    BY <2>5, <2>6, <2>7 DEF Does
  <2>9. QED
    BY <2>8
<1> HIDE DEF S
<1>3. n \in S
  BY <1>1, <1>2, NatSet
<1>4. QED
  BY <1>3 DEF S, Does, Computes

\* The sums of the first 0, 1, ... numbers of s.
Sums(s, n, f) == f \in [0 .. n -> Nat] /\ f[0] = 0 /\ \A i \in 1 .. n : f[i] = f[i - 1] + s[i]

LEMMA SumsExist ==
  ASSUME NEW s \in Seq(Nat), NEW n \in 0 .. Len(s)
  PROVE  \E f : Sums(s, n, f) /\ SumTo(s, n) = f[n]
<1> DEFINE step == [i \in 1 .. n |-> [x \in Nat |-> x + s[i]]]
<1>1. n \in Nat /\ \A i \in 1 .. n : s[i] \in Nat
  BY LenProperties, ElementOfSeq
<1>2. \A i \in 1 .. n : \A x \in Nat : step[i][x] = x + s[i]
  OBVIOUS
<1> HIDE DEF step
<1>3. n \in Nat /\ 0 \in Nat
  BY <1>1
<1>4. ASSUME NEW i \in 1 .. n, NEW x \in Nat PROVE step[i][x] \in Nat
  <2>1. s[i] \in Nat /\ step[i][x] = x + s[i]
    BY <1>1, <1>2
  <2>2. QED
    BY ONLY <2>1, x \in Nat
<1>5. Steps(Nat, step, n)
  BY <1>4 DEF Steps
<1>6. \E f : Computes(Nat, 0, step, n, f)
  BY <1>3, <1>5, Recursion
<1>7. PICK f \in [0 .. n -> Nat] : f[0] = 0 /\ \A i \in 1 .. n : f[i] = f[i - 1] + s[i]
  <2>1. PICK f \in [0 .. n -> Nat] : f[0] = 0 /\ \A i \in 1 .. n : f[i] = step[i][f[i - 1]]
    BY <1>6 DEF Computes
  <2>2. \A i \in 1 .. n : f[i - 1] \in Nat
    BY <1>1
  <2>3. \A i \in 1 .. n : f[i] = f[i - 1] + s[i]
    BY ONLY <1>2, <2>1, <2>2
  <2>4. QED
    BY <2>1, <2>3
<1> DEFINE Sum(h) == h = [i \in 0 .. n |-> IF i = 0 THEN 0 ELSE h[i - 1] + s[i]]
           g == CHOOSE h : Sum(h)
<1>8. Sum(f)
  BY <1>1, <1>7
<1>9. Sum(g)
  BY <1>8
<1>10. SumTo(s, n) = g[n]
  BY DEF SumTo
<1> HIDE DEF g
<1>11. g[0] = 0 /\ \A i \in 1 .. n : g[i] = g[i - 1] + s[i]
  BY <1>1, <1>9
<1> DEFINE S == {k \in Nat : k <= n => g[k] = f[k]}
<1>12. 0 \in S
  BY <1>7, <1>11
<1>13. ASSUME NEW k \in Nat, k \in S PROVE k + 1 \in S
  <2>1. SUFFICES ASSUME k + 1 <= n PROVE g[k + 1] = f[k + 1]
    OBVIOUS
  <2>2. g[k] = f[k] /\ k + 1 \in 1 .. n /\ (k + 1) - 1 = k
    BY <1>1, <1>13, <2>1
  <2>3. QED
    BY <1>7, <1>11, <2>2
<1> HIDE DEF S
<1>14. n \in S
  BY <1>1, <1>12, <1>13, NatSet
<1>15. SumTo(s, n) = f[n]
  BY <1>1, <1>10, <1>14 DEF S
<1>16. QED
  BY <1>7, <1>15 DEF Sums

LEMMA SumsAgree ==
  ASSUME NEW s \in Seq(Nat), NEW m \in Nat, NEW n \in Nat, m <= n,
         NEW f, NEW g, Sums(s, m, f), Sums(s, n, g)
  PROVE  f[m] = g[m]
<1> DEFINE S == {k \in Nat : k <= m => f[k] = g[k]}
<1>1. 0 \in S
  BY DEF Sums
<1>2. ASSUME NEW k \in Nat, k \in S PROVE k + 1 \in S
  <2>1. SUFFICES ASSUME k + 1 <= m PROVE f[k + 1] = g[k + 1]
    OBVIOUS
  <2>2. f[k] = g[k] /\ k + 1 \in 1 .. m /\ k + 1 \in 1 .. n /\ (k + 1) - 1 = k
    BY <1>2, <2>1
  <2>3. QED
    BY <2>2 DEF Sums
<1> HIDE DEF S
<1>3. m \in S
  BY <1>1, <1>2, NatSet
<1>4. QED
  BY <1>3 DEF S

LEMMA SumNext ==
  ASSUME NEW s \in Seq(Nat), NEW n \in 0 .. Len(s)
  PROVE  /\ SumTo(s, n) \in Nat
         /\ SumTo(s, 0) = 0
         /\ n > 0 => SumTo(s, n) = SumTo(s, n - 1) + s[n]
<1>1. Len(s) \in Nat /\ n \in Nat /\ 0 \in 0 .. Len(s)
  BY LenProperties
<1>2. PICK f : Sums(s, n, f) /\ SumTo(s, n) = f[n]
  BY SumsExist
<1>3. PICK z : Sums(s, 0, z) /\ SumTo(s, 0) = z[0]
  BY <1>1, SumsExist
<1>4. ASSUME n > 0 PROVE SumTo(s, n) = SumTo(s, n - 1) + s[n]
  <2>1. n - 1 \in 0 .. Len(s) /\ n - 1 \in Nat /\ n - 1 <= n /\ n \in 1 .. n
    BY <1>1, <1>4
  <2>2. PICK g : Sums(s, n - 1, g) /\ SumTo(s, n - 1) = g[n - 1]
    BY <2>1, SumsExist
  <2>3. g[n - 1] = f[n - 1]
    BY <1>1, <1>2, <2>1, <2>2, SumsAgree
  <2>4. f[n] = f[n - 1] + s[n]
    BY <1>2, <2>1 DEF Sums
  <2>5. QED
    BY <1>2, <2>2, <2>3, <2>4
<1>5. QED
  BY <1>1, <1>2, <1>3, <1>4 DEF Sums

\* No sum is more than the sum of all.
LEMMA SumGrows ==
  ASSUME NEW s \in Seq(Nat), NEW m \in 0 .. Len(s), NEW n \in m .. Len(s)
  PROVE  SumTo(s, m) <= SumTo(s, n)
<1> DEFINE S == {k \in Nat : m + k <= Len(s) => SumTo(s, m) <= SumTo(s, m + k)}
<1>1. Len(s) \in Nat /\ m \in Nat /\ \A k \in 0 .. Len(s) : SumTo(s, k) \in Nat
  BY LenProperties, SumNext
<1>2. 0 \in S
  BY <1>1
<1>3. ASSUME NEW k \in Nat, k \in S PROVE k + 1 \in S
  <2>1. SUFFICES ASSUME m + (k + 1) <= Len(s) PROVE SumTo(s, m) <= SumTo(s, m + (k + 1))
    OBVIOUS
  <2>2. /\ m + (k + 1) \in 0 .. Len(s) /\ m + (k + 1) > 0 /\ m + (k + 1) - 1 = m + k
        /\ m + k \in 0 .. Len(s) /\ m + (k + 1) \in 1 .. Len(s)
    BY <1>1, <2>1
  <2>3. SumTo(s, m + (k + 1)) = SumTo(s, m + k) + s[m + (k + 1)]
    BY <2>2, SumNext
  <2>4. s[m + (k + 1)] \in Nat
    BY <2>2, ElementOfSeq
  <2>5. SumTo(s, m) <= SumTo(s, m + k)
    BY <1>3, <2>2
  <2>6. QED
    BY <1>1, <2>2, <2>3, <2>4, <2>5
<1> HIDE DEF S
<1>4. n - m \in Nat /\ m + (n - m) = n /\ n <= Len(s)
  BY <1>1
<1>5. n - m \in S
  BY <1>2, <1>3, <1>4, NatSet
<1>6. QED
  BY <1>4, <1>5 DEF S

-----------------------------------------------------------------------------
(* Pieces one behind the other. *)

Flattens(s, n, f) ==
  f \in [1 .. n -> Seq(Item)] /\ f[1] = s[1] /\ \A i \in 2 .. n : f[i] = f[i - 1] \o s[i]

LEMMA FlattensExist ==
  ASSUME NEW s \in Seq(Seq(Item)), Len(s) > 0
  PROVE  \E f : Flattens(s, Len(s), f) /\ FlattenSeq(s) = f[Len(s)]
<1> DEFINE n == Len(s)
           step == [i \in 1 .. n - 1 |-> [x \in Seq(Item) |-> x \o s[i + 1]]]
<1>1. n \in Nat \ {0} /\ n - 1 \in Nat /\ \A i \in 1 .. n : s[i] \in Seq(Item)
  BY LenProperties, ElementOfSeq
<1> HIDE DEF n
<1>2. \A i \in 1 .. n - 1 : i + 1 \in 1 .. n
  BY <1>1
<1>3. \A i \in 1 .. n - 1 : \A x \in Seq(Item) : x \o s[i + 1] \in Seq(Item)
  BY <1>1, <1>2, ConcatProperties
<1>4. \A i \in 1 .. n - 1 : \A x \in Seq(Item) : step[i][x] = x \o s[i + 1] /\ step[i][x] \in Seq(Item)
  BY <1>3
<1> HIDE DEF step
<1>5. s[1] \in Seq(Item) /\ n - 1 \in Nat
  BY <1>1
<1>6. Steps(Seq(Item), step, n - 1)
  BY <1>4 DEF Steps
<1>7. \E f : Computes(Seq(Item), s[1], step, n - 1, f)
  BY <1>5, <1>6, Recursion
<1>8. PICK e \in [0 .. n - 1 -> Seq(Item)] :
         e[0] = s[1] /\ \A i \in 1 .. n - 1 : e[i] = step[i][e[i - 1]]
  BY <1>7 DEF Computes
<1>9. \A i \in 1 .. n - 1 : e[i - 1] \in Seq(Item) /\ e[i] = e[i - 1] \o s[i + 1]
  <2>1. ASSUME NEW i \in 1 .. n - 1 PROVE e[i - 1] \in Seq(Item)
    BY <1>1
  <2>2. QED
    BY <1>4, <1>8, <2>1
<1> DEFINE f == [i \in 1 .. n |-> e[i - 1]]
<1>10. f \in [1 .. n -> Seq(Item)] /\ f[1] = s[1]
  BY <1>1, <1>8
<1>11. ASSUME NEW i \in 2 .. n PROVE f[i] = f[i - 1] \o s[i]
  <2>1. i - 1 \in 1 .. n - 1 /\ (i - 1) + 1 = i /\ i \in 1 .. n /\ i - 1 \in 1 .. n
    BY <1>1
  <2>2. e[i - 1] = e[(i - 1) - 1] \o s[i]
    BY <1>9, <2>1
  <2>3. QED
    BY <2>1, <2>2
<1> HIDE DEF f
<1> DEFINE Flat(h) == h = [i \in 1 .. n |-> IF i = 1 THEN s[i] ELSE h[i - 1] \o s[i]]
           g == CHOOSE h : Flat(h)
<1>12. Flat(f)
  <2>1. ASSUME NEW i \in 1 .. n PROVE f[i] = IF i = 1 THEN s[i] ELSE f[i - 1] \o s[i]
    <3>1. CASE i = 1
      BY ONLY <3>1, <1>10
    <3>2. CASE i \in 2 .. n
      <4>1. f[i] = f[i - 1] \o s[i]
        BY <3>2, <1>11
      <4>2. i # 1
        BY ONLY <3>2, <1>1
      <4>3. QED
        BY ONLY <4>1, <4>2
    <3>3. QED
      BY <1>1, <3>1, <3>2
  <2>2. f = [i \in 1 .. n |-> f[i]]
    BY <1>10
  <2>3. QED
    BY <2>1, <2>2
<1>13. Flat(g)
  BY <1>12
<1>14. FlattenSeq(s) = g[n]
  BY <1>1 DEF FlattenSeq, n
<1> HIDE DEF g
<1>15. g[1] = s[1] /\ \A i \in 2 .. n : g[i] = g[i - 1] \o s[i]
  <2>1. \A i \in 1 .. n : g[i] = IF i = 1 THEN s[i] ELSE g[i - 1] \o s[i]
    BY <1>13
  <2>2. 1 \in 1 .. n /\ \A i \in 2 .. n : i \in 1 .. n /\ i # 1
    BY <1>1
  <2>3. QED
    BY ONLY <2>1, <2>2
<1> DEFINE S == {k \in Nat : k + 1 <= n => g[k + 1] = f[k + 1]}
<1>16. 0 \in S
  BY <1>10, <1>15
<1>17. ASSUME NEW k \in Nat, k \in S PROVE k + 1 \in S
  <2>1. SUFFICES ASSUME (k + 1) + 1 <= n PROVE g[(k + 1) + 1] = f[(k + 1) + 1]
    OBVIOUS
  <2>2. g[k + 1] = f[k + 1] /\ (k + 1) + 1 \in 2 .. n /\ ((k + 1) + 1) - 1 = k + 1
    BY <1>1, <1>17, <2>1
  <2>3. QED
    BY <1>11, <1>15, <2>2
<1> HIDE DEF S
<1>18. n - 1 \in S
  BY <1>1, <1>16, <1>17, NatSet
<1>19. g[n] = f[n]
  BY <1>1, <1>18 DEF S
<1>20. QED
  BY <1>10, <1>11, <1>14, <1>19 DEF Flattens, n

LEMMA FlatNothing == FlattenSeq(<<>>) = <<>>
BY DEF FlattenSeq

LEMMA FlatTyped ==
  ASSUME NEW s \in Seq(Seq(Item))
  PROVE  FlattenSeq(s) \in Seq(Item)
<1>1. CASE Len(s) > 0
  <2>1. PICK f : Flattens(s, Len(s), f) /\ FlattenSeq(s) = f[Len(s)]
    BY <1>1, FlattensExist
  <2>2. Len(s) \in 1 .. Len(s)
    BY <1>1, LenProperties
  <2>3. f \in [1 .. Len(s) -> Seq(Item)]
    BY <2>1 DEF Flattens
  <2>4. f[Len(s)] \in Seq(Item)
    BY ONLY <2>2, <2>3
  <2>5. QED
    BY ONLY <2>1, <2>4
<1>2. CASE ~(Len(s) > 0)
  <2>1. Len(s) = 0
    BY <1>2, LenProperties
  <2>2. s = <<>>
    BY <2>1, EmptySeq
  <2>3. <<>> \in Seq(Item)
    BY EmptySeq
  <2>4. QED
    BY <2>2, <2>3, FlatNothing
<1>3. QED
  BY <1>1, <1>2

\* The first piece, and the others behind it.
LEMMA FlatFirst ==
  ASSUME NEW s \in Seq(Seq(Item)), Len(s) > 0
  PROVE  FlattenSeq(s) = s[1] \o FlattenSeq(From(s, 2))
<1> DEFINE n == Len(s)
           r == From(s, 2)
<1>1. n \in Nat \ {0} /\ \A i \in 1 .. n : s[i] \in Seq(Item)
  BY LenProperties, ElementOfSeq
<1>2. 1 \in 0 .. n
  BY <1>1
<1>3. r \in Seq(Seq(Item)) /\ Len(r) = n - 1 /\ \A i \in 1 .. n - 1 : r[i] = s[1 + i]
  BY <1>2, FromIs
<1> HIDE DEF r
<1>4. PICK f : Flattens(s, n, f) /\ FlattenSeq(s) = f[n]
  BY <1>1, FlattensExist
<1> HIDE DEF n
<1>5. CASE n = 1
  <2>1. r = <<>>
    BY <1>3, <1>5, EmptySeq
  <2>2. FlattenSeq(s) = s[1] /\ s[1] \in Seq(Item)
    BY <1>1, <1>4, <1>5 DEF Flattens
  <2>3. QED
    BY <2>1, <2>2, FlatNothing, ConcatEmptySeq DEF r
<1>6. CASE n > 1
  <2>1. Len(r) > 0 /\ Len(r) = n - 1 /\ n \in Nat
    BY <1>1, <1>3, <1>6
  <2>2. \E g : Flattens(r, Len(r), g) /\ FlattenSeq(r) = g[Len(r)]
    BY <1>3, <2>1, FlattensExist
  <2>3. PICK g : Flattens(r, n - 1, g) /\ FlattenSeq(r) = g[n - 1]
    BY <2>1, <2>2
  <2>4. /\ f \in [1 .. n -> Seq(Item)] /\ f[1] = s[1]
        /\ \A i \in 2 .. n : f[i] = f[i - 1] \o s[i]
    BY <1>4 DEF Flattens
  <2>5. /\ g \in [1 .. n - 1 -> Seq(Item)] /\ g[1] = r[1]
        /\ \A i \in 2 .. n - 1 : g[i] = g[i - 1] \o r[i]
    BY <2>3 DEF Flattens
  <2>6. n \in Nat /\ n > 1 /\ \A i \in 1 .. n - 1 : r[i] = s[1 + i]
    BY <1>1, <1>3, <1>6
  <2> DEFINE S == {k \in Nat : k + 2 <= n => f[k + 2] = s[1] \o g[k + 1]}
  <2>7. 0 \in S
    <3>1. 2 \in 2 .. n /\ 2 - 1 = 1 /\ 1 \in 1 .. n - 1 /\ 1 + 1 = 2
      BY <2>6
    <3>2. f[2] = f[1] \o s[2] /\ f[1] = s[1]
      BY <3>1, <2>4
    <3>3. g[1] = s[2]
      BY <3>1, <2>5, <2>6
    <3>4. f[2] = s[1] \o g[1]
      BY ONLY <3>2, <3>3, Zenon
    <3>5. 0 + 2 = 2 /\ 0 + 1 = 1 /\ 0 \in Nat
      OBVIOUS
    <3>6. QED
      BY <3>4, <3>5, Zenon
  <2>8. ASSUME NEW k \in Nat, k \in S PROVE k + 1 \in S
    <3>1. k \in Nat /\ k + 1 \in Nat
      OBVIOUS
    <3>2. SUFFICES ASSUME (k + 1) + 2 <= n PROVE f[(k + 1) + 2] = s[1] \o g[(k + 1) + 1]
      BY <3>1, Zenon
    <3>3. k + 2 <= n => f[k + 2] = s[1] \o g[k + 1]
      BY <2>8, Zenon
    <3>4. k + 2 <= n
      BY ONLY <3>1, <3>2, <2>6
    <3>5. f[k + 2] = s[1] \o g[k + 1]
      BY ONLY <3>3, <3>4
    <3>6. /\ k + 3 \in 2 .. n /\ k + 2 \in 2 .. n - 1 /\ k + 2 \in 1 .. n - 1 /\ k + 1 \in 1 .. n - 1
          /\ (k + 1) + 2 = k + 3 /\ (k + 1) + 1 = k + 2 /\ (k + 3) - 1 = k + 2 /\ (k + 2) - 1 = k + 1
          /\ 1 + (k + 2) = k + 3 /\ k + 3 \in 1 .. n /\ 1 \in 1 .. n
      BY <3>2, <1>1
    <3>7. f[k + 3] = f[k + 2] \o s[k + 3] /\ g[k + 2] = g[k + 1] \o r[k + 2] /\ r[k + 2] = s[k + 3]
      BY <3>6, <2>4, <2>5, <2>6
    <3>8. g[k + 1] \in Seq(Item) /\ s[1] \in Seq(Item) /\ s[k + 3] \in Seq(Item)
      BY <3>6, <1>1, <2>5
    <3>9. s[1] \o (g[k + 1] \o s[k + 3]) = (s[1] \o g[k + 1]) \o s[k + 3]
      BY <3>8, Together
    <3>10. QED
      BY <3>5, <3>6, <3>7, <3>9
  <2> HIDE DEF S
  <2>9. n - 2 \in Nat /\ (n - 2) + 2 = n /\ (n - 2) + 1 = n - 1 /\ n <= n
    BY <2>6
  <2>10. n - 2 \in S
    BY <2>7, <2>8, <2>9, NatSet
  <2>11. (n - 2) + 2 <= n => f[(n - 2) + 2] = s[1] \o g[(n - 2) + 1]
    BY <2>10 DEF S
  <2>12. f[n] = s[1] \o g[n - 1]
    BY <2>9, <2>11
  <2>13. QED
    BY <1>4, <2>3, <2>12 DEF r
<1>7. QED
  BY <1>1, <1>5, <1>6

\* A piece behind the others.
LEMMA FlatAppend ==
  ASSUME NEW s \in Seq(Seq(Item)), NEW w \in Seq(Item)
  PROVE  FlattenSeq(Append(s, w)) = FlattenSeq(s) \o w
<1> DEFINE n == Len(s)
           r == Append(s, w)
<1>1. n \in Nat /\ \A i \in 1 .. n : s[i] \in Seq(Item)
  BY LenProperties, ElementOfSeq
<1>2. r \in Seq(Seq(Item)) /\ Len(r) = n + 1 /\ r[n + 1] = w /\ \A i \in 1 .. n : r[i] = s[i]
  BY AppendProperties
<1> HIDE DEF r
<1>3. PICK g : Flattens(r, n + 1, g) /\ FlattenSeq(r) = g[n + 1]
  BY <1>1, <1>2, FlattensExist
<1>4. CASE n = 0
  <2>1. s = <<>>
    BY <1>4, EmptySeq
  <2>2. FlattenSeq(r) = w
    BY <1>2, <1>3, <1>4 DEF Flattens
  <2>3. QED
    BY <2>1, <2>2, FlatNothing, ConcatEmptySeq DEF r
<1>5. CASE n > 0
  <2>1. PICK f : Flattens(s, n, f) /\ FlattenSeq(s) = f[n]
    BY <1>5, FlattensExist
  <2> HIDE DEF n
  <2> DEFINE S == {k \in Nat : k + 1 <= n => f[k + 1] = g[k + 1]}
  <2>2. 0 \in S
    BY <1>1, <1>2, <1>3, <1>5, <2>1 DEF Flattens
  <2>3. ASSUME NEW k \in Nat, k \in S PROVE k + 1 \in S
    <3>1. SUFFICES ASSUME (k + 1) + 1 <= n PROVE f[(k + 1) + 1] = g[(k + 1) + 1]
      OBVIOUS
    <3>2. f[k + 1] = g[k + 1]
      BY <2>3, <3>1, <1>1
    <3>3. /\ (k + 1) + 1 \in 2 .. n /\ (k + 1) + 1 \in 2 .. n + 1 /\ ((k + 1) + 1) - 1 = k + 1
          /\ (k + 1) + 1 \in 1 .. n
      BY <3>1, <1>1
    <3>4. f[(k + 1) + 1] = f[k + 1] \o s[(k + 1) + 1]
      BY ONLY <2>1, <3>3 DEF Flattens
    <3>5. g[(k + 1) + 1] = g[k + 1] \o r[(k + 1) + 1]
      BY ONLY <1>3, <3>3 DEF Flattens
    <3>6. QED
      BY ONLY <3>2, <3>3, <3>4, <3>5, <1>2
  <2> HIDE DEF S
  <2>4. n - 1 \in Nat /\ (n - 1) + 1 = n
    BY <1>1, <1>5
  <2>5. n - 1 \in S
    BY <2>2, <2>3, <2>4, NatSet
  <2>6. f[n] = g[n]
    BY <2>4, <2>5 DEF S
  <2>7. n + 1 \in 2 .. n + 1 /\ (n + 1) - 1 = n
    BY <1>1, <1>5
  <2>8. g[n + 1] = g[n] \o w
    BY <2>7, <1>2, <1>3 DEF Flattens
  <2>9. QED
    BY <1>3, <2>1, <2>6, <2>8 DEF r
<1>6. QED
  BY <1>1, <1>4, <1>5

-----------------------------------------------------------------------------
(* What the parser does to a connection, operator by operator. *)

States == {"IDLE", "REQUEST_LINE", "HEADERS", "BODY", "COMPLETE", "ERROR"}
Connection ==
  [buffer : Seq(Item), limit : Nat, erased : BOOLEAN, state : States, code : Nat,
   method : Word, target : Word, headers : Seq(HeaderField), length : Nat, chunked : BOOLEAN,
   size : Nat, trailing : BOOLEAN, done : BOOLEAN, max : Nat, written : Nat, body : Seq(Item)]

\* What c and d agree in.
SameLine(c, d) == d.method = c.method /\ d.target = c.target
SameLimit(c, d) == d.max = c.max /\ d.limit = c.limit /\ d.erased = c.erased
SameFraming(c, d) == d.length = c.length /\ d.chunked = c.chunked
SameChunk(c, d) == d.size = c.size /\ d.trailing = c.trailing /\ d.done = c.done
SameBody(c, d) == d.written = c.written /\ d.body = c.body
SameRequest(c, d) == SameLine(c, d) /\ SameLimit(c, d) /\ SameFraming(c, d)
SameState(c, d) == d.state = c.state /\ d.code = c.code

LEMMA Sizes ==
  /\ ServerLimit \in Nat \ {0} /\ LocationLimit \in Nat /\ MaxHeaders \in Nat
  /\ MaxRequests \in Nat \ {0} /\ RecvSize \in Nat \ {0} /\ SocketSize \in Nat \ {0}
  /\ PageSize \in Nat /\ PieceSize \in Nat \ {0}
BY Limits, Intake

LEMMA BlankTyped == Blank \in Connection
<1>1. <<>> \in Seq(Item) /\ <<>> \in Seq(HeaderField)
  BY EmptySeq
<1>2. ServerLimit \in Nat /\ "IDLE" \in States /\ "" \in Word
  BY Sizes DEF States, Word
<1>3. Blank \in [buffer : Seq(Item), limit : Nat, erased : BOOLEAN, state : States, code : Nat,
                method : Word, target : Word, headers : Seq(HeaderField), length : Nat,
                chunked : BOOLEAN, size : Nat, trailing : BOOLEAN, done : BOOLEAN, max : Nat,
                written : Nat, body : Seq(Item)]
  BY <1>1, <1>2 DEF Blank
<1>4. QED
  BY <1>3 DEF Connection

LEMMA FailsIs ==
  ASSUME NEW c \in Connection, NEW code \in Nat
  PROVE  LET d == Fails(c, code)
         IN  /\ d \in Connection /\ d.state = "ERROR" /\ d.code = code
             /\ d.buffer = c.buffer /\ d.headers = c.headers
             /\ SameRequest(c, d) /\ SameChunk(c, d) /\ SameBody(c, d)
BY DEF Fails, Connection, States, SameRequest, SameLine, SameLimit, SameFraming, SameChunk, SameBody

LEMMA ConsumeIs ==
  ASSUME NEW c \in Connection, NEW n \in 0 .. Len(c.buffer)
  PROVE  LET d == Consume(c, n)
         IN  /\ d \in Connection /\ d.buffer = From(c.buffer, n + 1) /\ d.headers = c.headers
             /\ SameState(c, d) /\ SameRequest(c, d) /\ SameChunk(c, d) /\ SameBody(c, d)
<1>1. From(c.buffer, n + 1) \in Seq(Item)
  BY FromIs DEF Connection
<1>2. SubSeq(c.buffer, n + 1, Len(c.buffer)) = From(c.buffer, n + 1)
  BY DEF From
<1>3. Consume(c, n) = [c EXCEPT !.buffer = From(c.buffer, n + 1)]
  BY <1>2 DEF Consume
<1> HIDE DEF From
<1>4. QED
  BY <1>1, <1>3 DEF Connection, SameState, SameRequest, SameLine, SameLimit, SameFraming, SameChunk, SameBody

\* find_crlf.
LEMMA CrlfFirst ==
  ASSUME NEW b \in Seq(Item)
  PROVE  \/ CrlfIn(b) = 0 /\ \A i \in 1 .. Len(b) - 1 : ~(b[i] = CR /\ b[i + 1] = LF)
         \/ /\ CrlfIn(b) \in 1 .. Len(b) - 1
            /\ b[CrlfIn(b)] = CR /\ b[CrlfIn(b) + 1] = LF
            /\ \A i \in 1 .. CrlfIn(b) - 1 : ~(b[i] = CR /\ b[i + 1] = LF)
<1> DEFINE at == {i \in 1 .. Len(b) - 1 : b[i] = CR /\ b[i + 1] = LF}
<1>1. CASE at = {}
  BY <1>1 DEF CrlfIn
<1>2. CASE at # {}
  <2>1. at \in SUBSET Nat
    BY LenProperties
  <2>2. \E i \in at : \A j \in at : i <= j
    BY <1>2, <2>1, LeastNat
  <2>3. CrlfIn(b) = CHOOSE i \in at : \A j \in at : i <= j
    BY <1>2 DEF CrlfIn
  <2>4. CrlfIn(b) \in at /\ \A j \in at : CrlfIn(b) <= j
    BY <2>2, <2>3
  <2>5. Len(b) \in Nat
    BY LenProperties
  <2> DEFINE m == CrlfIn(b)
  <2>6. m \in at /\ \A j \in at : m <= j
    BY <2>4
  <2> HIDE DEF m
  <2>7. m \in 1 .. Len(b) - 1 /\ b[m] = CR /\ b[m + 1] = LF
    BY <2>6
  <2>8. ASSUME NEW i \in 1 .. m - 1 PROVE ~(b[i] = CR /\ b[i + 1] = LF)
    BY <2>5, <2>6, <2>7
  <2>9. QED
    BY <2>7, <2>8 DEF m
<1>3. QED
  BY <1>1, <1>2

-----------------------------------------------------------------------------
(* Header fields. *)

LEMMA ValueTyped ==
  ASSUME NEW headers \in Seq(HeaderField), NEW name
  PROVE  /\ ValueOf(headers, name) \in Nat
         /\ name \in Names(headers) =>
              \E i \in 1 .. Len(headers) : headers[i].name = name /\ ValueOf(headers, name) = headers[i].n
<1>1. \A i \in 1 .. Len(headers) : headers[i] \in HeaderField /\ headers[i].n \in Nat
  <2>1. \A i \in 1 .. Len(headers) : headers[i] \in HeaderField
    BY ElementOfSeq
  <2>2. QED
    BY <2>1 DEF HeaderField
<1>2. ToSet(headers) = {headers[i] : i \in 1 .. Len(headers)}
  BY DOMAIN headers = 1 .. Len(headers) DEF ToSet
<1>3. CASE name \notin Names(headers)
  BY <1>3 DEF ValueOf
<1>4. CASE name \in Names(headers)
  <2>1. PICK j \in 1 .. Len(headers) : headers[j].name = name
    BY <1>4 DEF Names
  <2>2. \E h \in ToSet(headers) : h.name = name
    BY <1>2, <2>1
  <2> DEFINE h == CHOOSE x \in ToSet(headers) : x.name = name
  <2>3. h \in ToSet(headers) /\ h.name = name
    BY <2>2
  <2>4. ValueOf(headers, name) = h.n
    BY <1>4 DEF ValueOf
  <2> HIDE DEF h
  <2>5. PICK i \in 1 .. Len(headers) : h = headers[i]
    BY <1>2, <2>3
  <2>6. QED
    BY <1>1, <2>3, <2>4, <2>5
<1>5. QED
  BY <1>3, <1>4

Unclear(headers) == {"content-length", "transfer-encoding"} \subseteq Names(headers)
Sound(headers) ==
  /\ "host" \in Names(headers) /\ ~Unclear(headers)
  /\ ValueOf(headers, "content-length") <= ServerLimit
IsChunked(headers) == ValueOf(headers, "transfer-encoding") = 1

LEMMA HeadersEndIs ==
  ASSUME NEW c \in Connection
  PROVE  LET d == HeadersEnd(c)
             length == ValueOf(c.headers, "content-length")
         IN  /\ d \in Connection /\ d.buffer = c.buffer /\ d.headers = c.headers
             /\ SameLine(c, d) /\ SameLimit(c, d) /\ SameChunk(c, d) /\ SameBody(c, d)
             /\ \/ d.state = "ERROR" /\ d.code = 400
                     /\ ("host" \notin Names(c.headers) \/ Unclear(c.headers))
                \/ d.state = "ERROR" /\ d.code = 413 /\ ~Unclear(c.headers) /\ length > ServerLimit
                \/ /\ d.state = "ERROR" /\ d.code = 411 /\ Sound(c.headers)
                   /\ ~IsChunked(c.headers) /\ length = 0 /\ c.method = "POST"
                \/ /\ d.state = "COMPLETE" /\ Sound(c.headers) /\ SameFraming(c, d)
                   /\ ~IsChunked(c.headers) /\ length = 0 /\ c.method # "POST"
                \/ /\ d.state = "BODY" /\ Sound(c.headers)
                   /\ d.chunked = IsChunked(c.headers) /\ d.length = length
                   /\ d.chunked \/ d.length > 0
<1> DEFINE length == ValueOf(c.headers, "content-length")
           d == HeadersEnd(c)
<1>1. c.headers \in Seq(HeaderField)
  BY DEF Connection
<1>2. length \in Nat
  BY <1>1, ValueTyped
<1>3. IsChunked(c.headers) \in BOOLEAN
  BY DEF IsChunked
<1>4. d = IF "host" \notin Names(c.headers) THEN Fails(c, 400)
          ELSE IF Unclear(c.headers) THEN Fails(c, 400)
          ELSE IF length > ServerLimit THEN Fails(c, 413)
          ELSE IF ~IsChunked(c.headers) /\ length = 0
            THEN IF c.method = "POST" THEN Fails(c, 411) ELSE [c EXCEPT !.state = "COMPLETE"]
          ELSE [c EXCEPT !.chunked = IsChunked(c.headers), !.length = length, !.state = "BODY"]
  BY DEF HeadersEnd, Unclear, IsChunked
<1> HIDE DEF d, length
<1>5. ASSUME NEW code \in {400, 411, 413}, d = Fails(c, code)
      PROVE  /\ d \in Connection /\ d.buffer = c.buffer /\ d.headers = c.headers
             /\ SameLine(c, d) /\ SameLimit(c, d) /\ SameChunk(c, d) /\ SameBody(c, d)
             /\ d.state = "ERROR" /\ d.code = code
  <2>1. code \in Nat
    OBVIOUS
  <2>2. QED
    BY <1>5, <2>1, FailsIs DEF SameRequest
<1>6. ASSUME d = [c EXCEPT !.state = "COMPLETE"]
      PROVE  /\ d \in Connection /\ d.buffer = c.buffer /\ d.headers = c.headers
             /\ SameLine(c, d) /\ SameLimit(c, d) /\ SameChunk(c, d) /\ SameBody(c, d)
             /\ d.state = "COMPLETE" /\ SameFraming(c, d)
  BY <1>6 DEF Connection, States, SameLine, SameLimit, SameFraming, SameChunk, SameBody
<1>7. ASSUME d = [c EXCEPT !.chunked = IsChunked(c.headers), !.length = length, !.state = "BODY"]
      PROVE  /\ d \in Connection /\ d.buffer = c.buffer /\ d.headers = c.headers
             /\ SameLine(c, d) /\ SameLimit(c, d) /\ SameChunk(c, d) /\ SameBody(c, d)
             /\ d.state = "BODY" /\ d.chunked = IsChunked(c.headers) /\ d.length = length
  BY <1>2, <1>3, <1>7 DEF Connection, States, SameLine, SameLimit, SameChunk, SameBody
<1>8. Sound(c.headers) <=>
        "host" \in Names(c.headers) /\ ~Unclear(c.headers) /\ length <= ServerLimit
  BY DEF Sound, length
<1>9. ServerLimit \in Nat
  BY Sizes
<1>10. CASE "host" \notin Names(c.headers) \/ Unclear(c.headers)
  <2>1. d = Fails(c, 400) /\ 400 \in {400, 411, 413}
    BY <1>4, <1>10
  <2>2. QED
    BY <1>5, <2>1, <1>10 DEF d, length
<1>11. CASE "host" \in Names(c.headers) /\ ~Unclear(c.headers) /\ length > ServerLimit
  <2>1. d = Fails(c, 413) /\ 413 \in {400, 411, 413}
    BY <1>4, <1>11
  <2>2. QED
    BY <1>5, <2>1, <1>11 DEF d, length
<1>12. CASE Sound(c.headers) /\ ~IsChunked(c.headers) /\ length = 0
  <2>1. ~(length > ServerLimit)
    BY <1>2, <1>8, <1>9, <1>12
  <2>2. CASE c.method = "POST"
    <3>1. d = Fails(c, 411) /\ 411 \in {400, 411, 413}
      BY <1>4, <1>8, <1>12, <2>1, <2>2
    <3>2. QED
      BY <1>5, <3>1, <1>12, <2>2 DEF d, length
  <2>3. CASE c.method # "POST"
    <3>1. d = [c EXCEPT !.state = "COMPLETE"]
      BY <1>4, <1>8, <1>12, <2>1, <2>3
    <3>2. QED
      BY <1>6, <3>1, <1>12, <2>3 DEF d, length
  <2>4. QED
    BY <2>2, <2>3
<1>13. CASE Sound(c.headers) /\ ~(~IsChunked(c.headers) /\ length = 0)
  <2>1. ~(length > ServerLimit) /\ (IsChunked(c.headers) \/ length > 0)
    BY <1>2, <1>8, <1>9, <1>13
  <2>2. d = [c EXCEPT !.chunked = IsChunked(c.headers), !.length = length, !.state = "BODY"]
    BY <1>4, <1>8, <1>13, <2>1
  <2>3. QED
    BY <1>7, <2>1, <2>2, <1>13 DEF d, length
<1>14. QED
  BY <1>2, <1>8, <1>9, <1>10, <1>11, <1>12, <1>13

\* The header fields with h among them.
More(headers, h) ==
  IF h.name \notin Names(headers) THEN Append(headers, h)
  ELSE [i \in 1 .. Len(headers) |->
          IF headers[i].name = h.name THEN Header(h.name, 0) ELSE headers[i]]

LEMMA MoreTyped ==
  ASSUME NEW headers \in Seq(HeaderField), NEW h \in HeaderField
  PROVE  /\ More(headers, h) \in Seq(HeaderField)
         /\ Len(More(headers, h)) = IF h.name \notin Names(headers) THEN Len(headers) + 1 ELSE Len(headers)
<1>1. CASE h.name \notin Names(headers)
  <2>1. More(headers, h) = Append(headers, h)
    BY <1>1 DEF More
  <2>2. QED
    BY <1>1, <2>1, AppendProperties
<1>2. CASE h.name \in Names(headers)
  <2> DEFINE t == [i \in 1 .. Len(headers) |->
                     IF headers[i].name = h.name THEN Header(h.name, 0) ELSE headers[i]]
  <2>1. More(headers, h) = t
    BY <1>2 DEF More
  <2>2. Header(h.name, 0) \in HeaderField
    BY ItemKinds
  <2>3. \A i \in 1 .. Len(headers) : headers[i] \in HeaderField
    BY ElementOfSeq
  <2>4. Len(headers) \in Nat
    BY LenProperties
  <2>5. t \in [1 .. Len(headers) -> HeaderField]
    BY <2>2, <2>3
  <2>6. t \in Seq(HeaderField)
    BY <2>4, <2>5, IsASeq
  <2>7. Len(t) = Len(headers)
    BY <2>4, <2>6, LenProperties
  <2>8. QED
    BY <1>2, <2>1, <2>6, <2>7
<1>3. QED
  BY <1>1, <1>2

LEMMA AddHeaderIs ==
  ASSUME NEW c \in Connection, NEW h \in HeaderField
  PROVE  LET d == AddHeader(c, h)
         IN  /\ d \in Connection /\ d.buffer = c.buffer
             /\ SameRequest(c, d) /\ SameChunk(c, d) /\ SameBody(c, d)
             /\ \/ d.state = "ERROR" /\ d.code = 431 /\ h.name = "long"
                \/ d.state = "ERROR" /\ d.code = 400 /\ h.name \in Singletons \cap Names(c.headers)
                \/ d.state = "ERROR" /\ d.code = 431 /\ Len(More(c.headers, h)) > MaxHeaders
                \/ /\ SameState(c, d) /\ d.headers = More(c.headers, h)
                   /\ h.name # "long" /\ h.name \notin Singletons \cap Names(c.headers)
                   /\ Len(More(c.headers, h)) <= MaxHeaders
<1> DEFINE m == More(c.headers, h)
           d == AddHeader(c, h)
           e == [c EXCEPT !.headers = m]
<1>1. c.headers \in Seq(HeaderField)
  BY DEF Connection
<1>2. m \in Seq(HeaderField) /\ Len(m) \in Nat /\ MaxHeaders \in Nat
  BY <1>1, MoreTyped, LenProperties, Sizes
<1>3. d = IF h.name = "long" THEN Fails(c, 431)
          ELSE IF h.name \in Singletons /\ h.name \in Names(c.headers) THEN Fails(c, 400)
          ELSE IF Len(m) > MaxHeaders THEN Fails(e, 431) ELSE e
  BY DEF AddHeader, More
<1> HIDE DEF m
<1>4. /\ e \in Connection /\ e.buffer = c.buffer /\ e.headers = m
      /\ SameState(c, e) /\ SameRequest(c, e) /\ SameChunk(c, e) /\ SameBody(c, e)
  BY <1>2 DEF Connection, SameState, SameRequest, SameLine, SameLimit, SameFraming, SameChunk, SameBody
<1> HIDE DEF d, e
<1>5. CASE h.name = "long"
  <2>1. d = Fails(c, 431)
    BY <1>3, <1>5
  <2>2. QED
    BY <1>5, <2>1, FailsIs DEF d
<1>6. CASE h.name # "long" /\ h.name \in Singletons \cap Names(c.headers)
  <2>1. d = Fails(c, 400)
    BY <1>3, <1>6
  <2>2. QED
    BY <1>6, <2>1, FailsIs DEF d
<1>7. CASE h.name # "long" /\ h.name \notin Singletons \cap Names(c.headers) /\ Len(m) > MaxHeaders
  <2>1. d = Fails(e, 431)
    BY <1>3, <1>7
  <2>2. /\ d \in Connection /\ d.state = "ERROR" /\ d.code = 431 /\ d.buffer = e.buffer
        /\ SameRequest(e, d) /\ SameChunk(e, d) /\ SameBody(e, d)
    BY <1>4, <2>1, FailsIs
  <2>3. SameRequest(c, d) /\ SameChunk(c, d) /\ SameBody(c, d)
    BY <1>4, <2>2 DEF SameRequest, SameLine, SameLimit, SameFraming, SameChunk, SameBody
  <2>4. QED
    BY <1>4, <1>7, <2>2, <2>3 DEF d, m
<1>8. CASE h.name # "long" /\ h.name \notin Singletons \cap Names(c.headers) /\ ~(Len(m) > MaxHeaders)
  <2>1. d = e /\ Len(m) <= MaxHeaders
    BY <1>2, <1>3, <1>8
  <2>2. QED
    BY <1>4, <1>8, <2>1 DEF d, m
<1>9. QED
  BY <1>5, <1>6, <1>7, <1>8


LEMMA HeaderStepIs ==
  ASSUME NEW c \in Connection
  PROVE  LET d == HeaderStep(c)
             n == CrlfIn(c.buffer)
         IN  /\ d \in Connection
             /\ SameLine(c, d) /\ SameLimit(c, d) /\ SameChunk(c, d) /\ SameBody(c, d)
             /\ \/ d = c /\ (c.state # "HEADERS" \/ n = 0)
                \/ /\ c.state = "HEADERS" /\ d.state \in {"HEADERS", "BODY", "COMPLETE", "ERROR"}
                   /\ n \in 1 .. Len(c.buffer) - 1 /\ d.buffer = From(c.buffer, n + 2)
                   /\ d.state = "BODY" => d.chunked \/ d.length > 0
                   /\ d.state # "BODY" => SameFraming(c, d)
<1> DEFINE n == CrlfIn(c.buffer)
           d == HeaderStep(c)
           e == Consume(c, n + 1)
<1>1. c.buffer \in Seq(Item) /\ Len(c.buffer) \in Nat
  BY LenProperties DEF Connection
<1>2. CASE c.state # "HEADERS" \/ n = 0
  <2>1. d = c
    BY <1>2 DEF HeaderStep
  <2>2. SameLine(c, c) /\ SameLimit(c, c) /\ SameChunk(c, c) /\ SameBody(c, c)
    BY DEF SameLine, SameLimit, SameChunk, SameBody
  <2>3. QED
    BY <1>2, <2>1, <2>2
<1>3. CASE c.state = "HEADERS" /\ n # 0
  <2>1. n \in 1 .. Len(c.buffer) - 1
    BY <1>1, <1>3, CrlfFirst
  <2>2. n + 1 \in 0 .. Len(c.buffer) /\ (n + 1) + 1 = n + 2
    BY <1>1, <2>1
  <2> HIDE DEF n
  <2>3. /\ e \in Connection /\ e.buffer = From(c.buffer, n + 2) /\ e.headers = c.headers
        /\ SameState(c, e) /\ SameRequest(c, e) /\ SameChunk(c, e) /\ SameBody(c, e)
    BY <2>2, ConsumeIs
  <2> HIDE DEF e
  <2> DEFINE Good(x) ==
        /\ x \in Connection /\ x.buffer = e.buffer
        /\ SameLine(e, x) /\ SameLimit(e, x) /\ SameChunk(e, x) /\ SameBody(e, x)
        /\ x.state \in {"HEADERS", "BODY", "COMPLETE", "ERROR"}
        /\ x.state = "BODY" => x.chunked \/ x.length > 0
        /\ x.state # "BODY" => SameFraming(e, x)
  <2>4. d = HeadersEnd(e) \/ d = Fails(e, 400) \/ (c.buffer[1].kind = "header" /\ d = AddHeader(e, c.buffer[1]))
    <3>1. 1 + 1 = 2
      OBVIOUS
    <3>2. CASE n = 1
      BY <3>1, <3>2, <1>3 DEF HeaderStep, n, e
    <3>3. CASE n # 1
      BY <3>3, <1>3 DEF HeaderStep, n, e
    <3>4. QED
      BY <3>2, <3>3
  <2> HIDE DEF d
  <2>5. ASSUME d = HeadersEnd(e) PROVE Good(d)
    <3>1. /\ d \in Connection /\ d.buffer = e.buffer
          /\ SameLine(e, d) /\ SameLimit(e, d) /\ SameChunk(e, d) /\ SameBody(e, d)
      BY <2>3, <2>5, HeadersEndIs
    <3>2. \/ d.state = "BODY" /\ (d.chunked \/ d.length > 0)
          \/ d.state = "COMPLETE" /\ SameFraming(e, d)
          \/ d.state = "ERROR"
      BY <2>3, <2>5, HeadersEndIs
    <3>3. d.state = "ERROR" => SameFraming(e, d)
      BY <2>3, <2>5, FailsIs DEF HeadersEnd, SameRequest
    <3>4. QED
      BY <3>1, <3>2, <3>3
  <2>6. ASSUME d = Fails(e, 400) PROVE Good(d)
    <3>1. 400 \in Nat
      OBVIOUS
    <3>2. QED
      BY ONLY <2>3, <2>6, <3>1, FailsIs, SMTT(20) DEF SameRequest
  <2>7. ASSUME c.buffer[1].kind = "header" /\ d = AddHeader(e, c.buffer[1]) PROVE Good(d)
    <3>1. 1 \in 1 .. Len(c.buffer)
      BY <1>1, <2>1
    <3>2. c.buffer[1] \in Item
      BY <1>1, <3>1, ElementOfSeq
    <3>3. c.buffer[1] \in HeaderField
      BY <2>7, <3>2, KindsOfItem
    <3>4. /\ d \in Connection /\ d.buffer = e.buffer
          /\ SameRequest(e, d) /\ SameChunk(e, d) /\ SameBody(e, d)
          /\ d.state = "ERROR" \/ SameState(e, d)
      BY <2>3, <2>7, <3>3, AddHeaderIs
    <3>5. d.state \in {"HEADERS", "ERROR"}
      BY <1>3, <2>3, <3>4 DEF SameState
    <3>6. QED
      BY <3>4, <3>5 DEF SameRequest
  <2>8. Good(d)
    BY <2>4, <2>5, <2>6, <2>7
  <2>9. SameLine(c, d) /\ SameLimit(c, d) /\ SameChunk(c, d) /\ SameBody(c, d)
    BY <2>3, <2>8 DEF SameRequest, SameLine, SameLimit, SameChunk, SameBody
  <2>10. d.state # "BODY" => SameFraming(c, d)
    BY <2>3, <2>8 DEF SameRequest, SameFraming
  <2>11. QED
    BY <1>3, <2>1, <2>3, <2>8, <2>9, <2>10 DEF n, d
<1>4. QED
  BY <1>2, <1>3

-----------------------------------------------------------------------------
(* Bodies. *)

LEMMA LeastIs ==
  ASSUME NEW a \in Nat, NEW b \in Nat
  PROVE  Least(a, b) \in Nat /\ Least(a, b) <= a /\ Least(a, b) <= b /\ Least(a, b) \in {a, b}
BY DEF Least

\* n items have moved from the buffer to the body.
Taken(c, d, n) ==
  /\ d.buffer = From(c.buffer, n + 1) /\ d.headers = c.headers
  /\ SameRequest(c, d)
  /\ d.written = c.written + n /\ d.body = c.body \o SubSeq(c.buffer, 1, n)

LEMMA TakeIs ==
  ASSUME NEW c \in Connection, NEW n \in 0 .. Len(c.buffer)
  PROVE  LET d == Take(c, n)
         IN  /\ d \in Connection
             /\ \/ c.written + n > c.max /\ d = Fails(c, 413)
                \/ /\ c.written + n <= c.max
                   /\ Taken(c, d, n) /\ SameState(c, d) /\ SameChunk(c, d)
<1> DEFINE d == Take(c, n)
           first == SubSeq(c.buffer, 1, n)
           e == [c EXCEPT !.body = c.body \o first, !.written = c.written + n]
<1>1. /\ c.buffer \in Seq(Item) /\ Len(c.buffer) \in Nat /\ n \in Nat
      /\ c.written \in Nat /\ c.max \in Nat /\ c.body \in Seq(Item)
  BY LenProperties DEF Connection
<1>2. first \in Seq(Item)
  BY <1>1, FirstIs
<1> HIDE DEF first
<1>3. c.body \o first \in Seq(Item) /\ c.written + n \in Nat
  BY <1>1, <1>2, ConcatProperties
<1>4. d = IF c.written + n > c.max THEN Fails(c, 413) ELSE Consume(e, n)
  BY DEF Take, first
<1>5. CASE c.written + n > c.max
  <2>1. d = Fails(c, 413)
    BY <1>4, <1>5
  <2>2. d \in Connection
    BY <2>1, FailsIs
  <2>3. QED
    BY <1>5, <2>1, <2>2
<1>6. CASE ~(c.written + n > c.max)
  <2>1. d = Consume(e, n) /\ c.written + n <= c.max
    BY <1>1, <1>4, <1>6
  <2>2. /\ e \in Connection /\ e.buffer = c.buffer /\ e.headers = c.headers
        /\ SameRequest(c, e) /\ SameState(c, e) /\ SameChunk(c, e)
        /\ e.written = c.written + n /\ e.body = c.body \o first
    BY <1>3 DEF Connection, SameState, SameRequest, SameLine, SameLimit, SameFraming, SameChunk
  <2> HIDE DEF e, d
  <2>3. /\ d \in Connection /\ d.buffer = From(e.buffer, n + 1) /\ d.headers = e.headers
        /\ SameState(e, d) /\ SameRequest(e, d) /\ SameChunk(e, d) /\ SameBody(e, d)
    BY <2>1, <2>2, ConsumeIs
  <2>4. SameState(c, d) /\ SameRequest(c, d) /\ SameChunk(c, d)
    BY <2>2, <2>3 DEF SameState, SameRequest, SameLine, SameLimit, SameFraming, SameChunk
  <2>5. d.written = c.written + n /\ d.body = c.body \o first
    BY <2>2, <2>3 DEF SameBody
  <2>6. QED
    BY <2>1, <2>2, <2>3, <2>4, <2>5 DEF Taken, first, d
<1>7. QED
  BY <1>5, <1>6

LEMMA ParseBodyIs ==
  ASSUME NEW c \in Connection, c.state = "BODY", c.written <= c.length
  PROVE  LET d == ParseBody(c)
             n == Least(c.length - c.written, Len(c.buffer))
         IN  /\ d \in Connection /\ n \in 0 .. Len(c.buffer)
             /\ \/ c.written + n > c.max /\ d = Fails(c, 413)
                \/ /\ c.written + n <= c.max /\ (c.buffer = <<>> \/ c.written + n < c.length)
                   /\ Taken(c, d, n) /\ SameState(c, d) /\ SameChunk(c, d)
                \/ /\ c.written + n <= c.max /\ c.buffer # <<>> /\ c.written + n = c.length
                   /\ d.buffer = <<>> /\ d.state = "COMPLETE" /\ d.headers = c.headers
                   /\ d.max = c.max /\ d.limit = c.limit
                   /\ SameLine(c, d) /\ SameFraming(c, d) /\ SameChunk(c, d)
                   /\ d.written = c.written + n /\ d.body = c.body \o SubSeq(c.buffer, 1, n)
<1> DEFINE d == ParseBody(c)
           n == Least(c.length - c.written, Len(c.buffer))
           e == Take(c, n)
           f == [e EXCEPT !.buffer = <<>>, !.erased = TRUE, !.state = "COMPLETE"]
<1>1. /\ c.buffer \in Seq(Item) /\ Len(c.buffer) \in Nat /\ c.length \in Nat
      /\ c.written \in Nat /\ c.max \in Nat
  BY LenProperties DEF Connection
<1>2. c.length - c.written \in Nat
  BY <1>1
<1>3. n \in 0 .. Len(c.buffer) /\ n <= c.length - c.written
  <2>1. n \in Nat /\ n <= c.length - c.written /\ n <= Len(c.buffer)
    BY <1>1, <1>2, LeastIs
  <2> HIDE DEF n
  <2>2. QED
    BY <1>1, <2>1
<1>4. d = IF c.buffer = <<>> \/ e.state = "ERROR" THEN e
          ELSE IF e.written = e.length THEN f ELSE e
  BY DEF ParseBody
<1> HIDE DEF n
<1>5. /\ e \in Connection
      /\ \/ c.written + n > c.max /\ e = Fails(c, 413)
         \/ /\ c.written + n <= c.max
            /\ Taken(c, e, n) /\ SameState(c, e) /\ SameChunk(c, e)
  BY <1>3, TakeIs
<1>6. <<>> \in Seq(Item)
  BY EmptySeq
<1> HIDE DEF d, e
<1>7. CASE c.written + n > c.max /\ e = Fails(c, 413)
  <2>1. e.state = "ERROR"
    BY <1>7, FailsIs
  <2>2. d = e
    BY <1>4, <2>1
  <2>3. QED
    BY <1>3, <1>5, <1>7, <2>2 DEF d, n
<1>8. CASE /\ c.written + n <= c.max
           /\ Taken(c, e, n) /\ SameState(c, e) /\ SameChunk(c, e)
  <2>1. e.written = c.written + n /\ e.length = c.length
    BY <1>8 DEF Taken, SameRequest, SameFraming
  <2>2. CASE d = e /\ (c.buffer = <<>> \/ c.written + n # c.length)
    <3>1. c.buffer = <<>> \/ c.written + n < c.length
      BY <1>1, <1>3, <2>2
    <3>2. QED
      BY <1>3, <1>5, <1>8, <2>2, <3>1 DEF d, n
  <2>3. CASE d = f /\ c.buffer # <<>> /\ c.written + n = c.length
    <3>1. /\ d \in Connection /\ d.buffer = <<>> /\ d.state = "COMPLETE" /\ d.headers = e.headers
          /\ d.max = e.max /\ d.limit = e.limit /\ SameLine(e, d) /\ SameFraming(e, d) /\ SameChunk(e, d) /\ SameBody(e, d)
      BY <1>5, <1>6, <2>3 DEF Connection, States, SameLine, SameFraming, SameChunk, SameBody
    <3>2. /\ d.headers = c.headers /\ d.max = c.max /\ d.limit = c.limit
          /\ SameLine(c, d) /\ SameFraming(c, d) /\ SameChunk(c, d)
          /\ d.written = c.written + n /\ d.body = c.body \o SubSeq(c.buffer, 1, n)
      BY <1>8, <3>1 DEF Taken, SameRequest, SameLine, SameLimit, SameFraming, SameChunk, SameBody
    <3>3. QED
      BY <1>3, <1>8, <2>3, <3>1, <3>2 DEF d, n
  <2>4. e.state # "ERROR"
    BY <1>8 DEF SameState
  <2>5. QED
    BY <1>4, <2>1, <2>2, <2>3, <2>4
<1>9. QED
  BY <1>5, <1>7, <1>8

LEMMA ChunkTrailingIs ==
  ASSUME NEW c \in Connection
  PROVE  LET d == ChunkTrailing(c)
         IN  /\ d \in Connection
             /\ \/ Len(c.buffer) < 2 /\ d = c
                \/ /\ Len(c.buffer) >= 2 /\ d.buffer = From(c.buffer, 3) /\ d.headers = c.headers
                   /\ SameRequest(c, d) /\ SameBody(c, d)
                   /\ d.size = 0 /\ ~d.trailing /\ d.done = c.done
                   /\ d.state = IF c.done THEN "COMPLETE" ELSE c.state
<1> DEFINE d == ChunkTrailing(c)
           e == Consume(c, 2)
<1>1. c.buffer \in Seq(Item) /\ Len(c.buffer) \in Nat
  BY LenProperties DEF Connection
<1>2. CASE Len(c.buffer) < 2
  BY <1>2 DEF ChunkTrailing
<1>3. CASE ~(Len(c.buffer) < 2)
  <2>1. 2 \in 0 .. Len(c.buffer) /\ Len(c.buffer) >= 2 /\ 2 + 1 = 3
    BY <1>1, <1>3
  <2>2. /\ e \in Connection /\ e.buffer = From(c.buffer, 2 + 1) /\ e.headers = c.headers
        /\ SameState(c, e) /\ SameRequest(c, e) /\ SameChunk(c, e) /\ SameBody(c, e)
    BY <2>1, ConsumeIs
  <2>3. d = [e EXCEPT !.trailing = FALSE, !.size = 0, !.state = IF c.done THEN "COMPLETE" ELSE e.state]
    BY <1>3 DEF ChunkTrailing
  <2> HIDE DEF d, e
  <2>4. /\ d \in Connection /\ d.buffer = e.buffer /\ d.headers = e.headers
        /\ SameRequest(e, d) /\ SameBody(e, d) /\ d.size = 0 /\ ~d.trailing /\ d.done = e.done
        /\ d.state = IF c.done THEN "COMPLETE" ELSE e.state
    BY <2>2, <2>3 DEF Connection, States, SameRequest, SameLine, SameLimit, SameFraming, SameBody
  <2>5. SameRequest(c, d) /\ SameBody(c, d) /\ d.done = c.done /\ e.state = c.state
    BY <2>2, <2>4 DEF SameState, SameChunk, SameRequest, SameLine, SameLimit, SameFraming, SameBody
  <2>6. QED
    BY <2>1, <2>2, <2>4, <2>5 DEF d
<1>4. QED
  BY <1>2, <1>3

\* What the size of a chunk changes.
LEMMA SizeSet ==
  ASSUME NEW e \in Connection, NEW m \in Nat, NEW d, d = [e EXCEPT !.size = m]
  PROVE  /\ d \in Connection /\ d.buffer = e.buffer /\ d.headers = e.headers
         /\ SameRequest(e, d) /\ SameBody(e, d) /\ SameState(e, d)
         /\ d.size = m /\ d.done = e.done /\ d.trailing = e.trailing
<1>1. d \in Connection
  BY DEF Connection
<1>2. d.buffer = e.buffer /\ d.headers = e.headers /\ d.size = m /\ d.done = e.done /\ d.trailing = e.trailing
  BY DEF Connection
<1>3. SameBody(e, d) /\ SameState(e, d)
  BY DEF SameState, SameBody
<1>4. SameRequest(e, d)
  BY DEF SameRequest, SameLine, SameLimit, SameFraming
<1>5. QED
  BY <1>1, <1>2, <1>3, <1>4

LEMMA DoneSet ==
  ASSUME NEW e \in Connection, NEW d, d = [e EXCEPT !.done = TRUE, !.trailing = TRUE]
  PROVE  /\ d \in Connection /\ d.buffer = e.buffer /\ d.headers = e.headers
         /\ SameRequest(e, d) /\ SameBody(e, d) /\ SameState(e, d)
         /\ d.size = e.size /\ d.done /\ d.trailing
<1>1. d \in Connection
  BY DEF Connection
<1>2. d.buffer = e.buffer /\ d.headers = e.headers /\ d.size = e.size /\ d.done /\ d.trailing
  BY DEF Connection
<1>3. SameBody(e, d) /\ SameState(e, d)
  BY DEF SameState, SameBody
<1>4. SameRequest(e, d)
  BY DEF SameRequest, SameLine, SameLimit, SameFraming
<1>5. QED
  BY <1>1, <1>2, <1>3, <1>4

LEMMA ChunkSizeIs ==
  ASSUME NEW c \in Connection
  PROVE  LET d == ChunkSize(c)
             n == CrlfIn(c.buffer)
             x == c.buffer[1]
         IN  /\ d \in Connection
             /\ \/ n = 0 /\ d = c
                \/ /\ n \in 1 .. Len(c.buffer) - 1
                   /\ d.buffer = From(c.buffer, n + 2) /\ d.headers = c.headers
                   /\ SameRequest(c, d) /\ SameBody(c, d)
                   /\ \/ (n # 2 \/ x.kind # "size") /\ d.state = "ERROR" /\ d.code = 400
                      \/ /\ n = 2 /\ x.kind = "size" /\ x.n = 0 /\ SameState(c, d)
                         /\ d.size = c.size /\ d.done /\ d.trailing
                      \/ /\ n = 2 /\ x.kind = "size" /\ x.n > 0 /\ SameState(c, d)
                         /\ d.size = x.n /\ d.done = c.done /\ d.trailing = c.trailing
<1> DEFINE d == ChunkSize(c)
           n == CrlfIn(c.buffer)
           x == c.buffer[1]
           e == Consume(c, n + 1)
<1>1. c.buffer \in Seq(Item) /\ Len(c.buffer) \in Nat
  BY LenProperties DEF Connection
<1>2. CASE n = 0
  BY <1>2 DEF ChunkSize
<1>3. CASE n # 0
  <2>1. n \in 1 .. Len(c.buffer) - 1
    BY <1>1, <1>3, CrlfFirst
  <2> DEFINE m == CrlfIn(c.buffer)
  <2>2. d = IF m # 2 \/ x.kind # "size" THEN Fails(e, 400)
            ELSE IF x.n = 0 THEN [e EXCEPT !.done = TRUE, !.trailing = TRUE]
            ELSE [e EXCEPT !.size = x.n]
    BY <1>3 DEF ChunkSize
  <2> HIDE DEF m
  <2>3. m = n /\ n + 1 \in 0 .. Len(c.buffer) /\ (n + 1) + 1 = n + 2
    BY <1>1, <2>1 DEF m
  <2> HIDE DEF n
  <2>4. /\ e \in Connection /\ e.buffer = From(c.buffer, n + 2) /\ e.headers = c.headers
        /\ SameState(c, e) /\ SameRequest(c, e) /\ SameChunk(c, e) /\ SameBody(c, e)
    BY <2>3, ConsumeIs
  <2>5. 1 \in 1 .. Len(c.buffer)
    BY <1>1, <2>1
  <2>6. x \in Item
    BY <1>1, <2>5, ElementOfSeq
  <2>7. x.kind = "size" => x.n \in Nat
    BY <2>6, KindsOfItem
  <2> HIDE DEF d, e, x
  <2> DEFINE Good ==
        /\ d \in Connection /\ d.buffer = e.buffer /\ d.headers = e.headers
        /\ SameRequest(e, d) /\ SameBody(e, d)
        /\ \/ (n # 2 \/ x.kind # "size") /\ d.state = "ERROR" /\ d.code = 400
           \/ /\ n = 2 /\ x.kind = "size" /\ x.n = 0 /\ SameState(e, d)
              /\ d.size = e.size /\ d.done /\ d.trailing
           \/ /\ n = 2 /\ x.kind = "size" /\ x.n > 0 /\ SameState(e, d)
              /\ d.size = x.n /\ d.done = e.done /\ d.trailing = e.trailing
  <2>8. ASSUME n # 2 \/ x.kind # "size" PROVE Good
    <3>1. d = Fails(e, 400) /\ 400 \in Nat
      BY <2>2, <2>3, <2>8
    <3>2. QED
      BY <2>4, <2>8, <3>1, FailsIs
  <2>9. ASSUME n = 2, x.kind = "size", x.n = 0 PROVE Good
    <3>1. d = [e EXCEPT !.done = TRUE, !.trailing = TRUE]
      BY <2>2, <2>3, <2>9
    <3>2. /\ d \in Connection /\ d.buffer = e.buffer /\ d.headers = e.headers
          /\ d.size = e.size /\ d.done /\ d.trailing
      BY ONLY <2>4, <3>1, DoneSet
    <3>3. SameState(e, d) /\ SameRequest(e, d) /\ SameBody(e, d)
      BY ONLY <2>4, <3>1, DoneSet
    <3>4. QED
      BY ONLY <2>9, <3>2, <3>3
  <2>10. ASSUME n = 2, x.kind = "size", x.n # 0 PROVE Good
    <3>1. d = [e EXCEPT !.size = x.n] /\ x.n \in Nat /\ x.n > 0
      BY <2>2, <2>3, <2>7, <2>10
    <3>2. /\ d \in Connection /\ d.buffer = e.buffer /\ d.headers = e.headers
          /\ d.size = x.n /\ d.done = e.done /\ d.trailing = e.trailing
      BY ONLY <2>4, <3>1, SizeSet
    <3>3. SameState(e, d) /\ SameRequest(e, d) /\ SameBody(e, d)
      BY ONLY <2>4, <3>1, SizeSet
    <3>4. QED
      BY ONLY <2>10, <3>1, <3>2, <3>3
  <2>11. Good
    BY <2>8, <2>9, <2>10
  <2>12. SameRequest(c, d) /\ SameBody(c, d) /\ (SameState(e, d) => SameState(c, d))
         /\ e.size = c.size /\ e.done = c.done /\ e.trailing = c.trailing
    BY <2>4, <2>11 DEF SameState, SameChunk, SameRequest, SameLine, SameLimit, SameFraming, SameBody
  <2>13. QED
    BY <2>1, <2>4, <2>11, <2>12 DEF d, x, n
<1>4. QED
  BY <1>2, <1>3

LEMMA ChunkDataIs ==
  ASSUME NEW c \in Connection, c.state = "BODY", c.size > 0, ~c.trailing
  PROVE  LET d == ChunkData(c)
             n == Least(c.size, Len(c.buffer))
         IN  /\ d \in Connection /\ n \in 0 .. Len(c.buffer)
             /\ \/ c.written + n > c.max /\ d = Fails(c, 413)
                \/ /\ c.written + n <= c.max /\ Taken(c, d, n) /\ SameState(c, d)
                   /\ d.size = c.size - n /\ d.trailing = (c.size = n) /\ d.done = c.done
<1> DEFINE d == ChunkData(c)
           n == Least(c.size, Len(c.buffer))
           e == Take(c, n)
           f == [e EXCEPT !.size = e.size - n, !.trailing = (e.trailing \/ c.size = n)]
<1>1. /\ c.buffer \in Seq(Item) /\ Len(c.buffer) \in Nat /\ c.size \in Nat
      /\ c.written \in Nat /\ c.max \in Nat /\ c.trailing \in BOOLEAN
  BY LenProperties DEF Connection
<1>2. n \in 0 .. Len(c.buffer) /\ n <= c.size
  <2>1. n \in Nat /\ n <= c.size /\ n <= Len(c.buffer)
    BY <1>1, LeastIs
  <2> HIDE DEF n
  <2>2. QED
    BY <1>1, <2>1
<1>3. d = IF c.buffer = <<>> \/ e.state = "ERROR" THEN e ELSE f
  BY DEF ChunkData
<1>4. c.buffer = <<>> => n = 0
  BY <1>2, EmptySeq
<1> HIDE DEF n
<1>5. /\ e \in Connection
      /\ \/ c.written + n > c.max /\ e = Fails(c, 413)
         \/ /\ c.written + n <= c.max
            /\ Taken(c, e, n) /\ SameState(c, e) /\ SameChunk(c, e)
  BY <1>2, TakeIs
<1> HIDE DEF d, e
<1>6. CASE c.written + n > c.max /\ e = Fails(c, 413)
  <2>1. e.state = "ERROR"
    BY <1>6, FailsIs
  <2>2. d = e
    BY <1>3, <2>1
  <2>3. QED
    BY <1>2, <1>5, <1>6, <2>2 DEF d, n
<1>7. CASE /\ c.written + n <= c.max
           /\ Taken(c, e, n) /\ SameState(c, e) /\ SameChunk(c, e)
  <2>1. e.size = c.size /\ e.trailing = c.trailing /\ e.done = c.done
    BY <1>7 DEF SameChunk
  <2>2. CASE d = e /\ c.buffer = <<>>
    <3>1. n = 0 /\ c.size - n = c.size /\ c.size # n
      BY <1>1, <1>4, <2>2
    <3>2. QED
      BY <1>1, <1>2, <1>5, <1>7, <2>1, <2>2, <3>1 DEF d, n
  <2>3. CASE d = f
    <3>1. c.size - n \in Nat /\ (e.trailing \/ c.size = n) = (c.size = n)
      BY <1>1, <1>2, <2>1
    <3>2. d = [e EXCEPT !.size = c.size - n, !.trailing = (c.size = n)]
      BY <2>1, <2>3, <3>1
    <3>3. /\ d \in Connection /\ d.buffer = e.buffer /\ d.headers = e.headers /\ SameState(e, d)
          /\ SameRequest(e, d) /\ SameBody(e, d)
          /\ d.size = c.size - n /\ d.trailing = (c.size = n) /\ d.done = e.done
      BY <1>5, <3>1, <3>2 DEF Connection, SameState, SameRequest, SameLine, SameLimit, SameFraming, SameBody
    <3>4. Taken(c, d, n) /\ SameState(c, d)
      BY <1>7, <3>3 DEF Taken, SameState, SameRequest, SameLine, SameLimit, SameFraming, SameBody
    <3>5. QED
      BY <1>2, <1>7, <2>1, <3>3, <3>4 DEF d, n
  <2>4. e.state # "ERROR"
    BY <1>7 DEF SameState
  <2>5. QED
    BY <1>3, <2>2, <2>3, <2>4
<1>8. QED
  BY <1>5, <1>6, <1>7

-----------------------------------------------------------------------------
(* The request line. *)

\* How many items before the line are skipped.
Skip(b) ==
  LET eol == {i \in 0 .. Len(b) : \A j \in 1 .. i : b[j] \in {CR, LF}}
  IN  CHOOSE i \in eol : \A j \in eol : j <= i

LEMMA SkipIs ==
  ASSUME NEW b \in Seq(Item)
  PROVE  /\ Skip(b) \in 0 .. Len(b)
         /\ \A j \in 1 .. Skip(b) : b[j] \in {CR, LF}
         /\ Skip(b) < Len(b) => b[Skip(b) + 1] \notin {CR, LF}
<1> DEFINE eol == {i \in 0 .. Len(b) : \A j \in 1 .. i : b[j] \in {CR, LF}}
<1>1. Len(b) \in Nat
  BY LenProperties
<1>2. 0 \in eol
  BY <1>1
<1>3. \E i \in eol : \A j \in eol : j <= i
  BY <1>1, <1>2, GreatestNat
<1>4. Skip(b) = CHOOSE i \in eol : \A j \in eol : j <= i
  BY DEF Skip
<1>5. Skip(b) \in eol /\ \A j \in eol : j <= Skip(b)
  BY <1>3, <1>4
<1> DEFINE k == Skip(b)
<1>6. k \in eol /\ \A j \in eol : j <= k
  BY <1>5
<1> HIDE DEF k
<1>7. k \in 0 .. Len(b) /\ \A j \in 1 .. k : b[j] \in {CR, LF}
  BY <1>6
<1>8. ASSUME k < Len(b), b[k + 1] \in {CR, LF} PROVE FALSE
  <2>1. k + 1 \in 0 .. Len(b) /\ ~(k + 1 <= k)
    BY <1>1, <1>7, <1>8
  <2>2. ASSUME NEW j \in 1 .. k + 1 PROVE b[j] \in {CR, LF}
    <3>1. j \in 1 .. k \/ j = k + 1
      BY <1>7
    <3>2. QED
      BY <1>7, <1>8, <3>1
  <2>3. k + 1 \in eol
    BY <2>1, <2>2
  <2>4. QED
    BY <1>6, <2>1, <2>3
<1>9. QED
  BY <1>7, <1>8 DEF k

\* Everything of c but the line, the state and the buffer.
SameRest(c, d) ==
  d.headers = c.headers /\ SameLimit(c, d) /\ SameFraming(c, d) /\ SameChunk(c, d) /\ SameBody(c, d)

LEMMA LineDoneIs ==
  ASSUME NEW c \in Connection, NEW x \in Item, x.kind = "line", NEW n \in 0 .. Len(c.buffer)
  PROVE  LET d == LineDone(c, x, n)
         IN  /\ d \in Connection /\ SameRest(c, d)
             /\ \/ /\ x.code \in {414, 501} /\ d.state = "ERROR" /\ d.code = x.code
                   /\ d.buffer = c.buffer /\ SameLine(c, d)
                \/ /\ x.code = 404 /\ d.state = "ERROR" /\ d.code = 404
                   /\ d.buffer = From(c.buffer, n + 1) /\ d.method = x.method /\ d.target = x.target
                \/ /\ x.code \notin {404, 414, 501} /\ d.state = "HEADERS" /\ d.code = c.code
                   /\ d.buffer = From(c.buffer, n + 1) /\ d.method = x.method /\ d.target = x.target
<1> DEFINE d == LineDone(c, x, n)
           e == [c EXCEPT !.method = x.method, !.target = x.target]
           g == [c EXCEPT !.method = x.method, !.target = x.target, !.state = "HEADERS"]
<1>1. x.method \in Word /\ x.target \in Word /\ x.code \in Nat
  BY KindsOfItem
<1>2. /\ x.code \in {414, 501} => d = Fails(c, x.code)
      /\ x.code = 404 => d = Fails(Consume(e, n), 404)
      /\ x.code \notin {404, 414, 501} => d = Consume(g, n)
  BY DEF LineDone
<1>3. /\ e \in Connection /\ e.buffer = c.buffer /\ e.method = x.method /\ e.target = x.target
      /\ SameRest(c, e)
  BY <1>1 DEF Connection, SameRest, SameLimit, SameFraming, SameChunk, SameBody
<1>4. /\ g \in Connection /\ g.buffer = c.buffer /\ g.method = x.method /\ g.target = x.target
      /\ g.state = "HEADERS" /\ g.code = c.code /\ SameRest(c, g)
  BY <1>1 DEF Connection, States, SameRest, SameLimit, SameFraming, SameChunk, SameBody
<1> HIDE DEF d, e, g
<1>5. CASE x.code \in {414, 501}
  <2>1. d = Fails(c, x.code)
    BY <1>2, <1>5
  <2>2. /\ d \in Connection /\ d.state = "ERROR" /\ d.code = x.code /\ d.buffer = c.buffer
        /\ d.headers = c.headers
        /\ SameRequest(c, d) /\ SameChunk(c, d) /\ SameBody(c, d)
    BY ONLY c \in Connection, <1>1, <2>1, FailsIs
  <2>3. QED
    BY <1>5, <2>2 DEF d, SameRest, SameRequest
<1>6. CASE x.code = 404
  <2> DEFINE f == Consume(e, n)
  <2>1. /\ f \in Connection /\ f.buffer = From(c.buffer, n + 1) /\ f.headers = e.headers
        /\ SameState(e, f) /\ SameRequest(e, f) /\ SameChunk(e, f) /\ SameBody(e, f)
    BY <1>3, ConsumeIs
  <2>2. d = Fails(f, x.code) /\ x.code \in Nat /\ x.code = 404
    BY <1>1, <1>2, <1>6
  <2> HIDE DEF f
  <2>3. ASSUME NEW y \in Connection, NEW code \in Nat, d = Fails(y, code)
        PROVE  /\ d \in Connection /\ d.state = "ERROR" /\ d.code = code
               /\ d.buffer = y.buffer /\ d.headers = y.headers
               /\ SameRequest(y, d) /\ SameChunk(y, d) /\ SameBody(y, d)
    BY ONLY <2>3, FailsIs
  <2>3a. /\ d \in Connection /\ d.state = "ERROR" /\ d.code = 404 /\ d.buffer = f.buffer /\ d.headers = f.headers
        /\ SameRequest(f, d) /\ SameChunk(f, d) /\ SameBody(f, d)
    BY ONLY <2>1, <2>2, <2>3
  <2>4. SameRest(c, d) /\ d.method = x.method /\ d.target = x.target
    BY <1>3, <2>1, <2>3a DEF SameRest, SameRequest, SameLine, SameLimit, SameFraming, SameChunk, SameBody
  <2>5. QED
    BY <1>6, <2>1, <2>3a, <2>4 DEF d
<1>7. CASE x.code \notin {404, 414, 501}
  <2>1. d = Consume(g, n)
    BY <1>2, <1>7
  <2>2. /\ d \in Connection /\ d.buffer = From(c.buffer, n + 1) /\ d.headers = g.headers
        /\ SameState(g, d) /\ SameRequest(g, d) /\ SameChunk(g, d) /\ SameBody(g, d)
    BY <1>4, <2>1, ConsumeIs
  <2>3. SameRest(c, d) /\ d.method = x.method /\ d.target = x.target /\ d.state = "HEADERS" /\ d.code = c.code
    BY <1>4, <2>2 DEF SameRest, SameState, SameRequest, SameLine, SameLimit, SameFraming, SameChunk, SameBody
  <2>4. QED
    BY <1>7, <2>2, <2>3 DEF d
<1>8. QED
  BY <1>5, <1>6, <1>7

LEMMA ParseRequestLineIs ==
  ASSUME NEW c \in Connection
  PROVE  LET d == ParseRequestLine(c)
             b == c.buffer
             k == Skip(b)
             x == b[k + 1]
         IN  \/ k = Len(b) /\ d = c
             \/ k < Len(b) /\ x.kind # "line" /\ d = Fails(c, 400)
             \/ k < Len(b) /\ x.kind = "line" /\ x.code \in {400, 505} /\ d = Fails(c, x.code)
             \/ /\ k < Len(b) /\ x.kind = "line" /\ x.code \notin {400, 505} /\ d = c
                /\ Len(b) = k + 1 \/ (Len(b) = k + 2 /\ b[k + 2] = CR)
             \/ /\ k + 2 <= Len(b) /\ x.kind = "line" /\ x.code \notin {400, 505}
                /\ b[k + 2] = LF /\ d = LineDone(c, x, k + 2)
             \/ /\ k + 3 <= Len(b) /\ x.kind = "line" /\ x.code \notin {400, 505}
                /\ b[k + 2] = CR /\ b[k + 3] = LF /\ d = LineDone(c, x, k + 3)
             \/ /\ k + 2 <= Len(b) /\ x.kind = "line" /\ x.code \notin {400, 505}
                /\ b[k + 2] # LF /\ (b[k + 2] = CR => k + 3 <= Len(b) /\ b[k + 3] # LF)
                /\ d = Fails(c, 400)
<1> DEFINE b == c.buffer
           k == Skip(b)
           x == b[k + 1]
           rest == SubSeq(b, k + 1, Len(b))
           d == ParseRequestLine(c)
<1>1. b \in Seq(Item) /\ Len(b) \in Nat
  BY LenProperties DEF Connection
<1>2. k \in 0 .. Len(b)
  BY <1>1, SkipIs
<1>3. d = IF rest = <<>> THEN c
          ELSE IF Head(rest).kind # "line" THEN Fails(c, 400)
          ELSE IF Head(rest).code \in {400, 505} THEN Fails(c, Head(rest).code)
          ELSE IF Len(rest) = 1 \/ (Len(rest) = 2 /\ rest[2] = CR) THEN c
          ELSE IF rest[2] = LF THEN LineDone(c, Head(rest), k + 2)
          ELSE IF rest[2] = CR /\ rest[3] = LF THEN LineDone(c, Head(rest), k + 3)
          ELSE Fails(c, 400)
  BY DEF ParseRequestLine, Skip
<1> HIDE DEF k, d
<1>4. rest \in Seq(Item) /\ Len(rest) = Len(b) - k /\ \A i \in 1 .. Len(b) - k : rest[i] = b[k + i]
  BY <1>1, <1>2, FromIs DEF From
<1> HIDE DEF rest, b
<1>5. rest = <<>> <=> k = Len(b)
  BY <1>1, <1>2, <1>4, EmptySeq
<1>6. CASE k = Len(b)
  BY <1>3, <1>5, <1>6 DEF k, d, b
<1>7. CASE k # Len(b)
  <2>1. k < Len(b) /\ 1 \in 1 .. Len(b) - k /\ k \in Nat
    BY <1>1, <1>2, <1>7
  <2>2. rest # <<>> /\ Head(rest) = x
    BY <1>4, <1>5, <1>7, <2>1
  <2> HIDE DEF x
  <2>3. d = IF x.kind # "line" THEN Fails(c, 400)
          ELSE IF x.code \in {400, 505} THEN Fails(c, x.code)
          ELSE IF Len(rest) = 1 \/ (Len(rest) = 2 /\ rest[2] = CR) THEN c
          ELSE IF rest[2] = LF THEN LineDone(c, x, k + 2)
          ELSE IF rest[2] = CR /\ rest[3] = LF THEN LineDone(c, x, k + 3)
          ELSE Fails(c, 400)
    BY <1>3, <2>2
  <2>4. CASE x.kind # "line"
    BY <2>1, <2>3, <2>4 DEF k, d, b, x
  <2>5. CASE x.kind = "line" /\ x.code \in {400, 505}
    BY <2>1, <2>3, <2>5 DEF k, d, b, x
  <2>6. CASE x.kind = "line" /\ x.code \notin {400, 505}
    <3>1. d = IF Len(rest) = 1 \/ (Len(rest) = 2 /\ rest[2] = CR) THEN c
              ELSE IF rest[2] = LF THEN LineDone(c, x, k + 2)
              ELSE IF rest[2] = CR /\ rest[3] = LF THEN LineDone(c, x, k + 3)
              ELSE Fails(c, 400)
      BY <2>3, <2>6
    <3>2. CASE Len(b) = k + 1
      <4>1. Len(rest) = 1
        BY <1>4, <2>1, <3>2
      <4>2. d = c
        BY <3>1, <4>1
      <4>3. QED
        BY <2>1, <2>6, <3>2, <4>2 DEF k, d, b, x
    <3>3. CASE Len(b) = k + 2
      <4>1. Len(rest) = 2 /\ Len(rest) # 1 /\ rest[2] = b[k + 2] /\ k + 2 <= Len(b)
        BY <1>4, <2>1, <3>3
      <4>2. CR # LF
        BY ItemKinds
      <4>3. CASE b[k + 2] = CR
        BY <2>1, <2>6, <3>1, <3>3, <4>1, <4>3 DEF k, d, b, x
      <4>4. CASE b[k + 2] = LF
        BY <2>1, <2>6, <3>1, <4>1, <4>2, <4>4 DEF k, d, b, x
      <4>5. CASE b[k + 2] \notin {CR, LF}
        <5>1. d = Fails(c, 400)
          BY <3>1, <4>1, <4>5
        <5>2. QED
          BY <2>6, <4>1, <4>5, <5>1 DEF k, d, b, x
      <4>6. QED
        BY <4>3, <4>4, <4>5
    <3>4. CASE k + 3 <= Len(b)
      <4>1. /\ Len(rest) # 1 /\ Len(rest) # 2 /\ rest[2] = b[k + 2] /\ rest[3] = b[k + 3]
            /\ k + 2 <= Len(b)
        BY <1>1, <1>4, <2>1, <3>4
      <4>2. d = IF b[k + 2] = LF THEN LineDone(c, x, k + 2)
                ELSE IF b[k + 2] = CR /\ b[k + 3] = LF THEN LineDone(c, x, k + 3)
                ELSE Fails(c, 400)
        BY <3>1, <4>1
      <4>3. QED
        BY <2>6, <3>4, <4>1, <4>2 DEF k, d, b, x
    <3>5. QED
      BY <1>1, <2>1, <3>2, <3>3, <3>4
  <2>7. QED
    BY <2>4, <2>5, <2>6
<1>8. QED
  BY <1>6, <1>7

LEMMA ApplyLimitIs ==
  ASSUME NEW c \in Connection
  PROVE  LET d == ApplyLimit(c)
         IN  /\ d \in Connection /\ d.buffer = c.buffer /\ d.headers = c.headers /\ SameState(c, d)
             /\ SameLine(c, d) /\ SameFraming(c, d) /\ SameChunk(c, d) /\ SameBody(c, d)
             /\ d.erased = c.erased
             /\ c.target = "" => d = c
             /\ c.target # "" => d.max = LimitOf(c.target) /\ d.limit = LimitOf(c.target)
<1> DEFINE limit == LimitOf(c.target)
<1>1. limit \in Nat
  BY Sizes DEF LimitOf
<1>2. ApplyLimit(c) = IF c.target = "" THEN c ELSE [c EXCEPT !.max = limit, !.limit = limit]
  BY DEF ApplyLimit
<1> HIDE DEF limit
<1>3. CASE c.target = ""
  BY <1>2, <1>3 DEF SameState, SameLine, SameFraming, SameChunk, SameBody
<1>4. CASE c.target # ""
  <2> DEFINE d == [c EXCEPT !.max = limit, !.limit = limit]
  <2>1. /\ d \in Connection /\ d.buffer = c.buffer /\ d.headers = c.headers /\ SameState(c, d)
        /\ SameLine(c, d) /\ SameFraming(c, d) /\ SameChunk(c, d) /\ SameBody(c, d)
        /\ d.erased = c.erased /\ d.max = limit /\ d.limit = limit
    BY <1>1 DEF Connection, SameState, SameLine, SameFraming, SameChunk, SameBody
  <2>2. QED
    BY <1>2, <1>4, <2>1 DEF limit
<1>5. QED
  BY <1>3, <1>4

-----------------------------------------------------------------------------
(* The loops. *)

LEMMA HeadersKeep ==
  ASSUME NEW X, NEW c \in X, NEW n \in Nat, c.buffer \in Seq(Item), n = Len(c.buffer),
         \A x \in X : HeaderStep(x) \in X
  PROVE  \E f \in [0 .. n -> X] :
           /\ f[0] = c /\ \A i \in 1 .. n : f[i] = HeaderStep(f[i - 1])
           /\ Repeat(HeaderStep, c) = f[n]
<1> DEFINE step == [i \in 1 .. n |-> [x \in X |-> HeaderStep(x)]]
<1>1. \A i \in 1 .. n : \A x \in X : step[i][x] = HeaderStep(x)
  OBVIOUS
<1> HIDE DEF step
<1>2. Steps(X, step, n)
  BY <1>1 DEF Steps
<1>3. \E f : Computes(X, c, step, n, f)
  BY <1>2, Recursion
<1>4. PICK f \in [0 .. n -> X] : f[0] = c /\ \A i \in 1 .. n : f[i] = step[i][f[i - 1]]
  BY <1>3 DEF Computes
<1>5. ASSUME NEW i \in 1 .. n PROVE f[i] = HeaderStep(f[i - 1])
  <2>1. i - 1 \in 0 .. n
    OBVIOUS
  <2>2. f[i - 1] \in X
    BY <2>1
  <2>3. QED
    BY <1>1, <1>4, <2>2
<1> DEFINE Rounds(h) == h = [i \in 0 .. n |-> IF i = 0 THEN c ELSE HeaderStep(h[i - 1])]
           g == CHOOSE h : Rounds(h)
<1>6. Rounds(f)
  <2>1. ASSUME NEW i \in 0 .. n PROVE f[i] = IF i = 0 THEN c ELSE HeaderStep(f[i - 1])
    <3>1. i = 0 \/ (i \in 1 .. n /\ i # 0)
      OBVIOUS
    <3>2. QED
      BY <1>4, <1>5, <3>1
  <2>2. f = [i \in 0 .. n |-> f[i]]
    OBVIOUS
  <2>3. QED
    BY <2>1, <2>2
<1>7. Rounds(g)
  BY <1>6
<1>8. Repeat(HeaderStep, c) = g[n]
  BY DEF Repeat
<1> HIDE DEF g
<1>9. g[0] = c /\ \A i \in 1 .. n : g[i] = HeaderStep(g[i - 1])
  <2>1. \A i \in 0 .. n : g[i] = IF i = 0 THEN c ELSE HeaderStep(g[i - 1])
    BY <1>7
  <2>2. 0 \in 0 .. n /\ \A i \in 1 .. n : i \in 0 .. n /\ i # 0
    OBVIOUS
  <2>3. QED
    BY ONLY <2>1, <2>2
<1> DEFINE S == {k \in Nat : k <= n => g[k] = f[k]}
<1>10. 0 \in S
  BY <1>4, <1>9
<1>11. ASSUME NEW k \in Nat, k \in S PROVE k + 1 \in S
  <2>1. SUFFICES ASSUME k + 1 <= n PROVE g[k + 1] = f[k + 1]
    OBVIOUS
  <2>2. g[k] = f[k] /\ k + 1 \in 1 .. n /\ (k + 1) - 1 = k
    BY <1>11, <2>1
  <2>3. QED
    BY <1>5, <1>9, <2>2
<1> HIDE DEF S
<1>12. n \in S
  BY <1>10, <1>11, NatSet
<1>13. g[n] = f[n]
  BY <1>12 DEF S
<1>14. QED
  BY <1>4, <1>5, <1>8, <1>13

LEMMA ChunksKeep ==
  ASSUME NEW X, NEW c \in X, NEW n \in Nat, c.buffer \in Seq(Item), n = Len(c.buffer),
         \A x \in X : ChunkStep(x) \in X
  PROVE  \E f \in [0 .. n -> X] :
           /\ f[0] = c /\ \A i \in 1 .. n : f[i] = ChunkStep(f[i - 1])
           /\ Repeat(ChunkStep, c) = f[n]
<1> DEFINE step == [i \in 1 .. n |-> [x \in X |-> ChunkStep(x)]]
<1>1. \A i \in 1 .. n : \A x \in X : step[i][x] = ChunkStep(x)
  OBVIOUS
<1> HIDE DEF step
<1>2. Steps(X, step, n)
  BY <1>1 DEF Steps
<1>3. \E f : Computes(X, c, step, n, f)
  BY <1>2, Recursion
<1>4. PICK f \in [0 .. n -> X] : f[0] = c /\ \A i \in 1 .. n : f[i] = step[i][f[i - 1]]
  BY <1>3 DEF Computes
<1>5. ASSUME NEW i \in 1 .. n PROVE f[i] = ChunkStep(f[i - 1])
  <2>1. i - 1 \in 0 .. n
    OBVIOUS
  <2>2. f[i - 1] \in X
    BY <2>1
  <2>3. QED
    BY <1>1, <1>4, <2>2
<1> DEFINE Rounds(h) == h = [i \in 0 .. n |-> IF i = 0 THEN c ELSE ChunkStep(h[i - 1])]
           g == CHOOSE h : Rounds(h)
<1>6. Rounds(f)
  <2>1. ASSUME NEW i \in 0 .. n PROVE f[i] = IF i = 0 THEN c ELSE ChunkStep(f[i - 1])
    <3>1. i = 0 \/ (i \in 1 .. n /\ i # 0)
      OBVIOUS
    <3>2. QED
      BY <1>4, <1>5, <3>1
  <2>2. f = [i \in 0 .. n |-> f[i]]
    OBVIOUS
  <2>3. QED
    BY <2>1, <2>2
<1>7. Rounds(g)
  BY <1>6
<1>8. Repeat(ChunkStep, c) = g[n]
  BY DEF Repeat
<1> HIDE DEF g
<1>9. g[0] = c /\ \A i \in 1 .. n : g[i] = ChunkStep(g[i - 1])
  <2>1. \A i \in 0 .. n : g[i] = IF i = 0 THEN c ELSE ChunkStep(g[i - 1])
    BY <1>7
  <2>2. 0 \in 0 .. n /\ \A i \in 1 .. n : i \in 0 .. n /\ i # 0
    OBVIOUS
  <2>3. QED
    BY ONLY <2>1, <2>2
<1> DEFINE S == {k \in Nat : k <= n => g[k] = f[k]}
<1>10. 0 \in S
  BY <1>4, <1>9
<1>11. ASSUME NEW k \in Nat, k \in S PROVE k + 1 \in S
  <2>1. SUFFICES ASSUME k + 1 <= n PROVE g[k + 1] = f[k + 1]
    OBVIOUS
  <2>2. g[k] = f[k] /\ k + 1 \in 1 .. n /\ (k + 1) - 1 = k
    BY <1>11, <2>1
  <2>3. QED
    BY <1>5, <1>9, <2>2
<1> HIDE DEF S
<1>12. n \in S
  BY <1>10, <1>11, NatSet
<1>13. g[n] = f[n]
  BY <1>12 DEF S
<1>14. QED
  BY <1>4, <1>5, <1>8, <1>13

\* Two records that agree in every field.
LEMMA SameConnection ==
  ASSUME NEW c \in Connection, NEW d \in Connection,
         d.buffer = c.buffer, d.headers = c.headers, SameState(c, d), SameRequest(c, d),
         SameChunk(c, d), SameBody(c, d)
  PROVE  d = c
<1>1. /\ d.buffer = c.buffer /\ d.headers = c.headers /\ d.state = c.state /\ d.code = c.code
      /\ d.method = c.method /\ d.target = c.target /\ d.max = c.max /\ d.limit = c.limit
      /\ d.erased = c.erased /\ d.length = c.length /\ d.chunked = c.chunked /\ d.size = c.size
      /\ d.trailing = c.trailing /\ d.done = c.done /\ d.written = c.written /\ d.body = c.body
  BY DEF SameState, SameRequest, SameLine, SameLimit, SameFraming, SameChunk, SameBody
<1>2. QED
  BY ONLY <1>1, c \in Connection, d \in Connection, SMTT(20) DEF Connection

LEMMA FromStart ==
  ASSUME NEW b \in Seq(Item), Len(b) = 0
  PROVE  From(b, 1) = <<>> /\ b = <<>> /\ SubSeq(b, 1, 0) = <<>>
<1>1. b = <<>>
  BY EmptySeq
<1>2. 0 \in 0 .. Len(b) /\ 0 + 1 = 1 /\ Len(b) - 0 = 0
  OBVIOUS
<1>3. From(b, 1) \in Seq(Item) /\ Len(From(b, 1)) = 0
  <2>1. From(b, 0 + 1) \in Seq(Item) /\ Len(From(b, 0 + 1)) = Len(b) - 0
    BY ONLY <1>2, b \in Seq(Item), FromIs
  <2>2. QED
    BY <1>2, <2>1
<1>4. SubSeq(b, 1, 0) \in Seq(Item) /\ Len(SubSeq(b, 1, 0)) = 0
  BY <1>2, FirstIs
<1>5. QED
  BY <1>1, <1>3, <1>4, EmptySeq

\* A round of the loop over the header fields changes nothing or consumes.
LEMMA HeaderStepEnds ==
  ASSUME NEW c \in Connection
  PROVE  /\ HeaderStep(HeaderStep(c)) = HeaderStep(c) \/ Len(HeaderStep(c).buffer) < Len(c.buffer)
         /\ Len(c.buffer) = 0 => HeaderStep(c) = c
<1> DEFINE n == CrlfIn(c.buffer)
           d == HeaderStep(c)
<1>1. c.buffer \in Seq(Item) /\ Len(c.buffer) \in Nat
  BY LenProperties DEF Connection
<1>2. d = c \/ (n \in 1 .. Len(c.buffer) - 1 /\ d.buffer = From(c.buffer, n + 2))
  BY HeaderStepIs
<1>3. ASSUME n \in 1 .. Len(c.buffer) - 1, d.buffer = From(c.buffer, n + 2)
      PROVE  Len(d.buffer) < Len(c.buffer)
  <2> HIDE DEF n, d
  <2>1. n + 1 \in 0 .. Len(c.buffer) /\ (n + 1) + 1 = n + 2 /\ n + 1 > 0
    BY <1>1, <1>3
  <2>2. Len(From(c.buffer, (n + 1) + 1)) = Len(c.buffer) - (n + 1)
    BY <1>1, <2>1, FromIs
  <2>3. QED
    BY <1>1, <1>3, <2>1, <2>2
<1>4. Len(c.buffer) = 0 => ~(n \in 1 .. Len(c.buffer) - 1)
  BY <1>1
<1> HIDE DEF n
<1>5. QED
  BY <1>2, <1>3, <1>4

\* The same of the loop over chunks.
LEMMA ChunkStepIs ==
  ASSUME NEW c \in Connection
  PROVE  /\ c.state # "BODY" => ChunkStep(c) = c
         /\ c.state = "BODY" /\ c.trailing => ChunkStep(c) = ChunkTrailing(c)
         /\ c.state = "BODY" /\ ~c.trailing /\ c.size = 0 => ChunkStep(c) = ChunkSize(c)
         /\ c.state = "BODY" /\ ~c.trailing /\ c.size > 0 => ChunkStep(c) = ChunkData(c)
<1>1. c.size \in Nat
  BY DEF Connection
<1>2. QED
  BY <1>1 DEF ChunkStep

LEMMA ChunkStepEnds ==
  ASSUME NEW c \in Connection, c.state = "BODY" => c.written <= c.max
  PROVE  /\ ChunkStep(ChunkStep(c)) = ChunkStep(c) \/ Len(ChunkStep(c).buffer) < Len(c.buffer)
         /\ Len(c.buffer) = 0 => ChunkStep(c) = c
<1> DEFINE d == ChunkStep(c)
<1>1. /\ c.buffer \in Seq(Item) /\ Len(c.buffer) \in Nat /\ c.size \in Nat /\ c.written \in Nat
      /\ c.trailing \in BOOLEAN /\ c.body \in Seq(Item)
  BY LenProperties DEF Connection
<1>2. CASE c.state # "BODY"
  BY <1>2, ChunkStepIs
<1>3. CASE c.state = "BODY" /\ c.trailing
  <2>1. d = ChunkTrailing(c)
    BY <1>3, ChunkStepIs
  <2>2. d = c \/ (Len(c.buffer) >= 2 /\ d.buffer = From(c.buffer, 3))
    BY <2>1, ChunkTrailingIs
  <2>3. ASSUME Len(c.buffer) >= 2, d.buffer = From(c.buffer, 3)
        PROVE  Len(d.buffer) < Len(c.buffer) /\ Len(c.buffer) # 0
    <3>1. 2 \in 0 .. Len(c.buffer) /\ 2 + 1 = 3
      BY <1>1, <2>3
    <3>2. Len(From(c.buffer, 2 + 1)) = Len(c.buffer) - 2
      BY <1>1, <3>1, FromIs
    <3>3. QED
      BY <1>1, <2>3, <3>1, <3>2
  <2>4. QED
    BY <2>2, <2>3
<1>4. CASE c.state = "BODY" /\ ~c.trailing /\ c.size = 0
  <2> DEFINE n == CrlfIn(c.buffer)
  <2>1. d = ChunkSize(c)
    BY <1>4, ChunkStepIs
  <2>2. d = c \/ (n \in 1 .. Len(c.buffer) - 1 /\ d.buffer = From(c.buffer, n + 2))
    BY <2>1, ChunkSizeIs
  <2>3. ASSUME n \in 1 .. Len(c.buffer) - 1, d.buffer = From(c.buffer, n + 2)
        PROVE  Len(d.buffer) < Len(c.buffer) /\ Len(c.buffer) # 0
    <3> HIDE DEF n, d
    <3>1. n + 1 \in 0 .. Len(c.buffer) /\ (n + 1) + 1 = n + 2 /\ n + 1 > 0
      BY <1>1, <2>3
    <3>2. Len(From(c.buffer, (n + 1) + 1)) = Len(c.buffer) - (n + 1)
      BY <1>1, <3>1, FromIs
    <3>3. QED
      BY <1>1, <2>3, <3>1, <3>2
  <2>4. QED
    BY <2>2, <2>3
<1>5. CASE c.state = "BODY" /\ ~c.trailing /\ c.size > 0
  <2> DEFINE n == Least(c.size, Len(c.buffer))
  <2>1. d = ChunkData(c)
    BY <1>5, ChunkStepIs
  <2>2. /\ d \in Connection /\ n \in 0 .. Len(c.buffer)
        /\ \/ c.written + n > c.max /\ d = Fails(c, 413)
           \/ /\ Taken(c, d, n) /\ SameState(c, d)
              /\ d.size = c.size - n /\ d.trailing = (c.size = n) /\ d.done = c.done
    BY <1>5, <2>1, ChunkDataIs
  <2>3. n = 0 <=> Len(c.buffer) = 0
    BY <1>1, <1>5 DEF Least
  <2> HIDE DEF n, d
  <2>4. CASE c.written + n > c.max /\ d = Fails(c, 413)
    <3>1. d.state = "ERROR"
      BY <2>4, FailsIs
    <3>2. ChunkStep(d) = d
      BY <2>2, <3>1, ChunkStepIs
    <3>3. n # 0
      BY <1>1, <1>5, <2>4 DEF Connection
    <3>4. QED
      BY <2>3, <3>2, <3>3 DEF d
  <2>5. CASE /\ Taken(c, d, n) /\ SameState(c, d)
             /\ d.size = c.size - n /\ d.trailing = (c.size = n) /\ d.done = c.done
    <3>1. d.buffer = From(c.buffer, n + 1) /\ Len(From(c.buffer, n + 1)) = Len(c.buffer) - n
      BY <1>1, <2>2, <2>5, FromIs DEF Taken
    <3>2. CASE n = 0
      <4>1. From(c.buffer, 1) = <<>> /\ c.buffer = <<>> /\ SubSeq(c.buffer, 1, 0) = <<>>
        BY <1>1, <2>3, <3>2, FromStart
      <4>2. d.buffer = c.buffer /\ d.body = c.body \o <<>> /\ d.written = c.written + 0
        <5>1. d.buffer = From(c.buffer, 0 + 1) /\ d.body = c.body \o SubSeq(c.buffer, 1, 0) /\ 0 + 1 = 1
          BY <2>5, <3>2 DEF Taken
        <5>2. d.written = c.written + 0
          BY <2>5, <3>2 DEF Taken
        <5>3. QED
          BY <4>1, <5>1, <5>2
      <4>3. SameBody(c, d)
        BY <1>1, <4>2, ConcatEmptySeq DEF SameBody
      <4>4. SameChunk(c, d)
        BY <1>1, <1>5, <2>5, <3>2 DEF SameChunk
      <4>5. d = c
        BY <2>2, <2>5, <4>2, <4>3, <4>4, SameConnection DEF Taken
      <4>6. QED
        BY <4>5 DEF d
    <3>3. CASE n # 0
      <4>1. Len(d.buffer) < Len(c.buffer)
        BY <1>1, <2>2, <3>1, <3>3
      <4>2. QED
        BY <2>3, <3>3, <4>1 DEF d
    <3>4. QED
      BY <3>2, <3>3
  <2>6. QED
    BY <2>2, <2>4, <2>5
<1>6. QED
  BY <1>1, <1>2, <1>3, <1>4, <1>5

LEMMA HeadersRun ==
  ASSUME NEW X, NEW c \in X, X \subseteq Connection, \A x \in X : HeaderStep(x) \in X
  PROVE  /\ Repeat(HeaderStep, c) \in X
         /\ HeaderStep(Repeat(HeaderStep, c)) = Repeat(HeaderStep, c)
<1> DEFINE n == Len(c.buffer)
<1>1. c \in Connection
  OBVIOUS
<1>2. c.buffer \in Seq(Item) /\ n \in Nat
  BY <1>1, LenProperties DEF Connection
<1>0. n = Len(c.buffer) /\ \A x \in X : HeaderStep(x) \in X
  OBVIOUS
<1> HIDE DEF n
<1>3. PICK f \in [0 .. n -> X] :
        /\ f[0] = c /\ \A i \in 1 .. n : f[i] = HeaderStep(f[i - 1])
        /\ Repeat(HeaderStep, c) = f[n]
  BY ONLY c \in X, <1>0, <1>2, HeadersKeep, ZenonT(30)
<1> DEFINE Ends(k) == HeaderStep(f[k]) = f[k] \/ Len(f[k].buffer) <= n - k
           S == {k \in Nat : k <= n => Ends(k)}
<1>4. 0 \in S
  BY <1>2, <1>3 DEF n
<1>5. ASSUME NEW k \in Nat, k \in S PROVE k + 1 \in S
  <2>1. SUFFICES ASSUME k + 1 <= n PROVE Ends(k + 1)
    OBVIOUS
  <2>2. Ends(k) /\ k + 1 \in 1 .. n /\ (k + 1) - 1 = k /\ k \in 0 .. n
    BY <1>2, <1>5, <2>1
  <2>3. f[k + 1] = HeaderStep(f[k]) /\ f[k] \in Connection
    BY <1>3, <2>2
  <2>4. \/ HeaderStep(HeaderStep(f[k])) = HeaderStep(f[k])
        \/ Len(HeaderStep(f[k]).buffer) < Len(f[k].buffer)
    BY <2>3, HeaderStepEnds
  <2>5. Len(f[k].buffer) \in Nat /\ Len(f[k + 1].buffer) \in Nat
    <3>1. f[k + 1] \in Connection
      BY <2>2
    <3>2. f[k].buffer \in Seq(Item) /\ f[k + 1].buffer \in Seq(Item)
      BY <2>3, <3>1 DEF Connection
    <3>3. QED
      BY <3>2, LenProperties
  <2>6. CASE HeaderStep(f[k]) = f[k]
    BY <2>3, <2>6
  <2>7. CASE Len(f[k].buffer) <= n - k
    <3>1. CASE HeaderStep(HeaderStep(f[k])) = HeaderStep(f[k])
      BY <2>3, <3>1
    <3>2. CASE Len(f[k + 1].buffer) < Len(f[k].buffer)
      BY <1>2, <2>5, <2>7, <3>2
    <3>3. QED
      BY <2>3, <2>4, <3>1, <3>2
  <2>8. QED
    BY <2>2, <2>6, <2>7
<1> HIDE DEF S
<1>6. n \in S
  BY <1>2, <1>4, <1>5, NatSet
<1>7. Ends(n) /\ f[n] \in X /\ f[n] \in Connection
  BY <1>2, <1>6 DEF S
<1>8. Len(f[n].buffer) = 0 => HeaderStep(f[n]) = f[n]
  BY <1>7, HeaderStepEnds
<1>9. Len(f[n].buffer) \in Nat
  <2>1. f[n].buffer \in Seq(Item)
    BY <1>7 DEF Connection
  <2>2. QED
    BY <2>1, LenProperties
<1>10. HeaderStep(f[n]) = f[n]
  BY <1>2, <1>7, <1>8, <1>9
<1>11. QED
  BY <1>3, <1>7, <1>10

LEMMA ChunksRun ==
  ASSUME NEW X, NEW c \in X, X \subseteq Connection,
         \A x \in X : ChunkStep(x) \in X,
         \A x \in X : x.state = "BODY" => x.written <= x.max
  PROVE  /\ Repeat(ChunkStep, c) \in X
         /\ ChunkStep(Repeat(ChunkStep, c)) = Repeat(ChunkStep, c)
<1> DEFINE n == Len(c.buffer)
<1>1. c \in Connection
  OBVIOUS
<1>2. c.buffer \in Seq(Item) /\ n \in Nat
  BY <1>1, LenProperties DEF Connection
<1>0. n = Len(c.buffer) /\ \A x \in X : ChunkStep(x) \in X
  OBVIOUS
<1> HIDE DEF n
<1>3. PICK f \in [0 .. n -> X] :
        /\ f[0] = c /\ \A i \in 1 .. n : f[i] = ChunkStep(f[i - 1])
        /\ Repeat(ChunkStep, c) = f[n]
  BY ONLY c \in X, <1>0, <1>2, ChunksKeep, ZenonT(30)
<1> DEFINE Ends(k) == ChunkStep(f[k]) = f[k] \/ Len(f[k].buffer) <= n - k
           S == {k \in Nat : k <= n => Ends(k)}
<1>4. 0 \in S
  BY <1>2, <1>3 DEF n
<1>5. ASSUME NEW k \in Nat, k \in S PROVE k + 1 \in S
  <2>1. SUFFICES ASSUME k + 1 <= n PROVE Ends(k + 1)
    OBVIOUS
  <2>2. Ends(k) /\ k + 1 \in 1 .. n /\ (k + 1) - 1 = k /\ k \in 0 .. n
    BY <1>2, <1>5, <2>1
  <2>3. f[k + 1] = ChunkStep(f[k]) /\ f[k] \in Connection
        /\ (f[k].state = "BODY" => f[k].written <= f[k].max)
    BY <1>3, <2>2
  <2>4. \/ ChunkStep(ChunkStep(f[k])) = ChunkStep(f[k])
        \/ Len(ChunkStep(f[k]).buffer) < Len(f[k].buffer)
    BY <2>3, ChunkStepEnds
  <2>5. Len(f[k].buffer) \in Nat /\ Len(f[k + 1].buffer) \in Nat
    <3>1. f[k + 1] \in Connection
      BY <2>2
    <3>2. f[k].buffer \in Seq(Item) /\ f[k + 1].buffer \in Seq(Item)
      BY <2>3, <3>1 DEF Connection
    <3>3. QED
      BY <3>2, LenProperties
  <2>6. CASE ChunkStep(f[k]) = f[k]
    BY <2>3, <2>6
  <2>7. CASE Len(f[k].buffer) <= n - k
    <3>1. CASE ChunkStep(ChunkStep(f[k])) = ChunkStep(f[k])
      BY <2>3, <3>1
    <3>2. CASE Len(f[k + 1].buffer) < Len(f[k].buffer)
      BY <1>2, <2>5, <2>7, <3>2
    <3>3. QED
      BY <2>3, <2>4, <3>1, <3>2
  <2>8. QED
    BY <2>2, <2>6, <2>7
<1> HIDE DEF S
<1>6. n \in S
  BY <1>2, <1>4, <1>5, NatSet
<1>7. Ends(n) /\ f[n] \in X /\ f[n] \in Connection
      /\ (f[n].state = "BODY" => f[n].written <= f[n].max)
  BY <1>2, <1>6 DEF S
<1>8. Len(f[n].buffer) = 0 => ChunkStep(f[n]) = f[n]
  BY <1>7, ChunkStepEnds
<1>9. Len(f[n].buffer) \in Nat
  <2>1. f[n].buffer \in Seq(Item)
    BY <1>7 DEF Connection
  <2>2. QED
    BY <2>1, LenProperties
<1>10. ChunkStep(f[n]) = f[n]
  BY <1>2, <1>7, <1>8, <1>9
<1>11. QED
  BY <1>3, <1>7, <1>10
-----------------------------------------------------------------------------
(* What the parser keeps, whatever it reads. *)

\* What is left of s when some of it is consumed.
Ending(s) == {From(s, n + 1) : n \in 0 .. Len(s)}

LEMMA EndingIs ==
  ASSUME NEW s \in Seq(Item)
  PROVE  /\ s \in Ending(s) /\ <<>> \in Ending(s)
         /\ \A t \in Ending(s) : t \in Seq(Item) /\ Len(t) <= Len(s) /\ Ending(t) \subseteq Ending(s)
<1>1. Len(s) \in Nat /\ 0 \in 0 .. Len(s) /\ Len(s) \in 0 .. Len(s)
  BY LenProperties
<1>2. s \in Ending(s)
  <2>1. From(s, 0 + 1) \in Seq(Item) /\ Len(From(s, 0 + 1)) = Len(s) - 0
        /\ \A i \in 1 .. Len(s) - 0 : From(s, 0 + 1)[i] = s[0 + i]
    BY <1>1, FromIs
  <2>2. Len(From(s, 0 + 1)) = Len(s) /\ \A i \in 1 .. Len(s) : From(s, 0 + 1)[i] = s[i]
    BY <1>1, <2>1
  <2>3. From(s, 0 + 1) = s
    BY <2>1, <2>2, SameItems
  <2>4. QED
    BY <1>1, <2>3 DEF Ending
<1>3. <<>> \in Ending(s)
  <2>1. From(s, Len(s) + 1) \in Seq(Item) /\ Len(From(s, Len(s) + 1)) = Len(s) - Len(s)
    BY <1>1, FromIs
  <2>2. From(s, Len(s) + 1) = <<>>
    BY <1>1, <2>1, EmptySeq
  <2>3. QED
    BY <1>1, <2>2 DEF Ending
<1>4. ASSUME NEW t \in Ending(s)
      PROVE  t \in Seq(Item) /\ Len(t) <= Len(s) /\ Ending(t) \subseteq Ending(s)
  <2>1. PICK n \in 0 .. Len(s) : t = From(s, n + 1)
    BY DEF Ending
  <2>2. t \in Seq(Item) /\ Len(t) = Len(s) - n /\ \A i \in 1 .. Len(s) - n : t[i] = s[n + i]
    BY <2>1, FromIs
  <2>3. ASSUME NEW u \in Ending(t) PROVE u \in Ending(s)
    <3>1. PICK m \in 0 .. Len(t) : u = From(t, m + 1)
      BY DEF Ending
    <3>2. u \in Seq(Item) /\ Len(u) = Len(t) - m /\ \A i \in 1 .. Len(t) - m : u[i] = t[m + i]
      <4>1. t \in Seq(Item)
        BY <2>2
      <4>2. QED
        BY ONLY <3>1, <4>1, FromIs
    <3>3. n + m \in 0 .. Len(s) /\ n \in Nat /\ m \in Nat
      BY <1>1, <2>2
    <3> DEFINE v == From(s, (n + m) + 1)
    <3>4. v \in Seq(Item) /\ Len(v) = Len(s) - (n + m) /\ \A i \in 1 .. Len(s) - (n + m) : v[i] = s[(n + m) + i]
      BY <3>3, FromIs
    <3> HIDE DEF v
    <3>5. Len(u) = Len(v) /\ Len(u) = Len(s) - (n + m)
      BY <1>1, <2>2, <3>2, <3>3, <3>4
    <3>6. ASSUME NEW i \in 1 .. Len(u) PROVE u[i] = v[i]
      <4>1. m + i \in 1 .. Len(s) - n /\ i \in 1 .. Len(t) - m /\ i \in 1 .. Len(s) - (n + m)
            /\ n + (m + i) = (n + m) + i
        BY <1>1, <2>2, <3>2, <3>3, <3>5
      <4>2. u[i] = t[m + i] /\ t[m + i] = s[n + (m + i)] /\ v[i] = s[(n + m) + i]
        BY <2>2, <3>2, <3>4, <4>1
      <4>3. QED
        BY <4>1, <4>2
    <3>7. u = v
      BY <3>2, <3>4, <3>5, <3>6, SameItems
    <3>8. QED
      BY <3>3, <3>7 DEF Ending, v
  <2>4. QED
    BY <1>1, <2>1, <2>2, <2>3
<1>5. QED
  BY <1>2, <1>3, <1>4

LEMMA FromEnding ==
  ASSUME NEW s \in Seq(Item), NEW n \in 0 .. Len(s)
  PROVE  From(s, n + 1) \in Ending(s)
BY DEF Ending

\* Before the request line nothing but the buffer is used; before the body
\* there is no body.
Fresh(c) == c = [Blank EXCEPT !.buffer = c.buffer, !.state = c.state]
NoBody(c) ==
  c.written = 0 /\ c.body = <<>> /\ c.length = 0 /\ ~c.chunked /\ c.size = 0 /\ ~c.trailing /\ ~c.done
Limited(c) == c.target # "" => c.max = LimitOf(c.target) /\ c.limit = LimitOf(c.target)
Sane(c) ==
  /\ c \in Connection
  /\ c.state \in {"IDLE", "REQUEST_LINE"} => Fresh(c)
  /\ c.state \in {"IDLE", "REQUEST_LINE", "HEADERS"} => NoBody(c)
  /\ Limited(c)
  /\ c.state = "BODY" =>
       c.written <= c.max /\ (c.chunked \/ (c.length > 0 /\ c.written <= c.length))

\* The parser wants more to read.
Settled(c) ==
  /\ c.state = "REQUEST_LINE" => ParseRequestLine(c) = c
  /\ c.state = "HEADERS" => CrlfIn(c.buffer) = 0
  /\ c.state = "BODY" /\ c.chunked => ChunkStep(c) = c
  /\ c.state = "BODY" /\ ~c.chunked => c.buffer = <<>>

LEMMA BlankIs ==
  /\ Blank.buffer = <<>> /\ Blank.state = "IDLE" /\ Blank.target = "" /\ Blank.headers = <<>>
  /\ Blank.limit = ServerLimit /\ ~Blank.erased /\ Blank.code = 0
  /\ NoBody(Blank) /\ Blank.max = 0
BY DEF Blank, NoBody

\* A fresh connection, by its fields.
LEMMA FreshFields ==
  ASSUME NEW c \in Connection, Fresh(c)
  PROVE  /\ c.target = "" /\ c.headers = <<>> /\ NoBody(c) /\ c.limit = ServerLimit /\ ~c.erased /\ Limited(c)
         /\ c.code = 0
         /\ \A b \in Seq(Item), s \in States :
              [c EXCEPT !.buffer = b, !.state = s] = [Blank EXCEPT !.buffer = b, !.state = s]
<1>1. c.buffer \in Seq(Item) /\ c.state \in States
  BY DEF Connection
<1>2. c = [Blank EXCEPT !.buffer = c.buffer, !.state = c.state]
  BY DEF Fresh
<1> DEFINE x == c.buffer
           y == c.state
<1> HIDE DEF x, y
<1>3. c = [Blank EXCEPT !.buffer = x, !.state = y] /\ x \in Seq(Item) /\ y \in States
  BY <1>1, <1>2 DEF x, y
<1>4. /\ c.target = "" /\ c.headers = <<>> /\ NoBody(c) /\ c.limit = ServerLimit /\ ~c.erased /\ Limited(c)
      /\ c.code = 0
  <2>1. /\ c.target = Blank.target /\ c.headers = Blank.headers /\ c.limit = Blank.limit
        /\ c.erased = Blank.erased /\ c.code = Blank.code
    BY ONLY <1>3, BlankTyped DEF Connection
  <2>2. NoBody(Blank)
    BY BlankIs
  <2>3. NoBody(c)
    BY ONLY <1>3, <2>2, BlankTyped DEF Connection, NoBody
  <2>4. QED
    BY ONLY <2>1, <2>3, BlankIs DEF Limited
<1>5. ASSUME NEW b \in Seq(Item), NEW s \in States
      PROVE  [c EXCEPT !.buffer = b, !.state = s] = [Blank EXCEPT !.buffer = b, !.state = s]
  BY <1>3, BlankTyped DEF Connection
<1>6. QED
  BY <1>4, <1>5

LEMMA FreshSet ==
  ASSUME NEW c \in Connection, Fresh(c), NEW b \in Seq(Item), NEW s \in States
  PROVE  [c EXCEPT !.buffer = b, !.state = s] = [Blank EXCEPT !.buffer = b, !.state = s]
BY FreshFields

LEMMA ApplyLimitSane ==
  ASSUME NEW c \in Connection, Limited(c)
  PROVE  ApplyLimit(c) = c
<1> DEFINE d == ApplyLimit(c)
<1>1. /\ d \in Connection /\ d.buffer = c.buffer /\ d.headers = c.headers /\ SameState(c, d)
      /\ SameLine(c, d) /\ SameFraming(c, d) /\ SameChunk(c, d) /\ SameBody(c, d)
      /\ d.erased = c.erased
      /\ c.target = "" => d = c
      /\ c.target # "" => d.max = LimitOf(c.target) /\ d.limit = LimitOf(c.target)
  BY ApplyLimitIs
<1>2. CASE c.target = ""
  BY <1>1, <1>2
<1>3. CASE c.target # ""
  <2>1. SameLimit(c, d)
    BY <1>1, <1>3 DEF Limited, SameLimit
  <2>2. QED
    BY <1>1, <2>1, SameConnection DEF SameRequest
<1>4. QED
  BY <1>2, <1>3

LEMMA HeaderStepSane ==
  ASSUME NEW c, Sane(c)
  PROVE  LET d == HeaderStep(c)
         IN  /\ Sane(d) /\ d.buffer \in Ending(c.buffer) /\ SameLine(c, d) /\ SameLimit(c, d)
             /\ c.state # "HEADERS" => d = c
             /\ c.state = "HEADERS" => d.state \in {"HEADERS", "BODY", "COMPLETE", "ERROR"}
<1> DEFINE d == HeaderStep(c)
           n == CrlfIn(c.buffer)
<1>1. c \in Connection
  BY DEF Sane
<1>2. c.buffer \in Seq(Item) /\ Len(c.buffer) \in Nat /\ c.max \in Nat
  BY <1>1, LenProperties DEF Connection
<1>3. /\ d \in Connection
      /\ SameLine(c, d) /\ SameLimit(c, d) /\ SameChunk(c, d) /\ SameBody(c, d)
      /\ \/ d = c /\ (c.state # "HEADERS" \/ n = 0)
         \/ /\ c.state = "HEADERS" /\ d.state \in {"HEADERS", "BODY", "COMPLETE", "ERROR"}
            /\ n \in 1 .. Len(c.buffer) - 1 /\ d.buffer = From(c.buffer, n + 2)
            /\ d.state = "BODY" => d.chunked \/ d.length > 0
            /\ d.state # "BODY" => SameFraming(c, d)
  BY <1>1, HeaderStepIs
<1> HIDE DEF d, n
<1>4. CASE d = c
  <2>1. c.buffer \in Ending(c.buffer)
    BY <1>2, EndingIs
  <2>2. QED
    BY <1>3, <1>4, <2>1 DEF d
<1>5. CASE /\ c.state = "HEADERS" /\ d.state \in {"HEADERS", "BODY", "COMPLETE", "ERROR"}
           /\ n \in 1 .. Len(c.buffer) - 1 /\ d.buffer = From(c.buffer, n + 2)
           /\ d.state = "BODY" => d.chunked \/ d.length > 0
           /\ d.state # "BODY" => SameFraming(c, d)
  <2>1. n + 1 \in 0 .. Len(c.buffer) /\ (n + 1) + 1 = n + 2
    BY <1>2, <1>5
  <2>2. From(c.buffer, (n + 1) + 1) \in Ending(c.buffer)
    BY <1>2, <2>1, FromEnding
  <2>3. d.buffer \in Ending(c.buffer)
    BY <1>5, <2>1, <2>2
  <2>4. NoBody(c)
    BY <1>5 DEF Sane
  <2>5. d.state # "BODY" => NoBody(d)
    BY <1>3, <1>5, <2>4 DEF NoBody, SameFraming, SameChunk, SameBody
  <2>6. d.state = "BODY" => d.written <= d.max /\ (d.chunked \/ (d.length > 0 /\ d.written <= d.length))
    <3>1. d.written = 0 /\ d.max \in Nat /\ d.length \in Nat
      BY <1>3, <2>4 DEF NoBody, SameBody, Connection
    <3>2. QED
      BY <1>5, <3>1
  <2>7. Limited(d)
    BY <1>3 DEF Sane, Limited, SameLine, SameLimit
  <2>8. Sane(d)
    BY <1>3, <1>5, <2>5, <2>6, <2>7 DEF Sane
  <2>9. QED
    BY <1>3, <1>5, <2>3, <2>8 DEF d
<1>6. QED
  BY <1>3, <1>4, <1>5

LEMMA ChunkStepSane ==
  ASSUME NEW c, Sane(c), c.state = "BODY" => c.chunked
  PROVE  LET d == ChunkStep(c)
         IN  /\ Sane(d) /\ d.buffer \in Ending(c.buffer) /\ SameRequest(c, d)
             /\ c.state # "BODY" => d = c
             /\ c.state = "BODY" => d.state \in {"BODY", "COMPLETE", "ERROR"}
<1> DEFINE d == ChunkStep(c)
           b == c.buffer
<1>1. c \in Connection /\ Limited(c)
  BY DEF Sane
<1>2. /\ b \in Seq(Item) /\ Len(b) \in Nat /\ c.max \in Nat /\ c.size \in Nat /\ c.trailing \in BOOLEAN
      /\ c.written \in Nat
  BY <1>1, LenProperties DEF Connection
<1>3. b \in Ending(b)
  BY <1>2, EndingIs
<1>4. SameRequest(c, c)
  BY DEF SameRequest, SameLine, SameLimit, SameFraming
<1> DEFINE Good(x) ==
      /\ x \in Connection /\ x.buffer \in Ending(b) /\ SameRequest(c, x)
      /\ x.state \in {"BODY", "COMPLETE", "ERROR"}
      /\ x.state = "BODY" => x.written <= x.max
<1>5. CASE c.state # "BODY"
  BY <1>3, <1>4, <1>5, <1>1, ChunkStepIs
<1>6. CASE c.state = "BODY"
  <2>0. c.written <= c.max
    BY <1>6 DEF Sane
  <2> HIDE DEF b, d
  <2>1. ASSUME c.trailing PROVE Good(d)
    <3>1. d = ChunkTrailing(c)
      BY <1>1, <1>6, <2>1, ChunkStepIs DEF d
    <3>2. /\ d \in Connection
          /\ \/ d = c
             \/ /\ Len(b) >= 2 /\ d.buffer = From(b, 3) /\ SameRequest(c, d) /\ SameBody(c, d)
                /\ d.state \in {"COMPLETE", c.state}
      BY <1>1, <3>1, ChunkTrailingIs DEF b
    <3>3. CASE d = c
      BY <1>1, <1>3, <1>4, <1>6, <2>0, <3>3 DEF b
    <3>4. CASE /\ Len(b) >= 2 /\ d.buffer = From(b, 3) /\ SameRequest(c, d) /\ SameBody(c, d)
               /\ d.state \in {"COMPLETE", c.state}
      <4>1. 2 \in 0 .. Len(b) /\ 2 + 1 = 3
        BY <1>2, <3>4
      <4>2. From(b, 2 + 1) \in Ending(b)
        BY <1>2, <4>1, FromEnding
      <4>3. d.written = c.written /\ d.max = c.max
        BY <3>4 DEF SameBody, SameRequest, SameLimit
      <4>4. QED
        BY <1>6, <2>0, <3>2, <3>4, <4>1, <4>2, <4>3
    <3>5. QED
      BY <3>2, <3>3, <3>4
  <2>2. ASSUME ~c.trailing, c.size = 0 PROVE Good(d)
    <3> DEFINE n == CrlfIn(b)
    <3>1. d = ChunkSize(c)
      BY <1>1, <1>6, <2>2, ChunkStepIs DEF d
    <3>2. /\ d \in Connection
          /\ \/ d = c
             \/ /\ n \in 1 .. Len(b) - 1 /\ d.buffer = From(b, n + 2) /\ SameRequest(c, d) /\ SameBody(c, d)
                /\ d.state \in {"ERROR", c.state}
      <4>1. /\ d \in Connection
            /\ \/ d = c
               \/ /\ n \in 1 .. Len(b) - 1 /\ d.buffer = From(b, n + 2) /\ SameRequest(c, d) /\ SameBody(c, d)
                  /\ d.state = "ERROR" \/ SameState(c, d)
        BY <1>1, <3>1, ChunkSizeIs DEF b
      <4>2. QED
        BY <4>1 DEF SameState
    <3> HIDE DEF n
    <3>3. CASE d = c
      BY <1>1, <1>3, <1>4, <1>6, <2>0, <3>3 DEF b
    <3>4. CASE /\ n \in 1 .. Len(b) - 1 /\ d.buffer = From(b, n + 2) /\ SameRequest(c, d) /\ SameBody(c, d)
               /\ d.state \in {"ERROR", c.state}
      <4>1. n + 1 \in 0 .. Len(b) /\ (n + 1) + 1 = n + 2
        BY <1>2, <3>4
      <4>2. From(b, (n + 1) + 1) \in Ending(b)
        BY <1>2, <4>1, FromEnding
      <4>3. d.written = c.written /\ d.max = c.max
        BY <3>4 DEF SameBody, SameRequest, SameLimit
      <4>4. QED
        BY <1>6, <2>0, <3>2, <3>4, <4>1, <4>2, <4>3
    <3>5. QED
      BY <3>2, <3>3, <3>4
  <2>3. ASSUME ~c.trailing, c.size > 0 PROVE Good(d)
    <3> DEFINE n == Least(c.size, Len(b))
    <3>1. d = ChunkData(c)
      BY <1>1, <1>6, <2>3, ChunkStepIs DEF d
    <3>2. /\ d \in Connection /\ n \in 0 .. Len(b)
          /\ \/ d = Fails(c, 413)
             \/ c.written + n <= c.max /\ Taken(c, d, n) /\ SameState(c, d)
      BY <1>1, <1>6, <2>3, <3>1, ChunkDataIs DEF b
    <3> HIDE DEF n
    <3>3. CASE d = Fails(c, 413)
      <4>1. d.buffer = b /\ SameRequest(c, d) /\ d.state = "ERROR"
        BY <1>1, <3>3, FailsIs DEF b
      <4>2. QED
        BY <1>3, <3>2, <4>1
    <3>4. CASE c.written + n <= c.max /\ Taken(c, d, n) /\ SameState(c, d)
      <4>1. From(b, n + 1) \in Ending(b)
        BY <1>2, <3>2, FromEnding
      <4>2. /\ d.buffer = From(b, n + 1) /\ SameRequest(c, d) /\ d.state = "BODY"
            /\ d.written = c.written + n /\ d.max = c.max
        BY <1>6, <3>4 DEF Taken, SameState, SameRequest, SameLimit, b
      <4>3. QED
        BY <3>2, <3>4, <4>1, <4>2
    <3>5. QED
      BY <3>2, <3>3, <3>4
  <2>4. Good(d)
    BY <1>2, <2>1, <2>2, <2>3
  <2>5. d.chunked /\ Limited(d)
    BY <1>1, <1>6, <2>4 DEF SameRequest, SameFraming, SameLine, SameLimit, Limited
  <2>6. Sane(d)
    BY <2>4, <2>5 DEF Sane
  <2>7. QED
    BY <1>6, <2>4, <2>6 DEF b, d
<1>7. QED
  BY <1>5, <1>6

LEMMA ParseBodySane ==
  ASSUME NEW c, Sane(c), c.state = "BODY", ~c.chunked
  PROVE  LET d == ParseBody(c)
         IN  /\ Sane(d) /\ d.buffer \in Ending(c.buffer)
             /\ d.state \in {"BODY", "COMPLETE", "ERROR"}
             /\ d.state = "BODY" => ~d.chunked /\ d.buffer = <<>>
<1> DEFINE d == ParseBody(c)
           b == c.buffer
           n == Least(c.length - c.written, Len(b))
<1>1. c \in Connection /\ Limited(c) /\ c.written <= c.max /\ c.length > 0 /\ c.written <= c.length
  BY DEF Sane
<1>2. /\ b \in Seq(Item) /\ Len(b) \in Nat /\ c.max \in Nat /\ c.length \in Nat /\ c.written \in Nat
  BY <1>1, LenProperties DEF Connection
<1>3. b \in Ending(b) /\ <<>> \in Ending(b)
  BY <1>2, EndingIs
<1> HIDE DEF b, d
<1>4. n \in Nat /\ n <= c.length - c.written /\ n \in {c.length - c.written, Len(b)}
  <2>1. c.length - c.written \in Nat
    BY <1>1, <1>2
  <2>2. QED
    BY <1>2, <2>1, LeastIs
<1>5. /\ d \in Connection /\ n \in 0 .. Len(b)
      /\ \/ d = Fails(c, 413)
         \/ /\ c.written + n <= c.max /\ (b = <<>> \/ c.written + n < c.length)
            /\ Taken(c, d, n) /\ SameState(c, d)
         \/ /\ d.buffer = <<>> /\ d.state = "COMPLETE" /\ d.max = c.max /\ d.limit = c.limit
            /\ SameLine(c, d)
  BY <1>1, ParseBodyIs DEF b, d
<1> HIDE DEF n
<1>6. CASE d = Fails(c, 413)
  <2>1. d.buffer = b /\ d.state = "ERROR" /\ SameRequest(c, d)
    BY <1>1, <1>6, FailsIs DEF b
  <2>2. Limited(d)
    BY <1>1, <2>1 DEF SameRequest, SameLine, SameLimit, Limited
  <2>3. QED
    BY <1>3, <1>5, <2>1, <2>2 DEF Sane, b, d
<1>7. CASE /\ c.written + n <= c.max /\ (b = <<>> \/ c.written + n < c.length)
           /\ Taken(c, d, n) /\ SameState(c, d)
  <2>1. From(b, n + 1) \in Ending(b) /\ Len(From(b, n + 1)) = Len(b) - n /\ From(b, n + 1) \in Seq(Item)
    BY <1>2, <1>5, FromEnding, FromIs
  <2>2. /\ d.buffer = From(b, n + 1) /\ SameRequest(c, d) /\ d.state = "BODY"
        /\ d.written = c.written + n /\ d.max = c.max /\ d.length = c.length /\ d.chunked = c.chunked
    BY <1>7 DEF Taken, SameState, SameRequest, SameLimit, SameFraming, b
  <2>3. n = Len(b)
    <3>1. CASE b = <<>>
      <4>1. Len(b) = 0
        BY <3>1, EmptySeq
      <4>2. QED
        BY <1>5, <4>1
    <3>2. CASE c.written + n < c.length
      BY <1>2, <1>4, <3>2
    <3>3. QED
      BY <1>7, <3>1, <3>2
  <2>4. d.buffer = <<>>
    BY <1>2, <2>1, <2>2, <2>3, EmptySeq
  <2>5. Limited(d)
    BY <1>1, <2>2 DEF SameRequest, SameLine, SameLimit, Limited
  <2>6. d.written <= d.length
    BY <1>2, <1>4, <2>2
  <2>7. Sane(d)
    BY <1>1, <1>5, <1>7, <2>2, <2>5, <2>6 DEF Sane
  <2>8. QED
    BY <2>1, <2>2, <2>4, <2>7 DEF b, d
<1>8. CASE /\ d.buffer = <<>> /\ d.state = "COMPLETE" /\ d.max = c.max /\ d.limit = c.limit
           /\ SameLine(c, d)
  BY <1>1, <1>3, <1>5, <1>8 DEF Sane, Limited, SameLine, b, d
<1>9. QED
  BY <1>5, <1>6, <1>7, <1>8

\* feed() of any set of sane connections that its parts do not leave.
LEMMA FeedInto ==
  ASSUME NEW c, Sane(c), c.state \notin {"COMPLETE", "ERROR"}, NEW Y,
         \A y \in Y : Sane(y) /\ HeaderStep(y) \in Y,
         \A y \in Y : y.state = "BODY" /\ y.chunked => ChunkStep(y) \in Y,
         \A y \in Y : y.state = "BODY" /\ ~y.chunked => ParseBody(y) \in Y,
         c.state \in {"IDLE", "REQUEST_LINE"} =>
           ApplyLimit(ParseRequestLine([c EXCEPT !.state = "REQUEST_LINE"])) \in Y,
         c.state \in {"HEADERS", "BODY"} => c \in Y
  PROVE  /\ Feed(c) \in Y
         /\ Feed(c).state = "HEADERS" => CrlfIn(Feed(c).buffer) = 0
         /\ Feed(c).state = "BODY" /\ Feed(c).chunked => ChunkStep(Feed(c)) = Feed(c)
         /\ Feed(c).state = "BODY" /\ ~Feed(c).chunked => Feed(c).buffer = <<>>
<1> DEFINE asked == IF c.state \in {"IDLE", "REQUEST_LINE"}
                      THEN ParseRequestLine([c EXCEPT !.state = "REQUEST_LINE"]) ELSE c
           begun == ApplyLimit(asked)
           looped == Repeat(HeaderStep, begun)
           headed == ApplyLimit(looped)
           d == Feed(c)
<1>1. d = IF headed.state # "BODY" THEN headed
          ELSE IF headed.chunked THEN Repeat(ChunkStep, headed) ELSE ParseBody(headed)
  BY DEF Feed
<1>2. c \in Connection /\ Limited(c)
  BY DEF Sane
<1>3. begun \in Y
  <2>1. CASE c.state \in {"IDLE", "REQUEST_LINE"}
    BY <2>1
  <2>2. CASE c.state \in {"HEADERS", "BODY"}
    <3>1. c.state \notin {"IDLE", "REQUEST_LINE"}
      BY <2>2
    <3>2. begun = c
      BY <1>2, <3>1, ApplyLimitSane
    <3>3. QED
      BY <2>2, <3>2
  <2>3. QED
    BY <1>2, <2>1, <2>2 DEF Connection, States
<1> HIDE DEF asked, begun
<1>4. Y \subseteq Connection
  BY DEF Sane
<1>5. looped \in Y /\ HeaderStep(looped) = looped
  BY <1>3, <1>4, HeadersRun
<1> HIDE DEF looped
<1>6. headed = looped
  BY <1>5, ApplyLimitSane DEF Sane
<1>7. headed \in Y /\ HeaderStep(headed) = headed
  BY <1>5, <1>6
<1> HIDE DEF headed
<1>8. CASE headed.state # "BODY"
  <2>1. d = headed
    BY <1>1, <1>8
  <2>2. ASSUME headed.state = "HEADERS" PROVE CrlfIn(headed.buffer) = 0
    <3> DEFINE n == CrlfIn(headed.buffer)
               b == headed.buffer
    <3>1. headed \in Connection
      BY <1>4, <1>7
    <3>2. b \in Seq(Item) /\ Len(b) \in Nat
      BY <3>1, LenProperties DEF Connection
    <3>3. n = 0 \/ (n \in 1 .. Len(b) - 1 /\ b = From(b, n + 2))
      BY <1>7, <2>2, <3>1, HeaderStepIs
    <3> HIDE DEF n, b
    <3>4. ASSUME n \in 1 .. Len(b) - 1, b = From(b, n + 2) PROVE FALSE
      <4>1. n + 1 \in 0 .. Len(b) /\ (n + 1) + 1 = n + 2 /\ n + 1 > 0
        BY <3>2, <3>4
      <4>2. Len(From(b, (n + 1) + 1)) = Len(b) - (n + 1)
        BY <3>2, <4>1, FromIs
      <4>3. QED
        BY <3>2, <3>4, <4>1, <4>2
    <3>5. QED
      BY <3>3, <3>4 DEF n
  <2>3. QED
    BY <1>7, <1>8, <2>1, <2>2 DEF d
<1>9. CASE headed.state = "BODY" /\ headed.chunked
  <2>1. d = Repeat(ChunkStep, headed)
    BY <1>1, <1>9
  <2> DEFINE X == {y \in Y : y.state = "BODY" => y.chunked}
  <2>2. headed \in X /\ X \subseteq Connection
    BY <1>4, <1>7, <1>9
  <2>3. ASSUME NEW x \in X PROVE ChunkStep(x) \in X
    <3>1. Sane(x) /\ (x.state = "BODY" => x.chunked) /\ x \in Connection
      BY <1>4
    <3>2. CASE x.state # "BODY"
      BY <3>1, <3>2, ChunkStepIs
    <3>3. CASE x.state = "BODY"
      <4>1. ChunkStep(x) \in Y /\ ChunkStep(x).chunked = x.chunked
        BY <3>1, <3>3, ChunkStepSane DEF SameRequest, SameFraming
      <4>2. QED
        BY <3>1, <3>3, <4>1
    <3>4. QED
      BY <3>2, <3>3
  <2>4. \A x \in X : x.state = "BODY" => x.written <= x.max
    BY DEF Sane
  <2>5. d \in X /\ ChunkStep(d) = d
    BY <2>1, <2>2, <2>3, <2>4, ChunksRun
  <2>6. d \in Y /\ ~(d.state = "BODY" /\ ~d.chunked)
    BY <2>5
  <2> HIDE DEF d, X
  <2>7. CASE d.state = "HEADERS"
    \* A chunk leaves the connection in BODY, or beyond.
    <3> DEFINE Z == {y \in Y : y.state \in {"BODY", "COMPLETE", "ERROR"} /\ (y.state = "BODY" => y.chunked)}
    <3>1. headed \in Z /\ Z \subseteq Connection
      BY <1>4, <1>7, <1>9
    <3>2. ASSUME NEW x \in Z PROVE ChunkStep(x) \in Z
      <4>1. x \in X /\ x \in Y /\ Sane(x) /\ x \in Connection
        BY <1>4 DEF X
      <4>2. ChunkStep(x) \in X
        BY <2>3, <4>1
      <4>3. ChunkStep(x).state \in {"BODY", "COMPLETE", "ERROR"}
        BY <4>1, ChunkStepSane
      <4>4. QED
        BY <4>2, <4>3 DEF X
    <3>3. \A x \in Z : x.state = "BODY" => x.written <= x.max
      BY DEF Sane
    <3>4. d \in Z
      BY <2>1, <3>1, <3>2, <3>3, ChunksRun
    <3>5. QED
      BY <2>7, <3>4
  <2>8. QED
    BY <2>5, <2>6, <2>7 DEF d
<1>10. CASE headed.state = "BODY" /\ ~headed.chunked
  <2>1. d = ParseBody(headed)
    BY <1>1, <1>10
  <2>2. ParseBody(headed) \in Y /\ Sane(headed)
    BY <1>7, <1>10
  <2>3. /\ ParseBody(headed).state \in {"BODY", "COMPLETE", "ERROR"}
        /\ ParseBody(headed).state = "BODY" => ~ParseBody(headed).chunked /\ ParseBody(headed).buffer = <<>>
    BY <1>10, <2>2, ParseBodySane
  <2> HIDE DEF d
  <2>4. QED
    BY <2>1, <2>2, <2>3 DEF d
<1>11. QED
  BY <1>8, <1>9, <1>10

\* The connection that the request line is looked for in.
Lined(c) == [c EXCEPT !.state = "REQUEST_LINE"]

LEMMA LinedIs ==
  ASSUME NEW c, Sane(c), c.state \in {"IDLE", "REQUEST_LINE"}
  PROVE  /\ Lined(c) \in Connection /\ Fresh(Lined(c)) /\ Lined(c).buffer = c.buffer
         /\ Lined(c).state = "REQUEST_LINE"
         /\ Lined(c) = [Blank EXCEPT !.buffer = c.buffer, !.state = "REQUEST_LINE"]
<1>1. c \in Connection /\ Fresh(c)
  BY DEF Sane
<1>2. c.buffer \in Seq(Item) /\ "REQUEST_LINE" \in States
  BY <1>1 DEF Connection, States
<1>3. Lined(c) = [c EXCEPT !.buffer = c.buffer, !.state = "REQUEST_LINE"]
  BY <1>1 DEF Lined, Connection
<1>4. Lined(c) = [Blank EXCEPT !.buffer = c.buffer, !.state = "REQUEST_LINE"]
  BY <1>1, <1>2, <1>3, FreshFields
<1> DEFINE b == c.buffer
           s == "REQUEST_LINE"
           d == Lined(c)
<1> HIDE DEF b, s, d
<1>5. b \in Seq(Item) /\ s \in States /\ d = [Blank EXCEPT !.buffer = b, !.state = s]
  BY <1>2, <1>4 DEF b, s, d
<1>6. d \in Connection /\ d.buffer = b /\ d.state = s
  BY ONLY <1>5, BlankTyped DEF Connection
<1>8. Fresh(d)
  BY ONLY <1>5, <1>6 DEF Fresh
<1>7. QED
  BY <1>4, <1>6, <1>8 DEF b, s, d

\* What a request line leaves, before the limit of its location is known.
LEMMA RequestLineIs ==
  ASSUME NEW c \in Connection, Fresh(c), c.state = "REQUEST_LINE"
  PROVE  LET d == ParseRequestLine(c)
         IN  /\ d \in Connection /\ d.buffer \in Ending(c.buffer) /\ SameRest(c, d)
             /\ d = c \/ d.state = "ERROR" \/ d.state = "HEADERS"
<1> DEFINE d == ParseRequestLine(c)
           b == c.buffer
           k == Skip(b)
           x == b[k + 1]
<1>1. b \in Seq(Item) /\ Len(b) \in Nat
  BY LenProperties DEF Connection
<1>2. b \in Ending(b) /\ SameRest(c, c)
  BY <1>1, EndingIs DEF SameRest, SameLimit, SameFraming, SameChunk, SameBody
<1>3. k \in 0 .. Len(b)
  BY <1>1, SkipIs
<1>4. \/ d = c
      \/ d = Fails(c, 400)
      \/ k < Len(b) /\ x.kind = "line" /\ d = Fails(c, x.code)
      \/ \E n \in 0 .. Len(b) : k < Len(b) /\ x.kind = "line" /\ d = LineDone(c, x, n)
  <2> DEFINE e == d
  <2>1. \/ e = c
        \/ e = Fails(c, 400)
        \/ k < Len(b) /\ x.kind = "line" /\ e = Fails(c, x.code)
        \/ k + 2 <= Len(b) /\ x.kind = "line" /\ e = LineDone(c, x, k + 2)
        \/ k + 3 <= Len(b) /\ x.kind = "line" /\ e = LineDone(c, x, k + 3)
    BY ParseRequestLineIs
  <2> HIDE DEF d, k, x, b
  <2>2. ASSUME k + 2 <= Len(b) PROVE k < Len(b) /\ k + 2 \in 0 .. Len(b)
    BY <1>1, <1>3, <2>2
  <2>3. ASSUME k + 3 <= Len(b) PROVE k < Len(b) /\ k + 3 \in 0 .. Len(b)
    BY <1>1, <1>3, <2>3
  <2>4. QED
    BY <2>1, <2>2, <2>3
<1>5. k < Len(b) => x \in Item
  <2>1. k < Len(b) => k + 1 \in 1 .. Len(b)
    BY <1>1, <1>3
  <2>2. QED
    BY <1>1, <2>1, ElementOfSeq
<1> HIDE DEF d, k, x
<1>6. ASSUME NEW code \in Nat, d = Fails(c, code)
      PROVE  d \in Connection /\ d.buffer \in Ending(b) /\ SameRest(c, d) /\ d.state = "ERROR"
  <2>1. /\ d \in Connection /\ d.state = "ERROR" /\ d.buffer = b /\ d.headers = c.headers
        /\ SameRequest(c, d) /\ SameChunk(c, d) /\ SameBody(c, d)
    BY <1>6, FailsIs
  <2>2. QED
    BY <1>2, <2>1 DEF SameRest, SameRequest
<1>7. CASE k < Len(b) /\ x.kind = "line" /\ d = Fails(c, x.code)
  <2>1. x.code \in Nat
    BY <1>5, <1>7, KindsOfItem
  <2>2. QED
    BY <1>6, <1>7, <2>1 DEF d
<1>8. ASSUME NEW n \in 0 .. Len(b), k < Len(b), x.kind = "line", d = LineDone(c, x, n)
      PROVE  d \in Connection /\ d.buffer \in Ending(b) /\ SameRest(c, d) /\ d.state \in {"ERROR", "HEADERS"}
  <2>1. x \in Item
    BY <1>5, <1>8
  <2>2. /\ d \in Connection /\ SameRest(c, d) /\ d.state \in {"ERROR", "HEADERS"}
        /\ d.buffer = b \/ d.buffer = From(b, n + 1)
    BY <1>8, <2>1, LineDoneIs
  <2>3. From(b, n + 1) \in Ending(b)
    BY <1>1, FromEnding
  <2>4. QED
    BY <1>2, <2>2, <2>3
<1>9. 400 \in Nat
  OBVIOUS
<1>10. CASE d = c
  BY <1>2, <1>10 DEF d
<1>11. CASE d = Fails(c, 400)
  BY <1>6, <1>9, <1>11 DEF d
<1>12. CASE \E n \in 0 .. Len(b) : k < Len(b) /\ x.kind = "line" /\ d = LineDone(c, x, n)
  BY <1>8, <1>12 DEF d
<1>13. QED
  BY <1>4, <1>7, <1>10, <1>11, <1>12

LEMMA RequestLineSane ==
  ASSUME NEW c, Sane(c), c.state \in {"IDLE", "REQUEST_LINE"}
  PROVE  LET d == ApplyLimit(ParseRequestLine(Lined(c)))
         IN  /\ Sane(d) /\ d.buffer \in Ending(c.buffer)
             /\ d.state \in {"REQUEST_LINE", "HEADERS", "ERROR"}
             /\ d.state = "REQUEST_LINE" => ParseRequestLine(d) = d
<1> DEFINE e == Lined(c)
           g == ParseRequestLine(e)
           d == ApplyLimit(g)
<1>1. /\ e \in Connection /\ Fresh(e) /\ e.buffer = c.buffer /\ e.state = "REQUEST_LINE"
  BY LinedIs
<1> HIDE DEF e
<1>2. /\ g \in Connection /\ g.buffer \in Ending(e.buffer) /\ SameRest(e, g)
      /\ g = e \/ g.state = "ERROR" \/ g.state = "HEADERS"
  BY <1>1, RequestLineIs
<1>3. e.target = "" /\ NoBody(e) /\ Limited(e)
  BY <1>1, FreshFields
<1> HIDE DEF g
<1>4. /\ d \in Connection /\ d.buffer = g.buffer /\ d.headers = g.headers /\ SameState(g, d)
      /\ SameLine(g, d) /\ SameFraming(g, d) /\ SameChunk(g, d) /\ SameBody(g, d)
      /\ d.erased = g.erased
      /\ g.target = "" => d = g
      /\ g.target # "" => d.max = LimitOf(g.target) /\ d.limit = LimitOf(g.target)
  BY <1>2, ApplyLimitIs
<1> HIDE DEF d
<1>5. CASE g = e
  <2>1. d = e
    BY <1>3, <1>4, <1>5
  <2>2. ParseRequestLine(d) = d
    BY <1>5, <2>1 DEF g
  <2>3. Sane(d)
    BY <1>1, <1>3, <2>1 DEF Sane
  <2>4. d.buffer \in Ending(c.buffer) /\ d.state = "REQUEST_LINE"
    BY <1>1, <1>2, <1>5, <2>1
  <2>5. QED
    BY <2>2, <2>3, <2>4 DEF d, g, e
<1>6. CASE g.state = "ERROR" \/ g.state = "HEADERS"
  <2>1. d.state \in {"ERROR", "HEADERS"}
    BY <1>4, <1>6 DEF SameState
  <2>2. NoBody(d)
    BY <1>2, <1>3, <1>4 DEF NoBody, SameRest, SameFraming, SameChunk, SameBody
  <2>3. Limited(d)
    <3>1. g.target = "" => d.target = ""
      BY <1>4
    <3>2. d.target = g.target
      BY <1>4 DEF SameLine
    <3>3. QED
      BY <1>4, <3>1, <3>2 DEF Limited
  <2>4. Sane(d)
    BY <1>4, <2>1, <2>2, <2>3 DEF Sane
  <2>5. QED
    BY <1>1, <1>2, <1>4, <2>1, <2>4 DEF d, g, e
<1>7. QED
  BY <1>2, <1>5, <1>6

LEMMA FeedSane ==
  ASSUME NEW c, Sane(c)
  PROVE  LET d == Feed(c)
         IN  /\ Sane(d) /\ Settled(d) /\ d.buffer \in Ending(c.buffer) /\ d.state # "IDLE"
             /\ c.state \in {"COMPLETE", "ERROR"} => d = c
             /\ c.state \in {"BODY", "COMPLETE", "ERROR"} => d.state \in {"BODY", "COMPLETE", "ERROR"}
<1>1. c \in Connection /\ c.buffer \in Seq(Item) /\ c.state \in States
  BY DEF Sane, Connection
<1>2. CASE c.state \in {"COMPLETE", "ERROR"}
  <2>1. Feed(c) = c
    BY <1>2 DEF Feed
  <2>2. c.buffer \in Ending(c.buffer)
    BY <1>1, EndingIs
  <2>3. Settled(c)
    BY <1>2 DEF Settled
  <2>4. QED
    BY <1>2, <2>1, <2>2, <2>3
<1>3. CASE c.state \notin {"COMPLETE", "ERROR"}
  <2> DEFINE Y == {y \in Connection :
               /\ Sane(y) /\ y.buffer \in Ending(c.buffer) /\ y.state # "IDLE"
               /\ c.state = "BODY" => y.state \in {"BODY", "COMPLETE", "ERROR"}
               /\ y.state = "REQUEST_LINE" => ParseRequestLine(y) = y}
  <2>1. ASSUME NEW y \in Y PROVE Sane(y) /\ HeaderStep(y) \in Y
    <3>1. Sane(y) /\ y.buffer \in Seq(Item) /\ Ending(y.buffer) \subseteq Ending(c.buffer)
      BY <1>1, EndingIs
    <3>2. /\ Sane(HeaderStep(y)) /\ HeaderStep(y).buffer \in Ending(y.buffer)
          /\ y.state # "HEADERS" => HeaderStep(y) = y
          /\ y.state = "HEADERS" => HeaderStep(y).state \in {"HEADERS", "BODY", "COMPLETE", "ERROR"}
      BY <3>1, HeaderStepSane
    <3>3. HeaderStep(y) \in Connection
      BY <3>2 DEF Sane
    <3>4. CASE y.state # "HEADERS"
      BY <3>1, <3>2, <3>4
    <3>5. CASE y.state = "HEADERS"
      BY <3>1, <3>2, <3>3, <3>5
    <3>6. QED
      BY <3>4, <3>5
  <2>2. ASSUME NEW y \in Y, y.state = "BODY", y.chunked PROVE ChunkStep(y) \in Y
    <3>1. Sane(y) /\ y.buffer \in Seq(Item) /\ Ending(y.buffer) \subseteq Ending(c.buffer)
      BY <1>1, EndingIs
    <3>2. /\ Sane(ChunkStep(y)) /\ ChunkStep(y).buffer \in Ending(y.buffer)
          /\ ChunkStep(y).state \in {"BODY", "COMPLETE", "ERROR"}
      BY <2>2, <3>1, ChunkStepSane
    <3>3. ChunkStep(y) \in Connection
      BY <3>2 DEF Sane
    <3>4. QED
      BY <3>1, <3>2, <3>3
  <2>3. ASSUME NEW y \in Y, y.state = "BODY", ~y.chunked PROVE ParseBody(y) \in Y
    <3>1. Sane(y) /\ y.buffer \in Seq(Item) /\ Ending(y.buffer) \subseteq Ending(c.buffer)
      BY <1>1, EndingIs
    <3>2. /\ Sane(ParseBody(y)) /\ ParseBody(y).buffer \in Ending(y.buffer)
          /\ ParseBody(y).state \in {"BODY", "COMPLETE", "ERROR"}
      BY <2>3, <3>1, ParseBodySane
    <3>3. ParseBody(y) \in Connection
      BY <3>2 DEF Sane
    <3>4. QED
      BY <3>1, <3>2, <3>3
  <2>4. ASSUME c.state \in {"IDLE", "REQUEST_LINE"}
        PROVE  ApplyLimit(ParseRequestLine([c EXCEPT !.state = "REQUEST_LINE"])) \in Y
    <3> DEFINE y == ApplyLimit(ParseRequestLine(Lined(c)))
    <3>1. /\ Sane(y) /\ y.buffer \in Ending(c.buffer)
          /\ y.state \in {"REQUEST_LINE", "HEADERS", "ERROR"}
          /\ y.state = "REQUEST_LINE" => ParseRequestLine(y) = y
      BY <2>4, RequestLineSane
    <3> HIDE DEF y
    <3>2. y \in Y
      BY <2>4, <3>1 DEF Sane
    <3>3. QED
      BY <3>2 DEF y, Lined
  <2>5. ASSUME c.state \in {"HEADERS", "BODY"} PROVE c \in Y
    BY <1>1, <2>5, EndingIs
  <2> HIDE DEF Y
  <2>6. /\ Feed(c) \in Y
        /\ Feed(c).state = "HEADERS" => CrlfIn(Feed(c).buffer) = 0
        /\ Feed(c).state = "BODY" /\ Feed(c).chunked => ChunkStep(Feed(c)) = Feed(c)
        /\ Feed(c).state = "BODY" /\ ~Feed(c).chunked => Feed(c).buffer = <<>>
    BY <1>3, <2>1, <2>2, <2>3, <2>4, <2>5, FeedInto
  <2>7. QED
    BY <1>3, <2>6 DEF Y, Settled
<1>4. QED
  BY <1>2, <1>3

-----------------------------------------------------------------------------
(* What is sent. *)

LEMMA Tokens ==
  /\ Crlf \in Seq(Item) /\ Len(Crlf) = 2 /\ Crlf[1] = CR /\ Crlf[2] = LF
  /\ \A x \in Item : <<x>> \in Seq(Item) /\ Len(<<x>>) = 1 /\ <<x>>[1] = x
  /\ <<>> \in Seq(Item) /\ Len(<<>>) = 0
<1>1. CR \in Item /\ LF \in Item
  BY ItemKinds
<1>2. Crlf \in Seq(Item) /\ Len(Crlf) = 2 /\ Crlf[1] = CR /\ Crlf[2] = LF
  BY <1>1 DEF Crlf
<1>3. ASSUME NEW x \in Item PROVE <<x>> \in Seq(Item) /\ Len(<<x>>) = 1 /\ <<x>>[1] = x
  OBVIOUS
<1>4. QED
  BY <1>2, <1>3, EmptySeq

\* The units of data after the first a of them, up to the b-th.
Span(a, b) == [i \in 1 .. b - a |-> Data(a + i)]

LEMMA SpanIs ==
  ASSUME NEW a \in Nat, NEW b \in Nat, a <= b
  PROVE  /\ Span(a, b) \in Seq(Item) /\ Len(Span(a, b)) = b - a
         /\ \A i \in 1 .. b - a : Span(a, b)[i] = Data(a + i)
         /\ Datas(b) = Span(0, b)
<1> DEFINE s == [i \in 1 .. b - a |-> Data(a + i)]
<1>1. \A i \in 1 .. b - a : Data(a + i) \in Item
  <2>1. ASSUME NEW i \in 1 .. b - a PROVE Data(a + i) \in Item
    <3>1. a + i \in Nat
      OBVIOUS
    <3>2. QED
      BY <3>1, ItemKinds
  <2>2. QED
    BY <2>1
<1>2. b - a \in Nat
  OBVIOUS
<1>3. s \in Seq(Item)
  BY <1>1, <1>2, IsASeq
<1>4. Len(s) = b - a
  BY <1>2, <1>3, LenProperties
<1>5. Datas(b) = Span(0, b)
  <2>1. b - 0 = b /\ \A i \in 1 .. b : 0 + i = i
    OBVIOUS
  <2>2. QED
    BY <2>1 DEF Datas, Span
<1>6. QED
  BY <1>3, <1>4, <1>5 DEF Span

\* What a client may ask for, each part under a name of its own.
AskedTarget == STRING \ {""}
AskedCode == {200, 400, 404, 414, 501, 505}
AskedHeader == [kind : {"header"}, name : STRING, n : Nat]
AskedChunk == Nat \ {0}
AskedFields == Seq(AskedHeader)
AskedChunks == Seq(AskedChunk)
Asking ==
  [method : STRING, target : AskedTarget, code : AskedCode, headers : AskedFields,
   chunks : AskedChunks, length : Nat, extra : BOOLEAN]

LEMMA AskedRecord ==
  ASSUME NEW r \in Requests
  PROVE  r \in Asking
<1>1. Requests \subseteq Asking
  BY ONLY Asked, Zenon DEF Asking, AskedTarget, AskedCode, AskedHeader, AskedChunk, AskedFields, AskedChunks
<1>2. QED
  BY ONLY <1>1, r \in Requests

LEMMA AskedParts ==
  ASSUME NEW r \in Requests
  PROVE  /\ r.method \in STRING /\ r.target \in AskedTarget /\ r.code \in AskedCode
         /\ r.headers \in AskedFields /\ r.chunks \in AskedChunks /\ r.length \in Nat
         /\ r.extra \in BOOLEAN
<1>1. r \in Asking
  BY AskedRecord
<1>2. QED
  BY ONLY <1>1 DEF Asking

LEMMA AskedTyped ==
  ASSUME NEW r \in Requests
  PROVE  r.method \in Word /\ r.target \in Word /\ r.code \in Nat
<1>1. r.method \in STRING /\ r.target \in STRING
  BY ONLY r \in Requests, AskedParts DEF AskedTarget
<1>2. STRING \subseteq Word
  BY DEF Word
<1>3. r.code \in {200, 400, 404, 414, 501, 505}
  BY ONLY r \in Requests, AskedParts DEF AskedCode
<1>4. r.code \in Nat
  BY ONLY <1>3
<1>5. QED
  BY ONLY <1>1, <1>2, <1>4

LEMMA AskedLine ==
  ASSUME NEW r \in Requests
  PROVE  /\ r.method \in Word /\ r.target \in Word /\ r.target # ""
         /\ r.code \in {200, 400, 404, 414, 501, 505} /\ r.code \in Nat
<1>1. r.target # ""
  BY ONLY r \in Requests, AskedParts DEF AskedTarget
<1>2. r.code \in {200, 400, 404, 414, 501, 505}
  BY ONLY r \in Requests, AskedParts DEF AskedCode
<1>3. r.method \in Word /\ r.target \in Word /\ r.code \in Nat
  BY ONLY r \in Requests, AskedTyped
<1>4. QED
  BY ONLY <1>1, <1>2, <1>3

LEMMA AskedHeaders ==
  ASSUME NEW r \in Requests
  PROVE  r.headers \in Seq(HeaderField)
<1> DEFINE H == [kind : {"header"}, name : STRING, n : Nat]
<1>2. r.headers \in Seq(H)
  BY ONLY r \in Requests, AskedParts DEF AskedFields, AskedHeader
<1>3. \A h \in H : h \in HeaderField
  BY DEF HeaderField, Word
<1> HIDE DEF H
<1>4. H \subseteq HeaderField
  BY ONLY <1>3
<1>5. QED
  BY ONLY <1>2, <1>4, SeqMonotonic

LEMMA AskedBody ==
  ASSUME NEW r \in Requests
  PROVE  /\ r.chunks \in Seq(Nat) /\ r.length \in Nat /\ r.extra \in BOOLEAN
         /\ \A k \in 1 .. Len(r.chunks) : r.chunks[k] \in Nat \ {0}
<1> DEFINE c == r.chunks
           P == Nat \ {0}
<1>2. c \in Seq(P) /\ r.length \in Nat /\ r.extra \in BOOLEAN
  BY ONLY r \in Requests, AskedParts DEF AskedChunks, AskedChunk
<1>3. P \subseteq Nat
  OBVIOUS
<1> HIDE DEF c, P
<1>4. c \in Seq(Nat)
  BY ONLY <1>2, <1>3, SeqMonotonic
<1>5. \A k \in 1 .. Len(c) : c[k] \in P
  BY ONLY <1>2, ElementOfSeq
<1>6. QED
  BY <1>2, <1>4, <1>5 DEF c, P

LEMMA AskedFraming ==
  ASSUME NEW r \in Requests
  PROVE  /\ r.chunks # <<>> => InChunks(r)
         /\ r.length > 0 => "content-length" \in Names(r.headers)
         /\ \A i \in 1 .. Len(r.headers) : r.headers[i].name = "content-length"
              => r.headers[i].n = r.length \/ InChunks(r)
BY ONLY Asked, r \in Requests, ZenonT(30)

\* What is not a request line.
Plain == {x \in Item : x.kind # "line"}

Fields(r) == [i \in 1 .. Len(r.headers) |-> <<r.headers[i]>> \o Crlf]
Chunks(r) == [k \in 1 .. Len(r.chunks) |-> Chunk(r, k)]
LastChunk == <<Size(0)>> \o (Crlf \o Crlf)
End(r) == IF r.extra THEN Crlf ELSE <<>>
Body(r) == IF InChunks(r) THEN FlattenSeq(Chunks(r)) \o LastChunk ELSE Datas(r.length)
LineOf(r) == Line(r.method, r.target, r.code)
Remainder(r) == FlattenSeq(Fields(r)) \o (Crlf \o (Body(r) \o End(r)))

LEMMA PlainIs ==
  /\ Plain \subseteq Item /\ HeaderField \subseteq Plain /\ CR \in Plain /\ LF \in Plain
  /\ \A n \in Nat : Data(n) \in Plain /\ Size(n) \in Plain
BY ItemKinds DEF Plain, CR, LF, Data, Size

LEMMA PlainJoined ==
  ASSUME NEW P \in SUBSET Item, NEW s \in Seq(P), NEW t \in Seq(P)
  PROVE  s \o t \in Seq(P) /\ s \in Seq(Item)
<1>1. s \in Seq(Item)
  BY SeqMonotonic
<1>2. s \o t \in Seq(P)
  BY ConcatProperties
<1>3. QED
  BY <1>1, <1>2

LEMMA FlatPlain ==
  ASSUME NEW P \in SUBSET Item, NEW s \in Seq(Seq(P))
  PROVE  FlattenSeq(s) \in Seq(P) /\ s \in Seq(Seq(Item))
<1>1. Seq(P) \subseteq Seq(Item)
  BY SeqMonotonic
<1>2. s \in Seq(Seq(Item))
  BY <1>1, SeqMonotonic
<1>3. Len(s) \in Nat /\ \A i \in 1 .. Len(s) : s[i] \in Seq(P)
  BY LenProperties, ElementOfSeq
<1>4. CASE Len(s) > 0
  <2> DEFINE n == Len(s)
  <2>1. PICK f : Flattens(s, n, f) /\ FlattenSeq(s) = f[n]
    BY <1>2, <1>4, FlattensExist
  <2>2. f[1] = s[1] /\ \A i \in 2 .. n : f[i] = f[i - 1] \o s[i]
    BY <2>1 DEF Flattens
  <2> HIDE DEF n
  <2>3. n \in Nat /\ n > 0 /\ \A i \in 1 .. n : s[i] \in Seq(P)
    BY <1>3, <1>4 DEF n
  <2> DEFINE S == {k \in Nat : k + 1 <= n => f[k + 1] \in Seq(P)}
  <2>4. 0 \in S
    BY <2>2, <2>3
  <2>5. ASSUME NEW k \in Nat, k \in S PROVE k + 1 \in S
    <3>1. SUFFICES ASSUME (k + 1) + 1 <= n PROVE f[(k + 1) + 1] \in Seq(P)
      OBVIOUS
    <3>2. f[k + 1] \in Seq(P) /\ (k + 1) + 1 \in 2 .. n /\ ((k + 1) + 1) - 1 = k + 1 /\ (k + 1) + 1 \in 1 .. n
      BY <2>3, <2>5, <3>1
    <3>3. f[(k + 1) + 1] = f[k + 1] \o s[(k + 1) + 1] /\ s[(k + 1) + 1] \in Seq(P)
      BY <2>2, <2>3, <3>2
    <3>4. QED
      BY <3>2, <3>3, PlainJoined
  <2> HIDE DEF S
  <2>6. n - 1 \in Nat /\ (n - 1) + 1 = n
    BY <2>3
  <2>7. n - 1 \in S
    BY <2>4, <2>5, <2>6, NatSet
  <2>8. f[n] \in Seq(P)
    BY <2>6, <2>7 DEF S
  <2>9. QED
    BY <1>2, <2>1, <2>8 DEF n
<1>5. CASE ~(Len(s) > 0)
  <2>1. s = <<>>
    BY <1>3, <1>5, EmptySeq
  <2>2. <<>> \in Seq(P)
    BY EmptySeq
  <2>3. QED
    BY <1>2, <2>1, <2>2, FlatNothing
<1>6. QED
  BY <1>4, <1>5

LEMMA PlainTokens ==
  /\ Crlf \in Seq(Plain) /\ <<>> \in Seq(Plain)
  /\ \A x \in Plain : <<x>> \in Seq(Plain)
<1>1. CR \in Plain /\ LF \in Plain
  BY PlainIs
<1>2. Crlf \in Seq(Plain)
  BY <1>1 DEF Crlf
<1>3. QED
  BY <1>2, EmptySeq

LEMMA PlainSpan ==
  ASSUME NEW a \in Nat, NEW b \in Nat, a <= b
  PROVE  Span(a, b) \in Seq(Plain) /\ Span(a, b) \in Seq(Item)
<1> DEFINE s == [i \in 1 .. b - a |-> Data(a + i)]
<1>1. ASSUME NEW i \in 1 .. b - a PROVE Data(a + i) \in Plain
  <2>1. a + i \in Nat
    OBVIOUS
  <2>2. QED
    BY <2>1, PlainIs
<1>2. b - a \in Nat
  OBVIOUS
<1>3. s \in Seq(Plain)
  BY <1>1, <1>2, IsASeq
<1>4. QED
  BY <1>3, SpanIs DEF Span

LEMMA TotalIs ==
  ASSUME NEW r \in Requests
  PROVE  /\ Total(r) \in Nat
         /\ \A k \in 0 .. Len(r.chunks) : SumTo(r.chunks, k) \in Nat /\ SumTo(r.chunks, k) <= Total(r)
         /\ \A k \in 1 .. Len(r.chunks) :
              /\ SumTo(r.chunks, k) = SumTo(r.chunks, k - 1) + r.chunks[k]
              /\ SumTo(r.chunks, k - 1) < SumTo(r.chunks, k) /\ k - 1 \in 0 .. Len(r.chunks)
         /\ SumTo(r.chunks, 0) = 0
<1>0. /\ r.chunks \in Seq(Nat) /\ r.length \in Nat
      /\ \A k \in 1 .. Len(r.chunks) : r.chunks[k] \in Nat \ {0}
  <2>1. r.length \in Nat
    BY ONLY r \in Requests, AskedBody
  <2>2. r.chunks \in Seq(Nat)
    BY ONLY r \in Requests, AskedBody
  <2>3. \A k \in 1 .. Len(r.chunks) : r.chunks[k] \in Nat \ {0}
    BY ONLY r \in Requests, AskedBody
  <2>4. QED
    BY <2>1, <2>2, <2>3
<1> DEFINE c == r.chunks
<1> HIDE DEF c
<1> DEFINE n == Len(c)
<1>1. c \in Seq(Nat) /\ r.length \in Nat /\ \A k \in 1 .. n : c[k] \in Nat \ {0}
  BY <1>0 DEF c
<1>2. n \in Nat
  BY <1>1, LenProperties
<1>3. Total(r) = SumTo(c, n) + r.length
  BY DEF Total, c
<1>4. ASSUME NEW k \in 0 .. n PROVE SumTo(c, k) \in Nat /\ SumTo(c, k) <= SumTo(c, n)
  <2>1. n \in k .. n
    BY <1>2
  <2>2. SumTo(c, k) <= SumTo(c, n)
    BY <1>1, <2>1, SumGrows
  <2>3. QED
    BY <1>1, <2>2, SumNext
<1>5. n \in 0 .. n
  BY <1>2
<1>6. SumTo(c, n) \in Nat
  BY <1>4, <1>5
<1>7. \A k \in 0 .. n : SumTo(c, k) \in Nat /\ SumTo(c, k) <= Total(r)
  BY <1>1, <1>3, <1>4, <1>6
<1>8. ASSUME NEW k \in 1 .. n
      PROVE  /\ SumTo(c, k) = SumTo(c, k - 1) + c[k]
             /\ SumTo(c, k - 1) < SumTo(c, k) /\ k - 1 \in 0 .. n
  <2>1. k \in 0 .. n /\ k - 1 \in 0 .. n /\ k > 0
    BY <1>2
  <2>2. SumTo(c, k) = SumTo(c, k - 1) + c[k]
    BY <1>1, <2>1, SumNext
  <2>3. c[k] \in Nat \ {0} /\ SumTo(c, k - 1) \in Nat
    BY <1>1, <1>4, <2>1
  <2>4. QED
    BY <2>1, <2>2, <2>3
<1>9. SumTo(c, 0) = 0
  <2>1. 0 \in 0 .. n
    BY <1>2
  <2>2. QED
    BY <1>1, <2>1, SumNext
<1>10. QED
  BY <1>1, <1>3, <1>6, <1>7, <1>8, <1>9 DEF c

\* A piece of the units of data.
LEMMA SpanCut ==
  ASSUME NEW a \in Nat, NEW b \in Nat, NEW n \in Nat, a <= b, b <= n
  PROVE  SubSeq(Datas(n), a + 1, b) = Span(a, b)
<1> DEFINE d == Datas(n)
           s == SubSeq(d, a + 1, b)
           t == Span(a, b)
<1>1. d \in Seq(Item) /\ Len(d) = n - 0 /\ \A i \in 1 .. n - 0 : d[i] = Data(0 + i)
  <2>1. 0 \in Nat /\ n \in Nat /\ 0 <= n
    OBVIOUS
  <2>2. d = Span(0, n)
    BY ONLY <2>1, SpanIs
  <2>3. Span(0, n) \in Seq(Item) /\ Len(Span(0, n)) = n - 0 /\ \A i \in 1 .. n - 0 : Span(0, n)[i] = Data(0 + i)
    BY ONLY <2>1, SpanIs
  <2>4. QED
    BY ONLY <2>2, <2>3
<1>2. Len(d) = n /\ \A i \in 1 .. n : d[i] = Data(i) /\ d[i] \in Item
  <2>1. Len(d) = n /\ \A i \in 1 .. n : d[i] = Data(i)
    BY <1>1
  <2>2. QED
    BY <1>1, <2>1, ElementOfSeq
<1> HIDE DEF d
<1>3. a + 1 \in Int /\ b \in Int /\ \A i \in a + 1 .. b : d[i] \in Item
  BY <1>2
<1>4. /\ s \in Seq(Item)
      /\ Len(s) = IF a + 1 <= b THEN b - (a + 1) + 1 ELSE 0
      /\ \A i \in 1 .. b - (a + 1) + 1 : s[i] = d[a + 1 + i - 1]
  BY <1>1, <1>3, SubSeqProperties
<1> HIDE DEF s
<1>5. t \in Seq(Item) /\ Len(t) = b - a /\ \A i \in 1 .. b - a : t[i] = Data(a + i)
  BY SpanIs
<1> HIDE DEF t
<1>6. Len(s) = Len(t)
  BY <1>4, <1>5
<1>7. ASSUME NEW i \in 1 .. Len(s) PROVE s[i] = t[i]
  <2>1. i \in 1 .. b - (a + 1) + 1 /\ i \in 1 .. b - a /\ a + 1 + i - 1 = a + i /\ a + i \in 1 .. n
    BY <1>4, <1>5, <1>6
  <2>2. s[i] = d[a + 1 + i - 1] /\ t[i] = Data(a + i) /\ d[a + i] = Data(a + i)
    BY <1>2, <1>4, <1>5, <2>1
  <2>3. QED
    BY <2>1, <2>2
<1>8. QED
  BY <1>4, <1>5, <1>6, <1>7, SameItems DEF s, t, d

\* The k-th chunk: its size, its data, and the end of each.
LEMMA ChunkIs ==
  ASSUME NEW r \in Requests, NEW k \in 1 .. Len(r.chunks)
  PROVE  LET a == SumTo(r.chunks, k - 1)
             b == SumTo(r.chunks, k)
         IN  /\ Chunk(r, k) = <<Size(r.chunks[k])>> \o (Crlf \o (Span(a, b) \o Crlf))
             /\ Chunk(r, k) \in Seq(Plain) /\ Chunk(r, k) \in Seq(Item)
             /\ a \in Nat /\ b \in Nat /\ a < b /\ b = a + r.chunks[k] /\ b <= Total(r)
             /\ r.chunks[k] \in Nat \ {0} /\ r.chunks[k] = b - a
             /\ Span(a, b) \in Seq(Plain) /\ Span(a, b) \in Seq(Item)
<1> DEFINE a == SumTo(r.chunks, k - 1)
           b == SumTo(r.chunks, k)
           n == Total(r)
           z == Size(r.chunks[k])
           s == Span(a, b)
<1>1. r.chunks[k] \in Nat \ {0}
  BY ONLY r \in Requests, AskedBody
<1>2. k \in 0 .. Len(r.chunks) /\ k - 1 \in 0 .. Len(r.chunks)
  <2>1. r.chunks \in Seq(Nat)
    BY ONLY r \in Requests, AskedBody
  <2>2. Len(r.chunks) \in Nat
    BY <2>1, LenProperties
  <2>3. QED
    BY <2>2
<1>3. n \in Nat
  BY TotalIs
<1>4. a \in Nat /\ b \in Nat /\ b <= n
  BY <1>2, TotalIs
<1>5. b = a + r.chunks[k]
  BY TotalIs
<1>6. a < b /\ a <= b /\ r.chunks[k] = b - a
  BY <1>1, <1>4, <1>5
<1>7. SubSeq(Datas(n), a + 1, b) = s
  BY <1>3, <1>4, <1>6, SpanCut
<1>8. s \in Seq(Plain) /\ s \in Seq(Item)
  BY <1>4, <1>6, PlainSpan
<1>9. z \in Plain /\ <<z>> \in Seq(Plain) /\ <<z>> \in Seq(Item)
  <2>1. z \in Plain /\ z \in Item
    BY <1>1, PlainIs
  <2>2. QED
    BY <2>1, PlainTokens, Tokens
<1>10. Chunk(r, k) = <<z>> \o Crlf \o s \o Crlf
  BY <1>7 DEF Chunk
<1> HIDE DEF a, b, n, z, s
<1>11. Crlf \in Seq(Plain) /\ Crlf \in Seq(Item) /\ Plain \in SUBSET Item
  BY PlainTokens, Tokens, PlainIs
<1>12. s \o Crlf \in Seq(Plain) /\ s \o Crlf \in Seq(Item)
  BY <1>8, <1>11, PlainJoined
<1>13. Crlf \o (s \o Crlf) \in Seq(Plain) /\ Crlf \o (s \o Crlf) \in Seq(Item)
  BY <1>11, <1>12, PlainJoined
<1>14. <<z>> \o (Crlf \o (s \o Crlf)) \in Seq(Plain) /\ <<z>> \o (Crlf \o (s \o Crlf)) \in Seq(Item)
  BY <1>9, <1>11, <1>13, PlainJoined
<1>15. <<z>> \o Crlf \o s \o Crlf = <<z>> \o (Crlf \o (s \o Crlf))
  <2>1. <<z>> \o Crlf \in Seq(Item)
    BY <1>9, <1>11, Joined
  <2>2. (<<z>> \o Crlf) \o (s \o Crlf) = ((<<z>> \o Crlf) \o s) \o Crlf
    BY <1>8, <1>11, <2>1, Together
  <2>3. <<z>> \o (Crlf \o (s \o Crlf)) = (<<z>> \o Crlf) \o (s \o Crlf)
    BY <1>9, <1>11, <1>12, Together
  <2>4. QED
    BY <2>2, <2>3
<1>16. QED
  BY <1>1, <1>4, <1>5, <1>6, <1>8, <1>10, <1>14, <1>15 DEF a, b, n, z, s

LEMMA PiecesTyped ==
  ASSUME NEW r \in Requests
  PROVE  /\ Fields(r) \in Seq(Seq(Plain)) /\ Len(Fields(r)) = Len(r.headers)
         /\ \A i \in 1 .. Len(r.headers) : Fields(r)[i] = <<r.headers[i]>> \o Crlf
         /\ Chunks(r) \in Seq(Seq(Plain)) /\ Len(Chunks(r)) = Len(r.chunks)
         /\ \A k \in 1 .. Len(r.chunks) : Chunks(r)[k] = Chunk(r, k)
         /\ LastChunk \in Seq(Plain) /\ End(r) \in Seq(Plain) /\ Body(r) \in Seq(Plain)
         /\ Len(r.headers) \in Nat /\ Len(r.chunks) \in Nat
<1>1. r.headers \in Seq(HeaderField)
  BY ONLY r \in Requests, AskedHeaders
<1>2. r.chunks \in Seq(Nat)
  BY ONLY r \in Requests, AskedBody
<1>3. r.length \in Nat
  BY ONLY r \in Requests, AskedBody
<1>4. Len(r.headers) \in Nat /\ Len(r.chunks) \in Nat
  BY <1>1, <1>2, LenProperties
<1>5. Crlf \in Seq(Plain) /\ <<>> \in Seq(Plain) /\ Plain \in SUBSET Item
  BY PlainTokens, PlainIs
<1> DEFINE f == [i \in 1 .. Len(r.headers) |-> <<r.headers[i]>> \o Crlf]
           c == [k \in 1 .. Len(r.chunks) |-> Chunk(r, k)]
<1>6. f \in Seq(Seq(Plain)) /\ Len(f) = Len(r.headers)
  <2>1. ASSUME NEW i \in 1 .. Len(r.headers) PROVE <<r.headers[i]>> \o Crlf \in Seq(Plain)
    <3>1. r.headers[i] \in HeaderField
      BY <1>1, ElementOfSeq
    <3>2. r.headers[i] \in Plain
      BY <3>1, PlainIs
    <3>3. <<r.headers[i]>> \in Seq(Plain)
      BY <3>2, PlainTokens
    <3>4. QED
      BY <1>5, <3>3, PlainJoined
  <2>2. f \in Seq(Seq(Plain))
    BY <1>4, <2>1, IsASeq
  <2>3. QED
    BY <1>4, <2>2, LenProperties
<1>7. c \in Seq(Seq(Plain)) /\ Len(c) = Len(r.chunks)
  <2>1. ASSUME NEW k \in 1 .. Len(r.chunks) PROVE Chunk(r, k) \in Seq(Plain)
    BY ChunkIs
  <2>2. c \in Seq(Seq(Plain))
    BY <1>4, <2>1, IsASeq
  <2>3. QED
    BY <1>4, <2>2, LenProperties
<1>8. LastChunk \in Seq(Plain)
  <2>1. Size(0) \in Plain
    BY PlainIs
  <2>2. <<Size(0)>> \in Seq(Plain)
    BY <2>1, PlainTokens
  <2>3. Crlf \o Crlf \in Seq(Plain)
    BY <1>5, PlainJoined
  <2>4. QED
    BY <1>5, <2>2, <2>3, PlainJoined DEF LastChunk
<1>9. End(r) \in Seq(Plain)
  BY <1>5 DEF End
<1>10. FlattenSeq(Chunks(r)) \in Seq(Plain)
  BY <1>5, <1>7, FlatPlain DEF Chunks
<1>11. Datas(r.length) \in Seq(Plain)
  <2>1. 0 \in Nat /\ 0 <= r.length
    BY <1>3
  <2>2. Datas(r.length) = Span(0, r.length)
    BY <1>3, <2>1, SpanIs
  <2>3. Span(0, r.length) \in Seq(Plain)
    BY <1>3, <2>1, PlainSpan
  <2>4. QED
    BY <2>2, <2>3
<1>12. FlattenSeq(Chunks(r)) \o LastChunk \in Seq(Plain)
  BY <1>5, <1>8, <1>10, PlainJoined
<1>13. Body(r) \in Seq(Plain)
  BY <1>11, <1>12 DEF Body
<1>14. QED
  BY <1>4, <1>6, <1>7, <1>8, <1>9, <1>13 DEF Fields, Chunks

LEMMA WireIs ==
  ASSUME NEW r \in Requests
  PROVE  /\ Wire(r) = <<LineOf(r)>> \o (Crlf \o Remainder(r)) /\ Wire(r) \in Seq(Item)
         /\ Remainder(r) \in Seq(Plain) /\ Crlf \o Remainder(r) \in Seq(Plain)
         /\ LineOf(r) \in Item
<1> DEFINE l == <<LineOf(r)>>
           f == FlattenSeq(Fields(r))
           b == Body(r)
           e == End(r)
<1>1. LineOf(r) \in Item
  <2>1. r.method \in Word /\ r.target \in Word /\ r.code \in Nat
    BY ONLY r \in Requests, AskedTyped
  <2>2. QED
    BY <2>1, ItemKinds DEF LineOf
<1>2. Crlf \in Seq(Plain) /\ Crlf \in Seq(Item) /\ Plain \in SUBSET Item
  BY PlainTokens, Tokens, PlainIs
<1>3. f \in Seq(Plain)
  <2>1. Fields(r) \in Seq(Seq(Plain))
    BY PiecesTyped
  <2>2. QED
    BY <1>2, <2>1, FlatPlain
<1>4. b \in Seq(Plain)
  BY PiecesTyped
<1>5. e \in Seq(Plain)
  BY PiecesTyped
<1>6. l \in Seq(Item)
  BY <1>1, Tokens
<1>7. Wire(r) = ((((l \o Crlf) \o f) \o Crlf) \o b) \o e
  <2>1. CASE InChunks(r)
    <3>1. Wire(r) = ((((l \o Crlf) \o f) \o Crlf) \o (FlattenSeq(Chunks(r)) \o <<Size(0)>> \o Crlf \o Crlf)) \o e
      BY <2>1 DEF Wire, LineOf, Fields, Chunks, End
    <3>2. FlattenSeq(Chunks(r)) \o <<Size(0)>> \o Crlf \o Crlf = FlattenSeq(Chunks(r)) \o LastChunk
      <4> DEFINE q == FlattenSeq(Chunks(r))
                 z == <<Size(0)>>
      <4>1. q \in Seq(Item)
        <5>1. Chunks(r) \in Seq(Seq(Plain))
          BY PiecesTyped
        <5>2. q \in Seq(Plain)
          BY <1>2, <5>1, FlatPlain
        <5>3. QED
          BY <1>2, <5>2, PlainJoined
      <4>2. z \in Seq(Item)
        <5>1. Size(0) \in Item
          BY ItemKinds
        <5>2. QED
          BY <5>1, Tokens
      <4> HIDE DEF q, z
      <4>3. q \o z \in Seq(Item) /\ Crlf \o Crlf \in Seq(Item)
        BY <1>2, <4>1, <4>2, Joined
      <4>4. (q \o z) \o (Crlf \o Crlf) = ((q \o z) \o Crlf) \o Crlf
        BY <1>2, <4>3, Together
      <4>5. q \o (z \o (Crlf \o Crlf)) = (q \o z) \o (Crlf \o Crlf)
        BY <4>1, <4>2, <4>3, Together
      <4>6. QED
        BY <4>4, <4>5 DEF q, z, LastChunk
    <3>3. QED
      BY <2>1, <3>1, <3>2 DEF Body
  <2>2. CASE ~InChunks(r)
    BY <2>2 DEF Wire, LineOf, Fields, End, Body
  <2>3. QED
    BY <2>1, <2>2
<1>8. Remainder(r) = f \o (Crlf \o (b \o e))
  BY DEF Remainder
<1> HIDE DEF l, f, b, e
<1>9. b \o e \in Seq(Plain) /\ b \in Seq(Item) /\ e \in Seq(Item) /\ f \in Seq(Item)
  BY <1>2, <1>3, <1>4, <1>5, PlainJoined
<1>10. Crlf \o (b \o e) \in Seq(Plain) /\ b \o e \in Seq(Item)
  BY <1>2, <1>9, PlainJoined
<1>11. f \o (Crlf \o (b \o e)) \in Seq(Plain) /\ Crlf \o (b \o e) \in Seq(Item)
  BY <1>2, <1>3, <1>10, PlainJoined
<1>12. Remainder(r) \in Seq(Plain) /\ Crlf \o Remainder(r) \in Seq(Plain) /\ Crlf \o Remainder(r) \in Seq(Item)
  <2>1. Crlf \o Remainder(r) \in Seq(Plain)
    BY <1>2, <1>8, <1>11, PlainJoined
  <2>2. QED
    BY <1>2, <1>8, <1>11, <2>1, PlainJoined
<1>13. Wire(r) = l \o (Crlf \o Remainder(r))
  <2> DEFINE t == Crlf \o (b \o e)
  <2>1. l \o Crlf \in Seq(Item) /\ (l \o Crlf) \o f \in Seq(Item) /\ ((l \o Crlf) \o f) \o Crlf \in Seq(Item)
    BY <1>2, <1>6, <1>9, Joined
  <2>2. (((l \o Crlf) \o f) \o Crlf) \o (b \o e) = ((((l \o Crlf) \o f) \o Crlf) \o b) \o e
    <3> DEFINE u == ((l \o Crlf) \o f) \o Crlf
    <3>1. u \in Seq(Item) /\ b \in Seq(Item) /\ e \in Seq(Item)
      BY <1>9, <2>1
    <3> HIDE DEF u
    <3>2. u \o (b \o e) = (u \o b) \o e
      BY ONLY <3>1, Together
    <3>3. QED
      BY <3>2 DEF u
  <2>3. ((l \o Crlf) \o f) \o (Crlf \o (b \o e)) = (((l \o Crlf) \o f) \o Crlf) \o (b \o e)
    <3> DEFINE u == (l \o Crlf) \o f
               w == b \o e
    <3>1. u \in Seq(Item) /\ w \in Seq(Item) /\ Crlf \in Seq(Item)
      BY <1>2, <1>10, <2>1
    <3> HIDE DEF u, w
    <3>2. u \o (Crlf \o w) = (u \o Crlf) \o w
      BY ONLY <3>1, Together
    <3>3. QED
      BY <3>2 DEF u, w
  <2>4. t \in Seq(Item) /\ f \o t \in Seq(Item)
    BY <1>9, <1>11, Joined
  <2>5. ((l \o Crlf) \o f) \o t = (l \o Crlf) \o (f \o t)
    <3> DEFINE u == l \o Crlf
    <3>1. u \in Seq(Item) /\ f \in Seq(Item) /\ t \in Seq(Item)
      BY <1>9, <2>1, <2>4
    <3> HIDE DEF u, t
    <3>2. u \o (f \o t) = (u \o f) \o t
      BY ONLY <3>1, Together
    <3>3. QED
      BY <3>2 DEF u
  <2>6. (l \o Crlf) \o (f \o t) = l \o (Crlf \o (f \o t))
    BY <1>2, <1>6, <2>4, Together
  <2>7. QED
    BY <1>7, <1>8, <2>2, <2>3, <2>5, <2>6
<1>14. Wire(r) \in Seq(Item)
  BY <1>6, <1>12, <1>13, Joined
<1>15. QED
  BY <1>1, <1>12, <1>13, <1>14 DEF l

-----------------------------------------------------------------------------
(* The handler's parts. *)

Late == {"BODY", "COMPLETE", "ERROR"}
SpoolFile ==
  [opened : BOOLEAN, fd : {"none", "write", "read"}, path : BOOLEAN, content : Seq(Item), written : Nat]
Response == [code : Nat, body : Seq(Item), after : Nat]

LEMMA NoFileIs ==
  /\ NoFile \in SpoolFile /\ ~NoFile.path /\ NoFile.content = <<>> /\ NoFile.written = 0
  /\ \A n \in Nat : [NoFile EXCEPT !.written = n] \in SpoolFile /\ ~[NoFile EXCEPT !.written = n].path
<1>1. <<>> \in Seq(Item)
  BY EmptySeq
<1>2. NoFile \in SpoolFile /\ ~NoFile.path /\ NoFile.content = <<>> /\ NoFile.written = 0
  BY <1>1 DEF NoFile, SpoolFile
<1>3. QED
  BY <1>2 DEF SpoolFile

LEMMA FlushIs ==
  ASSUME NEW c, Sane(c), NEW f \in SpoolFile, NEW fault
  PROVE  LET x == Flush(c, f, fault)
         IN  /\ Sane(x.c) /\ x.f \in SpoolFile
             /\ x.f.path => f.path \/ c.state \in Late
             /\ (f.path => f.fd # "none") => (x.f.path => x.f.fd # "none")
             /\ \/ c.body = <<>> /\ x.c = c /\ x.f = f
                \/ /\ c.body # <<>> /\ c.state \in Late /\ x.c = Fails(c, 503)
                   /\ x.f.content = f.content /\ x.f.written = f.written
                \/ /\ c.body # <<>> /\ c.state \in Late /\ x.c = [c EXCEPT !.body = <<>>]
                   /\ x.f.content = f.content \o c.body /\ x.f.written = f.written + Len(c.body)
<1> DEFINE x == Flush(c, f, fault)
           o == IF f.opened THEN f
                ELSE IF fault = "open" THEN [f EXCEPT !.opened = TRUE]
                ELSE [f EXCEPT !.opened = TRUE, !.fd = "write", !.path = TRUE]
           content == f.content \o c.body
           written == f.written + Len(c.body)
           g == [o EXCEPT !.content = content, !.written = written]
<1>1. c \in Connection /\ Limited(c)
  BY DEF Sane
<1>2. /\ c.body \in Seq(Item) /\ f.content \in Seq(Item) /\ f.written \in Nat
  BY <1>1 DEF Connection, SpoolFile
<1>3. content \in Seq(Item) /\ written \in Nat
  BY <1>2, ConcatProperties, LenProperties
<1>4. /\ o \in SpoolFile /\ o.content = f.content /\ o.written = f.written
      /\ (f.path => f.fd # "none") => (o.path => o.fd # "none")
  BY DEF SpoolFile
<1>5. x = IF c.body = <<>> THEN [c |-> c, f |-> f]
          ELSE IF o.fd = "none" \/ fault = "write" THEN [c |-> Fails(c, 503), f |-> o]
          ELSE [c |-> [c EXCEPT !.body = <<>>], f |-> [o EXCEPT !.content = o.content \o c.body,
                                                                !.written = o.written + Len(c.body)]]
  BY DEF Flush
<1>6. [o EXCEPT !.content = o.content \o c.body, !.written = o.written + Len(c.body)] = g
  BY <1>4
<1> HIDE DEF o, content, written, x
<1>7. CASE c.body = <<>>
  <2>1. x.c = c /\ x.f = f
    BY <1>5, <1>7
  <2>2. QED
    BY <1>7, <2>1 DEF x
<1>8. CASE c.body # <<>>
  <2>1. c.state \in Late
    BY <1>1, <1>8 DEF Sane, NoBody, Connection, States, Late
  <2>2. CASE o.fd = "none" \/ fault = "write"
    <3>1. x.c = Fails(c, 503) /\ x.f = o
      BY <1>5, <1>8, <2>2
    <3>2. /\ x.c \in Connection /\ x.c.state = "ERROR" /\ SameRequest(c, x.c)
      BY <1>1, <3>1, FailsIs
    <3>3. Limited(x.c)
      BY <1>1, <3>2 DEF SameRequest, SameLine, SameLimit, Limited
    <3>4. Sane(x.c)
      BY <3>2, <3>3 DEF Sane
    <3>5. QED
      BY <1>4, <1>8, <2>1, <3>1, <3>4 DEF x
  <2>3. CASE ~(o.fd = "none" \/ fault = "write")
    <3> DEFINE e == [c EXCEPT !.body = <<>>]
    <3>1. x.c = e /\ x.f = g
      BY <1>5, <1>6, <1>8, <2>3
    <3>2. /\ e \in Connection /\ e.state = c.state /\ e.target = c.target /\ e.max = c.max /\ e.limit = c.limit
          /\ e.written = c.written /\ e.length = c.length /\ e.chunked = c.chunked
      BY <1>1, EmptySeq DEF Connection
    <3>3. Sane(e)
      BY <1>1, <2>1, <3>2 DEF Sane, Limited, Late
    <3>4. g \in SpoolFile /\ g.content = content /\ g.written = written /\ g.fd # "none"
      BY <1>3, <1>4, <2>3 DEF SpoolFile
    <3> HIDE DEF e, g
    <3>5. QED
      BY <1>8, <2>1, <3>1, <3>3, <3>4 DEF x, e, content, written
  <2>4. QED
    BY <2>2, <2>3
<1>9. QED
  BY <1>7, <1>8

\* Flush keeps the parser where it is, or fails the request.
LEMMA FlushState ==
  ASSUME NEW c \in Connection, NEW f, NEW fault
  PROVE  Flush(c, f, fault).c.state \in {c.state, "ERROR"}
<1> DEFINE x == Flush(c, f, fault)
<1>1. x.c = c \/ x.c = Fails(c, 503) \/ x.c = [c EXCEPT !.body = <<>>]
  BY DEF Flush
<1> HIDE DEF x
<1>2. Fails(c, 503).state = "ERROR"
  BY DEF Fails, Connection
<1>3. [c EXCEPT !.body = <<>>].state = c.state
  BY DEF Connection
<1>4. QED
  BY <1>1, <1>2, <1>3 DEF x

LEMMA FinalizeIs ==
  ASSUME NEW f \in SpoolFile, NEW fault
  PROVE  LET x == Finalize(f, fault)
         IN  /\ x \in SpoolFile /\ x.content = f.content /\ x.written = f.written /\ x.path = f.path
             /\ x = f \/ (f.written > 0 /\ x.fd \in {"none", "read"})
             /\ f.fd = "none" => x = f
BY DEF Finalize, SpoolFile

\* What CloseHeader leaves alone.
LEMMA CloseHeaderIs ==
  ASSUME NEW c \in Connection
  PROVE  CloseHeader(c).state = c.state /\ CloseHeader(c).target = c.target
BY DEF CloseHeader, Connection

\* The last answer says that the file could not be handed on.
Handed500 == responses # <<>> /\ Last(responses).code = 500

LEMMA AnswerIs ==
  ASSUME responses \in Seq(Response), NEW code \in Nat, NEW body \in Seq(Item), NEW after \in Nat,
         responses' = Append(responses, [code |-> code, body |-> body, after |-> after])
  PROVE  /\ responses' \in Seq(Response) /\ responses' # <<>> /\ Last(responses').code = code
         /\ Len(responses') = Len(responses) + 1
         /\ responses'[Len(responses) + 1] = [code |-> code, body |-> body, after |-> after]
         /\ \A i \in 1 .. Len(responses) : responses'[i] = responses[i]
<1> DEFINE x == [code |-> code, body |-> body, after |-> after]
<1>1. x \in Response /\ x.code = code
  BY DEF Response
<1> HIDE DEF x
<1>2. responses' = Append(responses, x)
  BY DEF x
<1>3. /\ responses' \in Seq(Response) /\ Len(responses') = Len(responses) + 1
      /\ responses'[Len(responses) + 1] = x /\ \A i \in 1 .. Len(responses) : responses'[i] = responses[i]
  BY <1>1, <1>2, AppendProperties
<1>4. responses' # <<>>
  BY <1>3, LenProperties, EmptySeq
<1>5. Last(responses') = x
  BY <1>3 DEF Last
<1>6. QED
  BY <1>1, <1>3, <1>4, <1>5 DEF x

\* A page, whole or not.
LEMMA PageIs ==
  ASSUME responses \in Seq(Response), NEW c \in Connection, Page(c)
  PROVE  /\ phase' \in {"WRITING", "DIED"} /\ responses' \in Seq(Response)
         /\ \/ Answer(200, c.body) /\ conn' = c
            \/ /\ c.method = "GET" /\ ServerLimit < 1 + PageSize /\ conn' = CloseHeader(c)
               /\ \/ phase' = "DIED" /\ responses' = responses
                  \/ \E n \in Nat : phase' = "WRITING" /\
                       responses' = Append(responses, [code |-> 413, body |-> <<>>, after |-> n])
<1> DEFINE fits == 1 + ((ServerLimit - 1) \div PieceSize) * PieceSize
<1>1. c.body \in Seq(Item) /\ <<>> \in Seq(Item)
  BY EmptySeq DEF Connection
<1>2. fits \in Nat
  <2>1. ServerLimit - 1 \in Nat /\ PieceSize \in Nat /\ PieceSize > 0
    BY Sizes
  <2>2. (ServerLimit - 1) \div PieceSize \in Nat
    BY <2>1
  <2> DEFINE q == (ServerLimit - 1) \div PieceSize
  <2> HIDE DEF q
  <2>3. q * PieceSize \in Nat
    BY <2>1, <2>2 DEF q
  <2>4. QED
    BY <2>3 DEF q
<1>3. CASE c.method # "GET" \/ 1 + PageSize <= ServerLimit
  <2>1. Answer(200, c.body) /\ conn' = c
    BY <1>3 DEF Page
  <2>2. phase' = "WRITING" /\ responses' = Append(responses, [code |-> 200, body |-> c.body, after |-> 0])
    BY <2>1 DEF Answer
  <2>3. responses' \in Seq(Response)
    BY <1>1, <2>2, AnswerIs
  <2>4. QED
    BY <2>1, <2>2, <2>3
<1>4. CASE ~(c.method # "GET" \/ 1 + PageSize <= ServerLimit)
  <2>1. c.method = "GET" /\ ServerLimit < 1 + PageSize
    BY <1>4, Sizes
  <2>2. /\ conn' = CloseHeader(c)
        /\ \/ /\ responses' = Append(responses, [code |-> 413, body |-> <<>>, after |-> fits])
              /\ phase' = "WRITING"
           \/ phase' = "DIED" /\ responses' = responses
    BY <1>4 DEF Page
  <2> HIDE DEF fits
  <2>3. responses' \in Seq(Response)
    <3>1. ASSUME responses' = Append(responses, [code |-> 413, body |-> <<>>, after |-> fits])
          PROVE  responses' \in Seq(Response)
      <4>1. 413 \in Nat
        OBVIOUS
      <4>2. QED
        BY ONLY <1>1, <1>2, <3>1, <4>1, responses \in Seq(Response), AnswerIs
    <3>2. QED
      BY <2>2, <3>1
  <2>4. QED
    BY <1>2, <2>1, <2>2, <2>3
<1>5. QED
  BY <1>3, <1>4

-----------------------------------------------------------------------------
(* The types, and the spool file. *)

Reading == phase \in {"WAITING", "HANDLING"}
TypeOK ==
  /\ sent \in Seq(Requests) /\ early \subseteq Nat /\ toSend \in Seq(Item) /\ socket \in Seq(Item)
  /\ event \in BOOLEAN /\ file \in SpoolFile /\ phase \in Phases /\ responses \in Seq(Response)
  /\ Reading => Sane(conn)

\* Whose the spool file is, in each phase.
SpoolOwned ==
  /\ Reading /\ file.path => file.fd # "none" /\ conn.state \in Late
  /\ phase = "WRITING" /\ file.path => conn.state \in Late /\ (file.fd # "none" \/ Handed500)
  /\ phase = "CLOSED" /\ file.path => Handed500
  /\ phase = "DIED" => ~file.path

\* What a handler leaves when it ends a round or answers.
Leaves ==
  /\ file' \in SpoolFile /\ phase' \in Phases /\ responses' \in Seq(Response)
  /\ Reading' => Sane(conn')
  /\ SpoolOwned'

LEMMA DispatchIs ==
  ASSUME NEW c, Sane(c), NEW f \in SpoolFile, NEW fault, responses \in Seq(Response), Dispatch(c, f, fault),
         c.state \in Late, f.path => f.fd # "none"
  PROVE  Leaves /\ phase' \in {"WRITING", "DIED"}
<1> DEFINE final == IF Spools(c) THEN Finalize(f, fault) ELSE f
<1>1. c \in Connection
  BY DEF Sane
<1>2. CASE ~Spools(c)
  <2>1. Page(c) /\ file' = NoFile
    BY <1>2 DEF Dispatch
  <2>2. phase' \in {"WRITING", "DIED"} /\ responses' \in Seq(Response)
    BY <1>1, <2>1, PageIs
  <2>3. file' \in SpoolFile /\ ~file'.path
    BY <2>1, NoFileIs
  <2>4. QED
    BY <2>2, <2>3 DEF Leaves, SpoolOwned, Reading, Phases
<1>3. CASE Spools(c)
  <2>1. /\ final \in SpoolFile /\ final.content = f.content /\ final.written = f.written
        /\ final.path = f.path /\ (f.fd = "none" => final = f)
        /\ final = f \/ f.written > 0
    BY <1>3, FinalizeIs
  <2>2. \/ /\ Answer(500, <<>>) /\ file' = final /\ conn' = Fails(c, 500)
        \/ /\ Answer(500, <<>>) /\ file' = [final EXCEPT !.opened = FALSE, !.fd = "none"] /\ conn' = c
        \/ /\ Answer(200, final.content) /\ file' = [NoFile EXCEPT !.written = f.written] /\ conn' = c
    BY <1>3 DEF Dispatch
  <2> HIDE DEF final
  <2>3. <<>> \in Seq(Item) /\ final.content \in Seq(Item) /\ f.written \in Nat /\ 500 \in Nat /\ 200 \in Nat
        /\ 0 \in Nat
    BY <2>1, EmptySeq DEF SpoolFile
  <2>4. ASSUME NEW code \in Nat, NEW body \in Seq(Item), Answer(code, body)
        PROVE  /\ phase' = "WRITING" /\ responses' \in Seq(Response)
               /\ code = 500 => Handed500'
    <3>1. phase' = "WRITING" /\ responses' = Append(responses, [code |-> code, body |-> body, after |-> 0])
      BY <2>4 DEF Answer
    <3>2. responses' \in Seq(Response) /\ responses' # <<>> /\ Last(responses').code = code
      BY <2>3, <3>1, AnswerIs
    <3>3. QED
      BY <3>1, <3>2 DEF Handed500
  <2>5. CASE Answer(500, <<>>) /\ file' = final /\ conn' = Fails(c, 500)
    <3>1. phase' = "WRITING" /\ responses' \in Seq(Response) /\ Handed500'
      BY <2>3, <2>4, <2>5
    <3>2. conn'.state \in Late
      <4>1. conn' = Fails(c, 500) /\ 500 \in Nat
        BY <2>5
      <4>2. Fails(c, 500).state = "ERROR"
        BY ONLY <1>1, <4>1, FailsIs
      <4>3. QED
        BY <4>1, <4>2 DEF Late
    <3>3. QED
      BY <2>1, <2>5, <3>1, <3>2 DEF Leaves, SpoolOwned, Reading, Phases
  <2>6. CASE /\ Answer(500, <<>>) /\ file' = [final EXCEPT !.opened = FALSE, !.fd = "none"] /\ conn' = c
    <3>1. phase' = "WRITING" /\ responses' \in Seq(Response) /\ Handed500'
      BY <2>3, <2>4, <2>6
    <3>2. file' \in SpoolFile
      BY <2>1, <2>6 DEF SpoolFile
    <3>3. conn'.state \in Late
      BY <2>6
    <3>4. QED
      BY <3>1, <3>2, <3>3 DEF Leaves, SpoolOwned, Reading, Phases
  <2>7. CASE /\ Answer(200, final.content) /\ file' = [NoFile EXCEPT !.written = f.written] /\ conn' = c
    <3>1. phase' = "WRITING" /\ responses' \in Seq(Response)
      BY <2>3, <2>4, <2>7
    <3>2. file' \in SpoolFile /\ ~file'.path
      BY <2>3, <2>7, NoFileIs
    <3>3. QED
      BY <3>1, <3>2 DEF Leaves, SpoolOwned, Reading, Phases
  <2>8. QED
    BY <2>2, <2>5, <2>6, <2>7
<1>4. QED
  BY <1>2, <1>3

LEMMA DispatchOrIs ==
  ASSUME NEW c, Sane(c), NEW f \in SpoolFile, NEW fault, NEW next \in {"WAITING", "HANDLING"},
         responses \in Seq(Response), DispatchOr(c, f, fault, next),
         f.path => f.fd # "none" /\ c.state \in Late
  PROVE  Leaves
<1>1. CASE c.state = "COMPLETE" /\ FullySpooled(c, f)
  <2>1. Dispatch(c, f, fault) /\ c.state \in Late
    BY <1>1 DEF DispatchOr, Late
  <2>2. QED
    BY <2>1, DispatchIs
<1>2. CASE ~(c.state = "COMPLETE" /\ FullySpooled(c, f))
  <2>1. conn' = c /\ file' = f /\ phase' = next /\ responses' = responses
    BY <1>2 DEF DispatchOr
  <2>2. QED
    BY <2>1 DEF Leaves, SpoolOwned, Reading, Phases
<1>3. QED
  BY <1>1, <1>2

\* The read buffer with some more of the socket in it.
Filled(c, s) == [c EXCEPT !.buffer = c.buffer \o s]

LEMMA FilledSane ==
  ASSUME NEW c, Sane(c), NEW s \in Seq(Item)
  PROVE  /\ Sane(Filled(c, s)) /\ Filled(c, s).buffer = c.buffer \o s /\ Filled(c, s).state = c.state
         /\ Filled(c, s) \in Connection
<1> DEFINE d == Filled(c, s)
           b == c.buffer \o s
<1>1. c \in Connection
  BY DEF Sane
<1>2. c.buffer \in Seq(Item) /\ c.state \in States
  BY <1>1 DEF Connection
<1>3. b \in Seq(Item)
  BY <1>2, ConcatProperties
<1>4. d = [c EXCEPT !.buffer = b]
  BY DEF Filled
<1> HIDE DEF b, d
<1>5. /\ d \in Connection /\ d.buffer = b /\ SameState(c, d) /\ SameRequest(c, d) /\ SameChunk(c, d) /\ SameBody(c, d)
      /\ d = [c EXCEPT !.buffer = b, !.state = c.state]
  BY <1>1, <1>3, <1>4 DEF Connection, SameState, SameRequest, SameLine, SameLimit, SameFraming, SameChunk, SameBody
<1>6. ASSUME Fresh(c) PROVE Fresh(d)
  <2>1. d = [Blank EXCEPT !.buffer = b, !.state = c.state]
    <3>1. d = [c EXCEPT !.buffer = b, !.state = c.state] /\ c.state \in States
      BY <1>2, <1>5
    <3>2. [c EXCEPT !.buffer = b, !.state = c.state] = [Blank EXCEPT !.buffer = b, !.state = c.state]
      BY ONLY <1>1, <1>3, <1>6, <3>1, FreshSet, Zenon
    <3>3. QED
      BY <3>1, <3>2
  <2>2. d.buffer = b /\ d.state = c.state
    BY <1>5 DEF SameState
  <2>3. QED
    BY ONLY <2>1, <2>2 DEF Fresh
<1>7. /\ d.state = c.state /\ (NoBody(c) => NoBody(d)) /\ (Limited(c) => Limited(d))
      /\ d.written = c.written /\ d.max = c.max /\ d.chunked = c.chunked /\ d.length = c.length
  BY <1>5 DEF SameState, SameRequest, SameLine, SameLimit, SameFraming, SameChunk, SameBody, NoBody, Limited
<1>8. Sane(d)
  BY <1>5, <1>6, <1>7 DEF Sane
<1>9. QED
  BY <1>5, <1>7, <1>8 DEF b, d

\* How recv() takes a piece from the socket.
LEMMA PieceIs ==
  ASSUME NEW s \in Seq(Item), s # <<>>
  PROVE  LET n == Least(RecvSize, Len(s))
         IN  /\ n \in 1 .. Len(s) /\ n <= RecvSize
             /\ SubSeq(s, 1, n) \in Seq(Item) /\ From(s, n + 1) \in Seq(Item) /\ SubSeq(s, n + 1, Len(s)) = From(s, n + 1)
             /\ Len(SubSeq(s, 1, n)) = n
             /\ s = SubSeq(s, 1, n) \o From(s, n + 1)
<1> DEFINE n == Least(RecvSize, Len(s))
<1>1. Len(s) \in Nat /\ Len(s) # 0 /\ RecvSize \in Nat /\ RecvSize > 0
  BY LenProperties, EmptySeq, Sizes
<1>2. n \in 1 .. Len(s) /\ n <= RecvSize
  BY <1>1 DEF Least
<1> HIDE DEF n
<1>3. n \in 0 .. Len(s)
  BY <1>1, <1>2
<1>4. SubSeq(s, 1, n) \in Seq(Item) /\ Len(SubSeq(s, 1, n)) = n
  BY <1>3, FirstIs
<1>5. From(s, n + 1) \in Seq(Item)
  BY <1>3, FromIs
<1>6. s = SubSeq(s, 1, n) \o From(s, n + 1)
  BY <1>3, CutAt
<1>7. QED
  BY <1>2, <1>4, <1>5, <1>6 DEF n, From

\* Reading, in the order of the code.
FullOf(c, s) == Filled(c, SubSeq(s, 1, Least(RecvSize, Len(s))))

LEMMA ReadIs ==
  ASSUME NEW fault, Read(fault), TypeOK
  PROVE  LET n == Least(RecvSize, Len(socket))
             full == FullOf(conn, socket)
             fed == Feed(full)
             flush == Flush(fed, file, fault)
             spools == Spools(fed) /\ fed.state \in {"BODY", "COMPLETE"}
         IN  /\ phase = "HANDLING" /\ socket # <<>> /\ Sane(conn)
             /\ socket' = From(socket, n + 1) /\ socket' \in Seq(Item)
             /\ UNCHANGED <<sent, early, toSend, event>>
             /\ Sane(full) /\ Sane(fed) /\ Settled(fed)
             /\ \/ /\ Len(full.buffer) > conn.limit /\ conn' = CloseHeader(conn)
                   /\ Answer(413, <<>>) /\ file' = file
                \/ /\ conn.erased /\ phase' = "HUNG" /\ UNCHANGED <<conn, file, responses>>
                \/ /\ Len(full.buffer) <= conn.limit /\ ~conn.erased
                   /\ fed.state = "ERROR" /\ conn' = fed /\ Answer(fed.code, <<>>) /\ file' = file
                \/ /\ Len(full.buffer) <= conn.limit /\ ~conn.erased
                   /\ fed.state # "ERROR" /\ spools
                   /\ DispatchOr(flush.c, flush.f, fault, "HANDLING")
                \/ /\ Len(full.buffer) <= conn.limit /\ ~conn.erased
                   /\ fed.state # "ERROR" /\ ~spools /\ DispatchOr(fed, file, fault, "HANDLING")
<1> DEFINE n == Least(RecvSize, Len(socket))
           full == FullOf(conn, socket)
           fed == Feed(full)
           flush == Flush(fed, file, fault)
           spools == Spools(fed) /\ fed.state \in {"BODY", "COMPLETE"}
           taken == IF spools THEN flush ELSE [c |-> fed, f |-> file]
<1>1. phase = "HANDLING" /\ socket # <<>> /\ socket \in Seq(Item) /\ Sane(conn)
  BY DEF Read, TypeOK, Reading
<1>2. SubSeq(socket, 1, n) \in Seq(Item) /\ SubSeq(socket, n + 1, Len(socket)) = From(socket, n + 1)
      /\ From(socket, n + 1) \in Seq(Item)
  BY <1>1, PieceIs
<1>3. Sane(full)
  BY <1>1, <1>2, FilledSane DEF FullOf
<1>4. Sane(fed) /\ Settled(fed)
  BY <1>3, FeedSane
<1>5. full = [conn EXCEPT !.buffer = conn.buffer \o SubSeq(socket, 1, n)]
  BY DEF FullOf, Filled
<1>6. /\ socket' = SubSeq(socket, n + 1, Len(socket))
      /\ IF Len(full.buffer) > conn.limit
           THEN conn' = CloseHeader(conn) /\ Answer(413, <<>>) /\ file' = file
         ELSE IF conn.erased
           THEN phase' = "HUNG" /\ UNCHANGED <<conn, file, responses>>
         ELSE IF fed.state = "ERROR"
           THEN conn' = fed /\ Answer(fed.code, <<>>) /\ file' = file
         ELSE DispatchOr(taken.c, taken.f, fault, "HANDLING")
  BY <1>5 DEF Read
<1>7. UNCHANGED <<sent, early, toSend, event>>
  BY DEF Read
<1> HIDE DEF full, fed, flush
<1>8. Len(full.buffer) \in Nat /\ conn.limit \in Nat
  <2>1. full.buffer \in Seq(Item) /\ conn.limit \in Nat
    BY <1>1, <1>3 DEF Sane, Connection
  <2>2. QED
    BY <2>1, LenProperties
<1>9. CASE Len(full.buffer) > conn.limit
  BY <1>1, <1>2, <1>3, <1>4, <1>6, <1>7, <1>9 DEF full, fed, flush
<1>10. CASE Len(full.buffer) <= conn.limit
  <2>1. ~(Len(full.buffer) > conn.limit)
    BY <1>8, <1>10
  <2>2. CASE conn.erased
    BY <1>1, <1>2, <1>3, <1>4, <1>6, <1>7, <2>1, <2>2 DEF full, fed, flush
  <2>3. CASE ~conn.erased /\ fed.state = "ERROR"
    BY <1>1, <1>2, <1>3, <1>4, <1>6, <1>7, <1>10, <2>1, <2>3 DEF full, fed, flush
  <2>4. CASE ~conn.erased /\ fed.state # "ERROR" /\ spools
    <3>1. DispatchOr(flush.c, flush.f, fault, "HANDLING")
      BY <1>6, <2>1, <2>4
    <3>2. QED
      BY <1>1, <1>2, <1>3, <1>4, <1>6, <1>7, <1>10, <2>4, <3>1 DEF full, fed, flush
  <2>5. CASE ~conn.erased /\ fed.state # "ERROR" /\ ~spools
    <3>1. DispatchOr(fed, file, fault, "HANDLING")
      BY <1>6, <2>1, <2>5
    <3>2. QED
      BY <1>1, <1>2, <1>3, <1>4, <1>6, <1>7, <1>10, <2>5, <3>1 DEF full, fed, flush
  <2>6. QED
    BY <2>2, <2>3, <2>4, <2>5
<1>11. QED
  BY <1>8, <1>9, <1>10

ControlInv == TypeOK /\ SpoolOwned

LEMMA ControlInit ==
  ASSUME Init
  PROVE  ControlInv
<1>1. Sane(Blank)
  <2>1. Fresh(Blank)
    BY BlankTyped DEF Fresh, Connection
  <2>2. Limited(Blank) /\ NoBody(Blank) /\ Blank.state = "IDLE"
    BY BlankIs DEF Limited
  <2>3. QED
    BY <2>1, <2>2, BlankTyped DEF Sane
<1>2. <<>> \in Seq(Requests) /\ <<>> \in Seq(Item) /\ <<>> \in Seq(Response)
  BY EmptySeq
<1>3. file \in SpoolFile /\ ~file.path
  BY NoFileIs DEF Init
<1>4. TypeOK
  BY <1>1, <1>2, <1>3 DEF Init, TypeOK, Phases
<1>5. QED
  BY <1>3, <1>4 DEF ControlInv, SpoolOwned, Init, Reading

LEMMA ControlRead ==
  ASSUME ControlInv, NEW fault, Read(fault)
  PROVE  ControlInv'
<1> DEFINE full == FullOf(conn, socket)
           fed == Feed(full)
           flush == Flush(fed, file, fault)
           spools == Spools(fed) /\ fed.state \in {"BODY", "COMPLETE"}
<1>1. /\ phase = "HANDLING" /\ Sane(conn)
      /\ socket' \in Seq(Item) /\ UNCHANGED <<sent, early, toSend, event>>
      /\ Sane(full) /\ Sane(fed)
      /\ \/ conn' = CloseHeader(conn) /\ Answer(413, <<>>) /\ file' = file
         \/ phase' = "HUNG" /\ UNCHANGED <<conn, file, responses>>
         \/ fed.state = "ERROR" /\ conn' = fed /\ Answer(fed.code, <<>>) /\ file' = file
         \/ spools /\ DispatchOr(flush.c, flush.f, fault, "HANDLING")
         \/ fed.state # "ERROR" /\ ~spools /\ DispatchOr(fed, file, fault, "HANDLING")
  BY ReadIs DEF ControlInv
<1>2. conn.state \in Late => fed.state \in Late
  <2>1. conn.state = full.state
    <3>1. socket \in Seq(Item) /\ socket # <<>>
      BY DEF ControlInv, TypeOK, Read
    <3>2. SubSeq(socket, 1, Least(RecvSize, Len(socket))) \in Seq(Item)
      BY <3>1, PieceIs
    <3>3. QED
      BY <1>1, <3>2, FilledSane DEF FullOf
  <2>2. full.state \in Late => fed.state \in Late
    BY <1>1, FeedSane DEF Late
  <2>3. QED
    BY <2>1, <2>2
<1> HIDE DEF full, fed, flush
<1>3. file \in SpoolFile /\ responses \in Seq(Response) /\ (file.path => file.fd # "none" /\ conn.state \in Late)
  BY <1>1 DEF ControlInv, TypeOK, SpoolOwned, Reading
<1>4. ASSUME NEW code \in Nat, Answer(code, <<>>)
      PROVE  phase' = "WRITING" /\ responses' \in Seq(Response)
  <2>1. phase' = "WRITING" /\ responses' = Append(responses, [code |-> code, body |-> <<>>, after |-> 0])
    BY <1>4 DEF Answer
  <2>2. <<>> \in Seq(Item) /\ 0 \in Nat
    BY EmptySeq
  <2>3. responses' \in Seq(Response)
    BY ONLY <1>3, <2>1, <2>2, code \in Nat, AnswerIs
  <2>4. QED
    BY <2>1, <2>3
<1>5. CASE conn' = CloseHeader(conn) /\ Answer(413, <<>>) /\ file' = file
  <2>1. phase' = "WRITING" /\ responses' \in Seq(Response)
    BY <1>4, <1>5
  <2>2. conn \in Connection
    BY <1>1 DEF Sane
  <2>3. conn'.state = conn.state
    BY <1>5, <2>2, CloseHeaderIs
  <2>4. Leaves
    BY <1>3, <1>5, <2>1, <2>3 DEF Leaves, SpoolOwned, Reading, Phases
  <2>5. QED
    BY <1>1, <2>4 DEF ControlInv, TypeOK, Leaves
<1>6. CASE phase' = "HUNG" /\ UNCHANGED <<conn, file, responses>>
  <2>1. Leaves
    BY <1>3, <1>6 DEF Leaves, SpoolOwned, Reading, Phases
  <2>2. QED
    BY <1>1, <2>1 DEF ControlInv, TypeOK, Leaves
<1>7. CASE fed.state = "ERROR" /\ conn' = fed /\ Answer(fed.code, <<>>) /\ file' = file
  <2>1. fed.code \in Nat
    BY <1>1 DEF Sane, Connection
  <2>2. phase' = "WRITING" /\ responses' \in Seq(Response)
    BY <1>4, <1>7, <2>1
  <2>3. Leaves
    BY <1>3, <1>7, <2>2 DEF Leaves, SpoolOwned, Reading, Phases, Late
  <2>4. QED
    BY <1>1, <2>3 DEF ControlInv, TypeOK, Leaves
<1>8. CASE spools /\ DispatchOr(flush.c, flush.f, fault, "HANDLING")
  <2>1. /\ Sane(flush.c) /\ flush.f \in SpoolFile
        /\ (file.path => file.fd # "none") => (flush.f.path => flush.f.fd # "none")
        /\ flush.c.state \in Late
    <3>1. /\ Sane(flush.c) /\ flush.f \in SpoolFile
          /\ (file.path => file.fd # "none") => (flush.f.path => flush.f.fd # "none")
          /\ flush.c.state \in {fed.state, "ERROR"}
      <4>1. Sane(fed) /\ file \in SpoolFile /\ flush = Flush(fed, file, fault)
        BY <1>1, <1>3 DEF flush
      <4>2. /\ Sane(flush.c) /\ flush.f \in SpoolFile
            /\ (file.path => file.fd # "none") => (flush.f.path => flush.f.fd # "none")
        BY ONLY <4>1, FlushIs
      <4>3. flush.c.state \in {fed.state, "ERROR"}
        BY <4>1, FlushState DEF Sane
      <4>4. QED
        BY <4>2, <4>3
    <3>2. fed \in Connection /\ fed.state \in Late
      BY <1>1, <1>8 DEF Sane, Late
    <3>3. QED
      BY <3>1, <3>2 DEF Late
  <2>2. Leaves
    BY <1>3, <1>8, <2>1, DispatchOrIs
  <2>3. QED
    BY <1>1, <2>2 DEF ControlInv, TypeOK, Leaves
<1>9. CASE fed.state # "ERROR" /\ ~spools /\ DispatchOr(fed, file, fault, "HANDLING")
  <2>1. Leaves
    BY <1>1, <1>2, <1>3, <1>9, DispatchOrIs
  <2>2. QED
    BY <1>1, <2>1 DEF ControlInv, TypeOK, Leaves
<1>10. QED
  BY <1>1, <1>5, <1>6, <1>7, <1>8, <1>9

LEMMA ControlReadNothing ==
  ASSUME ControlInv, NEW fault, ReadNothing(fault)
  PROVE  ControlInv'
<1> DEFINE flush == Flush(conn, file, fault)
<1>1. phase = "HANDLING" /\ Sane(conn) /\ UNCHANGED <<sent, early, toSend, socket, event>>
      /\ file \in SpoolFile /\ responses \in Seq(Response) /\ (file.path => file.fd # "none" /\ conn.state \in Late)
  BY DEF ReadNothing, ControlInv, TypeOK, SpoolOwned, Reading
<1>2. CASE Spools(conn)
  <2>1. DispatchOr(flush.c, flush.f, fault, "WAITING")
    BY <1>2 DEF ReadNothing
  <2>2. /\ Sane(flush.c) /\ flush.f \in SpoolFile
        /\ flush.f.path => file.path \/ conn.state \in Late
        /\ (file.path => file.fd # "none") => (flush.f.path => flush.f.fd # "none")
    BY ONLY <1>1, FlushIs
  <2>3. flush.c.state \in {conn.state, "ERROR"}
    BY <1>1, FlushState DEF Sane
  <2> HIDE DEF flush
  <2>4. flush.f.path => flush.f.fd # "none" /\ flush.c.state \in Late
    BY <1>1, <2>2, <2>3 DEF Late
  <2>5. Leaves
    BY <1>1, <2>1, <2>2, <2>4, DispatchOrIs
  <2>6. QED
    BY <1>1, <2>5 DEF ControlInv, TypeOK, Leaves
<1>3. CASE ~Spools(conn)
  <2>1. DispatchOr(conn, file, fault, "WAITING")
    BY <1>3 DEF ReadNothing
  <2>2. Leaves
    BY <1>1, <2>1, DispatchOrIs
  <2>3. QED
    BY <1>1, <2>2 DEF ControlInv, TypeOK, Leaves
<1>4. QED
  BY <1>2, <1>3

LEMMA ControlAsk ==
  ASSUME ControlInv, NEW r \in Requests, Ask(r)
  PROVE  ControlInv'
<1>1. Wire(r) \in Seq(Item)
  BY WireIs
<1>2. sent' \in Seq(Requests) /\ early' \subseteq Nat /\ toSend' \in Seq(Item)
  <2>1. sent \in Seq(Requests) /\ early \subseteq Nat
    BY DEF ControlInv, TypeOK
  <2>2. sent' = Append(sent, r) /\ toSend' = Wire(r) /\ early' \subseteq early \cup {Len(sent) + 1}
    BY DEF Ask
  <2>3. sent' \in Seq(Requests) /\ Len(sent) \in Nat
    BY <2>1, <2>2, AppendProperties, LenProperties
  <2>4. QED
    BY <1>1, <2>1, <2>2, <2>3
<1>3. UNCHANGED <<socket, event, conn, file, phase, responses>>
  BY DEF Ask
<1>4. QED
  BY <1>2, <1>3 DEF ControlInv, TypeOK, SpoolOwned, Reading, Handed500

LEMMA ControlSend ==
  ASSUME ControlInv, NEW n \in 1 .. Len(toSend), Send(n)
  PROVE  ControlInv'
<1>1. toSend \in Seq(Item) /\ socket \in Seq(Item) /\ Len(toSend) \in Nat
  BY LenProperties DEF ControlInv, TypeOK
<1>2. n \in 0 .. Len(toSend)
  BY <1>1
<1>3. SubSeq(toSend, 1, n) \in Seq(Item) /\ SubSeq(toSend, n + 1, Len(toSend)) \in Seq(Item)
  BY <1>1, <1>2, FirstIs, FromIs DEF From
<1>4. socket' \in Seq(Item) /\ toSend' \in Seq(Item)
  BY <1>1, <1>3, ConcatProperties DEF Send
<1>5. UNCHANGED <<sent, early, conn, file, phase, responses>> /\ event' = TRUE
  BY DEF Send
<1>6. QED
  BY <1>4, <1>5 DEF ControlInv, TypeOK, SpoolOwned, Reading, Handed500

LEMMA DroppedIs ==
  ASSUME NEW f \in SpoolFile
  PROVE  Dropped(f) \in SpoolFile /\ (Dropped(f).path => f.path /\ f.fd = "none")
BY NoFileIs DEF Dropped

LEMMA ControlAnswered ==
  ASSUME ControlInv, ResponseWritten
  PROVE  ControlInv'
<1>1. phase = "WRITING" /\ UNCHANGED <<sent, early, toSend, socket, responses>>
  BY DEF ResponseWritten
<1>2. CASE KeepAlive(conn)
  <2>1. phase' = "WAITING" /\ conn' = Blank /\ file' = NoFile /\ event' = (socket # <<>>)
    BY <1>2 DEF ResponseWritten
  <2>2. Sane(Blank)
    <3>1. Fresh(Blank)
      BY BlankTyped DEF Fresh, Connection
    <3>2. Limited(Blank) /\ NoBody(Blank) /\ Blank.state = "IDLE"
      BY BlankIs DEF Limited
    <3>3. QED
      BY <3>1, <3>2, BlankTyped DEF Sane
  <2>3. event' \in BOOLEAN
    BY <2>1
  <2>4. QED
    BY <1>1, <2>1, <2>2, <2>3, NoFileIs DEF ControlInv, TypeOK, SpoolOwned, Reading, Phases
<1>3. CASE ~KeepAlive(conn)
  <2>1. phase' = "CLOSED" /\ conn' = conn /\ file' = Dropped(file) /\ event' = FALSE
    BY <1>3 DEF ResponseWritten
  <2>2. file' \in SpoolFile /\ (file'.path => file.path /\ file.fd = "none")
    BY <2>1, DroppedIs DEF ControlInv, TypeOK
  <2>3. QED
    BY <1>1, <2>1, <2>2 DEF ControlInv, TypeOK, SpoolOwned, Reading, Phases, Handed500
<1>4. QED
  BY <1>2, <1>3

LEMMA ControlLeave ==
  ASSUME ControlInv, NEW code \in {0, 408}, Leave(code)
  PROVE  ControlInv'
<1>1. /\ phase = "WAITING" \/ (phase = "WRITING" /\ code = 0)
      /\ phase' = "CLOSED" /\ file' = Dropped(file) /\ event' = FALSE
      /\ UNCHANGED <<sent, early, toSend, socket, conn>>
      /\ responses' = IF code = 408 THEN Append(responses, [code |-> 408, body |-> <<>>, after |-> 0])
                                    ELSE responses
  BY DEF Leave
<1>2. file' \in SpoolFile /\ (file'.path => file.path /\ file.fd = "none")
  BY <1>1, DroppedIs DEF ControlInv, TypeOK
<1>3. responses' \in Seq(Response)
  <2>1. responses \in Seq(Response) /\ <<>> \in Seq(Item) /\ 408 \in Nat /\ 0 \in Nat
    BY EmptySeq DEF ControlInv, TypeOK
  <2>2. ASSUME responses' = Append(responses, [code |-> 408, body |-> <<>>, after |-> 0])
        PROVE  responses' \in Seq(Response)
    <3> DEFINE z == [code |-> 408, body |-> <<>>, after |-> 0]
    <3>1. z \in Response
      BY <2>1 DEF Response
    <3> HIDE DEF z
    <3>2. responses' = Append(responses, z)
      BY <2>2 DEF z
    <3>3. QED
      BY ONLY <2>1, <3>1, <3>2, AppendProperties
  <2>3. QED
    BY <1>1, <2>1, <2>2
<1>4. file'.path => Handed500'
  <2>1. ASSUME file'.path PROVE Handed500 /\ responses' = responses
    BY <1>1, <1>2, <2>1 DEF ControlInv, SpoolOwned, Reading
  <2>2. QED
    BY <2>1 DEF Handed500
<1>5. QED
  BY <1>1, <1>2, <1>3, <1>4 DEF ControlInv, TypeOK, SpoolOwned, Reading, Phases

LEMMA ControlStep ==
  ASSUME ControlInv, [Next]_vars
  PROVE  ControlInv'
<1>1. CASE UNCHANGED vars
  BY <1>1 DEF vars, ControlInv, TypeOK, SpoolOwned, Reading, Handed500
<1>2. ASSUME NEW r \in Requests, Ask(r) PROVE ControlInv'
  BY <1>2, ControlAsk
<1>3. ASSUME NEW n \in 1 .. Len(toSend), Send(n) PROVE ControlInv'
  BY <1>3, ControlSend
<1>4. CASE DispatchRead
  <2>1. /\ phase = "WAITING" /\ phase' = "HANDLING" /\ event' = FALSE
        /\ UNCHANGED <<sent, early, toSend, socket, conn, file, responses>>
    BY <1>4 DEF DispatchRead
  <2>2. QED
    BY <2>1 DEF ControlInv, TypeOK, SpoolOwned, Reading, Handed500, Phases
<1>5. ASSUME NEW fault, Read(fault) PROVE ControlInv'
  BY <1>5, ControlRead
<1>6. ASSUME NEW fault, ReadNothing(fault) PROVE ControlInv'
  BY <1>6, ControlReadNothing
<1>7. CASE ResponseWritten
  BY <1>7, ControlAnswered
<1>8. ASSUME NEW code \in {0, 408}, Leave(code) PROVE ControlInv'
  BY <1>8, ControlLeave
<1>9. CASE Rest
  BY <1>9, <1>1 DEF Rest
<1>10. QED
  BY <1>1, <1>2, <1>3, <1>4, <1>5, <1>6, <1>7, <1>8, <1>9 DEF Next

\* The parser's record, the socket, the file and the answers keep their types,
\* whatever was cut where: in READING a connection whose request line is not
\* there yet has used nothing but its buffer, one without a body has none,
\* and the body that is coming in stays below max_body_size and its length.
THEOREM IntakeTyped == Spec => []TypeOK
<1>1. Init => ControlInv
  BY ControlInit
<1>2. ControlInv /\ [Next]_vars => ControlInv'
  BY ControlStep
<1>3. ControlInv => TypeOK
  BY DEF ControlInv
<1>4. QED
  BY <1>1, <1>2, <1>3, PTL DEF Spec

\* A spool file on disk belongs to the request that is read or answered, or was
\* left behind by a failure to open it again or of a pipe: nothing that
\* _handleRead, flushRequestBodyToTmpFile or closeConnection do in any order
\* leaves another.
THEOREM SpoolFilesGo == Spec => []SpoolRemoved
<1>1. Init => ControlInv
  BY ControlInit
<1>2. ControlInv /\ [Next]_vars => ControlInv'
  BY ControlStep
<1>3. ControlInv => SpoolRemoved
  BY DEF ControlInv, TypeOK, SpoolOwned, SpoolRemoved, Reading, Late, Open, Phases, Handed500
<1>4. QED
  BY <1>1, <1>2, <1>3, PTL DEF Spec
=============================================================================
