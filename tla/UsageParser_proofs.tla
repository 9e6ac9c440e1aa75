------------------------- MODULE UsageParser_proofs -------------------------
(***************************************************************************)
(* Proofs about UsageParser, for descriptors of any length: the walk is    *)
(* right whenever the descriptor is regular.                               *)
(*                                                                         *)
(* What a host reads and the bytes of the items are recursive functions of *)
(* the descriptor.  That they satisfy their equations, and what holds for  *)
(* each prefix, is shown by induction over a set of numbers, which the     *)
(* well-foundedness of < gives without an operator as a parameter.         *)
(***************************************************************************)
EXTENDS UsageParser, WellFoundedInduction, TLAPS

(***************************************************************************)
(* Induction.                                                              *)
(***************************************************************************)
LEMMA SetInduction ==
    ASSUME NEW T, 0 \in T, \A n \in Nat : n \in T => n + 1 \in T
    PROVE  \A n \in Nat : n \in T
<1>. SUFFICES ASSUME NEW m \in Nat, m \notin T PROVE FALSE
  OBVIOUS
<1>. DEFINE U == {n \in Nat : n \notin T}
            R == {p \in Nat \X Nat : p[1] < p[2]}
<1>1. IsWellFoundedOn(R, Nat)
  BY NatLessThanWellFounded DEF OpToRel
<1>2. PICK x \in U : \A y \in U : <<y, x>> \notin R
  <2>. HIDE DEF R
  <2>1. U \subseteq Nat /\ U # {}
    OBVIOUS
  <2>. HIDE DEF U
  <2>. QED BY <1>1, <2>1, WFMin
<1>3. x # 0 /\ x - 1 \in Nat /\ x - 1 \in T
  <2>1. x # 0 /\ x - 1 \in Nat
    OBVIOUS
  <2>2. x - 1 \notin T => <<x - 1, x>> \in R /\ x - 1 \in U
    BY <2>1
  <2>. QED BY <2>1, <2>2, <1>2
<1>. QED BY <1>3

(* From k upwards, as far as n. *)
LEMMA SetInductionFrom ==
    ASSUME NEW k \in Nat, NEW n \in Nat, k <= n, NEW T, k \in T,
           \A m \in k..(n - 1) : m \in T => m + 1 \in T
    PROVE  n \in T
<1>. DEFINE U == {j \in Nat : k + j <= n => k + j \in T}
<1>1. 0 \in U
  OBVIOUS
<1>2. \A j \in Nat : j \in U => j + 1 \in U
  <2>. SUFFICES ASSUME NEW j \in Nat, j \in U, k + (j + 1) <= n PROVE k + (j + 1) \in T
    OBVIOUS
  <2>1. k + j \in k..(n - 1) /\ k + j \in T
    OBVIOUS
  <2>. QED BY <2>1
<1>3. n - k \in Nat
  OBVIOUS
<1>4. n - k \in U
  <2>. HIDE DEF U
  <2>. QED BY <1>1, <1>2, <1>3, SetInduction
<1>. QED BY <1>3, <1>4

(***************************************************************************)
(* The two recursive functions.                                            *)
(***************************************************************************)
LEMMA ReadingsDef ==
    ASSUME NEW s, Len(s) \in Nat
    PROVE  Readings(s) = [k \in 0..Len(s) |->
                              IF k = 0 THEN Start ELSE ReadItem(Readings(s)[k - 1], s[k])]
<1>. DEFINE Ok(n) == \E h : h = [k \in 0..n |-> IF k = 0 THEN Start ELSE ReadItem(h[k - 1], s[k])]
            T == {n \in Nat : Ok(n)}
<1>1. 0 \in T
  <2>1. [k \in 0..0 |-> Start]
            = [k \in 0..0 |-> IF k = 0 THEN Start ELSE ReadItem([j \in 0..0 |-> Start][k - 1], s[k])]
    OBVIOUS
  <2>. QED BY <2>1
<1>2. ASSUME NEW n \in Nat, n \in T PROVE n + 1 \in T
  <2>1. PICK h : h = [k \in 0..n |-> IF k = 0 THEN Start ELSE ReadItem(h[k - 1], s[k])]
    BY <1>2
  <2>. DEFINE g == [k \in 0..(n + 1) |-> IF k = n + 1 THEN ReadItem(h[n], s[k]) ELSE h[k]]
  <2>2. ASSUME NEW k \in 0..(n + 1) PROVE g[k] = IF k = 0 THEN Start ELSE ReadItem(g[k - 1], s[k])
    <3>1. CASE k = n + 1
      <4>1. g[n] = h[n]
        OBVIOUS
      <4>. QED BY <3>1, <4>1
    <3>2. CASE k # n + 1
      <4>1. k \in 0..n /\ g[k] = h[k] /\ (k # 0 => g[k - 1] = h[k - 1])
        BY <3>2
      <4>. QED BY <4>1, <2>1
    <3>. QED BY <3>1, <3>2
  <2>3. g = [k \in 0..(n + 1) |-> IF k = 0 THEN Start ELSE ReadItem(g[k - 1], s[k])]
    BY <2>2
  <2>4. Ok(n + 1)
    <3>. HIDE DEF g
    <3>. QED BY <2>3, Zenon
  <2>. HIDE DEF Ok
  <2>. QED BY <2>4
<1>3. Ok(Len(s))
  <2>1. Len(s) \in T
    <3>. HIDE DEF T
    <3>. QED BY <1>1, <1>2, SetInduction
  <2>. QED BY <2>1
<1>. QED BY <1>3, Zenon DEF Readings

LEMMA EncodingsDef ==
    ASSUME NEW s, Len(s) \in Nat
    PROVE  Encodings(s) = [k \in 0..Len(s) |->
                               IF k = 0 THEN <<>> ELSE Encodings(s)[k - 1] \o Encode(s[k])]
<1>. DEFINE Ok(n) == \E h : h = [k \in 0..n |-> IF k = 0 THEN <<>> ELSE h[k - 1] \o Encode(s[k])]
            T == {n \in Nat : Ok(n)}
<1>1. 0 \in T
  <2>1. [k \in 0..0 |-> <<>>]
            = [k \in 0..0 |-> IF k = 0 THEN <<>> ELSE [j \in 0..0 |-> <<>>][k - 1] \o Encode(s[k])]
    OBVIOUS
  <2>. QED BY <2>1
<1>2. ASSUME NEW n \in Nat, n \in T PROVE n + 1 \in T
  <2>1. PICK h : h = [k \in 0..n |-> IF k = 0 THEN <<>> ELSE h[k - 1] \o Encode(s[k])]
    BY <1>2
  <2>. DEFINE g == [k \in 0..(n + 1) |-> IF k = n + 1 THEN h[n] \o Encode(s[k]) ELSE h[k]]
  <2>2. ASSUME NEW k \in 0..(n + 1) PROVE g[k] = IF k = 0 THEN <<>> ELSE g[k - 1] \o Encode(s[k])
    <3>1. CASE k = n + 1
      <4>1. g[n] = h[n]
        OBVIOUS
      <4>. QED BY <3>1, <4>1
    <3>2. CASE k # n + 1
      <4>1. k \in 0..n /\ g[k] = h[k] /\ (k # 0 => g[k - 1] = h[k - 1])
        BY <3>2
      <4>. QED BY <4>1, <2>1
    <3>. QED BY <3>1, <3>2
  <2>3. g = [k \in 0..(n + 1) |-> IF k = 0 THEN <<>> ELSE g[k - 1] \o Encode(s[k])]
    BY <2>2
  <2>4. Ok(n + 1)
    <3>. HIDE DEF g
    <3>. QED BY <2>3, Zenon
  <2>. HIDE DEF Ok
  <2>. QED BY <2>4
<1>3. Ok(Len(s))
  <2>1. Len(s) \in T
    <3>. HIDE DEF T
    <3>. QED BY <1>1, <1>2, SetInduction
  <2>. QED BY <2>1
<1>. QED BY <1>3, Zenon DEF Encodings

LEMMA ReadingsFacts ==
    ASSUME NEW s, Len(s) \in Nat
    PROVE  /\ Readings(s)[0] = Start
           /\ \A k \in 0..(Len(s) - 1) : Readings(s)[k + 1] = ReadItem(Readings(s)[k], s[k + 1])
<1>. DEFINE f == Readings(s)
<1>. HIDE DEF f
<1>1. f = [k \in 0..Len(s) |-> IF k = 0 THEN Start ELSE ReadItem(f[k - 1], s[k])]
  BY ReadingsDef DEF f
<1>2. f[0] = Start
  BY <1>1
<1>3. ASSUME NEW k \in 0..(Len(s) - 1) PROVE f[k + 1] = ReadItem(f[k], s[k + 1])
  <2>1. k + 1 \in 0..Len(s) /\ k + 1 # 0 /\ (k + 1) - 1 = k
    OBVIOUS
  <2>. QED BY <1>1, <2>1
<1>. QED BY <1>2, <1>3 DEF f

LEMMA EncodingsFacts ==
    ASSUME NEW s, Len(s) \in Nat
    PROVE  /\ Encodings(s)[0] = <<>>
           /\ \A k \in 0..(Len(s) - 1) : Encodings(s)[k + 1] = Encodings(s)[k] \o Encode(s[k + 1])
<1>. DEFINE f == Encodings(s)
<1>. HIDE DEF f
<1>1. f = [k \in 0..Len(s) |-> IF k = 0 THEN <<>> ELSE f[k - 1] \o Encode(s[k])]
  BY EncodingsDef DEF f
<1>2. f[0] = <<>>
  BY <1>1
<1>3. ASSUME NEW k \in 0..(Len(s) - 1) PROVE f[k + 1] = f[k] \o Encode(s[k + 1])
  <2>1. k + 1 \in 0..Len(s) /\ k + 1 # 0 /\ (k + 1) - 1 = k
    OBVIOUS
  <2>. QED BY <1>1, <2>1
<1>. QED BY <1>2, <1>3 DEF f

(***************************************************************************)
(* The bytes.                                                              *)
(***************************************************************************)
Length(item) == Len(Encode(item))

LEMMA ConcatFacts ==
    ASSUME NEW S, NEW a \in Seq(S), NEW b \in Seq(S)
    PROVE  /\ a \o b \in Seq(S)
           /\ Len(a) \in Nat /\ Len(b) \in Nat /\ Len(a \o b) = Len(a) + Len(b)
           /\ \A i \in 1..Len(a) : (a \o b)[i] = a[i]
           /\ \A i \in 1..Len(b) : (a \o b)[Len(a) + i] = b[i]
OBVIOUS

LEMMA EncodeFacts ==
    ASSUME NEW item \in Items
    PROVE  /\ Encode(item) \in Seq(0..255)
           /\ item.kind = "end" => Length(item) = 1
           /\ Length(item) \in 1..5
<1>1. item.kind \in Kinds /\ item.page \in 0..255 /\ item.usage \in 0..255
  BY UsageAssumption
<1>. DEFINE e == Encode(item)
            Fits(n) == e \in Seq(0..255) /\ Len(e) = n
<1>2. CASE item.kind = "page"
  <2>1. e = <<5, item.page>>
    BY <1>2 DEF Encode
  <2>2. Fits(2)
    BY <1>1, <2>1
  <2>. QED BY <1>2, <2>2 DEF Length
<1>3. CASE item.kind = "wide_page"
  <2>1. e = <<6, item.page, 0>>
    BY <1>3 DEF Encode
  <2>2. Fits(3)
    BY <1>1, <2>1
  <2>. QED BY <1>3, <2>2 DEF Length
<1>4. CASE item.kind = "usage"
  <2>1. e = <<9, item.usage>>
    BY <1>4 DEF Encode
  <2>2. Fits(2)
    BY <1>1, <2>1
  <2>. QED BY <1>4, <2>2 DEF Length
<1>5. CASE item.kind = "page_and_usage"
  <2>1. e = <<11, item.usage, 0, item.page, 0>>
    BY <1>5 DEF Encode
  <2>2. Fits(5)
    BY <1>1, <2>1
  <2>. QED BY <1>5, <2>2 DEF Length
<1>6. CASE item.kind = "field"
  <2>1. e = <<129, 2>>
    BY <1>6 DEF Encode
  <2>2. Fits(2)
    BY <1>1, <2>1
  <2>. QED BY <1>6, <2>2 DEF Length
<1>7. CASE item.kind = "collection"
  <2>1. e = <<161, 1>>
    BY <1>7 DEF Encode
  <2>2. Fits(2)
    BY <1>1, <2>1
  <2>. QED BY <1>7, <2>2 DEF Length
<1>8. CASE item.kind = "end"
  <2>1. e = <<192>>
    BY <1>8 DEF Encode
  <2>2. Fits(1)
    BY <1>1, <2>1
  <2>. QED BY <1>8, <2>2 DEF Length
<1>9. CASE item.kind = "long"
  <2>1. e = <<254, 2, 0, 9, 161>>
    BY <1>9 DEF Encode
  <2>2. Fits(5)
    BY <1>1, <2>1
  <2>. QED BY <1>9, <2>2 DEF Length
<1>. QED BY <1>1, <1>2, <1>3, <1>4, <1>5, <1>6, <1>7, <1>8, <1>9 DEF Kinds

LEMMA EncodingsType ==
    ASSUME NEW s \in Seq(Items)
    PROVE  \A k \in 0..Len(s) : Encodings(s)[k] \in Seq(0..255)
<1>. DEFINE T == {k \in Nat : k <= Len(s) => Encodings(s)[k] \in Seq(0..255)}
<1>0. Len(s) \in Nat
  OBVIOUS
<1>1. 0 \in T
  <2>1. Encodings(s)[0] = <<>>
    BY <1>0, EncodingsFacts
  <2>2. <<>> \in Seq(0..255)
    OBVIOUS
  <2>. QED BY <2>1, <2>2
<1>2. ASSUME NEW k \in Nat, k \in T PROVE k + 1 \in T
  <2>. SUFFICES ASSUME k + 1 <= Len(s) PROVE Encodings(s)[k + 1] \in Seq(0..255)
    OBVIOUS
  <2>1. k \in 0..(Len(s) - 1) /\ s[k + 1] \in Items /\ Encodings(s)[k] \in Seq(0..255)
    BY <1>0, <1>2
  <2>2. Encode(s[k + 1]) \in Seq(0..255)
    BY <2>1, EncodeFacts
  <2>3. Encodings(s)[k + 1] = Encodings(s)[k] \o Encode(s[k + 1])
    BY <1>0, <2>1, EncodingsFacts
  <2>. QED BY <2>1, <2>2, <2>3, ConcatFacts
<1>. HIDE DEF T
<1>3. \A k \in Nat : k \in T
  BY <1>1, <1>2, SetInduction
<1>. QED BY <1>0, <1>3 DEF T

(* Where the bytes of the item behind the first k of s begin. *)
Offset(s, k) == Len(Encodings(s)[k])

LEMMA OffsetFacts ==
    ASSUME NEW s \in Seq(Items)
    PROVE  /\ Offset(s, 0) = 0
           /\ \A k \in 0..Len(s) : Offset(s, k) \in Nat
           /\ \A k \in 0..(Len(s) - 1) : Offset(s, k + 1) = Offset(s, k) + Length(s[k + 1])
<1>0. Len(s) \in Nat
  OBVIOUS
<1>1. Offset(s, 0) = 0
  <2>1. Encodings(s)[0] = <<>>
    BY <1>0, EncodingsFacts
  <2>. QED BY <2>1 DEF Offset
<1>2. \A k \in 0..Len(s) : Offset(s, k) \in Nat
  BY EncodingsType DEF Offset
<1>3. ASSUME NEW k \in 0..(Len(s) - 1) PROVE Offset(s, k + 1) = Offset(s, k) + Length(s[k + 1])
  <2>1. s[k + 1] \in Items /\ k \in 0..Len(s)
    BY <1>0
  <2>2. Encode(s[k + 1]) \in Seq(0..255) /\ Encodings(s)[k] \in Seq(0..255)
    BY <2>1, EncodeFacts, EncodingsType
  <2>3. Encodings(s)[k + 1] = Encodings(s)[k] \o Encode(s[k + 1])
    BY <1>0, EncodingsFacts
  <2>. QED BY <2>2, <2>3, ConcatFacts DEF Offset, Length
<1>. QED BY <1>1, <1>2, <1>3

(* The bytes of an item, wherever they are looked up behind it. *)
LEMMA BytesOfItem ==
    ASSUME NEW s \in Seq(Items), NEW k \in 0..(Len(s) - 1), NEW m \in (k + 1)..Len(s),
           NEW i \in 1..Length(s[k + 1])
    PROVE  /\ Offset(s, k) + Length(s[k + 1]) <= Offset(s, m)
           /\ Encodings(s)[m][Offset(s, k) + i] = Encode(s[k + 1])[i]
<1>. DEFINE item == s[k + 1]
            Good(j) == /\ Offset(s, k) + Length(item) <= Offset(s, j)
                       /\ Encodings(s)[j][Offset(s, k) + i] = Encode(item)[i]
            T == {j \in Nat : Good(j)}
<1>. HIDE DEF item
<1>0. /\ Len(s) \in Nat /\ item \in Items /\ k \in Nat /\ m \in Nat /\ k + 1 <= m
      /\ Length(item) \in 1..5 /\ Encode(item) \in Seq(0..255) /\ Length(item) = Len(Encode(item))
      /\ i \in Nat /\ i \in 1..Length(item)
  <2>1. Len(s) \in Nat /\ k \in Nat /\ m \in Nat /\ k + 1 \in 1..Len(s) /\ k + 1 <= m
    OBVIOUS
  <2>2. item \in Items
    BY <2>1 DEF item
  <2>3. i \in 1..Length(item)
    BY DEF item
  <2>. QED BY <2>1, <2>2, <2>3, EncodeFacts DEF Length
<1>1. \A j \in 0..Len(s) : Encodings(s)[j] \in Seq(0..255) /\ Offset(s, j) = Len(Encodings(s)[j])
  BY EncodingsType DEF Offset
<1>2. k + 1 \in T
  <2>1. Encodings(s)[k + 1] = Encodings(s)[k] \o Encode(item)
    BY <1>0, EncodingsFacts DEF item
  <2>2. k \in 0..Len(s) /\ k + 1 \in 0..Len(s)
    BY <1>0
  <2>3. Encodings(s)[k] \in Seq(0..255) /\ Offset(s, k) = Len(Encodings(s)[k])
        /\ Offset(s, k + 1) = Len(Encodings(s)[k + 1])
    BY <1>1, <2>2
  <2>4. Offset(s, k + 1) = Offset(s, k) + Length(item) /\ Offset(s, k) \in Nat
        /\ Encodings(s)[k + 1][Offset(s, k) + i] = Encode(item)[i]
    BY <1>0, <2>1, <2>3, ConcatFacts
  <2>. QED BY <1>0, <2>4
<1>3. ASSUME NEW j \in (k + 1)..(m - 1), j \in T PROVE j + 1 \in T
  <2>0. j \in 0..(Len(s) - 1) /\ j \in 0..Len(s) /\ j + 1 \in 0..Len(s) /\ j + 1 \in Nat
    <3>1. m <= Len(s)
      OBVIOUS
    <3>. QED BY <1>0, <3>1
  <2>1. s[j + 1] \in Items /\ Encodings(s)[j + 1] = Encodings(s)[j] \o Encode(s[j + 1])
    <3>1. j + 1 \in 1..Len(s)
      BY <1>0, <2>0
    <3>2. s[j + 1] \in Items
      BY <3>1
    <3>3. Encodings(s)[j + 1] = Encodings(s)[j] \o Encode(s[j + 1])
      BY <1>0, <2>0, EncodingsFacts
    <3>. QED BY <3>2, <3>3
  <2>2. Encode(s[j + 1]) \in Seq(0..255)
    BY <2>1, EncodeFacts
  <2>3. Good(j)
    BY <1>3
  <2>4. Offset(s, k) \in Nat /\ Offset(s, k) + i \in 1..Len(Encodings(s)[j])
    <3>1. Offset(s, k) \in Nat /\ Offset(s, j) \in Nat /\ Offset(s, j) = Len(Encodings(s)[j])
      <4>1. k \in 0..Len(s)
        BY <1>0
      <4>. QED BY <1>1, <2>0, <4>1, OffsetFacts
    <3>2. Offset(s, k) + Length(item) <= Offset(s, j)
      BY <2>3
    <3>3. Offset(s, k) + i \in 1..Offset(s, j)
      BY <1>0, <3>1, <3>2
    <3>. QED BY <3>1, <3>3
  <2>5. Encodings(s)[j + 1][Offset(s, k) + i] = Encodings(s)[j][Offset(s, k) + i]
    <3>. DEFINE a == Encodings(s)[j]
                b == Encode(s[j + 1])
                p == Offset(s, k) + i
    <3>1. a \in Seq(0..255) /\ b \in Seq(0..255) /\ p \in 1..Len(a) /\ Encodings(s)[j + 1] = a \o b
      BY <1>1, <2>0, <2>1, <2>2, <2>4
    <3>. HIDE DEF a, b, p
    <3>2. (a \o b)[p] = a[p]
      BY <3>1, ConcatFacts
    <3>3. Encodings(s)[j + 1][p] = a[p]
      BY <3>1, <3>2
    <3>. QED BY <3>3 DEF a, p
  <2>6. Offset(s, j) <= Offset(s, j + 1) /\ Offset(s, j) \in Nat /\ Offset(s, j + 1) \in Nat
    <3>1. Offset(s, j) \in Nat /\ Offset(s, j + 1) = Offset(s, j) + Length(s[j + 1])
      BY <2>0, OffsetFacts
    <3>2. Length(s[j + 1]) \in 1..5
      BY <2>1, EncodeFacts
    <3>. QED BY <3>1, <3>2
  <2>7. Good(j + 1)
    BY <1>0, <2>3, <2>4, <2>5, <2>6
  <2>. QED BY <2>0, <2>7
<1>4. m \in T
  <2>. HIDE DEF T
  <2>1. k + 1 \in Nat /\ k + 1 <= m
    BY <1>0
  <2>. QED BY <1>0, <1>2, <1>3, <2>1, SetInductionFrom
<1>. QED BY <1>4 DEF item

-----------------------------------------------------------------------------
(***************************************************************************)
(* The inductive invariant.                                                *)
(***************************************************************************)
Pairs == Nat \X Nat
Opens == Pairs \cup {<<>>}
Froms == {NoPage, "usage", "page_and_usage"}

Hosts == [page : Nat, from : Froms, usages : Seq(Items), depth : Int, opened : Opens,
          closed : Seq(Opens), collections : Nat, regular : BOOLEAN, settled : BOOLEAN]

(* Types of all variables. *)
TypeOK ==
    /\ backend \in Backends
    /\ items \in Seq(Items) /\ report_descriptor \in Seq(0..255)
    /\ phase \in {"declare", "walk", "collection", "done"}
    /\ pos \in Nat /\ level \in Int
    /\ page_found \in BOOLEAN /\ usage_found \in BOOLEAN /\ initial \in BOOLEAN
    /\ page \in Nat /\ usage \in Nat
    /\ list \in Seq(Pairs)

(* Nothing has been looked at before the descriptor is there. *)
DeclareInv ==
    phase = "declare" => /\ pos = 0 /\ list = <<>> /\ initial
                         /\ ~page_found /\ ~usage_found

(* A device ends only collections that are open. *)
DepthInv == \A k \in 0..Len(items) : Readings(items)[k].depth >= 0

(* What was read are the bytes of the items, all but some of the last one. *)
FetchedInv ==
    phase # "declare" =>
        /\ items # <<>>
        /\ Offset(items, Len(items) - 1) < size /\ size <= Offset(items, Len(items))
        /\ \A i \in 1..size : report_descriptor[i] = Encodings(items)[Len(items)][i]

AtItem(k) == pos = Offset(items, k)

(* Behind the item that was read in part. *)
Past(k) == Cut /\ k = Whole /\ pos >= size

LastUsage(h) == h.usages[Len(h.usages)]

(* The page in force is the one of the walk, as far as the host knows that *)
(* no other was set inside of a collection.                                *)
PageKnown(h) == h.from = "usage" => page_found /\ page = h.page

(* The iterator between two top-level collections. *)
Outside(h) ==
    /\ h.depth = 0 /\ list = h.closed /\ h.collections = Len(h.closed)
    /\ initial <=> h.closed = <<>>
    /\ usage_found <=> h.usages # <<>>
    /\ usage_found => usage = LastUsage(h).usage
    /\ usage_found /\ h.from = "page_and_usage" /\ LastUsage(h).kind = "page_and_usage" =>
           page_found /\ page = LastUsage(h).page
    /\ PageKnown(h)

(* The iterator inside of a collection, with the pair that is to be returned. *)
Inside(h) ==
    /\ level = h.depth /\ level >= 1
    /\ page_found /\ usage_found /\ h.opened = <<page, usage>>
    /\ list = h.closed /\ h.collections = Len(h.closed) + 1
    /\ initial <=> h.closed = <<>>
    /\ PageKnown(h)

(* The iterator has returned a pair and is still at the end of the collection. *)
AtEnd(h) ==
    /\ h.depth = 1 /\ list = Append(h.closed, h.opened) /\ h.collections = Len(h.closed) + 1
    /\ ~initial /\ ~usage_found
    /\ PageKnown(h)

IteratorInv(k, h) ==
    \/ /\ phase = "walk"
       /\ \/ AtItem(k) /\ Outside(h)
          \/ AtItem(k) /\ AtEnd(h) /\ k < Whole /\ items[k + 1].kind = "end"
          \/ /\ Past(k) /\ list = h.closed /\ h.collections = Len(h.closed)
             /\ initial <=> h.closed = <<>>
    \/ /\ phase = "collection"
       /\ \/ /\ AtItem(k) /\ Outside(h) /\ level = 0
             /\ k < Len(items) /\ items[k + 1].kind = "collection"
          \/ AtItem(k) /\ Inside(h)
          \/ Past(k) /\ list = h.closed

(* get_usage has found at most one half of a pair. *)
HalfFound(h) ==
    /\ h.depth = 0 /\ h.collections = 0 /\ h.closed = <<>>
    /\ ~(page_found /\ usage_found)
    /\ usage_found <=> h.usages # <<>>
    /\ ~usage_found => h.from = IF page_found THEN "usage" ELSE NoPage
    /\ page_found => page = h.page
    /\ usage_found => h.from = NoPage /\ h.usages[1].kind = "usage" /\ usage = LastUsage(h).usage

GetUsageInv(k, h) ==
    /\ phase = "walk"
    /\ \/ AtItem(k) /\ HalfFound(h)
       \/ Past(k) /\ h.collections = 0

(* If the host has found the descriptor regular so far, the walk agrees.   *)
Agree(k, h) ==
    h.regular => IF backend = "libusb" THEN GetUsageInv(k, h) ELSE IteratorInv(k, h)

(* The walk is at an item, or behind the one that was read in part. *)
WalkInv ==
    phase \in {"walk", "collection"} =>
        \E k \in 0..Whole : (AtItem(k) \/ Past(k)) /\ Agree(k, Readings(items)[k])

IInv == TypeOK /\ DeclareInv /\ DepthInv /\ FetchedInv /\ WalkInv /\ UsagesFound

-----------------------------------------------------------------------------
(***************************************************************************)
(* What a host makes of one item.                                          *)
(***************************************************************************)
LEMMA NoUsages == \E none \in Seq(Items) : none = <<>>
<1>1. <<>> \in Seq(Items)
  OBVIOUS
<1>. QED BY <1>1

LEMMA LastUsageFacts ==
    ASSUME NEW h \in Hosts, h.usages # <<>>
    PROVE  /\ Len(h.usages) \in Nat \ {0} /\ LastUsage(h) \in Items /\ h.usages[1] \in Items
           /\ LastUsage(h).page \in Nat /\ LastUsage(h).usage \in Nat
           /\ h.usages[1].page \in Nat /\ h.usages[1].usage \in Nat
           /\ Len(h.usages) = 1 => LastUsage(h) = h.usages[1]
<1>1. h.usages \in Seq(Items)
  BY DEF Hosts
<1>2. Len(h.usages) \in Nat \ {0}
  BY <1>1
<1>3. LastUsage(h) \in Items /\ h.usages[1] \in Items
  BY <1>1, <1>2 DEF LastUsage
<1>4. \A item \in Items : item.page \in Nat /\ item.usage \in Nat
  <2>. TAKE item \in Items
  <2>1. item.page \in 0..255 /\ item.usage \in 0..255
    BY UsageAssumption
  <2>2. \A n \in 0..255 : n \in Nat
    OBVIOUS
  <2>. QED BY <2>1, <2>2
<1>5. Len(h.usages) = 1 => LastUsage(h) = h.usages[1]
  BY DEF LastUsage
<1>. QED BY <1>2, <1>3, <1>4, <1>5

LEMMA PageRead ==
    ASSUME NEW h \in Hosts, NEW item \in Items, item.kind \in {"page", "wide_page"},
           NEW g, g = ReadItem(h, item)
    PROVE  /\ g \in Hosts
           /\ g.page = item.page /\ g.from = (IF h.depth = 0 THEN "usage" ELSE NoPage)
           /\ g.usages = h.usages /\ g.depth = h.depth /\ g.opened = h.opened /\ g.closed = h.closed
           /\ g.collections = h.collections /\ g.regular = h.regular
           /\ g.settled <=> h.settled /\ (h.depth = 0 /\ h.usages # <<>> => h.from = NoPage)
<1>1. g = ReadPage(h, item)
  BY DEF ReadItem
<1>2. item.page \in Nat
  BY UsageAssumption
<1>. QED BY <1>1, <1>2 DEF ReadPage, Hosts, Froms, NoPage

LEMMA UsageRead ==
    ASSUME NEW h \in Hosts, NEW item \in Items, item.kind \in {"usage", "page_and_usage"},
           NEW g, g = ReadItem(h, item)
    PROVE  /\ g \in Hosts
           /\ g.page = h.page
           /\ g.from = (IF h.depth = 0 /\ item.kind = "page_and_usage" THEN item.kind ELSE h.from)
           /\ g.usages = Append(h.usages, item) /\ g.usages # <<>> /\ LastUsage(g) = item
           /\ Len(g.usages) = Len(h.usages) + 1
           /\ h.usages # <<>> => g.usages[1] = h.usages[1]
           /\ h.usages = <<>> => g.usages[1] = item
           /\ g.depth = h.depth /\ g.opened = h.opened /\ g.closed = h.closed
           /\ g.collections = h.collections /\ g.regular = h.regular /\ g.settled = h.settled
<1>1. g = ReadUsage(h, item)
  BY DEF ReadItem
<1>2. h.usages \in Seq(Items) /\ Append(h.usages, item) \in Seq(Items)
  BY DEF Hosts
<1>3. /\ g \in Hosts
      /\ g.page = h.page
      /\ g.from = (IF h.depth = 0 /\ item.kind = "page_and_usage" THEN item.kind ELSE h.from)
      /\ g.usages = Append(h.usages, item)
      /\ g.depth = h.depth /\ g.opened = h.opened /\ g.closed = h.closed
      /\ g.collections = h.collections /\ g.regular = h.regular /\ g.settled = h.settled
  BY <1>1, <1>2 DEF ReadUsage, Hosts, Froms, NoPage
<1>4. /\ g.usages # <<>> /\ LastUsage(g) = item /\ Len(g.usages) = Len(h.usages) + 1
      /\ h.usages # <<>> => g.usages[1] = h.usages[1]
      /\ h.usages = <<>> => g.usages[1] = item
  BY <1>2, <1>3 DEF LastUsage
<1>. QED BY <1>3, <1>4

LEMMA CollectionRead ==
    ASSUME NEW h \in Hosts, NEW item \in Items, item.kind = "collection",
           NEW g, g = ReadItem(h, item)
    PROVE  /\ g \in Hosts
           /\ g.page = h.page /\ g.from = h.from /\ g.usages = <<>>
           /\ g.depth = h.depth + 1 /\ g.closed = h.closed
           /\ g.opened = (IF h.depth = 0 /\ HasPair(h) THEN PairOf(h) ELSE h.opened)
           /\ g.collections = (IF h.depth = 0 THEN h.collections + 1 ELSE h.collections)
           /\ g.regular <=> h.regular /\ (h.depth = 0 => HasPair(h))
           /\ g.settled = h.settled
<1>1. g = ReadCollection(h)
  BY DEF ReadItem
<1>2. HasPair(h) => PairOf(h) \in Pairs
  <2>1. HasPair(h) => h.usages # <<>>
    BY DEF HasPair
  <2>2. h.page \in Nat
    BY DEF Hosts
  <2>. QED BY <2>1, <2>2, LastUsageFacts DEF PairOf, InForce, Pairs
<1>3. PICK none \in Seq(Items) : none = <<>>
  BY NoUsages
<1>. DEFINE d == h.depth + 1
            n == IF h.depth = 0 THEN h.collections + 1 ELSE h.collections
            o == IF h.depth = 0 /\ HasPair(h) THEN PairOf(h) ELSE h.opened
            r == h.regular /\ (h.depth = 0 => HasPair(h))
            c == h.closed
<1>4. d \in Int /\ n \in Nat /\ o \in Opens /\ c \in Seq(Opens)
  BY <1>2 DEF Hosts, Opens
<1>5. r \in BOOLEAN
  <2>1. h.regular \in BOOLEAN
    BY DEF Hosts
  <2>. QED BY <2>1
<1>6. g = [h EXCEPT !.depth = d, !.usages = none, !.opened = o, !.closed = c, !.collections = n, !.regular = r]
  BY <1>1, <1>3 DEF ReadCollection, Hosts
<1>. HIDE DEF d, n, o, r, c
<1>7. /\ g \in Hosts /\ g.page = h.page /\ g.from = h.from /\ g.settled = h.settled
      /\ g.depth = d /\ g.usages = none /\ g.opened = o /\ g.closed = c
      /\ g.collections = n /\ g.regular = r
  BY <1>3, <1>4, <1>5, <1>6, ZenonT(40) DEF Hosts
<1>. QED BY <1>3, <1>7 DEF d, n, o, r, c

LEMMA EndRead ==
    ASSUME NEW h \in Hosts, NEW item \in Items, item.kind = "end",
           NEW g, g = ReadItem(h, item)
    PROVE  /\ g \in Hosts
           /\ g.page = h.page /\ g.from = h.from /\ g.usages = <<>>
           /\ g.depth = h.depth - 1 /\ g.opened = h.opened
           /\ g.closed = (IF h.depth = 1 THEN Append(h.closed, h.opened) ELSE h.closed)
           /\ g.collections = h.collections /\ g.regular = h.regular /\ g.settled = h.settled
<1>1. g = ReadEnd(h)
  BY DEF ReadItem
<1>2. PICK none \in Seq(Items) : none = <<>>
  BY NoUsages
<1>. DEFINE d == h.depth - 1
            o == h.opened
            c == IF h.depth = 1 THEN Append(h.closed, h.opened) ELSE h.closed
            n == h.collections
            r == h.regular
<1>3. d \in Int /\ o \in Opens /\ n \in Nat /\ r \in BOOLEAN
  BY DEF Hosts
<1>4. c \in Seq(Opens)
  BY DEF Hosts
<1>5. g = [h EXCEPT !.depth = d, !.usages = none, !.opened = o, !.closed = c, !.collections = n, !.regular = r]
  BY <1>1, <1>2 DEF ReadEnd, Hosts
<1>. HIDE DEF d, n, o, r, c
<1>6. /\ g \in Hosts /\ g.page = h.page /\ g.from = h.from /\ g.settled = h.settled
      /\ g.depth = d /\ g.usages = none /\ g.opened = o /\ g.closed = c
      /\ g.collections = n /\ g.regular = r
  BY <1>2, <1>3, <1>4, <1>5, ZenonT(40) DEF Hosts
<1>. QED BY <1>2, <1>6 DEF d, n, o, r, c

LEMMA FieldRead ==
    ASSUME NEW h \in Hosts, NEW item \in Items, item.kind = "field",
           NEW g, g = ReadItem(h, item)
    PROVE  /\ g \in Hosts
           /\ g.page = h.page /\ g.from = h.from /\ g.usages = <<>>
           /\ g.depth = h.depth /\ g.opened = h.opened /\ g.closed = h.closed
           /\ g.collections = h.collections /\ g.settled = h.settled
           /\ g.regular <=> h.regular /\ h.depth > 0
<1>1. g = [h EXCEPT !.usages = <<>>, !.regular = @ /\ h.depth > 0]
  BY DEF ReadItem
<1>2. PICK none \in Seq(Items) : none = <<>>
  BY NoUsages
<1>3. g = [h EXCEPT !.usages = none, !.regular = @ /\ h.depth > 0]
  BY <1>1, <1>2
<1>. QED BY <1>2, <1>3 DEF Hosts

LEMMA LongRead ==
    ASSUME NEW h, NEW item \in Items, item.kind = "long"
    PROVE  ReadItem(h, item) = h
BY DEF ReadItem

(* The type of what is known, and nothing that is lost is found again. *)
LEMMA ReadItemFacts ==
    ASSUME NEW h \in Hosts, NEW item \in Items
    PROVE  /\ ReadItem(h, item) \in Hosts
           /\ ReadItem(h, item).regular => h.regular
           /\ ReadItem(h, item).settled => h.settled
<1>1. item.kind \in Kinds
  BY UsageAssumption
<1>. DEFINE g == ReadItem(h, item)
<1>. HIDE DEF g
<1>2. g = ReadItem(h, item)
  BY DEF g
<1>3. CASE item.kind \in {"page", "wide_page"}
  BY <1>2, <1>3, PageRead
<1>4. CASE item.kind \in {"usage", "page_and_usage"}
  BY <1>2, <1>4, UsageRead
<1>5. CASE item.kind = "collection"
  BY <1>2, <1>5, CollectionRead
<1>6. CASE item.kind = "end"
  BY <1>2, <1>6, EndRead
<1>7. CASE item.kind = "field"
  BY <1>2, <1>7, FieldRead
<1>8. CASE item.kind = "long"
  BY <1>2, <1>8, LongRead
<1>. QED BY <1>1, <1>3, <1>4, <1>5, <1>6, <1>7, <1>8 DEF Kinds

LEMMA ReadingsType ==
    ASSUME NEW s \in Seq(Items)
    PROVE  \A k \in 0..Len(s) : Readings(s)[k] \in Hosts
<1>. DEFINE T == {k \in Nat : k <= Len(s) => Readings(s)[k] \in Hosts}
<1>0. Len(s) \in Nat
  OBVIOUS
<1>1. 0 \in T
  <2>1. Readings(s)[0] = Start
    BY <1>0, ReadingsFacts
  <2>2. Start \in Hosts
    BY DEF Start, Hosts, Froms, Opens, NoPage
  <2>. QED BY <2>1, <2>2
<1>2. ASSUME NEW k \in Nat, k \in T PROVE k + 1 \in T
  <2>. SUFFICES ASSUME k + 1 <= Len(s) PROVE Readings(s)[k + 1] \in Hosts
    OBVIOUS
  <2>1. k \in 0..(Len(s) - 1) /\ k + 1 \in 1..Len(s) /\ Readings(s)[k] \in Hosts
    BY <1>0, <1>2
  <2>2. s[k + 1] \in Items
    BY <2>1
  <2>. QED BY <1>0, <2>1, <2>2, ReadingsFacts, ReadItemFacts
<1>. HIDE DEF T
<1>3. \A k \in Nat : k \in T
  BY <1>1, <1>2, SetInduction
<1>. QED BY <1>0, <1>3 DEF T

(* What is known after an item does not depend on those behind it. *)
LEMMA ReadingsOfAppend ==
    ASSUME NEW s \in Seq(Items), NEW item \in Items
    PROVE  /\ \A k \in 0..Len(s) : Readings(Append(s, item))[k] = Readings(s)[k]
           /\ Readings(Append(s, item))[Len(s) + 1] = ReadItem(Readings(s)[Len(s)], item)
<1>. DEFINE t == Append(s, item)
            T == {k \in Nat : k <= Len(s) => Readings(t)[k] = Readings(s)[k]}
<1>0. /\ Len(s) \in Nat /\ Len(t) \in Nat /\ Len(t) = Len(s) + 1 /\ t[Len(s) + 1] = item
      /\ \A k \in 1..Len(s) : t[k] = s[k]
  OBVIOUS
<1>. HIDE DEF t
<1>1. 0 \in T
  BY <1>0, ReadingsFacts
<1>2. ASSUME NEW k \in Nat, k \in T PROVE k + 1 \in T
  <2>. SUFFICES ASSUME k + 1 <= Len(s) PROVE Readings(t)[k + 1] = Readings(s)[k + 1]
    OBVIOUS
  <2>1. k \in 0..(Len(s) - 1) /\ k \in 0..(Len(t) - 1) /\ k + 1 \in 1..Len(s)
        /\ Readings(t)[k] = Readings(s)[k]
    BY <1>0, <1>2
  <2>2. Readings(t)[k + 1] = ReadItem(Readings(t)[k], t[k + 1])
    BY <1>0, <2>1, ReadingsFacts
  <2>3. Readings(s)[k + 1] = ReadItem(Readings(s)[k], s[k + 1])
    BY <1>0, <2>1, ReadingsFacts
  <2>4. t[k + 1] = s[k + 1]
    BY <1>0, <2>1
  <2>. QED BY <2>1, <2>2, <2>3, <2>4
<1>3. \A k \in Nat : k \in T
  <2>. HIDE DEF T
  <2>. QED BY <1>1, <1>2, SetInduction
<1>4. Readings(t)[Len(s) + 1] = ReadItem(Readings(t)[Len(s)], t[Len(s) + 1])
  <2>1. Len(s) \in 0..(Len(t) - 1)
    BY <1>0
  <2>. QED BY <1>0, <2>1, ReadingsFacts
<1>5. \A k \in 0..Len(s) : Readings(t)[k] = Readings(s)[k]
  BY <1>0, <1>3
<1>6. Readings(t)[Len(s)] = Readings(s)[Len(s)]
  BY <1>0, <1>5
<1>. QED BY <1>0, <1>4, <1>5, <1>6 DEF t

-----------------------------------------------------------------------------
(***************************************************************************)
(* The walk at an item: it sees what the item is, how long it is and, if   *)
(* it was read whole, its value.                                           *)
(***************************************************************************)
LEMMA FetchedFacts ==
    ASSUME TypeOK, FetchedInv, phase # "declare"
    PROVE  /\ Len(items) \in Nat \ {0} /\ size \in Nat /\ Whole \in 0..Len(items) /\ Cut \in BOOLEAN
           /\ Offset(items, Whole) \in Nat
           /\ Cut => /\ Whole = Len(items) - 1 /\ Offset(items, Whole) < size
                     /\ size < Offset(items, Len(items))
           /\ ~Cut => Whole = Len(items) /\ Offset(items, Whole) = size
<1>1. items \in Seq(Items) /\ items # <<>> /\ report_descriptor \in Seq(0..255)
  BY DEF TypeOK, FetchedInv
<1>2. Len(items) \in Nat \ {0} /\ size \in Nat
  BY <1>1 DEF size
<1>3. Len(Bytes) = Offset(items, Len(items))
  BY DEF Bytes, Offset
<1>4. Offset(items, Len(items)) \in Nat /\ Offset(items, Len(items) - 1) \in Nat
  BY <1>1, <1>2, OffsetFacts
<1>5. Offset(items, Len(items) - 1) < size /\ size <= Offset(items, Len(items))
  BY DEF FetchedInv
<1>. QED BY <1>2, <1>3, <1>4, <1>5 DEF Cut, Whole

LEMMA BytesAt ==
    ASSUME TypeOK, FetchedInv, phase # "declare", NEW k \in 0..(Len(items) - 1)
    PROVE  /\ items[k + 1] \in Items /\ Length(items[k + 1]) \in 1..5 /\ Offset(items, k) \in Nat
           /\ Offset(items, k + 1) = Offset(items, k) + Length(items[k + 1])
           /\ \A i \in 1..Length(items[k + 1]) :
                  Offset(items, k) + i <= size =>
                      Byte(Offset(items, k) + (i - 1)) = Encode(items[k + 1])[i]
           /\ k < Whole => Offset(items, k) + Length(items[k + 1]) <= size
           /\ k >= Whole => k = Whole /\ Offset(items, k) + Length(items[k + 1]) > size
<1>. DEFINE len == Length(items[k + 1])
            o == Offset(items, k)
            n == Len(items)
<1>0. items \in Seq(Items) /\ n \in Nat \ {0} /\ k \in 0..(n - 1) /\ size \in Nat /\ Whole \in 0..n
  BY FetchedFacts DEF TypeOK
<1>1. items[k + 1] \in Items
  BY <1>0
<1>2. len \in 1..5 /\ o \in Nat /\ Offset(items, k + 1) = o + len
  BY <1>0, <1>1, EncodeFacts, OffsetFacts
<1>3. ASSUME NEW i \in 1..len, o + i <= size PROVE Byte(o + (i - 1)) = Encode(items[k + 1])[i]
  <2>1. n \in (k + 1)..n
    BY <1>0
  <2>2. Encodings(items)[n][o + i] = Encode(items[k + 1])[i]
    BY <1>0, <2>1, BytesOfItem
  <2>3. o + i \in 1..size /\ (o + (i - 1)) + 1 = o + i
    BY <1>0, <1>2, <1>3
  <2>4. report_descriptor[o + i] = Encodings(items)[n][o + i]
    BY <2>3 DEF FetchedInv
  <2>. QED BY <2>2, <2>3, <2>4 DEF Byte
<1>4. k < Whole => o + len <= size
  <2>. SUFFICES ASSUME k < Whole PROVE o + len <= size
    OBVIOUS
  <2>1. Whole \in (k + 1)..Len(items) /\ 1 \in 1..len
    BY <1>0, <1>2
  <2>2. o + len <= Offset(items, Whole)
    BY <1>0, <2>1, BytesOfItem
  <2>3. Offset(items, Whole) <= size /\ Offset(items, Whole) \in Nat
    BY FetchedFacts, <1>0
  <2>. HIDE DEF o, len
  <2>. QED BY <1>0, <1>2, <2>2, <2>3
<1>5. k >= Whole => k = Whole /\ o + len > size
  <2>. SUFFICES ASSUME k >= Whole PROVE k = Whole /\ o + len > size
    OBVIOUS
  <2>1. Cut /\ k = Whole /\ k + 1 = n
    BY <1>0, FetchedFacts
  <2>2. size < Offset(items, n)
    BY <2>1, FetchedFacts
  <2>. QED BY <1>2, <2>1, <2>2
<1>. HIDE DEF n
<1>. QED BY <1>1, <1>2, <1>3, <1>4, <1>5

(* A walk that has not come to the end is at an item. *)
LEMMA NotAtEnd ==
    ASSUME TypeOK, FetchedInv, phase # "declare", NEW k \in 0..Whole, AtItem(k) \/ Past(k),
           pos < size
    PROVE  AtItem(k) /\ k \in 0..(Len(items) - 1)
<1>1. pos \in Nat /\ size \in Nat
  BY FetchedFacts DEF TypeOK
<1>2. AtItem(k)
  BY <1>1 DEF Past
<1>3. k # Len(items)
  BY <1>1, <1>2, FetchedFacts DEF AtItem
<1>. QED BY <1>2, <1>3, FetchedFacts

(* One that has is behind the last item. *)
LEMMA AtTheEnd ==
    ASSUME TypeOK, FetchedInv, phase # "declare", NEW k \in 0..Whole, AtItem(k),
           pos >= size
    PROVE  ~Cut /\ k = Whole /\ k = Len(items)
<1>1. pos \in Nat /\ size \in Nat /\ Whole \in 0..Len(items) /\ Len(items) \in Nat
  BY FetchedFacts DEF TypeOK
<1>2. ASSUME k < Whole PROVE FALSE
  <2>1. k \in 0..(Len(items) - 1)
    BY <1>1, <1>2
  <2>2. /\ Length(items[k + 1]) \in 1..5 /\ Offset(items, k) \in Nat
        /\ Offset(items, k) + Length(items[k + 1]) <= size
    BY <2>1, <1>2, BytesAt
  <2>. HIDE DEF size
  <2>. QED BY <1>1, <2>2 DEF AtItem
<1>3. k = Whole
  BY <1>1, <1>2
<1>4. ~Cut
  BY <1>1, <1>3, FetchedFacts DEF AtItem
<1>. QED BY <1>3, <1>4, FetchedFacts

LEMMA ElementType ==
    ASSUME NEW S, NEW r \in Seq(S), NEW i \in 1..Len(r)
    PROVE  r[i] \in S
OBVIOUS

LEMMA ValueType ==
    ASSUME TypeOK, NEW p \in Nat, NEW n \in {0, 1, 2, 4}
    PROVE  get_bytes(p, n) \in Nat
<1>1. report_descriptor \in Seq(0..255) /\ size \in Nat
  BY DEF TypeOK, size
<1>2. ASSUME NEW j \in Nat, j < size PROVE Byte(j) \in Nat
  <2>1. j + 1 \in 1..Len(report_descriptor)
    BY <1>1, <1>2 DEF size
  <2>2. report_descriptor[j + 1] \in 0..255
    <3>. DEFINE r == report_descriptor
    <3>1. r \in Seq(0..255)
      BY <1>1
    <3>. HIDE DEF r
    <3>2. j + 1 \in 1..Len(r)
      BY <2>1 DEF r
    <3>3. r[j + 1] \in 0..255
      BY <3>1, <3>2, ElementType
    <3>. QED BY <3>3 DEF r
  <2>. QED BY <2>2 DEF Byte
<1>3. n # 0 /\ p + n < size => p + 1 < size
  BY <1>1
<1>4. n # 0 /\ n # 1 /\ p + n < size => p + 2 < size
  BY <1>1
<1>5. p + 1 \in Nat /\ p + 2 \in Nat
  OBVIOUS
<1>6. CASE n = 0 \/ p + n >= size
  <2>1. get_bytes(p, n) = 0
    BY <1>6 DEF get_bytes
  <2>. QED BY <2>1
<1>7. CASE ~(n = 0 \/ p + n >= size)
  <2>1. p + 1 < size /\ (n # 1 => p + 2 < size)
    BY <1>1, <1>3, <1>4, <1>7
  <2>2. Byte(p + 1) \in Nat /\ (n # 1 => Byte(p + 2) \in Nat)
    BY <1>2, <1>5, <2>1
  <2>3. get_bytes(p, n) = IF n = 1 THEN Byte(p + 1) ELSE Byte(p + 1) + 256 * Byte(p + 2)
    BY <1>7 DEF get_bytes
  <2>4. CASE n = 1
    BY <2>2, <2>3, <2>4
  <2>5. CASE n # 1
    BY <2>2, <2>3, <2>5
  <2>. QED BY <2>4, <2>5
<1>. QED BY <1>6, <1>7

LEMMA TwoBytes ==
    ASSUME NEW p \in Nat, size \in Nat, p + 3 <= size, NEW b \in 0..255, Byte(p + 1) = b, Byte(p + 2) = 0
    PROVE  get_bytes(p, 2) = b
<1>1. ~(2 = 0 \/ p + 2 >= size)
  <2>. HIDE DEF size
  <2>. QED OBVIOUS
<1>2. get_bytes(p, 2) = Byte(p + 1) + 256 * Byte(p + 2)
  <2>. HIDE DEF size
  <2>. QED BY <1>1 DEF get_bytes
<1>. QED BY <1>2

(* What the walk makes of the bytes of the item behind the first k. *)
Seen(k, item) ==
    /\ Command(pos) = PageItem <=> item.kind \in {"page", "wide_page"}
    /\ Command(pos) = UsageItem <=> item.kind \in {"usage", "page_and_usage"}
    /\ Command(pos) = CollectionItem <=> item.kind = "collection"
    /\ Command(pos) = EndItem <=> item.kind = "end"
    /\ item.kind \in {"page", "wide_page", "usage", "page_and_usage"} => DataLength(pos) \in {1, 2, 4}
    /\ item.kind = "usage" => DataLength(pos) = 1
    /\ item.kind = "page_and_usage" => DataLength(pos) = 4
    /\ After(pos) \in Nat
    /\ IF k < Whole THEN After(pos) = Offset(items, k + 1) ELSE After(pos) >= size
    /\ item.kind = "end" => k < Whole
    /\ k < Whole =>
           /\ item.kind \in {"page", "wide_page"} => get_bytes(pos, DataLength(pos)) = item.page
           /\ item.kind = "usage" => get_bytes(pos, 1) = item.usage
           /\ item.kind = "page_and_usage" => /\ get_bytes(pos, 2) = item.usage
                                              /\ get_bytes(pos + 2, 2) = item.page

(* The same from the first byte, if the item is a short one. *)
LEMMA ShortSeen ==
    ASSUME NEW key \in 0..239, Key(pos) = key, pos \in Nat
    PROVE  /\ Command(pos) = key - (key % 4)
           /\ DataLength(pos) = <<0, 1, 2, 4>>[(key % 4) + 1]
           /\ After(pos) = pos + DataLength(pos) + 1
<1>1. ~IsLong(pos)
  BY DEF IsLong
<1>2. Command(pos) = key - (key % 4)
  BY DEF Command
<1>3. DataLength(pos) = <<0, 1, 2, 4>>[(key % 4) + 1]
  BY <1>1 DEF DataLength, ShortLength
<1>4. KeySize(pos) = 1
  BY <1>1 DEF KeySize
<1>. QED BY <1>2, <1>3, <1>4 DEF After

LEMMA ItemSeen ==
    ASSUME TypeOK, FetchedInv, phase # "declare", NEW k \in 0..(Len(items) - 1), AtItem(k),
           pos < size, NEW item, item = items[k + 1]
    PROVE  Seen(k, item)
<1>. DEFINE len == Length(item)
<1>1. /\ item \in Items /\ len \in 1..5 /\ pos \in Nat /\ size \in Nat /\ Whole \in Nat
      /\ Offset(items, k) = pos /\ Offset(items, k + 1) = pos + len
      /\ \A i \in 1..len : pos + i <= size => Byte(pos + (i - 1)) = Encode(item)[i]
      /\ k < Whole => pos + len <= size
      /\ k >= Whole => k = Whole /\ pos + len > size
  BY BytesAt, FetchedFacts DEF AtItem
<1>2. item.kind \in Kinds /\ item.page \in 0..255 /\ item.usage \in 0..255
  BY <1>1, UsageAssumption
<1>3. Key(pos) = Encode(item)[1]
  <2>1. 1 \in 1..len /\ pos + 1 <= size /\ pos + (1 - 1) = pos
    BY <1>1
  <2>. QED BY <1>1, <2>1 DEF Key
<1>4. Whole \in Nat /\ k \in Nat /\ (k < Whole \/ k >= Whole)
  BY <1>1
<1>5. CASE item.kind = "page"
  <2>1. Encode(item) = <<5, item.page>> /\ len = 2
    BY <1>5 DEF Encode, Length
  <2>2. Key(pos) = 5
    BY <1>3, <2>1
  <2>3. Command(pos) = 4 /\ DataLength(pos) = 1 /\ After(pos) = pos + 2
    BY <1>1, <2>2, ShortSeen
  <2>4. k < Whole => get_bytes(pos, 1) = item.page
    <3>. SUFFICES ASSUME k < Whole PROVE get_bytes(pos, 1) = item.page
      OBVIOUS
    <3>1. pos + 2 <= size /\ 2 \in 1..len /\ pos + (2 - 1) = pos + 1
      BY <1>1, <2>1
    <3>2. Byte(pos + 1) = Encode(item)[2]
      BY <1>1, <3>1
    <3>3. Byte(pos + 1) = item.page
      BY <2>1, <3>2
    <3>. HIDE DEF size
    <3>. QED BY <1>1, <3>1, <3>3 DEF get_bytes
  <2>. QED BY <1>1, <1>4, <1>5, <2>1, <2>3, <2>4 DEF Seen, PageItem, UsageItem, CollectionItem, EndItem
<1>6. CASE item.kind = "wide_page"
  <2>1. Encode(item) = <<6, item.page, 0>> /\ len = 3
    BY <1>6 DEF Encode, Length
  <2>2. Key(pos) = 6
    BY <1>3, <2>1
  <2>3. Command(pos) = 4 /\ DataLength(pos) = 2 /\ After(pos) = pos + 3
    BY <1>1, <2>2, ShortSeen
  <2>4. k < Whole => get_bytes(pos, 2) = item.page
    <3>. SUFFICES ASSUME k < Whole PROVE get_bytes(pos, 2) = item.page
      OBVIOUS
    <3>1. pos + 3 <= size /\ 2 \in 1..len /\ 3 \in 1..len /\ pos + (2 - 1) = pos + 1
          /\ pos + (3 - 1) = pos + 2 /\ pos + 2 <= size
      BY <1>1, <2>1
    <3>2. Byte(pos + 1) = Encode(item)[2] /\ Byte(pos + 2) = Encode(item)[3]
      BY <1>1, <3>1
    <3>3. Byte(pos + 1) = item.page /\ Byte(pos + 2) = 0
      BY <2>1, <3>2
    <3>. HIDE DEF size
    <3>. QED BY <1>1, <1>2, <3>1, <3>3, TwoBytes
  <2>. QED BY <1>1, <1>4, <1>6, <2>1, <2>3, <2>4 DEF Seen, PageItem, UsageItem, CollectionItem, EndItem
<1>7. CASE item.kind = "usage"
  <2>1. Encode(item) = <<9, item.usage>> /\ len = 2
    BY <1>7 DEF Encode, Length
  <2>2. Key(pos) = 9
    BY <1>3, <2>1
  <2>3. Command(pos) = 8 /\ DataLength(pos) = 1 /\ After(pos) = pos + 2
    BY <1>1, <2>2, ShortSeen
  <2>4. k < Whole => get_bytes(pos, 1) = item.usage
    <3>. SUFFICES ASSUME k < Whole PROVE get_bytes(pos, 1) = item.usage
      OBVIOUS
    <3>1. pos + 2 <= size /\ 2 \in 1..len /\ pos + (2 - 1) = pos + 1
      BY <1>1, <2>1
    <3>2. Byte(pos + 1) = Encode(item)[2]
      BY <1>1, <3>1
    <3>3. Byte(pos + 1) = item.usage
      BY <2>1, <3>2
    <3>. HIDE DEF size
    <3>. QED BY <1>1, <3>1, <3>3 DEF get_bytes
  <2>. QED BY <1>1, <1>4, <1>7, <2>1, <2>3, <2>4 DEF Seen, PageItem, UsageItem, CollectionItem, EndItem
<1>8. CASE item.kind = "page_and_usage"
  <2>1. Encode(item) = <<11, item.usage, 0, item.page, 0>> /\ len = 5
    BY <1>8 DEF Encode, Length
  <2>2. Key(pos) = 11
    BY <1>3, <2>1
  <2>3. Command(pos) = 8 /\ DataLength(pos) = 4 /\ After(pos) = pos + 5
    BY <1>1, <2>2, ShortSeen
  <2>4. k < Whole => get_bytes(pos, 2) = item.usage /\ get_bytes(pos + 2, 2) = item.page
    <3>. SUFFICES ASSUME k < Whole
                  PROVE  get_bytes(pos, 2) = item.usage /\ get_bytes(pos + 2, 2) = item.page
      OBVIOUS
    <3>1. /\ pos + 5 <= size /\ pos + 2 <= size /\ pos + 3 <= size /\ pos + 4 <= size
          /\ 2 \in 1..len /\ 3 \in 1..len /\ 4 \in 1..len /\ 5 \in 1..len
          /\ pos + (2 - 1) = pos + 1 /\ pos + (3 - 1) = pos + 2
          /\ pos + (4 - 1) = pos + 3 /\ pos + (5 - 1) = pos + 4
      BY <1>1, <2>1
    <3>2. /\ Byte(pos + 1) = Encode(item)[2] /\ Byte(pos + 2) = Encode(item)[3]
          /\ Byte(pos + 3) = Encode(item)[4] /\ Byte(pos + 4) = Encode(item)[5]
      BY <1>1, <3>1
    <3>3. /\ Byte(pos + 1) = item.usage /\ Byte(pos + 2) = 0
          /\ Byte(pos + 3) = item.page /\ Byte(pos + 4) = 0
      BY <2>1, <3>2
    <3>4. (pos + 2) + 1 = pos + 3 /\ (pos + 2) + 2 = pos + 4
      BY <1>1
    <3>. HIDE DEF size
    <3>5. get_bytes(pos, 2) = item.usage
      BY <1>1, <1>2, <3>1, <3>3, TwoBytes
    <3>6. get_bytes(pos + 2, 2) = item.page
      <4>. DEFINE q == pos + 2
      <4>1. q \in Nat /\ q + 3 <= size
        BY <1>1, <3>1
      <4>2. Byte(q + 1) = item.page /\ Byte(q + 2) = 0
        BY <3>3, <3>4
      <4>. HIDE DEF q
      <4>3. get_bytes(q, 2) = item.page
        BY <1>1, <1>2, <4>1, <4>2, TwoBytes
      <4>. QED BY <4>3 DEF q
    <3>. QED BY <3>5, <3>6
  <2>. QED BY <1>1, <1>4, <1>8, <2>1, <2>3, <2>4 DEF Seen, PageItem, UsageItem, CollectionItem, EndItem
<1>9. CASE item.kind = "field"
  <2>1. Encode(item) = <<129, 2>> /\ len = 2
    BY <1>9 DEF Encode, Length
  <2>2. Key(pos) = 129
    BY <1>3, <2>1
  <2>3. Command(pos) = 128 /\ DataLength(pos) = 1 /\ After(pos) = pos + 2
    BY <1>1, <2>2, ShortSeen
  <2>. QED BY <1>1, <1>4, <1>9, <2>1, <2>3 DEF Seen, PageItem, UsageItem, CollectionItem, EndItem
<1>10. CASE item.kind = "collection"
  <2>1. Encode(item) = <<161, 1>> /\ len = 2
    BY <1>10 DEF Encode, Length
  <2>2. Key(pos) = 161
    BY <1>3, <2>1
  <2>3. Command(pos) = 160 /\ DataLength(pos) = 1 /\ After(pos) = pos + 2
    BY <1>1, <2>2, ShortSeen
  <2>. QED BY <1>1, <1>4, <1>10, <2>1, <2>3 DEF Seen, PageItem, UsageItem, CollectionItem, EndItem
<1>11. CASE item.kind = "end"
  <2>1. Encode(item) = <<192>> /\ len = 1
    BY <1>11 DEF Encode, Length
  <2>2. Key(pos) = 192
    BY <1>3, <2>1
  <2>3. Command(pos) = 192 /\ DataLength(pos) = 0 /\ After(pos) = pos + 1
    BY <1>1, <2>2, ShortSeen
  <2>4. k < Whole
    BY <1>1, <1>4, <2>1
  <2>. QED BY <1>1, <1>4, <1>11, <2>1, <2>3, <2>4 DEF Seen, PageItem, UsageItem, CollectionItem, EndItem
<1>12. CASE item.kind = "long"
  <2>1. Encode(item) = <<254, 2, 0, 9, 161>> /\ len = 5
    BY <1>12 DEF Encode, Length
  <2>2. Key(pos) = 254 /\ IsLong(pos)
    BY <1>3, <2>1 DEF IsLong
  <2>3. Command(pos) = 252 /\ ShortLength(pos) = 2
    BY <2>2 DEF Command, ShortLength
  <2>4. CASE pos + 1 < size
    <3>1. 2 \in 1..len /\ pos + 2 <= size /\ pos + (2 - 1) = pos + 1
      BY <1>1, <2>1, <2>4
    <3>2. Byte(pos + 1) = Encode(item)[2]
      BY <1>1, <3>1
    <3>3. Byte(pos + 1) = 2
      BY <2>1, <3>2
    <3>. HIDE DEF size
    <3>4. DataLength(pos) = 2 /\ KeySize(pos) = 3
      BY <2>2, <2>4, <3>3 DEF DataLength, KeySize
    <3>5. After(pos) = pos + 5
      BY <1>1, <3>4 DEF After
    <3>. QED BY <1>1, <1>4, <1>12, <2>1, <2>3, <3>5 DEF Seen, PageItem, UsageItem, CollectionItem, EndItem
  <2>5. CASE ~(pos + 1 < size)
    <3>. HIDE DEF size
    <3>1. k >= Whole
      BY <1>1, <1>4, <2>1, <2>5
    <3>2. After(pos) = pos + 3
      <4>1. CASE backend = "libusb"
        BY <1>1, <2>2, <2>3, <2>5, <4>1 DEF DataLength, KeySize, After
      <4>2. CASE backend # "libusb"
        BY <1>1, <2>2, <2>3, <2>5, <4>2 DEF DataLength, KeySize, After
      <4>. QED BY <4>1, <4>2
    <3>. QED BY <1>1, <1>4, <1>12, <2>1, <2>3, <2>5, <3>1, <3>2
             DEF Seen, PageItem, UsageItem, CollectionItem, EndItem
  <2>. QED BY <2>4, <2>5
<1>. QED BY <1>2, <1>5, <1>6, <1>7, <1>8, <1>9, <1>10, <1>11, <1>12 DEF Kinds

-----------------------------------------------------------------------------
(***************************************************************************)
(* The host from item to item.                                             *)
(***************************************************************************)
LEMMA NextReading ==
    ASSUME TypeOK, DepthInv, NEW k \in 0..(Len(items) - 1)
    PROVE  /\ items[k + 1] \in Items
           /\ Readings(items)[k] \in Hosts /\ Readings(items)[k + 1] \in Hosts
           /\ Readings(items)[k + 1] = ReadItem(Readings(items)[k], items[k + 1])
           /\ Readings(items)[k].depth >= 0 /\ Readings(items)[k + 1].depth >= 0
<1>1. items \in Seq(Items) /\ Len(items) \in Nat
  BY DEF TypeOK
<1>2. k \in 0..Len(items) /\ k + 1 \in 0..Len(items) /\ k + 1 \in 1..Len(items)
  BY <1>1
<1>3. items[k + 1] \in Items
  BY <1>1, <1>2
<1>. QED BY <1>1, <1>2, <1>3, ReadingsType, ReadingsFacts DEF DepthInv

(* A usage that opens a collection, and the page it is in. *)
LEMMA PairFacts ==
    ASSUME NEW h \in Hosts, HasPair(h)
    PROVE  /\ h.usages # <<>> /\ LastUsage(h) = h.usages[1] /\ LastUsage(h) \in Items
           /\ LastUsage(h).kind \in {"usage", "page_and_usage"} /\ h.from = LastUsage(h).kind
           /\ PairOf(h) = <<IF h.from = "usage" THEN h.page ELSE LastUsage(h).page, LastUsage(h).usage>>
           /\ PairOf(h) \in Pairs
<1>1. h.usages # <<>>
  BY DEF HasPair
<1>2. /\ LastUsage(h) = h.usages[1] /\ LastUsage(h) \in Items
      /\ LastUsage(h).page \in Nat /\ LastUsage(h).usage \in Nat
  BY <1>1, LastUsageFacts DEF HasPair
<1>3. h.from = LastUsage(h).kind /\ h.from \in Froms /\ h.page \in Nat
  BY <1>2 DEF HasPair, Hosts
<1>4. LastUsage(h).kind \in Kinds
  BY <1>2, UsageAssumption
<1>5. LastUsage(h).kind \in {"usage", "page_and_usage"}
  BY <1>3, <1>4 DEF Froms, NoPage, Kinds
<1>6. PairOf(h) = <<IF h.from = "usage" THEN h.page ELSE LastUsage(h).page, LastUsage(h).usage>>
  BY <1>2, <1>3 DEF PairOf, InForce
<1>7. PairOf(h) \in Pairs
  BY <1>2, <1>3, <1>6 DEF Pairs
<1>. QED BY <1>1, <1>2, <1>3, <1>5, <1>6, <1>7

(* The host has found p first, as get_usage did: it belongs to a usage that*)
(* stands before the first collection, or to that collection.              *)
FirstPair(h, p) ==
    h.regular /\ h.settled =>
        \/ /\ h.collections = 0 /\ h.depth = 0 /\ h.closed = <<>>
           /\ h.usages # <<>> /\ h.from # NoPage
           /\ Len(h.usages) = 1 => PairOf(h) = p
        \/ /\ h.collections > 0 /\ h.closed = <<>> /\ h.opened = p /\ h.depth > 0
        \/ /\ h.collections > 0 /\ h.closed # <<>> /\ h.closed[1] = p

LEMMA FirstPairKept ==
    ASSUME NEW h \in Hosts, NEW item \in Items, NEW p, FirstPair(h, p),
           NEW g, g = ReadItem(h, item), g.depth >= 0
    PROVE  FirstPair(g, p)
<1>1. item.kind \in Kinds
  BY UsageAssumption
<1>2. h.depth \in Int /\ h.collections \in Nat /\ h.closed \in Seq(Opens) /\ h.opened \in Opens
  BY DEF Hosts
<1>. DEFINE Before(x) == /\ x.collections = 0 /\ x.depth = 0 /\ x.closed = <<>>
                         /\ x.usages # <<>> /\ x.from # NoPage
                         /\ Len(x.usages) = 1 => PairOf(x) = p
            Within(x) == x.collections > 0 /\ x.closed = <<>> /\ x.opened = p /\ x.depth > 0
            Behind(x) == x.collections > 0 /\ x.closed # <<>> /\ x.closed[1] = p
<1>3. SUFFICES ASSUME g.regular, g.settled PROVE Before(g) \/ Within(g) \/ Behind(g)
  BY DEF FirstPair
<1>4. Before(h) \/ Within(h) \/ Behind(h)
  BY <1>3, ReadItemFacts DEF FirstPair
<1>5. CASE item.kind \in {"page", "wide_page"}
  <2>1. ~Before(h)
    BY <1>3, <1>5, PageRead
  <2>2. g.collections = h.collections /\ g.closed = h.closed /\ g.opened = h.opened /\ g.depth = h.depth
    BY <1>5, PageRead
  <2>. QED BY <1>4, <2>1, <2>2
<1>6. CASE item.kind \in {"usage", "page_and_usage"}
  <2>1. /\ g.collections = h.collections /\ g.closed = h.closed /\ g.opened = h.opened
        /\ g.depth = h.depth /\ g.usages # <<>> /\ Len(g.usages) = Len(h.usages) + 1
        /\ g.from = (IF h.depth = 0 /\ item.kind = "page_and_usage" THEN item.kind ELSE h.from)
    BY <1>6, UsageRead
  <2>2. Before(h) => Len(h.usages) \in Nat \ {0}
    BY LastUsageFacts
  <2>3. Before(h) => Before(g)
    BY <2>1, <2>2 DEF NoPage
  <2>. QED BY <1>4, <2>1, <2>3
<1>7. CASE item.kind = "collection"
  <2>1. /\ g.closed = h.closed /\ g.depth = h.depth + 1
        /\ g.opened = (IF h.depth = 0 /\ HasPair(h) THEN PairOf(h) ELSE h.opened)
        /\ g.collections = (IF h.depth = 0 THEN h.collections + 1 ELSE h.collections)
        /\ h.depth = 0 => HasPair(h)
    BY <1>3, <1>7, CollectionRead
  <2>2. CASE Before(h)
    <3>1. HasPair(h) /\ PairOf(h) = p
      BY <2>1, <2>2 DEF HasPair
    <3>. QED BY <1>2, <2>1, <2>2, <3>1
  <2>3. CASE Within(h)
    BY <1>2, <2>1, <2>3
  <2>4. CASE Behind(h)
    BY <1>2, <2>1, <2>4
  <2>. QED BY <1>4, <2>2, <2>3, <2>4
<1>8. CASE item.kind = "end"
  <2>1. /\ g.depth = h.depth - 1 /\ g.opened = h.opened /\ g.collections = h.collections
        /\ g.closed = (IF h.depth = 1 THEN Append(h.closed, h.opened) ELSE h.closed)
    BY <1>8, EndRead
  <2>2. ~Before(h)
    BY <2>1
  <2>3. CASE Within(h)
    <3>1. h.depth = 1 => g.closed # <<>> /\ g.closed[1] = p
      BY <1>2, <2>1, <2>3
    <3>2. h.depth # 1 => g.closed = <<>> /\ g.depth > 0
      BY <1>2, <2>1, <2>3
    <3>. QED BY <2>1, <2>3, <3>1, <3>2
  <2>4. CASE Behind(h)
    <3>1. Append(h.closed, h.opened) # <<>> /\ Append(h.closed, h.opened)[1] = p
      BY <1>2, <2>4
    <3>. QED BY <2>1, <2>4, <3>1
  <2>. QED BY <1>4, <2>2, <2>3, <2>4
<1>9. CASE item.kind = "field"
  <2>1. /\ g.collections = h.collections /\ g.closed = h.closed /\ g.opened = h.opened
        /\ g.depth = h.depth /\ h.depth > 0
    BY <1>3, <1>9, FieldRead
  <2>. QED BY <1>4, <2>1
<1>10. CASE item.kind = "long"
  BY <1>4, <1>10, LongRead
<1>. QED BY <1>1, <1>5, <1>6, <1>7, <1>8, <1>9, <1>10 DEF Kinds

LEMMA FirstPairLasts ==
    ASSUME TypeOK, DepthInv, FetchedInv, phase # "declare", NEW k \in 0..Whole, NEW p,
           FirstPair(Readings(items)[k], p)
    PROVE  FirstPair(Host, p)
<1>. DEFINE T == {j \in 0..Whole : FirstPair(Readings(items)[j], p)}
<1>1. Whole \in 0..Len(items) /\ Len(items) \in Nat /\ k \in T
  BY FetchedFacts
<1>2. ASSUME NEW j \in k..(Whole - 1), j \in T PROVE j + 1 \in T
  <2>1. j \in 0..(Len(items) - 1) /\ j + 1 \in 0..Whole /\ FirstPair(Readings(items)[j], p)
    BY <1>1, <1>2
  <2>2. FirstPair(Readings(items)[j + 1], p)
    BY <2>1, NextReading, FirstPairKept
  <2>. QED BY <2>1, <2>2
<1>3. Whole \in T
  <2>1. k \in Nat /\ Whole \in Nat /\ k <= Whole
    BY <1>1
  <2>. HIDE DEF T
  <2>. QED BY <1>1, <1>2, <2>1, SetInductionFrom
<1>. QED BY <1>3 DEF Host

-----------------------------------------------------------------------------
(***************************************************************************)
(* A step of the walk.                                                     *)
(***************************************************************************)
LEMMA Frame ==
    ASSUME IInv, phase # "declare", phase' # "declare", UNCHANGED <<backend, items, report_descriptor>>
    PROVE  /\ size' = size /\ Cut' = Cut /\ Whole' = Whole /\ Host' = Host
           /\ DeclareInv' /\ DepthInv' /\ FetchedInv'
<1>1. size' = size /\ Bytes' = Bytes
  BY DEF size, Bytes
<1>2. Cut' = Cut
  BY <1>1 DEF Cut
<1>3. Whole' = Whole
  BY <1>2 DEF Whole
<1>4. Host' = Host
  BY <1>3 DEF Host
<1>5. DeclareInv' /\ DepthInv'
  BY DEF DeclareInv, DepthInv, IInv
<1>6. FetchedInv'
  BY <1>1 DEF FetchedInv, IInv
<1>. QED BY <1>1, <1>2, <1>3, <1>4, <1>5, <1>6

(* The item the walk is at, and what the host knows before and after it. *)
Here(k, item, h, g) ==
    /\ k \in 0..(Len(items) - 1) /\ k \in 0..Whole /\ AtItem(k)
    /\ item = items[k + 1] /\ Seen(k, item)
    /\ h = Readings(items)[k] /\ g = Readings(items)[k + 1]
    /\ g = ReadItem(h, item) /\ h.depth >= 0 /\ g.depth >= 0
    /\ Agree(k, h)

LEMMA AtSomeItem ==
    ASSUME IInv, phase \in {"walk", "collection"}, pos < size
    PROVE  \E k \in Nat, item \in Items, h \in Hosts, g \in Hosts : Here(k, item, h, g)
<1>1. phase # "declare"
  OBVIOUS
<1>2. PICK k \in 0..Whole : (AtItem(k) \/ Past(k)) /\ Agree(k, Readings(items)[k])
  BY DEF IInv, WalkInv
<1>3. AtItem(k) /\ k \in 0..(Len(items) - 1)
  BY <1>1, <1>2, NotAtEnd DEF IInv
<1>4. Seen(k, items[k + 1])
  BY <1>1, <1>3, ItemSeen DEF IInv
<1>5. /\ items[k + 1] \in Items
      /\ Readings(items)[k] \in Hosts /\ Readings(items)[k + 1] \in Hosts
      /\ Readings(items)[k + 1] = ReadItem(Readings(items)[k], items[k + 1])
      /\ Readings(items)[k].depth >= 0 /\ Readings(items)[k + 1].depth >= 0
  BY <1>3, NextReading DEF IInv
<1>6. k \in Nat
  BY <1>3
<1>7. Here(k, items[k + 1], Readings(items)[k], Readings(items)[k + 1])
  BY <1>2, <1>3, <1>4, <1>5 DEF Here
<1>. QED BY <1>5, <1>6, <1>7

(* What is known of the walk at an item, if the descriptor is regular. *)
LEMMA Known ==
    ASSUME IInv, phase \in {"walk", "collection"}, pos < size,
           NEW k \in Nat, NEW item, NEW h, NEW g, Here(k, item, h, g), h.regular
    PROVE  /\ backend = "libusb" => phase = "walk" /\ HalfFound(h)
           /\ backend # "libusb" /\ phase = "walk" =>
                  Outside(h) \/ (AtEnd(h) /\ k < Whole /\ item.kind = "end")
           /\ backend # "libusb" /\ phase = "collection" =>
                  Inside(h) \/ (Outside(h) /\ level = 0 /\ item.kind = "collection")
<1>1. pos \in Nat /\ size \in Nat
  BY FetchedFacts DEF IInv, TypeOK
<1>2. ~Past(k)
  BY <1>1 DEF Past
<1>3. backend = "libusb" => phase = "walk" /\ HalfFound(h)
  BY <1>2 DEF Agree, GetUsageInv, Here
<1>4. backend # "libusb" => IteratorInv(k, h)
  BY DEF Agree, Here
<1>. QED BY <1>2, <1>3, <1>4 DEF IteratorInv, Here

(* The walk goes on behind the item. *)
LEMMA GoesOn ==
    ASSUME IInv, phase # "declare", UNCHANGED <<backend, items, report_descriptor>>,
           NEW k \in Nat, NEW item, NEW h, NEW g, Here(k, item, h, g), pos' = After(pos),
           Whole' = Whole, Cut' = Cut, size' = size,
           k < Whole /\ g.regular =>
               IF backend = "libusb" THEN phase' = "walk" /\ HalfFound(g)'
               ELSE (phase' = "walk" /\ Outside(g)') \/ (phase' = "collection" /\ Inside(g)'),
           k >= Whole /\ h.regular =>
               IF backend = "libusb" THEN phase' = "walk" /\ h.collections = 0
               ELSE /\ list' = h.closed
                    /\ \/ phase' = "walk" /\ h.collections = Len(h.closed) /\ (initial' <=> h.closed = <<>>)
                       \/ phase' = "collection"
    PROVE  WalkInv'
<1>1. Whole \in 0..Len(items) /\ Len(items) \in Nat
  BY FetchedFacts DEF IInv
<1>2. CASE k < Whole
  <2>1. k + 1 \in 0..Whole /\ AtItem(k + 1)'
    <3>1. pos' = Offset(items, k + 1)
      BY <1>2 DEF Seen, Here
    <3>. QED BY <1>1, <1>2, <3>1 DEF AtItem
  <2>2. Agree(k + 1, g)'
    BY <1>2, <2>1 DEF Agree, GetUsageInv, IteratorInv
  <2>3. g = Readings(items')[k + 1]
    BY DEF Here
  <2>. QED BY <2>1, <2>2, <2>3 DEF WalkInv
<1>3. CASE ~(k < Whole)
  <2>1. k \in 0..Whole /\ Past(k)'
    <3>1. pos' >= size /\ k = Whole /\ Cut
      BY <1>1, <1>3, FetchedFacts DEF Seen, IInv, Here
    <3>. QED BY <1>1, <1>3, <3>1 DEF Past
  <2>2. Agree(k, h)'
    BY <1>1, <1>3, <2>1 DEF Agree, GetUsageInv, IteratorInv
  <2>3. h = Readings(items')[k]
    BY DEF Here
  <2>. QED BY <2>1, <2>2, <2>3 DEF WalkInv
<1>. QED BY <1>2, <1>3

LEMMA ContinueType ==
    ASSUME TypeOK, phase = "walk", After(pos) \in Nat, Continue,
           page' \in Nat, usage' \in Nat, page_found' \in BOOLEAN, usage_found' \in BOOLEAN
    PROVE  TypeOK' /\ phase' # "declare" /\ UNCHANGED <<backend, items, report_descriptor>>
<1>1. CASE backend = "libusb" /\ page_found' /\ usage_found'
  <2>1. /\ phase' = "done" /\ list' = <<<<page', usage'>>>>
        /\ UNCHANGED <<backend, items, report_descriptor, pos, initial, level>>
    BY <1>1 DEF Continue
  <2>2. <<page', usage'>> \in Pairs
    BY DEF Pairs
  <2>3. list' \in Seq(Pairs)
    <3>. DEFINE p == <<page', usage'>>
    <3>1. p \in Pairs /\ list' = <<p>>
      BY <2>1, <2>2
    <3>. HIDE DEF p
    <3>. QED BY <3>1
  <2>. QED BY <2>1, <2>3 DEF TypeOK
<1>2. CASE ~(backend = "libusb" /\ page_found' /\ usage_found')
  <2>1. /\ pos' = After(pos)
        /\ UNCHANGED <<backend, items, report_descriptor, phase, initial, level, list>>
    BY <1>2 DEF Continue
  <2>. QED BY <2>1 DEF TypeOK
<1>. QED BY <1>1, <1>2

(* get_usage is done with the pair of this item. *)
LEMMA LibusbDone ==
    ASSUME IInv, phase # "declare", UNCHANGED <<backend, items, report_descriptor>>,
           Whole' = Whole, Cut' = Cut, Host' = Host,
           backend = "libusb", phase' = "done", NEW p, list' = <<p>>,
           NEW k \in Nat, NEW item, NEW h, NEW g, Here(k, item, h, g),
           IF k < Whole THEN FirstPair(g, p) ELSE h.regular => h.collections = 0
    PROVE  UsagesFound'
<1>0. /\ Whole \in 0..Len(items) /\ Len(items) \in Nat /\ (Whole < Len(items) => Cut)
      /\ k \in 0..(Len(items) - 1) /\ k \in 0..Whole
      /\ h = Readings(items)[k] /\ g = Readings(items)[k + 1]
  BY FetchedFacts DEF IInv, Here
<1>1. CASE k < Whole
  <2>1. k + 1 \in 0..Whole
    BY <1>0, <1>1
  <2>2. FirstPair(Host, p)
    BY <1>0, <1>1, <2>1, FirstPairLasts DEF IInv
  <2>. QED BY <2>2 DEF UsagesFound, FirstPair, HasPair
<1>2. CASE ~(k < Whole)
  <2>1. k = Whole /\ Cut /\ Host = h
    BY <1>0, <1>2 DEF Host
  <2>. QED BY <1>2, <2>1 DEF UsagesFound
<1>. QED BY <1>1, <1>2

LEMMA TakePageKeeps ==
    ASSUME IInv, TakePage
    PROVE  IInv'
<1>1. phase = "walk" /\ pos < size /\ Command(pos) = PageItem /\ page' = get_bytes(pos, DataLength(pos))
      /\ page_found' = TRUE /\ UNCHANGED <<usage_found, usage>> /\ Continue
  BY DEF TakePage, Turn
<1>2. PICK k \in Nat, item \in Items, h \in Hosts, g \in Hosts : Here(k, item, h, g)
  BY <1>1, AtSomeItem
<1>3. /\ item.kind \in {"page", "wide_page"} /\ DataLength(pos) \in {1, 2, 4} /\ After(pos) \in Nat
      /\ k < Whole => page' = item.page
  BY <1>1, <1>2 DEF Here, Seen
<1>4. page' \in Nat
  BY <1>1, <1>3, ValueType DEF IInv, TypeOK
<1>5. TypeOK' /\ phase' # "declare" /\ UNCHANGED <<backend, items, report_descriptor>>
  BY <1>1, <1>3, <1>4, ContinueType DEF IInv, TypeOK
<1>6. /\ Whole' = Whole /\ Cut' = Cut /\ Host' = Host /\ size' = size
      /\ DeclareInv' /\ DepthInv' /\ FetchedInv'
  BY <1>1, <1>5, Frame
<1>7. /\ g.page = item.page /\ g.from = (IF h.depth = 0 THEN "usage" ELSE NoPage)
      /\ g.usages = h.usages /\ g.depth = h.depth /\ g.opened = h.opened /\ g.closed = h.closed
      /\ g.collections = h.collections /\ g.regular = h.regular
  BY <1>2, <1>3, PageRead DEF Here
<1>8. h.regular => IF backend = "libusb" THEN HalfFound(h) ELSE Outside(h)
  BY <1>1, <1>2, <1>3, Known
<1>9. CASE backend = "libusb" /\ usage_found
  <2>. DEFINE p == <<page', usage'>>
  <2>1. phase' = "done" /\ list' = <<p>>
    BY <1>1, <1>9 DEF Continue
  <2>2. CASE k < Whole
    <3>1. SUFFICES ASSUME g.regular, g.settled PROVE FirstPair(g, p)
      BY <1>1, <1>2, <1>5, <1>6, <1>9, <2>1, <2>2, LibusbDone DEF FirstPair, WalkInv, IInv
    <3>2. HalfFound(h)
      BY <1>7, <1>8, <1>9, <3>1
    <3>3. /\ h.usages # <<>> /\ h.usages[1].kind = "usage" /\ usage = LastUsage(h).usage
          /\ h.depth = 0 /\ h.collections = 0 /\ h.closed = <<>>
      BY <1>9, <3>2 DEF HalfFound
    <3>4. Len(g.usages) = 1 => PairOf(g) = p
      BY <1>1, <1>3, <1>7, <2>2, <3>3 DEF PairOf, InForce, LastUsage
    <3>. QED BY <1>7, <3>3, <3>4 DEF FirstPair, NoPage
  <2>3. CASE ~(k < Whole)
    BY <1>1, <1>2, <1>5, <1>6, <1>8, <1>9, <2>1, <2>3, LibusbDone DEF HalfFound, WalkInv, IInv
  <2>. QED BY <2>2, <2>3
<1>10. CASE ~(backend = "libusb" /\ usage_found)
  <2>1. pos' = After(pos) /\ UNCHANGED <<phase, initial, level, list>>
    BY <1>1, <1>10 DEF Continue
  <2>2. ASSUME k < Whole, g.regular, backend = "libusb" PROVE HalfFound(g)'
    BY <1>1, <1>3, <1>7, <1>8, <1>10, <2>2 DEF HalfFound, LastUsage, NoPage
  <2>3. ASSUME k < Whole, g.regular, backend # "libusb" PROVE Outside(g)'
    BY <1>1, <1>3, <1>7, <1>8, <2>1, <2>3 DEF Outside, PageKnown, LastUsage
  <2>4. ASSUME h.regular
        PROVE  IF backend = "libusb" THEN h.collections = 0
               ELSE list = h.closed /\ h.collections = Len(h.closed) /\ (initial <=> h.closed = <<>>)
    BY <1>8, <2>4 DEF HalfFound, Outside
  <2>5. WalkInv'
    BY <1>1, <1>2, <1>5, <1>6, <2>1, <2>2, <2>3, <2>4, GoesOn
  <2>. QED BY <1>1, <1>5, <1>6, <2>1, <2>5 DEF IInv, UsagesFound
<1>. QED BY <1>9, <1>10


LEMMA TakeUsageKeeps ==
    ASSUME IInv, TakeUsage
    PROVE  IInv'
<1>1. phase = "walk" /\ pos < size /\ Command(pos) = UsageItem /\ usage_found' = TRUE /\ Continue
  BY DEF TakeUsage, Turn
<1>2. PICK k \in Nat, item \in Items, h \in Hosts, g \in Hosts : Here(k, item, h, g)
  BY <1>1, AtSomeItem
<1>3. item.kind \in {"usage", "page_and_usage"} /\ After(pos) \in Nat
  BY <1>1, <1>2 DEF Here, Seen
<1>4. CASE item.kind = "usage"
  <2>1. usage' = get_bytes(pos, 1) /\ UNCHANGED <<page, page_found>>
    BY <1>2, <1>4 DEF TakeUsage, Here, Seen
  <2>2. k < Whole => usage' = item.usage
    BY <1>2, <1>4, <2>1 DEF Here, Seen
  <2>3. usage' \in Nat
    BY <2>1, ValueType DEF IInv, TypeOK
  <2>4. TypeOK' /\ phase' # "declare" /\ UNCHANGED <<backend, items, report_descriptor>>
    BY <1>1, <1>3, <2>1, <2>3, ContinueType DEF IInv, TypeOK
  <2>5. /\ Whole' = Whole /\ Cut' = Cut /\ Host' = Host /\ size' = size
        /\ DeclareInv' /\ DepthInv' /\ FetchedInv'
    BY <1>1, <2>4, Frame
  <2>6. /\ g.page = h.page /\ g.from = h.from /\ g.usages # <<>> /\ LastUsage(g) = item
        /\ Len(g.usages) = Len(h.usages) + 1
        /\ h.usages # <<>> => g.usages[1] = h.usages[1]
        /\ h.usages = <<>> => g.usages[1] = item
        /\ g.depth = h.depth /\ g.opened = h.opened /\ g.closed = h.closed
        /\ g.collections = h.collections /\ g.regular = h.regular
    <3>1. g.from = IF h.depth = 0 /\ item.kind = "page_and_usage" THEN item.kind ELSE h.from
      BY <1>2, <1>3, UsageRead DEF Here
    <3>. QED BY <1>2, <1>3, <1>4, <3>1, UsageRead, SMTT(30) DEF Here
  <2>7. h.regular => IF backend = "libusb" THEN HalfFound(h) ELSE Outside(h)
    BY <1>1, <1>2, <1>4, Known
  <2>8. CASE backend = "libusb" /\ page_found
    <3>. DEFINE p == <<page', usage'>>
    <3>1. phase' = "done" /\ list' = <<p>>
      BY <1>1, <2>1, <2>8 DEF Continue
    <3>2. CASE k < Whole
      <4>1. SUFFICES ASSUME g.regular, g.settled PROVE FirstPair(g, p)
        BY <1>1, <1>2, <2>4, <2>5, <2>8, <3>1, <3>2, LibusbDone DEF FirstPair, WalkInv, IInv
      <4>2. HalfFound(h)
        BY <2>6, <2>7, <2>8, <4>1
      <4>3. /\ h.usages = <<>> /\ h.from = "usage" /\ page = h.page
            /\ h.depth = 0 /\ h.collections = 0 /\ h.closed = <<>>
        BY <2>8, <4>2 DEF HalfFound
      <4>4. PairOf(g) = p
        BY <1>4, <2>1, <2>2, <2>6, <3>2, <4>3 DEF PairOf, InForce
      <4>. QED BY <2>6, <4>3, <4>4 DEF FirstPair, NoPage
    <3>3. CASE ~(k < Whole)
      BY <1>1, <1>2, <2>4, <2>5, <2>7, <2>8, <3>1, <3>3, LibusbDone DEF HalfFound, WalkInv, IInv
    <3>. QED BY <3>2, <3>3
  <2>9. CASE ~(backend = "libusb" /\ page_found)
    <3>1. pos' = After(pos) /\ UNCHANGED <<phase, initial, level, list>>
      BY <1>1, <2>1, <2>9 DEF Continue
    <3>2. ASSUME k < Whole, g.regular, backend = "libusb" PROVE HalfFound(g)'
      <4>1. HalfFound(h)
        BY <2>6, <2>7, <3>2
      <4>2. h.usages # <<>> => g.usages[1].kind = "usage"
        BY <2>6, <4>1 DEF HalfFound
      <4>. QED BY <1>1, <1>4, <2>1, <2>2, <2>6, <2>9, <3>2, <4>1, <4>2 DEF HalfFound, NoPage
    <3>3. ASSUME k < Whole, g.regular, backend # "libusb" PROVE Outside(g)'
      BY <1>1, <1>4, <2>1, <2>2, <2>6, <2>7, <3>1, <3>3 DEF Outside, PageKnown
    <3>4. ASSUME h.regular
          PROVE  IF backend = "libusb" THEN h.collections = 0
                 ELSE list = h.closed /\ h.collections = Len(h.closed) /\ (initial <=> h.closed = <<>>)
      BY <2>7, <3>4 DEF HalfFound, Outside
    <3>5. WalkInv'
      BY <1>1, <1>2, <2>4, <2>5, <3>1, <3>2, <3>3, <3>4, GoesOn
    <3>. QED BY <1>1, <2>4, <2>5, <3>1, <3>5 DEF IInv, UsagesFound
  <2>. QED BY <2>8, <2>9
<1>5. CASE item.kind = "page_and_usage"
  <2>1. /\ page' = get_bytes(pos + 2, 2) /\ page_found' = TRUE
        /\ usage' = get_bytes(pos, 2)
    BY <1>2, <1>5 DEF TakeUsage, Here, Seen
  <2>2. k < Whole => usage' = item.usage /\ page' = item.page
    BY <1>2, <1>5, <2>1 DEF Here, Seen
  <2>3. usage' \in Nat /\ page' \in Nat
    <3>1. pos \in Nat /\ pos + 2 \in Nat
      BY DEF IInv, TypeOK
    <3>. QED BY <2>1, <3>1, ValueType DEF IInv
  <2>4. TypeOK' /\ phase' # "declare" /\ UNCHANGED <<backend, items, report_descriptor>>
    BY <1>1, <1>3, <2>1, <2>3, ContinueType DEF IInv
  <2>5. /\ Whole' = Whole /\ Cut' = Cut /\ Host' = Host /\ size' = size
        /\ DeclareInv' /\ DepthInv' /\ FetchedInv'
    BY <1>1, <2>4, Frame
  <2>6. /\ g.page = h.page
        /\ g.from = (IF h.depth = 0 THEN "page_and_usage" ELSE h.from)
        /\ g.usages # <<>> /\ LastUsage(g) = item
        /\ Len(g.usages) = Len(h.usages) + 1
        /\ h.usages = <<>> => g.usages[1] = item
        /\ g.depth = h.depth /\ g.opened = h.opened /\ g.closed = h.closed
        /\ g.collections = h.collections /\ g.regular = h.regular
    BY <1>2, <1>5, UsageRead DEF Here
  <2>7. h.regular => IF backend = "libusb" THEN HalfFound(h) ELSE Outside(h)
    BY <1>1, <1>2, <1>5, Known
  <2>8. CASE backend = "libusb"
    <3>. DEFINE p == <<page', usage'>>
    <3>1. phase' = "done" /\ list' = <<p>>
      BY <1>1, <2>1, <2>8 DEF Continue
    <3>2. CASE k < Whole
      <4>1. SUFFICES ASSUME g.regular, g.settled PROVE FirstPair(g, p)
        BY <1>1, <1>2, <2>4, <2>5, <2>8, <3>1, <3>2, LibusbDone DEF FirstPair, WalkInv, IInv
      <4>2. h.depth = 0 /\ h.collections = 0 /\ h.closed = <<>>
        BY <2>6, <2>7, <2>8, <4>1 DEF HalfFound
      <4>3. Len(g.usages) = 1 => PairOf(g) = p
        <5>1. Len(g.usages) = 1 => h.usages = <<>>
          <6>1. h.usages # <<>> => Len(h.usages) \in Nat \ {0}
            BY LastUsageFacts
          <6>2. Len(g.usages) = Len(h.usages) + 1
            BY <2>6
          <6>3. \A n \in Nat \ {0} : n + 1 # 1
            OBVIOUS
          <6>. QED BY <6>1, <6>2, <6>3, Zenon
        <5>. QED BY <1>5, <2>2, <2>6, <3>2, <5>1 DEF PairOf, InForce
      <4>. QED BY <2>6, <4>2, <4>3 DEF FirstPair, NoPage
    <3>3. CASE ~(k < Whole)
      BY <1>1, <1>2, <2>4, <2>5, <2>7, <2>8, <3>1, <3>3, LibusbDone DEF HalfFound, WalkInv, IInv
    <3>. QED BY <3>2, <3>3
  <2>9. CASE backend # "libusb"
    <3>1. pos' = After(pos) /\ UNCHANGED <<phase, initial, level, list>>
      BY <1>1, <2>1, <2>9 DEF Continue
    <3>2. ASSUME k < Whole, g.regular PROVE Outside(g)'
      BY <1>1, <1>5, <2>1, <2>2, <2>6, <2>7, <2>9, <3>1, <3>2 DEF Outside, PageKnown
    <3>3. ASSUME h.regular
          PROVE  list = h.closed /\ h.collections = Len(h.closed) /\ (initial <=> h.closed = <<>>)
      BY <2>7, <2>9, <3>3 DEF Outside
    <3>4. WalkInv'
      BY <1>1, <1>2, <2>4, <2>5, <2>9, <3>1, <3>2, <3>3, GoesOn
    <3>. QED BY <1>1, <2>4, <2>5, <3>1, <3>4 DEF IInv, UsagesFound
  <2>. QED BY <2>8, <2>9
<1>. QED BY <1>3, <1>4, <1>5


LEMMA MeetCollectionKeeps ==
    ASSUME IInv, MeetCollection
    PROVE  IInv'
<1>1. /\ phase = "walk" /\ pos < size /\ Command(pos) = CollectionItem /\ backend # "libusb"
      /\ phase' = "collection" /\ level' = 0
      /\ UNCHANGED <<backend, items, report_descriptor, pos>>
      /\ UNCHANGED <<page_found, page, usage_found, usage, initial, list>>
  BY DEF MeetCollection, Turn, findVars
<1>2. PICK k \in Nat, item \in Items, h \in Hosts, g \in Hosts : Here(k, item, h, g)
  BY <1>1, AtSomeItem
<1>3. item.kind = "collection"
  BY <1>1, <1>2 DEF Here, Seen
<1>4. TypeOK'
  BY <1>1 DEF IInv, TypeOK
<1>5. /\ Whole' = Whole /\ Cut' = Cut /\ Host' = Host /\ size' = size
      /\ DeclareInv' /\ DepthInv' /\ FetchedInv'
  BY <1>1, Frame
<1>6. /\ k \in 0..(Len(items) - 1) /\ k \in 0..Whole /\ AtItem(k) /\ item = items[k + 1]
      /\ h = Readings(items)[k]
  BY <1>2 DEF Here
<1>7. h.regular => Outside(h)
  BY <1>1, <1>2, <1>3, Known
<1>8. Agree(k, h)'
  <2>1. h.regular => Outside(h)'
    BY <1>1, <1>7 DEF Outside, PageKnown
  <2>2. AtItem(k)' /\ k < Len(items') /\ items'[k + 1].kind = "collection"
    BY <1>1, <1>3, <1>6 DEF AtItem, IInv, TypeOK
  <2>. QED BY <1>1, <2>1, <2>2 DEF Agree, IteratorInv
<1>9. WalkInv'
  <2>1. h = Readings(items')[k] /\ k \in 0..Whole' /\ AtItem(k)'
    BY <1>1, <1>5, <1>6 DEF AtItem
  <2>. QED BY <1>8, <2>1 DEF WalkInv
<1>. QED BY <1>1, <1>4, <1>5, <1>9 DEF IInv, UsagesFound

LEMMA SkipItemKeeps ==
    ASSUME IInv, SkipItem
    PROVE  IInv'
<1>1. /\ phase = "walk" /\ pos < size /\ Command(pos) \notin {PageItem, UsageItem}
      /\ Command(pos) = CollectionItem => backend = "libusb"
      /\ UNCHANGED <<page_found, page, usage_found, usage>> /\ Continue
  BY DEF SkipItem, Turn
<1>2. PICK k \in Nat, item \in Items, h \in Hosts, g \in Hosts : Here(k, item, h, g)
  BY <1>1, AtSomeItem
<1>3. /\ After(pos) \in Nat /\ item.kind \in {"field", "collection", "end", "long"}
      /\ item.kind = "collection" => backend = "libusb"
      /\ item.kind = "end" => k < Whole
  <2>1. item.kind \in Kinds
    BY UsageAssumption
  <2>2. Seen(k, item)
    BY <1>2 DEF Here
  <2>3. item.kind \notin {"page", "wide_page", "usage", "page_and_usage"}
    BY <1>1, <2>2 DEF Seen
  <2>. QED BY <1>1, <2>1, <2>2, <2>3 DEF Seen, Kinds
<1>4. TypeOK' /\ phase' # "declare" /\ UNCHANGED <<backend, items, report_descriptor>>
  BY <1>1, <1>3, ContinueType DEF IInv, TypeOK
<1>5. /\ Whole' = Whole /\ Cut' = Cut /\ Host' = Host /\ size' = size
      /\ DeclareInv' /\ DepthInv' /\ FetchedInv'
  BY <1>1, <1>4, Frame
<1>6. h.regular =>
          IF backend = "libusb" THEN HalfFound(h)
          ELSE Outside(h) \/ (AtEnd(h) /\ k < Whole /\ item.kind = "end")
  BY <1>1, <1>2, Known
<1>7. g.regular => h.regular
  BY <1>2, ReadItemFacts DEF Here
<1>8. g = ReadItem(h, item) /\ g.depth >= 0
  BY <1>2 DEF Here
<1>9. CASE backend = "libusb" /\ page_found /\ usage_found
  <2>. DEFINE p == <<page', usage'>>
  <2>1. phase' = "done" /\ list' = <<p>>
    BY <1>1, <1>9 DEF Continue
  <2>2. ~h.regular /\ ~g.regular
    BY <1>6, <1>7, <1>9 DEF HalfFound
  <2>3. UsagesFound'
    BY <1>1, <1>2, <1>4, <1>5, <1>9, <2>1, <2>2, LibusbDone DEF FirstPair
  <2>. QED BY <1>4, <1>5, <2>1, <2>3 DEF IInv, WalkInv
<1>10. CASE ~(backend = "libusb" /\ page_found /\ usage_found)
  <2>1. pos' = After(pos) /\ UNCHANGED <<phase, initial, level, list>>
    BY <1>1, <1>10 DEF Continue
  <2>2. ASSUME g.regular, backend = "libusb" PROVE HalfFound(g)'
    <3>1. HalfFound(h)
      BY <1>6, <1>7, <2>2
    <3>2. h.depth = 0
      BY <3>1 DEF HalfFound
    <3>3. item.kind # "field"
      BY <1>8, <2>2, <3>2, FieldRead
    <3>4. item.kind # "collection"
      <4>1. ~HasPair(h)
        <5>. SUFFICES ASSUME HasPair(h) PROVE FALSE
          OBVIOUS
        <5>1. h.usages # <<>> /\ h.from \in {"usage", "page_and_usage"}
          BY PairFacts
        <5>. QED BY <3>1, <5>1 DEF HalfFound, NoPage
      <4>. QED BY <1>8, <2>2, <3>2, <4>1, CollectionRead
    <3>5. item.kind # "end"
      BY <1>8, <3>2, EndRead
    <3>6. g = h
      BY <1>3, <1>8, <3>3, <3>4, <3>5, LongRead
    <3>. QED BY <1>1, <3>1, <3>6 DEF HalfFound
  <2>3. ASSUME g.regular, backend # "libusb", Outside(h) PROVE Outside(g)'
    <3>1. h.depth = 0
      BY <2>3 DEF Outside
    <3>2. item.kind # "field"
      BY <1>8, <2>3, <3>1, FieldRead
    <3>3. item.kind # "end"
      BY <1>8, <3>1, EndRead
    <3>4. g = h
      BY <1>3, <1>8, <2>3, <3>2, <3>3, LongRead
    <3>. QED BY <1>1, <2>1, <2>3, <3>4 DEF Outside, PageKnown
  <2>4. ASSUME g.regular, backend # "libusb", AtEnd(h), item.kind = "end" PROVE Outside(g)'
    <3>1. /\ g.page = h.page /\ g.from = h.from /\ g.usages = <<>>
          /\ g.depth = h.depth - 1 /\ g.opened = h.opened
          /\ g.closed = (IF h.depth = 1 THEN Append(h.closed, h.opened) ELSE h.closed)
          /\ g.collections = h.collections
      BY <1>8, <2>4, EndRead
    <3>2. h.closed \in Seq(Opens) /\ h.opened \in Opens
      BY DEF Hosts
    <3>3. h.depth = 1 /\ list = Append(h.closed, h.opened) /\ h.collections = Len(h.closed) + 1
          /\ ~initial /\ ~usage_found /\ PageKnown(h)
      BY <2>4 DEF AtEnd
    <3>4. g.depth = 0 /\ list = g.closed /\ g.closed # <<>> /\ g.collections = Len(g.closed)
      BY <3>1, <3>2, <3>3
    <3>. QED BY <1>1, <2>1, <3>1, <3>3, <3>4 DEF Outside, PageKnown
  <2>5. ASSUME k >= Whole, h.regular
        PROVE  IF backend = "libusb" THEN h.collections = 0
               ELSE list = h.closed /\ h.collections = Len(h.closed) /\ (initial <=> h.closed = <<>>)
    <3>1. ~(k < Whole)
      BY <1>2, <2>5, FetchedFacts, <1>1 DEF IInv, Here
    <3>. QED BY <1>6, <2>5, <3>1 DEF HalfFound, Outside
  <2>6. g.regular => IF backend = "libusb" THEN HalfFound(g)' ELSE Outside(g)'
    BY <1>6, <1>7, <2>2, <2>3, <2>4
  <2>7. WalkInv'
    BY <1>1, <1>2, <1>4, <1>5, <2>1, <2>5, <2>6, GoesOn
  <2>. QED BY <1>1, <1>4, <1>5, <2>1, <2>7 DEF IInv, UsagesFound
<1>. QED BY <1>9, <1>10


(* The usage that opens a top-level collection is the one of the walk. *)
LEMMA PairSeen ==
    ASSUME TypeOK, NEW h \in Hosts, Outside(h), HasPair(h)
    PROVE  page_found /\ usage_found /\ PairOf(h) = <<page, usage>>
<1>1. /\ h.usages # <<>> /\ LastUsage(h).kind \in {"usage", "page_and_usage"}
      /\ h.from = LastUsage(h).kind
      /\ PairOf(h) = <<IF h.from = "usage" THEN h.page ELSE LastUsage(h).page, LastUsage(h).usage>>
  BY PairFacts
<1>2. usage_found /\ usage = LastUsage(h).usage
  BY <1>1 DEF Outside
<1>3. CASE h.from = "usage"
  <2>1. page_found /\ page = h.page
    BY <1>3 DEF Outside, PageKnown
  <2>. QED BY <1>1, <1>2, <1>3, <2>1
<1>4. CASE h.from = "page_and_usage"
  <2>1. page_found /\ page = LastUsage(h).page
    BY <1>1, <1>2, <1>4 DEF Outside
  <2>. QED BY <1>1, <1>2, <1>4, <2>1
<1>. QED BY <1>1, <1>3, <1>4

LEMMA IterateKeeps ==
    ASSUME IInv, IterateOverCollection
    PROVE  IInv'
<1>1. /\ phase = "collection" /\ pos < size /\ level' = Level
      /\ phase' = (IF level' = 0 THEN "walk" ELSE phase)
      /\ UNCHANGED <<backend, items, report_descriptor>> /\ UNCHANGED <<page_found, page, usage>>
      /\ phase' # "declare" /\ phase' # "done"
  BY DEF IterateOverCollection
<1>2. PICK k \in Nat, item \in Items, h \in Hosts, g \in Hosts : Here(k, item, h, g)
  BY <1>1, AtSomeItem
<1>3. item.kind \in Kinds /\ g = ReadItem(h, item) /\ g.depth >= 0 /\ (g.regular => h.regular)
  BY <1>2, UsageAssumption, ReadItemFacts DEF Here
<1>4. /\ After(pos) \in Nat /\ (item.kind = "end" => k < Whole)
      /\ level' = (IF item.kind = "collection" THEN level + 1
                   ELSE IF item.kind = "end" THEN level - 1 ELSE level)
  <2>1. Seen(k, item)
    BY <1>2 DEF Here
  <2>2. Command(pos) = CollectionItem => Command(pos) # EndItem
    BY DEF CollectionItem, EndItem
  <2>. QED BY <1>1, <2>1, <2>2 DEF Seen, Level
<1>5. /\ Whole' = Whole /\ Cut' = Cut /\ Host' = Host /\ size' = size
      /\ DeclareInv' /\ DepthInv' /\ FetchedInv'
  BY <1>1, Frame
<1>6. level \in Int /\ level' \in Int /\ list \in Seq(Pairs)
  BY <1>4 DEF IInv, TypeOK
<1>7. k >= Whole => ~(k < Whole)
  BY <1>1, <1>2, FetchedFacts DEF IInv, Here
<1>8. h.regular => /\ backend # "libusb"
                   /\ Inside(h) \/ (Outside(h) /\ level = 0 /\ item.kind = "collection")
  BY <1>1, <1>2, Known
<1>9. CASE level' = 0 /\ usage_found /\ page_found
  <2>. DEFINE p == <<page, usage>>
  <2>1. /\ list' = Append(list, p) /\ usage_found' = FALSE /\ initial' = FALSE
        /\ UNCHANGED pos /\ phase' = "walk"
    BY <1>1, <1>9 DEF IterateOverCollection
  <2>2. p \in Pairs
    BY DEF IInv, TypeOK, Pairs
  <2>3. list' \in Seq(Pairs)
    <3>. HIDE DEF p
    <3>. QED BY <1>6, <2>1, <2>2
  <2>4. TypeOK'
    BY <1>1, <1>6, <2>1, <2>3 DEF IInv, TypeOK
  <2>5. ASSUME h.regular PROVE AtEnd(h)' /\ k < Whole /\ item.kind = "end"
    <3>1. Inside(h)
      BY <1>4, <1>8, <1>9, <2>5
    <3>2. item.kind = "end" /\ level = 1
      BY <1>4, <1>6, <1>9, <3>1 DEF Inside
    <3>. QED BY <1>1, <1>4, <2>1, <3>1, <3>2 DEF Inside, AtEnd, PageKnown
  <2>6. WalkInv'
    <3>1. k \in 0..Whole /\ AtItem(k) /\ h = Readings(items)[k] /\ item = items[k + 1]
      BY <1>2 DEF Here
    <3>2. AtItem(k)'
      BY <1>1, <2>1, <3>1 DEF AtItem
    <3>3. Agree(k, h)'
      BY <1>1, <1>5, <1>8, <2>1, <2>5, <3>1, <3>2 DEF Agree, IteratorInv
    <3>. QED BY <1>1, <1>5, <3>1, <3>2, <3>3 DEF WalkInv
  <2>. QED BY <1>1, <1>5, <2>4, <2>6 DEF IInv, UsagesFound
<1>10. CASE ~(level' = 0 /\ usage_found /\ page_found)
  <2>1. pos' = After(pos) /\ UNCHANGED <<list, usage_found, initial>>
    BY <1>10 DEF IterateOverCollection
  <2>2. TypeOK'
    BY <1>1, <1>4, <1>6, <2>1 DEF IInv, TypeOK
  <2>3. ASSUME g.regular, k < Whole PROVE phase' = "collection" /\ Inside(g)'
    <3>1. CASE Outside(h) /\ level = 0 /\ item.kind = "collection"
      <4>1. h.depth = 0 /\ list = h.closed /\ h.collections = Len(h.closed)
            /\ (initial <=> h.closed = <<>>) /\ PageKnown(h)
        BY <3>1 DEF Outside
      <4>2. HasPair(h)
        BY <1>3, <2>3, <3>1, <4>1, CollectionRead
      <4>3. page_found /\ usage_found /\ PairOf(h) = <<page, usage>>
        BY <3>1, <4>2, PairSeen DEF IInv
      <4>4. /\ g.page = h.page /\ g.from = h.from /\ g.depth = 1 /\ g.closed = h.closed
            /\ g.opened = PairOf(h) /\ g.collections = h.collections + 1
        BY <1>3, <3>1, <4>1, <4>2, CollectionRead
      <4>. QED BY <1>1, <1>4, <2>1, <3>1, <4>1, <4>3, <4>4 DEF Inside, PageKnown
    <3>2. CASE Inside(h)
      <4>1. /\ level = h.depth /\ level >= 1 /\ page_found /\ usage_found /\ h.opened = <<page, usage>>
            /\ list = h.closed /\ h.collections = Len(h.closed) + 1
            /\ (initial <=> h.closed = <<>>) /\ PageKnown(h)
        BY <3>2 DEF Inside
      <4>2. level' # 0
        BY <1>10, <4>1
      <4>3. /\ g.depth = level' /\ g.opened = h.opened /\ g.closed = h.closed
            /\ g.collections = h.collections
            /\ g.from = "usage" => h.from = "usage" /\ g.page = h.page
        <5>1. CASE item.kind \in {"page", "wide_page"}
          BY <1>3, <1>4, <1>6, <4>1, <5>1, PageRead DEF NoPage
        <5>2. CASE item.kind \in {"usage", "page_and_usage"}
          BY <1>3, <1>4, <1>6, <4>1, <5>2, UsageRead
        <5>3. CASE item.kind = "collection"
          BY <1>3, <1>4, <1>6, <4>1, <5>3, CollectionRead
        <5>4. CASE item.kind = "end"
          BY <1>3, <1>4, <1>6, <4>1, <4>2, <5>4, EndRead, SMTT(30)
        <5>5. CASE item.kind = "field"
          BY <1>3, <1>4, <1>6, <4>1, <5>5, FieldRead
        <5>6. CASE item.kind = "long"
          BY <1>3, <1>4, <1>6, <4>1, <5>6, LongRead
        <5>. QED BY <1>3, <5>1, <5>2, <5>3, <5>4, <5>5, <5>6 DEF Kinds
      <4>4. g.depth >= 1
        BY <1>3, <1>6, <4>2, <4>3
      <4>. QED BY <1>1, <2>1, <4>1, <4>2, <4>3, <4>4 DEF Inside, PageKnown
    <3>. QED BY <1>3, <1>8, <2>3, <3>1, <3>2
  <2>4. ASSUME h.regular, k >= Whole PROVE phase' = "collection" /\ list' = h.closed
    <3>1. item.kind # "end"
      BY <1>4, <1>7, <2>4
    <3>2. CASE Outside(h) /\ level = 0 /\ item.kind = "collection"
      BY <1>1, <1>4, <2>1, <3>2 DEF Outside
    <3>3. CASE Inside(h)
      BY <1>1, <1>4, <1>6, <2>1, <3>1, <3>3 DEF Inside
    <3>. QED BY <1>8, <2>4, <3>2, <3>3
  <2>5. WalkInv'
    BY <1>1, <1>2, <1>3, <1>5, <1>8, <2>1, <2>3, <2>4, GoesOn
  <2>. QED BY <1>1, <1>5, <2>2, <2>5 DEF IInv, UsagesFound
<1>. QED BY <1>9, <1>10


(* A walk that has come to the end of the bytes has seen what the host has. *)
LEMMA Ended ==
    ASSUME IInv, phase \in {"walk", "collection"}, pos >= size
    PROVE  /\ Cut => ~AtItem(Whole)
           /\ ~Cut => Whole = Len(items) /\ ~Past(Whole)
           /\ Agree(Whole, Host)
<1>1. /\ phase # "declare" /\ Whole \in 0..Len(items) /\ Len(items) \in Nat /\ size \in Nat /\ pos \in Nat
      /\ Offset(items, Whole) \in Nat
      /\ Cut => Offset(items, Whole) < size
      /\ ~Cut => Whole = Len(items)
  BY FetchedFacts DEF IInv, TypeOK
<1>2. PICK k \in 0..Whole : (AtItem(k) \/ Past(k)) /\ Agree(k, Readings(items)[k])
  BY DEF IInv, WalkInv
<1>3. k = Whole
  <2>1. CASE AtItem(k)
    BY <1>1, <2>1, AtTheEnd DEF IInv
  <2>2. CASE Past(k)
    BY <2>2 DEF Past
  <2>. QED BY <1>2, <2>1, <2>2
<1>4. Cut => ~AtItem(Whole)
  <2>. HIDE DEF size
  <2>. QED BY <1>1 DEF AtItem
<1>5. ~Cut => ~Past(Whole)
  BY DEF Past
<1>. QED BY <1>1, <1>2, <1>3, <1>4, <1>5 DEF Host

LEMMA CollectionUnclosedKeeps ==
    ASSUME IInv, CollectionUnclosed
    PROVE  IInv'
<1>1. /\ phase = "collection" /\ pos >= size /\ phase' = "done"
      /\ UNCHANGED <<backend, items, report_descriptor>>
      /\ UNCHANGED <<pos, page_found, page, usage_found, usage, initial, level, list>>
  BY DEF CollectionUnclosed, walkVars, findVars
<1>2. TypeOK'
  BY <1>1 DEF IInv, TypeOK
<1>3. /\ Whole' = Whole /\ Cut' = Cut /\ Host' = Host /\ size' = size
      /\ DeclareInv' /\ DepthInv' /\ FetchedInv'
  BY <1>1, Frame
<1>4. ASSUME Host.regular
      PROVE  /\ backend # "libusb" /\ list = Host.closed
             /\ ~Cut => Host.collections # 0
  <2>1. backend # "libusb" /\ IteratorInv(Whole, Host)
    BY <1>1, <1>4, Ended DEF Agree, GetUsageInv
  <2>2. CASE Cut
    BY <1>1, <2>1, <2>2, Ended DEF IteratorInv
  <2>3. CASE ~Cut
    <3>1. Inside(Host)
      BY <1>1, <2>1, <2>3, Ended, FetchedFacts DEF IteratorInv, IInv
    <3>2. list = Host.closed /\ Host.collections = Len(Host.closed) + 1
      BY <3>1 DEF Inside
    <3>3. Len(Host.closed) \in Nat
      <4>1. Whole \in 0..Len(items) /\ items \in Seq(Items)
        BY <1>1, FetchedFacts DEF IInv, TypeOK
      <4>2. Host \in Hosts
        BY <4>1, ReadingsType DEF Host
      <4>. QED BY <4>2 DEF Hosts
    <3>. QED BY <2>1, <3>2, <3>3
  <2>. QED BY <2>2, <2>3
<1>5. UsagesFound'
  BY <1>1, <1>3, <1>4 DEF UsagesFound
<1>. QED BY <1>1, <1>2, <1>3, <1>5 DEF IInv, WalkInv

LEMMA EndOfDescriptorKeeps ==
    ASSUME IInv, EndOfDescriptor
    PROVE  IInv'
<1>1. /\ phase = "walk" /\ pos >= size /\ phase' = "done"
      /\ list' = (IF backend = "libusb" \/ (initial /\ usage_found /\ page_found)
                  THEN <<<<page, usage>>>> ELSE list)
      /\ UNCHANGED <<backend, items, report_descriptor>>
      /\ UNCHANGED <<pos, page_found, page, usage_found, usage, initial, level>>
  BY DEF EndOfDescriptor, findVars
<1>2. TypeOK'
  <2>. DEFINE p == <<page, usage>>
  <2>1. p \in Pairs
    BY DEF IInv, TypeOK, Pairs
  <2>2. list' = <<p>> \/ list' = list
    BY <1>1
  <2>3. list' \in Seq(Pairs)
    <3>1. list \in Seq(Pairs)
      BY DEF IInv, TypeOK
    <3>. HIDE DEF p
    <3>2. <<p>> \in Seq(Pairs)
      BY <2>1
    <3>. QED BY <2>2, <3>1, <3>2, Zenon
  <2>. QED BY <1>1, <2>3 DEF IInv, TypeOK
<1>3. /\ Whole' = Whole /\ Cut' = Cut /\ Host' = Host /\ size' = size
      /\ DeclareInv' /\ DepthInv' /\ FetchedInv'
  BY <1>1, Frame
<1>4. Host \in Hosts
  <2>1. Whole \in 0..Len(items) /\ items \in Seq(Items)
    BY <1>1, FetchedFacts DEF IInv, TypeOK
  <2>. QED BY <2>1, ReadingsType DEF Host
<1>5. ASSUME Host.regular, backend = "libusb" PROVE UsagesFound'
  <2>1. GetUsageInv(Whole, Host)
    BY <1>1, <1>5, Ended DEF Agree
  <2>2. CASE Cut
    BY <1>1, <1>3, <1>5, <2>1, <2>2, Ended DEF GetUsageInv, UsagesFound
  <2>3. CASE ~Cut
    <3>1. HalfFound(Host)
      BY <1>1, <2>1, <2>3, Ended DEF GetUsageInv
    <3>2. ~HasPair(Host)
      <4>. SUFFICES ASSUME HasPair(Host) PROVE FALSE
        OBVIOUS
      <4>1. Host.usages # <<>> /\ Host.from \in {"usage", "page_and_usage"}
        BY <1>4, PairFacts
      <4>. QED BY <3>1, <4>1 DEF HalfFound, NoPage
    <3>. QED BY <1>1, <1>3, <3>1, <3>2 DEF HalfFound, UsagesFound
  <2>. QED BY <2>2, <2>3
<1>6. ASSUME Host.regular, backend # "libusb" PROVE UsagesFound'
  <2>1. IteratorInv(Whole, Host)
    BY <1>1, <1>6, Ended DEF Agree
  <2>2. Host.closed \in Seq(Opens) /\ Host.collections \in Nat
    BY <1>4 DEF Hosts
  <2>3. list = Host.closed /\ Host.collections = Len(Host.closed) /\ (initial <=> Host.closed = <<>>)
    <3>1. CASE Cut
      BY <1>1, <2>1, <3>1, Ended DEF IteratorInv
    <3>2. CASE ~Cut
      BY <1>1, <2>1, <3>2, Ended, FetchedFacts DEF IteratorInv, Outside, IInv
    <3>. QED BY <3>1, <3>2
  <2>4. CASE Host.collections = 0
    <3>1. initial
      <4>. DEFINE c == Host.closed
      <4>1. c \in Seq(Opens) /\ Len(c) = 0 /\ (initial <=> c = <<>>)
        BY <2>2, <2>3, <2>4
      <4>. HIDE DEF c
      <4>2. c = <<>>
        BY <4>1
      <4>. QED BY <4>1, <4>2
    <3>2. ASSUME HasPair(Host), ~Cut PROVE list' = <<PairOf(Host)>>
      <4>1. Outside(Host)
        BY <1>1, <2>1, <3>2, Ended, FetchedFacts DEF IteratorInv, IInv
      <4>2. page_found /\ usage_found /\ PairOf(Host) = <<page, usage>>
        BY <1>4, <3>2, <4>1, PairSeen DEF IInv
      <4>. QED BY <1>1, <3>1, <4>2
    <3>. QED BY <1>1, <1>3, <2>4, <3>2 DEF UsagesFound
  <2>5. CASE Host.collections # 0
    <3>1. ~initial
      BY <2>2, <2>3, <2>5
    <3>. QED BY <1>1, <1>3, <1>6, <2>3, <2>5, <3>1 DEF UsagesFound
  <2>. QED BY <2>4, <2>5
<1>7. UsagesFound'
  BY <1>3, <1>5, <1>6 DEF UsagesFound
<1>. QED BY <1>1, <1>2, <1>3, <1>7 DEF IInv, WalkInv

-----------------------------------------------------------------------------
(***************************************************************************)
(* Before the walk.                                                        *)
(***************************************************************************)
LEMMA DeclareKeeps ==
    ASSUME IInv, NEW item \in Items, Declare(item)
    PROVE  IInv'
<1>1. /\ phase = "declare" /\ items' = Append(items, item) /\ phase' = "declare"
      /\ item.kind = "end" => Opened > 0
      /\ UNCHANGED <<backend, report_descriptor>>
      /\ UNCHANGED <<pos, page_found, page, usage_found, usage, initial, level, list>>
  BY DEF Declare, walkVars, findVars
<1>2. items \in Seq(Items) /\ Len(items) \in Nat
  BY DEF IInv, TypeOK
<1>3. items' \in Seq(Items) /\ Len(items') = Len(items) + 1
  BY <1>1, <1>2
<1>4. TypeOK'
  BY <1>1, <1>3 DEF IInv, TypeOK
<1>5. DeclareInv'
  BY <1>1 DEF IInv, DeclareInv
<1>6. DepthInv'
  <2>1. SUFFICES ASSUME NEW k \in 0..(Len(items) + 1) PROVE Readings(items')[k].depth >= 0
    BY <1>3 DEF DepthInv
  <2>2. CASE k \in 0..Len(items)
    BY <1>1, <1>2, <2>2, ReadingsOfAppend DEF IInv, DepthInv
  <2>3. CASE k = Len(items) + 1
    <3>. DEFINE h == Readings(items)[Len(items)]
    <3>1. Readings(items')[k] = ReadItem(h, item)
      BY <1>1, <1>2, <2>3, ReadingsOfAppend
    <3>2. h \in Hosts /\ h.depth >= 0 /\ (item.kind = "end" => h.depth > 0)
      BY <1>1, <1>2, ReadingsType DEF IInv, DepthInv, Opened
    <3>3. h.depth \in Int
      BY <3>2 DEF Hosts
    <3>4. item.kind \in Kinds
      BY UsageAssumption
    <3>. HIDE DEF h
    <3>5. ReadItem(h, item).depth >= 0
      <4>1. CASE item.kind \in {"page", "wide_page"}
        BY <3>2, <4>1, PageRead
      <4>2. CASE item.kind \in {"usage", "page_and_usage"}
        BY <3>2, <4>2, UsageRead
      <4>3. CASE item.kind = "collection"
        BY <3>2, <3>3, <4>3, CollectionRead
      <4>4. CASE item.kind = "end"
        BY <3>2, <3>3, <4>4, EndRead
      <4>5. CASE item.kind = "field"
        BY <3>2, <4>5, FieldRead
      <4>6. CASE item.kind = "long"
        BY <3>2, <4>6, LongRead
      <4>. QED BY <3>4, <4>1, <4>2, <4>3, <4>4, <4>5, <4>6 DEF Kinds
    <3>. QED BY <3>1, <3>5
  <2>. QED BY <1>2, <2>2, <2>3
<1>. QED BY <1>1, <1>4, <1>5, <1>6 DEF IInv, FetchedInv, WalkInv, UsagesFound

LEMMA FetchKeeps ==
    ASSUME IInv, NEW missing \in 0..4, Fetch(missing)
    PROVE  IInv'
<1>. DEFINE n == Len(items)
            b == Bytes
            m == Len(b) - missing
<1>1. /\ phase = "declare" /\ items # <<>> /\ missing < Length(items[n])
      /\ report_descriptor' = SubSeq(b, 1, m) /\ phase' = "walk"
      /\ UNCHANGED <<backend, items>>
      /\ UNCHANGED <<pos, page_found, page, usage_found, usage, initial, level, list>>
  BY DEF Fetch, Length, walkVars, findVars
<1>2. items \in Seq(Items) /\ n \in Nat \ {0} /\ items[n] \in Items
  BY <1>1 DEF IInv, TypeOK
<1>3. /\ b \in Seq(0..255) /\ Len(b) = Offset(items, n) /\ Offset(items, n - 1) \in Nat
      /\ Offset(items, n) = Offset(items, n - 1) + Length(items[n]) /\ Length(items[n]) \in 1..5
  <2>1. n \in 0..n /\ n - 1 \in 0..n /\ n - 1 \in 0..(n - 1) /\ (n - 1) + 1 = n
    BY <1>2
  <2>2. b = Encodings(items)[n]
    BY DEF Bytes
  <2>. QED BY <1>2, <2>1, <2>2, EncodingsType, OffsetFacts, EncodeFacts DEF Offset
<1>4. m \in 1..Len(b) /\ Len(b) \in Nat /\ Offset(items, n - 1) < m /\ m <= Offset(items, n)
  <2>1. missing \in Nat /\ missing < Length(items[n])
    BY <1>1
  <2>2. Length(items[n]) \in Nat
    BY <1>3
  <2>. HIDE DEF b
  <2>. QED BY <1>3, <2>1, <2>2
<1>. HIDE DEF b, m
<1>5. /\ report_descriptor' \in Seq(0..255) /\ Len(report_descriptor') = m
      /\ \A i \in 1..m : report_descriptor'[i] = b[i]
  <2>1. SubSeq(b, 1, m) \in Seq(0..255) /\ Len(SubSeq(b, 1, m)) = m
        /\ \A i \in 1..m : SubSeq(b, 1, m)[i] = b[i]
    BY <1>3, <1>4
  <2>. QED BY <1>1, <2>1
<1>6. TypeOK'
  BY <1>1, <1>5 DEF IInv, TypeOK
<1>7. DeclareInv' /\ DepthInv'
  BY <1>1 DEF IInv, DeclareInv, DepthInv
<1>8. size' = m
  BY <1>5 DEF size
<1>9. FetchedInv'
  BY <1>1, <1>4, <1>5, <1>8 DEF FetchedInv, Bytes, b
<1>10. Whole' \in 0..n
  BY <1>1, <1>2 DEF Whole
<1>11. WalkInv'
  <2>1. pos = 0 /\ list = <<>> /\ initial /\ ~page_found /\ ~usage_found
    BY <1>1 DEF IInv, DeclareInv
  <2>2. Offset(items, 0) = 0 /\ Readings(items)[0] = Start
    BY <1>2, OffsetFacts, ReadingsFacts
  <2>3. PICK h : h = Start
    OBVIOUS
  <2>4. /\ h.depth = 0 /\ h.collections = 0 /\ h.closed = <<>> /\ h.usages = <<>> /\ h.from = NoPage
    BY <2>3 DEF Start
  <2>5. HalfFound(h)'
    BY <1>1, <2>1, <2>4 DEF HalfFound
  <2>6. Outside(h)'
    BY <1>1, <2>1, <2>4 DEF Outside, PageKnown, NoPage
  <2>7. AtItem(0)'
    BY <1>1, <2>1, <2>2 DEF AtItem
  <2>8. Agree(0, h)'
    BY <1>1, <2>5, <2>6, <2>7 DEF Agree, GetUsageInv, IteratorInv
  <2>9. h = Readings(items')[0] /\ 0 \in 0..Whole'
    BY <1>1, <1>2, <1>10, <2>2, <2>3
  <2>. QED BY <2>7, <2>8, <2>9 DEF WalkInv
<1>. QED BY <1>1, <1>6, <1>7, <1>9, <1>11 DEF IInv, UsagesFound

-----------------------------------------------------------------------------
(***************************************************************************)
(* The theorems.                                                           *)
(***************************************************************************)
LEMMA InitKeeps == Init => IInv
<1>. SUFFICES ASSUME Init PROVE IInv
  OBVIOUS
<1>1. items = <<>> /\ phase = "declare"
  BY DEF Init
<1>2. TypeOK
  <2>1. items \in Seq(Items)
    BY <1>1
  <2>2. report_descriptor \in Seq(0..255)
    BY DEF Init
  <2>3. list \in Seq(Pairs)
    BY DEF Init
  <2>4. /\ backend \in Backends /\ phase = "declare" /\ pos = 0 /\ level = 0 /\ page = 0 /\ usage = 0
        /\ page_found \in BOOLEAN /\ usage_found \in BOOLEAN /\ initial \in BOOLEAN
    BY DEF Init
  <2>. QED BY <2>1, <2>2, <2>3, <2>4 DEF TypeOK
<1>3. DeclareInv
  BY DEF Init, DeclareInv
<1>4. DepthInv
  <2>1. items \in Seq(Items) /\ Len(items) = 0
    BY <1>1
  <2>2. Readings(items)[0].depth = 0
    BY <2>1, ReadingsFacts DEF Start
  <2>. QED BY <2>1, <2>2 DEF DepthInv
<1>. QED BY <1>1, <1>2, <1>3, <1>4 DEF IInv, FetchedInv, WalkInv, UsagesFound

LEMMA StutterKeeps ==
    ASSUME IInv, UNCHANGED vars
    PROVE  IInv'
<1>1. /\ UNCHANGED <<backend, items, report_descriptor, phase>>
      /\ UNCHANGED <<pos, page_found, page, usage_found, usage, initial, level, list>>
  BY DEF vars, walkVars, findVars
<1>2. TypeOK' /\ DeclareInv' /\ DepthInv'
  BY <1>1 DEF IInv, TypeOK, DeclareInv, DepthInv
<1>3. size' = size /\ Cut' = Cut /\ Whole' = Whole /\ Host' = Host
  BY <1>1 DEF size, Cut, Whole, Host, Bytes
<1>4. FetchedInv' /\ UsagesFound'
  BY <1>1, <1>3 DEF IInv, FetchedInv, UsagesFound
<1>5. WalkInv'
  <2>. SUFFICES ASSUME phase \in {"walk", "collection"} PROVE WalkInv'
    BY <1>1 DEF WalkInv
  <2>1. PICK k \in 0..Whole : (AtItem(k) \/ Past(k)) /\ Agree(k, Readings(items)[k])
    BY DEF IInv, WalkInv
  <2>2. PICK h : h = Readings(items)[k]
    OBVIOUS
  <2>3. (HalfFound(h) => HalfFound(h)') /\ (Outside(h) => Outside(h)') /\ (Inside(h) => Inside(h)')
        /\ (AtEnd(h) => AtEnd(h)')
    BY <1>1 DEF HalfFound, Outside, Inside, AtEnd, PageKnown
  <2>4. (AtItem(k) => AtItem(k)') /\ (Past(k) => Past(k)')
    BY <1>1, <1>3 DEF AtItem, Past
  <2>5. Agree(k, h)'
    BY <1>1, <1>3, <2>1, <2>2, <2>3, <2>4 DEF Agree, GetUsageInv, IteratorInv
  <2>6. h = Readings(items')[k] /\ k \in 0..Whole'
    BY <1>1, <1>3, <2>1, <2>2
  <2>. QED BY <2>1, <2>4, <2>5, <2>6 DEF WalkInv
<1>. QED BY <1>2, <1>4, <1>5 DEF IInv

(* The walk agrees with the host all along: an inductive invariant. *)
THEOREM WalkAgrees == Spec => []IInv
<1>1. ASSUME IInv, [Next]_vars PROVE IInv'
  BY <1>1, DeclareKeeps, FetchKeeps, TakePageKeeps, TakeUsageKeeps, MeetCollectionKeeps, SkipItemKeeps,
     IterateKeeps, CollectionUnclosedKeeps, EndOfDescriptorKeeps, StutterKeeps DEF Next, Walk
<1>. QED BY InitKeeps, <1>1, PTL DEF Spec

(* Whatever items a device declares, and however many: the walk finds the  *)
(* usages that the host would, on each backend.                            *)
THEOREM UsagesAreFound == Spec => []UsagesFound
<1>1. IInv => UsagesFound
  BY DEF IInv
<1>. QED BY <1>1, WalkAgrees, PTL
=============================================================================
