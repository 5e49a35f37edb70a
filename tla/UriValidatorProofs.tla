-------------------------- MODULE UriValidatorProofs --------------------------
(***************************************************************************)
(* Theorems about UriValidator, for any words, suffixes, providers and     *)
(* policies and any URLs made of the pieces of UrlAssumption.  The         *)
(* argument is that of a parser: what stands around the host cannot move   *)
(* the place where the host is cut out.                                    *)
(***************************************************************************)
EXTENDS UriValidator, WellFoundedInduction, SequenceTheorems, TLAPS

Texts == Seq(Tokens)

-----------------------------------------------------------------------------
(***************************************************************************)
(* Least and greatest places in a text.                                    *)
(***************************************************************************)
LessOnNat == {pair \in Nat \X Nat : pair[1] < pair[2]}

\* A set of naturals that is not empty has a least element.
LEMMA LeastNat ==
  ASSUME NEW T \in SUBSET Nat, T # {}
  PROVE  \E x \in T : \A y \in T : x <= y
  <1>1. IsWellFoundedOn(LessOnNat, Nat)
    BY NatLessThanWellFounded, Zenon DEF OpToRel, LessOnNat
  <1>2. PICK x \in T : \A y \in T : ~ (<<y, x>> \in LessOnNat)
    BY <1>1, WFMin, Zenon
  <1>3. ASSUME NEW y \in T PROVE x <= y
    <2>1. ~ (<<y, x>> \in LessOnNat) /\ x \in Nat /\ y \in Nat
      BY <1>2
    <2>2. y < x => <<y, x>> \in LessOnNat
      BY <2>1 DEF LessOnNat
    <2> QED BY <2>1, <2>2
  <1> QED BY <1>3

\* One that is bounded has a greatest.
LEMMA GreatestNat ==
  ASSUME NEW T \in SUBSET Nat, T # {}, NEW n \in Nat, \A x \in T : x <= n
  PROVE  \E x \in T : \A y \in T : x >= y
  <1> DEFINE Gaps == {n - x : x \in T}
  <1>1. Gaps \in SUBSET Nat /\ Gaps # {}
    <2>1. \A x \in T : n - x \in Nat
      OBVIOUS
    <2>2. PICK x \in T : TRUE
      OBVIOUS
    <2>3. n - x \in Gaps
      OBVIOUS
    <2> QED BY <2>1, <2>3
  <1>2. PICK g \in Gaps : \A h \in Gaps : g <= h
    BY <1>1, LeastNat
  <1>3. PICK x \in T : g = n - x
    BY <1>2
  <1>4. ASSUME NEW y \in T PROVE x >= y
    <2>1. n - y \in Gaps
      BY <1>4
    <2>2. n - x <= n - y
      BY <2>1, <1>2, <1>3
    <2>3. x \in Nat /\ y \in Nat
      BY <1>4
    <2> HIDE DEF Gaps
    <2> QED BY <2>2, <2>3
  <1> QED BY <1>4

\* Min and Max of the community module, at an element that is known.
LEMMA MinIs ==
  ASSUME NEW T \in SUBSET Int, NEW x \in T, \A y \in T : x <= y
  PROVE  Min(T) = x
  <1>1. \A z \in T : (\A y \in T : z <= y) => z = x
    OBVIOUS
  <1> QED BY <1>1 DEF Min

\* The same for the greatest.
LEMMA MaxIs ==
  ASSUME NEW T \in SUBSET Int, NEW x \in T, \A y \in T : x >= y
  PROVE  Max(T) = x
  <1>1. \A z \in T : (\A y \in T : z >= y) => z = x
    OBVIOUS
  <1> QED BY <1>1 DEF Max

-----------------------------------------------------------------------------
(***************************************************************************)
(* Texts put together and cut apart.                                       *)
(***************************************************************************)
\* Texts put together, place by place.
LEMMA Glued ==
  ASSUME NEW a \in Texts, NEW b \in Texts
  PROVE  /\ a \o b \in Texts /\ Len(a \o b) = Len(a) + Len(b)
         /\ \A i \in 1 .. Len(a) + Len(b) :
               (a \o b)[i] = IF i <= Len(a) THEN a[i] ELSE b[i - Len(a)]
  BY ConcatProperties DEF Texts

\* How long a text is, and that an empty one is the empty tuple.
LEMMA TextLen ==
  ASSUME NEW a \in Texts
  PROVE  /\ Len(a) \in Nat /\ DOMAIN a = 1 .. Len(a)
         /\ a # <<>> => Len(a) > 0
  BY LenProperties, EmptySeq DEF Texts

\* What is put together is cut apart.
LEMMA CutFront ==
  ASSUME NEW a \in Texts, NEW b \in Texts
  PROVE  SubSeq(a \o b, 1, Len(a)) = a
  <1>1. /\ a \o b \in Texts /\ Len(a \o b) = Len(a) + Len(b)
        /\ \A i \in 1 .. Len(a) + Len(b) :
              (a \o b)[i] = IF i <= Len(a) THEN a[i] ELSE b[i - Len(a)]
    BY ConcatProperties DEF Texts
  <1>0. Len(a) \in Nat /\ Len(b) \in Nat /\ \A i \in 1 .. Len(a) : a[i] \in Tokens
    BY ElementOfSeq DEF Texts
  <1>2. \A i \in 1 .. Len(a) : (a \o b)[i] = a[i]
    BY <1>0, <1>1
  <1>3. /\ SubSeq(a \o b, 1, Len(a)) \in Texts
        /\ Len(SubSeq(a \o b, 1, Len(a))) = Len(a)
        /\ \A i \in 1 .. Len(a) : SubSeq(a \o b, 1, Len(a))[i] = (a \o b)[i]
    <2>1. \A i \in 1 .. Len(a) : (a \o b)[i] \in Tokens
      BY <1>0, <1>2
    <2> QED BY <2>1, <1>0, SubSeqProperties DEF Texts
  <1> QED BY <1>0, <1>2, <1>3, SeqEqual DEF Texts

\* And from behind.
LEMMA CutBack ==
  ASSUME NEW a \in Texts, NEW b \in Texts
  PROVE  SubSeq(a \o b, Len(a) + 1, Len(a \o b)) = b
  <1> DEFINE n == Len(a) + Len(b)
             cut == SubSeq(a \o b, Len(a) + 1, n)
  <1>1. /\ a \o b \in Texts /\ Len(a \o b) = n
        /\ \A i \in 1 .. n : (a \o b)[i] = IF i <= Len(a) THEN a[i] ELSE b[i - Len(a)]
    BY ConcatProperties DEF Texts
  <1>0. Len(a) \in Nat /\ Len(b) \in Nat /\ n \in Nat
        /\ \A i \in 1 .. n : (a \o b)[i] \in Tokens
    BY <1>1, ElementOfSeq DEF Texts
  <1>2. /\ cut \in Texts /\ Len(cut) = Len(b)
        /\ \A i \in 1 .. Len(b) : cut[i] = (a \o b)[Len(a) + i]
    <2>1. \A i \in Len(a) + 1 .. n : (a \o b)[i] \in Tokens
      BY <1>0
    <2>2. /\ cut \in Texts
          /\ Len(cut) = IF Len(a) + 1 <= n THEN n - (Len(a) + 1) + 1 ELSE 0
          /\ \A i \in 1 .. n - (Len(a) + 1) + 1 : cut[i] = (a \o b)[(Len(a) + 1) + i - 1]
      BY <2>1, <1>0, SubSeqProperties DEF Texts
    <2> QED BY <2>2, <1>0
  <1>3. \A i \in 1 .. Len(b) : (a \o b)[Len(a) + i] = b[i]
    BY <1>0, <1>1
  <1>4. cut = b
    BY <1>2, <1>3, SeqEqual DEF Texts
  <1> QED BY <1>1, <1>4

\* A text up to the first of some marks.
LEMMA BeforeCuts ==
  ASSUME NEW a \in Texts, NEW b \in Texts, NEW marks,
         \A i \in DOMAIN a : a[i] \notin marks,
         b # <<>> => b[1] \in marks
  PROVE  Before(a \o b, marks) = a
  <1> DEFINE text == a \o b
             I == {i \in 1 .. Len(text) : text[i] \in marks}
  <1>1. /\ text \in Texts /\ Len(text) = Len(a) + Len(b)
        /\ \A i \in 1 .. Len(a) + Len(b) :
              text[i] = IF i <= Len(a) THEN a[i] ELSE b[i - Len(a)]
    BY ConcatProperties DEF Texts
  <1>0. Len(a) \in Nat /\ Len(b) \in Nat /\ DOMAIN a = 1 .. Len(a)
    BY DEF Texts
  <1>2. Before(text, marks)
          = IF (IF I # {} THEN Min(I) ELSE 0) = 0 THEN text
            ELSE SubSeq(text, 1, (IF I # {} THEN Min(I) ELSE 0) - 1)
    BY Zenon DEF Before, SelectInSeq
  <1>3. CASE b = <<>>
    <2>1. I = {} /\ text = a
      BY <1>0, <1>1, <1>3, ConcatEmptySeq DEF Texts
    <2> QED BY <1>2, <2>1
  <1>4. CASE b # <<>>
    <2>1. Len(b) > 0
      BY <1>4, <1>0, EmptySeq DEF Texts
    <2>2. Len(a) + 1 \in I
      BY <1>0, <1>1, <1>4, <2>1
    <2>3. \A i \in I : Len(a) + 1 <= i
      BY <1>0, <1>1
    <2>6. I \in SUBSET Int
      OBVIOUS
    <2> HIDE DEF I
    <2>4. Min(I) = Len(a) + 1
      BY <2>2, <2>3, <2>6, MinIs
    <2>5. Before(text, marks) = SubSeq(text, 1, Len(a))
      <3>1. I # {} /\ Len(a) + 1 # 0 /\ (Len(a) + 1) - 1 = Len(a)
        BY <2>2, <1>0
      <3> QED BY <1>2, <3>1, <2>4
    <2> QED BY <2>5, CutFront
  <1> QED BY <1>3, <1>4

\* A text behind the last of a mark.
LEMMA BehindCuts ==
  ASSUME NEW a \in Texts, NEW b \in Texts, NEW mark,
         a # <<>> => a[Len(a)] = mark,
         \A i \in DOMAIN b : b[i] # mark
  PROVE  BehindLast(a \o b, mark) = b
  <1> DEFINE text == a \o b
             I == {i \in 1 .. Len(text) : text[i] = mark}
  <1>1. /\ text \in Texts /\ Len(text) = Len(a) + Len(b)
        /\ \A i \in 1 .. Len(a) + Len(b) :
              text[i] = IF i <= Len(a) THEN a[i] ELSE b[i - Len(a)]
    BY ConcatProperties DEF Texts
  <1>0. Len(a) \in Nat /\ Len(b) \in Nat /\ DOMAIN b = 1 .. Len(b)
    BY DEF Texts
  <1>2. BehindLast(text, mark)
          = SubSeq(text, (IF I # {} THEN Max(I) ELSE 0) + 1, Len(text))
    BY Zenon DEF BehindLast, SelectLastInSeq
  <1>3. (IF I # {} THEN Max(I) ELSE 0) = Len(a)
    <2>1. \A i \in I : i <= Len(a)
      <3> SUFFICES ASSUME NEW i \in I, i > Len(a) PROVE FALSE
        BY <1>0, <1>1
      <3> QED BY <1>0, <1>1
    <2>2. CASE Len(a) = 0
      BY <2>1, <2>2
    <2>3. CASE Len(a) # 0
      <3>1. Len(a) \in I
        BY <1>0, <1>1, <2>3
      <3>2. I \in SUBSET Int /\ \A i \in I : Len(a) >= i
        BY <2>1, <1>0
      <3> HIDE DEF I
      <3> QED BY <3>1, <3>2, MaxIs
    <2> QED BY <2>2, <2>3
  <1> QED BY <1>2, <1>3, CutBack

-----------------------------------------------------------------------------
(***************************************************************************)
(* Labels joined by dots.                                                  *)
(***************************************************************************)
\* Texts without a dot.
Undotted == Seq(Tokens \ {"."})

\* The labels stand at the odd places, the dots at the even ones.
LEMMA JoinedPlaces ==
  ASSUME NEW L \in Undotted, L # <<>>
  PROVE  /\ Len(L) \in Nat /\ Len(L) > 0
         /\ Joined(L) \in Texts /\ Len(Joined(L)) = 2 * Len(L) - 1
         /\ \A k \in 1 .. Len(L) : Joined(L)[2 * k - 1] = L[k]
         /\ \A k \in 1 .. Len(L) - 1 : Joined(L)[2 * k] = "."
  <1>1. Len(L) \in Nat /\ Len(L) > 0 /\ \A k \in 1 .. Len(L) : L[k] \in Tokens
    BY EmptySeq, ElementOfSeq DEF Undotted
  <1>0. "." \in Tokens
    BY DEF Tokens, Marks
  <1>2. \A i \in 1 .. 2 * Len(L) - 1 : i % 2 # 0 => (i + 1) \div 2 \in 1 .. Len(L)
    BY <1>1, Z3
  <1>3. \A k \in 1 .. Len(L) : /\ 2 * k - 1 \in 1 .. 2 * Len(L) - 1
                               /\ (2 * k - 1) % 2 # 0 /\ ((2 * k - 1) + 1) \div 2 = k
    BY <1>1, Z3
  <1>4. \A k \in 1 .. Len(L) - 1 : 2 * k \in 1 .. 2 * Len(L) - 1 /\ (2 * k) % 2 = 0
    BY <1>1, Z3
  <1> DEFINE J == [i \in 1 .. 2 * Len(L) - 1 |->
                     IF i % 2 = 0 THEN "." ELSE L[(i + 1) \div 2]]
  <1>5. Joined(L) = J
    BY DEF Joined
  <1>6. J \in [1 .. 2 * Len(L) - 1 -> Tokens]
    <2> SUFFICES ASSUME NEW i \in 1 .. 2 * Len(L) - 1
                 PROVE  (IF i % 2 = 0 THEN "." ELSE L[(i + 1) \div 2]) \in Tokens
      BY Zenon
    <2>1. CASE i % 2 = 0
      BY <1>0, <2>1, Zenon
    <2>2. CASE i % 2 # 0
      <3>1. (i + 1) \div 2 \in 1 .. Len(L)
        BY <1>2, <2>2
      <3> QED BY <3>1, <1>1, <2>2, Zenon
    <2> QED BY <2>1, <2>2
  <1>7. J \in Texts /\ Len(J) = 2 * Len(L) - 1
    <2>1. 2 * Len(L) - 1 \in Nat
      BY <1>1
    <2> HIDE DEF J
    <2> QED BY <2>1, <1>6, LenProperties, IsASeq DEF Texts
  <1>8. /\ \A k \in 1 .. Len(L) : J[2 * k - 1] = L[k]
        /\ \A k \in 1 .. Len(L) - 1 : J[2 * k] = "."
    BY <1>3, <1>4
  <1> QED BY <1>1, <1>5, <1>7, <1>8

\* Every place is odd or even.
LEMMA OddOrEven ==
  ASSUME NEW n \in Nat, NEW i \in 1 .. 2 * n - 1
  PROVE  \/ \E k \in 1 .. n : i = 2 * k - 1
         \/ \E k \in 1 .. n - 1 : i = 2 * k
  <1>1. CASE i % 2 = 0
    <2>1. i \div 2 \in 1 .. n - 1 /\ i = 2 * (i \div 2)
      BY <1>1
    <2> QED BY <2>1
  <1>2. CASE i % 2 # 0
    <2>1. (i + 1) \div 2 \in 1 .. n /\ i = 2 * ((i + 1) \div 2) - 1
      BY <1>2
    <2> QED BY <2>1
  <1> QED BY <1>1, <1>2

\* The last token of joined labels is no dot, nor is the first.
LEMMA JoinedEnds ==
  ASSUME NEW L \in Undotted, L # <<>>
  PROVE  /\ Joined(L) # <<>>
         /\ Joined(L)[1] = L[1] /\ L[1] \in Tokens \ {"."}
         /\ Joined(L)[Len(Joined(L))] = L[Len(L)] /\ L[Len(L)] \in Tokens \ {"."}
  <1>1. /\ Len(L) \in Nat /\ Len(L) > 0
        /\ Joined(L) \in Texts /\ Len(Joined(L)) = 2 * Len(L) - 1
        /\ \A k \in 1 .. Len(L) : Joined(L)[2 * k - 1] = L[k]
    BY JoinedPlaces
  <1>2. Joined(L)[2 * 1 - 1] = L[1] /\ 2 * 1 - 1 = 1
    BY <1>1
  <1>3. L[1] \in Tokens \ {"."} /\ L[Len(L)] \in Tokens \ {"."}
    BY <1>1, ElementOfSeq DEF Undotted
  <1>4. Joined(L) # <<>>
    BY <1>1
  <1>5. Joined(L)[2 * Len(L) - 1] = L[Len(L)]
    BY <1>1
  <1> QED BY <1>1, <1>2, <1>3, <1>4, <1>5

\* str::split('.') undoes the joining.
LEMMA LabelsOfJoined ==
  ASSUME NEW L \in Undotted, L # <<>>
  PROVE  Labels(Joined(L)) = [k \in 1 .. Len(L) |-> <<L[k]>>]
  <1> DEFINE J == Joined(L)
             top == 2 * Len(L) - 1
             wide(n) == (n \div 2) + 1
             at(n) == [k \in 1 .. wide(n) |-> IF 2 * k - 1 <= n THEN <<L[k]>> ELSE <<>>]
             step(f) == [n \in 0 .. top |->
                           IF n = 0 THEN << <<>> >>
                           ELSE IF J[n] = "." THEN Append(f[n - 1], <<>>)
                           ELSE [f[n - 1] EXCEPT ![Len(f[n - 1])] = Append(@, J[n])]]
             whole == [n \in 0 .. top |-> at(n)]
             parts == CHOOSE f : f = step(f)
  <1>1. /\ Len(L) \in Nat /\ Len(L) > 0 /\ Len(J) = top
        /\ \A k \in 1 .. Len(L) : J[2 * k - 1] = L[k] /\ L[k] # "." /\ L[k] \in Tokens
        /\ \A k \in 1 .. Len(L) - 1 : J[2 * k] = "."
    BY JoinedPlaces, ElementOfSeq DEF Undotted
  <1>2. Labels(J) = parts[top]
    BY <1>1 DEF Labels
  <1>3. at(0) = << <<>> >>
    <2>1. wide(0) = 1
      OBVIOUS
    <2>2. at(0) = [k \in 1 .. 1 |-> <<>>]
      <3>1. \A k \in 1 .. 1 : ~ (2 * k - 1 <= 0)
        OBVIOUS
      <3> QED BY <2>1, <3>1
    <2> QED BY <2>2
  <1>4. ASSUME NEW n \in 1 .. top, J[n] = "." PROVE at(n) = Append(at(n - 1), <<>>)
    <2>1. PICK j \in 1 .. Len(L) - 1 : n = 2 * j
      <3>1. \/ \E k \in 1 .. Len(L) : n = 2 * k - 1
            \/ \E k \in 1 .. Len(L) - 1 : n = 2 * k
        BY <1>1, OddOrEven, Zenon
      <3> HIDE DEF J, top
      <3> QED BY <3>1, <1>1, <1>4
    <2>2. wide(n) = j + 1 /\ wide(n - 1) = j
      BY <2>1, <1>1
    <2>3. \A k \in 1 .. j : 2 * k - 1 <= n /\ 2 * k - 1 <= n - 1
      BY <2>1, <1>1
    <2>4. ~ (2 * (j + 1) - 1 <= n)
      BY <2>1, <1>1
    <2>5. at(n) = [k \in 1 .. j + 1 |-> IF k <= j THEN <<L[k]>> ELSE <<>>]
      BY <2>1, <2>2, <2>3, <2>4, <1>1
    <2>6. at(n - 1) = [k \in 1 .. j |-> <<L[k]>>]
      BY <2>2, <2>3
    <2>7. j \in Nat
      BY <2>1, <1>1
    <2>8. at(n - 1) \in Seq(Texts) /\ Len(at(n - 1)) = j /\ <<>> \in Texts
      <3>1. \A k \in 1 .. j : <<L[k]>> \in Texts
        BY <1>1, <2>1 DEF Texts
      <3>2. [k \in 1 .. j |-> <<L[k]>>] \in [1 .. j -> Texts]
        BY <3>1
      <3>3. <<>> \in Texts
        BY EmptySeq DEF Texts
      <3>4. [k \in 1 .. j |-> <<L[k]>>] \in Seq(Texts)
        BY <2>7, <3>1, IsASeq
      <3>5. Len([k \in 1 .. j |-> <<L[k]>>]) = j
        BY <2>7, <3>1
      <3> HIDE DEF at
      <3> QED BY <3>3, <3>4, <3>5, <2>6
    <2>9. /\ Append(at(n - 1), <<>>) \in Seq(Texts)
          /\ Len(Append(at(n - 1), <<>>)) = j + 1
          /\ \A k \in 1 .. j : Append(at(n - 1), <<>>)[k] = at(n - 1)[k]
          /\ Append(at(n - 1), <<>>)[j + 1] = <<>>
      <3> HIDE DEF at
      <3> QED BY <2>8, AppendProperties
    <2>10. Append(at(n - 1), <<>>)
             = [k \in 1 .. j + 1 |-> IF k <= j THEN <<L[k]>> ELSE <<>>]
      <3>1. \A k \in 1 .. j : Append(at(n - 1), <<>>)[k] = <<L[k]>>
        <4>1. \A k \in 1 .. j : at(n - 1)[k] = <<L[k]>>
          BY <2>6
        <4> HIDE DEF at
        <4> QED BY <4>1, <2>9
      <3> DEFINE next == Append(at(n - 1), <<>>)
      <3>2. next \in [1 .. j + 1 -> Texts]
        <4> HIDE DEF at
        <4> QED BY <2>9, LenProperties
      <3> HIDE DEF at, next
      <3>3. next = [k \in 1 .. j + 1 |-> next[k]]
        BY <3>2
      <3>4. \A k \in 1 .. j + 1 : next[k] = IF k <= j THEN <<L[k]>> ELSE <<>>
        BY <3>1, <2>7, <2>9 DEF next
      <3> QED BY <3>3, <3>4, Zenon DEF next
    <2> QED BY <2>5, <2>10, Zenon
  <1>5. ASSUME NEW n \in 1 .. top, J[n] # "."
        PROVE  at(n) = [at(n - 1) EXCEPT ![Len(at(n - 1))] = Append(@, J[n])]
    <2>1. PICK j \in 1 .. Len(L) : n = 2 * j - 1
      <3>1. \/ \E k \in 1 .. Len(L) : n = 2 * k - 1
            \/ \E k \in 1 .. Len(L) - 1 : n = 2 * k
        BY <1>1, OddOrEven, Zenon
      <3> HIDE DEF J, top
      <3> QED BY <3>1, <1>1, <1>5
    <2>2. wide(n) = j /\ wide(n - 1) = j /\ j \in Nat
      BY <2>1, <1>1
    <2>3. \A k \in 1 .. j : 2 * k - 1 <= n /\ (2 * k - 1 <= n - 1 <=> k # j)
      BY <2>1, <1>1
    <2>4. at(n) = [k \in 1 .. j |-> <<L[k]>>]
      BY <2>2, <2>3
    <2>5. at(n - 1) = [k \in 1 .. j |-> IF k # j THEN <<L[k]>> ELSE <<>>]
      BY <2>2, <2>3
    <2>6. Len(at(n - 1)) = j
      BY <2>2, <2>5
    <2>7. J[n] = L[j] /\ Append(<<>>, L[j]) = <<L[j]>>
      BY <2>1, <1>1
    <2> QED BY <2>1, <2>4, <2>5, <2>6, <2>7
  <1> HIDE DEF at, J, wide
  <1>6. whole = step(whole)
    <2>1. ASSUME NEW n \in 1 .. top
          PROVE  n # 0 /\ n - 1 \in 0 .. top /\ n \in 0 .. top
      BY <1>1
    <2> SUFFICES ASSUME NEW n \in 0 .. top
                 PROVE  at(n) = IF n = 0 THEN << <<>> >>
                                ELSE IF J[n] = "." THEN Append(whole[n - 1], <<>>)
                                ELSE [whole[n - 1] EXCEPT ![Len(whole[n - 1])] = Append(@, J[n])]
      BY Zenon
    <2>2. CASE n = 0
      BY <2>2, <1>3, Zenon
    <2>3. CASE n # 0
      <3>1. n \in 1 .. top /\ n - 1 \in 0 .. top
        BY <2>3, <1>1
      <3>2. whole[n - 1] = at(n - 1)
        BY <3>1, Zenon
      <3> QED BY <3>1, <3>2, <2>3, <1>4, <1>5, Zenon
    <2> QED BY <2>2, <2>3
  <1>7. parts = step(parts)
    <2> HIDE DEF whole, step
    <2> QED BY <1>6, Zenon
  <1>8. \A n \in 0 .. top : parts[n] = at(n)
    <2> DEFINE Bad == {n \in Nat : n <= top /\ parts[n] # at(n)}
    <2> HIDE DEF parts
    <2> SUFFICES ASSUME Bad # {} PROVE FALSE
      BY <1>1
    <2>1. PICK n \in Bad : \A m \in Bad : n <= m
      BY LeastNat
    <2>2. n \in 0 .. top /\ parts[n] # at(n)
      BY <1>1
    <2>3. parts[n] = IF n = 0 THEN << <<>> >>
                     ELSE IF J[n] = "." THEN Append(parts[n - 1], <<>>)
                     ELSE [parts[n - 1] EXCEPT ![Len(parts[n - 1])] = Append(@, J[n])]
      <3>1. step(parts)[n] = IF n = 0 THEN << <<>> >>
                     ELSE IF J[n] = "." THEN Append(parts[n - 1], <<>>)
                     ELSE [parts[n - 1] EXCEPT ![Len(parts[n - 1])] = Append(@, J[n])]
        BY <2>2, Zenon
      <3> HIDE DEF step
      <3> QED BY <3>1, <1>7, Zenon
    <2>4. CASE n = 0
      BY <2>2, <2>3, <2>4, <1>3
    <2>5. CASE n # 0
      <3>1. n \in 1 .. top /\ n - 1 \in Nat /\ n - 1 <= top /\ ~ (n <= n - 1)
        BY <2>2, <2>5, <1>1
      <3>2. n - 1 \notin Bad
        BY <2>1, <3>1
      <3>3. parts[n - 1] = at(n - 1)
        BY <3>1, <3>2
      <3> QED BY <3>1, <3>3, <2>2, <2>3, <2>5, <1>4, <1>5, Zenon
    <2> QED BY <2>4, <2>5
  <1>9. at(top) = [k \in 1 .. Len(L) |-> <<L[k]>>]
    <2>1. wide(top) = Len(L)
      BY <1>1 DEF wide
    <2>2. \A k \in 1 .. Len(L) : 2 * k - 1 <= top
      BY <1>1
    <2> QED BY <2>1, <2>2, Zenon DEF at
  <1>10. top \in 0 .. top
    BY <1>1
  <1> HIDE DEF parts
  <1> QED BY <1>2, <1>8, <1>9, <1>10, Zenon DEF J

-----------------------------------------------------------------------------
(***************************************************************************)
(* Dots at the end, and suffixes.                                          *)
(***************************************************************************)
LEMMA DotsText ==
  ASSUME NEW n \in Nat
  PROVE  Dots(n) \in Texts /\ Len(Dots(n)) = n /\ \A i \in 1 .. n : Dots(n)[i] = "."
  <1>1. \A i \in 1 .. n : "." \in Tokens
    BY DEF Tokens, Marks
  <1>2. [i \in 1 .. n |-> "."] \in Seq(Tokens)
    BY <1>1, IsASeq
  <1> QED BY <1>2 DEF Dots, Texts

\* str::trim_end_matches takes the dots at the end and nothing else.
LEMMA TrimDotsCuts ==
  ASSUME NEW a \in Texts, a # <<>> => a[Len(a)] # ".", NEW n \in Nat
  PROVE  TrimDots(a \o Dots(n)) = a
  <1> DEFINE text == a \o Dots(n)
             I == {i \in 1 .. Len(text) : text[i] # "."}
  <1>1. /\ text \in Texts /\ Len(text) = Len(a) + n
        /\ \A i \in 1 .. Len(a) + n :
              text[i] = IF i <= Len(a) THEN a[i] ELSE Dots(n)[i - Len(a)]
    <2>1. Dots(n) \in Texts /\ Len(Dots(n)) = n
      BY DotsText
    <2> QED BY <2>1, ConcatProperties DEF Texts
  <1>0. Len(a) \in Nat /\ \A i \in 1 .. n : Dots(n)[i] = "."
    BY DotsText DEF Texts
  <1>2. TrimDots(text) = SubSeq(text, 1, IF I # {} THEN Max(I) ELSE 0)
    BY Zenon DEF TrimDots, SelectLastInSeq
  <1>3. (IF I # {} THEN Max(I) ELSE 0) = Len(a)
    <2>1. \A i \in I : i <= Len(a)
      <3> SUFFICES ASSUME NEW i \in I, i > Len(a) PROVE FALSE
        BY <1>0, <1>1
      <3> QED BY <1>0, <1>1
    <2>2. CASE Len(a) = 0
      BY <2>1, <2>2
    <2>3. CASE Len(a) # 0
      <3>1. Len(a) \in I
        BY <1>0, <1>1, <2>3
      <3>2. I \in SUBSET Int /\ \A i \in I : Len(a) >= i
        BY <2>1, <1>0
      <3> HIDE DEF I
      <3> QED BY <3>1, <3>2, MaxIs
    <2> QED BY <2>2, <2>3
  <1>4. TrimDots(text) = SubSeq(text, 1, Len(a))
    BY <1>2, <1>3, Zenon
  <1> QED BY <1>4, CutFront, DotsText

\* A text is what TrimDots leaves of it, and dots.
LEMMA TrimDotsSplits ==
  ASSUME NEW text \in Texts
  PROVE  /\ TrimDots(text) \in Texts
         /\ TrimDots(text) # <<>> => TrimDots(text)[Len(TrimDots(text))] # "."
         /\ \E n \in 0 .. Len(text) : text = TrimDots(text) \o Dots(n)
  <1> DEFINE I == {i \in 1 .. Len(text) : text[i] # "."}
             last == IF I # {} THEN Max(I) ELSE 0
             trimmed == SubSeq(text, 1, last)
             n == Len(text) - last
  <1>1. TrimDots(text) = trimmed
    BY Zenon DEF TrimDots, SelectLastInSeq
  <1>2. Len(text) \in Nat /\ \A i \in 1 .. Len(text) : text[i] \in Tokens
    BY ElementOfSeq DEF Texts
  <1>3. /\ last \in 0 .. Len(text)
        /\ last > 0 => text[last] # "."
        /\ \A i \in 1 .. Len(text) : i > last => text[i] = "."
    <2>1. CASE I = {}
      BY <2>1, <1>2
    <2>2. CASE I # {}
      <3>1. I \in SUBSET Nat /\ I \in SUBSET Int /\ \A i \in I : i <= Len(text)
        BY <1>2
      <3>2. PICK x \in I : \A y \in I : x >= y
        BY <3>1, <2>2, <1>2, GreatestNat
      <3>3. Max(I) = x
        <4> HIDE DEF I
        <4> QED BY <3>1, <3>2, MaxIs
      <3>4. \A i \in 1 .. Len(text) : i > x => text[i] = "."
        BY <3>2, <1>2
      <3>5. last = x /\ x \in 1 .. Len(text) /\ text[x] # "."
        BY <3>2, <3>3, <2>2
      <3> HIDE DEF last
      <3> QED BY <3>4, <3>5, <1>2
    <2> QED BY <2>1, <2>2
  <1> HIDE DEF last
  <1>4. /\ trimmed \in Texts /\ Len(trimmed) = last
        /\ \A i \in 1 .. last : trimmed[i] = text[i]
    <2>1. \A i \in 1 .. last : text[i] \in Tokens
      BY <1>2, <1>3
    <2>2. /\ trimmed \in Seq(Tokens)
          /\ Len(trimmed) = IF 1 <= last THEN last - 1 + 1 ELSE 0
          /\ \A i \in 1 .. last - 1 + 1 : trimmed[i] = text[1 + i - 1]
      BY <2>1, <1>2, <1>3, SubSeqProperties
    <2> QED BY <2>2, <1>2, <1>3 DEF Texts
  <1> HIDE DEF trimmed
  <1>5. n \in 0 .. Len(text) /\ n \in Nat
    BY <1>2, <1>3
  <1>6. /\ trimmed \o Dots(n) \in Texts /\ Len(trimmed \o Dots(n)) = Len(text)
        /\ \A i \in 1 .. Len(text) :
              (trimmed \o Dots(n))[i] = IF i <= last THEN trimmed[i] ELSE Dots(n)[i - last]
    <2>1. Dots(n) \in Texts /\ Len(Dots(n)) = n
      BY <1>5, DotsText
    <2>2. last + n = Len(text)
      BY <1>2, <1>3
    <2> HIDE DEF n
    <2> QED BY <2>1, <2>2, <1>4, ConcatProperties DEF Texts
  <1>7. \A i \in 1 .. Len(text) : (trimmed \o Dots(n))[i] = text[i]
    <2>1. \A i \in 1 .. n : Dots(n)[i] = "."
      BY <1>5, DotsText
    <2>2. \A i \in 1 .. Len(text) : i > last => i - last \in 1 .. n
      BY <1>2, <1>3
    <2> HIDE DEF n
    <2> QED BY <2>1, <2>2, <1>3, <1>4, <1>6, <1>2
  <1>8. trimmed \o Dots(n) = text
    BY <1>6, <1>7, SeqEqual DEF Texts
  <1>9. trimmed # <<>> => last > 0
    BY <1>4, <1>3, EmptySeq DEF Texts
  <1>10. trimmed # <<>> => trimmed[Len(trimmed)] # "."
    <2>1. last > 0 => last \in 1 .. last /\ trimmed[last] = text[last]
      BY <1>3, <1>4
    <2> QED BY <2>1, <1>3, <1>4, <1>9
  <1>11. \E m \in 0 .. Len(text) : text = trimmed \o Dots(m)
    BY <1>5, <1>8
  <1> QED BY <1>1, <1>4, <1>10, <1>11, Zenon

\* IsSuffix of the community module, token by token.
LEMMA SuffixIs ==
  ASSUME NEW a \in Texts, NEW b \in Texts
  PROVE  IsSuffix(a, b) <=> /\ Len(a) <= Len(b)
                            /\ \A i \in 1 .. Len(a) : b[(Len(b) - Len(a)) + i] = a[i]
  <1> DEFINE la == Len(a)
             lb == Len(b)
  <1>1. la \in Nat /\ lb \in Nat
    BY DEF Texts
  <1>2. /\ Reverse(a) \in Texts /\ Len(Reverse(a)) = la
        /\ \A i \in 1 .. la : Reverse(a)[i] = a[la - i + 1]
    <2>1. \A i \in 1 .. la : a[la - i + 1] \in Tokens
      BY ElementOfSeq, <1>1 DEF Texts
    <2>2. [i \in 1 .. la |-> a[la - i + 1]] \in Seq(Tokens)
      BY <2>1, <1>1, IsASeq
    <2> QED BY <2>2, <1>1 DEF Reverse, Texts
  <1>3. /\ Reverse(b) \in Texts /\ Len(Reverse(b)) = lb
        /\ \A i \in 1 .. lb : Reverse(b)[i] = b[lb - i + 1]
    <2>1. \A i \in 1 .. lb : b[lb - i + 1] \in Tokens
      BY ElementOfSeq, <1>1 DEF Texts
    <2>2. [i \in 1 .. lb |-> b[lb - i + 1]] \in Seq(Tokens)
      BY <2>1, <1>1, IsASeq
    <2> QED BY <2>2, <1>1 DEF Reverse, Texts
  <1> DEFINE ra == Reverse(a)
             rb == Reverse(b)
  <1>4. IsSuffix(a, b) <=> la <= lb /\ SubSeq(ra, 1, la) = SubSeq(rb, 1, la)
    BY <1>2, <1>3, Zenon DEF IsSuffix, IsPrefix
  <1>5. ASSUME la <= lb
        PROVE  SubSeq(ra, 1, la) = SubSeq(rb, 1, la) <=> \A i \in 1 .. la : ra[i] = rb[i]
    <2> HIDE DEF ra, rb
    <2>1. SubSeq(ra, 1, la) = ra
      BY <1>2, SubSeqFull DEF Texts, ra
    <2>2. \A i \in 1 .. la : rb[i] \in Tokens
      BY <1>3, <1>1, <1>5, ElementOfSeq DEF Texts, rb
    <2>3. /\ SubSeq(rb, 1, la) \in Seq(Tokens)
          /\ Len(SubSeq(rb, 1, la)) = la
          /\ \A i \in 1 .. la : SubSeq(rb, 1, la)[i] = rb[i]
      <3>1. /\ SubSeq(rb, 1, la) \in Seq(Tokens)
            /\ Len(SubSeq(rb, 1, la)) = IF 1 <= la THEN la - 1 + 1 ELSE 0
            /\ \A i \in 1 .. la - 1 + 1 : SubSeq(rb, 1, la)[i] = rb[1 + i - 1]
        BY <2>2, <1>1, SubSeqProperties
      <3> QED BY <3>1, <1>1
    <2>4. ra \in Seq(Tokens) /\ Len(ra) = la
      BY <1>2 DEF ra, Texts
    <2>5. (\A i \in 1 .. la : ra[i] = rb[i]) => SubSeq(rb, 1, la) = ra
      BY <2>3, <2>4, SeqEqual
    <2> QED BY <2>1, <2>3, <2>5
  <1>6. ASSUME la <= lb
        PROVE  (\A i \in 1 .. la : ra[i] = rb[i])
                 <=> \A i \in 1 .. la : b[(lb - la) + i] = a[i]
    <2>1. \A i \in 1 .. la : ra[i] = a[la - i + 1] /\ rb[i] = b[lb - i + 1]
      BY <1>1, <1>2, <1>3, <1>6
    <2>2. ASSUME \A i \in 1 .. la : ra[i] = rb[i], NEW i \in 1 .. la
          PROVE  b[(lb - la) + i] = a[i]
      <3>1. la - i + 1 \in 1 .. la
        BY <1>1
      <3>2. a[la - (la - i + 1) + 1] = b[lb - (la - i + 1) + 1]
        <4> DEFINE j == la - i + 1
        <4>1. j \in 1 .. la
          BY <3>1
        <4> HIDE DEF j
        <4>2. ra[j] = a[la - j + 1] /\ rb[j] = b[lb - j + 1] /\ ra[j] = rb[j]
          BY <4>1, <2>1, <2>2
        <4>3. a[la - j + 1] = b[lb - j + 1]
          BY <4>2
        <4> QED BY <4>3 DEF j
      <3>3. la - (la - i + 1) + 1 = i /\ lb - (la - i + 1) + 1 = (lb - la) + i
        BY <1>1
      <3> QED BY <3>2, <3>3
    <2>3. ASSUME \A i \in 1 .. la : b[(lb - la) + i] = a[i], NEW i \in 1 .. la
          PROVE  ra[i] = rb[i]
      <3>1. la - i + 1 \in 1 .. la
        BY <1>1
      <3>2. b[(lb - la) + (la - i + 1)] = a[la - i + 1]
        BY <3>1, <2>3
      <3>3. (lb - la) + (la - i + 1) = lb - i + 1
        BY <1>1
      <3> QED BY <3>2, <3>3, <2>1
    <2> QED BY <2>2, <2>3
  <1> QED BY <1>4, <1>5, <1>6

-----------------------------------------------------------------------------
(***************************************************************************)
(* Lower case, and what a suffix matches.                                  *)
(***************************************************************************)
\* str::to_lowercase leaves marks alone and makes no word a mark.
LEMMA LowerText ==
  ASSUME NEW text \in Texts
  PROVE  /\ Lower(text) \in Texts /\ Len(Lower(text)) = Len(text)
         /\ \A i \in 1 .. Len(text) :
               /\ text[i] \in Marks => Lower(text)[i] = text[i]
               /\ text[i] \notin Marks => Lower(text)[i] \notin Marks
  <1> DEFINE low(i) == IF text[i] \in DOMAIN Words THEN Words[text[i]].lower ELSE text[i]
  <1>1. Len(text) \in Nat /\ DOMAIN text = 1 .. Len(text)
        /\ \A i \in 1 .. Len(text) : text[i] \in Tokens
    BY ElementOfSeq DEF Texts
  <1>2. \A i \in 1 .. Len(text) : low(i) \in Tokens
    BY <1>1 DEF Tokens
  <1>3. [i \in 1 .. Len(text) |-> low(i)] \in Seq(Tokens)
    <2> HIDE DEF low
    <2> QED BY <1>1, <1>2, IsASeq
  <1>4. Lower(text) = [i \in 1 .. Len(text) |-> low(i)]
    BY <1>1, Zenon DEF Lower
  <1>5. \A i \in 1 .. Len(text) :
           /\ text[i] \in Marks => low(i) = text[i]
           /\ text[i] \notin Marks => low(i) \notin Marks
    BY WordsAssumption
  <1> HIDE DEF low
  <1> QED BY <1>1, <1>3, <1>4, <1>5 DEF Texts

\* Labels in lower case are labels.
LEMMA LowerLabels ==
  ASSUME NEW L \in Undotted
  PROVE  Lower(L) \in Undotted /\ Len(Lower(L)) = Len(L)
  <1>1. L \in Texts /\ \A i \in 1 .. Len(L) : L[i] \in Tokens \ {"."}
    <2>1. Seq(Tokens \ {"."}) \subseteq Seq(Tokens)
      BY SeqMonotonic
    <2> QED BY <2>1, ElementOfSeq DEF Undotted, Texts
  <1>2. /\ Lower(L) \in Texts /\ Len(Lower(L)) = Len(L)
        /\ \A i \in 1 .. Len(L) :
              /\ L[i] \in Marks => Lower(L)[i] = L[i]
              /\ L[i] \notin Marks => Lower(L)[i] \notin Marks
    BY <1>1, LowerText
  <1>3. "." \in Marks
    BY DEF Marks
  <1>4. \A i \in 1 .. Len(L) : Lower(L)[i] \in Tokens \ {"."}
    <2> SUFFICES ASSUME NEW i \in 1 .. Len(L) PROVE Lower(L)[i] \in Tokens \ {"."}
      OBVIOUS
    <2>1. Lower(L)[i] \in Tokens
      BY <1>2, ElementOfSeq DEF Texts
    <2>2. Lower(L)[i] # "."
      <3>1. L[i] # "."
        BY <1>1
      <3>2. /\ L[i] \in Marks => Lower(L)[i] = L[i]
            /\ L[i] \notin Marks => Lower(L)[i] \notin Marks
        BY <1>2
      <3> QED BY <3>1, <3>2, <1>3, Zenon
    <2> QED BY <2>1, <2>2
  <1>5. Len(L) \in Nat /\ Lower(L) \in [1 .. Len(L) -> Tokens]
    BY <1>1, <1>2, LenProperties DEF Texts
  <1>6. Lower(L) = [i \in 1 .. Len(L) |-> Lower(L)[i]]
    BY <1>5
  <1>7. [i \in 1 .. Len(L) |-> Lower(L)[i]] \in Seq(Tokens \ {"."})
    BY <1>4, <1>5, IsASeq
  <1> QED BY <1>2, <1>6, <1>7 DEF Undotted

\* Joining and lowering can be swapped.
LEMMA LowerJoined ==
  ASSUME NEW L \in Undotted, L # <<>>
  PROVE  Lower(L) # <<>> /\ Lower(Joined(L)) = Joined(Lower(L))
  <1> DEFINE M == Lower(L)
  <1>1. M \in Undotted /\ Len(M) = Len(L) /\ M # <<>>
    <2>1. M \in Undotted /\ Len(M) = Len(L)
      BY LowerLabels
    <2>2. Len(L) > 0
      BY JoinedPlaces
    <2> QED BY <2>1, <2>2
  <1> HIDE DEF M
  <1>2. /\ Len(L) \in Nat /\ Len(L) > 0
        /\ Joined(L) \in Texts /\ Len(Joined(L)) = 2 * Len(L) - 1
        /\ \A k \in 1 .. Len(L) : Joined(L)[2 * k - 1] = L[k]
        /\ \A k \in 1 .. Len(L) - 1 : Joined(L)[2 * k] = "."
    BY JoinedPlaces
  <1>3. /\ Joined(M) \in Texts /\ Len(Joined(M)) = 2 * Len(L) - 1
        /\ \A k \in 1 .. Len(L) : Joined(M)[2 * k - 1] = M[k]
        /\ \A k \in 1 .. Len(L) - 1 : Joined(M)[2 * k] = "."
    BY <1>1, JoinedPlaces
  <1>4. Lower(Joined(L)) \in Texts /\ Len(Lower(Joined(L))) = 2 * Len(L) - 1
    BY <1>2, LowerText
  <1>5. \A i \in 1 .. 2 * Len(L) - 1 :
           Lower(Joined(L))[i] = IF Joined(L)[i] \in DOMAIN Words
                                 THEN Words[Joined(L)[i]].lower ELSE Joined(L)[i]
    BY <1>2, LenProperties DEF Lower, Texts
  <1>6. \A k \in 1 .. Len(L) :
           M[k] = IF L[k] \in DOMAIN Words THEN Words[L[k]].lower ELSE L[k]
    BY <1>2, LenProperties DEF M, Lower, Undotted
  <1>7. "." \notin DOMAIN Words
    BY WordsAssumption DEF Marks
  <1>8. ASSUME NEW i \in 1 .. 2 * Len(L) - 1 PROVE Lower(Joined(L))[i] = Joined(M)[i]
    <2>1. \/ \E k \in 1 .. Len(L) : i = 2 * k - 1
          \/ \E k \in 1 .. Len(L) - 1 : i = 2 * k
      BY <1>2, OddOrEven
    <2>2. CASE \E k \in 1 .. Len(L) : i = 2 * k - 1
      <3>1. PICK k \in 1 .. Len(L) : i = 2 * k - 1
        BY <2>2
      <3>2. Joined(L)[i] = L[k] /\ Joined(M)[i] = M[k]
        BY <3>1, <1>2, <1>3
      <3> QED BY <3>2, <1>5, <1>6
    <2>3. CASE \E k \in 1 .. Len(L) - 1 : i = 2 * k
      <3>1. PICK k \in 1 .. Len(L) - 1 : i = 2 * k
        BY <2>3
      <3>2. Joined(L)[i] = "." /\ Joined(M)[i] = "."
        BY <3>1, <1>2, <1>3
      <3> QED BY <3>2, <1>5, <1>7
    <2> QED BY <2>1, <2>2, <2>3
  <1>9. Lower(Joined(L)) = Joined(M)
    BY <1>3, <1>4, <1>8, SeqEqual DEF Texts
  <1> QED BY <1>1, <1>9 DEF M

\* domain_matches_suffix, asked of a host without dots around it, when E is the
\* host and what is behind each of its dots: the suffix is one of E but for dots.
LEMMA MatchIsEnd ==
  ASSUME NEW h \in Texts, h # <<>>, h[Len(h)] # ".",
         NEW E \in SUBSET Texts,
         \A e \in E : e # <<>> /\ e[1] # "." /\ e[Len(e)] # ".",
         \A s \in Texts : s \in E <=> s = h \/ IsSuffix(<<".">> \o s, h),
         NEW suffix \in Texts
  PROVE  DomainMatchesSuffix(h, suffix)
           <=> \E e \in E, front \in {<<>>, <<".">>}, n \in 0 .. Len(suffix) :
                  suffix = front \o e \o Dots(n)
  <1> DEFINE trimmed == TrimDots(suffix)
             s == BareSuffix(suffix)
  <1>1. TrimDots(h) = h
    <2>1. h \o Dots(0) = h
      <3>1. Dots(0) = <<>>
        BY DotsText, EmptySeq DEF Texts
      <3> QED BY <3>1, ConcatEmptySeq DEF Texts
    <2>2. TrimDots(h \o Dots(0)) = h
      BY TrimDotsCuts
    <2> QED BY <2>1, <2>2
  <1>2. /\ trimmed \in Texts
        /\ trimmed # <<>> => trimmed[Len(trimmed)] # "."
        /\ \E n \in 0 .. Len(suffix) : suffix = trimmed \o Dots(n)
    BY TrimDotsSplits
  <1>3. s = IF trimmed # <<>> /\ trimmed[1] = "." THEN Tail(trimmed) ELSE trimmed
    BY DEF BareSuffix
  <1>4. <<".">> \in Texts /\ <<>> \in Texts /\ Len(<<".">>) = 1
    BY EmptySeq DEF Texts, Tokens, Marks
  <1> HIDE DEF trimmed, s
  <1>5. s \in Texts /\ \E front \in {<<>>, <<".">>} : trimmed = front \o s
    <2>1. CASE trimmed # <<>> /\ trimmed[1] = "."
      <3>1. s \in Texts /\ Len(s) = Len(trimmed) - 1 /\ Len(trimmed) \in Nat
            /\ \A i \in 1 .. Len(s) : s[i] = trimmed[i + 1]
        BY <2>1, <1>2, <1>3, HeadTailProperties DEF Texts
      <3>2. /\ <<".">> \o s \in Texts /\ Len(<<".">> \o s) = 1 + Len(s)
            /\ \A i \in 1 .. 1 + Len(s) :
                  (<<".">> \o s)[i] = IF i <= 1 THEN <<".">>[i] ELSE s[i - 1]
        BY <3>1, <1>4, ConcatProperties DEF Texts
      <3>3. \A i \in 1 .. Len(trimmed) : (<<".">> \o s)[i] = trimmed[i]
        BY <3>1, <3>2, <2>1
      <3>4. <<".">> \o s = trimmed
        <4>1. Len(<<".">> \o s) = Len(trimmed)
          BY <3>1, <3>2
        <4> QED BY <4>1, <3>2, <3>3, <1>2, SeqEqual DEF Texts
      <3> QED BY <3>1, <3>4
    <2>2. CASE ~ (trimmed # <<>> /\ trimmed[1] = ".")
      BY <2>2, <1>2, <1>3, ConcatEmptySeq DEF Texts
    <2> QED BY <2>1, <2>2
  <1>6. DomainMatchesSuffix(h, suffix) <=> s \in E
    <2>1. DomainMatchesSuffix(h, suffix) <=> h = s \/ IsSuffix(<<".">> \o s, h)
      BY <1>1, Zenon DEF DomainMatchesSuffix, s
    <2> QED BY <2>1, <1>5
  <1>7. ASSUME s \in E
        PROVE  \E e \in E, front \in {<<>>, <<".">>}, n \in 0 .. Len(suffix) :
                  suffix = front \o e \o Dots(n)
    BY <1>2, <1>5, <1>7
  <1>8. ASSUME NEW e \in E, NEW front \in {<<>>, <<".">>}, NEW n \in 0 .. Len(suffix),
               suffix = front \o e \o Dots(n)
        PROVE  s \in E
    <2> DEFINE a == front \o e
    <2>1. /\ a \in Texts /\ Len(a) = Len(front) + Len(e)
          /\ \A i \in 1 .. Len(front) + Len(e) :
                a[i] = IF i <= Len(front) THEN front[i] ELSE e[i - Len(front)]
      <3>1. front \in Texts /\ e \in Texts
        BY <1>4
      <3> QED BY <3>1, ConcatProperties DEF Texts
    <2>2. Len(e) \in Nat /\ Len(e) > 0 /\ e[1] # "." /\ e[Len(e)] # "." /\ e \in Texts
      BY EmptySeq DEF Texts
    <2>3. Len(front) \in {0, 1} /\ n \in Nat
      BY <1>4
    <2>4. a # <<>> /\ a[Len(a)] = e[Len(e)]
      <3>1. Len(front) + Len(e) \in 1 .. Len(front) + Len(e)
            /\ ~ (Len(front) + Len(e) <= Len(front))
            /\ (Len(front) + Len(e)) - Len(front) = Len(e)
        BY <2>2, <2>3
      <3>2. a[Len(front) + Len(e)] = e[Len(e)]
        BY <3>1, <2>1
      <3> HIDE DEF a
      <3> QED BY <3>1, <3>2, <2>1, <2>2, <2>3
    <2>5. trimmed = a
      <3> HIDE DEF a
      <3>1. TrimDots(a \o Dots(n)) = a
        BY <2>1, <2>2, <2>3, <2>4, TrimDotsCuts
      <3> QED BY <3>1, <1>8 DEF a, trimmed
    <2>6. CASE front = <<>>
      <3>1. a = e
        BY <2>6, <2>2, ConcatEmptySeq DEF Texts
      <3> QED BY <3>1, <2>2, <2>5, <1>3
    <2>7. CASE front = <<".">>
      <3>1. a[1] = "." /\ Len(a) = 1 + Len(e) /\ \A i \in 1 .. Len(e) : a[i + 1] = e[i]
        BY <2>7, <2>1, <2>2
      <3> HIDE DEF a
      <3>2. s = Tail(a)
        BY <3>1, <2>4, <2>5, <1>3
      <3>3. /\ Tail(a) \in Texts /\ Len(Tail(a)) = Len(e)
            /\ \A i \in 1 .. Len(e) : Tail(a)[i] = e[i]
        <4>1. Len(Tail(a)) = Len(a) - 1 /\ Tail(a) \in Seq(Tokens)
              /\ \A i \in 1 .. Len(Tail(a)) : Tail(a)[i] = a[i + 1]
          BY <2>1, <2>4, HeadTailProperties DEF Texts
        <4> QED BY <4>1, <3>1, <2>2 DEF Texts
      <3>4. Tail(a) = e
        BY <3>3, <2>2, SeqEqual DEF Texts
      <3> QED BY <3>2, <3>4
    <2> QED BY <2>6, <2>7
  <1> QED BY <1>6, <1>7, <1>8

\* The last labels, joined, are the end of all the labels joined.
LEMMA JoinedTail ==
  ASSUME NEW L \in Undotted, L # <<>>, NEW m \in 1 .. Len(L)
  PROVE  LET K == SubSeq(L, m, Len(L))
         IN /\ K \in Undotted /\ K # <<>> /\ Joined(K) \in Texts
            /\ Len(Joined(K)) = Len(Joined(L)) - 2 * (m - 1)
            /\ \A i \in 1 .. Len(Joined(K)) : Joined(K)[i] = Joined(L)[2 * (m - 1) + i]
  <1> DEFINE K == SubSeq(L, m, Len(L))
             n == Len(L)
             r == Len(L) - m + 1
  <1>1. /\ n \in Nat /\ Len(Joined(L)) = 2 * n - 1
        /\ \A k \in 1 .. n : Joined(L)[2 * k - 1] = L[k]
        /\ \A k \in 1 .. n - 1 : Joined(L)[2 * k] = "."
    BY JoinedPlaces
  <1>2. K \in Undotted /\ Len(K) = r /\ \A i \in 1 .. r : K[i] = L[(m - 1) + i]
    <2>1. \A i \in m .. n : L[i] \in Tokens \ {"."}
      BY ElementOfSeq, <1>1 DEF Undotted
    <2>2. m \in Int /\ n \in Int /\ m <= n
      BY <1>1
    <2>3. /\ K \in Seq(Tokens \ {"."})
          /\ Len(K) = IF m <= n THEN n - m + 1 ELSE 0
          /\ \A i \in 1 .. n - m + 1 : K[i] = L[m + i - 1]
      BY <2>1, <2>2, SubSeqProperties
    <2>4. \A i \in 1 .. r : K[i] = L[(m - 1) + i]
      <3> SUFFICES ASSUME NEW i \in 1 .. r PROVE K[i] = L[(m - 1) + i]
        OBVIOUS
      <3>1. m + i - 1 = (m - 1) + i
        BY <1>1
      <3> HIDE DEF K
      <3> QED BY <3>1, <2>3
    <2> QED BY <2>2, <2>3, <2>4 DEF Undotted
  <1>3. r \in Nat /\ r > 0
    BY <1>1
  <1> HIDE DEF K
  <1>4. K # <<>>
    BY <1>2, <1>3
  <1>5. /\ Joined(K) \in Texts /\ Len(Joined(K)) = 2 * r - 1
        /\ \A k \in 1 .. r : Joined(K)[2 * k - 1] = K[k]
        /\ \A k \in 1 .. r - 1 : Joined(K)[2 * k] = "."
    BY <1>2, <1>4, JoinedPlaces
  <1>6. ASSUME NEW i \in 1 .. 2 * r - 1
        PROVE  Joined(K)[i] = Joined(L)[2 * (m - 1) + i]
    <2>1. \/ \E k \in 1 .. r : i = 2 * k - 1
          \/ \E k \in 1 .. r - 1 : i = 2 * k
      BY <1>3, OddOrEven
    <2>2. CASE \E k \in 1 .. r : i = 2 * k - 1
      <3>1. PICK k \in 1 .. r : i = 2 * k - 1
        BY <2>2
      <3>2. (m - 1) + k \in 1 .. n /\ 2 * ((m - 1) + k) - 1 = 2 * (m - 1) + i
        BY <3>1, <1>1
      <3>3. Joined(L)[2 * ((m - 1) + k) - 1] = L[(m - 1) + k]
        BY <3>2, <1>1
      <3> QED BY <3>1, <3>2, <3>3, <1>2, <1>5
    <2>3. CASE \E k \in 1 .. r - 1 : i = 2 * k
      <3>1. PICK k \in 1 .. r - 1 : i = 2 * k
        BY <2>3
      <3>2. (m - 1) + k \in 1 .. n - 1 /\ 2 * ((m - 1) + k) = 2 * (m - 1) + i
        BY <3>1, <1>1
      <3>3. Joined(L)[2 * ((m - 1) + k)] = "."
        BY <3>2, <1>1
      <3> QED BY <3>1, <3>2, <3>3, <1>5
    <2> QED BY <2>1, <2>2, <2>3
  <1>7. 2 * r - 1 = (2 * n - 1) - 2 * (m - 1)
    BY <1>1
  <1> QED BY <1>1, <1>2, <1>4, <1>5, <1>6, <1>7 DEF K

\* What is behind a dot of joined labels is the last labels joined.
LEMMA EndsOfJoined ==
  ASSUME NEW L \in Undotted, L # <<>>, NEW s \in Texts
  PROVE  (\E k \in 1 .. Len(L) : s = Joined(SubSeq(L, k, Len(L))))
           <=> s = Joined(L) \/ IsSuffix(<<".">> \o s, Joined(L))
  <1> DEFINE J == Joined(L)
             d == <<".">> \o s
             n == Len(L)
             b == Len(J)
             end(k) == Joined(SubSeq(L, k, n))
  <1>1. /\ n \in Nat /\ n > 0 /\ J \in Texts /\ b = 2 * n - 1
        /\ \A k \in 1 .. n : J[2 * k - 1] = L[k] /\ L[k] # "."
        /\ \A k \in 1 .. n - 1 : J[2 * k] = "."
    BY JoinedPlaces, ElementOfSeq DEF Undotted
  <1>2. /\ d \in Texts /\ Len(d) = 1 + Len(s) /\ Len(s) \in Nat
        /\ d[1] = "." /\ \A i \in 1 .. Len(s) : d[i + 1] = s[i]
    <2>1. <<".">> \in Texts /\ Len(<<".">>) = 1 /\ Len(s) \in Nat
      BY DEF Texts, Tokens, Marks
    <2>2. /\ d \in Texts /\ Len(d) = 1 + Len(s)
          /\ \A i \in 1 .. 1 + Len(s) : d[i] = IF i <= 1 THEN <<".">>[i] ELSE s[i - 1]
      BY <2>1, ConcatProperties DEF Texts
    <2>3. d[1] = "."
      BY <2>1, <2>2
    <2>4. \A i \in 1 .. Len(s) : d[i + 1] = s[i]
      <3> SUFFICES ASSUME NEW i \in 1 .. Len(s) PROVE d[i + 1] = s[i]
        OBVIOUS
      <3>1. i + 1 \in 1 .. 1 + Len(s) /\ ~ (i + 1 <= 1) /\ (i + 1) - 1 = i
        BY <2>1
      <3> HIDE DEF d
      <3> QED BY <3>1, <2>2
    <2> QED BY <2>1, <2>2, <2>3, <2>4
  <1>3. ASSUME NEW k \in 1 .. n
        PROVE  /\ end(k) \in Texts /\ Len(end(k)) = b - 2 * (k - 1)
               /\ \A i \in 1 .. Len(end(k)) : end(k)[i] = J[2 * (k - 1) + i]
    BY JoinedTail
  <1> HIDE DEF J, d, end
  <1>4. IsSuffix(d, J) <=> /\ 1 + Len(s) <= b
                           /\ \A i \in 1 .. 1 + Len(s) : J[(b - (1 + Len(s))) + i] = d[i]
    <2>1. IsSuffix(d, J) <=> /\ Len(d) <= Len(J)
                             /\ \A i \in 1 .. Len(d) : J[(Len(J) - Len(d)) + i] = d[i]
      BY <1>1, <1>2, SuffixIs
    <2> QED BY <2>1, <1>2, Zenon
  <1>5. end(1) = J
    <2>1. 1 \in 1 .. n /\ b - 2 * (1 - 1) = b /\ \A i \in 1 .. b : 2 * (1 - 1) + i = i
      BY <1>1
    <2>2. end(1) \in Texts /\ Len(end(1)) = b /\ \A i \in 1 .. b : end(1)[i] = J[i]
      <3>1. /\ end(1) \in Texts /\ Len(end(1)) = b - 2 * (1 - 1)
            /\ \A i \in 1 .. Len(end(1)) : end(1)[i] = J[2 * (1 - 1) + i]
        BY <2>1, <1>3, Zenon
      <3> QED BY <2>1, <3>1, Zenon
    <2> QED BY <2>2, <1>1, SeqEqual DEF Texts
  <1>6. ASSUME NEW k \in 1 .. n, s = end(k) PROVE s = J \/ IsSuffix(d, J)
    <2>1. CASE k = 1
      BY <2>1, <1>5, <1>6
    <2>2. CASE k # 1
      <3>1. /\ Len(s) = b - 2 * (k - 1)
            /\ \A i \in 1 .. Len(s) : s[i] = J[2 * (k - 1) + i]
        BY <1>3, <1>6
      <3>2. 1 + Len(s) <= b /\ b - (1 + Len(s)) = 2 * (k - 1) - 1
        BY <3>1, <2>2, <1>1
      <3>3. ASSUME NEW i \in 1 .. 1 + Len(s)
            PROVE  J[(b - (1 + Len(s))) + i] = d[i]
        <4>1. CASE i = 1
          <5>1. (b - (1 + Len(s))) + i = 2 * (k - 1) /\ k - 1 \in 1 .. n - 1
            BY <4>1, <3>2, <2>2, <1>1
          <5> QED BY <5>1, <4>1, <1>1, <1>2
        <4>2. CASE i # 1
          <5>1. i - 1 \in 1 .. Len(s) /\ (i - 1) + 1 = i
                /\ (b - (1 + Len(s))) + i = 2 * (k - 1) + (i - 1)
            <6>1. /\ i \in Nat /\ 1 <= i /\ i <= 1 + Len(s)
                  /\ k \in Nat /\ b \in Nat /\ Len(s) \in Nat
              BY <1>1, <1>2
            <6> HIDE DEF b
            <6> QED BY <6>1, <4>2, <3>2
          <5>2. d[(i - 1) + 1] = s[i - 1] /\ s[i - 1] = J[2 * (k - 1) + (i - 1)]
            BY <5>1, <1>2, <3>1
          <5> QED BY <5>1, <5>2
        <4> QED BY <4>1, <4>2
      <3> QED BY <3>2, <3>3, <1>4
    <2> QED BY <2>1, <2>2
  <1>7. ASSUME IsSuffix(d, J) PROVE \E k \in 1 .. n : s = end(k)
    <2> DEFINE t == b - Len(s)
    <2>1. t \in 1 .. b /\ t = (b - (1 + Len(s))) + 1 /\ 1 \in 1 .. 1 + Len(s)
      BY <1>4, <1>7, <1>1, <1>2
    <2>2. J[t] = "."
      BY <2>1, <1>4, <1>7, <1>2
    <2>3. PICK j \in 1 .. n - 1 : t = 2 * j
      <3>1. \/ \E k \in 1 .. n : t = 2 * k - 1
            \/ \E k \in 1 .. n - 1 : t = 2 * k
        <4> HIDE DEF t
        <4> QED BY <2>1, <1>1, OddOrEven
      <3> HIDE DEF t
      <3> QED BY <3>1, <2>2, <1>1
    <2>4. j + 1 \in 1 .. n /\ 2 * ((j + 1) - 1) = t /\ b - t = Len(s)
      BY <2>3, <1>1, <1>2
    <2>5. /\ end(j + 1) \in Texts /\ Len(end(j + 1)) = Len(s)
          /\ \A i \in 1 .. Len(s) : end(j + 1)[i] = J[t + i]
      <3> HIDE DEF t
      <3> QED BY <2>4, <1>3
    <2>6. ASSUME NEW i \in 1 .. Len(s) PROVE s[i] = J[t + i]
      <3>1. i + 1 \in 1 .. 1 + Len(s) /\ (b - (1 + Len(s))) + (i + 1) = t + i
        BY <1>1, <1>2
      <3>2. J[(b - (1 + Len(s))) + (i + 1)] = d[i + 1]
        BY <3>1, <1>4, <1>7
      <3> QED BY <3>1, <3>2, <1>2
    <2>7. s = end(j + 1)
      <3> HIDE DEF t
      <3> QED BY <2>5, <2>6, SeqEqual DEF Texts
    <2> QED BY <2>4, <2>7
  <1>8. (\E k \in 1 .. n : s = end(k)) <=> s = J \/ IsSuffix(d, J)
    <2>1. 1 \in 1 .. n
      BY <1>1
    <2> QED BY <2>1, <1>5, <1>6, <1>7, Zenon
  <1> QED BY <1>8, Zenon DEF J, d, end

-----------------------------------------------------------------------------
(***************************************************************************)
(* The host of a URL's pieces.                                             *)
(***************************************************************************)
\* The host without the dots behind it, and what stands around a host.
BareHost(p) == IF p.v6 THEN HostTokens(p) ELSE Joined(p.labels)
Around      == {"/", "\\", "?", "#", "@", "%40", "NUL", ":"}

\* The shape of a host without the dots behind it.
LEMMA BareHostShape ==
  ASSUME NEW p \in UrlParts
  PROVE  /\ p.v6 => \E w \in DOMAIN Words :
                      /\ p.labels = <<w>> /\ Kind(w) = "v6"
                      /\ BareHost(p) = <<"[", w, "]">>
         /\ ~ p.v6 => p.labels \in Undotted /\ p.labels # <<>>
         /\ BareHost(p) \in Texts /\ BareHost(p) # <<>>
         /\ BareHost(p)[Len(BareHost(p))] # "."
         /\ \E n \in Nat : HostTokens(p) = BareHost(p) \o Dots(n)
  <1>1. /\ p.labels \in Seq(DOMAIN Words \cup {"%00"}) /\ p.labels # <<>>
        /\ p.v6 \in BOOLEAN /\ p.dots \in Nat
        /\ p.v6 => Len(p.labels) = 1 /\ Kind(p.labels[1]) = "v6"
    BY UrlAssumption
  <1>2. DOMAIN Words \cup {"%00"} \subseteq Tokens \ {"."}
    BY WordsAssumption DEF Tokens, Marks
  <1>3. p.labels \in Undotted
    <2>1. Seq(DOMAIN Words \cup {"%00"}) \subseteq Seq(Tokens \ {"."})
      BY <1>2, SeqMonotonic
    <2> QED BY <1>1, <2>1 DEF Undotted
  <1>4. CASE p.v6
    <2> DEFINE w == p.labels[1]
    <2>1. p.labels = <<w>> /\ Kind(w) = "v6"
      BY <1>1, <1>4
    <2> HIDE DEF w
    <2>2. w \in DOMAIN Words
      BY <2>1 DEF Kind
    <2>3. HostTokens(p) = <<"[", w, "]">>
      <3>1. HostTokens(p) = <<"[">> \o <<w>> \o <<"]">>
        BY <1>4, <2>1 DEF HostTokens
      <3>2. "[" \in Tokens /\ "]" \in Tokens /\ w \in Tokens
        BY <2>2 DEF Tokens, Marks
      <3>3. <<"[">> \in Texts /\ <<w>> \in Texts /\ <<"]">> \in Texts
            /\ <<"[", w, "]">> \in Texts
        BY <3>2 DEF Texts
      <3>4. /\ <<"[">> \o <<w>> \in Texts /\ Len(<<"[">> \o <<w>>) = 2
            /\ (<<"[">> \o <<w>>)[1] = "[" /\ (<<"[">> \o <<w>>)[2] = w
        BY <3>3, ConcatProperties DEF Texts
      <3> DEFINE c == <<"[">> \o <<w>>
      <3> HIDE DEF c
      <3>5. /\ c \o <<"]">> \in Texts /\ Len(c \o <<"]">>) = 3
            /\ (c \o <<"]">>)[1] = "[" /\ (c \o <<"]">>)[2] = w
            /\ (c \o <<"]">>)[3] = "]"
        <4>1. c \in Texts /\ Len(c) = 2 /\ c[1] = "[" /\ c[2] = w
          BY <3>4 DEF c
        <4> QED BY <3>3, <4>1, ConcatProperties DEF Texts
      <3>6. c \o <<"]">> = <<"[", w, "]">>
        <4> DEFINE l == c \o <<"]">>
                   t == <<"[", w, "]">>
        <4>1. Len(t) = 3 /\ t[1] = "[" /\ t[2] = w /\ t[3] = "]"
          OBVIOUS
        <4>2. l \in Seq(Tokens) /\ t \in Seq(Tokens)
          BY <3>3, <3>5 DEF Texts
        <4>3. Len(l) = 3 /\ l[1] = "[" /\ l[2] = w /\ l[3] = "]"
          BY <3>5
        <4> HIDE DEF l, t
        <4>4. \A i \in 1 .. 3 : i = 1 \/ i = 2 \/ i = 3
          OBVIOUS
        <4>5. \A i \in 1 .. Len(l) : l[i] = t[i]
          BY <4>1, <4>3, <4>4
        <4>6. l = t
          BY <4>1, <4>2, <4>3, <4>5, SeqEqual
        <4> QED BY <4>6 DEF l, t
      <3> QED BY <3>1, <3>6 DEF c
    <2>4. "[" \in Tokens /\ "]" \in Tokens /\ w \in Tokens
      BY <2>2 DEF Tokens, Marks
    <2>5. <<"[", w, "]">> \in Texts
      BY <2>4 DEF Texts
    <2>6. HostTokens(p) = HostTokens(p) \o Dots(0)
      <3>1. Dots(0) = <<>>
        BY DotsText, EmptySeq DEF Texts
      <3> QED BY <3>1, <2>3, <2>5, ConcatEmptySeq DEF Texts
    <2>7. BareHost(p) = HostTokens(p)
      BY <1>4 DEF BareHost
    <2>8. BareHost(p) # <<>> /\ BareHost(p)[Len(BareHost(p))] = "]"
      BY <2>3, <2>7
    <2>9. \E n \in Nat : HostTokens(p) = BareHost(p) \o Dots(n)
      BY <2>6, <2>7
    <2> QED BY <1>4, <2>1, <2>2, <2>3, <2>5, <2>7, <2>8, <2>9
  <1>5. CASE ~ p.v6
    <2>1. BareHost(p) = Joined(p.labels) /\ HostTokens(p) = Joined(p.labels) \o Dots(p.dots)
      BY <1>5 DEF BareHost, HostTokens
    <2>2. /\ BareHost(p) \in Texts /\ BareHost(p) # <<>>
          /\ BareHost(p)[Len(BareHost(p))] # "."
      BY <2>1, <1>1, <1>3, JoinedPlaces, JoinedEnds
    <2> QED BY <1>1, <1>3, <1>5, <2>1, <2>2
  <1> QED BY <1>4, <1>5

\* Its tokens: those of its labels, dots and brackets.
LEMMA BareHostTokens ==
  ASSUME NEW p \in UrlParts
  PROVE  /\ HostTokens(p) \in Texts /\ HostTokens(p) # <<>>
         /\ HostTokens(p)[1] = BareHost(p)[1]
         /\ \A i \in 1 .. Len(HostTokens(p)) :
               HostTokens(p)[i] = "." \/ \E j \in 1 .. Len(BareHost(p)) :
                                           HostTokens(p)[i] = BareHost(p)[j]
         /\ \A j \in 1 .. Len(BareHost(p)) :
               /\ j \in 1 .. Len(HostTokens(p)) /\ HostTokens(p)[j] = BareHost(p)[j]
               /\ BareHost(p)[j] \in DOMAIN Words \cup {".", "[", "]", "%00"}
               /\ ~ p.v6 => BareHost(p)[j] \notin {"[", "]"}
         /\ \A k \in 1 .. Len(p.labels) :
               \E j \in 1 .. Len(BareHost(p)) : BareHost(p)[j] = p.labels[k]
         /\ \A j \in 1 .. Len(BareHost(p)) :
               \/ BareHost(p)[j] \in {".", "[", "]"}
               \/ \E k \in 1 .. Len(p.labels) : BareHost(p)[j] = p.labels[k]
  <1> DEFINE b == BareHost(p)
  <1>1. PICK n \in Nat : HostTokens(p) = b \o Dots(n)
    BY BareHostShape
  <1>2. b \in Texts /\ b # <<>> /\ Len(b) \in Nat /\ Len(b) > 0
    BY BareHostShape, EmptySeq DEF Texts
  <1>3. p.labels \in Seq(DOMAIN Words \cup {"%00"}) /\ p.labels # <<>>
    BY UrlAssumption
  <1>8. \A k \in 1 .. Len(p.labels) : p.labels[k] \in DOMAIN Words \cup {"%00"}
    BY <1>3, ElementOfSeq
  <1>9. \A w \in DOMAIN Words \cup {"%00"} : w \notin {".", "[", "]"}
    BY WordsAssumption DEF Marks
  <1>4. /\ \A k \in 1 .. Len(p.labels) : \E j \in 1 .. Len(b) : b[j] = p.labels[k]
        /\ \A j \in 1 .. Len(b) :
              /\ b[j] \in {".", "[", "]"} \/ \E k \in 1 .. Len(p.labels) : b[j] = p.labels[k]
              /\ ~ p.v6 => b[j] \notin {"[", "]"}
    <2>1. CASE p.v6
      <3>1. PICK w \in DOMAIN Words : p.labels = <<w>> /\ b = <<"[", w, "]">>
        BY <2>1, BareHostShape
      <3>2. Len(b) = 3 /\ b[1] = "[" /\ b[2] = w /\ b[3] = "]"
        BY <3>1
      <3>3. Len(p.labels) = 1 /\ p.labels[1] = w
        BY <3>1
      <3> HIDE DEF b
      <3> QED BY <3>2, <3>3, <2>1
    <2>2. CASE ~ p.v6
      <3>1. b = Joined(p.labels) /\ p.labels \in Undotted
        BY <2>2, BareHostShape DEF BareHost
      <3>2. /\ Len(p.labels) \in Nat /\ Len(p.labels) > 0
            /\ Len(b) = 2 * Len(p.labels) - 1
            /\ \A k \in 1 .. Len(p.labels) : b[2 * k - 1] = p.labels[k]
            /\ \A k \in 1 .. Len(p.labels) - 1 : b[2 * k] = "."
        BY <3>1, <1>3, JoinedPlaces
      <3> HIDE DEF b
      <3>3. ASSUME NEW k \in 1 .. Len(p.labels)
            PROVE  \E j \in 1 .. Len(b) : b[j] = p.labels[k]
        <4>1. 2 * k - 1 \in 1 .. Len(b)
          BY <3>2
        <4> QED BY <4>1, <3>2
      <3>4. ASSUME NEW j \in 1 .. Len(b)
            PROVE  /\ b[j] = "." \/ \E k \in 1 .. Len(p.labels) : b[j] = p.labels[k]
                   /\ b[j] \notin {"[", "]"}
        <4>1. \/ \E k \in 1 .. Len(p.labels) : j = 2 * k - 1
              \/ \E k \in 1 .. Len(p.labels) - 1 : j = 2 * k
          BY <3>2, OddOrEven
        <4>2. b[j] = "." \/ \E k \in 1 .. Len(p.labels) : b[j] = p.labels[k]
          BY <4>1, <3>2
        <4> QED BY <4>2, <1>8, <1>9
      <3> QED BY <3>3, <3>4
    <2> QED BY <2>1, <2>2
  <1> HIDE DEF b
  <1>5. /\ HostTokens(p) \in Texts /\ Len(HostTokens(p)) = Len(b) + n
        /\ \A i \in 1 .. Len(b) + n :
              HostTokens(p)[i] = IF i <= Len(b) THEN b[i] ELSE Dots(n)[i - Len(b)]
    <2>1. Dots(n) \in Texts /\ Len(Dots(n)) = n
      BY DotsText
    <2>2. /\ b \o Dots(n) \in Texts /\ Len(b \o Dots(n)) = Len(b) + n
          /\ \A i \in 1 .. Len(b) + n :
                (b \o Dots(n))[i] = IF i <= Len(b) THEN b[i] ELSE Dots(n)[i - Len(b)]
      BY <2>1, <1>2, ConcatProperties DEF Texts
    <2> QED BY <2>2, <1>1, Zenon DEF b
  <1>6. \A i \in 1 .. n : Dots(n)[i] = "."
    BY DotsText
  <1>7. /\ HostTokens(p) # <<>> /\ HostTokens(p)[1] = b[1]
        /\ \A i \in 1 .. Len(HostTokens(p)) :
              HostTokens(p)[i] = "." \/ \E j \in 1 .. Len(b) : HostTokens(p)[i] = b[j]
        /\ \A j \in 1 .. Len(b) : j \in 1 .. Len(HostTokens(p)) /\ HostTokens(p)[j] = b[j]
    <2>1. HostTokens(p) # <<>> /\ HostTokens(p)[1] = b[1]
      BY <1>2, <1>5
    <2>2. ASSUME NEW i \in 1 .. Len(HostTokens(p))
          PROVE  HostTokens(p)[i] = "." \/ \E j \in 1 .. Len(b) : HostTokens(p)[i] = b[j]
      <3>1. CASE i <= Len(b)
        BY <3>1, <1>2, <1>5
      <3>2. CASE ~ (i <= Len(b))
        <4>1. i - Len(b) \in 1 .. n
          BY <3>2, <1>2, <1>5
        <4> QED BY <4>1, <3>2, <1>2, <1>5, <1>6
      <3> QED BY <3>1, <3>2
    <2>3. \A j \in 1 .. Len(b) : j \in 1 .. Len(HostTokens(p)) /\ HostTokens(p)[j] = b[j]
      BY <1>2, <1>5
    <2> QED BY <2>1, <2>2, <2>3
  <1>10. \A j \in 1 .. Len(b) : b[j] \in DOMAIN Words \cup {".", "[", "]", "%00"}
    BY <1>4, <1>8
  <1> QED BY <1>4, <1>5, <1>7, <1>10, Zenon DEF b

\* What the marks of the host are, said of all its tokens.
LEMMA HostHasNoMarks ==
  ASSUME NEW p \in UrlParts, NEW i \in 1 .. Len(HostTokens(p))
  PROVE  /\ HostTokens(p)[i] \notin Around
         /\ ~ p.v6 => HostTokens(p)[i] \notin {"[", "]"}
         /\ ~ Has(p.labels, {"%00"}) => HostTokens(p)[i] # "%00"
  <1> DEFINE t == HostTokens(p)[i]
  <1>1. \/ t \in {".", "[", "]"} /\ (~ p.v6 => t = ".")
        \/ \E k \in 1 .. Len(p.labels) : t = p.labels[k]
    BY BareHostTokens
  <1>2. p.labels \in Seq(DOMAIN Words \cup {"%00"})
    BY UrlAssumption
  <1>3. \A k \in 1 .. Len(p.labels) :
           p.labels[k] \in DOMAIN Words \cup {"%00"} /\ k \in DOMAIN p.labels
    BY <1>2, ElementOfSeq, LenProperties
  <1>4. \A w \in DOMAIN Words : w \notin Marks
    BY WordsAssumption
  <1> HIDE DEF t
  <1>5. CASE t \in {".", "[", "]"} /\ (~ p.v6 => t = ".")
    <2>1. t \notin Around /\ t # "%00"
      BY <1>5 DEF Around
    <2> QED BY <2>1, <1>5 DEF t
  <1>6. CASE \E k \in 1 .. Len(p.labels) : t = p.labels[k]
    <2>1. PICK k \in 1 .. Len(p.labels) : t = p.labels[k]
      BY <1>6
    <2>2. t \in DOMAIN Words \cup {"%00"} /\ k \in DOMAIN p.labels
      BY <2>1, <1>3
    <2>3. t \notin Around /\ t \notin {"[", "]"}
      BY <2>2, <1>4 DEF Around, Marks
    <2>4. ~ Has(p.labels, {"%00"}) => t # "%00"
      BY <2>1, <2>2 DEF Has
    <2> QED BY <2>3, <2>4 DEF t
  <1> QED BY <1>1, <1>5, <1>6

\* domain_matches_suffix, asked of the host of the pieces, in lower case and
\* without the dots behind it.
LEMMA MatchIsUnder ==
  ASSUME NEW p \in UrlParts, NEW suffix \in Texts
  PROVE  /\ TrimDots(HostTokens(p)) = BareHost(p)
         /\ DomainMatchesSuffix(Lower(BareHost(p)), suffix) <=> Under(p, suffix)
  <1> DEFINE b == BareHost(p)
             h == Lower(b)
             E == Ends(p)
  <1>1. /\ b \in Texts /\ b # <<>> /\ b[Len(b)] # "."
        /\ \E n \in Nat : HostTokens(p) = b \o Dots(n)
    BY BareHostShape
  <1>2. TrimDots(HostTokens(p)) = b
    <2> HIDE DEF b
    <2> QED BY <1>1, TrimDotsCuts
  <1>3. /\ h \in Texts /\ h # <<>> /\ h[Len(h)] # "."
        /\ E \in SUBSET Texts
        /\ \A e \in E : e # <<>> /\ e[1] # "." /\ e[Len(e)] # "."
        /\ \A s \in Texts : s \in E <=> s = h \/ IsSuffix(<<".">> \o s, h)
    <2>1. CASE p.v6
      <3>1. PICK w \in DOMAIN Words : b = <<"[", w, "]">>
        BY <2>1, BareHostShape
      <3>2. Len(b) = 3 /\ b[1] = "[" /\ b[2] = w /\ b[3] = "]"
        BY <3>1
      <3>3. w \notin Marks /\ "[" \in Marks /\ "]" \in Marks /\ "." \in Marks
        BY WordsAssumption DEF Marks
      <3>4. E = {h}
        BY <2>1 DEF Ends, BareHost
      <3> HIDE DEF b
      <3>5. /\ h \in Texts /\ Len(h) = 3
            /\ \A i \in 1 .. 3 :
                  /\ b[i] \in Marks => h[i] = b[i]
                  /\ b[i] \notin Marks => h[i] \notin Marks
        BY <1>1, <3>2, LowerText
      <3> HIDE DEF h, E
      <3>6. h # <<>> /\ \A i \in 1 .. 3 : h[i] # "."
        <4>1. h # <<>>
          BY <3>5
        <4>2. h[1] = "[" /\ h[2] \notin Marks /\ h[3] = "]"
          BY <3>2, <3>3, <3>5
        <4>3. \A i \in 1 .. 3 : i = 1 \/ i = 2 \/ i = 3
          OBVIOUS
        <4> QED BY <4>1, <4>2, <4>3, <3>3
      <3>7. ASSUME NEW s \in Texts PROVE ~ IsSuffix(<<".">> \o s, h)
        <4>1. <<".">> \in Texts /\ Len(<<".">>) = 1 /\ Len(s) \in Nat
          BY DEF Texts, Tokens, Marks
        <4>2. /\ <<".">> \o s \in Texts /\ Len(<<".">> \o s) = 1 + Len(s)
              /\ (<<".">> \o s)[1] = "."
          BY <4>1, ConcatProperties DEF Texts
        <4>3. IsSuffix(<<".">> \o s, h)
                => /\ 1 + Len(s) <= 3
                   /\ h[(3 - (1 + Len(s))) + 1] = "."
          <5> DEFINE d == <<".">> \o s
          <5> HIDE DEF d
          <5>1. d \in Texts /\ Len(d) = 1 + Len(s) /\ d[1] = "."
            BY <4>2 DEF d
          <5>2. 1 \in 1 .. 1 + Len(s)
            BY <4>1
          <5>3. IsSuffix(d, h) =>
                   /\ Len(d) <= Len(h)
                   /\ \A i \in 1 .. Len(d) : h[(Len(h) - Len(d)) + i] = d[i]
            BY <5>1, <3>5, SuffixIs, Zenon
          <5>4. IsSuffix(d, h) =>
                   1 + Len(s) <= 3 /\ h[(3 - (1 + Len(s))) + 1] = d[1]
            BY <5>1, <5>2, <5>3, <3>5, Zenon
          <5> QED BY <5>1, <5>4 DEF d
        <4>4. 1 + Len(s) <= 3 => (3 - (1 + Len(s))) + 1 \in 1 .. 3
          BY <4>1
        <4> QED BY <4>3, <4>4, <3>6
      <3>8. h[1] # "." /\ h[Len(h)] # "."
        BY <3>5, <3>6
      <3> QED BY <3>4, <3>5, <3>6, <3>7, <3>8
    <2>2. CASE ~ p.v6
      <3> DEFINE L == p.labels
                 M == Lower(L)
      <3>1. L \in Undotted /\ L # <<>> /\ b = Joined(L)
        BY <2>2, BareHostShape DEF BareHost
      <3>2. /\ M \in Undotted /\ Len(M) = Len(L) /\ M # <<>> /\ h = Joined(M)
            /\ DOMAIN L = 1 .. Len(L)
        BY <3>1, LowerLabels, LowerJoined, LenProperties DEF Undotted
      <3>3. E = {Joined(SubSeq(M, k, Len(M))) : k \in 1 .. Len(M)}
        BY <2>2, <3>2 DEF Ends
      <3> HIDE DEF M, h, E, L
      <3>4. h \in Texts /\ h # <<>> /\ h[Len(h)] # "."
        BY <3>2, JoinedPlaces, JoinedEnds
      <3>5. ASSUME NEW k \in 1 .. Len(M)
            PROVE  LET e == Joined(SubSeq(M, k, Len(M)))
                   IN e \in Texts /\ e # <<>> /\ e[1] # "." /\ e[Len(e)] # "."
        <4> DEFINE K == SubSeq(M, k, Len(M))
        <4>1. K \in Undotted /\ K # <<>>
          BY <3>2, JoinedTail
        <4> HIDE DEF K
        <4>2. Joined(K) \in Texts
          BY <4>1, JoinedPlaces
        <4>3. Joined(K) # <<>> /\ Joined(K)[1] # "." /\ Joined(K)[Len(Joined(K))] # "."
          BY <4>1, JoinedEnds
        <4> QED BY <4>2, <4>3 DEF K
      <3>6. ASSUME NEW s \in Texts
            PROVE  s \in E <=> s = h \/ IsSuffix(<<".">> \o s, h)
        <4>1. s \in E <=> \E k \in 1 .. Len(M) : s = Joined(SubSeq(M, k, Len(M)))
          BY <3>3
        <4> QED BY <4>1, <3>2, EndsOfJoined
      <3>7. /\ E \in SUBSET Texts
            /\ \A e \in E : e # <<>> /\ e[1] # "." /\ e[Len(e)] # "."
        BY <3>3, <3>5
      <3> QED BY <3>4, <3>6, <3>7
    <2> QED BY <2>1, <2>2
  <1>4. DomainMatchesSuffix(h, suffix)
          <=> \E e \in E, front \in {<<>>, <<".">>}, n \in 0 .. Len(suffix) :
                 suffix = front \o e \o Dots(n)
    <2> HIDE DEF h, E
    <2> QED BY <1>3, MatchIsEnd
  <1> QED BY <1>2, <1>4, Zenon DEF Under

-----------------------------------------------------------------------------
(***************************************************************************)
(* The URL of the pieces, and where it is cut.                             *)
(***************************************************************************)
\* A token is in a text that is put together if it is in one of the parts.
LEMMA HasConcat ==
  ASSUME NEW a \in Texts, NEW b \in Texts, NEW T
  PROVE  Has(a \o b, T) <=> Has(a, T) \/ Has(b, T)
  <1>1. /\ a \o b \in Texts /\ Len(a \o b) = Len(a) + Len(b)
        /\ \A i \in 1 .. Len(a) + Len(b) :
              (a \o b)[i] = IF i <= Len(a) THEN a[i] ELSE b[i - Len(a)]
    BY ConcatProperties DEF Texts
  <1>2. /\ Len(a) \in Nat /\ Len(b) \in Nat
        /\ DOMAIN a = 1 .. Len(a) /\ DOMAIN b = 1 .. Len(b)
        /\ DOMAIN (a \o b) = 1 .. Len(a) + Len(b)
    BY <1>1, LenProperties DEF Texts
  <1>3. ASSUME Has(a \o b, T) PROVE Has(a, T) \/ Has(b, T)
    <2>1. PICK i \in 1 .. Len(a) + Len(b) : (a \o b)[i] \in T
      BY <1>2, <1>3 DEF Has
    <2>2. CASE i <= Len(a)
      <3>1. i \in DOMAIN a /\ a[i] \in T
        BY <2>1, <2>2, <1>1, <1>2
      <3> QED BY <3>1 DEF Has
    <2>3. CASE ~ (i <= Len(a))
      <3>1. i - Len(a) \in DOMAIN b /\ b[i - Len(a)] \in T
        BY <2>1, <2>3, <1>1, <1>2
      <3> QED BY <3>1 DEF Has
    <2> QED BY <2>2, <2>3
  <1>4. ASSUME Has(a, T) PROVE Has(a \o b, T)
    <2>1. PICK i \in DOMAIN a : a[i] \in T
      BY <1>4 DEF Has
    <2>2. i \in DOMAIN (a \o b) /\ (a \o b)[i] = a[i]
      BY <2>1, <1>1, <1>2
    <2> QED BY <2>1, <2>2 DEF Has
  <1>5. ASSUME Has(b, T) PROVE Has(a \o b, T)
    <2>1. PICK i \in DOMAIN b : b[i] \in T
      BY <1>5 DEF Has
    <2>2. Len(a) + i \in 1 .. Len(a) + Len(b) /\ ~ (Len(a) + i <= Len(a))
          /\ (Len(a) + i) - Len(a) = i
      BY <2>1, <1>2
    <2>3. Len(a) + i \in DOMAIN (a \o b) /\ (a \o b)[Len(a) + i] = b[i]
      BY <2>2, <1>1, <1>2
    <2> QED BY <2>1, <2>3 DEF Has
  <1> QED BY <1>3, <1>4, <1>5

\* What has none of some tokens has none of fewer.
LEMMA HasFewer ==
  ASSUME NEW a, NEW T, NEW U, U \subseteq T, ~ Has(a, T)
  PROVE  ~ Has(a, U)
  BY DEF Has

\* And none of them at any place.
LEMMA HasNot ==
  ASSUME NEW a \in Texts, NEW T, ~ Has(a, T)
  PROVE  \A i \in 1 .. Len(a) : a[i] \notin T
  BY LenProperties DEF Has, Texts

\* A text is what is before some marks, and the rest.
LEMMA BeforeSplits ==
  ASSUME NEW text \in Texts, NEW marks
  PROVE  /\ Before(text, marks) \in Texts
         /\ ~ Has(Before(text, marks), marks)
         /\ \E d \in Texts : /\ text = Before(text, marks) \o d
                             /\ d # <<>> => d[1] \in marks
  <1> DEFINE I == {i \in 1 .. Len(text) : text[i] \in marks}
  <1>1. Before(text, marks)
          = IF (IF I # {} THEN Min(I) ELSE 0) = 0 THEN text
            ELSE SubSeq(text, 1, (IF I # {} THEN Min(I) ELSE 0) - 1)
    BY Zenon DEF Before, SelectInSeq
  <1>2. Len(text) \in Nat /\ DOMAIN text = 1 .. Len(text)
        /\ \A i \in 1 .. Len(text) : text[i] \in Tokens
    BY ElementOfSeq, LenProperties DEF Texts
  <1>3. CASE I = {}
    <2>1. Before(text, marks) = text
      BY <1>1, <1>3
    <2>2. ~ Has(text, marks)
      BY <1>2, <1>3 DEF Has
    <2>3. <<>> \in Texts /\ text = text \o <<>>
      BY EmptySeq, ConcatEmptySeq DEF Texts
    <2> QED BY <2>1, <2>2, <2>3
  <1>4. CASE I # {}
    <2>1. I \in SUBSET Nat /\ I \in SUBSET Int
      BY <1>2
    <2>2. PICK m \in I : \A y \in I : m <= y
      BY <2>1, <1>4, LeastNat
    <2>3. Min(I) = m
      <3> HIDE DEF I
      <3> QED BY <2>1, <2>2, MinIs
    <2> DEFINE c == SubSeq(text, 1, m - 1)
               d == SubSeq(text, m, Len(text))
    <2>4. m \in 1 .. Len(text) /\ text[m] \in marks /\ m # 0
      BY <2>2, <1>2
    <2>5. Before(text, marks) = c
      <3> HIDE DEF I
      <3> QED BY <1>1, <1>4, <2>3, <2>4
    <2>6. /\ c \in Texts /\ Len(c) = m - 1
          /\ \A i \in 1 .. m - 1 : c[i] = text[i]
      <3>1. \A i \in 1 .. m - 1 : text[i] \in Tokens
        BY <2>4, <1>2
      <3>2. /\ c \in Seq(Tokens)
            /\ Len(c) = IF 1 <= m - 1 THEN (m - 1) - 1 + 1 ELSE 0
            /\ \A i \in 1 .. (m - 1) - 1 + 1 : c[i] = text[1 + i - 1]
        BY <3>1, <2>4, <1>2, SubSeqProperties
      <3> QED BY <3>2, <2>4, <1>2 DEF Texts
    <2>7. /\ d \in Texts /\ Len(d) = Len(text) - m + 1
          /\ d[1] = text[m]
      <3>1. \A i \in m .. Len(text) : text[i] \in Tokens
        BY <2>4, <1>2
      <3>2. /\ d \in Seq(Tokens)
            /\ Len(d) = IF m <= Len(text) THEN Len(text) - m + 1 ELSE 0
            /\ \A i \in 1 .. Len(text) - m + 1 : d[i] = text[m + i - 1]
        BY <3>1, <2>4, <1>2, SubSeqProperties
      <3>3. 1 \in 1 .. Len(text) - m + 1 /\ m + 1 - 1 = m
        BY <2>4, <1>2
      <3> HIDE DEF d
      <3> QED BY <3>2, <3>3, <2>4, <1>2 DEF Texts
    <2>8. ~ Has(c, marks)
      <3> SUFFICES ASSUME NEW i \in DOMAIN c, c[i] \in marks PROVE FALSE
        BY DEF Has
      <3>1. i \in 1 .. m - 1
        <4> HIDE DEF c
        <4> QED BY <2>6, LenProperties DEF Texts
      <3>2. text[i] \in marks /\ i \in 1 .. Len(text) /\ i < m
        BY <3>1, <2>6, <2>4, <1>2
      <3> QED BY <3>2, <2>2, <2>4
    <2>9. text = c \o d
      <3>1. /\ 1 \in 1 .. Len(text) + 1
            /\ m - 1 \in 1 - 1 .. Len(text) /\ Len(text) \in m - 1 .. Len(text)
            /\ (m - 1) + 1 = m
        BY <2>4, <1>2
      <3>2. SubSeq(text, 1, m - 1) \o SubSeq(text, (m - 1) + 1, Len(text))
              = SubSeq(text, 1, Len(text))
        BY <3>1, ConcatAdjacentSubSeq DEF Texts
      <3> QED BY <3>1, <3>2, SubSeqFull DEF Texts
    <2> HIDE DEF c, d
    <2> QED BY <2>4, <2>5, <2>6, <2>7, <2>8, <2>9
  <1> QED BY <1>3, <1>4

\* What has no marks stays in front.
LEMMA BeforeKeeps ==
  ASSUME NEW a \in Texts, NEW b \in Texts, NEW marks, ~ Has(a, marks)
  PROVE  Before(a \o b, marks) = a \o Before(b, marks)
  <1> DEFINE c == Before(b, marks)
  <1>1. PICK d \in Texts : b = c \o d /\ (d # <<>> => d[1] \in marks)
    BY BeforeSplits
  <1>2. c \in Texts /\ ~ Has(c, marks)
    BY BeforeSplits
  <1> HIDE DEF c
  <1>3. a \o c \in Texts /\ ~ Has(a \o c, marks) /\ a \o b = (a \o c) \o d
    BY <1>1, <1>2, HasConcat, ConcatProperties, ConcatAssociative DEF Texts
  <1>4. \A i \in DOMAIN (a \o c) : (a \o c)[i] \notin marks
    BY <1>3 DEF Has
  <1>5. Before((a \o c) \o d, marks) = a \o c
    BY <1>1, <1>3, <1>4, BeforeCuts
  <1> QED BY <1>3, <1>5 DEF c

-----------------------------------------------------------------------------
\* The text between the scheme and the path.
Lead(p)   == p.userinfo \o (HostTokens(p) \o p.port)
Proper(p) == \E w \in DOMAIN Words : p.scheme = <<w, ":", "/", "/">>

\* Three texts are put together from either end.
LEMMA Reassociate ==
  ASSUME NEW a \in Texts, NEW b \in Texts, NEW c \in Texts
  PROVE  (a \o b) \o c = a \o (b \o c)
  BY ConcatAssociative DEF Texts

\* The pieces of a URL are texts, and it is its scheme, its lead and its tail.
LEMMA Pieces ==
  ASSUME NEW p \in UrlParts
  PROVE  /\ p.scheme \in Texts /\ p.userinfo \in Texts /\ p.port \in Texts
         /\ p.tail \in Texts /\ HostTokens(p) \in Texts
         /\ HostTokens(p) \o p.port \in Texts /\ Lead(p) \in Texts
         /\ Len(Lead(p)) = Len(p.userinfo) + (Len(HostTokens(p)) + Len(p.port))
         /\ UrlText(p) = p.scheme \o (Lead(p) \o p.tail)
  <1>1. /\ p.scheme \in {<<>>, <<"\\", "\\">>}
                         \cup (UNION {{<<w, ":">>, <<w, ":", "/", "/">>} : w \in DOMAIN Words})
        /\ p.userinfo \in Seq(Tokens \ {"/", "\\", "?", "#", "NUL"})
        /\ p.port \in Seq(Tokens) /\ p.tail \in Seq(Tokens)
    BY UrlAssumption
  <1>2. p.scheme \in Texts
    <2>1. CASE p.scheme = <<>>
      BY <2>1, EmptySeq DEF Texts
    <2>2. CASE p.scheme = <<"\\", "\\">>
      BY <2>2 DEF Texts, Tokens, Marks
    <2>3. ASSUME NEW w \in DOMAIN Words,
                 p.scheme = <<w, ":">> \/ p.scheme = <<w, ":", "/", "/">>
          PROVE  p.scheme \in Texts
      <3>1. w \in Tokens /\ ":" \in Tokens /\ "/" \in Tokens
        BY DEF Tokens, Marks
      <3>2. <<w, ":">> \in Seq(Tokens) /\ <<w, ":", "/", "/">> \in Seq(Tokens)
        BY <3>1
      <3> QED BY <2>3, <3>2 DEF Texts
    <2> QED BY <1>1, <2>1, <2>2, <2>3
  <1>3. p.userinfo \in Texts
    <2>1. Seq(Tokens \ {"/", "\\", "?", "#", "NUL"}) \subseteq Seq(Tokens)
      BY SeqMonotonic
    <2> QED BY <2>1, <1>1 DEF Texts
  <1>4. HostTokens(p) \in Texts /\ p.port \in Texts /\ p.tail \in Texts
    BY <1>1, BareHostTokens DEF Texts
  <1> DEFINE s == p.scheme
             u == p.userinfo
             h == HostTokens(p)
             o == p.port
             t == p.tail
  <1>5. UrlText(p) = (((s \o u) \o h) \o o) \o t
    BY DEF UrlText
  <1>6. Lead(p) = u \o (h \o o)
    BY DEF Lead
  <1>10. s \in Texts /\ u \in Texts /\ h \in Texts /\ o \in Texts /\ t \in Texts
    BY <1>2, <1>3, <1>4
  <1> HIDE DEF s, u, h, o, t
  <1>7. h \o o \in Texts /\ Len(h \o o) = Len(h) + Len(o)
    BY <1>10, ConcatProperties DEF Texts
  <1>8. u \o (h \o o) \in Texts /\ Len(u \o (h \o o)) = Len(u) + (Len(h) + Len(o))
    BY <1>10, <1>7, ConcatProperties DEF Texts
  <1>9. (((s \o u) \o h) \o o) \o t = s \o ((u \o (h \o o)) \o t)
    <2> DEFINE su == s \o u
               ho == h \o o
               uho == u \o ho
    <2>1. su \in Texts /\ ho \in Texts /\ uho \in Texts
      BY <1>10, <1>7, <1>8, ConcatProperties DEF Texts
    <2>2. su \o ho = s \o uho
      <3> HIDE DEF ho
      <3>1. s \in Texts /\ u \in Texts /\ ho \in Texts
        BY <1>10, <2>1
      <3> QED BY <3>1, Reassociate, Zenon
    <2> HIDE DEF su, uho
    <2>3. (su \o h) \o o = su \o ho
      <3>1. su \in Texts /\ h \in Texts /\ o \in Texts
        BY <1>10, <2>1
      <3> QED BY <3>1, Reassociate, Zenon
    <2> HIDE DEF ho
    <2>4. (s \o uho) \o t = s \o (uho \o t)
      <3>1. s \in Texts /\ uho \in Texts /\ t \in Texts
        BY <1>10, <2>1
      <3> QED BY <3>1, Reassociate, Zenon
    <2>5. ((su \o h) \o o) \o t = s \o (uho \o t)
      BY <2>2, <2>3, <2>4, Zenon
    <2> QED BY <2>5 DEF su, ho, uho
  <1> QED BY <1>5, <1>6, <1>7, <1>8, <1>9, <1>10 DEF s, u, h, o, t

\* What is in none of the pieces.
LEMMA PieceMarks ==
  ASSUME NEW p \in UrlParts
  PROVE  /\ ~ Has(p.userinfo, {"/", "\\", "?", "#", "NUL"})
         /\ ~ Has(HostTokens(p), Around)
         /\ ~ Has(p.port, {"/", "\\", "?", "#", "@", "%40", "NUL", "%00", "[", "]"})
         /\ p.port # <<>> =>
              /\ p.port[1] = ":" /\ Len(p.port) > 1
              /\ \A i \in 2 .. Len(p.port) : /\ Kind(p.port[i]) \in {"dec", "octal"}
                                             /\ p.port[i] \notin Marks
         /\ p.tail # <<>> => p.tail[1] \in {"/", "\\", "?", "#"}
         /\ ~ Has(Lead(p), {"/", "\\", "?", "#", "NUL"})
         /\ ~ Has(p.userinfo, {"%40"}) => ~ Has(Lead(p), {"%40"})
  <1> DEFINE Stop == {"/", "\\", "?", "#", "NUL"}
  <1>1. /\ p.userinfo \in Seq(Tokens \ Stop)
        /\ p.port \in Seq(Tokens)
        /\ p.port # <<>> =>
             /\ p.port[1] = ":" /\ Len(p.port) > 1
             /\ \A i \in 2 .. Len(p.port) : Kind(p.port[i]) \in {"dec", "octal"}
        /\ p.tail # <<>> => p.tail[1] \in {"/", "\\", "?", "#"}
    BY UrlAssumption
  <1>2. ~ Has(p.userinfo, Stop)
    <2>1. \A i \in DOMAIN p.userinfo : p.userinfo[i] \in Tokens \ Stop
      BY <1>1, ElementOfSeq, LenProperties
    <2> QED BY <2>1 DEF Has
  <1>3. ~ Has(HostTokens(p), Around)
    <2>1. DOMAIN HostTokens(p) = 1 .. Len(HostTokens(p))
      BY BareHostTokens, LenProperties DEF Texts
    <2> QED BY <2>1, HostHasNoMarks DEF Has
  <1>4. \A token : Kind(token) \in {"dec", "octal"} => token \notin Marks
    BY WordsAssumption DEF Kind
  <1>5. DOMAIN p.port = 1 .. Len(p.port) /\ Len(p.port) \in Nat
    BY <1>1, LenProperties
  <1>6. ~ Has(p.port, {"/", "\\", "?", "#", "@", "%40", "NUL", "%00", "[", "]"})
    <2> SUFFICES ASSUME NEW i \in 1 .. Len(p.port)
                 PROVE  p.port[i] \notin {"/", "\\", "?", "#", "@", "%40", "NUL", "%00", "[", "]"}
      BY <1>5 DEF Has
    <2>1. p.port # <<>>
      BY <1>5
    <2>2. CASE i = 1
      BY <2>1, <2>2, <1>1
    <2>3. CASE i # 1
      <3>1. p.port[i] \notin Marks
        BY <2>1, <2>3, <1>1, <1>4, <1>5
      <3> QED BY <3>1 DEF Marks
    <2> QED BY <2>2, <2>3
  <1>7. /\ p.userinfo \in Texts /\ HostTokens(p) \in Texts /\ p.port \in Texts
        /\ HostTokens(p) \o p.port \in Texts
    BY Pieces
  <1>8. ~ Has(HostTokens(p), Stop) /\ ~ Has(p.port, Stop)
    BY <1>3, <1>6, HasFewer DEF Around
  <1>9. ~ Has(HostTokens(p), {"%40"}) /\ ~ Has(p.port, {"%40"})
    BY <1>3, <1>6, HasFewer DEF Around
  <1>10. ~ Has(Lead(p), Stop)
    BY <1>2, <1>7, <1>8, HasConcat DEF Lead
  <1>11. ~ Has(p.userinfo, {"%40"}) => ~ Has(Lead(p), {"%40"})
    BY <1>7, <1>9, HasConcat DEF Lead
  <1> QED BY <1>1, <1>2, <1>3, <1>4, <1>6, <1>10, <1>11

\* Where "://" stands.
LEMMA DelimiterAt ==
  ASSUME NEW text \in Texts, NEW i \in Nat, 1 <= i, i + 2 <= Len(text)
  PROVE  SubSeq(text, i, i + 2) = <<":", "/", "/">>
           <=> text[i] = ":" /\ text[i + 1] = "/" /\ text[i + 2] = "/"
  <1> DEFINE c == SubSeq(text, i, i + 2)
             t == <<":", "/", "/">>
  <1>1. Len(text) \in Nat /\ \A j \in 1 .. Len(text) : text[j] \in Tokens
    BY ElementOfSeq DEF Texts
  <1>2. \A j \in i .. i + 2 : text[j] \in Tokens
    BY <1>1
  <1>3. /\ c \in Seq(Tokens)
        /\ Len(c) = IF i <= i + 2 THEN (i + 2) - i + 1 ELSE 0
        /\ \A j \in 1 .. (i + 2) - i + 1 : c[j] = text[i + j - 1]
    BY <1>2, SubSeqProperties
  <1>4. Len(c) = 3 /\ c[1] = text[i] /\ c[2] = text[i + 1] /\ c[3] = text[i + 2]
    <2>1. (i + 2) - i + 1 = 3 /\ i <= i + 2
          /\ i + 1 - 1 = i /\ i + 2 - 1 = i + 1 /\ i + 3 - 1 = i + 2
          /\ 1 \in 1 .. 3 /\ 2 \in 1 .. 3 /\ 3 \in 1 .. 3
      OBVIOUS
    <2> HIDE DEF c
    <2> QED BY <2>1, <1>3
  <1>5. Len(t) = 3 /\ t[1] = ":" /\ t[2] = "/" /\ t[3] = "/" /\ t \in Seq(Tokens)
    BY DEF Tokens, Marks
  <1> HIDE DEF c, t
  <1>6. \A j \in 1 .. 3 : j = 1 \/ j = 2 \/ j = 3
    OBVIOUS
  <1>7. c = t => text[i] = ":" /\ text[i + 1] = "/" /\ text[i + 2] = "/"
    BY <1>4, <1>5
  <1>8. ASSUME text[i] = ":" /\ text[i + 1] = "/" /\ text[i + 2] = "/" PROVE c = t
    <2>1. \A j \in 1 .. Len(c) : c[j] = t[j]
      BY <1>4, <1>5, <1>6, <1>8
    <2> QED BY <2>1, <1>3, <1>4, <1>5, SeqEqual
  <1>9. c = t <=> text[i] = ":" /\ text[i + 1] = "/" /\ text[i + 2] = "/"
    BY <1>7, <1>8
  <1> QED BY <1>9 DEF c, t

\* Only a URL with a word and "://" in front has its scheme where the check
\* looks for it.
LEMMA SchemeIsProper ==
  ASSUME NEW p \in UrlParts, SchemeEnd(UrlText(p)) = 2
  PROVE  Proper(p)
  <1> DEFINE url  == UrlText(p)
             rest == Lead(p) \o p.tail
             at   == {i \in DOMAIN url : /\ i + 2 <= Len(url)
                                         /\ SubSeq(url, i, i + 2) = <<":", "/", "/">>}
             u == Len(p.userinfo)
             h == Len(HostTokens(p))
             o == Len(p.port)
             f == Len(Lead(p))
  <1>1. /\ p.scheme \in Texts /\ p.userinfo \in Texts /\ HostTokens(p) \in Texts
        /\ p.port \in Texts /\ p.tail \in Texts /\ Lead(p) \in Texts
        /\ HostTokens(p) \o p.port \in Texts
        /\ f = u + (h + o) /\ url = p.scheme \o rest
    BY Pieces
  <1>2. u \in Nat /\ h \in Nat /\ h > 0 /\ o \in Nat /\ f \in Nat /\ f > 0
    <2>1. HostTokens(p) # <<>>
      BY BareHostTokens
    <2>2. Len(HostTokens(p)) > 0 /\ Len(HostTokens(p)) \in Nat
      BY <2>1, <1>1, TextLen
    <2>3. Len(p.userinfo) \in Nat /\ Len(p.port) \in Nat
      BY <1>1, TextLen
    <2>4. f = u + (h + o)
      BY <1>1
    <2>5. u \in Nat /\ h \in Nat /\ h > 0 /\ o \in Nat
      BY <2>2, <2>3
    <2> HIDE DEF u, h, o, f
    <2> QED BY <2>4, <2>5
  <1>3. /\ rest \in Texts /\ Len(rest) = f + Len(p.tail)
        /\ \A i \in 1 .. f + Len(p.tail) :
              rest[i] = IF i <= f THEN Lead(p)[i] ELSE p.tail[i - f]
    BY <1>1, Glued
  <1>4. Len(p.scheme) \in Nat /\ Len(p.tail) \in Nat
    BY <1>1 DEF Texts
  <1> HIDE DEF rest
  <1>5. /\ url \in Texts /\ Len(url) = Len(p.scheme) + Len(rest)
        /\ \A i \in 1 .. Len(p.scheme) + Len(rest) :
              url[i] = IF i <= Len(p.scheme) THEN p.scheme[i]
                       ELSE rest[i - Len(p.scheme)]
    <2>1. p.scheme \in Texts /\ rest \in Texts /\ url = p.scheme \o rest
      BY <1>1, <1>3
    <2> HIDE DEF url
    <2> QED BY <2>1, Glued
  <1> HIDE DEF url
  <1>6. SchemeEnd(url) = IF at = {} THEN 0 ELSE CHOOSE i \in at : \A j \in at : i <= j
    BY DEF SchemeEnd
  <1>7. 2 \in at
    <2>1. SchemeEnd(url) = 2
      BY DEF url
    <2>2. at # {}
      BY <1>6, <2>1
    <2>3. at \in SUBSET Nat
      BY <1>5, LenProperties DEF Texts
    <2>4. \E i \in at : \A j \in at : i <= j
      <3> HIDE DEF at
      <3> QED BY <2>2, <2>3, LeastNat
    <2> HIDE DEF at
    <2> QED BY <1>6, <2>1, <2>2, <2>4
  <1>8. 2 + 2 <= Len(url) /\ url[2] = ":" /\ url[3] = "/"
    <2>1. 2 + 2 <= Len(url) /\ SubSeq(url, 2, 2 + 2) = <<":", "/", "/">>
      BY <1>7
    <2>2. url[2] = ":" /\ url[2 + 1] = "/"
      <3>1. 2 \in Nat /\ 1 <= 2
        OBVIOUS
      <3> QED BY <2>1, <3>1, <1>5, DelimiterAt
    <2> QED BY <2>1, <2>2
  <1>9. \A i \in 1 .. f : Lead(p)[i] # "/"
    <2>1. ~ Has(Lead(p), {"/", "\\", "?", "#", "NUL"})
      BY PieceMarks
    <2> QED BY <1>1, <2>1, HasNot
  <1> HIDE DEF u, h, o, f
  <1>10. ASSUME p.scheme = <<>> PROVE FALSE
    <2>1. \A i \in 1 .. Len(rest) : url[i] = rest[i]
      BY <1>10, <1>1, <1>3, ConcatEmptySeq DEF Texts
    <2>2. rest[2] = ":" /\ rest[3] = "/" /\ 4 <= Len(rest)
      <3>1. Len(rest) = Len(url)
        BY <1>5, <1>10, <1>3, <1>4
      <3> QED BY <3>1, <2>1, <1>8, <1>3, <1>4, <1>2
    <2>3. f <= 2
      <3> SUFFICES ASSUME 3 <= f PROVE FALSE
        BY <1>2
      <3>1. rest[3] = Lead(p)[3]
        BY <1>2, <1>3, <1>4
      <3>2. 3 \in 1 .. f
        BY <1>2
      <3> QED BY <3>1, <3>2, <2>2, <1>9
    <2>4. CASE f = 1
      <3>1. rest[2] = p.tail[1] /\ p.tail # <<>>
        BY <2>2, <2>4, <1>3, <1>4
      <3>2. p.tail[1] \in {"/", "\\", "?", "#"}
        BY <3>1, PieceMarks
      <3> QED BY <3>1, <3>2, <2>2
    <2>5. CASE f = 2
      <3>1. p.port = <<>>
        <4>1. p.port # <<>> => o > 1
          BY PieceMarks DEF o
        <4> QED BY <4>1, <1>1, <1>2, <2>5
      <3>2. HostTokens(p) \o p.port = HostTokens(p) /\ o = 0
        BY <3>1, <1>1, ConcatEmptySeq DEF Texts, o
      <3>3. Lead(p)[2] = HostTokens(p)[h]
        <4>1. Lead(p) = p.userinfo \o HostTokens(p)
          BY <3>2 DEF Lead
        <4>2. \A i \in 1 .. u + h : (p.userinfo \o HostTokens(p))[i]
                  = IF i <= u THEN p.userinfo[i] ELSE HostTokens(p)[i - u]
          BY <1>1, Glued DEF u, h
        <4>3. u + h = 2 /\ 2 \in 1 .. u + h /\ ~ (2 <= u) /\ 2 - u = h
          BY <3>2, <1>1, <1>2, <2>5
        <4> QED BY <4>1, <4>2, <4>3
      <3>4. HostTokens(p)[h] # ":"
        BY <1>2, HostHasNoMarks DEF Around, h
      <3>5. rest[2] = Lead(p)[2]
        BY <2>5, <1>3, <1>4
      <3> QED BY <3>3, <3>4, <3>5, <2>2
    <2> QED BY <2>3, <2>4, <2>5, <1>2
  <1>11. ASSUME p.scheme = <<"\\", "\\">> PROVE FALSE
    <2>1. Len(p.scheme) = 2 /\ p.scheme[2] = "\\"
      BY <1>11
    <2>2. url[2] = p.scheme[2]
      BY <2>1, <1>3, <1>4, <1>5, <1>8, <1>2
    <2> QED BY <2>1, <2>2, <1>8
  <1>12. ASSUME NEW w \in DOMAIN Words, p.scheme = <<w, ":">> PROVE FALSE
    <2>1. Len(p.scheme) = 2
      BY <1>12
    <2>2. url[3] = rest[1]
      BY <2>1, <1>3, <1>4, <1>5, <1>8, <1>2
    <2>3. rest[1] = Lead(p)[1]
      BY <1>2, <1>3, <1>4
    <2> QED BY <2>2, <2>3, <1>2, <1>8, <1>9
  <1>13. p.scheme \in {<<>>, <<"\\", "\\">>}
                        \cup (UNION {{<<w, ":">>, <<w, ":", "/", "/">>} : w \in DOMAIN Words})
    BY UrlAssumption
  <1> QED BY <1>10, <1>11, <1>12, <1>13 DEF Proper

\* The scheme of such a URL, and what is behind it.
LEMMA ProperUrl ==
  ASSUME NEW p \in UrlParts, Proper(p)
  PROVE  /\ SchemeEnd(UrlText(p)) = 2
         /\ BehindScheme(UrlText(p)) = Lead(p) \o p.tail
         /\ Lower(UrlText(p))[1] = Lower(p.scheme)[1]
         /\ UrlText(p) # <<>> /\ UrlText(p)[1] \notin Marks
         /\ \A T : T \subseteq {"NUL"} => ~ Has(p.scheme, T)
  <1> DEFINE url  == UrlText(p)
             rest == Lead(p) \o p.tail
             at   == {i \in DOMAIN url : /\ i + 2 <= Len(url)
                                         /\ SubSeq(url, i, i + 2) = <<":", "/", "/">>}
  <1>1. PICK w \in DOMAIN Words : p.scheme = <<w, ":", "/", "/">>
    BY DEF Proper
  <1>2. /\ Len(p.scheme) = 4 /\ p.scheme[1] = w /\ p.scheme[2] = ":"
        /\ p.scheme[3] = "/" /\ p.scheme[4] = "/" /\ w \notin Marks
    BY <1>1, WordsAssumption
  <1>3. p.scheme \in Texts /\ rest \in Texts /\ url = p.scheme \o rest
    BY Pieces, ConcatProperties DEF Texts
  <1>4. Len(rest) \in Nat
    BY <1>3 DEF Texts
  <1> HIDE DEF rest
  <1>5. /\ url \in Texts /\ Len(url) = 4 + Len(rest)
        /\ \A i \in 1 .. 4 + Len(rest) :
              url[i] = IF i <= 4 THEN p.scheme[i] ELSE rest[i - 4]
    <2> HIDE DEF url
    <2>1. /\ url \in Texts /\ Len(url) = Len(p.scheme) + Len(rest)
          /\ \A i \in 1 .. Len(p.scheme) + Len(rest) :
                url[i] = IF i <= Len(p.scheme) THEN p.scheme[i]
                         ELSE rest[i - Len(p.scheme)]
      BY <1>3, Glued
    <2> QED BY <2>1, <1>2, Zenon
  <1>6. DOMAIN url = 1 .. 4 + Len(rest)
    BY <1>5, LenProperties DEF Texts
  <1>7. SubSeq(url, Len(p.scheme) + 1, Len(url)) = rest
    BY <1>3, CutBack
  <1> HIDE DEF url
  <1>8. url[1] = w /\ url[2] = ":" /\ url[3] = "/" /\ url[4] = "/"
    BY <1>2, <1>4, <1>5
  <1>9. 2 \in at
    <2>1. SubSeq(url, 2, 2 + 2) = <<":", "/", "/">>
      <3>1. 2 \in Nat /\ 1 <= 2 /\ 2 + 2 <= Len(url) /\ 2 + 1 = 3 /\ 2 + 2 = 4
        BY <1>4, <1>5
      <3> QED BY <3>1, <1>5, <1>8, DelimiterAt
    <2> QED BY <2>1, <1>4, <1>5, <1>6
  <1>10. 1 \notin at
    <2>1. SubSeq(url, 1, 1 + 2) # <<":", "/", "/">>
      <3>1. 1 \in Nat /\ 1 <= 1 /\ 1 + 2 <= Len(url) /\ url[1] # ":"
        BY <1>2, <1>4, <1>5, <1>8 DEF Marks
      <3> QED BY <3>1, <1>5, DelimiterAt
    <2> QED BY <2>1
  <1>11. \A i \in at : 2 <= i
    BY <1>6, <1>10
  <1>12. SchemeEnd(url) = 2
    <2>1. SchemeEnd(url) = IF at = {} THEN 0 ELSE CHOOSE i \in at : \A j \in at : i <= j
      BY DEF SchemeEnd
    <2>2. at \in SUBSET Nat
      BY <1>6
    <2> HIDE DEF at
    <2>3. \A i \in at : (\A j \in at : i <= j) => i = 2
      BY <1>9, <1>11, <2>2
    <2> QED BY <2>1, <2>3, <1>9, <1>11
  <1>13. BehindScheme(url) = rest
    BY <1>2, <1>7, <1>12 DEF BehindScheme
  <1>14. Lower(url)[1] = Lower(p.scheme)[1]
    <2>1. 1 \in DOMAIN url /\ 1 \in DOMAIN p.scheme
      BY <1>2, <1>3, <1>4, <1>6, LenProperties DEF Texts
    <2> QED BY <2>1, <1>2, <1>8 DEF Lower
  <1>15. \A T : T \subseteq {"NUL"} => ~ Has(p.scheme, T)
    <2>1. DOMAIN p.scheme = 1 .. 4
      BY <1>2, <1>3, LenProperties DEF Texts
    <2>2. \A i \in 1 .. 4 : p.scheme[i] # "NUL"
      <3>1. \A i \in 1 .. 4 : i = 1 \/ i = 2 \/ i = 3 \/ i = 4
        OBVIOUS
      <3>2. w # "NUL"
        BY <1>2 DEF Marks
      <3> QED BY <3>1, <3>2, <1>2
    <2> QED BY <2>1, <2>2 DEF Has
  <1>16. url # <<>> /\ url[1] \notin Marks
    BY <1>2, <1>4, <1>5, <1>8
  <1> QED BY <1>12, <1>13, <1>14, <1>15, <1>16 DEF url, rest

\* The port is taken off, and no more.
LEMMA PortIsTakenOff ==
  ASSUME NEW p \in UrlParts
  PROVE  WithoutPort(HostTokens(p) \o p.port) = HostTokens(p)
  <1> DEFINE h == HostTokens(p)
             o == p.port
             text == h \o o
             C == {i \in 1 .. Len(text) : text[i] = ":"}
             B == {i \in 1 .. Len(text) : text[i] = "]"}
             colon == IF C # {} THEN Max(C) ELSE 0
             close == IF B # {} THEN Min(B) ELSE 0
             port == SubSeq(text, colon + 1, Len(text))
  <1> SUFFICES WithoutPort(text) = h
    OBVIOUS
  <1>1. h \in Texts /\ h # <<>> /\ o \in Texts
    BY Pieces, BareHostTokens
  <1>2. /\ Len(h) \in Nat /\ Len(h) > 0 /\ Len(o) \in Nat
        /\ DOMAIN o = 1 .. Len(o)
        /\ o # <<>> => Len(o) > 0
    BY <1>1, TextLen
  <1>3. /\ text \in Texts /\ Len(text) = Len(h) + Len(o)
        /\ \A i \in 1 .. Len(h) + Len(o) : text[i] = IF i <= Len(h) THEN h[i] ELSE o[i - Len(h)]
    BY <1>1, Glued
  <1>4. WithoutPort(text)
          = IF text # <<>> /\ text[1] = "["
            THEN IF close = 0 THEN text ELSE SubSeq(text, 1, close)
            ELSE IF colon > 0 /\ port # <<>>
                      /\ \A i \in DOMAIN port : Kind(port[i]) \in {"dec", "octal"}
                 THEN SubSeq(text, 1, colon - 1) ELSE text
    BY Zenon DEF WithoutPort, SelectInSeq, SelectLastInSeq
  <1>5. text # <<>> /\ text[1] = h[1]
    BY <1>2, <1>3
  <1>6. SubSeq(text, 1, Len(h)) = h
    BY <1>1, CutFront
  <1>7. CASE p.v6
    <2>1. PICK w \in DOMAIN Words : h = <<"[", w, "]">>
      BY <1>7, BareHostShape DEF BareHost
    <2>2. Len(h) = 3 /\ h[1] = "[" /\ h[2] = w /\ h[3] = "]" /\ w # "]"
      BY <2>1, WordsAssumption DEF Marks
    <2> HIDE DEF h, o
    <2>3. text[1] = "[" /\ text[2] # "]" /\ text[3] = "]"
      BY <1>2, <1>3, <2>2
    <2>4. 3 \in B /\ \A i \in B : 3 <= i
      <3>1. \A i \in B : i # 1 /\ i # 2 /\ i \in Nat /\ i >= 1
        BY <2>3, <1>2, <1>3
      <3>2. 3 \in B
        BY <2>2, <2>3, <1>2, <1>3
      <3> HIDE DEF B
      <3> QED BY <3>1, <3>2
    <2>5. close = 3
      <3>1. B \in SUBSET Int
        BY <1>2, <1>3
      <3>2. Min(B) = 3
        <4> HIDE DEF B
        <4> QED BY <3>1, <2>4, MinIs
      <3> HIDE DEF B
      <3> QED BY <3>2, <2>4
    <2> HIDE DEF text, close
    <2> QED BY <1>4, <1>5, <1>6, <2>2, <2>3, <2>5
  <1>8. CASE ~ p.v6
    <2>1. \A i \in 1 .. Len(h) : h[i] # ":" /\ h[i] # "["
      BY <1>8, HostHasNoMarks DEF Around
    <2>2. text[1] # "["
      BY <2>1, <1>2, <1>5
    <2>3. CASE o = <<>>
      <3>1. text = h
        BY <2>3, <1>1, ConcatEmptySeq DEF Texts
      <3>2. C = {}
        <4> HIDE DEF text
        <4> QED BY <3>1, <2>1
      <3>3. colon = 0
        <4> HIDE DEF C
        <4> QED BY <3>2
      <3> HIDE DEF text, colon, h
      <3> QED BY <1>4, <2>2, <3>1, <3>3
    <2>4. CASE o # <<>>
      <3>1. /\ o[1] = ":" /\ Len(o) > 1
            /\ \A i \in 2 .. Len(o) : Kind(o[i]) \in {"dec", "octal"} /\ o[i] # ":"
        BY <2>4, PieceMarks DEF Marks
      <3> HIDE DEF h, o
      <3> DEFINE at == Len(h) + 1
      <3>2. at \in C
        BY <3>1, <1>2, <1>3
      <3>3. \A i \in C : i <= at
        <4> SUFFICES ASSUME NEW i \in C, i > at PROVE FALSE
          BY <1>2, <1>3
        <4>1. i - Len(h) \in 2 .. Len(o) /\ text[i] = o[i - Len(h)]
          BY <1>2, <1>3
        <4> QED BY <4>1, <3>1
      <3>4. colon = at
        <4>1. C \in SUBSET Int /\ \A i \in C : at >= i
          BY <3>3, <1>2, <1>3
        <4>2. Max(C) = at
          <5> HIDE DEF C
          <5> QED BY <4>1, <3>2, MaxIs
        <4> HIDE DEF C, at
        <4> QED BY <4>2, <3>2
      <3>5. /\ port # <<>>
            /\ \A i \in DOMAIN port : Kind(port[i]) \in {"dec", "octal"}
        <4> DEFINE cut == SubSeq(text, at + 1, Len(text))
        <4>1. \A i \in at + 1 .. Len(text) : text[i] \in Tokens
          BY <1>2, <1>3, ElementOfSeq DEF Texts
        <4>2. at + 1 \in Int /\ Len(text) \in Int /\ at + 1 <= Len(text)
          BY <1>2, <1>3, <3>1
        <4> HIDE DEF text
        <4>3. /\ cut \in Seq(Tokens)
              /\ Len(cut) = IF at + 1 <= Len(text) THEN Len(text) - (at + 1) + 1 ELSE 0
              /\ \A i \in 1 .. Len(text) - (at + 1) + 1 : cut[i] = text[at + 1 + i - 1]
          BY <4>1, <4>2, SubSeqProperties
        <4> HIDE DEF cut
        <4>4. cut \in Texts /\ Len(cut) = Len(o) - 1 /\ cut # <<>>
              /\ DOMAIN cut = 1 .. Len(o) - 1
          <5>1. Len(cut) = Len(o) - 1
            BY <4>2, <4>3, <1>2, <1>3
          <5>2. cut \in Texts
            BY <4>3 DEF Texts
          <5> QED BY <5>1, <5>2, <3>1, TextLen
        <4>5. ASSUME NEW i \in 1 .. Len(o) - 1 PROVE cut[i] = o[i + 1]
          <5>1. /\ i \in 1 .. Len(text) - (at + 1) + 1
                /\ at + 1 + i - 1 = Len(h) + 1 + i
                /\ Len(h) + 1 + i \in 1 .. Len(h) + Len(o)
                /\ ~ (Len(h) + 1 + i <= Len(h)) /\ (Len(h) + 1 + i) - Len(h) = i + 1
            BY <1>2, <1>3
          <5>2. cut[i] = text[Len(h) + 1 + i]
            BY <5>1, <4>3
          <5> QED BY <5>1, <5>2, <1>3
        <4>6. \A i \in DOMAIN cut : Kind(cut[i]) \in {"dec", "octal"}
          <5> SUFFICES ASSUME NEW i \in 1 .. Len(o) - 1
                       PROVE  Kind(cut[i]) \in {"dec", "octal"}
            BY <4>4
          <5>1. i + 1 \in 2 .. Len(o)
            BY <1>2
          <5> QED BY <5>1, <4>5, <3>1
        <4>7. port = cut
          <5> HIDE DEF colon, at
          <5> QED BY <3>4 DEF cut
        <4> QED BY <4>4, <4>6, <4>7
      <3>6. colon > 0 /\ colon - 1 = Len(h)
        <4> HIDE DEF colon
        <4> QED BY <3>4, <1>2
      <3> HIDE DEF text, colon, port
      <3> QED BY <1>4, <1>6, <2>2, <3>5, <3>6
    <2> QED BY <2>3, <2>4
  <1> QED BY <1>7, <1>8

\* parse_url_parts finds the host of the pieces, whatever the userinfo, the port
\* and what is behind them, unless an encoded "@" ends the userinfo.
LEMMA HostIsFound ==
  ASSUME NEW p \in UrlParts, Proper(p),
         p.userinfo # <<>> => p.userinfo[Len(p.userinfo)] = "@"
  PROVE  HostOf(UrlText(p)) = HostTokens(p)
  <1> DEFINE f == Lead(p)
             t == p.tail
             n == Normalised(t)
             ho == HostTokens(p) \o p.port
  <1>1. /\ f \in Texts /\ t \in Texts /\ p.userinfo \in Texts /\ ho \in Texts
        /\ HostTokens(p) \in Texts /\ p.port \in Texts
        /\ BehindScheme(UrlText(p)) = f \o t /\ f = p.userinfo \o ho
    BY Pieces, ProperUrl DEF Lead
  <1>2. /\ ~ Has(f, {"/", "\\", "?", "#", "NUL"})
        /\ t # <<>> => t[1] \in {"/", "\\", "?", "#"}
        /\ ~ Has(HostTokens(p), {"@"}) /\ ~ Has(p.port, {"@"})
    BY PieceMarks, HasFewer DEF Around
  <1>3. ~ Has(ho, {"@"})
    BY <1>1, <1>2, HasConcat
  <1> HIDE DEF f, t, ho
  <1>4. /\ n \in Texts /\ Len(n) = Len(t)
        /\ \A i \in 1 .. Len(t) : n[i] = IF t[i] = "\\" THEN "/" ELSE t[i]
    <2>1. DOMAIN t = 1 .. Len(t) /\ Len(t) \in Nat
      BY <1>1, TextLen
    <2>2. \A i \in 1 .. Len(t) : (IF t[i] = "\\" THEN "/" ELSE t[i]) \in Tokens
      BY <1>1, ElementOfSeq DEF Texts, Tokens, Marks
    <2>3. n = [i \in 1 .. Len(t) |-> IF t[i] = "\\" THEN "/" ELSE t[i]]
      BY <2>1 DEF Normalised
    <2>4. [i \in 1 .. Len(t) |-> IF t[i] = "\\" THEN "/" ELSE t[i]] \in Seq(Tokens)
      BY <2>1, <2>2, IsASeq
    <2> HIDE DEF n
    <2> QED BY <2>1, <2>3, <2>4 DEF Texts
  <1> HIDE DEF n
  <1>5. Normalised(f \o t) = f \o n
    <2>1. /\ f \o t \in Texts /\ Len(f \o t) = Len(f) + Len(t)
          /\ \A i \in 1 .. Len(f) + Len(t) :
                (f \o t)[i] = IF i <= Len(f) THEN f[i] ELSE t[i - Len(f)]
      BY <1>1, Glued
    <2>2. /\ f \o n \in Texts /\ Len(f \o n) = Len(f) + Len(t)
          /\ \A i \in 1 .. Len(f) + Len(t) :
                (f \o n)[i] = IF i <= Len(f) THEN f[i] ELSE n[i - Len(f)]
      <3>1. /\ f \o n \in Texts /\ Len(f \o n) = Len(f) + Len(n)
            /\ \A i \in 1 .. Len(f) + Len(n) :
                  (f \o n)[i] = IF i <= Len(f) THEN f[i] ELSE n[i - Len(f)]
        BY <1>1, <1>4, Glued
      <3> QED BY <3>1, <1>4, Zenon
    <2>3. Len(f) \in Nat /\ Len(t) \in Nat
      BY <1>1, TextLen
    <2>4. \A i \in 1 .. Len(f) : f[i] # "\\"
      <3>1. \A i \in 1 .. Len(f) : f[i] \notin {"/", "\\", "?", "#", "NUL"}
        BY <1>1, <1>2, HasNot
      <3> QED BY <3>1
    <2>5. ASSUME NEW i \in 1 .. Len(f) + Len(t)
          PROVE  (f \o n)[i] = IF (f \o t)[i] = "\\" THEN "/" ELSE (f \o t)[i]
      <3>1. CASE i <= Len(f)
        BY <3>1, <2>1, <2>2, <2>3, <2>4
      <3>2. CASE ~ (i <= Len(f))
        <4>1. i - Len(f) \in 1 .. Len(t)
          BY <3>2, <2>3
        <4> QED BY <4>1, <3>2, <2>1, <2>2, <1>4
      <3> QED BY <3>1, <3>2
    <2> DEFINE l == Normalised(f \o t)
               r == f \o n
    <2>6. DOMAIN (f \o t) = 1 .. Len(f) + Len(t)
      BY <2>1, TextLen
    <2>7. l = [i \in 1 .. Len(f) + Len(t) |->
                 IF (f \o t)[i] = "\\" THEN "/" ELSE (f \o t)[i]]
      BY <2>6, Zenon DEF Normalised
    <2>8. r = [i \in 1 .. Len(f) + Len(t) |-> r[i]]
      <3>1. r \in [1 .. Len(r) -> Tokens] /\ Len(r) = Len(f) + Len(t)
        <4>1. r \in Seq(Tokens) /\ Len(r) = Len(f) + Len(t)
          BY <2>2 DEF Texts
        <4> HIDE DEF r
        <4> QED BY <4>1, LenProperties
      <3> HIDE DEF r
      <3> QED BY <3>1
    <2> HIDE DEF l
    <2> QED BY <2>5, <2>7, <2>8, Zenon DEF l
  <1>6. Authority(f \o n) = f
    <2>1. \A i \in DOMAIN f : f[i] \notin {"/", "?", "#"}
      BY <1>2 DEF Has
    <2>2. n # <<>> => n[1] \in {"/", "?", "#"}
      <3> SUFFICES ASSUME n # <<>> PROVE n[1] \in {"/", "?", "#"}
        OBVIOUS
      <3>1. Len(t) > 0 /\ Len(t) \in Nat
        BY <1>4, TextLen
      <3>2. t # <<>> /\ n[1] = IF t[1] = "\\" THEN "/" ELSE t[1]
        BY <3>1, <1>4
      <3> QED BY <3>2, <1>2
    <2> QED BY <1>1, <1>4, <2>1, <2>2, BeforeCuts DEF Authority
  <1>7. BehindLast(f, "@") = ho
    <2>1. \A i \in DOMAIN ho : ho[i] # "@"
      BY <1>3 DEF Has
    <2> QED BY <1>1, <2>1, BehindCuts
  <1>8. WithoutPort(ho) = HostTokens(p)
    BY PortIsTakenOff DEF ho
  <1> QED BY <1>1, <1>5, <1>6, <1>7, <1>8, Zenon DEF HostOf

-----------------------------------------------------------------------------
(***************************************************************************)
(* The encoded "@".                                                        *)
(***************************************************************************)
\* SelectInSeq of the community module for one mark: its first place, or 0.
FirstOf(text, mark) ==
  LET places == {i \in 1 .. Len(text) : text[i] = mark}
  IN IF places # {} THEN Min(places) ELSE 0

\* It is a place before or at every place the mark has.
LEMMA FirstPlace ==
  ASSUME NEW text \in Texts, NEW mark
  PROVE  /\ ~ Has(text, {mark}) => FirstOf(text, mark) = 0
         /\ \A i \in 1 .. Len(text) :
               text[i] = mark => /\ FirstOf(text, mark) \in 1 .. i
                                 /\ text[FirstOf(text, mark)] = mark
  <1> DEFINE I == {i \in 1 .. Len(text) : text[i] = mark}
             first == IF I # {} THEN Min(I) ELSE 0
  <1>1. FirstOf(text, mark) = first
    BY DEF FirstOf
  <1>2. Len(text) \in Nat /\ DOMAIN text = 1 .. Len(text)
    BY TextLen
  <1>3. ~ Has(text, {mark}) => first = 0
    <2>1. ~ Has(text, {mark}) => I = {}
      BY <1>2 DEF Has
    <2> HIDE DEF I
    <2> QED BY <2>1
  <1>4. ASSUME NEW i \in 1 .. Len(text), text[i] = mark
        PROVE  first \in 1 .. i /\ text[first] = mark
    <2>1. i \in I /\ I \in SUBSET Nat /\ I \in SUBSET Int
      BY <1>2, <1>4
    <2>2. PICK m \in I : \A y \in I : m <= y
      BY <2>1, LeastNat
    <2>3. first = m
      <3>1. Min(I) = m
        <4> HIDE DEF I
        <4> QED BY <2>1, <2>2, MinIs
      <3> HIDE DEF I
      <3> QED BY <3>1, <2>2
    <2>4. m <= i /\ m \in 1 .. Len(text) /\ text[m] = mark
      BY <2>1, <2>2, <1>2
    <2> HIDE DEF first
    <2> QED BY <2>3, <2>4, <1>2
  <1> QED BY <1>1, <1>3, <1>4, Zenon

\* Before its first slash, question mark or hash, what is behind the scheme has
\* all of the front, and of the tail at most what a backslash begins.
LEMMA RawAuthority ==
  ASSUME NEW p \in UrlParts, Proper(p)
  PROVE  \E x \in Texts :
            /\ Authority(BehindScheme(UrlText(p))) = Lead(p) \o x
            /\ \A T : Has(x, T) => Has(p.tail, T)
            /\ p.tail # <<>> /\ p.tail[1] # "\\" => x = <<>>
  <1> DEFINE stop == {"/", "?", "#"}
             x == Before(p.tail, stop)
  <1>1. /\ Lead(p) \in Texts /\ p.tail \in Texts
        /\ BehindScheme(UrlText(p)) = Lead(p) \o p.tail
    BY Pieces, ProperUrl
  <1>2. ~ Has(Lead(p), stop)
    <2>1. ~ Has(Lead(p), {"/", "\\", "?", "#", "NUL"})
      BY PieceMarks
    <2> QED BY <2>1, HasFewer
  <1>3. Authority(Lead(p) \o p.tail) = Lead(p) \o x
    BY <1>1, <1>2, BeforeKeeps DEF Authority
  <1>4. PICK d \in Texts : p.tail = x \o d /\ (d # <<>> => d[1] \in stop)
    BY <1>1, BeforeSplits
  <1>5. x \in Texts /\ ~ Has(x, stop)
    BY <1>1, BeforeSplits
  <1> HIDE DEF x
  <1>6. \A T : Has(x, T) => Has(p.tail, T)
    BY <1>4, <1>5, HasConcat
  <1>7. ASSUME p.tail # <<>>, p.tail[1] # "\\", x # <<>> PROVE FALSE
    <2>1. p.tail[1] \in {"/", "\\", "?", "#"}
      BY <1>7, PieceMarks
    <2>2. Len(x) > 0 /\ Len(x) \in Nat /\ DOMAIN x = 1 .. Len(x) /\ Len(d) \in Nat
      BY <1>4, <1>5, <1>7, TextLen
    <2>3. 1 \in DOMAIN x /\ p.tail[1] = x[1]
      <3>1. \A i \in 1 .. Len(x) + Len(d) :
               (x \o d)[i] = IF i <= Len(x) THEN x[i] ELSE d[i - Len(x)]
        BY <1>4, <1>5, Glued
      <3>2. 1 \in 1 .. Len(x) + Len(d) /\ 1 <= Len(x)
        BY <2>2
      <3>3. (x \o d)[1] = x[1]
        BY <3>1, <3>2
      <3> QED BY <3>2, <3>3, <2>2, <1>4
    <2>4. x[1] \in stop
      BY <2>1, <2>3, <1>7
    <2> QED BY <2>3, <2>4, <1>5 DEF Has
  <1> QED BY <1>1, <1>3, <1>5, <1>6, <1>7

\* An encoded "@" in the userinfo is always found.
LEMMA EncodedIsBypass ==
  ASSUME NEW p \in UrlParts, Proper(p), Has(p.userinfo, {"%40"})
  PROVE  HasUserinfoBypass(UrlText(p))
  <1> DEFINE u == p.userinfo
             h == HostTokens(p)
             ho == h \o p.port
             encoded == FirstOf(Authority(BehindScheme(UrlText(p))), "%40")
  <1>1. PICK x \in Texts : Authority(BehindScheme(UrlText(p))) = Lead(p) \o x
    BY RawAuthority
  <1> DEFINE a == Lead(p) \o x
             back == SubSeq(a, encoded + 1, Len(a))
             after == BehindLast(back, "@")
  <1>2. /\ u \in Texts /\ h \in Texts /\ ho \in Texts /\ p.port \in Texts
        /\ Lead(p) = u \o ho /\ Lead(p) \in Texts
    BY Pieces DEF Lead
  <1>3. /\ Len(u) \in Nat /\ Len(h) \in Nat /\ Len(p.port) \in Nat /\ Len(x) \in Nat
        /\ DOMAIN u = 1 .. Len(u)
    BY <1>2, TextLen
  <1>4. /\ a \in Texts /\ Len(a) = (Len(u) + (Len(h) + Len(p.port))) + Len(x)
        /\ \A i \in 1 .. Len(u) : a[i] = u[i]
        /\ \A i \in 1 .. Len(h) : a[Len(u) + i] = h[i]
    <2>1. /\ Len(ho) = Len(h) + Len(p.port)
          /\ \A i \in 1 .. Len(h) : ho[i] = h[i]
      BY <1>2, <1>3, Glued
    <2> HIDE DEF ho, u, h
    <2>2. /\ Len(u \o ho) = Len(u) + Len(ho)
          /\ \A i \in 1 .. Len(u) + Len(ho) :
                (u \o ho)[i] = IF i <= Len(u) THEN u[i] ELSE ho[i - Len(u)]
      BY <1>2, Glued
    <2>3. /\ a \in Texts /\ Len(a) = Len(Lead(p)) + Len(x)
          /\ \A i \in 1 .. Len(Lead(p)) + Len(x) :
                a[i] = IF i <= Len(Lead(p)) THEN Lead(p)[i] ELSE x[i - Len(Lead(p))]
      BY <1>1, <1>2, Glued
    <2>4. Len(Lead(p)) = Len(u) + (Len(h) + Len(p.port))
      BY <2>1, <2>2, <1>2
    <2> HIDE DEF a
    <2>5. ASSUME NEW i \in 1 .. Len(u) PROVE a[i] = u[i]
      <3>1. /\ i \in 1 .. Len(u) + Len(ho) /\ i <= Len(u)
            /\ i \in 1 .. Len(Lead(p)) + Len(x) /\ i <= Len(Lead(p))
        BY <2>1, <2>4, <1>3
      <3> QED BY <3>1, <2>2, <2>3, <1>2
    <2>6. ASSUME NEW i \in 1 .. Len(h) PROVE a[Len(u) + i] = h[i]
      <3>1. /\ Len(u) + i \in 1 .. Len(u) + Len(ho) /\ ~ (Len(u) + i <= Len(u))
            /\ Len(u) + i \in 1 .. Len(Lead(p)) + Len(x)
            /\ Len(u) + i <= Len(Lead(p)) /\ (Len(u) + i) - Len(u) = i
        BY <2>1, <2>4, <1>3
      <3> QED BY <3>1, <2>1, <2>2, <2>3, <1>2
    <2> QED BY <2>3, <2>4, <2>5, <2>6
  <1>5. PICK j \in 1 .. Len(u) : u[j] = "%40"
    BY <1>3 DEF Has
  <1> HIDE DEF a, u, h
  <1>6. encoded \in 1 .. Len(u)
    <2>1. j \in 1 .. Len(a) /\ a[j] = "%40"
      BY <1>3, <1>4, <1>5
    <2>2. encoded \in 1 .. j
      BY <2>1, <1>1, <1>4, FirstPlace DEF a
    <2> QED BY <2>2, <1>3
  <1>7. HasUserinfoBypass(UrlText(p))
          <=> /\ encoded > 0
              /\ Has(a, {"@"}) \/ Has(after, {"."}) \/ HasColon(after)
    BY <1>1, Zenon DEF HasUserinfoBypass, a, SelectInSeq, FirstOf
  <1> HIDE DEF encoded
  <1>8. CASE Has(a, {"@"})
    BY <1>6, <1>7, <1>8, <1>3
  <1>9. CASE ~ Has(a, {"@"})
    <2>1. p.v6 \/ Len(p.labels) > 1
      <3>1. u # <<>>
        BY <1>3, <1>5
      <3>2. u[Len(u)] = "@" \/ p.v6 \/ Len(p.labels) > 1
        BY <3>1, UrlAssumption DEF u
      <3>3. u[Len(u)] # "@"
        <4>1. Len(u) \in 1 .. Len(u) /\ Len(u) \in 1 .. Len(a) /\ a[Len(u)] = u[Len(u)]
          BY <1>3, <1>4, <1>5
        <4>2. a[Len(u)] \notin {"@"}
          BY <4>1, <1>4, <1>9, HasNot
        <4> QED BY <4>1, <4>2
      <3> QED BY <3>2, <3>3
    <2>2. /\ back \in Texts /\ Len(back) = Len(a) - encoded
          /\ \A i \in 1 .. Len(a) - encoded : back[i] = a[encoded + i]
      <3>1. \A i \in encoded + 1 .. Len(a) : a[i] \in Tokens
        BY <1>3, <1>4, <1>6, ElementOfSeq DEF Texts
      <3>2. encoded + 1 \in Int /\ Len(a) \in Int /\ encoded + 1 <= Len(a) + 1
            /\ encoded \in Nat /\ Len(a) \in Nat
        BY <1>3, <1>4, <1>6
      <3>3. /\ back \in Seq(Tokens)
            /\ Len(back) = IF encoded + 1 <= Len(a) THEN Len(a) - (encoded + 1) + 1 ELSE 0
            /\ \A i \in 1 .. Len(a) - (encoded + 1) + 1 : back[i] = a[encoded + 1 + i - 1]
        BY <3>1, <3>2, SubSeqProperties
      <3> HIDE DEF back
      <3>4. Len(back) = Len(a) - encoded
        BY <3>2, <3>3
      <3>5. ASSUME NEW i \in 1 .. Len(a) - encoded PROVE back[i] = a[encoded + i]
        <4>1. i \in 1 .. Len(a) - (encoded + 1) + 1 /\ encoded + 1 + i - 1 = encoded + i
          BY <3>2
        <4> QED BY <4>1, <3>3
      <3> QED BY <3>3, <3>4, <3>5 DEF Texts
    <2> HIDE DEF back
    <2>3. /\ Len(back) \in Nat /\ DOMAIN back = 1 .. Len(back)
          /\ \A i \in 1 .. Len(back) : back[i] # "@"
      <3>1. \A i \in 1 .. Len(a) : a[i] \notin {"@"}
        BY <1>4, <1>9, HasNot
      <3>2. \A i \in 1 .. Len(back) : encoded + i \in 1 .. Len(a)
        BY <2>2, <1>3, <1>4, <1>6
      <3> QED BY <3>1, <3>2, <2>2, TextLen
    <2>4. after = back
      <3>1. <<>> \in Texts /\ <<>> \o back = back
        BY <2>2, EmptySeq, ConcatEmptySeq DEF Texts
      <3> DEFINE none == <<>>
      <3>2. none # <<>> => none[Len(none)] = "@"
        OBVIOUS
      <3>3. none \in Texts /\ none \o back = back
        BY <3>1
      <3> HIDE DEF none
      <3>4. \A i \in DOMAIN back : back[i] # "@"
        BY <2>3
      <3>5. BehindLast(none \o back, "@") = back
        BY <3>2, <3>3, <3>4, <2>2, BehindCuts, Zenon
      <3> QED BY <3>3, <3>5
    <2>5. ASSUME NEW i \in 1 .. Len(h)
          PROVE  /\ (Len(u) - encoded) + i \in DOMAIN back
                 /\ back[(Len(u) - encoded) + i] = h[i]
      <3>1. /\ (Len(u) - encoded) + i \in 1 .. Len(a) - encoded
            /\ encoded + ((Len(u) - encoded) + i) = Len(u) + i
        BY <1>3, <1>4, <1>6
      <3> QED BY <3>1, <2>2, <2>3, <1>4
    <2>6. CASE p.v6
      <3>1. PICK w \in DOMAIN Words : Kind(w) = "v6" /\ h = <<"[", w, "]">>
        BY <2>6, BareHostShape DEF BareHost, h
      <3>2. 2 \in 1 .. Len(h) /\ h[2] = w
        BY <3>1
      <3>3. HasColon(back)
        BY <3>1, <3>2, <2>5 DEF HasColon
      <3> QED BY <3>3, <2>4, <1>3, <1>6, <1>7
    <2>7. CASE ~ p.v6 /\ Len(p.labels) > 1
      <3>1. p.labels \in Undotted /\ p.labels # <<>> /\ BareHost(p) = Joined(p.labels)
        BY <2>7, BareHostShape DEF BareHost
      <3>2. /\ Len(BareHost(p)) = 2 * Len(p.labels) - 1 /\ Len(p.labels) \in Nat
            /\ \A k \in 1 .. Len(p.labels) - 1 : BareHost(p)[2 * k] = "."
        BY <3>1, JoinedPlaces
      <3>3. 2 \in 1 .. Len(BareHost(p)) /\ BareHost(p)[2] = "."
        <4>1. 1 \in 1 .. Len(p.labels) - 1 /\ 2 * 1 = 2 /\ 2 <= 2 * Len(p.labels) - 1
          BY <3>2, <2>7
        <4> QED BY <4>1, <3>2
      <3>4. 2 \in 1 .. Len(h) /\ h[2] = "."
        BY <3>3, BareHostTokens DEF h
      <3>5. Has(back, {"."})
        BY <3>4, <2>5 DEF Has
      <3> QED BY <3>5, <2>4, <1>3, <1>6, <1>7
    <2> QED BY <2>1, <2>6, <2>7
  <1> QED BY <1>8, <1>9

\* Without one in userinfo, nor behind a backslash, there is none to find.
LEMMA NoBypass ==
  ASSUME NEW p \in UrlParts, Proper(p), ~ Has(p.userinfo, {"%40"}),
         p.tail # <<>> /\ p.tail[1] = "\\" => ~ Has(p.tail, {"%40"})
  PROVE  ~ HasUserinfoBypass(UrlText(p))
  <1>1. PICK x \in Texts :
           /\ Authority(BehindScheme(UrlText(p))) = Lead(p) \o x
           /\ Has(x, {"%40"}) => Has(p.tail, {"%40"})
           /\ p.tail # <<>> /\ p.tail[1] # "\\" => x = <<>>
    BY RawAuthority
  <1>2. ~ Has(Lead(p), {"%40"}) /\ Lead(p) \in Texts /\ p.tail \in Texts
    BY PieceMarks, Pieces
  <1>3. ~ Has(x, {"%40"})
    <2>1. p.tail = <<>> => ~ Has(p.tail, {"%40"})
      BY DEF Has
    <2>2. ~ Has(<<>>, {"%40"})
      BY DEF Has
    <2> QED BY <1>1, <2>1, <2>2
  <1>4. ~ Has(Lead(p) \o x, {"%40"}) /\ Lead(p) \o x \in Texts
    BY <1>2, <1>3, HasConcat, Glued
  <1>5. FirstOf(Lead(p) \o x, "%40") = 0
    BY <1>4, FirstPlace
  <1>6. FirstOf(Authority(BehindScheme(UrlText(p))), "%40") = 0
    BY <1>1, <1>5
  <1>7. HasUserinfoBypass(UrlText(p))
          => FirstOf(Authority(BehindScheme(UrlText(p))), "%40") > 0
    BY Zenon DEF HasUserinfoBypass, SelectInSeq, FirstOf
  <1> QED BY <1>6, <1>7
-----------------------------------------------------------------------------
(***************************************************************************)
(* What the host is taken for.                                             *)
(***************************************************************************)
\* Four decimal octets.
Octets(L) ==
  /\ Len(L) = 4
  /\ \A k \in 1 .. 4 : Kind(L[k]) = "dec" /\ Words[L[k]].value <= 255

\* A mark is no word.
LEMMA KindOfMark ==
  ASSUME NEW m \in Marks
  PROVE  Kind(m) = "mark"
  BY WordsAssumption DEF Kind

\* A host of labels is no bracketed text and has no colon; its labels are the
\* labels it was joined from.
LEMMA NameHost ==
  ASSUME NEW p \in UrlParts, ~ p.v6
  PROVE  /\ BareHost(p) = Joined(p.labels) /\ BareHost(p) # <<>>
         /\ Len(p.labels) \in Nat /\ DOMAIN p.labels = 1 .. Len(p.labels)
         /\ ~ Bracketed(BareHost(p)) /\ Unbracketed(BareHost(p)) = BareHost(p)
         /\ ~ HasColon(BareHost(p))
         /\ ~ (Len(BareHost(p)) = 1 /\ Kind(BareHost(p)[1]) = "v6")
         /\ Labels(BareHost(p)) = [k \in 1 .. Len(p.labels) |-> <<p.labels[k]>>]
         /\ \A k \in 1 .. Len(p.labels) : p.labels[k] \in DOMAIN Words \cup {"%00"}
  <1> DEFINE L == p.labels
             b == BareHost(p)
  <1>1. L \in Undotted /\ L # <<>> /\ b = Joined(L) /\ b \in Texts /\ b # <<>>
    BY BareHostShape DEF BareHost
  <1>2. /\ Len(b) \in Nat /\ Len(b) > 0 /\ DOMAIN b = 1 .. Len(b)
        /\ Len(L) \in Nat /\ DOMAIN L = 1 .. Len(L)
    BY <1>1, TextLen, LenProperties DEF Undotted
  <1>3. /\ \A k \in DOMAIN L : Kind(L[k]) # "v6"
        /\ L \in Seq(DOMAIN Words \cup {"%00"})
    BY UrlAssumption
  <1>4. ASSUME NEW i \in 1 .. Len(b)
        PROVE  b[i] # ":" /\ Kind(b[i]) # "v6" /\ b[i] \notin {"[", "]"}
    <2>1. /\ b[i] \in DOMAIN Words \cup {".", "[", "]", "%00"}
          /\ b[i] \notin {"[", "]"}
          /\ \/ b[i] \in {".", "[", "]"}
             \/ \E k \in 1 .. Len(L) : b[i] = L[k]
      BY BareHostTokens
    <2>2. b[i] # ":"
      BY <2>1, WordsAssumption DEF Marks
    <2>3. Kind(".") = "mark"
      BY KindOfMark DEF Marks
    <2>4. CASE b[i] = "."
      BY <2>1, <2>2, <2>3, <2>4
    <2>5. CASE b[i] # "."
      <3>1. PICK k \in 1 .. Len(L) : b[i] = L[k]
        BY <2>1, <2>5
      <3> QED BY <3>1, <2>1, <2>2, <1>2, <1>3
    <2> QED BY <2>4, <2>5
  <1>5. Labels(Joined(L)) = [k \in 1 .. Len(L) |-> <<L[k]>>]
    BY <1>1, LabelsOfJoined
  <1>6. \A k \in 1 .. Len(L) : L[k] \in DOMAIN Words \cup {"%00"}
    BY <1>3, ElementOfSeq
  <1> HIDE DEF L, b
  <1>7. 1 \in 1 .. Len(b)
    BY <1>2
  <1>8. b[1] # "[" /\ Kind(b[1]) # "v6"
    BY <1>4, <1>7
  <1>9. ~ Bracketed(b) /\ Unbracketed(b) = b
    BY <1>8 DEF Bracketed, Unbracketed
  <1>10. ~ HasColon(b)
    BY <1>2, <1>4 DEF HasColon
  <1> QED BY <1>1, <1>2, <1>5, <1>6, <1>8, <1>9, <1>10 DEF L, b

\* What the classifiers make of it.
LEMMA NameVerdicts ==
  ASSUME NEW p \in UrlParts, ~ p.v6
  PROVE  /\ IsIpLiteral(BareHost(p)) <=> Octets(p.labels)
         /\ IsAmbiguousIp(BareHost(p)) <=>
              /\ ~ Octets(p.labels)
              /\ \/ \E k \in DOMAIN p.labels : Kind(p.labels[k]) = "hex"
                 \/ /\ \A k \in DOMAIN p.labels : Kind(p.labels[k]) \in {"dec", "octal"}
                    /\ \/ \E k \in DOMAIN p.labels : Kind(p.labels[k]) = "octal"
                       \/ Len(p.labels) # 4
         /\ IpOf(Unbracketed(BareHost(p))) = RefIp(p)
  <1> DEFINE L == p.labels
             b == BareHost(p)
             D == [k \in 1 .. Len(L) |-> <<L[k]>>]
  <1>1. /\ b # <<>> /\ Len(L) \in Nat /\ DOMAIN L = 1 .. Len(L)
        /\ ~ Bracketed(b) /\ Unbracketed(b) = b /\ ~ HasColon(b)
        /\ ~ (Len(b) = 1 /\ Kind(b[1]) = "v6")
        /\ Labels(b) = D
    BY NameHost
  <1>2. Len(D) = Len(L) /\ DOMAIN D = 1 .. Len(L)
    BY <1>1
  <1>3. \A k \in 1 .. Len(L) : D[k][1] = L[k] /\ Len(D[k]) = 1
    OBVIOUS
  <1> HIDE DEF D, L, b
  <1>4. \A kinds : \A k \in 1 .. Len(L) : LabelIs(D[k], kinds) <=> Kind(L[k]) \in kinds
    BY <1>3 DEF LabelIs
  <1>5. ParsesIp(b) <=> Octets(L)
    <2>1. ParsesIp(b) <=> /\ Len(D) = 4
                          /\ \A k \in 1 .. 4 : /\ LabelIs(D[k], {"dec"})
                                               /\ Words[D[k][1]].value <= 255
      BY <1>1 DEF ParsesIp
    <2>2. ASSUME Len(L) = 4, NEW k \in 1 .. 4
          PROVE  /\ LabelIs(D[k], {"dec"}) <=> Kind(L[k]) = "dec"
                 /\ D[k][1] = L[k]
      BY <2>2, <1>3, <1>4
    <2> QED BY <2>1, <2>2, <1>2 DEF Octets
  <1>6. IsIpLiteral(b) <=> Octets(L)
    BY <1>5, <1>1 DEF IsIpLiteral
  <1>7. IsAmbiguousIp(b) <=>
          /\ ~ Octets(L)
          /\ \/ \E k \in 1 .. Len(L) : LabelIs(D[k], {"hex"})
             \/ /\ \A k \in 1 .. Len(L) : LabelIs(D[k], {"dec", "octal"})
                /\ \/ \E k \in 1 .. Len(L) : LabelIs(D[k], {"octal"})
                   \/ Len(L) # 4
    BY <1>1, <1>2, <1>5 DEF IsAmbiguousIp
  <1>8. IpOf(b) = RefIp(p)
    <2>1. IpOf(b) = [k \in 1 .. Len(L) |-> Words[D[k][1]].value]
      BY <1>1, <1>2 DEF IpOf
    <2>2. RefIp(p) = [k \in 1 .. Len(L) |-> Words[L[k]].value]
      BY <1>1 DEF RefIp, L
    <2> QED BY <2>1, <2>2, <1>3
  <1>9. IsAmbiguousIp(b) <=>
          /\ ~ Octets(L)
          /\ \/ \E k \in 1 .. Len(L) : Kind(L[k]) = "hex"
             \/ /\ \A k \in 1 .. Len(L) : Kind(L[k]) \in {"dec", "octal"}
                /\ \/ \E k \in 1 .. Len(L) : Kind(L[k]) = "octal"
                   \/ Len(L) # 4
    <2>1. \A k \in 1 .. Len(L) : /\ LabelIs(D[k], {"hex"}) <=> Kind(L[k]) = "hex"
                                 /\ LabelIs(D[k], {"octal"}) <=> Kind(L[k]) = "octal"
                                 /\ LabelIs(D[k], {"dec", "octal"})
                                      <=> Kind(L[k]) \in {"dec", "octal"}
      BY <1>4
    <2> QED BY <2>1, <1>7
  <1> QED BY <1>1, <1>6, <1>8, <1>9 DEF L, b

\* A bracketed address is never ambiguous and always an address.
LEMMA SixVerdicts ==
  ASSUME NEW p \in UrlParts, p.v6
  PROVE  /\ IsIpLiteral(BareHost(p)) /\ ~ IsAmbiguousIp(BareHost(p))
         /\ IpOf(Unbracketed(BareHost(p))) = RefIp(p)
  <1>1. PICK w \in DOMAIN Words :
           p.labels = <<w>> /\ Kind(w) = "v6" /\ BareHost(p) = <<"[", w, "]">>
    BY BareHostShape
  <1> DEFINE t == <<"[", w, "]">>
  <1>2. Bracketed(t)
    <2>1. Len(t) = 3 /\ t # <<>> /\ t[1] = "[" /\ t[3] = "]"
      OBVIOUS
    <2> HIDE DEF t
    <2> QED BY <2>1 DEF Bracketed
  <1>3. Unbracketed(t) = <<w>>
    <2>1. Len(t) = 3 /\ t[2] = w /\ \A i \in 2 .. 2 : t[i] \in {w}
      OBVIOUS
    <2> HIDE DEF t
    <2>2. /\ SubSeq(t, 2, 2) \in Seq({w}) /\ Len(SubSeq(t, 2, 2)) = 1
          /\ SubSeq(t, 2, 2)[1] = t[2]
      <3>1. /\ SubSeq(t, 2, 2) \in Seq({w})
            /\ Len(SubSeq(t, 2, 2)) = IF 2 <= 2 THEN 2 - 2 + 1 ELSE 0
            /\ \A i \in 1 .. 2 - 2 + 1 : SubSeq(t, 2, 2)[i] = t[2 + i - 1]
        BY <2>1, SubSeqProperties
      <3>2. SubSeq(t, 2, 2)[1] = t[2 + 1 - 1]
        BY <3>1
      <3> QED BY <3>1, <3>2
    <2> DEFINE one == <<w>>
               cut == SubSeq(t, 2, 2)
    <2>3. one \in Seq({w}) /\ Len(one) = 1 /\ one[1] = w
      OBVIOUS
    <2> HIDE DEF one, cut
    <2>6. cut \in Seq({w}) /\ Len(cut) = 1 /\ cut[1] = w
      BY <2>1, <2>2 DEF cut
    <2>7. \A i \in 1 .. Len(cut) : cut[i] = one[i]
      BY <2>3, <2>6
    <2>8. cut = one
      BY <2>3, <2>6, <2>7, SeqEqual
    <2>4. SubSeq(t, 2, 2) = <<w>>
      BY <2>8 DEF one, cut
    <2>5. Len(t) - 1 = 2
      BY <2>1
    <2> QED BY <2>4, <2>5, <1>2, Zenon DEF Unbracketed
  <1>4. Labels(<<w>>) = << <<w>> >>
    <2>1. <<w>> \in Undotted /\ <<w>> # <<>>
      <3>1. w \notin Marks /\ w \in Tokens
        BY WordsAssumption DEF Tokens
      <3>2. w # "."
        BY <3>1 DEF Marks
      <3> QED BY <3>1, <3>2 DEF Undotted
    <2>2. Labels(Joined(<<w>>)) = [k \in 1 .. 1 |-> << <<w>>[k] >>]
      BY <2>1, LabelsOfJoined
    <2>3. Joined(<<w>>) = <<w>>
      <3>1. Joined(<<w>>) \in Texts /\ Len(Joined(<<w>>)) = 1
        <4> DEFINE one == <<w>>
        <4>1. one \in Undotted /\ one # <<>> /\ Len(one) = 1
          BY <2>1
        <4> HIDE DEF one
        <4>2. Joined(one) \in Texts /\ Len(Joined(one)) = 2 * 1 - 1
          BY <4>1, JoinedPlaces
        <4>3. Joined(one) \in Texts /\ Len(Joined(one)) = 1
          BY <4>2
        <4> QED BY <4>3 DEF one
      <3>2. Joined(<<w>>)[1] = w
        BY <2>1, JoinedEnds
      <3>3. <<w>> \in Texts /\ Len(<<w>>) = 1
        BY DEF Texts, Tokens
      <3> QED BY <3>1, <3>2, <3>3, SeqEqual DEF Texts
    <2>4. [k \in 1 .. 1 |-> << <<w>>[k] >>] = << <<w>> >>
      OBVIOUS
    <2> QED BY <2>2, <2>3, <2>4
  <1>5. IpOf(<<w>>) = RefIp(p)
    <2>1. IpOf(<<w>>) = [k \in 1 .. 1 |-> Words[w].value]
      BY <1>4 DEF IpOf
    <2>2. RefIp(p) = [k \in 1 .. 1 |-> Words[w].value]
      BY <1>1 DEF RefIp
    <2> QED BY <2>1, <2>2
  <1>6. ParsesIp(<<w>>)
    BY <1>1 DEF ParsesIp
  <1>7. BareHost(p) = t
    BY <1>1
  <1> HIDE DEF t
  <1> QED BY <1>2, <1>3, <1>5, <1>6, <1>7 DEF IsIpLiteral, IsAmbiguousIp

\* An address is read as one unless its spelling is ambiguous, and is then the
\* address its labels spell; no other host is one.
LEMMA AddressVerdicts ==
  ASSUME NEW p \in UrlParts
  PROVE  /\ IsAddress(p) => /\ IsAmbiguousIp(BareHost(p)) <=> ~ (p.v6 \/ Canonical(p.labels))
                            /\ p.v6 \/ Canonical(p.labels) => IsIpLiteral(BareHost(p))
         /\ ~ IsAddress(p) => ~ IsIpLiteral(BareHost(p))
         /\ IpOf(Unbracketed(BareHost(p))) = RefIp(p)
  <1>1. CASE p.v6
    BY <1>1, SixVerdicts DEF IsAddress
  <1>2. CASE ~ p.v6
    <2> DEFINE L == p.labels
    <2>1. /\ Len(L) \in Nat /\ DOMAIN L = 1 .. Len(L)
          /\ \A k \in 1 .. Len(L) : L[k] \in DOMAIN Words \cup {"%00"}
      BY <1>2, NameHost
    <2>0. Room[4] = 256
      BY SMT DEF Room
    <2>2. \A k \in 1 .. Len(L) :
             Kind(L[k]) # "mark" => L[k] \in DOMAIN Words /\ Words[L[k]].value \in Int
      BY WordsAssumption DEF Kind
    <2>3. ReadAsAddress(L) /\ Canonical(L) => Octets(L)
      <3> SUFFICES ASSUME ReadAsAddress(L), Canonical(L) PROVE Octets(L)
        OBVIOUS
      <3>1. Len(L) = 4 /\ \A k \in 1 .. 4 : Kind(L[k]) = "dec"
        BY DEF Canonical
      <3>2. \A k \in 1 .. 4 : Words[L[k]].value < 256
        BY <3>1, <2>1, <2>0 DEF ReadAsAddress
      <3>3. \A k \in 1 .. 4 : Words[L[k]].value \in Int
        BY <3>1, <2>2
      <3>4. \A k \in 1 .. 4 : Words[L[k]].value <= 255
        BY <3>2, <3>3
      <3> QED BY <3>1, <3>4 DEF Octets
    <2>4. Octets(L) => ReadAsAddress(L) /\ Canonical(L)
      <3> SUFFICES ASSUME Octets(L) PROVE ReadAsAddress(L) /\ Canonical(L)
        OBVIOUS
      <3>1. Len(L) = 4 /\ \A k \in 1 .. 4 : Kind(L[k]) = "dec" /\ Words[L[k]].value <= 255
        BY DEF Octets
      <3>2. \A k \in 1 .. 4 : Words[L[k]].value \in Int
        BY <3>1, <2>2
      <3>3. \A k \in 1 .. 4 : Words[L[k]].value < 256
        BY <3>1, <3>2
      <3> QED BY <3>1, <3>3, <2>1, <2>0 DEF ReadAsAddress, Canonical
    <2>5. ReadAsAddress(L) => \A k \in DOMAIN L : Kind(L[k]) \in {"dec", "octal", "hex"}
      <3> SUFFICES ASSUME ReadAsAddress(L), NEW k \in DOMAIN L
                   PROVE  Kind(L[k]) \in {"dec", "octal", "hex"}
        BY Zenon
      <3> HIDE DEF L
      <3> QED BY DEF ReadAsAddress
    <2>6. Canonical(L) <=> Len(L) = 4 /\ \A k \in DOMAIN L : Kind(L[k]) = "dec"
      BY <2>1 DEF Canonical
    <2>7. /\ IsIpLiteral(BareHost(p)) <=> Octets(L)
          /\ IsAmbiguousIp(BareHost(p)) <=>
               /\ ~ Octets(L)
               /\ \/ \E k \in DOMAIN L : Kind(L[k]) = "hex"
                  \/ /\ \A k \in DOMAIN L : Kind(L[k]) \in {"dec", "octal"}
                     /\ \/ \E k \in DOMAIN L : Kind(L[k]) = "octal"
                        \/ Len(L) # 4
          /\ IpOf(Unbracketed(BareHost(p))) = RefIp(p)
      BY <1>2, NameVerdicts
    <2> HIDE DEF L
    <2>8. ReadAsAddress(L) => (IsAmbiguousIp(BareHost(p)) <=> ~ Canonical(L))
      BY <2>3, <2>4, <2>5, <2>6, <2>7
    <2> QED BY <2>3, <2>4, <2>7, <2>8, <1>2 DEF IsAddress, L
  <1> QED BY <1>1, <1>2

\* Of a host that is no address, labels that are not all numbers and none of
\* them hex are no ambiguous spelling.
LEMMA PlainIsNotAmbiguous ==
  ASSUME NEW p \in UrlParts, Plain(p), ~ IsAddress(p)
  PROVE  ~ IsAmbiguousIp(BareHost(p))
  <1>1. ~ p.v6
    BY DEF IsAddress
  <1>2. /\ \A k \in DOMAIN p.labels : Kind(p.labels[k]) # "hex"
        /\ \E k \in DOMAIN p.labels : Kind(p.labels[k]) \notin {"dec", "octal"}
    BY DEF Plain
  <1> QED BY <1>1, <1>2, NameVerdicts

\* The dashes of the host are those of its labels.
LEMMA DashesOfLabels ==
  ASSUME NEW p \in UrlParts
  PROVE  DoubleDash(BareHost(p)) <=> DoubleDash(p.labels)
  <1> DEFINE L == p.labels
             b == BareHost(p)
  <1>1. /\ \A k \in 1 .. Len(L) : \E j \in 1 .. Len(b) : b[j] = L[k]
        /\ \A j \in 1 .. Len(b) : \/ b[j] \in {".", "[", "]"}
                                  \/ \E k \in 1 .. Len(L) : b[j] = L[k]
    BY BareHostTokens
  <1>2. b \in Texts /\ DOMAIN b = 1 .. Len(b)
    BY BareHostShape, TextLen
  <1>3. DOMAIN L = 1 .. Len(L)
    <2>1. L \in Seq(DOMAIN Words \cup {"%00"})
      BY UrlAssumption
    <2> QED BY <2>1, LenProperties
  <1>4. \A m \in {".", "[", "]"} : Kind(m) = "mark"
    BY KindOfMark DEF Marks
  <1> HIDE DEF L, b
  <1>5. DoubleDash(b) => DoubleDash(L)
    <2> SUFFICES ASSUME NEW j \in DOMAIN b, Kind(b[j]) = "dash" PROVE DoubleDash(L)
      BY DEF DoubleDash
    <2>1. b[j] \notin {".", "[", "]"}
      BY <1>4
    <2>2. PICK k \in 1 .. Len(L) : b[j] = L[k]
      BY <2>1, <1>1, <1>2
    <2> QED BY <2>2, <1>3 DEF DoubleDash
  <1>6. DoubleDash(L) => DoubleDash(b)
    <2> SUFFICES ASSUME NEW k \in DOMAIN L, Kind(L[k]) = "dash" PROVE DoubleDash(b)
      BY DEF DoubleDash
    <2>1. PICK j \in 1 .. Len(b) : b[j] = L[k]
      BY <1>1, <1>3
    <2> QED BY <2>1, <1>2 DEF DoubleDash
  <1> QED BY <1>5, <1>6 DEF L, b
-----------------------------------------------------------------------------
(***************************************************************************)
(* The checks, one by one.                                                 *)
(***************************************************************************)
\* When each check of validate_url fails.
LEMMA ChecksAre ==
  ASSUME NEW v, NEW url, NEW policy
  PROVE  LET found == HostOf(url)
             host  == TrimDots(found)
             C     == Checks(v, url, policy)
         IN /\ DOMAIN C = 1 .. 14
            /\ C[1].fails <=> EmptyOrUnc(url)
            /\ C[2].fails <=> HasProhibitedControlChars(url)
            /\ C[3].fails <=> found = <<>>
            /\ C[4].fails <=> HostHasProhibitedChars(found)
            /\ C[5].fails <=> SchemeEnd(url) > 0 /\ ~ SchemeAllowed(url)
            /\ C[6].fails <=> SchemeEnd(url) = 0 /\ HasPseudoScheme(url)
            /\ C[7].fails <=> SchemeEnd(url) = 0
            /\ C[8].fails <=> host = <<>>
            /\ C[9].fails <=> IsAmbiguousIp(host)
            /\ C[10].fails <=> /\ IsIpLiteral(host) /\ policy.given
                               /\ IpOf(Unbracketed(host)) \notin policy.permits
            /\ C[11].fails <=> HasUserinfoBypass(url)
            /\ C[12].fails <=> v.reject_double_dash_hostnames /\ DoubleDash(host)
            /\ C[13].fails <=> MatchesSome(v.denied_domain_suffixes, Lower(host))
            /\ C[14].fails <=> /\ v.trusted_domain_suffixes # <<>> /\ ~ IsIpLiteral(host)
                               /\ ~ MatchesSome(v.trusted_domain_suffixes, Lower(host))
  <1> DEFINE found == HostOf(url)
             host  == TrimDots(found)
             C     == Checks(v, url, policy)
  <1>1. DOMAIN C = 1 .. 14
    BY DEF Checks
  <1>2. /\ C[1].fails <=> EmptyOrUnc(url)
        /\ C[2].fails <=> HasProhibitedControlChars(url)
        /\ C[3].fails <=> found = <<>>
        /\ C[4].fails <=> HostHasProhibitedChars(found)
    BY DEF Checks
  <1>3. /\ C[5].fails <=> SchemeEnd(url) > 0 /\ ~ SchemeAllowed(url)
        /\ C[6].fails <=> SchemeEnd(url) = 0 /\ HasPseudoScheme(url)
        /\ C[7].fails <=> SchemeEnd(url) = 0
        /\ C[8].fails <=> host = <<>>
    BY DEF Checks
  <1>4. /\ C[9].fails <=> IsAmbiguousIp(host)
        /\ C[10].fails <=> /\ IsIpLiteral(host) /\ policy.given
                           /\ IpOf(Unbracketed(host)) \notin policy.permits
        /\ C[11].fails <=> HasUserinfoBypass(url)
    BY DEF Checks
  <1>5. /\ C[12].fails <=> v.reject_double_dash_hostnames /\ DoubleDash(host)
        /\ C[13].fails <=> MatchesSome(v.denied_domain_suffixes, Lower(host))
        /\ C[14].fails <=> /\ v.trusted_domain_suffixes # <<>> /\ ~ IsIpLiteral(host)
                           /\ ~ MatchesSome(v.trusted_domain_suffixes, Lower(host))
    BY DEF Checks
  <1> HIDE DEF C, host, found
  <1> QED BY <1>1, <1>2, <1>3, <1>4, <1>5, Zenon DEF C, host, found

\* A URL passes if none does.
LEMMA PassesIff ==
  ASSUME NEW v, NEW url, NEW policy
  PROVE  Passes(v, url, policy) <=>
           LET found == HostOf(url)
               host  == TrimDots(found)
           IN /\ ~ EmptyOrUnc(url)
              /\ ~ HasProhibitedControlChars(url)
              /\ found # <<>>
              /\ ~ HostHasProhibitedChars(found)
              /\ ~ (SchemeEnd(url) > 0 /\ ~ SchemeAllowed(url))
              /\ ~ (SchemeEnd(url) = 0 /\ HasPseudoScheme(url))
              /\ SchemeEnd(url) # 0
              /\ host # <<>>
              /\ ~ IsAmbiguousIp(host)
              /\ ~ (/\ IsIpLiteral(host) /\ policy.given
                    /\ IpOf(Unbracketed(host)) \notin policy.permits)
              /\ ~ HasUserinfoBypass(url)
              /\ ~ (v.reject_double_dash_hostnames /\ DoubleDash(host))
              /\ ~ MatchesSome(v.denied_domain_suffixes, Lower(host))
              /\ ~ (/\ v.trusted_domain_suffixes # <<>> /\ ~ IsIpLiteral(host)
                    /\ ~ MatchesSome(v.trusted_domain_suffixes, Lower(host)))
  <1> DEFINE C == Checks(v, url, policy)
  <1>1. Passes(v, url, policy) <=> \A k \in DOMAIN C : ~ C[k].fails
    BY DEF Passes, Failing
  <1>2. DOMAIN C = 1 .. 14
    BY ChecksAre
  <1> HIDE DEF C
  <1>3. Passes(v, url, policy) <=>
          /\ ~ C[1].fails /\ ~ C[2].fails /\ ~ C[3].fails /\ ~ C[4].fails
          /\ ~ C[5].fails /\ ~ C[6].fails /\ ~ C[7].fails /\ ~ C[8].fails
          /\ ~ C[9].fails /\ ~ C[10].fails /\ ~ C[11].fails /\ ~ C[12].fails
          /\ ~ C[13].fails /\ ~ C[14].fails
    BY <1>1, <1>2
  <1> QED BY <1>3, ChecksAre DEF C

\* The reason that names an ambiguous address is given by the ninth check: it
\* fails, and the eight before it do not.
LEMMA NinthReason ==
  ASSUME NEW v, NEW url, NEW policy,
         \A k \in 1 .. 8 : ~ Checks(v, url, policy)[k].fails
  PROVE  ValidateUrl(v, url, policy) = "AmbiguousIpEncoding"
           <=> Checks(v, url, policy)[9].fails
  <1> DEFINE C == Checks(v, url, policy)
             F == Failing(v, url, policy)
             least == CHOOSE k \in F : \A j \in F : k <= j
  <1>1. DOMAIN C = 1 .. 14
    BY ChecksAre
  <1>2. /\ C[9].reason = "AmbiguousIpEncoding"
        /\ C[10].reason # "AmbiguousIpEncoding" /\ C[11].reason # "AmbiguousIpEncoding"
        /\ C[12].reason # "AmbiguousIpEncoding" /\ C[13].reason # "AmbiguousIpEncoding"
        /\ C[14].reason # "AmbiguousIpEncoding"
    BY DEF Checks
  <1>3. F = {k \in DOMAIN C : C[k].fails}
    BY Zenon DEF Failing
  <1>4. ValidateUrl(v, url, policy) = IF F = {} THEN "Allowed" ELSE C[least].reason
    BY Zenon DEF ValidateUrl, Passes
  <1>5. \A k \in 1 .. 8 : ~ C[k].fails
    OBVIOUS
  <1> HIDE DEF C, F
  <1>6. F \in SUBSET Nat /\ \A k \in F : k \in 9 .. 14
    BY <1>1, <1>3, <1>5
  <1>7. F # {} => least \in F /\ \A j \in F : least <= j
    BY <1>6, LeastNat
  <1> HIDE DEF least
  <1>8. CASE C[9].fails
    <2>1. 9 \in F
      BY <1>1, <1>3, <1>8
    <2>2. least = 9
      <3>1. F # {}
        BY <2>1
      <3>2. least \in F /\ least <= 9
        BY <2>1, <3>1, <1>7
      <3> QED BY <3>2, <1>6
    <2> QED BY <2>1, <2>2, <1>2, <1>4, <1>8 DEF C
  <1>9. CASE ~ C[9].fails
    <2>1. CASE F = {}
      BY <2>1, <1>4, <1>9 DEF C
    <2>2. CASE F # {}
      <3>1. least \in 9 .. 14 /\ least # 9
        BY <2>2, <1>3, <1>6, <1>7, <1>9
      <3>2. least \in {10, 11, 12, 13, 14}
        BY <3>1
      <3>3. C[least].reason # "AmbiguousIpEncoding"
        BY <3>2, <1>2
      <3> QED BY <3>3, <2>2, <1>4, <1>9 DEF C
    <2> QED BY <2>1, <2>2
  <1> QED BY <1>8, <1>9

\* A text that begins with a word is neither empty nor a UNC path.
LEMMA NotEmptyOrUnc ==
  ASSUME NEW url \in Texts, url # <<>>, url[1] \notin Marks
  PROVE  ~ EmptyOrUnc(url)
  <1> DEFINE unc == <<"\\", "\\">>
             cut == SubSeq(url, 1, 2)
  <1>1. Len(unc) = 2 /\ SubSeq(unc, 1, 2)[1] = "\\"
    <2>1. Len(unc) = 2 /\ unc[1] = "\\" /\ \A i \in 1 .. 2 : unc[i] \in Tokens
      BY DEF Tokens, Marks
    <2> HIDE DEF unc
    <2>2. \A i \in 1 .. 2 - 1 + 1 : SubSeq(unc, 1, 2)[i] = unc[1 + i - 1]
      BY <2>1, SubSeqProperties
    <2>3. SubSeq(unc, 1, 2)[1] = unc[1 + 1 - 1]
      BY <2>2
    <2> QED BY <2>1, <2>3
  <1>2. Len(url) \in Nat /\ \A i \in 1 .. Len(url) : url[i] \in Tokens
    BY ElementOfSeq, TextLen DEF Texts
  <1> HIDE DEF unc
  <1>3. ASSUME 2 <= Len(url) PROVE cut[1] = url[1]
    <2>1. \A i \in 1 .. 2 : url[i] \in Tokens
      BY <1>2, <1>3
    <2>2. \A i \in 1 .. 2 - 1 + 1 : cut[i] = url[1 + i - 1]
      BY <2>1, SubSeqProperties
    <2>3. cut[1] = url[1 + 1 - 1]
      BY <2>2
    <2> QED BY <2>3
  <1> HIDE DEF cut
  <1>4. IsPrefix(unc, url) => 2 <= Len(url) /\ SubSeq(unc, 1, 2) = cut
    BY <1>1 DEF IsPrefix, cut
  <1>5. url[1] # "\\"
    BY DEF Marks
  <1> QED BY <1>1, <1>3, <1>4, <1>5 DEF EmptyOrUnc, unc

\* SchemeEnd is a place, or 0.
LEMMA SchemeEndNat ==
  ASSUME NEW url \in Texts
  PROVE  SchemeEnd(url) \in Nat
  <1> DEFINE at == {i \in DOMAIN url : /\ i + 2 <= Len(url)
                                       /\ SubSeq(url, i, i + 2) = <<":", "/", "/">>}
  <1>1. SchemeEnd(url) = IF at = {} THEN 0 ELSE CHOOSE i \in at : \A j \in at : i <= j
    BY DEF SchemeEnd
  <1>2. at \in SUBSET Nat
    BY TextLen
  <1> HIDE DEF at
  <1>3. at # {} => \E i \in at : \A j \in at : i <= j
    BY <1>2, LeastNat
  <1>4. CASE at = {}
    BY <1>1, <1>4
  <1>5. CASE at # {}
    <2>1. PICK i \in at : \A j \in at : i <= j
      BY <1>3, <1>5
    <2>2. (CHOOSE x \in at : \A j \in at : x <= j) \in at
      BY <2>1
    <2> QED BY <2>2, <1>1, <1>2, <1>5
  <1> QED BY <1>4, <1>5

\* Judged asks for a scheme that is proper, and a proper one is what it asks.
LEMMA JudgedIsProper ==
  ASSUME NEW p \in UrlParts
  PROVE  Proper(p) <=> /\ p.scheme # <<>>
                       /\ SubSeq(p.scheme, 2, Len(p.scheme)) = <<":", "/", "/">>
  <1>1. /\ p.scheme \in Texts /\ Len(p.scheme) \in Nat
        /\ \A i \in 1 .. Len(p.scheme) : p.scheme[i] \in Tokens
    BY Pieces, TextLen, ElementOfSeq DEF Texts
  <1>2. ASSUME Proper(p)
        PROVE  p.scheme # <<>> /\ SubSeq(p.scheme, 2, Len(p.scheme)) = <<":", "/", "/">>
    <2> DEFINE s == p.scheme
               rest == SubSeq(s, 2, 4)
               delimiter == <<":", "/", "/">>
    <2>1. Len(s) = 4 /\ s[2] = ":" /\ s[3] = "/" /\ s[4] = "/" /\ s # <<>>
      BY <1>2 DEF Proper
    <2>2. /\ Len(delimiter) = 3 /\ delimiter \in Texts
          /\ delimiter[1] = ":" /\ delimiter[2] = "/" /\ delimiter[3] = "/"
      BY DEF Texts, Tokens, Marks
    <2> HIDE DEF s, delimiter
    <2>3. \A i \in 2 .. 4 : s[i] \in Tokens
      BY <1>1, <2>1 DEF s
    <2>4. /\ rest \in Texts /\ Len(rest) = IF 2 <= 4 THEN 4 - 2 + 1 ELSE 0
          /\ \A i \in 1 .. 4 - 2 + 1 : rest[i] = s[2 + i - 1]
      BY <2>3, SubSeqProperties DEF Texts
    <2> HIDE DEF rest
    <2>5. Len(rest) = 3 /\ rest[1] = s[2] /\ rest[2] = s[3] /\ rest[3] = s[4]
      BY <2>4
    <2>6. \A i \in 1 .. Len(rest) : rest[i] = delimiter[i]
      <3> SUFFICES ASSUME NEW i \in 1 .. 3 PROVE rest[i] = delimiter[i]
        BY <2>5
      <3>1. i = 1 \/ i = 2 \/ i = 3
        OBVIOUS
      <3> QED BY <3>1, <2>1, <2>2, <2>5
    <2>7. rest = delimiter
      BY <2>2, <2>4, <2>5, <2>6, SeqEqual DEF Texts
    <2> QED BY <2>1, <2>7 DEF s, rest, delimiter
  <1>3. ASSUME p.scheme # <<>>, SubSeq(p.scheme, 2, Len(p.scheme)) = <<":", "/", "/">>
        PROVE  Proper(p)
    <2>1. Len(<<":", "/", "/">>) = 3
      OBVIOUS
    <2>2. Len(SubSeq(p.scheme, 2, Len(p.scheme)))
            = IF 2 <= Len(p.scheme) THEN Len(p.scheme) - 2 + 1 ELSE 0
      <3>1. \A i \in 2 .. Len(p.scheme) : p.scheme[i] \in Tokens
        BY <1>1
      <3> QED BY <3>1, <1>1, SubSeqProperties
    <2>3. Len(p.scheme) = 4
      <3>1. Len(SubSeq(p.scheme, 2, Len(p.scheme))) = 3
        BY <2>1, <1>3
      <3> QED BY <3>1, <2>2, <1>1
    <2>4. p.scheme \in {<<>>, <<"\\", "\\">>}
                       \cup UNION {{<<w, ":">>, <<w, ":", "/", "/">>} : w \in DOMAIN Words}
      BY UrlAssumption
    <2>5. p.scheme # <<>> /\ p.scheme # <<"\\", "\\">>
      <3> DEFINE unc == <<"\\", "\\">>
      <3>1. Len(unc) = 2
        OBVIOUS
      <3> HIDE DEF unc
      <3>2. p.scheme # unc
        BY <3>1, <2>3
      <3> QED BY <3>2, <1>3 DEF unc
    <2>6. PICK w \in DOMAIN Words : p.scheme \in {<<w, ":">>, <<w, ":", "/", "/">>}
      BY <2>4, <2>5
    <2>7. p.scheme # <<w, ":">>
      BY <2>3
    <2> QED BY <2>6, <2>7 DEF Proper
  <1> QED BY <1>2, <1>3
\* The validator's fields.
Validators ==
  [trusted_domain_suffixes : Seq(Texts), denied_domain_suffixes : Seq(Texts),
   reject_double_dash_hostnames : BOOLEAN]

\* A host is matched by some suffix if it is under some.
LEMMA MatchesIsUnder ==
  ASSUME NEW p \in UrlParts, NEW suffixes \in Seq(Texts)
  PROVE  MatchesSome(suffixes, Lower(BareHost(p))) <=> UnderSome(p, suffixes)
  <1>1. \A i \in DOMAIN suffixes : suffixes[i] \in Texts
    BY ElementOfSeq, LenProperties
  <1>2. \A i \in DOMAIN suffixes :
           DomainMatchesSuffix(Lower(BareHost(p)), suffixes[i]) <=> Under(p, suffixes[i])
    BY <1>1, MatchIsUnder
  <1> QED BY <1>2 DEF MatchesSome, UnderSome

\* A userinfo without an encoded "@" ends in a real one.
LEMMA RealUserinfo ==
  ASSUME NEW p \in UrlParts, ~ Has(p.userinfo, {"%40"}), p.userinfo # <<>>
  PROVE  p.userinfo[Len(p.userinfo)] = "@"
  <1>1. p.userinfo \in Texts
    BY Pieces
  <1>2. Len(p.userinfo) \in Nat /\ Len(p.userinfo) > 0
    BY <1>1, TextLen
  <1>3. Len(p.userinfo) \in 1 .. Len(p.userinfo)
    BY <1>2
  <1>4. p.userinfo[Len(p.userinfo)] \notin {"%40"}
    BY <1>1, <1>3, HasNot
  <1> QED BY <1>4, UrlAssumption

\* What is found of a URL with a proper scheme and a real "@" or none.
LEMMA UrlVerdicts ==
  ASSUME NEW p \in UrlParts, Proper(p),
         p.userinfo # <<>> => p.userinfo[Len(p.userinfo)] = "@"
  PROVE  /\ HostOf(UrlText(p)) = HostTokens(p)
         /\ TrimDots(HostOf(UrlText(p))) = BareHost(p)
         /\ HostOf(UrlText(p)) # <<>> /\ BareHost(p) # <<>>
         /\ ~ EmptyOrUnc(UrlText(p))
         /\ ~ Has(p.tail, {"NUL"}) => ~ HasProhibitedControlChars(UrlText(p))
         /\ ~ Has(p.labels, {"%00"}) => ~ HostHasProhibitedChars(HostOf(UrlText(p)))
         /\ SchemeEnd(UrlText(p)) = 2
         /\ SchemeAllowed(UrlText(p)) <=> Lower(p.scheme)[1] \in Allowed
  <1> DEFINE url == UrlText(p)
  <1>1. /\ p.scheme \in Texts /\ p.tail \in Texts /\ Lead(p) \in Texts
        /\ url = p.scheme \o (Lead(p) \o p.tail)
    BY Pieces
  <1>2. Lead(p) \o p.tail \in Texts /\ url \in Texts
    <2>1. Lead(p) \o p.tail \in Texts
      BY <1>1, Glued
    <2> QED BY <2>1, <1>1, Glued
  <1>3. HostOf(url) = HostTokens(p)
    BY HostIsFound
  <1>4. /\ TrimDots(HostTokens(p)) = BareHost(p)
        /\ HostTokens(p) \in Texts /\ HostTokens(p) # <<>> /\ BareHost(p) # <<>>
    <2>1. <<>> \in Texts
      BY DEF Texts
    <2> QED BY <2>1, MatchIsUnder, BareHostTokens, BareHostShape
  <1>5. /\ SchemeEnd(url) = 2 /\ Lower(url)[1] = Lower(p.scheme)[1]
        /\ url # <<>> /\ url[1] \notin Marks
        /\ ~ Has(p.scheme, {"NUL"})
    BY ProperUrl
  <1>6. ~ EmptyOrUnc(url)
    BY <1>2, <1>5, NotEmptyOrUnc
  <1>7. ~ Has(p.tail, {"NUL"}) => ~ Has(url, {"NUL"})
    <2>1. ~ Has(Lead(p), {"NUL"})
      BY PieceMarks, HasFewer
    <2> HIDE DEF url
    <2> QED BY <2>1, <1>1, <1>2, <1>5, HasConcat
  <1>8. ~ Has(p.labels, {"%00"}) => ~ Has(HostTokens(p), {"NUL", "%00"})
    <2> SUFFICES ASSUME ~ Has(p.labels, {"%00"}), NEW i \in DOMAIN HostTokens(p)
                 PROVE  HostTokens(p)[i] \notin {"NUL", "%00"}
      BY DEF Has
    <2>1. i \in 1 .. Len(HostTokens(p))
      BY <1>4, TextLen
    <2> QED BY <2>1, HostHasNoMarks DEF Around
  <1> QED BY <1>3, <1>4, <1>5, <1>6, <1>7, <1>8
          DEF HasProhibitedControlChars, HostHasProhibitedChars, SchemeAllowed

\* PassMeansJudged, for a validator's fields and one URL.
LEMMA PassIsJudged ==
  ASSUME NEW v \in Validators, NEW p \in UrlParts, NEW policy,
         Passes(v, UrlText(p), policy)
  PROVE  /\ Judged(v, p, policy)
         /\ v.trusted_domain_suffixes # <<>> /\ ~ IsAddress(p) =>
              IsTrustedDomain(v, HostTokens(p))
  <1> DEFINE url   == UrlText(p)
             found == HostOf(url)
             host  == TrimDots(found)
  <1>1. /\ ~ (SchemeEnd(url) > 0 /\ ~ SchemeAllowed(url)) /\ SchemeEnd(url) # 0
        /\ ~ IsAmbiguousIp(host)
        /\ ~ (/\ IsIpLiteral(host) /\ policy.given
              /\ IpOf(Unbracketed(host)) \notin policy.permits)
        /\ ~ HasUserinfoBypass(url)
        /\ ~ (v.reject_double_dash_hostnames /\ DoubleDash(host))
        /\ ~ MatchesSome(v.denied_domain_suffixes, Lower(host))
        /\ ~ (/\ v.trusted_domain_suffixes # <<>> /\ ~ IsIpLiteral(host)
              /\ ~ MatchesSome(v.trusted_domain_suffixes, Lower(host)))
    BY PassesIff, Zenon
  <1>2. SchemeAllowed(url) /\ SchemeEnd(url) = 2
    <2>1. url \in Texts
      <3>1. Lead(p) \o p.tail \in Texts /\ p.scheme \in Texts
        BY Pieces, Glued
      <3> QED BY <3>1, Pieces, Glued
    <2>2. SchemeEnd(url) \in Nat
      BY <2>1, SchemeEndNat
    <2> HIDE DEF url
    <2> QED BY <1>1, <2>2 DEF SchemeAllowed
  <1>3. Proper(p)
    BY <1>2, SchemeIsProper
  <1>4. ~ Has(p.userinfo, {"%40"})
    BY <1>1, <1>3, EncodedIsBypass
  <1>5. p.userinfo # <<>> => p.userinfo[Len(p.userinfo)] = "@"
    BY <1>4, RealUserinfo
  <1>6. /\ host = BareHost(p) /\ TrimDots(HostTokens(p)) = BareHost(p)
        /\ SchemeAllowed(url) <=> Lower(p.scheme)[1] \in Allowed
    BY <1>3, <1>5, UrlVerdicts
  <1> HIDE DEF url, found, host
  <1>7. /\ v.denied_domain_suffixes \in Seq(Texts)
        /\ v.trusted_domain_suffixes \in Seq(Texts)
    BY DEF Validators
  <1>8. /\ p.scheme # <<>> /\ SubSeq(p.scheme, 2, Len(p.scheme)) = <<":", "/", "/">>
        /\ Lower(p.scheme)[1] \in Allowed
    BY <1>2, <1>3, <1>6, JudgedIsProper
  <1>9. IsAddress(p) => /\ p.v6 \/ Canonical(p.labels)
                        /\ policy.given => RefIp(p) \in policy.permits
    BY <1>1, <1>6, AddressVerdicts
  <1>10. v.reject_double_dash_hostnames => ~ DoubleDash(p.labels)
    BY <1>1, <1>6, DashesOfLabels
  <1>11. ~ UnderSome(p, v.denied_domain_suffixes)
    BY <1>1, <1>6, <1>7, MatchesIsUnder
  <1>12. ASSUME v.trusted_domain_suffixes # <<>>, ~ IsAddress(p)
         PROVE  /\ UnderSome(p, v.trusted_domain_suffixes)
                /\ IsTrustedDomain(v, HostTokens(p))
    <2>1. MatchesSome(v.trusted_domain_suffixes, Lower(BareHost(p)))
      BY <1>1, <1>6, <1>12, AddressVerdicts
    <2> QED BY <2>1, <1>6, <1>7, MatchesIsUnder DEF IsTrustedDomain
  <1> QED BY <1>4, <1>8, <1>9, <1>10, <1>11, <1>12 DEF Judged

\* PlainUrlPasses, likewise.
LEMMA JudgedPasses ==
  ASSUME NEW v \in Validators, NEW p \in UrlParts, NEW policy,
         Plain(p), Judged(v, p, policy)
  PROVE  Passes(v, UrlText(p), policy)
  <1> DEFINE url == UrlText(p)
  <1>1. /\ p.scheme # <<>> /\ SubSeq(p.scheme, 2, Len(p.scheme)) = <<":", "/", "/">>
        /\ Lower(p.scheme)[1] \in Allowed
        /\ IsAddress(p) => /\ p.v6 \/ Canonical(p.labels)
                           /\ policy.given => RefIp(p) \in policy.permits
        /\ ~ Has(p.userinfo, {"%40"})
        /\ v.reject_double_dash_hostnames => ~ DoubleDash(p.labels)
        /\ ~ UnderSome(p, v.denied_domain_suffixes)
        /\ v.trusted_domain_suffixes # <<>> /\ ~ IsAddress(p) =>
             UnderSome(p, v.trusted_domain_suffixes)
    BY DEF Judged
  <1>2. /\ ~ Has(p.tail, {"NUL"}) /\ ~ Has(p.labels, {"%00"})
        /\ p.tail # <<>> /\ p.tail[1] = "\\" => ~ Has(p.tail, {"%40"})
    BY DEF Plain
  <1>3. Proper(p)
    BY <1>1, JudgedIsProper
  <1>4. p.userinfo # <<>> => p.userinfo[Len(p.userinfo)] = "@"
    BY <1>1, RealUserinfo
  <1>5. /\ TrimDots(HostOf(url)) = BareHost(p)
        /\ HostOf(url) # <<>> /\ BareHost(p) # <<>>
        /\ ~ EmptyOrUnc(url) /\ ~ HasProhibitedControlChars(url)
        /\ ~ HostHasProhibitedChars(HostOf(url))
        /\ SchemeEnd(url) = 2 /\ SchemeAllowed(url)
    BY <1>1, <1>2, <1>3, <1>4, UrlVerdicts
  <1>6. ~ HasUserinfoBypass(url)
    BY <1>1, <1>2, <1>3, NoBypass
  <1>7. /\ v.denied_domain_suffixes \in Seq(Texts)
        /\ v.trusted_domain_suffixes \in Seq(Texts)
    BY DEF Validators
  <1> HIDE DEF url
  <1>8. ~ IsAmbiguousIp(BareHost(p))
    BY <1>1, AddressVerdicts, PlainIsNotAmbiguous
  <1>9. ~ (/\ IsIpLiteral(BareHost(p)) /\ policy.given
           /\ IpOf(Unbracketed(BareHost(p))) \notin policy.permits)
    BY <1>1, AddressVerdicts
  <1>10. ~ (v.reject_double_dash_hostnames /\ DoubleDash(BareHost(p)))
    BY <1>1, DashesOfLabels
  <1>11. ~ MatchesSome(v.denied_domain_suffixes, Lower(BareHost(p)))
    BY <1>1, <1>7, MatchesIsUnder
  <1>12. ~ (/\ v.trusted_domain_suffixes # <<>> /\ ~ IsIpLiteral(BareHost(p))
            /\ ~ MatchesSome(v.trusted_domain_suffixes, Lower(BareHost(p))))
    BY <1>1, <1>7, AddressVerdicts, MatchesIsUnder
  <1>13. ~ (SchemeEnd(url) > 0 /\ ~ SchemeAllowed(url)) /\ SchemeEnd(url) # 0
    BY <1>5
  <1>14. Passes(v, url, policy)
    BY <1>5, <1>6, <1>8, <1>9, <1>10, <1>11, <1>12, <1>13, PassesIff
  <1> QED BY <1>14 DEF url

\* AddressTextIsRecognised, likewise.
LEMMA AddressIsNinth ==
  ASSUME NEW v, NEW p \in UrlParts, NEW policy,
         ~ p.v6, ReadAsAddress(p.labels), SchemeAllowed(UrlText(p)),
         ~ Has(p.userinfo \o p.tail, {"%40", "NUL"})
  PROVE  ValidateUrl(v, UrlText(p), policy) = "AmbiguousIpEncoding"
           <=> ~ Canonical(p.labels)
  <1> DEFINE url == UrlText(p)
             C   == Checks(v, url, policy)
  <1>1. Proper(p)
    BY SchemeIsProper DEF SchemeAllowed
  <1>2. ~ Has(p.userinfo, {"%40", "NUL"}) /\ ~ Has(p.tail, {"%40", "NUL"})
    BY Pieces, HasConcat
  <1>3. ~ Has(p.userinfo, {"%40"}) /\ ~ Has(p.tail, {"NUL"})
    BY <1>2, HasFewer
  <1>4. p.userinfo # <<>> => p.userinfo[Len(p.userinfo)] = "@"
    BY <1>3, RealUserinfo
  <1>5. ~ Has(p.labels, {"%00"})
    <2> SUFFICES ASSUME NEW k \in DOMAIN p.labels PROVE p.labels[k] # "%00"
      BY DEF Has
    <2>1. Kind(p.labels[k]) \in {"dec", "octal", "hex"}
      BY DEF ReadAsAddress
    <2>2. Kind("%00") = "mark"
      BY KindOfMark DEF Marks
    <2> QED BY <2>1, <2>2
  <1>6. /\ TrimDots(HostOf(url)) = BareHost(p)
        /\ HostOf(url) # <<>> /\ BareHost(p) # <<>>
        /\ ~ EmptyOrUnc(url) /\ ~ HasProhibitedControlChars(url)
        /\ ~ HostHasProhibitedChars(HostOf(url))
        /\ SchemeEnd(url) = 2 /\ SchemeAllowed(url)
    BY <1>1, <1>3, <1>4, <1>5, UrlVerdicts
  <1>7. /\ ~ C[1].fails /\ ~ C[2].fails /\ ~ C[3].fails /\ ~ C[4].fails
        /\ ~ C[5].fails /\ ~ C[6].fails /\ ~ C[7].fails /\ ~ C[8].fails
        /\ C[9].fails <=> IsAmbiguousIp(BareHost(p))
    <2> HIDE DEF url
    <2>1. SchemeEnd(url) # 0
      BY <1>6
    <2> QED BY <1>6, <2>1, ChecksAre
  <1>8. \A k \in 1 .. 8 : ~ C[k].fails
    <2> HIDE DEF C
    <2> QED BY <1>7
  <1>9. ValidateUrl(v, url, policy) = "AmbiguousIpEncoding" <=> C[9].fails
    BY <1>8, NinthReason
  <1>10. IsAmbiguousIp(BareHost(p)) <=> ~ Canonical(p.labels)
    BY AddressVerdicts DEF IsAddress
  <1> QED BY <1>7, <1>9, <1>10
-----------------------------------------------------------------------------
(***************************************************************************)
(* The fields, call by call.                                               *)
(***************************************************************************)
\* The validator's suffixes are texts.
SuffixesAreTexts == validator \in Validators

\* Suffixes in lower case are suffixes.
LEMMA LoweredTexts ==
  ASSUME NEW suffixes \in Seq(Texts)
  PROVE  Lowered(suffixes) \in Seq(Texts)
  <1>1. DOMAIN suffixes = 1 .. Len(suffixes) /\ Len(suffixes) \in Nat
    BY LenProperties
  <1>2. \A i \in 1 .. Len(suffixes) : suffixes[i] \in Texts
    BY ElementOfSeq
  <1>3. \A i \in 1 .. Len(suffixes) : Lower(suffixes[i]) \in Texts
    BY <1>2, LowerText
  <1>4. Lowered(suffixes) = [i \in 1 .. Len(suffixes) |-> Lower(suffixes[i])]
    BY <1>1 DEF Lowered
  <1> QED BY <1>1, <1>3, <1>4, IsASeq

\* A call adds suffixes behind those there are, or sets the double-dash check.
LEMMA CallsAdd ==
  ASSUME SuffixesAreTexts, Next
  PROVE  /\ validator' \in Validators
         /\ \E trusted \in Seq(Texts), denied \in Seq(Texts) :
               /\ validator'.trusted_domain_suffixes
                    = validator.trusted_domain_suffixes \o trusted
               /\ validator'.denied_domain_suffixes
                    = validator.denied_domain_suffixes \o denied
  <1> DEFINE t == validator.trusted_domain_suffixes
             d == validator.denied_domain_suffixes
  <1>1. /\ t \in Seq(Texts) /\ d \in Seq(Texts)
        /\ validator.reject_double_dash_hostnames \in BOOLEAN
        /\ <<>> \in Seq(Texts) /\ t \o <<>> = t /\ d \o <<>> = d
    <2>1. t \in Seq(Texts) /\ d \in Seq(Texts)
          /\ validator.reject_double_dash_hostnames \in BOOLEAN
      BY DEF SuffixesAreTexts, Validators
    <2> QED BY <2>1, EmptySeq, ConcatEmptySeq
  <1>2. ASSUME NEW suffixes \in SuffixArgs, AddTrustedSuffixes(suffixes)
        PROVE  /\ validator' \in Validators
               /\ validator'.trusted_domain_suffixes = t \o Lowered(suffixes)
               /\ validator'.denied_domain_suffixes = d
               /\ Lowered(suffixes) \in Seq(Texts)
    <2>1. Lowered(suffixes) \in Seq(Texts)
      BY SuffixAssumption, LoweredTexts DEF Texts
    <2>2. t \o Lowered(suffixes) \in Seq(Texts)
      BY <2>1, <1>1, ConcatProperties
    <2>3. validator' = [validator EXCEPT !.trusted_domain_suffixes = t \o Lowered(suffixes)]
      BY <1>2 DEF AddTrustedSuffixes, BuilderCall, WithTrusted
    <2> QED BY <2>1, <2>2, <2>3 DEF SuffixesAreTexts, Validators
  <1>3. ASSUME NEW suffixes \in SuffixArgs, AddDeniedSuffixes(suffixes)
        PROVE  /\ validator' \in Validators
               /\ validator'.trusted_domain_suffixes = t
               /\ validator'.denied_domain_suffixes = d \o Lowered(suffixes)
               /\ Lowered(suffixes) \in Seq(Texts)
    <2>1. Lowered(suffixes) \in Seq(Texts)
      BY SuffixAssumption, LoweredTexts DEF Texts
    <2>2. d \o Lowered(suffixes) \in Seq(Texts)
      BY <2>1, <1>1, ConcatProperties
    <2>3. validator' = [validator EXCEPT !.denied_domain_suffixes = d \o Lowered(suffixes)]
      BY <1>3 DEF AddDeniedSuffixes, BuilderCall, WithDenied
    <2> QED BY <2>1, <2>2, <2>3 DEF SuffixesAreTexts, Validators
  <1>4. ASSUME NEW reject \in BOOLEAN, RejectDoubleDash(reject)
        PROVE  /\ validator' \in Validators
               /\ validator'.trusted_domain_suffixes = t
               /\ validator'.denied_domain_suffixes = d
    <2>1. validator' = [validator EXCEPT !.reject_double_dash_hostnames = reject]
      BY <1>4 DEF RejectDoubleDash, BuilderCall
    <2> QED BY <2>1 DEF SuffixesAreTexts, Validators
  <1>5. ASSUME NEW provider \in DOMAIN Providers, WithCloudProvider(provider)
        PROVE  /\ validator' \in Validators
               /\ validator'.trusted_domain_suffixes
                    = t \o Lowered(Providers[provider].trusted)
               /\ validator'.denied_domain_suffixes
                    = d \o Lowered(Providers[provider].denied)
               /\ Lowered(Providers[provider].trusted) \in Seq(Texts)
               /\ Lowered(Providers[provider].denied) \in Seq(Texts)
    <2> DEFINE lt == Lowered(Providers[provider].trusted)
               ld == Lowered(Providers[provider].denied)
    <2>1. lt \in Seq(Texts) /\ ld \in Seq(Texts)
      BY SuffixAssumption, LoweredTexts DEF Texts
    <2>3. validator' = [[validator EXCEPT !.denied_domain_suffixes = d \o ld]
                          EXCEPT !.trusted_domain_suffixes = t \o lt]
      <3>1. validator' = WithTrusted([validator EXCEPT !.denied_domain_suffixes = d \o ld],
                                     Providers[provider].trusted)
        BY <1>5 DEF WithCloudProvider, BuilderCall, WithDenied
      <3>2. [validator EXCEPT !.denied_domain_suffixes = d \o ld].trusted_domain_suffixes = t
        BY DEF SuffixesAreTexts, Validators
      <3> QED BY <3>1, <3>2 DEF WithTrusted
    <2> HIDE DEF lt, ld
    <2>2. t \o lt \in Seq(Texts) /\ d \o ld \in Seq(Texts)
      BY <2>1, <1>1, ConcatProperties
    <2>4. /\ validator' \in Validators
          /\ validator'.trusted_domain_suffixes = t \o lt
          /\ validator'.denied_domain_suffixes = d \o ld
      BY <2>2, <2>3 DEF SuffixesAreTexts, Validators
    <2> QED BY <2>1, <2>4 DEF lt, ld
  <1>6. \/ \E suffixes \in SuffixArgs : AddTrustedSuffixes(suffixes)
        \/ \E suffixes \in SuffixArgs : AddDeniedSuffixes(suffixes)
        \/ \E reject \in BOOLEAN : RejectDoubleDash(reject)
        \/ \E provider \in DOMAIN Providers : WithCloudProvider(provider)
    BY DEF Next
  <1>7. validator' \in Validators
    BY <1>2, <1>3, <1>4, <1>5, <1>6, Zenon
  <1>8. \E trusted \in Seq(Texts), denied \in Seq(Texts) :
           /\ validator'.trusted_domain_suffixes = t \o trusted
           /\ validator'.denied_domain_suffixes = d \o denied
    BY <1>1, <1>2, <1>3, <1>4, <1>5, <1>6, Zenon
  <1> QED BY <1>7, <1>8

\* A new validator has no suffix.
LEMMA TextsFromTheStart ==
  ASSUME Init
  PROVE  SuffixesAreTexts
  <1>1. <<>> \in Seq(Texts)
    BY EmptySeq
  <1> QED BY <1>1 DEF Init, Default, SuffixesAreTexts, Validators

\* Every suffix is a text, whichever calls are made.
THEOREM Typed ==
  Spec => []SuffixesAreTexts
  <1>1. Init => SuffixesAreTexts
    BY TextsFromTheStart
  <1>2. SuffixesAreTexts /\ [Next]_validator => SuffixesAreTexts'
    <2>1. ASSUME SuffixesAreTexts, Next PROVE SuffixesAreTexts'
      BY <2>1, CallsAdd DEF SuffixesAreTexts
    <2>2. ASSUME SuffixesAreTexts, UNCHANGED validator PROVE SuffixesAreTexts'
      BY <2>2 DEF SuffixesAreTexts
    <2> QED BY <2>1, <2>2
  <1> QED BY <1>1, <1>2, PTL DEF Spec

-----------------------------------------------------------------------------
(***************************************************************************)
(* What validate_url promises.                                             *)
(***************************************************************************)
\* Whatever suffixes are configured, a URL validate_url lets pass has the host
\* its pieces name, and that host meets every condition; is_trusted_domain,
\* asked for the host alone, agrees.
THEOREM PassNamesTheHost ==
  Spec => []PassMeansJudged
  <1>1. SuffixesAreTexts => PassMeansJudged
    <2> SUFFICES ASSUME SuffixesAreTexts, NEW p \in UrlParts, NEW policy \in Policies,
                        Passes(validator, UrlText(p), policy)
                 PROVE  /\ Judged(validator, p, policy)
                        /\ validator.trusted_domain_suffixes # <<>> /\ ~ IsAddress(p) =>
                             IsTrustedDomain(validator, HostTokens(p))
      BY Zenon DEF PassMeansJudged
    <2>1. validator \in Validators
      BY DEF SuffixesAreTexts
    <2> QED BY <2>1, PassIsJudged
  <1> QED BY <1>1, Typed, PTL

\* A plain URL that meets the conditions is let pass: nothing that stands
\* around its host changes the verdict.
THEOREM PlainUrlsPass ==
  Spec => []PlainUrlPasses
  <1>1. SuffixesAreTexts => PlainUrlPasses
    <2> SUFFICES ASSUME SuffixesAreTexts, NEW p \in UrlParts, NEW policy \in Policies,
                        Plain(p), Judged(validator, p, policy)
                 PROVE  Passes(validator, UrlText(p), policy)
      BY Zenon DEF PlainUrlPasses
    <2>1. validator \in Validators
      BY DEF SuffixesAreTexts
    <2> QED BY <2>1, JudgedPasses
  <1> QED BY <1>1, Typed, PTL

\* A host inet_aton reads as an address is refused as an ambiguous spelling,
\* exactly if it is not the canonical one.
THEOREM AddressesAreRecognised ==
  Spec => []AddressTextIsRecognised
  <1>1. AddressTextIsRecognised
    BY AddressIsNinth DEF AddressTextIsRecognised
  <1> QED BY <1>1, PTL

\* One of two lists of suffixes matches, or both together do not.
LEMMA MatchesConcat ==
  ASSUME NEW a \in Seq(Texts), NEW b \in Seq(Texts), NEW host
  PROVE  MatchesSome(a, host) => MatchesSome(a \o b, host)
  <1> SUFFICES ASSUME NEW i \in DOMAIN a, DomainMatchesSuffix(host, a[i])
               PROVE  MatchesSome(a \o b, host)
    BY DEF MatchesSome
  <1>1. /\ Len(a) \in Nat /\ Len(b) \in Nat /\ DOMAIN a = 1 .. Len(a)
        /\ a \o b \in Seq(Texts) /\ Len(a \o b) = Len(a) + Len(b)
        /\ \A j \in 1 .. Len(a) + Len(b) :
              (a \o b)[j] = IF j <= Len(a) THEN a[j] ELSE b[j - Len(a)]
    BY LenProperties, ConcatProperties
  <1>2. DOMAIN (a \o b) = 1 .. Len(a) + Len(b)
    BY <1>1, LenProperties
  <1>3. i \in 1 .. Len(a) + Len(b) /\ (a \o b)[i] = a[i]
    BY <1>1
  <1> QED BY <1>2, <1>3 DEF MatchesSome

\* A call that leaves the trusted suffixes and the double-dash check alone
\* opens no URL; one that leaves the denied suffixes and that check alone closes
\* none, once a suffix is trusted.
THEOREM CallsGoOneWay ==
  Spec => CallsMoveOneWay
  <1> DEFINE opens == /\ validator'.trusted_domain_suffixes
                           = validator.trusted_domain_suffixes
                      /\ validator'.reject_double_dash_hostnames
                           = validator.reject_double_dash_hostnames
                      => PassSet(validator') \subseteq PassSet(validator)
             closes == /\ validator'.denied_domain_suffixes
                            = validator.denied_domain_suffixes
                       /\ validator'.reject_double_dash_hostnames
                            = validator.reject_double_dash_hostnames
                       /\ validator.trusted_domain_suffixes # <<>>
                       => PassSet(validator) \subseteq PassSet(validator')
  <1>1. ASSUME SuffixesAreTexts, Next PROVE opens /\ closes
    <2> DEFINE v == validator
               w == validator'
    <2>1. PICK trusted \in Seq(Texts), denied \in Seq(Texts) :
             /\ w.trusted_domain_suffixes = v.trusted_domain_suffixes \o trusted
             /\ w.denied_domain_suffixes = v.denied_domain_suffixes \o denied
      BY <1>1, CallsAdd
    <2>2. /\ v.trusted_domain_suffixes \in Seq(Texts)
          /\ v.denied_domain_suffixes \in Seq(Texts)
      BY <1>1 DEF SuffixesAreTexts, Validators
    <2>3. \A host : /\ MatchesSome(v.trusted_domain_suffixes, host)
                         => MatchesSome(w.trusted_domain_suffixes, host)
                    /\ MatchesSome(v.denied_domain_suffixes, host)
                         => MatchesSome(w.denied_domain_suffixes, host)
      BY <2>1, <2>2, MatchesConcat
    <2> HIDE DEF v, w
    <2>4. ASSUME w.trusted_domain_suffixes = v.trusted_domain_suffixes,
                 w.reject_double_dash_hostnames = v.reject_double_dash_hostnames,
                 NEW url, NEW policy, Passes(w, url, policy)
          PROVE  Passes(v, url, policy)
      BY <2>3, <2>4, PassesIff
    <2>5. ASSUME w.denied_domain_suffixes = v.denied_domain_suffixes,
                 w.reject_double_dash_hostnames = v.reject_double_dash_hostnames,
                 v.trusted_domain_suffixes # <<>>,
                 NEW url, NEW policy, Passes(v, url, policy)
          PROVE  Passes(w, url, policy)
      BY <2>3, <2>5, PassesIff
    <2>6. /\ w.trusted_domain_suffixes = v.trusted_domain_suffixes
          /\ w.reject_double_dash_hostnames = v.reject_double_dash_hostnames
          => PassSet(w) \subseteq PassSet(v)
      BY <2>4, Zenon DEF PassSet
    <2>7. /\ w.denied_domain_suffixes = v.denied_domain_suffixes
          /\ w.reject_double_dash_hostnames = v.reject_double_dash_hostnames
          /\ v.trusted_domain_suffixes # <<>>
          => PassSet(v) \subseteq PassSet(w)
      BY <2>5, Zenon DEF PassSet
    <2> QED BY <2>6, <2>7 DEF v, w
  <1>2. SuffixesAreTexts /\ [Next]_validator => [opens /\ closes]_validator
    BY <1>1
  <1> QED BY <1>2, Typed, PTL DEF Spec, CallsMoveOneWay
=============================================================================
