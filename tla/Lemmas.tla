------------------------------- MODULE Lemmas -------------------------------
(***************************************************************************)
(* What the proofs of several modules need about sequences and about the   *)
(* threads of a condition variable.                                        *)
(***************************************************************************)
EXTENDS CondVar, Integers, Sequences, FiniteSetTheorems, WellFoundedInduction, TLAPS

-----------------------------------------------------------------------------
(* Numbers.                                                                *)

(* A set of numbers that is not empty has a least member.  Inductions *)
(* are by the least counterexample.                                        *)
LEMMA LeastMember ==
  ASSUME NEW P \in SUBSET Nat, P # {}
  PROVE  \E n \in P : \A m \in P : n <= m
  <1> DEFINE R == {p \in Nat \X Nat : p[1] < p[2]}
  <1>1. IsWellFoundedOn(R, Nat)
    BY NatLessThanWellFounded, Zenon DEF OpToRel
  <1>2. PICK n \in P : \A m \in P : <<m, n>> \notin R
    <2> HIDE DEF R
    <2> QED BY <1>1, WFMin, Zenon
  <1>3. ASSUME NEW m \in P PROVE n <= m
    <2>1. <<m, n>> \notin R BY <1>2
    <2> QED BY <2>1
  <1> QED BY <1>3

-----------------------------------------------------------------------------
(* Sequences.                                                              *)

(* What concatenation puts where. *)
LEMMA Concatenation ==
  ASSUME NEW S, NEW s \in Seq(S), NEW t \in Seq(S)
  PROVE  /\ s \o t \in Seq(S)
         /\ Len(s \o t) = Len(s) + Len(t)
         /\ \A i \in 1 .. Len(s) : (s \o t)[i] = s[i]
         /\ \A i \in 1 .. Len(t) : (s \o t)[i + Len(s)] = t[i]
OBVIOUS

(* What SubSeq takes. *)
LEMMA Part ==
  ASSUME NEW S, NEW s \in Seq(S), NEW k \in 0 .. Len(s), NEW l \in 0 .. Len(s) - k
  PROVE  /\ SubSeq(s, k + 1, k + l) \in Seq(S)
         /\ Len(SubSeq(s, k + 1, k + l)) = l
         /\ \A i \in 1 .. l : SubSeq(s, k + 1, k + l)[i] = s[k + i]
OBVIOUS

(* A sequence is one over every set that has its members. *)
LEMMA Retyped ==
  ASSUME NEW S, NEW s \in Seq(S), NEW T, \A i \in 1 .. Len(s) : s[i] \in T
  PROVE  s \in Seq(T)
OBVIOUS

(* Sequences of one length with the same members are the same. *)
LEMMA SameSeq ==
  ASSUME NEW S, NEW s \in Seq(S), NEW t \in Seq(S),
         Len(s) = Len(t), \A i \in 1 .. Len(s) : s[i] = t[i]
  PROVE  s = t
OBVIOUS

(* Two pieces that follow each other, and all of it. *)
LEMMA InTwoPieces ==
  ASSUME NEW S, NEW s \in Seq(S), NEW i \in Nat, NEW k \in i .. Len(s), NEW m \in k .. Len(s)
  PROVE  /\ SubSeq(s, i + 1, k) \o SubSeq(s, k + 1, m) = SubSeq(s, i + 1, m)
         /\ SubSeq(s, i + 1, m) \in Seq(S) /\ Len(SubSeq(s, i + 1, m)) = m - i
         /\ \A j \in 1 .. m - i : SubSeq(s, i + 1, m)[j] = s[i + j]
  <1> DEFINE a == SubSeq(s, i + 1, k)
             b == SubSeq(s, k + 1, m)
             c == SubSeq(s, i + 1, m)
  <1>0. Len(s) \in Nat /\ k \in Nat /\ m \in Nat /\ i <= k /\ k <= m /\ m <= Len(s) OBVIOUS
  <1>1. a \in Seq(S) /\ Len(a) = k - i /\ \A j \in 1 .. k - i : a[j] = s[i + j]
    <2> PICK l \in 0 .. Len(s) - i : i + l = k /\ l = k - i
      <3>1. k - i \in 0 .. Len(s) - i /\ i + (k - i) = k BY <1>0
      <3> QED BY <3>1
    <2>1. i \in 0 .. Len(s) BY <1>0
    <2>2. /\ SubSeq(s, i + 1, i + l) \in Seq(S) /\ Len(SubSeq(s, i + 1, i + l)) = l
          /\ \A j \in 1 .. l : SubSeq(s, i + 1, i + l)[j] = s[i + j]
      BY <2>1, Part
    <2> QED BY <2>2
  <1>2. b \in Seq(S) /\ Len(b) = m - k /\ \A j \in 1 .. m - k : b[j] = s[k + j]
    <2> PICK l \in 0 .. Len(s) - k : k + l = m /\ l = m - k
      <3>1. m - k \in 0 .. Len(s) - k /\ k + (m - k) = m BY <1>0
      <3> QED BY <3>1
    <2>1. k \in 0 .. Len(s) BY <1>0
    <2>2. /\ SubSeq(s, k + 1, k + l) \in Seq(S) /\ Len(SubSeq(s, k + 1, k + l)) = l
          /\ \A j \in 1 .. l : SubSeq(s, k + 1, k + l)[j] = s[k + j]
      BY <2>1, Part
    <2> QED BY <2>2
  <1>3. c \in Seq(S) /\ Len(c) = m - i /\ \A j \in 1 .. m - i : c[j] = s[i + j]
    <2> PICK l \in 0 .. Len(s) - i : i + l = m /\ l = m - i
      <3>1. m - i \in 0 .. Len(s) - i /\ i + (m - i) = m BY <1>0
      <3> QED BY <3>1
    <2>1. i \in 0 .. Len(s) BY <1>0
    <2>2. /\ SubSeq(s, i + 1, i + l) \in Seq(S) /\ Len(SubSeq(s, i + 1, i + l)) = l
          /\ \A j \in 1 .. l : SubSeq(s, i + 1, i + l)[j] = s[i + j]
      BY <2>1, Part
    <2> QED BY <2>2
  <1> HIDE DEF a, b, c
  <1>4. a \o b = c
    <2>1. /\ a \o b \in Seq(S) /\ Len(a \o b) = Len(a) + Len(b)
          /\ \A j \in 1 .. Len(a) : (a \o b)[j] = a[j]
          /\ \A j \in 1 .. Len(b) : (a \o b)[j + Len(a)] = b[j]
      <3>1. a \in Seq(S) /\ b \in Seq(S) BY <1>1, <1>2
      <3> QED BY <3>1, Concatenation
    <2>2. Len(a \o b) = Len(c) BY <1>0, <1>1, <1>2, <1>3, <2>1
    <2>3. ASSUME NEW j \in 1 .. Len(c) PROVE (a \o b)[j] = c[j]
      <3>1. CASE j <= k - i
        <4>1. j \in 1 .. k - i /\ j \in 1 .. m - i BY <1>0, <1>3, <2>3, <3>1
        <4> QED BY <1>1, <1>3, <2>1, <4>1
      <3>2. CASE j > k - i
        <4> PICK l \in 1 .. m - k : l + (k - i) = j /\ k + l = i + j
          <5>1. /\ j - (k - i) \in 1 .. m - k /\ (j - (k - i)) + (k - i) = j
                /\ k + (j - (k - i)) = i + j
            BY <1>0, <1>3, <3>2
          <5> QED BY <5>1
        <4>1. (a \o b)[l + (k - i)] = b[l] BY <1>1, <1>2, <2>1
        <4>2. b[l] = s[k + l] BY <1>2
        <4>3. c[j] = s[i + j] BY <1>3
        <4> QED BY <4>1, <4>2, <4>3
      <3>3. j <= k - i \/ j > k - i BY <1>0, <1>3
      <3> QED BY <3>1, <3>2, <3>3
    <2> QED BY <1>3, <2>1, <2>2, <2>3, SameSeq
  <1> QED BY <1>3, <1>4 DEF a, b, c

(* All of a sequence. *)
LEMMA AllOf ==
  ASSUME NEW S, NEW s \in Seq(S)
  PROVE  SubSeq(s, 1, Len(s)) = s
OBVIOUS

(* What is cut in two makes up the whole. *)
LEMMA CutInTwo ==
  ASSUME NEW S, NEW s \in Seq(S), NEW n \in 0 .. Len(s)
  PROVE  /\ SubSeq(s, 1, n) \in Seq(S) /\ Len(SubSeq(s, 1, n)) = n
         /\ SubSeq(s, n + 1, Len(s)) \in Seq(S)
         /\ Len(SubSeq(s, n + 1, Len(s))) = Len(s) - n
         /\ SubSeq(s, 1, n) \o SubSeq(s, n + 1, Len(s)) = s
  <1>1. PICK l : l = Len(s) OBVIOUS
  <1>2. l \in Nat /\ n \in Nat /\ n <= l BY <1>1
  <1>3. SubSeq(s, 1, n) \in Seq(S) /\ Len(SubSeq(s, 1, n)) = n BY <1>1, <1>2
  <1>4. SubSeq(s, n + 1, l) \in Seq(S) /\ Len(SubSeq(s, n + 1, l)) = l - n BY <1>1, <1>2
  <1>5. SubSeq(s, 0 + 1, n) \o SubSeq(s, n + 1, l) = SubSeq(s, 0 + 1, l)
    <2>1. 0 \in Nat /\ n \in 0 .. Len(s) /\ l \in n .. Len(s) BY <1>1, <1>2
    <2> QED BY <2>1, InTwoPieces
  <1>6. SubSeq(s, 0 + 1, l) = s /\ 0 + 1 = 1 BY <1>1, AllOf
  <1> QED BY <1>1, <1>3, <1>4, <1>5, <1>6

(* Pieces can be joined in any order. *)
LEMMA Associated ==
  ASSUME NEW S, NEW a \in Seq(S), NEW b \in Seq(S), NEW c \in Seq(S)
  PROVE  (a \o b) \o c = a \o (b \o c)
  <1> PICK ab, bc : ab = a \o b /\ bc = b \o c OBVIOUS
  <1>1. /\ ab \in Seq(S) /\ Len(ab) = Len(a) + Len(b)
        /\ \A i \in 1 .. Len(a) : ab[i] = a[i]
        /\ \A i \in 1 .. Len(b) : ab[i + Len(a)] = b[i]
    BY Concatenation
  <1>2. /\ bc \in Seq(S) /\ Len(bc) = Len(b) + Len(c)
        /\ \A i \in 1 .. Len(b) : bc[i] = b[i]
        /\ \A i \in 1 .. Len(c) : bc[i + Len(b)] = c[i]
    BY Concatenation
  <1>3. /\ ab \o c \in Seq(S) /\ Len(ab \o c) = Len(ab) + Len(c)
        /\ \A i \in 1 .. Len(ab) : (ab \o c)[i] = ab[i]
        /\ \A i \in 1 .. Len(c) : (ab \o c)[i + Len(ab)] = c[i]
    BY <1>1, Concatenation
  <1>4. /\ a \o bc \in Seq(S) /\ Len(a \o bc) = Len(a) + Len(bc)
        /\ \A i \in 1 .. Len(a) : (a \o bc)[i] = a[i]
        /\ \A i \in 1 .. Len(bc) : (a \o bc)[i + Len(a)] = bc[i]
    BY <1>2, Concatenation
  <1> PICK u, v, x, y, z : /\ u = ab \o c /\ v = a \o bc
                           /\ x = Len(a) /\ y = Len(b) /\ z = Len(c)
    OBVIOUS
  <1>5. x \in Nat /\ y \in Nat /\ z \in Nat OBVIOUS
  <1>6. Len(u) = x + y + z /\ Len(v) = x + y + z /\ u \in Seq(S) /\ v \in Seq(S)
    BY <1>1, <1>2, <1>3, <1>4, <1>5
  <1>7. ASSUME NEW i \in 1 .. x + y + z PROVE u[i] = v[i]
    <2>1. CASE i <= x
      <3>1. i \in 1 .. x /\ i \in 1 .. x + y BY <1>5, <2>1
      <3> QED BY <1>1, <1>3, <1>4, <3>1
    <2>2. CASE i > x /\ i <= x + y
      <3> PICK j \in 1 .. y : i = j + x
        <4>1. i - x \in 1 .. y /\ i = (i - x) + x BY <1>5, <2>2
        <4> QED BY <4>1
      <3>1. j + x \in 1 .. x + y /\ j \in 1 .. y + z BY <1>5
      <3> QED BY <1>1, <1>2, <1>3, <1>4, <3>1
    <2>3. CASE i > x + y
      <3> PICK j \in 1 .. z : i = j + (x + y)
        <4>1. i - (x + y) \in 1 .. z /\ i = (i - (x + y)) + (x + y) BY <1>5, <2>3
        <4> QED BY <4>1
      <3>1. j + y \in 1 .. y + z /\ (j + y) + x = j + (x + y) BY <1>5
      <3>2. u[j + (x + y)] = c[j] BY <1>1, <1>3
      <3>3. v[(j + y) + x] = bc[j + y] BY <1>2, <1>4, <3>1
      <3> QED BY <1>2, <3>1, <3>2, <3>3
    <2> QED BY <1>5, <2>1, <2>2, <2>3
  <1>8. u = v BY <1>6, <1>7, SameSeq
  <1> QED BY <1>8

(* Sequences of whatever, and one more at the end. *)
Listed(s) == \E S : s \in Seq(S)

LEMMA Appended ==
  ASSUME NEW s, Listed(s), NEW x
  PROVE  /\ Listed(Append(s, x)) /\ Len(s) \in Nat /\ Len(Append(s, x)) = Len(s) + 1
         /\ \A i \in 1 .. Len(s) : Append(s, x)[i] = s[i]
         /\ Append(s, x)[Len(s) + 1] = x
  <1> PICK S : s \in Seq(S) BY DEF Listed
  <1> PICK T : T = S \cup {x} OBVIOUS
  <1>1. s \in Seq(T) /\ x \in T OBVIOUS
  <1>2. Append(s, x) \in Seq(T) BY <1>1
  <1> QED BY <1>1, <1>2 DEF Listed

-----------------------------------------------------------------------------
(* Sequences in which every member occurs once.                            *)

Members(s) == {s[i] : i \in DOMAIN s}
Once(s) == \A i, j \in DOMAIN s : s[i] = s[j] => i = j

(* The two in terms of positions. *)
LEMMA Positions ==
  ASSUME NEW S, NEW s \in Seq(S)
  PROVE  /\ \A x : x \in Members(s) <=> \E i \in 1 .. Len(s) : s[i] = x
         /\ Once(s) <=> \A i, j \in 1 .. Len(s) : s[i] = s[j] => i = j
         /\ Len(s) \in Nat
  BY DEF Members, Once

LEMMA MemberAt ==
  ASSUME NEW S, NEW s \in Seq(S), NEW i \in 1 .. Len(s)
  PROVE  s[i] \in Members(s)
  BY Positions

LEMMA MembersIn ==
  ASSUME NEW S, NEW s \in Seq(S), NEW T, \A i \in 1 .. Len(s) : s[i] \in T
  PROVE  Members(s) \subseteq T
  BY Positions

LEMMA NoMembers == Members(<<>>) = {} /\ Once(<<>>)
  BY DEF Members, Once

LEMMA OneMember ==
  ASSUME NEW S, NEW x \in S
  PROVE  <<x>> \in Seq(S) /\ Members(<<x>>) = {x} /\ Once(<<x>>)
  BY DEF Members, Once

(* One sequence after another. *)
LEMMA JoinedMembers ==
  ASSUME NEW S, NEW s \in Seq(S), NEW t \in Seq(S)
  PROVE  /\ s \o t \in Seq(S)
         /\ Members(s \o t) = Members(s) \cup Members(t)
         /\ Once(s) /\ Once(t) /\ Members(s) \cap Members(t) = {} => Once(s \o t)
  <1> DEFINE u == s \o t
  <1>1. /\ u \in Seq(S) /\ Len(u) = Len(s) + Len(t)
        /\ \A i \in 1 .. Len(s) : u[i] = s[i]
        /\ \A i \in 1 .. Len(t) : u[i + Len(s)] = t[i]
    BY Concatenation
  <1> HIDE DEF u
  <1>2. Len(s) \in Nat /\ Len(t) \in Nat OBVIOUS
  <1>3. \A k \in 1 .. Len(u) : k \in 1 .. Len(s) \/ (k - Len(s) \in 1 .. Len(t)
                                                   /\ k = (k - Len(s)) + Len(s))
    BY <1>1, <1>2
  <1>4. Members(u) = Members(s) \cup Members(t)
    <2>1. ASSUME NEW k \in 1 .. Len(u) PROVE u[k] \in Members(s) \cup Members(t)
      <3>1. CASE k \in 1 .. Len(s) BY <1>1, <3>1, MemberAt
      <3>2. CASE k \notin 1 .. Len(s)
        <4>1. k - Len(s) \in 1 .. Len(t) /\ u[k] = t[k - Len(s)] BY <1>1, <1>3, <3>2
        <4> QED BY <4>1, MemberAt
      <3> QED BY <3>1, <3>2
    <2>2. ASSUME NEW i \in 1 .. Len(s) PROVE s[i] \in Members(u)
      <3>1. i \in 1 .. Len(u) BY <1>1, <1>2
      <3> QED BY <1>1, <3>1, Positions
    <2>3. ASSUME NEW i \in 1 .. Len(t) PROVE t[i] \in Members(u)
      <3>1. i + Len(s) \in 1 .. Len(u) BY <1>1, <1>2
      <3> QED BY <1>1, <3>1, Positions
    <2>4. Members(u) \subseteq Members(s) \cup Members(t) BY <1>1, <2>1, MembersIn
    <2>5. Members(s) \subseteq Members(u) /\ Members(t) \subseteq Members(u)
      BY <2>2, <2>3, MembersIn
    <2> QED BY <2>4, <2>5
  <1>5. ASSUME Once(s), Once(t), Members(s) \cap Members(t) = {}
        PROVE  Once(u)
    <2>1. ASSUME NEW k \in 1 .. Len(u), NEW l \in 1 .. Len(u), u[k] = u[l] PROVE k = l
      <3>1. CASE k \in 1 .. Len(s) /\ l \in 1 .. Len(s)
        BY <1>1, <1>5, <2>1, <3>1, Positions
      <3>2. CASE k \in 1 .. Len(s) /\ l \notin 1 .. Len(s)
        <4>1. l - Len(s) \in 1 .. Len(t) /\ u[l] = t[l - Len(s)] BY <1>1, <1>3, <3>2
        <4>2. u[k] \in Members(s) /\ u[l] \in Members(t) BY <1>1, <3>2, <4>1, MemberAt
        <4> QED BY <1>5, <2>1, <4>2
      <3>3. CASE k \notin 1 .. Len(s) /\ l \in 1 .. Len(s)
        <4>1. k - Len(s) \in 1 .. Len(t) /\ u[k] = t[k - Len(s)] BY <1>1, <1>3, <3>3
        <4>2. u[l] \in Members(s) /\ u[k] \in Members(t) BY <1>1, <3>3, <4>1, MemberAt
        <4> QED BY <1>5, <2>1, <4>2
      <3>4. CASE k \notin 1 .. Len(s) /\ l \notin 1 .. Len(s)
        <4>1. k - Len(s) \in 1 .. Len(t) /\ l - Len(s) \in 1 .. Len(t)
          BY <1>3, <3>4
        <4>2. t[k - Len(s)] = t[l - Len(s)] BY <1>1, <1>3, <2>1, <3>4, <4>1
        <4>3. k - Len(s) = l - Len(s) BY <1>5, <4>1, <4>2, Positions
        <4> QED BY <1>2, <4>3
      <3> QED BY <3>1, <3>2, <3>3, <3>4
    <2> QED BY <1>1, <2>1, Positions
  <1> QED BY <1>1, <1>4, <1>5 DEF u

(* One more at the end. *)
LEMMA AppendedMember ==
  ASSUME NEW S, NEW s \in Seq(S), NEW x \in S
  PROVE  /\ Append(s, x) \in Seq(S)
         /\ Members(Append(s, x)) = Members(s) \cup {x}
         /\ Once(s) /\ x \notin Members(s) => Once(Append(s, x))
  <1>1. Append(s, x) = s \o <<x>> OBVIOUS
  <1>2. Members(<<x>>) = {x} /\ Once(<<x>>) /\ <<x>> \in Seq(S) BY OneMember
  <1>3. /\ s \o <<x>> \in Seq(S)
        /\ Members(s \o <<x>>) = Members(s) \cup Members(<<x>>)
        /\ Once(s) /\ Once(<<x>>) /\ Members(s) \cap Members(<<x>>) = {}
             => Once(s \o <<x>>)
    BY <1>2, JoinedMembers
  <1> QED BY <1>1, <1>2, <1>3

(* A sequence in two pieces. *)
LEMMA SplitMembers ==
  ASSUME NEW S, NEW s \in Seq(S), NEW n \in 0 .. Len(s)
  PROVE  /\ SubSeq(s, 1, n) \in Seq(S) /\ SubSeq(s, n + 1, Len(s)) \in Seq(S)
         /\ Len(SubSeq(s, 1, n)) = n
         /\ Members(s) = Members(SubSeq(s, 1, n)) \cup Members(SubSeq(s, n + 1, Len(s)))
         /\ Once(s) => Once(SubSeq(s, 1, n)) /\ Once(SubSeq(s, n + 1, Len(s)))
  <1> DEFINE a == SubSeq(s, 1, n)
             b == SubSeq(s, n + 1, Len(s))
  <1>0. Len(s) \in Nat /\ n \in Nat /\ n <= Len(s) OBVIOUS
  <1>1. /\ a \in Seq(S) /\ Len(a) = n /\ \A i \in 1 .. n : a[i] = s[i]
    <2>1. 0 \in 0 .. Len(s) /\ n \in 0 .. Len(s) - 0 /\ 0 + 1 = 1 /\ 0 + n = n
      BY <1>0
    <2>2. /\ SubSeq(s, 0 + 1, 0 + n) \in Seq(S) /\ Len(SubSeq(s, 0 + 1, 0 + n)) = n
          /\ \A i \in 1 .. n : SubSeq(s, 0 + 1, 0 + n)[i] = s[0 + i]
      BY <2>1, Part
    <2> QED BY <2>1, <2>2
  <1>2. /\ b \in Seq(S) /\ Len(b) = Len(s) - n
        /\ \A i \in 1 .. Len(s) - n : b[i] = s[n + i]
    <2>1. PICK l \in 0 .. Len(s) - n : l = Len(s) - n BY <1>0
    <2>2. /\ SubSeq(s, n + 1, n + l) \in Seq(S) /\ Len(SubSeq(s, n + 1, n + l)) = l
          /\ \A i \in 1 .. l : SubSeq(s, n + 1, n + l)[i] = s[n + i]
      BY Part
    <2>3. n + l = Len(s) BY <1>0, <2>1
    <2> QED BY <2>1, <2>2, <2>3
  <1> HIDE DEF a, b
  <1>3. Members(s) = Members(a) \cup Members(b)
    <2>1. ASSUME NEW i \in 1 .. Len(s) PROVE s[i] \in Members(a) \cup Members(b)
      <3>1. CASE i <= n
        <4>1. i \in 1 .. n BY <3>1
        <4> QED BY <1>1, <4>1, Positions
      <3>2. CASE i > n
        <4>1. i - n \in 1 .. Len(s) - n /\ n + (i - n) = i BY <1>0, <3>2
        <4> QED BY <1>2, <4>1, Positions
      <3> QED BY <1>0, <3>1, <3>2
    <2>2. ASSUME NEW i \in 1 .. Len(a) PROVE a[i] \in Members(s)
      <3>1. i \in 1 .. n /\ i \in 1 .. Len(s) BY <1>0, <1>1
      <3> QED BY <1>1, <3>1, Positions
    <2>3. ASSUME NEW i \in 1 .. Len(b) PROVE b[i] \in Members(s)
      <3>1. i \in 1 .. Len(s) - n /\ n + i \in 1 .. Len(s) BY <1>0, <1>2
      <3> QED BY <1>2, <3>1, Positions
    <2>4. Members(s) \subseteq Members(a) \cup Members(b) BY <2>1, MembersIn
    <2>5. Members(a) \subseteq Members(s) /\ Members(b) \subseteq Members(s)
      BY <1>1, <1>2, <2>2, <2>3, MembersIn
    <2> QED BY <2>4, <2>5
  <1>4. ASSUME Once(s) PROVE Once(a) /\ Once(b)
    <2>1. ASSUME NEW i \in 1 .. Len(a), NEW j \in 1 .. Len(a), a[i] = a[j] PROVE i = j
      <3>1. i \in 1 .. Len(s) /\ j \in 1 .. Len(s) /\ s[i] = s[j] BY <1>0, <1>1, <2>1
      <3> QED BY <1>4, <3>1, Positions
    <2>2. ASSUME NEW i \in 1 .. Len(b), NEW j \in 1 .. Len(b), b[i] = b[j] PROVE i = j
      <3>1. /\ n + i \in 1 .. Len(s) /\ n + j \in 1 .. Len(s) /\ s[n + i] = s[n + j]
        BY <1>0, <1>2, <2>2
      <3>2. n + i = n + j BY <1>4, <3>1, Positions
      <3> QED BY <1>0, <3>2
    <2> QED BY <1>1, <1>2, <2>1, <2>2, Positions
  <1> QED BY <1>1, <1>2, <1>3, <1>4 DEF a, b

(* The first, and the others. *)
LEMMA FirstMember ==
  ASSUME NEW S, NEW s \in Seq(S), s # <<>>
  PROVE  /\ Head(s) \in S /\ Tail(s) \in Seq(S)
         /\ Members(s) = {Head(s)} \cup Members(Tail(s))
         /\ Once(s) => Once(Tail(s)) /\ Head(s) \notin Members(Tail(s))
  <1>1. /\ Len(s) \in Nat \ {0} /\ Head(s) = s[1] /\ Head(s) \in S
        /\ Tail(s) \in Seq(S) /\ Len(Tail(s)) = Len(s) - 1
    OBVIOUS
  <1>2. \A i \in 1 .. Len(Tail(s)) :
          i + 1 \in 1 .. Len(s) /\ i + 1 # 1 /\ Tail(s)[i] = s[i + 1]
    BY <1>1
  <1>3. \A i \in 1 .. Len(s) : i # 1 => i - 1 \in 1 .. Len(Tail(s)) /\ (i - 1) + 1 = i
    BY <1>1
  <1>4. Members(s) = {Head(s)} \cup Members(Tail(s))
    <2>1. ASSUME NEW i \in 1 .. Len(s), i # 1 PROVE s[i] \in Members(Tail(s))
      <3>1. i - 1 \in 1 .. Len(Tail(s)) /\ Tail(s)[i - 1] = s[i] BY <1>2, <1>3, <2>1
      <3> QED BY <1>1, <3>1, MemberAt
    <2>2. ASSUME NEW i \in 1 .. Len(Tail(s)) PROVE Tail(s)[i] \in Members(s)
      BY <1>2, Positions
    <2>3. s[1] \in Members(s)
      <3>1. 1 \in 1 .. Len(s) BY <1>1
      <3> QED BY <3>1, Positions
    <2>4. Members(s) \subseteq {Head(s)} \cup Members(Tail(s))
      <3>1. \A i \in 1 .. Len(s) : s[i] \in {Head(s)} \cup Members(Tail(s))
        BY <1>1, <2>1
      <3> QED BY <3>1, MembersIn
    <2>5. Members(Tail(s)) \subseteq Members(s) BY <1>1, <2>2, MembersIn
    <2> QED BY <1>1, <2>3, <2>4, <2>5
  <1>5. ASSUME Once(s) PROVE Once(Tail(s)) /\ Head(s) \notin Members(Tail(s))
    <2>1. ASSUME NEW i \in 1 .. Len(Tail(s)), NEW j \in 1 .. Len(Tail(s)),
                 Tail(s)[i] = Tail(s)[j]
          PROVE  i = j
      <3>1. i + 1 = j + 1 BY <1>2, <1>5, <2>1, Positions
      <3> QED BY <3>1
    <2>2. ASSUME NEW i \in 1 .. Len(Tail(s)) PROVE Tail(s)[i] # s[1]
      <3>1. 1 \in 1 .. Len(s) BY <1>1
      <3> QED BY <1>2, <1>5, <3>1, Positions
    <2>3. Once(Tail(s)) BY <1>1, <2>1, Positions
    <2>4. ASSUME Head(s) \in Members(Tail(s)) PROVE FALSE
      <3> PICK t \in Seq(S) : t = Tail(s) BY <1>1
      <3> PICK x : x = Head(s) OBVIOUS
      <3>1. PICK i \in 1 .. Len(t) : t[i] = x BY <2>4, Positions
      <3> QED BY <1>1, <2>2, <3>1
    <2> QED BY <2>3, <2>4
  <1> QED BY <1>1, <1>4, <1>5

-----------------------------------------------------------------------------
(* Those members of a sequence that are in a set.                          *)

(* What is kept of the first i members of s, defined by recursion on i. *)
Kept(s, T) ==
  CHOOSE f : f = [i \in 0 .. Len(s) |->
                    IF i = 0 THEN <<>>
                    ELSE f[i - 1] \o IF s[i] \in T THEN <<s[i]>> ELSE <<>>]

(* There is such a function: a shorter one can be continued. *)
LEMMA KeptExists ==
  ASSUME NEW S, NEW s \in Seq(S), NEW T
  PROVE  \E f : f = [i \in 0 .. Len(s) |->
                       IF i = 0 THEN <<>>
                       ELSE f[i - 1] \o IF s[i] \in T THEN <<s[i]>> ELSE <<>>]
  <1> DEFINE More(q, i) == q \o IF s[i] \in T THEN <<s[i]>> ELSE <<>>
             Keeps(f, n) == f = [i \in 0 .. n |->
                                   IF i = 0 THEN <<>> ELSE More(f[i - 1], i)]
             P == {n \in 0 .. Len(s) : ~\E f : Keeps(f, n)}
  <1>0. SUFFICES \E f : Keeps(f, Len(s)) OBVIOUS
  <1> HIDE DEF More
  <1>1. SUFFICES ASSUME P # {} PROVE FALSE
    BY DEF P
  <1>2. PICK n \in P : \A m \in P : n <= m
    <2>1. P \in SUBSET Nat OBVIOUS
    <2> HIDE DEF P
    <2> QED BY <1>1, <2>1, LeastMember
  <1>3. n \in 0 .. Len(s) /\ Len(s) \in Nat OBVIOUS
  <1>4. \E f : Keeps(f, n)
    <2>1. CASE n = 0
      <3> DEFINE f == [i \in 0 .. 0 |-> <<>>]
      <3>1. Keeps(f, 0) OBVIOUS
      <3> QED BY <2>1, <3>1
    <2>2. CASE n # 0
      <3>1. n - 1 \in 0 .. Len(s) /\ n - 1 \notin P
        <4> HIDE DEF P
        <4> QED BY <1>2, <1>3, <2>2
      <3>2. PICK f : Keeps(f, n - 1) BY <3>1
      <3> DEFINE g == [i \in 0 .. n |-> IF i = n THEN More(f[n - 1], n) ELSE f[i]]
      <3>3. \A i \in 0 .. n - 1 : f[i] = IF i = 0 THEN <<>> ELSE More(f[i - 1], i)
        BY <3>2
      <3>4. \A i \in 0 .. n - 1 : g[i] = f[i] BY <1>3
      <3>5. g[n] = More(f[n - 1], n) BY <1>3
      <3>6. ASSUME NEW i \in 0 .. n
            PROVE  g[i] = IF i = 0 THEN <<>> ELSE More(g[i - 1], i)
        <4> HIDE DEF g
        <4>1. CASE i = n BY <1>3, <2>2, <3>4, <3>5, <4>1
        <4>2. CASE i # n BY <1>3, <3>3, <3>4, <4>2
        <4> QED BY <4>1, <4>2
      <3>7. g = [i \in 0 .. n |-> g[i]] OBVIOUS
      <3>8. Keeps(g, n)
        <4> HIDE DEF g
        <4> QED BY <3>6, <3>7
      <3> QED BY <3>8
    <2> QED BY <2>1, <2>2
  <1> QED BY <1>4

(* What stays of s are its members in T, each as often as before. *)
LEMMA KeptMembers ==
  ASSUME NEW S, NEW s \in Seq(S), NEW T
  PROVE  /\ Kept(s, T)[Len(s)] \in Seq(S)
         /\ Members(Kept(s, T)[Len(s)]) = Members(s) \cap T
         /\ Once(s) => Once(Kept(s, T)[Len(s)])
  <1> DEFINE k == Kept(s, T)
             Good(n) == /\ k[n] \in Seq(S)
                        /\ \A x : x \in Members(k[n]) <=>
                                   x \in T /\ \E i \in 1 .. n : s[i] = x
                        /\ Once(s) => Once(k[n])
             P == {n \in 0 .. Len(s) : ~Good(n)}
  <1>0. Len(s) \in Nat OBVIOUS
  <1>1. \A i \in 0 .. Len(s) :
          k[i] = IF i = 0 THEN <<>>
                 ELSE k[i - 1] \o IF s[i] \in T THEN <<s[i]>> ELSE <<>>
    <2>1. k = [i \in 0 .. Len(s) |->
                 IF i = 0 THEN <<>>
                 ELSE k[i - 1] \o IF s[i] \in T THEN <<s[i]>> ELSE <<>>]
      BY KeptExists, ZenonT(30) DEF Kept
    <2> HIDE DEF k
    <2> QED BY <2>1, Zenon
  <1> HIDE DEF k
  <1>2. P = {}
    <2>1. SUFFICES ASSUME P # {} PROVE FALSE OBVIOUS
    <2>2. PICK n \in P : \A m \in P : n <= m
      <3>1. P \in SUBSET Nat OBVIOUS
      <3> HIDE DEF P
      <3> QED BY <2>1, <3>1, LeastMember
    <2>3. n \in 0 .. Len(s) /\ ~Good(n) OBVIOUS
    <2>4. CASE n = 0
      <3>1. k[0] = <<>>
        <4>1. 0 \in 0 .. Len(s) BY <1>0
        <4> HIDE DEF Good
        <4> QED BY <1>1, <4>1
      <3>2. <<>> \in Seq(S) OBVIOUS
      <3> QED BY <2>3, <2>4, <3>1, <3>2, NoMembers
    <2>5. CASE n # 0
      <3>1. n - 1 \in 0 .. Len(s) /\ n - 1 \notin P /\ n \in 1 .. Len(s)
        <4> HIDE DEF P
        <4> QED BY <1>0, <2>2, <2>3, <2>5
      <3>2. Good(n - 1) BY <3>1
      <3> PICK q \in Seq(S), x \in S : q = k[n - 1] /\ x = s[n] BY <3>1, <3>2
      <3>3. k[n] = q \o IF x \in T THEN <<x>> ELSE <<>> BY <1>1, <2>3, <2>5
      <3>4. \A y : (\E i \in 1 .. n : s[i] = y) <=>
                     y = x \/ \E i \in 1 .. n - 1 : s[i] = y
        <4>1. 1 .. n = (1 .. n - 1) \cup {n} BY <1>0, <3>1
        <4> QED BY <4>1
      <3>5. /\ \A y : y \in Members(q) <=> y \in T /\ \E i \in 1 .. n - 1 : s[i] = y
            /\ Once(s) => Once(q)
        BY <3>2
      <3>6. CASE x \in T
        <4>1. k[n] = Append(q, x) BY <3>3, <3>6
        <4>2. /\ k[n] \in Seq(S) /\ Members(k[n]) = Members(q) \cup {x}
              /\ Once(q) /\ x \notin Members(q) => Once(k[n])
          BY <4>1, AppendedMember
        <4>3. Once(s) => x \notin Members(q)
          <5>1. ASSUME Once(s), x \in Members(q) PROVE FALSE
            <6>1. PICK i \in 1 .. n - 1 : s[i] = s[n] BY <3>5, <5>1
            <6>2. i \in 1 .. Len(s) /\ i # n BY <1>0, <3>1
            <6> QED BY <3>1, <5>1, <6>1, <6>2, Positions
          <5> QED BY <5>1
        <4>4. \A y : y \in Members(k[n]) <=> y \in T /\ \E i \in 1 .. n : s[i] = y
          BY <3>4, <3>5, <3>6, <4>2
        <4>5. Once(s) => Once(k[n]) BY <3>5, <4>2, <4>3
        <4> QED BY <4>2, <4>4, <4>5
      <3>7. CASE x \notin T
        <4>1. k[n] = q BY <3>3, <3>7
        <4> QED BY <2>3, <3>4, <3>5, <3>7, <4>1
      <3> QED BY <3>6, <3>7
    <2> QED BY <2>4, <2>5
  <1>3. Good(Len(s))
    <2>1. Len(s) \in 0 .. Len(s) BY <1>0
    <2> HIDE DEF Good
    <2> QED BY <1>2, <2>1
  <1>4. Members(k[Len(s)]) = Members(s) \cap T BY <1>3, Positions
  <1> QED BY <1>3, <1>4 DEF k

(* A finite set can be put into a sequence, each member once; any such     *)
(* sequence has all of them.                                               *)
LEMMA ListedMembers ==
  ASSUME NEW S, NEW R, R \subseteq S, IsFiniteSet(R)
  PROVE  /\ \E f \in [1 .. Cardinality(R) -> R] : Once(f)
         /\ \A f \in [1 .. Cardinality(R) -> R] :
              Once(f) => f \in Seq(S) /\ Members(f) = R
  <1> DEFINE n == Cardinality(R)
  <1>1. n \in Nat /\ ExistsBijection(1 .. n, R) BY FS_CardinalityType
  <1>2. \E f \in [1 .. n -> R] : Once(f)
    BY <1>1 DEF ExistsBijection, Bijection, Injection, IsInjective, Once
  <1>3. ASSUME NEW s \in [1 .. n -> R], Once(s)
        PROVE  s \in Seq(S) /\ Members(s) = R
    <2>1. IsFiniteSet(1 .. n) /\ Cardinality(1 .. n) = n BY <1>1, FS_Interval
    <2>2. s \in Injection(1 .. n, R)
      BY <1>3 DEF Injection, IsInjective, Once
    <2>3. s \in Surjection(1 .. n, R) BY <2>1, <2>2, FS_Injection
    <2>4. \A x \in R : \E i \in 1 .. n : s[i] = x BY <2>3 DEF Surjection
    <2> HIDE DEF n
    <2>5. s \in Seq(S) /\ DOMAIN s = 1 .. n BY <1>1
    <2>6. Members(s) = R BY <2>4, <2>5 DEF Members
    <2> QED BY <2>5, <2>6
  <1> QED BY <1>2, <1>3

-----------------------------------------------------------------------------
(* Sequences of sequences.                                                 *)

(* The pieces of a sequence of sequences, one after another. *)
Flat(seqs) ==
  IF Len(seqs) = 0 THEN seqs
  ELSE LET flatten[i \in 1 .. Len(seqs)] ==
             IF i = 1 THEN seqs[i] ELSE flatten[i - 1] \o seqs[i]
       IN  flatten[Len(seqs)]

(* The recursion has a solution: a shorter one can be continued. *)
LEMMA FlatExists ==
  ASSUME NEW S, NEW s \in Seq(Seq(S))
  PROVE  \E f : f = [i \in 1 .. Len(s) |-> IF i = 1 THEN s[i] ELSE f[i - 1] \o s[i]]
  <1> DEFINE More(q, i) == q \o s[i]
             Joins(f, n) == f = [i \in 1 .. n |-> IF i = 1 THEN s[i] ELSE More(f[i - 1], i)]
             P == {n \in 0 .. Len(s) : ~\E f : Joins(f, n)}
  <1>0. SUFFICES \E f : Joins(f, Len(s)) OBVIOUS
  <1> HIDE DEF More
  <1>1. SUFFICES ASSUME P # {} PROVE FALSE
    BY DEF P
  <1>2. PICK n \in P : \A m \in P : n <= m
    <2>1. P \in SUBSET Nat OBVIOUS
    <2> HIDE DEF P
    <2> QED BY <1>1, <2>1, LeastMember
  <1>3. n \in 0 .. Len(s) /\ Len(s) \in Nat OBVIOUS
  <1>4. \E f : Joins(f, n)
    <2>1. CASE n = 0
      <3>1. 1 .. 0 = {} OBVIOUS
      <3>2. Joins([i \in {} |-> <<>>], 0) BY <3>1
      <3> QED BY <2>1, <3>2
    <2>2. CASE n # 0
      <3>1. n - 1 \in 0 .. Len(s) /\ n - 1 \notin P
        <4> HIDE DEF P
        <4> QED BY <1>2, <1>3, <2>2
      <3>2. PICK f : Joins(f, n - 1) BY <3>1
      <3> DEFINE last == IF n = 1 THEN s[1] ELSE More(f[n - 1], n)
                 g == [i \in 1 .. n |-> IF i = n THEN last ELSE f[i]]
      <3>3. \A i \in 1 .. n - 1 : f[i] = IF i = 1 THEN s[i] ELSE More(f[i - 1], i)
        BY <3>2
      <3>4. \A i \in 1 .. n - 1 : g[i] = f[i] BY <1>3
      <3>5. g[n] = last BY <1>3, <2>2
      <3>6. ASSUME NEW i \in 1 .. n
            PROVE  g[i] = IF i = 1 THEN s[i] ELSE More(g[i - 1], i)
        <4> HIDE DEF g
        <4>1. CASE i = n BY <1>3, <2>2, <3>4, <3>5, <4>1
        <4>2. CASE i # n
          <5>1. i \in 1 .. n - 1 /\ (i # 1 => i - 1 \in 1 .. n - 1) BY <1>3, <4>2
          <5> QED BY <3>3, <3>4, <5>1
        <4> QED BY <4>1, <4>2
      <3>7. g = [i \in 1 .. n |-> g[i]] OBVIOUS
      <3>8. Joins(g, n)
        <4> HIDE DEF g
        <4> QED BY <3>6, <3>7
      <3> QED BY <3>8
    <2> QED BY <2>1, <2>2
  <1> QED BY <1>4

(* It is the only one. *)
LEMMA FlatIs ==
  ASSUME NEW S, NEW s \in Seq(Seq(S)), s # <<>>, NEW f,
         \A i \in 1 .. Len(s) : f[i] = IF i = 1 THEN s[i] ELSE f[i - 1] \o s[i]
  PROVE  Flat(s) = f[Len(s)]
  <1> DEFINE J(g) == g = [i \in 1 .. Len(s) |-> IF i = 1 THEN s[i] ELSE g[i - 1] \o s[i]]
             g == CHOOSE h : J(h)
  <1>1. J(g)
    <2>1. \E h : J(h) BY FlatExists
    <2> HIDE DEF J
    <2> QED BY <2>1
  <1>2. \A i \in 1 .. Len(s) : g[i] = IF i = 1 THEN s[i] ELSE g[i - 1] \o s[i]
    <2> HIDE DEF g
    <2> QED BY <1>1, Zenon
  <1>3. Flat(s) = g[Len(s)]
    <2>1. Len(s) # 0 OBVIOUS
    <2> QED BY <2>1 DEF Flat
  <1> HIDE DEF J, g
  <1> DEFINE P == {n \in 1 .. Len(s) : g[n] # f[n]}
  <1>4. P = {}
    <2>1. SUFFICES ASSUME P # {} PROVE FALSE OBVIOUS
    <2>2. PICK n \in P : \A m \in P : n <= m
      <3>1. P \in SUBSET Nat OBVIOUS
      <3> HIDE DEF P
      <3> QED BY <2>1, <3>1, LeastMember
    <2>3. n \in 1 .. Len(s) /\ g[n] # f[n] /\ Len(s) \in Nat OBVIOUS
    <2>4. n # 1 BY <1>2, <2>3
    <2>5. n - 1 \in 1 .. Len(s) /\ n - 1 < n BY <2>3, <2>4
    <2>6. g[n - 1] = f[n - 1] BY <2>2, <2>5
    <2> QED BY <1>2, <2>3, <2>4, <2>6
  <1>5. Len(s) \in 1 .. Len(s) OBVIOUS
  <1> QED BY <1>3, <1>4, <1>5

(* The first n pieces. *)
FlatTo(s, n) == Flat(SubSeq(s, 1, n))

(* One piece after another. *)
LEMMA FlatNext ==
  ASSUME NEW S, NEW s \in Seq(Seq(S))
  PROVE  /\ FlatTo(s, 0) = <<>> /\ FlatTo(s, Len(s)) = Flat(s)
         /\ \A n \in 0 .. Len(s) : FlatTo(s, n) \in Seq(S)
         /\ \A n \in 1 .. Len(s) : FlatTo(s, n) = FlatTo(s, n - 1) \o s[n]
  <1>0. Len(s) \in Nat OBVIOUS
  <1>1. PICK f : f = [i \in 1 .. Len(s) |-> IF i = 1 THEN s[i] ELSE f[i - 1] \o s[i]]
    BY FlatExists
  <1>2. \A i \in 1 .. Len(s) : f[i] = IF i = 1 THEN s[i] ELSE f[i - 1] \o s[i]
    BY <1>1, Zenon
  <1>3. FlatTo(s, 0) = <<>>
    <2>1. SubSeq(s, 1, 0) = <<>> OBVIOUS
    <2>2. Flat(<<>>) = <<>> BY DEF Flat
    <2> QED BY <2>1, <2>2 DEF FlatTo
  <1>4. ASSUME NEW n \in 1 .. Len(s) PROVE FlatTo(s, n) = f[n]
    <2>0. PICK t : t = SubSeq(s, 1, n) OBVIOUS
    <2>1. t \in Seq(Seq(S)) /\ Len(t) = n /\ \A i \in 1 .. n : t[i] = s[i] /\ i \in 1 .. Len(s)
      BY <1>0, <2>0
    <2>2. \A i \in 1 .. Len(t) : f[i] = IF i = 1 THEN t[i] ELSE f[i - 1] \o t[i]
      BY <1>2, <2>1
    <2>3. t # <<>> BY <2>1
    <2>4. Flat(t) = f[n] BY <2>1, <2>2, <2>3, FlatIs
    <2> QED BY <2>0, <2>4 DEF FlatTo
  <1>5. FlatTo(s, Len(s)) = Flat(s)
    <2>1. SubSeq(s, 1, Len(s)) = s BY AllOf
    <2> QED BY <2>1 DEF FlatTo
  <1>6. ASSUME NEW n \in 1 .. Len(s) PROVE FlatTo(s, n) = FlatTo(s, n - 1) \o s[n]
    <2>1. CASE n = 1
      <3>1. f[1] = s[1] BY <1>2, <2>1
      <3>2. <<>> \o s[1] = s[1]
        <4>1. s[1] \in Seq(S) BY <2>1
        <4> QED BY <4>1
      <3>3. FlatTo(s, n - 1) = <<>> BY <1>3, <2>1
      <3> QED BY <1>4, <2>1, <3>1, <3>2, <3>3
    <2>2. CASE n # 1
      <3>1. n - 1 \in 1 .. Len(s) BY <2>2
      <3> QED BY <1>2, <1>4, <2>2, <3>1
    <2> QED BY <2>1, <2>2
  <1> DEFINE P == {n \in 0 .. Len(s) : FlatTo(s, n) \notin Seq(S)}
  <1>7. P = {}
    <2>1. SUFFICES ASSUME P # {} PROVE FALSE OBVIOUS
    <2>2. PICK n \in P : \A m \in P : n <= m
      <3>1. P \in SUBSET Nat OBVIOUS
      <3> HIDE DEF P
      <3> QED BY <2>1, <3>1, LeastMember
    <2>3. n \in 0 .. Len(s) /\ FlatTo(s, n) \notin Seq(S) OBVIOUS
    <2>4. n # 0
      <3>1. <<>> \in Seq(S) OBVIOUS
      <3> QED BY <1>3, <2>3, <3>1
    <2>5. n \in 1 .. Len(s) /\ n - 1 \in 0 .. Len(s) /\ n - 1 < n BY <1>0, <2>3, <2>4
    <2>6. FlatTo(s, n - 1) \in Seq(S) BY <2>2, <2>5
    <2>7. s[n] \in Seq(S) BY <2>5
    <2>8. FlatTo(s, n - 1) \o s[n] \in Seq(S) BY <2>6, <2>7
    <2> QED BY <1>6, <2>3, <2>5, <2>8
  <1> QED BY <1>3, <1>5, <1>6, <1>7

(* Where a piece stands. *)
LEMMA FlatPiece ==
  ASSUME NEW S, NEW s \in Seq(Seq(S)), NEW m \in 1 .. Len(s)
  PROVE  /\ Flat(s) \in Seq(S) /\ Len(FlatTo(s, m - 1)) \in Nat
         /\ Len(FlatTo(s, m)) = Len(FlatTo(s, m - 1)) + Len(s[m])
         /\ Len(FlatTo(s, m)) <= Len(Flat(s))
         /\ SubSeq(Flat(s), Len(FlatTo(s, m - 1)) + 1, Len(FlatTo(s, m))) = s[m]
  <1> DEFINE F(n) == FlatTo(s, n)
  <1>0. /\ FlatTo(s, Len(s)) = Flat(s)
        /\ \A n \in 0 .. Len(s) : FlatTo(s, n) \in Seq(S)
        /\ \A n \in 1 .. Len(s) : FlatTo(s, n) = FlatTo(s, n - 1) \o s[n]
    BY FlatNext
  <1>1. /\ F(Len(s)) = Flat(s)
        /\ \A n \in 0 .. Len(s) : F(n) \in Seq(S)
        /\ \A n \in 1 .. Len(s) : F(n) = F(n - 1) \o s[n]
    BY <1>0, Zenon
  <1>10. Len(s) \in Nat OBVIOUS
  <1> HIDE DEF F
  <1> DEFINE Front(n) == Len(F(m)) <= Len(F(n)) /\ \A i \in 1 .. Len(F(m)) : F(n)[i] = F(m)[i]
             P == {n \in m .. Len(s) : ~Front(n)}
  <1>2. P = {}
    <2>1. SUFFICES ASSUME P # {} PROVE FALSE OBVIOUS
    <2>2. PICK n \in P : \A k \in P : n <= k
      <3>1. P \in SUBSET Nat OBVIOUS
      <3> HIDE DEF P
      <3> QED BY <2>1, <3>1, LeastMember
    <2>3. n \in m .. Len(s) /\ ~Front(n) /\ Len(s) \in Nat OBVIOUS
    <2>4. n # m
      <3>1. Len(F(m)) \in Nat BY <1>1
      <3> QED BY <2>3, <3>1
    <2>5. n \in 1 .. Len(s) /\ n - 1 \in m .. Len(s) /\ n - 1 < n /\ n - 1 \in 0 .. Len(s)
      BY <1>1, <2>3, <2>4
    <2>6. Front(n - 1)
      <3> HIDE DEF Front
      <3> QED BY <2>2, <2>5
    <2>7. F(n) = F(n - 1) \o s[n] BY <1>1, <2>5
    <2> PICK a \in Seq(S), b \in Seq(S), c \in Seq(S) : a = F(n - 1) /\ b = s[n] /\ c = F(m)
      <3>1. m \in 0 .. Len(s) BY <1>1
      <3>2. s[n] \in Seq(S) BY <2>5
      <3> QED BY <1>1, <2>5, <3>1, <3>2
    <2>8. Len(a \o b) = Len(a) + Len(b) /\ \A i \in 1 .. Len(a) : (a \o b)[i] = a[i]
      BY Concatenation
    <2>9. Len(c) <= Len(a) /\ \A i \in 1 .. Len(c) : a[i] = c[i] BY <2>6
    <2>10. Len(c) <= Len(a \o b) /\ \A i \in 1 .. Len(c) : (a \o b)[i] = c[i]
      <3>1. Len(a) \in Nat /\ Len(b) \in Nat /\ Len(c) \in Nat OBVIOUS
      <3>2. \A i \in 1 .. Len(c) : i \in 1 .. Len(a) BY <2>9, <3>1
      <3>3. Len(c) <= Len(a \o b)
        <4>1. PICK k \in Nat, l \in Nat, p \in Nat : k = Len(a) /\ l = Len(b) /\ p = Len(c) BY <3>1
        <4>2. Len(a \o b) = k + l /\ p <= k BY <2>8, <2>9, <4>1
        <4>3. p <= k + l BY <4>2
        <4> QED BY <4>1, <4>2, <4>3, Zenon
      <3>4. ASSUME NEW i \in 1 .. Len(c) PROVE (a \o b)[i] = c[i]
        BY <2>8, <2>9, <3>2
      <3> QED BY <3>3, <3>4
    <2> QED BY <2>3, <2>7, <2>10
  <1>3. Front(Len(s))
    <2>1. Len(s) \in m .. Len(s) BY <1>10
    <2> HIDE DEF Front
    <2> QED BY <1>2, <2>1
  <1>9. PICK a \in Seq(S), b \in Seq(S), u \in Seq(S) :
        a = F(m - 1) /\ b = s[m] /\ u = Flat(s) /\ F(m) = a \o b
    <2>1. m - 1 \in 0 .. Len(s) /\ Len(s) \in 0 .. Len(s) BY <1>10
    <2>2. F(m - 1) \in Seq(S) /\ Flat(s) \in Seq(S) BY <1>1, <2>1
    <2>3. s[m] \in Seq(S) OBVIOUS
    <2>4. F(m) = F(m - 1) \o s[m] BY <1>1
    <2> QED BY <2>2, <2>3, <2>4
  <1>4. /\ Len(a \o b) = Len(a) + Len(b)
        /\ \A i \in 1 .. Len(b) : (a \o b)[i + Len(a)] = b[i]
    BY Concatenation
  <1>5. /\ Len(a) \in Nat /\ Len(b) \in Nat /\ Len(u) \in Nat /\ Len(F(m)) = Len(a) + Len(b)
        /\ Len(F(m)) <= Len(u)
    <2>1. Len(a) \in Nat /\ Len(b) \in Nat /\ Len(u) \in Nat OBVIOUS
    <2>2. Len(F(m)) = Len(a) + Len(b) BY <1>4, <1>9
    <2>3. Len(F(m)) <= Len(u) BY <1>1, <1>3, <1>9
    <2> QED BY <2>1, <2>2, <2>3
  <1>6. SubSeq(u, Len(a) + 1, Len(a) + Len(b)) = b
    <2>0. PICK k \in Nat, l \in Nat : k = Len(a) /\ l = Len(b) BY <1>5
    <2>1. k \in 0 .. Len(u) /\ l \in 0 .. Len(u) - k BY <1>5, <2>0
    <2>2. /\ SubSeq(u, k + 1, k + l) \in Seq(S) /\ Len(SubSeq(u, k + 1, k + l)) = l
          /\ \A i \in 1 .. l : SubSeq(u, k + 1, k + l)[i] = u[k + i]
      BY <2>1, Part
    <2>3. ASSUME NEW i \in 1 .. l PROVE u[k + i] = b[i]
      <3>1. i + k \in 1 .. Len(F(m)) /\ i + k = k + i BY <1>5, <2>0
      <3>2. u[i + k] = F(m)[i + k] BY <1>1, <1>3, <1>9, <3>1
      <3>3. F(m)[i + k] = b[i] BY <1>4, <1>9, <2>0
      <3> QED BY <3>1, <3>2, <3>3
    <2>4. SubSeq(u, k + 1, k + l) = b BY <2>0, <2>2, <2>3, SameSeq
    <2> QED BY <2>0, <2>4
  <1>7. Len(F(m - 1)) \in Nat /\ Len(F(m)) = Len(F(m - 1)) + Len(s[m])
        /\ Len(F(m)) <= Len(Flat(s)) /\ Flat(s) \in Seq(S)
    BY <1>5, <1>9
  <1>8. SubSeq(Flat(s), Len(F(m - 1)) + 1, Len(F(m))) = s[m] BY <1>5, <1>6, <1>9
  <1> QED BY <1>7, <1>8 DEF F

(* A piece more. *)
LEMMA FlatAppended ==
  ASSUME NEW S, NEW s \in Seq(Seq(S)), NEW x \in Seq(S)
  PROVE  /\ Append(s, x) \in Seq(Seq(S)) /\ Flat(s) \in Seq(S)
         /\ Flat(Append(s, x)) = Flat(s) \o x
  <1>0. PICK T : T = Seq(S) OBVIOUS
  <1>6. s \in Seq(T) /\ x \in T BY <1>0
  <1>8. Append(s, x) \in Seq(T) BY <1>6
  <1>7. PICK t \in Seq(T) : t = Append(s, x) BY <1>8
  <1>1. Len(t) = Len(s) + 1 /\ Len(s) \in Nat /\ t[Len(s) + 1] = x /\ SubSeq(t, 1, Len(s)) = s
    BY <1>6, <1>7
  <1>2. Len(t) \in 1 .. Len(t) /\ Len(t) - 1 = Len(s) BY <1>1
  <1>3. FlatTo(t, Len(t)) = FlatTo(t, Len(s)) \o x /\ FlatTo(t, Len(t)) = Flat(t)
    BY <1>0, <1>1, <1>2, <1>7, FlatNext
  <1>4. FlatTo(t, Len(s)) = Flat(s) BY <1>1 DEF FlatTo
  <1>5. Flat(s) \in Seq(S)
    <2>1. Len(s) \in 0 .. Len(s) BY <1>1
    <2> QED BY <2>1, FlatNext
  <1> QED BY <1>0, <1>3, <1>4, <1>5, <1>7

-----------------------------------------------------------------------------
(* Conversations: a stream is read and answered piece by piece.            *)

(* What the first i of n units can be answered with, when those from k to  *)
(* i get one of A[k][i]: as in TcpClients.                                 *)
Further(q, A, i) ==
  UNION {{h \o a : h \in q[k - 1], a \in A[k][i]} : k \in 1 .. i}
Told(n, A) ==
  LET said[i \in 0 .. n] == IF i = 0 THEN {<<>>} ELSE Further(said, A, i)
  IN  said

(* Which are those. *)
LEMMA FurtherIs ==
  ASSUME NEW q, NEW A, NEW i, NEW x
  PROVE  x \in Further(q, A, i) <=>
           \E k \in 1 .. i : \E h \in q[k - 1] : \E a \in A[k][i] : x = h \o a
  <1> DEFINE F(k) == {h \o a : h \in q[k - 1], a \in A[k][i]}
  <1>1. Further(q, A, i) = UNION {F(k) : k \in 1 .. i} BY DEF Further
  <1>2. \A k : x \in F(k) <=> \E h \in q[k - 1] : \E a \in A[k][i] : x = h \o a
    OBVIOUS
  <1> HIDE DEF F
  <1>3. x \in UNION {F(k) : k \in 1 .. i} <=> \E k \in 1 .. i : x \in F(k) OBVIOUS
  <1> QED BY <1>1, <1>2, <1>3

(* There is such a function: from the left, each value has been defined.   *)
LEMMA ToldExists ==
  ASSUME NEW n \in Nat, NEW A
  PROVE  \E f : f = [i \in 0 .. n |->
                       IF i = 0 THEN {<<>>} ELSE Further(f, A, i)]
  <1> DEFINE More(q, i) == Further(q, A, i)
             Tells(f, m) == f = [i \in 0 .. m |-> IF i = 0 THEN {<<>>} ELSE More(f, i)]
             P == {m \in 0 .. n : ~\E f : Tells(f, m)}
  <1>0. SUFFICES \E f : Tells(f, n) OBVIOUS
  <1>a. ASSUME NEW p, NEW q, NEW i \in Nat, \A j \in 0 .. i - 1 : p[j] = q[j]
        PROVE  More(p, i) = More(q, i)
    <2>1. ASSUME NEW k \in 1 .. i PROVE p[k - 1] = q[k - 1]
      <3>1. k - 1 \in 0 .. i - 1 OBVIOUS
      <3> QED BY <1>a, <3>1
    <2>2. \A x : x \in More(p, i) <=>
            \E k \in 1 .. i : \E h \in p[k - 1] : \E a \in A[k][i] : x = h \o a
      BY FurtherIs
    <2>3. \A x : x \in More(q, i) <=>
            \E k \in 1 .. i : \E h \in q[k - 1] : \E a \in A[k][i] : x = h \o a
      BY FurtherIs
    <2> HIDE DEF More
    <2>4. \A x : x \in More(p, i) <=> x \in More(q, i) BY <2>1, <2>2, <2>3
    <2>5. More(p, i) \subseteq More(q, i) /\ More(q, i) \subseteq More(p, i) BY <2>4
    <2> QED BY <2>5
  <1> HIDE DEF More
  <1>1. SUFFICES ASSUME P # {} PROVE FALSE
    BY DEF P
  <1>2. PICK m \in P : \A l \in P : m <= l
    <2>1. P \in SUBSET Nat OBVIOUS
    <2> HIDE DEF P
    <2> QED BY <1>1, <2>1, LeastMember
  <1>3. m \in 0 .. n OBVIOUS
  <1>4. \E f : Tells(f, m)
    <2>1. CASE m = 0
      <3> DEFINE f == [i \in 0 .. 0 |-> {<<>>}]
      <3>1. Tells(f, 0) OBVIOUS
      <3> QED BY <2>1, <3>1
    <2>2. CASE m # 0
      <3>1. m - 1 \in 0 .. n /\ m - 1 \notin P
        <4> HIDE DEF P
        <4> QED BY <1>2, <1>3, <2>2
      <3>2. PICK f : Tells(f, m - 1) BY <3>1
      <3> DEFINE g == [i \in 0 .. m |-> IF i = m THEN More(f, m) ELSE f[i]]
      <3>3. \A i \in 0 .. m - 1 : f[i] = IF i = 0 THEN {<<>>} ELSE More(f, i)
        BY <3>2
      <3>4. \A i \in 0 .. m - 1 : g[i] = f[i] BY <1>3
      <3>5. g[m] = More(f, m) BY <1>3
      <3>6. ASSUME NEW i \in 0 .. m
            PROVE  g[i] = IF i = 0 THEN {<<>>} ELSE More(g, i)
        <4> HIDE DEF g
        <4>0. i \in Nat /\ \A j \in 0 .. i - 1 : f[j] = g[j] BY <1>3, <3>4
        <4>1. More(f, i) = More(g, i) BY <1>a, <4>0
        <4>2. CASE i = m BY <2>2, <3>5, <4>1, <4>2
        <4>3. CASE i # m
          <5>1. i \in 0 .. m - 1 BY <1>3, <4>3
          <5> QED BY <3>3, <3>4, <4>1, <5>1
        <4> QED BY <4>2, <4>3
      <3>7. g = [i \in 0 .. m |-> g[i]] OBVIOUS
      <3>8. Tells(g, m)
        <4> HIDE DEF g
        <4> QED BY <3>6, <3>7
      <3> QED BY <3>8
    <2> QED BY <2>1, <2>2
  <1> QED BY <1>4

(* Nothing is answered with nothing, and what is read next is answered     *)
(* after what was read before.                                             *)
LEMMA ToldNext ==
  ASSUME NEW n \in Nat, NEW A
  PROVE  /\ Told(n, A)[0] = {<<>>}
         /\ \A k \in 1 .. n : \A i \in k .. n :
              \A h \in Told(n, A)[k - 1] : \A a \in A[k][i] : h \o a \in Told(n, A)[i]
  <1> DEFINE J(f) == f = [i \in 0 .. n |->
                       IF i = 0 THEN {<<>>} ELSE Further(f, A, i)]
             g == CHOOSE f : J(f)
  <1>1. J(g)
    <2>1. \E f : J(f) BY ToldExists
    <2> HIDE DEF J
    <2> QED BY <2>1
  <1>2. Told(n, A) = g BY DEF Told
  <1> HIDE DEF g
  <1>3. \A i \in 0 .. n : g[i] = IF i = 0 THEN {<<>>} ELSE Further(g, A, i)
    BY <1>1
  <1>4. g[0] = {<<>>} BY <1>3
  <1>5. ASSUME NEW k \in 1 .. n, NEW i \in k .. n, NEW h \in g[k - 1], NEW a \in A[k][i]
        PROVE  h \o a \in g[i]
    <2>1. i \in 0 .. n /\ i # 0 /\ k \in 1 .. i OBVIOUS
    <2>2. g[i] = Further(g, A, i) BY <1>3, <2>1
    <2>3. PICK x : x = h \o a OBVIOUS
    <2>4. \E l \in 1 .. i : \E y \in g[l - 1] : \E z \in A[l][i] : x = y \o z
      BY <2>1, <2>3
    <2>5. x \in Further(g, A, i) BY <2>4, FurtherIs
    <2> QED BY <2>2, <2>3, <2>5
  <1> QED BY <1>2, <1>4, <1>5

Starts(s, t) ==
  Len(s) <= Len(t) /\ SubSeq(s, 1, Len(s)) = SubSeq(t, 1, Len(s))

(* How the first part of a sequence starts it. *)
LEMMA FirstPart ==
  ASSUME NEW S, NEW a \in Seq(S), NEW b \in Seq(S)
  PROVE  Starts(a, a \o b) /\ Starts(a, a)
  <1> PICK c : c = a \o b OBVIOUS
  <1>0. /\ c \in Seq(S) /\ Len(c) = Len(a) + Len(b) /\ Len(a) \in Nat /\ Len(b) \in Nat
        /\ \A i \in 1 .. Len(a) : c[i] = a[i]
    BY Concatenation
  <1>1. 0 \in 0 .. Len(c) /\ Len(a) \in 0 .. Len(c) - 0 /\ 0 + 1 = 1 /\ 0 + Len(a) = Len(a)
    BY <1>0
  <1>2. /\ SubSeq(c, 0 + 1, 0 + Len(a)) \in Seq(S)
        /\ Len(SubSeq(c, 0 + 1, 0 + Len(a))) = Len(a)
        /\ \A i \in 1 .. Len(a) : SubSeq(c, 0 + 1, 0 + Len(a))[i] = c[0 + i]
    BY <1>0, <1>1, Part
  <1>3. PICK d \in Seq(S) : d = SubSeq(c, 1, Len(a)) BY <1>1, <1>2
  <1>4. Len(d) = Len(a) /\ \A i \in 1 .. Len(a) : d[i] = a[i]
    <2>1. \A i \in 1 .. Len(a) : 0 + i = i OBVIOUS
    <2> QED BY <1>0, <1>1, <1>2, <1>3, <2>1
  <1>5. d = a BY <1>4, SameSeq
  <1>6. SubSeq(a, 1, Len(a)) = a BY AllOf
  <1>7. Len(a) <= Len(c) BY <1>0
  <1> QED BY <1>0, <1>3, <1>5, <1>6, <1>7 DEF Starts

(* One reader of a stream s: n of its units have come, r of them are still *)
(* to be answered, o is what was said, all of it unless some was lost.     *)
Sits(A, s, n, r, o, lost) ==
  \E k \in 0 .. n :
    /\ r = SubSeq(s, k + 1, n)
    /\ IF lost THEN \E i \in 0 .. k : \E h \in Told(Len(s), A)[i] : Starts(o, h)
               ELSE o \in Told(Len(s), A)[k]

(* Some of it gets lost. *)
LEMMA SitsLose ==
  ASSUME NEW A, NEW s, NEW n \in Nat, NEW r, NEW o, Sits(A, s, n, r, o, FALSE),
         NEW o2, Starts(o2, o)
  PROVE  Sits(A, s, n, r, o2, TRUE)
  <1>0. PICK k \in 0 .. n : r = SubSeq(s, k + 1, n) /\ o \in Told(Len(s), A)[k]
    BY DEF Sits
  <1>1. k \in 0 .. k OBVIOUS
  <1> QED BY <1>0, <1>1 DEF Sits

(* Nothing has come yet. *)
LEMMA SitsBegin ==
  ASSUME NEW S, NEW s \in Seq(S), NEW A
  PROVE  Sits(A, s, 0, <<>>, <<>>, FALSE)
  <1>1. Len(s) \in Nat OBVIOUS
  <1>2. Told(Len(s), A)[0] = {<<>>} BY <1>1, ToldNext
  <1>3. SubSeq(s, 0 + 1, 0) = <<>> OBVIOUS
  <1> QED BY <1>2, <1>3 DEF Sits

(* Another unit comes. *)
LEMMA SitsSend ==
  ASSUME NEW S, NEW s \in Seq(S), NEW A, NEW n \in 0 .. Len(s) - 1, NEW r, NEW o,
         NEW lost, Sits(A, s, n, r, o, lost)
  PROVE  Sits(A, s, n + 1, Append(r, s[n + 1]), o, lost)
  <1>0. PICK k \in 0 .. n :
          /\ r = SubSeq(s, k + 1, n)
          /\ IF lost THEN \E i \in 0 .. k : \E h \in Told(Len(s), A)[i] : Starts(o, h)
                     ELSE o \in Told(Len(s), A)[k]
    BY DEF Sits
  <1>1. k \in 0 .. n + 1 OBVIOUS
  <1>2. Append(r, s[n + 1]) = SubSeq(s, k + 1, n + 1)
    <2>0. Len(s) \in Nat /\ n \in Nat /\ k \in Nat /\ n < Len(s) OBVIOUS
    <2>1. /\ r \in Seq(S) /\ Len(r) = n - k /\ \A i \in 1 .. n - k : r[i] = s[k + i]
      <3>1. k \in 0 .. Len(s) /\ n - k \in 0 .. Len(s) - k /\ k + (n - k) = n BY <2>0
      <3> PICK l : l = n - k OBVIOUS
      <3> QED BY <1>0, <3>1, Part
    <2>2. PICK u : u = SubSeq(s, k + 1, n + 1) OBVIOUS
    <2>3. /\ u \in Seq(S) /\ Len(u) = n + 1 - k /\ \A i \in 1 .. n + 1 - k : u[i] = s[k + i]
      <3>1. PICK l : l = n + 1 - k OBVIOUS
      <3>2. k \in 0 .. Len(s) /\ l \in 0 .. Len(s) - k /\ k + l = n + 1 BY <2>0, <3>1
      <3> QED BY <2>2, <3>1, <3>2, Part
    <2>4. s[n + 1] \in S BY <2>0
    <2>5. PICK v : v = Append(r, s[n + 1]) OBVIOUS
    <2>6. /\ v \in Seq(S) /\ Len(v) = n - k + 1 /\ v[n - k + 1] = s[n + 1]
          /\ \A i \in 1 .. n - k : v[i] = r[i]
      <3>1. r \in Seq(S) BY <2>1
      <3>2. PICK e \in S : e = s[n + 1] BY <2>4
      <3>3. /\ Append(r, e) \in Seq(S) /\ Len(Append(r, e)) = Len(r) + 1
            /\ Append(r, e)[Len(r) + 1] = e
            /\ \A i \in 1 .. Len(r) : Append(r, e)[i] = r[i]
        BY <3>1
      <3> QED BY <2>1, <2>5, <3>2, <3>3
    <2>7. n - k + 1 = n + 1 - k /\ k + (n - k + 1) = n + 1
          /\ \A i \in 1 .. n + 1 - k : i \in 1 .. n - k \/ i = n - k + 1
      BY <2>0
    <2>8. \A i \in 1 .. Len(u) : u[i] = v[i] BY <2>1, <2>3, <2>6, <2>7
    <2>9. Len(u) = Len(v) BY <2>3, <2>6, <2>7
    <2>10. u = v BY <2>3, <2>6, <2>8, <2>9, SameSeq
    <2> QED BY <2>2, <2>5, <2>10
  <1> QED BY <1>0, <1>1, <1>2 DEF Sits

(* What is to be answered, and what of it is read. *)
LEMMA SitsRest ==
  ASSUME NEW S, NEW s \in Seq(S), NEW n \in 0 .. Len(s), NEW k \in 0 .. n, NEW r,
         r = SubSeq(s, k + 1, n)
  PROVE  /\ r \in Seq(S) /\ Len(r) = n - k
         /\ \A m \in 0 .. Len(r) :
              /\ k + m \in 0 .. n
              /\ SubSeq(r, 1, m) = SubSeq(s, k + 1, k + m)
              /\ SubSeq(r, m + 1, Len(r)) = SubSeq(s, (k + m) + 1, n)
  <1>0. Len(s) \in Nat /\ n \in Nat /\ k \in Nat /\ n <= Len(s) /\ k <= n OBVIOUS
  <1>a. PICK l : l = n - k OBVIOUS
  <1>b. l \in Nat /\ k + l = n BY <1>0, <1>a
  <1>1. r \in Seq(S) /\ Len(r) = l /\ \A i \in 1 .. l : r[i] = s[k + i]
    <2>1. k \in 0 .. Len(s) /\ l \in 0 .. Len(s) - k BY <1>0, <1>b
    <2> QED BY <1>b, <2>1, Part
  <1>2. ASSUME NEW m \in 0 .. l
        PROVE  /\ k + m \in 0 .. n
               /\ SubSeq(r, 1, m) = SubSeq(s, k + 1, k + m)
               /\ SubSeq(r, m + 1, l) = SubSeq(s, (k + m) + 1, n)
    <2>0. m \in Nat /\ m <= l OBVIOUS
    <2>1. k + m \in 0 .. n BY <1>0, <1>b, <2>0
    <2>2. SubSeq(r, 1, m) = SubSeq(s, k + 1, k + m)
      <3>1. 0 \in 0 .. Len(r) /\ m \in 0 .. Len(r) - 0 /\ 0 + 1 = 1 /\ 0 + m = m
        BY <1>1, <1>b, <2>0
      <3>2. /\ SubSeq(r, 0 + 1, 0 + m) \in Seq(S) /\ Len(SubSeq(r, 0 + 1, 0 + m)) = m
            /\ \A i \in 1 .. m : SubSeq(r, 0 + 1, 0 + m)[i] = r[0 + i]
        BY <1>1, <3>1, Part
      <3>3. k \in 0 .. Len(s) /\ m \in 0 .. Len(s) - k BY <1>0, <1>b, <2>0
      <3>4. /\ SubSeq(s, k + 1, k + m) \in Seq(S) /\ Len(SubSeq(s, k + 1, k + m)) = m
            /\ \A i \in 1 .. m : SubSeq(s, k + 1, k + m)[i] = s[k + i]
        BY <3>3, Part
      <3>5. PICK u, v : u = SubSeq(r, 0 + 1, 0 + m) /\ v = SubSeq(s, k + 1, k + m) OBVIOUS
      <3>6. \A i \in 1 .. m : 0 + i = i /\ i \in 1 .. l BY <1>b, <2>0
      <3>7. u \in Seq(S) /\ v \in Seq(S) /\ Len(u) = m /\ Len(v) = m BY <3>2, <3>4, <3>5
      <3>8. \A i \in 1 .. Len(u) : u[i] = v[i] BY <1>1, <3>2, <3>4, <3>5, <3>6, <3>7
      <3>9. u = v BY <3>7, <3>8, SameSeq
      <3> QED BY <3>1, <3>5, <3>9
    <2>3. SubSeq(r, m + 1, l) = SubSeq(s, (k + m) + 1, n)
      <3>0. PICK j : j = l - m OBVIOUS
      <3>1. j \in Nat /\ m + j = l /\ (k + m) + j = n BY <1>0, <1>b, <2>0, <3>0
      <3>2. m \in 0 .. Len(r) /\ j \in 0 .. Len(r) - m BY <1>1, <1>b, <2>0, <3>1
      <3>3. /\ SubSeq(r, m + 1, m + j) \in Seq(S) /\ Len(SubSeq(r, m + 1, m + j)) = j
            /\ \A i \in 1 .. j : SubSeq(r, m + 1, m + j)[i] = r[m + i]
        BY <1>1, <3>2, Part
      <3>4. PICK km : km = k + m OBVIOUS
      <3>5. km \in 0 .. Len(s) /\ j \in 0 .. Len(s) - km BY <1>0, <1>b, <2>0, <3>1, <3>4
      <3>6. /\ SubSeq(s, km + 1, km + j) \in Seq(S) /\ Len(SubSeq(s, km + 1, km + j)) = j
            /\ \A i \in 1 .. j : SubSeq(s, km + 1, km + j)[i] = s[km + i]
        BY <3>5, Part
      <3>7. PICK u, v : u = SubSeq(r, m + 1, m + j) /\ v = SubSeq(s, km + 1, km + j) OBVIOUS
      <3>8. \A i \in 1 .. j : m + i \in 1 .. l /\ k + (m + i) = km + i
        BY <1>0, <1>b, <2>0, <3>1, <3>4
      <3>9. u \in Seq(S) /\ v \in Seq(S) /\ Len(u) = j /\ Len(v) = j BY <3>3, <3>6, <3>7
      <3>10. ASSUME NEW i \in 1 .. j PROVE u[i] = v[i]
        <4>1. u[i] = r[m + i] BY <3>3, <3>7
        <4>2. r[m + i] = s[k + (m + i)] BY <1>1, <3>8
        <4>3. v[i] = s[km + i] BY <3>6, <3>7
        <4> QED BY <3>8, <4>1, <4>2, <4>3
      <3>11. u = v BY <3>9, <3>10, SameSeq
      <3> QED BY <3>1, <3>4, <3>7, <3>11
    <2> QED BY <2>1, <2>2, <2>3
  <1> QED BY <1>1, <1>2, <1>a

(* Some of what has come is read and answered. *)
LEMMA SitsRead ==
  ASSUME NEW S, NEW s \in Seq(S), NEW A, NEW n \in 0 .. Len(s), NEW r, NEW o,
         Sits(A, s, n, r, o, FALSE), NEW m \in 1 .. Len(r), NEW a,
         \A k \in 0 .. n - m : SubSeq(r, 1, m) = SubSeq(s, k + 1, k + m)
                                 => a \in A[k + 1][k + m]
  PROVE  Sits(A, s, n, SubSeq(r, m + 1, Len(r)), o \o a, FALSE)
  <1>0. PICK k \in 0 .. n : r = SubSeq(s, k + 1, n) /\ o \in Told(Len(s), A)[k]
    BY DEF Sits
  <1>1. /\ r \in Seq(S) /\ Len(r) = n - k
        /\ \A l \in 0 .. Len(r) :
              /\ k + l \in 0 .. n
              /\ SubSeq(r, 1, l) = SubSeq(s, k + 1, k + l)
              /\ SubSeq(r, l + 1, Len(r)) = SubSeq(s, (k + l) + 1, n)
    BY <1>0, SitsRest
  <1>2. /\ m \in 0 .. Len(r) /\ n \in Nat /\ k \in Nat /\ m \in Nat
        /\ n <= Len(s) /\ Len(s) \in Nat /\ m > 0
    BY <1>1
  <1>3. /\ k + m \in 0 .. n /\ SubSeq(r, 1, m) = SubSeq(s, k + 1, k + m)
        /\ SubSeq(r, m + 1, Len(r)) = SubSeq(s, (k + m) + 1, n)
    BY <1>1, <1>2
  <1>4. k \in 0 .. n - m /\ k + 1 \in 1 .. Len(s) /\ k + m \in k + 1 .. Len(s)
        /\ (k + 1) - 1 = k
    BY <1>1, <1>2, <1>3
  <1>5. a \in A[k + 1][k + m] BY <1>3, <1>4
  <1>6. o \o a \in Told(Len(s), A)[k + m]
    <2>1. PICK p, q : p = k + 1 /\ q = k + m OBVIOUS
    <2>2. o \in Told(Len(s), A)[p - 1] /\ a \in A[p][q] BY <1>0, <1>4, <1>5, <2>1
    <2>3. Len(s) \in Nat /\ p \in 1 .. Len(s) /\ q \in p .. Len(s) BY <1>2, <1>4, <2>1
    <2>4. o \o a \in Told(Len(s), A)[q] BY <2>2, <2>3, ToldNext
    <2> QED BY <2>1, <2>4
  <1> QED BY <1>3, <1>6 DEF Sits

(* Where what was said may be lost, reading only takes from what has come. *)
LEMMA SitsLost ==
  ASSUME NEW S, NEW s \in Seq(S), NEW A, NEW n \in 0 .. Len(s), NEW r, NEW o,
         Sits(A, s, n, r, o, TRUE), NEW m \in 0 .. Len(r)
  PROVE  Sits(A, s, n, SubSeq(r, m + 1, Len(r)), o, TRUE)
  <1>0. PICK k \in 0 .. n :
          /\ r = SubSeq(s, k + 1, n)
          /\ \E i \in 0 .. k : \E h \in Told(Len(s), A)[i] : Starts(o, h)
    BY DEF Sits
  <1>1. /\ Len(r) = n - k
        /\ k + m \in 0 .. n /\ SubSeq(r, m + 1, Len(r)) = SubSeq(s, (k + m) + 1, n)
    BY <1>0, SitsRest
  <1>2. \A i \in 0 .. k : i \in 0 .. k + m BY <1>1
  <1>3. \E i \in 0 .. k + m : \E h \in Told(Len(s), A)[i] : Starts(o, h) BY <1>0, <1>2
  <1> QED BY <1>1, <1>3 DEF Sits

(* What was said answers the part that was read. *)
LEMMA SitsAnswers ==
  ASSUME NEW S, NEW s \in Seq(S), NEW A, NEW n \in 0 .. Len(s), NEW r,
         NEW U, NEW o \in Seq(U), NEW lost \in BOOLEAN, Sits(A, s, n, r, o, lost)
  PROVE  /\ r \in Seq(S) /\ Len(r) \in 0 .. n
         /\ \E i \in 0 .. n - Len(r) : \E h \in Told(Len(s), A)[i] : Starts(o, h)
  <1>0. PICK k \in 0 .. n :
          /\ r = SubSeq(s, k + 1, n)
          /\ IF lost THEN \E i \in 0 .. k : \E h \in Told(Len(s), A)[i] : Starts(o, h)
                     ELSE o \in Told(Len(s), A)[k]
    BY DEF Sits
  <1>1. r \in Seq(S) /\ Len(r) = n - k BY <1>0, SitsRest
  <1>2. Starts(o, o)
    <2>1. Len(o) \in Nat OBVIOUS
    <2> QED BY <2>1 DEF Starts
  <1>3. \E i \in 0 .. k : \E h \in Told(Len(s), A)[i] : Starts(o, h)
    <2>1. k \in 0 .. k OBVIOUS
    <2> QED BY <1>0, <1>2, <2>1
  <1>4. Len(r) \in 0 .. n /\ n - Len(r) = k BY <1>1
  <1> QED BY <1>1, <1>3, <1>4

(* A client's read moves from what it is to get to what it has got. *)
LEMMA Received ==
  ASSUME NEW S, NEW g \in Seq(Seq(S)), NEW t \in Seq(S), NEW m \in 0 .. Len(t)
  PROVE  /\ Append(g, SubSeq(t, 1, m)) \in Seq(Seq(S))
         /\ SubSeq(t, m + 1, Len(t)) \in Seq(S)
         /\ Flat(Append(g, SubSeq(t, 1, m))) \o SubSeq(t, m + 1, Len(t)) = Flat(g) \o t
  <1>1. PICK a, b : a = SubSeq(t, 1, m) /\ b = SubSeq(t, m + 1, Len(t)) OBVIOUS
  <1>2. a \in Seq(S) /\ b \in Seq(S) /\ a \o b = t BY <1>1, CutInTwo
  <1>3. /\ Append(g, a) \in Seq(Seq(S)) /\ Flat(g) \in Seq(S)
        /\ Flat(Append(g, a)) = Flat(g) \o a
    BY <1>2, FlatAppended
  <1>4. (Flat(g) \o a) \o b = Flat(g) \o (a \o b)
    <2>1. PICK f : f = Flat(g) OBVIOUS
    <2>2. f \in Seq(S) /\ a \in Seq(S) /\ b \in Seq(S) BY <1>2, <1>3, <2>1
    <2>3. \A x, y, z \in Seq(S) : (x \o y) \o z = x \o (y \o z) BY Associated
    <2>4. (f \o a) \o b = f \o (a \o b) BY <2>2, <2>3, Zenon
    <2> QED BY <2>1, <2>4
  <1> QED BY <1>1, <1>2, <1>3, <1>4

(* What is written comes after all that was written before. *)
LEMMA Written ==
  ASSUME NEW S, NEW g \in Seq(Seq(S)), NEW t \in Seq(S), NEW a \in Seq(S)
  PROVE  /\ t \o a \in Seq(S) /\ Flat(g) \in Seq(S) /\ Flat(g) \o t \in Seq(S)
         /\ (Flat(g) \o t) \o a = Flat(g) \o (t \o a)
         /\ Starts(Flat(g), Flat(g) \o t) /\ Flat(g) \o <<>> = Flat(g)
  <1>1. PICK f : f = Flat(g) OBVIOUS
  <1>2. f \in Seq(S)
    <2>1. <<>> \in Seq(S) OBVIOUS
    <2> QED BY <1>1, <2>1, FlatAppended
  <1>3. t \o a \in Seq(S) /\ f \o t \in Seq(S) /\ f \o <<>> = f BY <1>2
  <1>4. (f \o t) \o a = f \o (t \o a) BY <1>2, Associated
  <1>5. Starts(f, f \o t) BY <1>2, FirstPart
  <1> QED BY <1>1, <1>2, <1>3, <1>4, <1>5

(* All of a conversation: what the client has got and what is on its way   *)
(* to it.                                                                  *)
Says(A, U, s, n, r, g, t, lost) ==
  /\ n \in 0 .. Len(s) /\ g \in Seq(Seq(U)) /\ t \in Seq(U) /\ lost \in BOOLEAN
  /\ lost => t = <<>>
  /\ Sits(A, s, n, r, Flat(g) \o t, lost)

(* Nobody has said anything. *)
LEMMA SaysBegin ==
  ASSUME NEW S, NEW s \in Seq(S), NEW A, NEW U
  PROVE  Says(A, U, s, 0, <<>>, <<>>, <<>>, FALSE)
  <1>1. <<>> \in Seq(Seq(U)) /\ <<>> \in Seq(U) /\ 0 \in 0 .. Len(s) OBVIOUS
  <1>2. Flat(<<>>) \o <<>> = <<>> BY DEF Flat
  <1>3. Sits(A, s, 0, <<>>, <<>>, FALSE) BY SitsBegin
  <1> QED BY <1>1, <1>2, <1>3 DEF Says

(* Another unit has come. *)
LEMMA SaysSend ==
  ASSUME NEW S, NEW s \in Seq(S), NEW A, NEW U, NEW n, NEW r, NEW g, NEW t, NEW lost,
         Says(A, U, s, n, r, g, t, lost), n < Len(s)
  PROVE  Says(A, U, s, n + 1, Append(r, s[n + 1]), g, t, lost)
  <1>1. n \in 0 .. Len(s) - 1 /\ n + 1 \in 0 .. Len(s) BY DEF Says
  <1>2. PICK o : o = Flat(g) \o t OBVIOUS
  <1>3. Sits(A, s, n, r, o, lost) BY <1>2 DEF Says
  <1>4. Sits(A, s, n + 1, Append(r, s[n + 1]), o, lost) BY <1>1, <1>3, SitsSend
  <1> QED BY <1>1, <1>2, <1>4 DEF Says

(* The client gets some of what is on its way. *)
LEMMA SaysReceive ==
  ASSUME NEW s, NEW A, NEW U, NEW n, NEW r, NEW g, NEW t, NEW lost,
         Says(A, U, s, n, r, g, t, lost), t # <<>>, NEW m \in 0 .. Len(t)
  PROVE  Says(A, U, s, n, r, Append(g, SubSeq(t, 1, m)), SubSeq(t, m + 1, Len(t)), lost)
  <1>1. g \in Seq(Seq(U)) /\ t \in Seq(U) /\ lost = FALSE BY DEF Says
  <1>2. PICK h, u : h = Append(g, SubSeq(t, 1, m)) /\ u = SubSeq(t, m + 1, Len(t)) OBVIOUS
  <1>3. h \in Seq(Seq(U)) /\ u \in Seq(U) /\ Flat(h) \o u = Flat(g) \o t
    BY <1>1, <1>2, Received
  <1> QED BY <1>1, <1>2, <1>3 DEF Says

(* The client leaves before it has got everything. *)
LEMMA SaysLeave ==
  ASSUME NEW S, NEW s \in Seq(S), NEW A, NEW U, NEW n, NEW r, NEW g, NEW t, NEW lost,
         Says(A, U, s, n, r, g, t, lost), t # <<>>
  PROVE  Says(A, U, s, n, r, g, <<>>, TRUE)
  <1>1. g \in Seq(Seq(U)) /\ t \in Seq(U) /\ lost = FALSE /\ <<>> \in Seq(U) BY DEF Says
  <1>2. Starts(Flat(g), Flat(g) \o t) /\ Flat(g) \o <<>> = Flat(g) BY <1>1, Written
  <1>3. PICK o, o2 : o = Flat(g) \o t /\ o2 = Flat(g) OBVIOUS
  <1>4. Sits(A, s, n, r, o, FALSE) BY <1>1, <1>3 DEF Says
  <1>6. n \in Nat BY DEF Says
  <1>5. Sits(A, s, n, r, o2, TRUE) BY <1>2, <1>3, <1>4, <1>6, SitsLose
  <1> QED BY <1>1, <1>2, <1>3, <1>5 DEF Says

(* The server reads some of what has come and answers it. *)
LEMMA SaysRead ==
  ASSUME NEW S, NEW s \in Seq(S), NEW A, NEW U, NEW n, NEW r, NEW g, NEW t,
         Says(A, U, s, n, r, g, t, FALSE), NEW m \in 1 .. Len(r), NEW a \in Seq(U),
         \A k \in 0 .. n - m : SubSeq(r, 1, m) = SubSeq(s, k + 1, k + m)
                                 => a \in A[k + 1][k + m]
  PROVE  Says(A, U, s, n, SubSeq(r, m + 1, Len(r)), g, t \o a, FALSE)
  <1>1. g \in Seq(Seq(U)) /\ t \in Seq(U) /\ n \in 0 .. Len(s) BY DEF Says
  <1>2. /\ t \o a \in Seq(U) /\ Flat(g) \in Seq(U) /\ Flat(g) \o t \in Seq(U)
        /\ (Flat(g) \o t) \o a = Flat(g) \o (t \o a)
        /\ Starts(Flat(g), Flat(g) \o t) /\ Flat(g) \o <<>> = Flat(g)
    BY <1>1, Written, Zenon
  <1>3. PICK o : o = Flat(g) \o t OBVIOUS
  <1>4. Sits(A, s, n, r, o, FALSE) BY <1>3 DEF Says
  <1>5. Sits(A, s, n, SubSeq(r, m + 1, Len(r)), o \o a, FALSE) BY <1>1, <1>4, SitsRead
  <1> QED BY <1>1, <1>2, <1>3, <1>5 DEF Says

(* Nobody is there any more to be answered. *)
LEMMA SaysNothing ==
  ASSUME NEW S, NEW s \in Seq(S), NEW A, NEW U, NEW n, NEW r, NEW g, NEW t,
         Says(A, U, s, n, r, g, t, TRUE), NEW m \in 0 .. Len(r)
  PROVE  Says(A, U, s, n, SubSeq(r, m + 1, Len(r)), g, t, TRUE)
  <1>1. n \in 0 .. Len(s) BY DEF Says
  <1>2. PICK o : o = Flat(g) \o t OBVIOUS
  <1>3. Sits(A, s, n, r, o, TRUE) BY <1>2 DEF Says
  <1>4. Sits(A, s, n, SubSeq(r, m + 1, Len(r)), o, TRUE) BY <1>1, <1>3, SitsLost
  <1> QED BY <1>2, <1>4 DEF Says

(* What was said is the beginning of an answer to what was read. *)
LEMMA SaysRight ==
  ASSUME NEW S, NEW s \in Seq(S), NEW A, NEW U, NEW n, NEW r, NEW g, NEW t, NEW lost,
         Says(A, U, s, n, r, g, t, lost)
  PROVE  /\ r \in Seq(S) /\ Len(r) \in 0 .. n
         /\ \E i \in 0 .. n - Len(r) : \E h \in Told(Len(s), A)[i] : Starts(Flat(g) \o t, h)
  <1>1. g \in Seq(Seq(U)) /\ t \in Seq(U) /\ n \in 0 .. Len(s) /\ lost \in BOOLEAN
    BY DEF Says
  <1>2. <<>> \in Seq(U) OBVIOUS
  <1>3. PICK o \in Seq(U) : o = Flat(g) \o t BY <1>1, <1>2, Written
  <1>4. Sits(A, s, n, r, o, lost) BY <1>3 DEF Says
  <1> QED BY <1>1, <1>3, <1>4, SitsAnswers


(* When all has come and all was read, it is answered in full. *)
LEMMA SaysAll ==
  ASSUME NEW S, NEW s \in Seq(S), NEW A, NEW U, NEW g, NEW t,
         Says(A, U, s, Len(s), <<>>, g, t, FALSE)
  PROVE  Flat(g) \o t \in Told(Len(s), A)[Len(s)]
  <1>1. PICK n, r, o : n = Len(s) /\ r = <<>> /\ o = Flat(g) \o t OBVIOUS
  <1>2. Sits(A, s, n, r, o, FALSE) BY <1>1 DEF Says
  <1>3. PICK k \in 0 .. n : r = SubSeq(s, k + 1, n) /\ o \in Told(Len(s), A)[k]
    BY <1>2 DEF Sits
  <1>4. n \in 0 .. Len(s) /\ n \in Nat BY <1>1
  <1>5. Len(r) = n - k BY <1>3, <1>4, SitsRest
  <1>6. k = n BY <1>1, <1>4, <1>5
  <1> QED BY <1>1, <1>3, <1>6

(* A unit comes after those that came before. *)
LEMMA ComesAfter ==
  ASSUME NEW S, NEW a \in Seq(S), NEW b \in Seq(S), NEW x \in S
  PROVE  a \o Append(b, x) = Append(a \o b, x)
  <1>1. PICK u, v : u = a \o b /\ v = Append(b, x) OBVIOUS
  <1>2. /\ u \in Seq(S) /\ Len(u) = Len(a) + Len(b)
        /\ \A i \in 1 .. Len(a) : u[i] = a[i]
        /\ \A i \in 1 .. Len(b) : u[i + Len(a)] = b[i]
    BY <1>1, Concatenation
  <1>3. v = b \o <<x>> /\ <<x>> \in Seq(S) BY <1>1
  <1>4. Append(u, x) = u \o <<x>> BY <1>2
  <1>5. (a \o b) \o <<x>> = a \o (b \o <<x>>) BY <1>3, Associated
  <1> QED BY <1>1, <1>3, <1>4, <1>5

-----------------------------------------------------------------------------
(* Tables with free slots.                                                 *)

(* The table t names each member of names once, and nothing else.          *)
Lists(t, names, free) ==
  /\ t \in Seq(names \cup {free}) /\ free \notin names
  /\ \A x \in names : \E i \in 1 .. Len(t) : t[i] = x
  /\ \A i, j \in 1 .. Len(t) : t[i] # free /\ t[i] = t[j] => i = j
Full(t, free) == \A i \in 1 .. Len(t) : t[i] # free

(* A table without free slots is no longer than what it names. *)
LEMMA LengthBound ==
  ASSUME NEW t, NEW names, NEW free, Lists(t, names, free), Full(t, free),
         NEW S, IsFiniteSet(S), names \subseteq S
  PROVE  Len(t) <= Cardinality(S)
  <1>1. Len(t) \in Nat /\ t \in [1 .. Len(t) -> S]
    BY DEF Lists, Full
  <1>2. t \in Injection(1 .. Len(t), S)
    <2>1. \A a, b \in 1 .. Len(t) : t[a] = t[b] => a = b BY DEF Lists, Full
    <2> QED BY <1>1, <2>1, Zenon DEF Injection, IsInjective
  <1>3. Cardinality(1 .. Len(t)) <= Cardinality(S) BY <1>2, FS_Injection
  <1>4. Cardinality(1 .. Len(t)) = Len(t)
    <2>1. PICK n \in Nat : n = Len(t) BY <1>1
    <2>2. Cardinality(1 .. n) = IF 1 > n THEN 0 ELSE n - 1 + 1 BY FS_Interval
    <2>3. (IF 1 > n THEN 0 ELSE n - 1 + 1) = n OBVIOUS
    <2> QED BY <2>1, <2>2, <2>3, Zenon
  <1> QED BY <1>3, <1>4

(* There is a first free slot where there is one. *)
LEMMA FirstFree ==
  ASSUME NEW S, NEW t \in Seq(S), NEW free, ~Full(t, free)
  PROVE  \E i \in {j \in DOMAIN t : t[j] = free} :
           \A j \in {k \in DOMAIN t : t[k] = free} : i <= j
  <1> DEFINE P == {j \in DOMAIN t : t[j] = free}
  <1>1. P \in SUBSET Nat /\ P # {} BY DEF Full
  <1> HIDE DEF P
  <1>2. \E i \in P : \A j \in P : i <= j BY <1>1, LeastMember
  <1> QED BY <1>2 DEF P

(* A full table gets longer. *)
LEMMA Lengthened ==
  ASSUME NEW t, NEW names, NEW free, Lists(t, names, free), Full(t, free),
         NEW x, x \notin names, x # free
  PROVE  Lists(Append(t, x), names \cup {x}, free) /\ Full(Append(t, x), free)
  <1> PICK u : u = Append(t, x) OBVIOUS
  <1>0. t \in Seq(names \cup {free}) /\ Len(t) \in Nat BY DEF Lists
  <1>1. /\ Len(u) = Len(t) + 1 /\ u[Len(t) + 1] = x
        /\ \A i \in 1 .. Len(t) : u[i] = t[i]
    BY <1>0
  <1>2. u \in Seq((names \cup {x}) \cup {free}) BY <1>0
  <1>3. \A i \in 1 .. Len(u) : i \in 1 .. Len(t) \/ i = Len(t) + 1 BY <1>0, <1>1
  <1>4. \A i \in 1 .. Len(t) : t[i] \in names BY <1>0 DEF Full
  <1>5. Full(u, free) BY <1>1, <1>3 DEF Full
  <1>6. \A y \in names \cup {x} : \E i \in 1 .. Len(u) : u[i] = y
    <2>1. \A i \in 1 .. Len(t) : i \in 1 .. Len(u) BY <1>0, <1>1
    <2>2. Len(t) + 1 \in 1 .. Len(u) BY <1>0, <1>1
    <2> QED BY <1>1, <2>1, <2>2 DEF Lists
  <1>7. ASSUME NEW i \in 1 .. Len(u), NEW j \in 1 .. Len(u), u[i] = u[j] PROVE i = j
    BY <1>1, <1>3, <1>4, <1>7 DEF Lists, Full
  <1>8. Lists(u, names \cup {x}, free) BY <1>2, <1>6, <1>7 DEF Lists
  <1> QED BY <1>5, <1>8

(* A slot gets another entry. *)
With(t, k, x) == [t EXCEPT ![k] = x]

(* A free slot is filled. *)
LEMMA Filled ==
  ASSUME NEW t, NEW names, NEW free, Lists(t, names, free),
         NEW k \in 1 .. Len(t), t[k] = free, NEW x, x \notin names, x # free
  PROVE  /\ Lists(With(t, k, x), names \cup {x}, free)
         /\ Len(With(t, k, x)) = Len(t)
  <1> PICK u : u = With(t, k, x) OBVIOUS
  <1>0. t \in Seq(names \cup {free}) /\ Len(t) \in Nat BY DEF Lists
  <1>1. /\ u \in Seq((names \cup {x}) \cup {free}) /\ Len(u) = Len(t) /\ u[k] = x
        /\ \A i \in 1 .. Len(t) : i # k => u[i] = t[i]
    BY <1>0 DEF With
  <1>2. ASSUME NEW y \in names \cup {x} PROVE \E i \in 1 .. Len(u) : u[i] = y
    <2>1. CASE y = x BY <1>1, <2>1
    <2>2. CASE y # x
      <3>1. PICK i \in 1 .. Len(t) : t[i] = y BY <2>2 DEF Lists
      <3>2. i # k BY <2>2, <3>1 DEF Lists
      <3> QED BY <1>1, <3>1, <3>2
    <2> QED BY <2>1, <2>2
  <1>3. ASSUME NEW i \in 1 .. Len(u), NEW j \in 1 .. Len(u), u[i] # free, u[i] = u[j]
        PROVE  i = j
    <2>1. \A l \in 1 .. Len(t) : l # k => u[l] = t[l] /\ u[l] # x
      BY <1>0, <1>1
    <2> QED BY <1>1, <1>3, <2>1 DEF Lists
  <1>4. Lists(u, names \cup {x}, free) BY <1>1, <1>2, <1>3 DEF Lists
  <1> QED BY <1>1, <1>4

(* A slot is freed. *)
LEMMA Freed ==
  ASSUME NEW t, NEW names, NEW free, Lists(t, names, free),
         NEW k \in 1 .. Len(t), NEW x \in names, t[k] = x
  PROVE  /\ Lists(With(t, k, free), names \ {x}, free)
         /\ Len(With(t, k, free)) = Len(t)
  <1> PICK u : u = With(t, k, free) OBVIOUS
  <1>0. t \in Seq(names \cup {free}) /\ Len(t) \in Nat BY DEF Lists
  <1>1. /\ Len(u) = Len(t) /\ DOMAIN u = 1 .. Len(t) /\ u[k] = free
        /\ \A i \in 1 .. Len(t) : i # k => u[i] = t[i]
    BY <1>0 DEF With
  <1>2. \A i \in 1 .. Len(u) : u[i] \in (names \ {x}) \cup {free}
    BY <1>0, <1>1 DEF Lists
  <1>3. u \in Seq((names \ {x}) \cup {free})
    <2>1. u \in Seq(names \cup {free}) BY <1>0 DEF With
    <2> QED BY <1>2, <2>1, Retyped
  <1>4. Lists(u, names \ {x}, free) BY <1>1, <1>3 DEF Lists
  <1> QED BY <1>1, <1>4

(* A slot is taken out, and the gap is closed. *)
Without(s, k) == SubSeq(s, 1, k - 1) \o SubSeq(s, k + 1, Len(s))

LEMMA Erased ==
  ASSUME NEW S, NEW s \in Seq(S), NEW k \in 1 .. Len(s)
  PROVE  /\ Without(s, k) \in Seq(S) /\ Len(Without(s, k)) = Len(s) - 1
         /\ \A i \in 1 .. Len(s) - 1 :
              Without(s, k)[i] = s[IF i < k THEN i ELSE i + 1]
  <1> DEFINE n == k - 1
             m == Len(s) - k
             a == SubSeq(s, 0 + 1, 0 + n)
             b == SubSeq(s, k + 1, k + m)
  <1>0. /\ Len(s) \in Nat /\ k \in Nat /\ n \in 0 .. Len(s) - 0 /\ 0 \in 0 .. Len(s)
        /\ k \in 0 .. Len(s) /\ m \in 0 .. Len(s) - k /\ 0 + 1 = 1 /\ 0 + n = k - 1
        /\ k + m = Len(s) /\ n + m = Len(s) - 1
    OBVIOUS
  <1>1. Without(s, k) = a \o b BY <1>0 DEF Without
  <1> HIDE DEF n, m
  <1>2. /\ a \in Seq(S) /\ Len(a) = n /\ \A i \in 1 .. n : a[i] = s[0 + i]
    BY <1>0, Part
  <1>3. /\ b \in Seq(S) /\ Len(b) = m /\ \A i \in 1 .. m : b[i] = s[k + i]
    BY <1>0, Part
  <1> HIDE DEF a, b
  <1>4. /\ a \o b \in Seq(S) /\ Len(a \o b) = n + m
        /\ \A i \in 1 .. n : (a \o b)[i] = a[i]
        /\ \A i \in 1 .. m : (a \o b)[i + n] = b[i]
    <2> PICK p \in Seq(S), q \in Seq(S) : p = a /\ q = b BY <1>2, <1>3
    <2>1. /\ p \o q \in Seq(S) /\ Len(p \o q) = Len(p) + Len(q)
          /\ \A i \in 1 .. Len(p) : (p \o q)[i] = p[i]
          /\ \A i \in 1 .. Len(q) : (p \o q)[i + Len(p)] = q[i]
      BY Concatenation
    <2> QED BY <1>2, <1>3, <2>1
  <1>5. ASSUME NEW i \in 1 .. Len(s) - 1
        PROVE  (a \o b)[i] = s[IF i < k THEN i ELSE i + 1]
    <2>1. CASE i < k
      <3>1. i \in 1 .. n /\ 0 + i = i BY <1>0, <2>1 DEF n
      <3> QED BY <1>2, <1>4, <2>1, <3>1
    <2>2. CASE ~(i < k)
      <3>1. PICK j \in 1 .. m : j + n = i /\ k + j = i + 1
        <4>1. i - n \in 1 .. m /\ (i - n) + n = i /\ k + (i - n) = i + 1
          BY <1>0, <2>2 DEF n, m
        <4> QED BY <4>1
      <3>2. (a \o b)[i] = b[j] /\ b[j] = s[i + 1] BY <1>3, <1>4, <3>1
      <3> QED BY <2>2, <3>2
    <2> QED BY <2>1, <2>2
  <1> QED BY <1>0, <1>1, <1>4, <1>5

(* So it has one member less. *)
LEMMA ErasedMembers ==
  ASSUME NEW S, NEW s \in Seq(S), NEW k \in 1 .. Len(s)
  PROVE  /\ Without(s, k) \in Seq(S)
         /\ Once(s) => Once(Without(s, k)) /\ Members(Without(s, k)) = Members(s) \ {s[k]}
  <1> PICK u : u = Without(s, k) OBVIOUS
  <1>0. Len(s) \in Nat OBVIOUS
  <1> PICK m \in Nat : m = Len(s) BY <1>0
  <1>1. /\ u \in Seq(S) /\ Len(u) = m - 1 /\ k \in 1 .. m
        /\ \A i \in 1 .. m - 1 : u[i] = s[IF i < k THEN i ELSE i + 1]
    BY Erased
  <1> DEFINE was(i) == IF i < k THEN i ELSE i + 1
  <1>2. \A i \in 1 .. m - 1 : was(i) \in 1 .. m /\ was(i) # k /\ u[i] = s[was(i)]
    <2>1. ASSUME NEW i \in 1 .. m - 1 PROVE was(i) \in 1 .. m /\ was(i) # k
      BY <1>1
    <2>2. ASSUME NEW i \in 1 .. m - 1 PROVE u[i] = s[was(i)]
      BY <1>1
    <2> QED BY <2>1, <2>2
  <1>3. \A i, j \in 1 .. m - 1 : was(i) = was(j) => i = j BY <1>1
  <1>4. ASSUME NEW l \in 1 .. m, l # k PROVE \E i \in 1 .. m - 1 : was(i) = l
    <2>1. CASE l < k
      <3>1. l \in 1 .. m - 1 /\ was(l) = l BY <1>1, <2>1
      <3> QED BY <3>1
    <2>2. CASE l > k
      <3>1. l - 1 \in 1 .. m - 1 /\ was(l - 1) = l BY <1>1, <2>2
      <3> QED BY <3>1
    <2> QED BY <1>1, <1>4, <2>1, <2>2
  <1> HIDE DEF was
  <1>5. ASSUME Once(s) PROVE Once(u) /\ Members(u) = Members(s) \ {s[k]}
    <2>1. \A i, j \in 1 .. m : s[i] = s[j] => i = j BY <1>5, Positions
    <2>2. ASSUME NEW i \in 1 .. m - 1, NEW j \in 1 .. m - 1, u[i] = u[j] PROVE i = j
      <3>1. was(i) = was(j) BY <1>2, <2>1, <2>2, Zenon
      <3> QED BY <1>3, <3>1
    <2>3. Once(u) BY <1>1, <2>2, Positions
    <2>4. ASSUME NEW i \in 1 .. m - 1 PROVE u[i] \in Members(s) \ {s[k]}
      <3>1. was(i) \in 1 .. m /\ was(i) # k /\ u[i] = s[was(i)] BY <1>2
      <3>2. s[was(i)] \in Members(s) BY <3>1, MemberAt
      <3>3. s[was(i)] # s[k] BY <1>1, <2>1, <3>1
      <3> QED BY <3>1, <3>2, <3>3
    <2>5. ASSUME NEW x \in Members(s) \ {s[k]} PROVE x \in Members(u)
      <3>1. PICK l \in 1 .. m : s[l] = x BY Positions
      <3>2. PICK i \in 1 .. m - 1 : was(i) = l BY <1>4, <3>1
      <3>3. u[i] = x /\ i \in 1 .. Len(u) BY <1>1, <1>2, <3>1, <3>2
      <3> QED BY <1>1, <3>3, Positions
    <2>6. Members(u) \subseteq Members(s) \ {s[k]} BY <1>1, <2>4, MembersIn
    <2> QED BY <2>3, <2>5, <2>6
  <1> QED BY <1>1, <1>5

(* So the table names one less. *)
LEMMA Shortened ==
  ASSUME NEW t, NEW names, NEW free, Lists(t, names, free),
         NEW k \in 1 .. Len(t), NEW x \in names, t[k] = x
  PROVE  /\ Lists(Without(t, k), names \ {x}, free)
         /\ Len(Without(t, k)) = Len(t) - 1
         /\ Full(t, free) => Full(Without(t, k), free)
  <1> PICK u : u = Without(t, k) OBVIOUS
  <1>0. t \in Seq(names \cup {free}) /\ Len(t) \in Nat BY DEF Lists
  <1> PICK m \in Nat : m = Len(t) BY <1>0
  <1>1. /\ u \in Seq(names \cup {free}) /\ Len(u) = m - 1 /\ k \in 1 .. m
        /\ \A i \in 1 .. m - 1 : u[i] = t[IF i < k THEN i ELSE i + 1]
    <2> PICK S : S = names \cup {free} OBVIOUS
    <2>1. t \in Seq(S) BY <1>0
    <2>2. /\ u \in Seq(S) /\ Len(u) = Len(t) - 1
          /\ \A i \in 1 .. Len(t) - 1 : u[i] = t[IF i < k THEN i ELSE i + 1]
      BY <2>1, Erased
    <2> QED BY <2>2
  <1> DEFINE was(i) == IF i < k THEN i ELSE i + 1
  <1>2. \A i \in 1 .. m - 1 : was(i) \in 1 .. m /\ was(i) # k /\ u[i] = t[was(i)]
    <2>1. ASSUME NEW i \in 1 .. m - 1 PROVE was(i) \in 1 .. m /\ was(i) # k
      BY <1>1
    <2>2. ASSUME NEW i \in 1 .. m - 1 PROVE u[i] = t[was(i)]
      BY <1>1
    <2> QED BY <2>1, <2>2
  <1>3. \A i, j \in 1 .. m - 1 : was(i) = was(j) => i = j BY <1>1
  <1>4. ASSUME NEW l \in 1 .. m, l # k PROVE \E i \in 1 .. m - 1 : was(i) = l
    <2>1. CASE l < k
      <3>1. l \in 1 .. m - 1 /\ was(l) = l BY <1>1, <2>1
      <3> QED BY <3>1
    <2>2. CASE l > k
      <3>1. l - 1 \in 1 .. m - 1 /\ was(l - 1) = l BY <1>1, <2>2
      <3> QED BY <3>1
    <2> QED BY <1>1, <1>4, <2>1, <2>2
  <1> HIDE DEF was
  <1>5. u \in Seq((names \ {x}) \cup {free})
    <2>1. ASSUME NEW i \in 1 .. Len(u) PROVE u[i] \in (names \ {x}) \cup {free}
      <3>1. PICK l \in 1 .. Len(t) : l # k /\ u[i] = t[l] BY <1>1, <1>2
      <3>2. t[l] \in names \cup {free} BY <1>0
      <3>3. t[l] # x BY <3>1 DEF Lists
      <3> QED BY <3>1, <3>2, <3>3
    <2> QED BY <1>1, <2>1, Retyped
  <1>6. ASSUME NEW y \in names \ {x} PROVE \E i \in 1 .. Len(u) : u[i] = y
    <2>1. PICK l \in 1 .. Len(t) : t[l] = y BY DEF Lists
    <2>2. l # k BY <2>1
    <2>3. PICK i \in 1 .. Len(u) : was(i) = l BY <1>1, <1>4, <2>2
    <2>4. u[i] = y BY <1>1, <1>2, <2>1, <2>3
    <2> QED BY <2>4
  <1>7. ASSUME NEW i \in 1 .. Len(u), NEW j \in 1 .. Len(u), u[i] # free, u[i] = u[j]
        PROVE  i = j
    <2>1. /\ was(i) \in 1 .. Len(t) /\ was(j) \in 1 .. Len(t)
          /\ u[i] = t[was(i)] /\ u[j] = t[was(j)]
      BY <1>1, <1>2
    <2>2. /\ \A a, b \in 1 .. Len(t) : t[a] # free /\ t[a] = t[b] => a = b
          /\ t[was(i)] # free /\ t[was(i)] = t[was(j)]
      BY <1>7, <2>1 DEF Lists
    <2>3. was(i) = was(j) BY <2>1, <2>2, Zenon
    <2> QED BY <1>1, <1>3, <2>3
  <1>8. free \notin names \ {x} BY DEF Lists
  <1>9. Lists(u, names \ {x}, free) BY <1>5, <1>6, <1>7, <1>8 DEF Lists
  <1>10. Full(t, free) => Full(u, free) BY <1>1, <1>2 DEF Full
  <1> QED BY <1>1, <1>9, <1>10

-----------------------------------------------------------------------------
(* How the number of woken threads of a condition variable changes when    *)
(* one thread moves and when a signal or broadcast is sent.                *)

(* A finite set's woken threads can be counted. *)
LEMMA WokenFinite ==
  ASSUME NEW S, IsFiniteSet(S), NEW st
  PROVE  /\ IsFiniteSet(Woken(st, S))
         /\ Cardinality(Woken(st, S)) \in Nat
  <1>1. Woken(st, S) \subseteq S
    BY DEF Woken
  <1>2. IsFiniteSet(Woken(st, S))
    BY <1>1, FS_Subset
  <1> QED
    BY <1>2, FS_CardinalityType

(* One thread that starts or stops being woken moves the count by one. *)
LEMMA MoveOne ==
  ASSUME NEW S, IsFiniteSet(S), NEW st, NEW st2, NEW t \in S,
         \A u \in S \ {t} : st2[u] = st[u]
  PROVE  LET n == Cardinality(Woken(st, S))
             m == Cardinality(Woken(st2, S))
         IN  /\ st[t] = "woken" /\ st2[t] # "woken" => m = n - 1
             /\ st[t] # "woken" /\ st2[t] = "woken" => m = n + 1
             /\ (st[t] = "woken" <=> st2[t] = "woken") => m = n
  <1>1. /\ IsFiniteSet(Woken(st, S))
        /\ IsFiniteSet(Woken(st2, S))
    BY WokenFinite
  <1>2. ASSUME st[t] = "woken", st2[t] # "woken"
        PROVE  /\ Woken(st2, S) = Woken(st, S) \ {t}
               /\ t \in Woken(st, S)
    BY <1>2 DEF Woken
  <1>3. ASSUME st[t] # "woken", st2[t] = "woken"
        PROVE  /\ Woken(st2, S) = Woken(st, S) \cup {t}
               /\ t \notin Woken(st, S)
    BY <1>3 DEF Woken
  <1>4. ASSUME st[t] = "woken" <=> st2[t] = "woken"
        PROVE  Woken(st2, S) = Woken(st, S)
    BY <1>4 DEF Woken
  <1> QED
    BY <1>1, <1>2, <1>3, <1>4, FS_AddElement, FS_RemoveElement

(* A thread of another condition variable leaves the count alone. *)
LEMMA MoveOther ==
  ASSUME NEW S, NEW st, NEW st2, \A u \in S : st2[u] = st[u]
  PROVE  /\ Woken(st2, S) = Woken(st, S)
         /\ Waiting(st2, S) = Waiting(st, S)
  BY DEF Woken, Waiting

(* A signal wakes exactly one sleeper of S if there is one, and touches    *)
(* nothing else.                                                           *)
LEMMA SignalOne ==
  ASSUME NEW T, NEW S \in SUBSET T, IsFiniteSet(S),
         NEW States, "woken" \in States,
         NEW st \in [T -> States], NEW st2 \in Signalled(st, S)
  PROVE  /\ st2 \in [T -> States]
         /\ \A u \in T : st2[u] = st[u] \/ (u \in S /\ st[u] = "waiting"
                                                    /\ st2[u] = "woken")
         /\ Waiting(st, S) = {} => st2 = st
         /\ Waiting(st, S) # {} =>
              Cardinality(Woken(st2, S)) = Cardinality(Woken(st, S)) + 1
  <1>1. CASE Waiting(st, S) = {}
    BY <1>1 DEF Signalled
  <1>2. CASE Waiting(st, S) # {}
    <2>1. PICK t \in Waiting(st, S) : st2 = [st EXCEPT ![t] = "woken"]
      BY <1>2 DEF Signalled
    <2>2. t \in S /\ t \in T /\ st[t] = "waiting"
      BY <2>1 DEF Waiting
    <2>3. st2[t] = "woken" /\ \A u \in T \ {t} : st2[u] = st[u]
      BY <2>1, <2>2
    <2>4. Cardinality(Woken(st2, S)) = Cardinality(Woken(st, S)) + 1
      BY <2>2, <2>3, MoveOne
    <2> QED
      BY <1>2, <2>1, <2>2, <2>3, <2>4
  <1> QED
    BY <1>1, <1>2
=============================================================================
