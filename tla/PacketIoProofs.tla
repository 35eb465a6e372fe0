--------------------------- MODULE PacketIoProofs ---------------------------
(***************************************************************************)
(* Theorems about PacketIo, for all packets, lists of buffers, limits of   *)
(* the kernel and lengths of queues.                                       *)
(***************************************************************************)
EXTENDS PacketIo, SequenceTheorems, WellFoundedInduction, TLAPS

Byte == 0..255

-----------------------------------------------------------------------------
(* Induction and recursion on the naturals, over sets and functions *)

LEMMA Least0 ==
    ASSUME NEW T \in SUBSET Nat, T # {}
    PROVE  \E m \in T : \A n \in T : m <= n
  <1> DEFINE R == {ss \in Nat \X Nat : ss[1] < ss[2]}
  <1>1. IsWellFoundedOn(R, Nat)
    BY NatLessThanWellFounded DEF OpToRel
  <1>2. \A x, y \in Nat : <<x, y>> \in R <=> x < y
    OBVIOUS
  <1> HIDE DEF R
  <1>3. \E x \in T : \A y \in T : ~(<<y, x>> \in R)
    BY ONLY <1>1, T \subseteq Nat, T # {}, WFMin
  <1>4. PICK x \in T : \A y \in T : ~(<<y, x>> \in R)
    BY <1>3
  <1>5. ASSUME NEW n \in T
        PROVE  x <= n
    <2>1. x \in Nat /\ n \in Nat /\ ~(<<n, x>> \in R)
      BY <1>4
    <2>2. ~(n < x)
      BY <1>2, <2>1
    <2>3. QED
      BY <2>1, <2>2
  <1>6. QED
    BY <1>5

LEMMA Induction ==
    ASSUME NEW N \in Nat, NEW T, 0 \in T, \A n \in 0..N : n \in T /\ n < N => n + 1 \in T
    PROVE  \A n \in 0..N : n \in T
  <1> DEFINE F == {n \in 0..N : n \notin T}
  <1> SUFFICES ASSUME F # {} PROVE FALSE
    OBVIOUS
  <1>1. F \in SUBSET Nat
    OBVIOUS
  <1>2. PICK m \in F : \A n \in F : m <= n
    BY <1>1, Least0
  <1>3. m \in 0..N /\ m \notin T /\ m # 0
    BY <1>2
  <1>4. m - 1 \in 0..N /\ m - 1 < N /\ (m - 1) + 1 = m
    BY <1>3
  <1>5. m - 1 \in T
    BY <1>2, <1>4
  <1>6. QED
    BY <1>3, <1>4, <1>5

(* A function that is defined by recursion on 0..N exists. *)
Recurs(f, N, S, s0, step) ==
    /\ f \in [0..N -> S]
    /\ f[0] = s0
    /\ \A i \in 1..N : f[i - 1] \in S /\ f[i] = step[<<i, f[i - 1]>>]

LEMMA Recursion ==
    ASSUME NEW N \in Nat, NEW S, NEW s0 \in S, NEW step \in [(1..N) \X S -> S]
    PROVE  \E f : Recurs(f, N, S, s0, step)
  <1> DEFINE Good(n, f) == f[0] = s0 /\ \A i \in 1..n : f[i] = step[<<i, f[i - 1]>>]
             T == {n \in 0..N : \E f \in [0..n -> S] : Good(n, f)}
  <1>1. 0 \in T
    <2>1. Good(0, [i \in 0..0 |-> s0])
      OBVIOUS
    <2>2. [i \in 0..0 |-> s0] \in [0..0 -> S]
      OBVIOUS
    <2> HIDE DEF Good
    <2>3. \E f \in [0..0 -> S] : Good(0, f)
      BY <2>1, <2>2
    <2>4. QED
      BY <2>3
  <1>2. ASSUME NEW n \in 0..N, n \in T, n < N
        PROVE  n + 1 \in T
    <2>1. PICK f \in [0..n -> S] : Good(n, f)
      BY <1>2
    <2> DEFINE g == [i \in 0..(n + 1) |-> IF i = n + 1 THEN step[<<n + 1, f[n]>>] ELSE f[i]]
    <2>2. n + 1 \in 1..N /\ f[n] \in S /\ step[<<n + 1, f[n]>>] \in S
      BY <1>2, <2>1
    <2>3. g \in [0..(n + 1) -> S]
      BY <2>1, <2>2
    <2>4. \A i \in 0..n : g[i] = f[i]
      OBVIOUS
    <2>5. g[n + 1] = step[<<n + 1, f[n]>>] /\ n \in 0..n
      OBVIOUS
    <2> HIDE DEF g
    <2>6. ASSUME NEW i \in 1..n
          PROVE  g[i] = step[<<i, g[i - 1]>>]
      <3>1. i - 1 \in 0..n /\ i \in 0..n
        OBVIOUS
      <3>2. QED
        BY <2>1, <2>4, <3>1
    <2>7. \A i \in 1..(n + 1) : i \in 1..n \/ i = n + 1
      OBVIOUS
    <2>8. g[0] = s0
      BY <2>1, <2>4
    <2>9. \A i \in 1..(n + 1) : g[i] = step[<<i, g[i - 1]>>]
      <3> TAKE i \in 1..(n + 1)
      <3>1. CASE i \in 1..n
        BY <2>6, <3>1
      <3>2. CASE i = n + 1
        BY <2>4, <2>5, <3>2
      <3>3. QED
        BY <2>7, <3>1, <3>2
    <2>10. QED
      BY <1>2, <2>3, <2>8, <2>9
  <1> HIDE DEF T
  <1>3. \A n \in 0..N : n \in T
    BY <1>1, <1>2, Induction
  <1>4. PICK f \in [0..N -> S] : Good(N, f)
    BY <1>3 DEF T
  <1>5. \A i \in 1..N : i - 1 \in 0..N
    OBVIOUS
  <1>6. QED
    BY <1>4, <1>5 DEF Recurs

(* Two functions are the same on 0..N when each value follows from the one before. *)
Follows(f, g, N) == f[0] = g[0] /\ \A i \in 1..N : f[i - 1] = g[i - 1] => f[i] = g[i]

LEMMA Agree ==
    ASSUME NEW N \in Nat, NEW f, NEW g, Follows(f, g, N)
    PROVE  \A i \in 0..N : f[i] = g[i]
  <1> DEFINE T == {i \in 0..N : f[i] = g[i]}
  <1>1. 0 \in T
    BY DEF Follows
  <1>2. ASSUME NEW n \in 0..N, n \in T, n < N
        PROVE  n + 1 \in T
    <2>1. n + 1 \in 1..N /\ (n + 1) - 1 = n
      BY <1>2
    <2>2. f[n + 1] = g[n + 1]
      BY <1>2, <2>1 DEF Follows
    <2>3. QED
      BY <2>1, <2>2
  <1> HIDE DEF T
  <1>3. \A i \in 0..N : i \in T
    BY <1>1, <1>2, Induction
  <1>4. QED
    BY <1>3 DEF T

-----------------------------------------------------------------------------
(* What the recursive definitions of PacketIo compute *)

LEMMA UptoIs ==
    ASSUME NEW lens \in Seq(Nat)
    PROVE  /\ Upto(lens) \in [0..Len(lens) -> Nat]
           /\ Upto(lens)[0] = 0
           /\ \A i \in 1..Len(lens) : Upto(lens)[i] = Upto(lens)[i - 1] + lens[i]
  <1> DEFINE N == Len(lens)
             Sum(f) == f = [i \in 0..N |-> IF i = 0 THEN 0 ELSE f[i - 1] + lens[i]]
             g == CHOOSE f : Sum(f)
             step == [p \in (1..N) \X Nat |-> p[2] + lens[p[1]]]
  <1>1. N \in Nat /\ \A i \in 1..N : lens[i] \in Nat
    OBVIOUS
  <1>2. step \in [(1..N) \X Nat -> Nat]
    BY <1>1
  <1>3. \A i \in 1..N, n \in Nat : step[<<i, n>>] = n + lens[i]
    OBVIOUS
  <1> HIDE DEF step, N
  <1>4. PICK f : Recurs(f, N, Nat, 0, step)
    BY <1>1, <1>2, Recursion
  <1>5. f \in [0..N -> Nat] /\ f[0] = 0
    BY <1>4 DEF Recurs
  <1>6. \A i \in 1..N : f[i] = f[i - 1] + lens[i]
    BY <1>3, <1>4 DEF Recurs
  <1>7. f = [i \in 0..N |-> IF i = 0 THEN 0 ELSE f[i - 1] + lens[i]]
    BY <1>1, <1>5, <1>6
  <1>8. Sum(g)
    BY <1>7
  <1>9. Upto(lens) = g
    BY DEF Upto, N
  <1> HIDE DEF g
  <1>10. g[0] = 0 /\ \A i \in 1..N : g[i] = g[i - 1] + lens[i]
    BY <1>1, <1>8
  <1>11. Follows(g, f, N)
    BY <1>5, <1>6, <1>10 DEF Follows
  <1>12. \A i \in 0..N : g[i] = f[i]
    BY <1>1, <1>11, Agree
  <1>13. g \in [0..N -> Nat]
    BY <1>5, <1>8, <1>12
  <1>14. QED
    BY <1>9, <1>10, <1>13 DEF N
(* What is left of the first i members of s without those that are x. *)
Keeps(f, s, x, S) ==
    /\ f \in [0..Len(s) -> Seq(S)]
    /\ f[0] = <<>>
    /\ \A i \in 1..Len(s) : f[i] = IF s[i] = x THEN f[i - 1] ELSE Append(f[i - 1], s[i])

LEMMA WithoutIs ==
    ASSUME NEW S, NEW s \in Seq(S), NEW x
    PROVE  Keeps(Without(s, x), s, x, S)
  <1> DEFINE N == Len(s)
             Kept(f) == f = [i \in 0..N |->
                IF i = 0 THEN <<>> ELSE IF s[i] = x THEN f[i - 1] ELSE Append(f[i - 1], s[i])]
             g == CHOOSE f : Kept(f)
             step == [p \in (1..N) \X Seq(S) |->
                        IF s[p[1]] = x THEN p[2] ELSE Append(p[2], s[p[1]])]
  <1>1. N \in Nat /\ \A i \in 1..N : s[i] \in S
    OBVIOUS
  <1>2. step \in [(1..N) \X Seq(S) -> Seq(S)]
    BY <1>1
  <1>3. \A i \in 1..N, q \in Seq(S) :
            step[<<i, q>>] = IF s[i] = x THEN q ELSE Append(q, s[i])
    OBVIOUS
  <1>4. <<>> \in Seq(S)
    OBVIOUS
  <1> HIDE DEF step, N
  <1>5. PICK f : Recurs(f, N, Seq(S), <<>>, step)
    BY <1>1, <1>2, <1>4, Recursion
  <1>6. f \in [0..N -> Seq(S)] /\ f[0] = <<>>
    BY <1>5 DEF Recurs
  <1>7. \A i \in 1..N : f[i] = IF s[i] = x THEN f[i - 1] ELSE Append(f[i - 1], s[i])
    BY <1>3, <1>5 DEF Recurs
  <1> DEFINE Item(h, i) == IF s[i] = x THEN h[i - 1] ELSE Append(h[i - 1], s[i])
             Whole(h, i) == IF i = 0 THEN <<>> ELSE Item(h, i)
  <1>8. Kept(f)
    <2>1. \A i \in 1..N : f[i] = Item(f, i)
      BY <1>7
    <2> HIDE DEF Item
    <2>2. \A i \in 0..N : i = 0 \/ i \in 1..N
      BY <1>1
    <2>3. \A i \in 0..N : f[i] = Whole(f, i)
      BY <1>6, <2>1, <2>2
    <2> HIDE DEF Whole
    <2>4. f = [i \in 0..N |-> Whole(f, i)]
      BY <1>6, <2>3
    <2>5. QED
      BY <2>4 DEF Whole, Item
  <1>9. Kept(g)
    BY <1>8
  <1>10. Without(s, x) = g
    BY DEF Without, N
  <1> HIDE DEF g
  <1>11. /\ g[0] = <<>>
         /\ \A i \in 1..N : g[i] = IF s[i] = x THEN g[i - 1] ELSE Append(g[i - 1], s[i])
    <2>1. g = [i \in 0..N |-> Whole(g, i)]
      BY <1>9
    <2> HIDE DEF Whole
    <2>2. 0 \in 0..N /\ \A i \in 1..N : i \in 0..N /\ i # 0
      BY <1>1
    <2>3. g[0] = Whole(g, 0) /\ \A i \in 1..N : g[i] = Whole(g, i)
      BY <2>1, <2>2
    <2>4. \A i \in 1..N : g[i] = Item(g, i)
      BY <2>2, <2>3 DEF Whole
    <2>5. QED
      BY <2>3, <2>4 DEF Whole
  <1>12. Follows(g, f, N)
    BY <1>6, <1>7, <1>11 DEF Follows
  <1>13. \A i \in 0..N : g[i] = f[i]
    BY <1>1, <1>12, Agree
  <1>14. g \in [0..N -> Seq(S)]
    BY <1>6, <1>9, <1>13
  <1>15. QED
    BY <1>10, <1>11, <1>14 DEF Keeps, N

(* The concatenation of the first i members of s. *)
Concats(f, s, S) ==
    /\ f \in [0..Len(s) -> Seq(S)]
    /\ f[0] = <<>>
    /\ \A i \in 1..Len(s) : f[i] = f[i - 1] \o s[i]
    /\ FlattenSeq(s) = f[Len(s)]

LEMMA FlattenIs ==
    ASSUME NEW S, NEW s \in Seq(Seq(S))
    PROVE  \E f : Concats(f, s, S)
  <1> DEFINE N == Len(s)
             Flat(f) == f = [i \in 1..N |-> IF i = 1 THEN s[i] ELSE f[i - 1] \o s[i]]
             g == CHOOSE f : Flat(f)
             step == [p \in (1..N) \X Seq(S) |-> p[2] \o s[p[1]]]
  <1>1. N \in Nat /\ \A i \in 1..N : s[i] \in Seq(S)
    OBVIOUS
  <1>2. step \in [(1..N) \X Seq(S) -> Seq(S)]
    BY <1>1
  <1>3. \A i \in 1..N, q \in Seq(S) : step[<<i, q>>] = q \o s[i]
    OBVIOUS
  <1>4. <<>> \in Seq(S) /\ \A q \in Seq(S) : <<>> \o q = q
    OBVIOUS
  <1>5. N = 0 => s = <<>>
    OBVIOUS
  <1>6. FlattenSeq(s) = IF N = 0 THEN s ELSE g[N]
    BY DEF FlattenSeq
  <1> HIDE DEF step, N
  <1>7. PICK f : Recurs(f, N, Seq(S), <<>>, step)
    BY <1>1, <1>2, <1>4, Recursion
  <1>8. f \in [0..N -> Seq(S)] /\ f[0] = <<>>
    BY <1>7 DEF Recurs
  <1>9. \A i \in 1..N : f[i] = f[i - 1] \o s[i]
    BY <1>3, <1>7 DEF Recurs
  <1>first. 1 \in 1..N => f[1] = s[1]
    <2>1. 1 \in 1..N => f[1] = f[1 - 1] \o s[1]
      BY <1>9
    <2>2. 1 - 1 = 0
      OBVIOUS
    <2>3. 1 \in 1..N => f[1] = <<>> \o s[1] /\ s[1] \in Seq(S)
      BY <1>1, <1>8, <2>1, <2>2
    <2>4. QED
      BY <1>4, <2>3
  <1> DEFINE h == [i \in 1..N |-> f[i]]
             Whole(q, i) == IF i = 1 THEN s[i] ELSE q[i - 1] \o s[i]
  <1>10. Flat(h)
    <2>1. ASSUME NEW i \in 1..N
          PROVE  h[i] = Whole(h, i)
      <3>1. i = 1 => f[i] = s[i]
        BY <1>first
      <3>2. i # 1 => i - 1 \in 1..N
        BY <1>1
      <3>3. i # 1 => h[i - 1] = f[i - 1]
        BY <3>2
      <3>4. h[i] = f[i] /\ f[i] = f[i - 1] \o s[i]
        BY <1>9
      <3> HIDE DEF h
      <3>5. QED
        BY <3>1, <3>3, <3>4
    <2>2. h = [i \in 1..N |-> h[i]]
      OBVIOUS
    <2> HIDE DEF h, Whole
    <2>3. h = [i \in 1..N |-> Whole(h, i)]
      BY <2>1, <2>2
    <2>4. QED
      BY <2>3 DEF Whole
  <1>11. \A i \in 1..N : g[i] = Whole(g, i)
    <2>1. Flat(g)
      BY <1>10
    <2>2. g = [i \in 1..N |-> Whole(g, i)]
      BY <2>1
    <2> HIDE DEF g, Whole
    <2>3. QED
      BY <2>2
  <1> HIDE DEF g, h
  <1> DEFINE k == [i \in 0..N |-> IF i = 0 THEN <<>> ELSE g[i]]
  <1>12. Follows(k, f, N)
    <2>1. ASSUME NEW i \in 1..N, k[i - 1] = f[i - 1]
          PROVE  k[i] = f[i]
      <3>1. i \in 0..N /\ i - 1 \in 0..N /\ k[i] = g[i]
        BY <1>1
      <3>2. CASE i = 1
        <4>1. f[i] = s[i] /\ g[i] = s[i]
          BY <1>first, <1>11, <3>2
        <4>2. QED
          BY <3>1, <4>1
      <3>3. CASE i # 1
        <4>1. k[i - 1] = g[i - 1]
          BY <1>1, <3>1, <3>3
        <4>2. g[i] = g[i - 1] \o s[i]
          BY <1>11, <3>3
        <4> HIDE DEF k
        <4>3. QED
          BY <1>9, <2>1, <3>1, <4>1, <4>2
      <3>4. QED
        BY <3>2, <3>3
    <2>2. k[0] = f[0]
      BY <1>1, <1>8
    <2>3. QED
      BY <2>1, <2>2 DEF Follows
  <1>13. k[N] = f[N]
    <2> HIDE DEF k
    <2>1. \A i \in 0..N : k[i] = f[i]
      BY <1>1, <1>12, Agree
    <2>2. QED
      BY <1>1, <2>1
  <1>14. FlattenSeq(s) = f[N]
    BY <1>1, <1>5, <1>6, <1>8, <1>13
  <1>15. QED
    BY <1>8, <1>9, <1>14 DEF Concats, N
-----------------------------------------------------------------------------
(* Concatenation *)

LEMMA FlattenType ==
    ASSUME NEW S, NEW s \in Seq(Seq(S))
    PROVE  FlattenSeq(s) \in Seq(S)
  <1>1. PICK f : Concats(f, s, S)
    BY FlattenIs
  <1>2. Len(s) \in 0..Len(s)
    OBVIOUS
  <1>3. QED
    BY <1>1, <1>2 DEF Concats

LEMMA FlattenNone == FlattenSeq(<<>>) = <<>>
  BY DEF FlattenSeq

LEMMA FlattenAppend ==
    ASSUME NEW S, NEW s \in Seq(Seq(S)), NEW x \in Seq(S)
    PROVE  FlattenSeq(Append(s, x)) = FlattenSeq(s) \o x
  <1> DEFINE t == Append(s, x)
             N == Len(s)
  <1>1. /\ t \in Seq(Seq(S)) /\ Len(t) = N + 1 /\ N \in Nat
        /\ t[N + 1] = x /\ \A i \in 1..N : t[i] = s[i]
    OBVIOUS
  <1> HIDE DEF t
  <1>2. PICK f : Concats(f, s, S)
    BY FlattenIs
  <1>3. PICK g : Concats(g, t, S)
    BY <1>1, FlattenIs
  <1>4. /\ f[0] = <<>> /\ g[0] = <<>>
        /\ \A i \in 1..N : f[i] = f[i - 1] \o s[i]
        /\ FlattenSeq(s) = f[N]
    BY <1>2, <1>3 DEF Concats
  <1>5. /\ \A i \in 1..(N + 1) : g[i] = g[i - 1] \o t[i]
        /\ FlattenSeq(t) = g[N + 1]
    BY <1>1, <1>3 DEF Concats
  <1> HIDE DEF N
  <1>6. Follows(f, g, N)
    <2>1. \A i \in 1..N : i \in 1..(N + 1) /\ t[i] = s[i]
      BY <1>1
    <2>2. QED
      BY <1>4, <1>5, <2>1 DEF Follows
  <1>7. g[N] = f[N]
    BY <1>1, <1>6, Agree
  <1>8. N + 1 \in 1..(N + 1) /\ (N + 1) - 1 = N
    BY <1>1
  <1>9. g[N + 1] = g[N] \o x
    BY <1>1, <1>5, <1>8
  <1>10. QED
    BY <1>4, <1>5, <1>7, <1>9 DEF t

LEMMA FlattenOne ==
    ASSUME NEW S, NEW x \in Seq(S)
    PROVE  FlattenSeq(<<x>>) = x
  <1>1. <<>> \in Seq(Seq(S)) /\ Append(<<>>, x) = <<x>> /\ <<>> \o x = x
    OBVIOUS
  <1>2. FlattenSeq(<<x>>) = <<>> \o x
    BY <1>1, FlattenAppend, FlattenNone
  <1>3. QED
    BY <1>1, <1>2

ThreeJoin(x, y, z) == FlattenSeq(<<x, y, z>>) = (x \o y) \o z

LEMMA FlattenThree ==
    ASSUME NEW S, NEW x \in Seq(S), NEW y \in Seq(S), NEW z \in Seq(S)
    PROVE  ThreeJoin(x, y, z)
  <1> DEFINE s == <<x, y, z>>
  <1>1. s \in Seq(Seq(S)) /\ Len(s) = 3 /\ s[1] = x /\ s[2] = y /\ s[3] = z
    OBVIOUS
  <1> HIDE DEF s
  <1>2. PICK f : Concats(f, s, S)
    BY <1>1, FlattenIs
  <1>3. /\ f[0] = <<>> /\ FlattenSeq(s) = f[3]
        /\ \A i \in 1..3 : f[i] = f[i - 1] \o s[i]
    BY <1>1, <1>2 DEF Concats
  <1>4. 1 - 1 = 0 /\ 2 - 1 = 1 /\ 3 - 1 = 2 /\ 1 \in 1..3 /\ 2 \in 1..3 /\ 3 \in 1..3
    OBVIOUS
  <1>5. f[1] = <<>> \o x /\ f[2] = f[1] \o y /\ f[3] = f[2] \o z
    BY <1>1, <1>3, <1>4
  <1>6. <<>> \o x = x
    OBVIOUS
  <1>7. QED
    BY <1>3, <1>5, <1>6 DEF ThreeJoin, s

(* What is concatenated begins as its first member does, if that one is not empty. *)
LEMMA FlattenHead ==
    ASSUME NEW S, NEW s \in Seq(Seq(S)), s # <<>>, s[1] # <<>>
    PROVE  FlattenSeq(s) # <<>> /\ FlattenSeq(s)[1] = s[1][1]
  <1> DEFINE N == Len(s)
  <1>1. N \in Nat \ {0} /\ \A i \in 1..N : s[i] \in Seq(S)
    OBVIOUS
  <1>2. PICK f : Concats(f, s, S)
    BY FlattenIs
  <1>3. /\ f \in [0..N -> Seq(S)] /\ f[0] = <<>>
        /\ \A i \in 1..N : f[i] = f[i - 1] \o s[i]
        /\ FlattenSeq(s) = f[N]
    BY <1>2 DEF Concats
  <1> HIDE DEF N
  <1> DEFINE Good(q) == q # <<>> /\ q[1] = s[1][1]
             T == {i \in 0..N : i = 0 \/ Good(f[i])}
  <1>4. ASSUME NEW p \in Seq(S), NEW q \in Seq(S), Good(p)
        PROVE  Good(p \o q)
    <2>1. Len(p) # 0 /\ Len(p \o q) = Len(p) + Len(q) /\ (p \o q)[1] = p[1]
      BY <1>4
    <2>2. QED
      BY <1>4, <2>1
  <1>5. Good(f[1])
    <2>1. 1 \in 1..N /\ 1 - 1 = 0
      BY <1>1
    <2>2. f[1] = <<>> \o s[1]
      BY <1>3, <2>1
    <2>3. QED
      BY <1>1, <2>1, <2>2
  <1> HIDE DEF Good
  <1>6. ASSUME NEW n \in 0..N, n \in T, n < N
        PROVE  n + 1 \in T
    <2>1. n + 1 \in 1..N /\ n + 1 \in 0..N /\ (n + 1) - 1 = n
      BY <1>1, <1>6
    <2>2. n = 0 => Good(f[n + 1])
      BY <1>5
    <2>3. n # 0 => Good(f[n + 1])
      <3>1. f[n + 1] = f[n] \o s[n + 1] /\ f[n] \in Seq(S) /\ s[n + 1] \in Seq(S)
        BY <1>1, <1>3, <2>1
      <3>2. QED
        BY <1>4, <1>6, <3>1
    <2>4. QED
      BY <2>1, <2>2, <2>3
  <1>7. 0 \in T
    BY <1>1
  <1> HIDE DEF T
  <1>8. \A n \in 0..N : n \in T
    BY <1>1, <1>6, <1>7, Induction
  <1>9. Good(f[N])
    BY <1>1, <1>8 DEF T
  <1>10. QED
    BY <1>3, <1>9 DEF Good

(* To leave out the empty buffers changes neither the data nor what it begins with. *)
LEMMA NonEmptyIs ==
    ASSUME NEW S, NEW bufs \in Seq(Seq(S))
    PROVE  /\ NonEmpty(bufs) \in Seq(Seq(S))
           /\ Len(NonEmpty(bufs)) <= Len(bufs)
           /\ FlattenSeq(NonEmpty(bufs)) = FlattenSeq(bufs)
           /\ NonEmpty(bufs) # <<>> => Leading(bufs) # <<>>
  <1> DEFINE N == Len(bufs)
             k == Without(bufs, <<>>)
  <1>1. N \in Nat /\ \A i \in 1..N : bufs[i] \in Seq(S)
    OBVIOUS
  <1>2. Keeps(k, bufs, <<>>, Seq(S))
    BY WithoutIs
  <1>3. PICK f : Concats(f, bufs, S)
    BY FlattenIs
  <1>4. /\ f \in [0..N -> Seq(S)] /\ f[0] = <<>>
        /\ \A i \in 1..N : f[i] = f[i - 1] \o bufs[i]
        /\ FlattenSeq(bufs) = f[N]
    BY <1>3 DEF Concats
  <1>5. /\ k \in [0..N -> Seq(Seq(S))] /\ k[0] = <<>>
        /\ \A i \in 1..N :
              k[i] = IF bufs[i] = <<>> THEN k[i - 1] ELSE Append(k[i - 1], bufs[i])
    BY <1>2 DEF Keeps
  <1>6. NonEmpty(bufs) = k[N]
    BY DEF NonEmpty
  <1> HIDE DEF N, k
  <1> DEFINE Starts(q) == q = <<>> \/ q[1] # <<>>
             Good(i) == FlattenSeq(k[i]) = f[i] /\ Len(k[i]) <= i /\ Starts(k[i])
             T == {i \in 0..N : Good(i)}
  <1>7. 0 \in T
    BY <1>1, <1>4, <1>5, FlattenNone
  <1>8. ASSUME NEW q \in Seq(Seq(S)), NEW x \in Seq(S), x # <<>>, Starts(q)
        PROVE  Starts(Append(q, x))
    <2>1. q = <<>> => Append(q, x)[1] = x
      OBVIOUS
    <2>2. q # <<>> => Append(q, x)[1] = q[1]
      OBVIOUS
    <2>3. QED
      BY <1>8, <2>1, <2>2
  <1>9. ASSUME NEW n \in 0..N, n \in T, n < N
        PROVE  n + 1 \in T
    <2>1. n + 1 \in 1..N /\ n + 1 \in 0..N /\ (n + 1) - 1 = n
      BY <1>1, <1>9
    <2>2. /\ k[n] \in Seq(Seq(S)) /\ f[n] \in Seq(S) /\ bufs[n + 1] \in Seq(S)
          /\ f[n + 1] = f[n] \o bufs[n + 1]
          /\ k[n + 1] = IF bufs[n + 1] = <<>> THEN k[n] ELSE Append(k[n], bufs[n + 1])
      BY <1>1, <1>4, <1>5, <2>1
    <2>3. CASE bufs[n + 1] = <<>>
      <3>1. k[n + 1] = k[n] /\ f[n + 1] = f[n]
        BY <2>2, <2>3
      <3>2. QED
        BY <1>9, <2>1, <3>1
    <2>4. CASE bufs[n + 1] # <<>>
      <3>1. k[n + 1] = Append(k[n], bufs[n + 1])
        BY <2>2, <2>4
      <3>2. FlattenSeq(k[n + 1]) = f[n + 1]
        BY <1>9, <2>2, <3>1, FlattenAppend
      <3>3. Len(k[n + 1]) <= n + 1
        <4>1. Len(k[n + 1]) = Len(k[n]) + 1 /\ Len(k[n]) \in Nat
          BY <2>2, <3>1
        <4>2. QED
          BY <1>9, <4>1
      <3>4. Starts(k[n + 1])
        <4>1. Starts(k[n])
          BY <1>9
        <4> HIDE DEF Starts
        <4>2. QED
          BY <1>8, <2>2, <2>4, <3>1, <4>1
      <3>5. QED
        BY <2>1, <3>2, <3>3, <3>4
    <2>5. QED
      BY <2>3, <2>4
  <1> HIDE DEF T
  <1>10. \A n \in 0..N : n \in T
    BY <1>1, <1>7, <1>9, Induction
  <1>11. Good(N) /\ k[N] \in Seq(Seq(S))
    BY <1>1, <1>5, <1>10 DEF T
  <1>12. QED
    BY <1>4, <1>6, <1>11 DEF Leading, N
-----------------------------------------------------------------------------
(* Room, and what a read puts in it *)

(* The room in the first i buffers is the sum of their lengths. *)
Sums(f, lens) ==
    /\ f \in [0..Len(lens) -> Nat]
    /\ f[0] = 0
    /\ \A i \in 1..Len(lens) : f[i] = f[i - 1] + lens[i]

LEMMA UptoSums ==
    ASSUME NEW lens \in Seq(Nat)
    PROVE  Sums(Upto(lens), lens)
  BY UptoIs DEF Sums

(* A write of no data has no room in its buffers. *)
LEMMA SizeIsLen ==
    ASSUME NEW S, NEW bufs \in Seq(Seq(S)), NEW lens,
           lens = [i \in DOMAIN bufs |-> Len(bufs[i])]
    PROVE  lens \in Seq(Nat) /\ Size(lens) = Len(FlattenSeq(bufs))
  <1> DEFINE N == Len(bufs)
  <1>1. /\ N \in Nat /\ lens \in Seq(Nat) /\ Len(lens) = N
        /\ \A i \in 1..N : bufs[i] \in Seq(S) /\ lens[i] = Len(bufs[i])
    <2>1. N \in Nat /\ DOMAIN bufs = 1..N /\ \A i \in 1..N : bufs[i] \in Seq(S)
      OBVIOUS
    <2>2. \A i \in 1..N : Len(bufs[i]) \in Nat
      BY <2>1
    <2> HIDE DEF N
    <2>3. lens = [i \in 1..N |-> Len(bufs[i])]
      BY <2>1
    <2>4. lens \in Seq(Nat) /\ DOMAIN lens = 1..N
      BY <2>1, <2>2, <2>3
    <2>5. Len(lens) = N
      BY <2>1, <2>4
    <2>6. QED
      BY <2>1, <2>3, <2>4, <2>5
  <1>2. PICK f : Concats(f, bufs, S)
    BY FlattenIs
  <1>3. /\ f \in [0..N -> Seq(S)] /\ f[0] = <<>>
        /\ \A i \in 1..N : f[i] = f[i - 1] \o bufs[i]
        /\ FlattenSeq(bufs) = f[N]
    BY <1>2 DEF Concats
  <1> DEFINE u == Upto(lens)
             g == [i \in 0..N |-> Len(f[i])]
  <1>4. u[0] = 0 /\ \A i \in 1..N : u[i] = u[i - 1] + lens[i]
    BY <1>1, UptoSums DEF Sums
  <1>5. Size(lens) = u[N]
    BY <1>1 DEF Size
  <1> HIDE DEF N, u
  <1>6. ASSUME NEW i \in 1..N
        PROVE  g[i] = g[i - 1] + lens[i]
    <2>1. i \in 0..N /\ i - 1 \in 0..N
      BY <1>1
    <2>2. f[i] = f[i - 1] \o bufs[i] /\ f[i - 1] \in Seq(S) /\ bufs[i] \in Seq(S)
      BY <1>1, <1>3, <2>1
    <2>3. Len(f[i]) = Len(f[i - 1]) + Len(bufs[i])
      BY <2>2
    <2>4. QED
      BY <1>1, <2>1, <2>3
  <1>7. g[0] = 0 /\ g[N] = Len(FlattenSeq(bufs))
    BY <1>1, <1>3
  <1> HIDE DEF g
  <1>8. Follows(u, g, N)
    BY <1>4, <1>6, <1>7 DEF Follows
  <1>9. u[N] = g[N]
    BY <1>1, <1>8, Agree
  <1>10. QED
    BY <1>1, <1>5, <1>7, <1>9

(* The room in the first buffers does not depend on those that follow. *)
LEMMA UptoPrefix ==
    ASSUME NEW s \in Seq(Nat), NEW r \in Seq(Nat), Len(s) <= Len(r),
           \A j \in 1..Len(s) : s[j] = r[j]
    PROVE  \A j \in 0..Len(s) : Upto(s)[j] = Upto(r)[j]
  <1> DEFINE N == Len(s)
             u == Upto(s)
             v == Upto(r)
  <1>1. N \in Nat /\ \A j \in 1..N : j \in 1..Len(r)
    OBVIOUS
  <1>2. /\ u[0] = 0 /\ v[0] = 0
        /\ \A i \in 1..N : u[i] = u[i - 1] + s[i]
        /\ \A i \in 1..N : v[i] = v[i - 1] + r[i]
    BY <1>1, UptoSums DEF Sums
  <1>3. \A i \in 1..N : s[i] = r[i]
    OBVIOUS
  <1> HIDE DEF N, u, v
  <1>4. Follows(u, v, N)
    BY <1>2, <1>3 DEF Follows
  <1>5. \A j \in 0..N : u[j] = v[j]
    BY <1>1, <1>4, Agree
  <1>6. QED
    BY <1>5 DEF N, u, v

(* Two neighbouring pieces of a sequence are the piece from the one to the other. *)
LEMMA SubSeqJoin ==
    ASSUME NEW S, NEW s \in Seq(S), NEW i \in Nat, NEW j \in i..Len(s)
    PROVE  SubSeq(s, 1, i) \o SubSeq(s, i + 1, j) = SubSeq(s, 1, j)
  <1> DEFINE a == SubSeq(s, 1, i)
             b == SubSeq(s, i + 1, j)
             c == SubSeq(s, 1, j)
  <1>1. /\ a \in Seq(S) /\ b \in Seq(S) /\ c \in Seq(S)
        /\ Len(a) = i /\ Len(b) = j - i /\ Len(c) = j
        /\ \A k \in 1..i : a[k] = s[k]
        /\ \A k \in 1..(j - i) : b[k] = s[i + k]
        /\ \A k \in 1..j : c[k] = s[k]
    BY SubSeqProperties
  <1> HIDE DEF a, b, c
  <1>2. /\ a \o b \in Seq(S) /\ Len(a \o b) = Len(a) + Len(b)
        /\ \A k \in 1..(Len(a) + Len(b)) :
               (a \o b)[k] = IF k <= Len(a) THEN a[k] ELSE b[k - Len(a)]
    BY <1>1, ConcatProperties
  <1>len. Len(a \o b) = Len(c)
    BY <1>1, <1>2
  <1>3. ASSUME NEW k \in 1..Len(c)
        PROVE  (a \o b)[k] = c[k]
    <2>1. CASE k <= i
      <3>1. k \in 1..i /\ k \in 1..j /\ (a \o b)[k] = a[k]
        BY <1>1, <1>2, <2>1
      <3>2. QED
        BY <1>1, <3>1
    <2>2. CASE k > i
      <3>1. (a \o b)[k] = b[k - i] /\ k - i \in 1..(j - i)
        BY <1>1, <1>2, <2>2
      <3>2. b[k - i] = s[i + (k - i)] /\ i + (k - i) = k
        BY <1>1, <3>1
      <3>3. QED
        BY <1>1, <3>1, <3>2
    <2>3. QED
      BY <1>1, <2>1, <2>2
  <1>4. a \o b = c
    BY <1>1, <1>2, <1>len, <1>3, SeqEqual
  <1>5. QED
    BY <1>4 DEF a, b, c
(* What the kernel puts in a buffer of length l behind room for u bytes. *)
Piece(data, u, l) == SubSeq(data, u + 1, Least(u + l, Len(data)))

LEMMA PieceIs ==
    ASSUME NEW S, NEW data \in Seq(S), NEW u \in Nat, NEW l \in Nat
    PROVE  /\ Piece(data, u, l) \in Seq(S)
           /\ Len(Piece(data, u, l)) <= l
           /\ SubSeq(data, 1, Least(u, Len(data))) \o Piece(data, u, l)
                  = SubSeq(data, 1, Least(u + l, Len(data)))
           /\ u >= Len(data) \/ l = 0 => Piece(data, u, l) = <<>>
  <1> DEFINE L == Len(data)
             n == Least(u + l, L)
             q == SubSeq(data, u + 1, n)
  <1>1. L \in Nat /\ n \in Nat /\ n <= L /\ n <= u + l
    BY DEF Least
  <1>2. \A i \in (u + 1)..n : data[i] \in S
    BY <1>1
  <1>3. u + 1 \in Int /\ n \in Int
    BY <1>1
  <1> HIDE DEF n
  <1>4. q \in Seq(S) /\ Len(q) = IF u + 1 <= n THEN n - (u + 1) + 1 ELSE 0
    BY <1>2, <1>3, SubSeqProperties
  <1>5. Len(q) <= l
    BY <1>1, <1>4
  <1>6. u >= L \/ l = 0 => q = <<>>
    <2>1. u >= L \/ l = 0 => n < u + 1
      BY <1>1
    <2>2. QED
      BY <1>3, <2>1, SubSeqEmpty
  <1>7. SubSeq(data, 1, Least(u, L)) \o q = SubSeq(data, 1, n)
    <2>1. CASE u < L
      <3>1. Least(u, L) = u /\ n \in u..L
        BY <1>1, <2>1 DEF Least, n
      <3>2. QED
        BY <3>1, SubSeqJoin
    <2>2. CASE ~(u < L)
      <3>1. Least(u, L) = L /\ n = L /\ q = <<>>
        BY <1>1, <1>6, <2>2 DEF Least, n
      <3>2. SubSeq(data, 1, L) \in Seq(S)
        OBVIOUS
      <3>3. QED
        BY <3>1, <3>2, ConcatEmptySeq
    <2>3. QED
      BY <2>1, <2>2
  <1>8. QED
    BY <1>4, <1>5, <1>6, <1>7 DEF Piece, n

(* The scattered pieces are the beginning of the data, as much as there is room for. *)
Scattered(parts, data, lens, S) ==
    /\ parts \in Seq(Seq(S))
    /\ Len(parts) = Len(lens)
    /\ \A i \in 1..Len(lens) : /\ parts[i] = Piece(data, Upto(lens)[i - 1], lens[i])
                              /\ Len(parts[i]) <= lens[i]
    /\ FlattenSeq(parts) = SubSeq(data, 1, Least(Size(lens), Len(data)))

LEMMA ScatterIs ==
    ASSUME NEW S, NEW data \in Seq(S), NEW lens \in Seq(Nat)
    PROVE  Scattered(Scatter(data, lens), data, lens, S)
  <1> DEFINE N == Len(lens)
             L == Len(data)
             u == Upto(lens)
             p == Scatter(data, lens)
  <1>1. N \in Nat /\ L \in Nat /\ DOMAIN lens = 1..N /\ \A i \in 1..N : lens[i] \in Nat
    OBVIOUS
  <1>2. u \in [0..N -> Nat] /\ u[0] = 0 /\ \A i \in 1..N : u[i] = u[i - 1] + lens[i]
    BY UptoSums DEF Sums
  <1>3. p = [i \in 1..N |-> SubSeq(data, u[i - 1] + 1, Least(u[i], L))] /\ Size(lens) = u[N]
    BY <1>1 DEF Scatter, Size
  <1> HIDE DEF N, u, p
  <1>4. ASSUME NEW i \in 1..N
        PROVE  p[i] = Piece(data, u[i - 1], lens[i]) /\ u[i - 1] \in Nat
    <2>1. i - 1 \in 0..N
      BY <1>1
    <2>2. QED
      BY <1>2, <1>3, <2>1 DEF Piece
  <1>5. \A i \in 1..N : p[i] \in Seq(S) /\ Len(p[i]) <= lens[i]
    <2> TAKE i \in 1..N
    <2> DEFINE q == Piece(data, u[i - 1], lens[i])
    <2>1. lens[i] \in Nat /\ u[i - 1] \in Nat /\ p[i] = q
      BY <1>1, <1>4
    <2>2. q \in Seq(S) /\ Len(q) <= lens[i]
      BY <2>1, PieceIs
    <2> HIDE DEF q
    <2>3. QED
      BY <2>1, <2>2
  <1>6. p \in Seq(Seq(S)) /\ Len(p) = N
    <2>1. p \in [1..N -> Seq(S)]
      BY <1>3, <1>5
    <2>2. QED
      BY <1>1, <2>1
  <1>7. PICK f : Concats(f, p, S)
    BY <1>6, FlattenIs
  <1>8. f[0] = <<>> /\ FlattenSeq(p) = f[N] /\ \A i \in 1..N : f[i] = f[i - 1] \o p[i]
    BY <1>6, <1>7 DEF Concats
  <1> DEFINE g == [i \in 0..N |-> SubSeq(data, 1, Least(u[i], L))]
  <1>9. ASSUME NEW i \in 1..N
        PROVE  g[i] = g[i - 1] \o p[i]
    <2>1. i \in 0..N /\ i - 1 \in 0..N
      BY <1>1
    <2>2. g[i] = SubSeq(data, 1, Least(u[i - 1] + lens[i], L))
          /\ g[i - 1] = SubSeq(data, 1, Least(u[i - 1], L))
      BY <1>2, <2>1
    <2>3. lens[i] \in Nat /\ u[i - 1] \in Nat /\ p[i] = Piece(data, u[i - 1], lens[i])
      BY <1>1, <1>4
    <2>4. SubSeq(data, 1, Least(u[i - 1], L)) \o Piece(data, u[i - 1], lens[i])
              = SubSeq(data, 1, Least(u[i - 1] + lens[i], L))
      BY <2>3, PieceIs
    <2> HIDE DEF g, L
    <2>5. QED
      BY <2>2, <2>3, <2>4
  <1>10. g[0] = <<>> /\ g[N] = SubSeq(data, 1, Least(u[N], L))
    <2>1. g[0] = SubSeq(data, 1, 0)
      BY <1>1, <1>2 DEF Least
    <2>2. SubSeq(data, 1, 0) = <<>>
      BY SubSeqEmpty
    <2>n. N \in 0..N
      BY <1>1
    <2>3. g[N] = SubSeq(data, 1, Least(u[N], L))
      BY ONLY <2>n
    <2> HIDE DEF g
    <2>4. QED
      BY <2>1, <2>2, <2>3
  <1> HIDE DEF g
  <1>11. Follows(f, g, N)
    BY <1>8, <1>9, <1>10 DEF Follows
  <1>12. f[N] = g[N]
    BY <1>1, <1>11, Agree
  <1>13. QED
    BY <1>3, <1>4, <1>5, <1>6, <1>8, <1>10, <1>12 DEF Scattered, N, u, p

(* The loop of putv fills the buffers as the kernel does, and counts what it put there. *)
LEMMA PutvIs ==
    ASSUME NEW S, NEW data \in Seq(S), NEW lens \in Seq(Nat)
    PROVE  Putv(data, lens) = [n |-> Least(Size(lens), Len(data)), bufs |-> Scatter(data, lens)]
  <1> DEFINE N == Len(lens)
             L == Len(data)
             u == Upto(lens)
             p == Scatter(data, lens)
             Put(h) == h = [i \in 0..N |->
                IF i = 0 THEN [n |-> 0, bufs |-> <<>>] ELSE PutOne(data, h[i - 1], lens[i])]
             g == CHOOSE h : Put(h)
             f == [i \in 0..N |-> [n |-> Least(u[i], L), bufs |-> SubSeq(p, 1, i)]]
  <1>1. N \in Nat /\ L \in Nat /\ \A i \in 1..N : lens[i] \in Nat
    OBVIOUS
  <1>2. u \in [0..N -> Nat] /\ u[0] = 0 /\ \A i \in 1..N : u[i] = u[i - 1] + lens[i]
    BY UptoSums DEF Sums
  <1>3. /\ p \in Seq(Seq(S)) /\ Len(p) = N
        /\ \A i \in 1..N : p[i] = Piece(data, u[i - 1], lens[i])
    BY ScatterIs DEF Scattered
  <1>4. Putv(data, lens) = g[N] /\ Size(lens) = u[N]
    BY DEF Putv, Size
  <1> HIDE DEF N, u, p
  <1>5. f[0] = [n |-> 0, bufs |-> <<>>]
    <2>1. SubSeq(p, 1, 0) = <<>> /\ Least(u[0], L) = 0
      BY <1>1, <1>2, SubSeqEmpty DEF Least
    <2>2. QED
      BY <1>1, <2>1
  <1>6. ASSUME NEW i \in 1..N
        PROVE  f[i] = PutOne(data, f[i - 1], lens[i])
    <2> DEFINE a == u[i - 1]
               l == lens[i]
               m == Least(a, L)
               k == Least(l, L - m)
    <2>1. /\ i \in 0..N /\ i - 1 \in 0..N /\ a \in Nat /\ l \in Nat
          /\ u[i] = a + l /\ p[i] = Piece(data, a, l)
      BY <1>1, <1>2, <1>3
    <2>2. /\ f[i] = [n |-> Least(a + l, L), bufs |-> SubSeq(p, 1, i)]
          /\ f[i - 1] = [n |-> m, bufs |-> SubSeq(p, 1, i - 1)]
      BY <2>1
    <2> HIDE DEF a, l, f
    <2>3. PutOne(data, f[i - 1], lens[i]) =
              [n |-> m + k, bufs |-> Append(SubSeq(p, 1, i - 1), SubSeq(data, m + 1, m + k))]
      BY <2>2 DEF PutOne, l
    <2>4. m + k = Least(a + l, L) /\ (a < L => m = a) /\ (~(a < L) => m = L /\ k = 0)
      <3> HIDE DEF L
      <3>1. CASE a < L
        <4>1. m = a
          BY <3>1 DEF Least
        <4>2. a + Least(l, L - a) = Least(a + l, L)
          BY <1>1, <2>1, <3>1 DEF Least
        <4>3. QED
          BY <3>1, <4>1, <4>2
      <3>2. CASE ~(a < L)
        <4>1. m = L
          BY <3>2 DEF Least
        <4>2. Least(l, L - L) = 0 /\ Least(a + l, L) = L
          BY <1>1, <2>1, <3>2 DEF Least
        <4>3. QED
          BY <1>1, <3>2, <4>1, <4>2
      <3>3. QED
        BY <3>1, <3>2
    <2>5. SubSeq(data, m + 1, m + k) = Piece(data, a, l)
      <3>1. CASE a < L
        BY <2>4, <3>1 DEF Piece
      <3>2. CASE ~(a < L)
        <4>1. Piece(data, a, l) = <<>>
          BY <1>1, <2>1, <3>2, PieceIs
        <4>2. SubSeq(data, m + 1, m + k) = <<>>
          BY <1>1, <2>4, <3>2, SubSeqEmpty
        <4>3. QED
          BY <4>1, <4>2
      <3>3. QED
        BY <3>1, <3>2
    <2>6. Append(SubSeq(p, 1, i - 1), p[i]) = SubSeq(p, 1, i)
      BY <1>1, <1>3, <2>1
    <2>7. QED
      BY <2>1, <2>2, <2>3, <2>4, <2>5, <2>6
  <1> HIDE DEF f
  <1> DEFINE Whole(h, i) == IF i = 0 THEN [n |-> 0, bufs |-> <<>>]
                                     ELSE PutOne(data, h[i - 1], lens[i])
  <1>7. Put(f)
    <2>1. f = [i \in 0..N |-> f[i]]
      BY DEF f
    <2>2. \A i \in 0..N : i = 0 \/ i \in 1..N
      BY <1>1
    <2>3. \A i \in 0..N : f[i] = Whole(f, i)
      BY <1>5, <1>6, <2>2
    <2> HIDE DEF Whole
    <2>4. f = [i \in 0..N |-> Whole(f, i)]
      BY <2>1, <2>3
    <2>5. QED
      BY <2>4 DEF Whole
  <1>8. \A i \in 0..N : g[i] = Whole(g, i)
    <2>1. Put(g)
      BY <1>7
    <2>2. g = [i \in 0..N |-> Whole(g, i)]
      BY <2>1
    <2> HIDE DEF g, Whole
    <2>3. QED
      BY <2>2
  <1> HIDE DEF g
  <1>9. Follows(g, f, N)
    <2>1. ASSUME NEW i \in 1..N, g[i - 1] = f[i - 1]
          PROVE  g[i] = f[i]
      <3>1. i \in 0..N /\ i # 0
        BY <1>1
      <3>2. g[i] = PutOne(data, g[i - 1], lens[i])
        BY <1>8, <3>1
      <3>3. QED
        BY <1>6, <2>1, <3>2
    <2>2. g[0] = f[0]
      BY <1>1, <1>5, <1>8
    <2>3. QED
      BY <2>1, <2>2 DEF Follows
  <1>10. g[N] = f[N]
    BY <1>1, <1>9, Agree
  <1>11. SubSeq(p, 1, N) = p
    BY <1>3
  <1>12. f[N] = [n |-> Least(u[N], L), bufs |-> p]
    BY <1>1, <1>11 DEF f
  <1>13. QED
    BY <1>4, <1>10, <1>12 DEF p
(* The buffers that have room, and where they stand among all of them. *)
Roomy(k, lens) ==
    /\ k[Len(lens)] \in Seq(Nat)
    /\ Len(k[Len(lens)]) <= Len(lens)
    /\ \A i \in 0..Len(lens) :
          /\ Len(k[i]) \in 0..Len(k[Len(lens)])
          /\ Upto(k[Len(lens)])[Len(k[i])] = Upto(lens)[i]
    /\ \A i \in 1..Len(lens) : lens[i] # 0 => Len(k[i]) = Len(k[i - 1]) + 1

LEMMA RoomyIs ==
    ASSUME NEW lens \in Seq(Nat)
    PROVE  Roomy(Without(lens, 0), lens)
  <1> DEFINE N == Len(lens)
             k == Without(lens, 0)
             u == Upto(lens)
             r == k[N]
  <1>1. N \in Nat /\ \A i \in 1..N : lens[i] \in Nat
    OBVIOUS
  <1>2. Keeps(k, lens, 0, Nat)
    BY WithoutIs
  <1>3. /\ k \in [0..N -> Seq(Nat)] /\ k[0] = <<>>
        /\ \A i \in 1..N : k[i] = IF lens[i] = 0 THEN k[i - 1] ELSE Append(k[i - 1], lens[i])
    BY <1>2 DEF Keeps
  <1>4. u \in [0..N -> Nat] /\ u[0] = 0 /\ \A i \in 1..N : u[i] = u[i - 1] + lens[i]
    BY UptoSums DEF Sums
  <1> HIDE DEF N, k, u
  <1> DEFINE Good(i) == Len(k[i]) <= i /\ Upto(k[i])[Len(k[i])] = u[i]
             T == {i \in 0..N : Good(i)}
  <1>5. ASSUME NEW s \in Seq(Nat), NEW l \in Nat
        PROVE  Upto(Append(s, l))[Len(s) + 1] = Upto(s)[Len(s)] + l
    <2> DEFINE t == Append(s, l)
               M == Len(s)
    <2>1. /\ t \in Seq(Nat) /\ Len(t) = M + 1 /\ t[M + 1] = l /\ M \in Nat
          /\ \A j \in 1..M : s[j] = t[j]
      OBVIOUS
    <2> HIDE DEF t
    <2>2. \A j \in 0..M : Upto(s)[j] = Upto(t)[j]
      <3>1. Len(s) <= Len(t) /\ \A j \in 1..Len(s) : s[j] = t[j]
        BY <2>1
      <3>2. QED
        BY <2>1, <3>1, UptoPrefix
    <2>3. \A j \in 1..(M + 1) : Upto(t)[j] = Upto(t)[j - 1] + t[j]
      BY <2>1, UptoSums DEF Sums
    <2> HIDE DEF M
    <2>4. M + 1 \in 1..(M + 1) /\ (M + 1) - 1 = M /\ M \in 0..M
      BY <2>1
    <2>5. Upto(t)[M + 1] = Upto(s)[M] + l
      BY <2>1, <2>2, <2>3, <2>4
    <2>6. QED
      BY <2>5 DEF t, M
  <1>6. 0 \in T
    <2>1. Upto(<<>>)[0] = 0 /\ Len(<<>>) = 0
      BY UptoSums DEF Sums
    <2>2. QED
      BY <1>1, <1>3, <1>4, <2>1
  <1>7. ASSUME NEW n \in 0..N, n \in T, n < N
        PROVE  n + 1 \in T
    <2>1. n + 1 \in 1..N /\ n + 1 \in 0..N /\ (n + 1) - 1 = n
      BY <1>1, <1>7
    <2>2. /\ k[n] \in Seq(Nat) /\ lens[n + 1] \in Nat /\ u[n] \in Nat
          /\ u[n + 1] = u[n] + lens[n + 1]
          /\ k[n + 1] = IF lens[n + 1] = 0 THEN k[n] ELSE Append(k[n], lens[n + 1])
      BY <1>1, <1>3, <1>4, <2>1
    <2>3. CASE lens[n + 1] = 0
      <3>1. k[n + 1] = k[n] /\ u[n + 1] = u[n] /\ Len(k[n]) \in Nat
        BY <2>2, <2>3
      <3>2. QED
        BY <1>7, <2>1, <3>1
    <2>4. CASE lens[n + 1] # 0
      <3>1. k[n + 1] = Append(k[n], lens[n + 1]) /\ Len(k[n]) \in Nat
        BY <2>2, <2>4
      <3>2. Len(k[n + 1]) = Len(k[n]) + 1
        BY <2>2, <3>1
      <3>3. Upto(k[n + 1])[Len(k[n]) + 1] = Upto(k[n])[Len(k[n])] + lens[n + 1]
        BY <1>5, <2>2, <3>1
      <3>4. QED
        BY <1>7, <2>1, <2>2, <3>1, <3>2, <3>3
    <2>5. QED
      BY <2>3, <2>4
  <1> HIDE DEF T
  <1>8. \A i \in 0..N : i \in T
    BY <1>1, <1>6, <1>7, Induction
  <1>9. \A i \in 0..N : Good(i)
    BY <1>8 DEF T
  <1> DEFINE Pre(s) == Len(s) <= Len(r) /\ \A j \in 1..Len(s) : s[j] = r[j]
             V == {i \in 0..N : Pre(k[N - i])}
  <1>10. 0 \in V
    <2>1. N - 0 = N /\ Len(r) \in Nat
      BY <1>1, <1>3
    <2>2. QED
      BY <1>1, <2>1
  <1>11. ASSUME NEW s \in Seq(Nat), NEW l \in Nat, Pre(Append(s, l))
         PROVE  Pre(s)
    <2>1. /\ Len(Append(s, l)) = Len(s) + 1 /\ Len(s) \in Nat
          /\ \A j \in 1..Len(s) : Append(s, l)[j] = s[j]
      OBVIOUS
    <2>2. Len(r) \in Nat
      BY <1>1, <1>3
    <2>3. \A j \in 1..Len(s) : j \in 1..(Len(s) + 1)
      BY <2>1
    <2>4. QED
      BY <1>11, <2>1, <2>2, <2>3
  <1> HIDE DEF Pre
  <1>12. ASSUME NEW n \in 0..N, n \in V, n < N
         PROVE  n + 1 \in V
    <2> DEFINE i == N - n
    <2>1. /\ i \in 1..N /\ i - 1 \in 0..N /\ N - (n + 1) = i - 1 /\ n + 1 \in 0..N
          /\ Pre(k[i])
      BY <1>1, <1>12
    <2> HIDE DEF i
    <2>2. /\ k[i - 1] \in Seq(Nat) /\ lens[i] \in Nat
          /\ k[i] = IF lens[i] = 0 THEN k[i - 1] ELSE Append(k[i - 1], lens[i])
      BY <1>1, <1>3, <2>1
    <2>3. Pre(k[i - 1])
      BY <1>11, <2>1, <2>2
    <2>4. QED
      BY <2>1, <2>3
  <1> HIDE DEF V
  <1>13. \A i \in 0..N : i \in V
    BY <1>1, <1>10, <1>12, Induction
  <1>14. ASSUME NEW i \in 0..N
         PROVE  Len(k[i]) \in 0..Len(r) /\ Upto(r)[Len(k[i])] = u[i]
    <2>1. N - i \in 0..N /\ N - (N - i) = i
      BY <1>1
    <2>2. Pre(k[i])
      BY <1>13, <2>1 DEF V
    <2>3. k[i] \in Seq(Nat) /\ r \in Seq(Nat) /\ Len(k[i]) \in Nat /\ Len(r) \in Nat
      BY <1>1, <1>3
    <2>4. Upto(k[i])[Len(k[i])] = Upto(r)[Len(k[i])]
      <3> DEFINE s == k[i]
      <3> HIDE DEF s, r
      <3>1. \A j \in 0..Len(s) : Upto(s)[j] = Upto(r)[j]
        BY <2>2, <2>3, UptoPrefix DEF Pre, s
      <3>2. Len(s) \in 0..Len(s)
        BY <2>3 DEF s
      <3>3. Upto(s)[Len(s)] = Upto(r)[Len(s)]
        BY <3>1, <3>2
      <3>4. QED
        BY <3>3 DEF s
    <2>5. QED
      BY <1>9, <2>2, <2>3, <2>4 DEF Pre
  <1>15. ASSUME NEW i \in 1..N, lens[i] # 0
         PROVE  Len(k[i]) = Len(k[i - 1]) + 1
    <2>1. i - 1 \in 0..N
      BY <1>1
    <2>2. k[i - 1] \in Seq(Nat) /\ k[i] = Append(k[i - 1], lens[i]) /\ lens[i] \in Nat
      BY <1>1, <1>3, <1>15, <2>1
    <2>3. QED
      BY <2>2
  <1>16. r \in Seq(Nat) /\ Len(r) <= N
    BY <1>1, <1>3, <1>9
  <1>17. QED
    BY <1>14, <1>15, <1>16 DEF Roomy, N, k, u

(* A buffer in front puts its length before the room in the others. *)
LEMMA UptoBehind ==
    ASSUME NEW r \in Seq(Nat), NEW l \in Nat
    PROVE  \A j \in 0..Len(r) : Upto(<<l>> \o r)[j + 1] = l + Upto(r)[j]
  <1> DEFINE N == Len(r)
             t == <<l>> \o r
             u == Upto(r)
             v == Upto(t)
             f == [j \in 0..N |-> v[j + 1]]
             g == [j \in 0..N |-> l + u[j]]
  <1>1. /\ t \in Seq(Nat) /\ Len(t) = N + 1 /\ t[1] = l /\ N \in Nat
        /\ \A j \in 1..N : t[j + 1] = r[j] /\ r[j] \in Nat
    OBVIOUS
  <1>2. u \in [0..N -> Nat] /\ u[0] = 0 /\ \A j \in 1..N : u[j] = u[j - 1] + r[j]
    BY UptoSums DEF Sums
  <1> HIDE DEF N, t, u
  <1>3. v[0] = 0 /\ \A j \in 1..(N + 1) : v[j] = v[j - 1] + t[j]
    BY <1>1, UptoSums DEF Sums
  <1> HIDE DEF v
  <1>4. f[0] = g[0]
    <2>1. 1 \in 1..(N + 1) /\ 1 - 1 = 0 /\ 0 + 1 = 1 /\ 0 \in 0..N
      BY <1>1
    <2>2. v[1] = l
      BY <1>1, <1>3, <2>1
    <2>3. QED
      BY <1>2, <2>1, <2>2
  <1>5. ASSUME NEW i \in 1..N, f[i - 1] = g[i - 1]
        PROVE  f[i] = g[i]
    <2>1. /\ i \in 0..N /\ i - 1 \in 0..N /\ i + 1 \in 1..(N + 1)
          /\ (i + 1) - 1 = i /\ (i - 1) + 1 = i
      BY <1>1
    <2>2. v[i + 1] = v[i] + r[i]
      BY <1>1, <1>3, <2>1
    <2>3. v[i] = l + u[i - 1]
      BY <1>5, <2>1
    <2>4. u[i] = u[i - 1] + r[i] /\ u[i - 1] \in Nat /\ r[i] \in Nat
      BY <1>1, <1>2, <2>1
    <2>5. v[i + 1] = l + u[i]
      BY <2>2, <2>3, <2>4
    <2>6. QED
      BY <2>1, <2>5
  <1>6. \A j \in 0..N : f[j] = g[j]
    <2> HIDE DEF f, g
    <2>1. Follows(f, g, N)
      BY <1>4, <1>5 DEF Follows
    <2>2. QED
      BY <1>1, <2>1, Agree
  <1>7. QED
    BY <1>6 DEF N, t, u, v
LEMMA SubSeqBehind ==
    ASSUME NEW S, NEW h \in Seq(S), NEW s \in Seq(S), NEW m \in Nat \ {0}, NEW n \in 0..Len(s)
    PROVE  SubSeq(h \o s, Len(h) + m, Len(h) + n) = SubSeq(s, m, n)
  <1> DEFINE H == Len(h)
             t == h \o s
             a == SubSeq(t, H + m, H + n)
             b == SubSeq(s, m, n)
  <1>1. /\ t \in Seq(S) /\ H \in Nat /\ Len(t) = H + Len(s) /\ Len(s) \in Nat
        /\ \A i \in 1..(H + Len(s)) : t[i] = IF i <= H THEN h[i] ELSE s[i - H]
    BY ConcatProperties
  <1>2. \A i \in 1..Len(s) : H + i \in 1..(H + Len(s)) /\ ~(H + i <= H) /\ (H + i) - H = i
    BY <1>1
  <1>3. \A i \in 1..Len(s) : t[H + i] = s[i] /\ s[i] \in S
    BY <1>1, <1>2
  <1> HIDE DEF H, t
  <1>4. \A i \in m..n : s[i] \in S
    BY <1>1, <1>3
  <1>5. \A i \in (H + m)..(H + n) : t[i] \in S
    <2> TAKE i \in (H + m)..(H + n)
    <2>1. i - H \in 1..Len(s) /\ H + (i - H) = i
      BY <1>1
    <2>2. QED
      BY <1>3, <2>1
  <1>6. H + m \in Int /\ H + n \in Int /\ m \in Int /\ n \in Int
    BY <1>1
  <1>7. /\ a \in Seq(S)
        /\ Len(a) = IF H + m <= H + n THEN (H + n) - (H + m) + 1 ELSE 0
        /\ \A i \in 1..((H + n) - (H + m) + 1) : a[i] = t[(H + m) + i - 1]
    BY <1>5, <1>6, SubSeqProperties
  <1>8. /\ b \in Seq(S)
        /\ Len(b) = IF m <= n THEN n - m + 1 ELSE 0
        /\ \A i \in 1..(n - m + 1) : b[i] = s[m + i - 1]
    BY <1>4, <1>6, SubSeqProperties
  <1> HIDE DEF a, b
  <1>9. Len(a) = Len(b)
    BY <1>1, <1>7, <1>8
  <1>10. ASSUME NEW i \in 1..Len(a)
         PROVE  a[i] = b[i]
    <2>1. /\ i \in 1..(n - m + 1) /\ i \in 1..((H + n) - (H + m) + 1)
          /\ m + i - 1 \in 1..Len(s) /\ (H + m) + i - 1 = H + (m + i - 1)
      BY <1>1, <1>7
    <2>2. a[i] = t[H + (m + i - 1)] /\ b[i] = s[m + i - 1]
      BY <1>7, <1>8, <2>1
    <2>3. QED
      BY <1>3, <2>1, <2>2
  <1>11. a = b
    BY <1>7, <1>8, <1>9, <1>10, SeqEqual
  <1>12. QED
    BY <1>11 DEF H, t, a, b

(* What a read gives: as much of the packet as there is room for. *)
Filled(pkt, lens) == [n |-> Least(Size(lens), Len(pkt)), bufs |-> Scatter(pkt, lens)]

LEMMA RecvPlain ==
    ASSUME NEW pkt \in Seq(Byte), NEW lens \in Seq(Nat), Head(rx["plain"]) = pkt
    PROVE  Recv("plain", lens) = Filled(pkt, lens)
  <1>1. Offset("plain") = 0
    BY DEF Offset
  <1>2. Iovs("plain", lens) = lens
    BY <1>1 DEF Iovs
  <1>3. Behind("plain", Scatter(pkt, lens), lens) = Scatter(pkt, lens)
    BY <1>1 DEF Behind
  <1>4. Size(lens) \in Nat /\ Len(pkt) \in Nat
    <2>1. Len(lens) \in 0..Len(lens)
      OBVIOUS
    <2>2. QED
      BY <2>1, UptoSums DEF Sums, Size
  <1>5. Count("plain", Least(Size(lens), Len(pkt))) = Least(Size(lens), Len(pkt))
    BY <1>1, <1>4 DEF Count, Least
  <1>6. <<>> \o pkt = pkt
    OBVIOUS
  <1>7. Recv("plain", lens) = [n    |-> Count("plain", Least(Size(lens), Len(pkt))),
                               bufs |-> Behind("plain", Scatter(pkt, lens), lens)]
    BY <1>1, <1>2, <1>6 DEF Recv
  <1>8. QED
    BY <1>3, <1>5, <1>7 DEF Filled

LEMMA InformationIs ==
    ASSUME NEW buf
    PROVE  PacketInformation(buf) \in Seq(Byte) /\ Len(PacketInformation(buf)) = 4
  <1>1. 0 \in Byte /\ 8 \in Byte /\ 134 \in Byte /\ 221 \in Byte
    BY DEF Byte
  <1>2. <<0, 0, 134, 221>> \in Seq(Byte) /\ Len(<<0, 0, 134, 221>>) = 4
    BY <1>1
  <1>3. <<0, 0, 8, 0>> \in Seq(Byte) /\ Len(<<0, 0, 8, 0>>) = 4
    BY <1>1
  <1>4. QED
    BY <1>2, <1>3 DEF PacketInformation

LEMMA RecvPi ==
    ASSUME NEW pkt \in Seq(Byte), NEW lens \in Seq(Nat), Head(rx["pi"]) = pkt
    PROVE  Recv("pi", lens) = Filled(pkt, lens)
  <1> DEFINE N == Len(lens)
             L == Len(pkt)
             h == PacketInformation(pkt)
             data == h \o pkt
             u == Upto(lens)
             k == Without(lens, 0)
             r == k[N]
             iov == <<4>> \o r
             v == Upto(iov)
             parts == Scatter(data, iov)
  <1>1. Offset("pi") = 4
    BY DEF Offset, PIL
  <1>2. h \in Seq(Byte) /\ Len(h) = 4
    BY InformationIs
  <1>3. data \in Seq(Byte) /\ Len(data) = 4 + L /\ L \in Nat
    <2> HIDE DEF h
    <2>1. data \in Seq(Byte) /\ Len(data) = Len(h) + L
      BY <1>2, ConcatProperties
    <2>2. QED
      BY <1>2, <2>1
  <1>4. /\ N \in Nat /\ DOMAIN lens = 1..N
        /\ \A i \in 1..N : lens[i] \in Nat
    OBVIOUS
  <1>5. u \in [0..N -> Nat] /\ u[0] = 0 /\ \A i \in 1..N : u[i] = u[i - 1] + lens[i]
    BY UptoSums DEF Sums
  <1>6. Roomy(k, lens)
    BY RoomyIs
  <1>7. /\ r \in Seq(Nat) /\ Len(r) \in Nat
        /\ \A i \in 0..N : Len(k[i]) \in 0..Len(r) /\ Upto(r)[Len(k[i])] = u[i]
        /\ \A i \in 1..N : lens[i] # 0 => Len(k[i]) = Len(k[i - 1]) + 1
    BY <1>6 DEF Roomy
  <1>8. Iovs("pi", lens) = iov
    BY <1>1 DEF Iovs
  <1>9. DOMAIN iov = 1..(Len(r) + 1) /\ Len(iov) = Len(r) + 1
    <2> HIDE DEF r
    <2>1. QED
      BY <1>7
  <1> HIDE DEF r, u, k, N
  <1>10. \A j \in 0..Len(r) : v[j + 1] = 4 + Upto(r)[j]
    BY <1>7, UptoBehind
  <1>11. \A i \in 0..N : v[Len(k[i]) + 1] = 4 + u[i]
    BY <1>7, <1>10
  <1>12. Size(iov) = 4 + Size(lens) /\ Size(lens) \in Nat
    <2>1. N \in 0..N /\ Size(lens) = u[N] /\ r = k[N]
      BY <1>4 DEF Size, N, u, r
    <2>2. Size(iov) = v[Len(r) + 1]
      BY <1>9 DEF Size
    <2> HIDE DEF v
    <2>3. QED
      BY <1>5, <1>11, <2>1, <2>2
  <1> HIDE DEF iov
  <1>13. parts = [j \in 1..(Len(r) + 1) |->
                     SubSeq(data, v[j - 1] + 1, Least(v[j], 4 + L))]
    BY <1>3, <1>9 DEF Scatter
  <1> HIDE DEF parts, v
  <1>14. ASSUME NEW i \in 1..N
         PROVE  (IF lens[i] = 0 THEN <<>> ELSE parts[1 + Len(k[i])])
                    = SubSeq(pkt, u[i - 1] + 1, Least(u[i], L))
    <2>1. /\ i \in 0..N /\ i - 1 \in 0..N /\ u[i - 1] \in Nat /\ lens[i] \in Nat
          /\ u[i] = u[i - 1] + lens[i] /\ u[i] \in Nat
      BY <1>4, <1>5
    <2>2. CASE lens[i] = 0
      <3>1. Least(u[i], L) < u[i - 1] + 1 /\ Least(u[i], L) \in Int /\ u[i - 1] + 1 \in Int
        BY <1>3, <2>1, <2>2 DEF Least
      <3>2. SubSeq(pkt, u[i - 1] + 1, Least(u[i], L)) = <<>>
        BY <3>1, SubSeqEmpty
      <3>3. QED
        BY <2>2, <3>2
    <2>3. CASE lens[i] # 0
      <3> DEFINE j == Len(k[i]) + 1
      <3>1. /\ Len(k[i]) = Len(k[i - 1]) + 1 /\ Len(k[i]) \in 0..Len(r)
            /\ Len(k[i - 1]) \in 0..Len(r)
        BY <1>7, <2>1, <2>3
      <3>2. /\ j \in 1..(Len(r) + 1) /\ j - 1 = Len(k[i - 1]) + 1 /\ 1 + Len(k[i]) = j
        BY <1>7, <3>1
      <3>3. v[j] = 4 + u[i] /\ v[j - 1] = 4 + u[i - 1]
        BY <1>11, <2>1, <3>2
      <3> HIDE DEF j
      <3>4. parts[j] = SubSeq(data, v[j - 1] + 1, Least(v[j], 4 + L))
        BY <1>13, <3>2
      <3> DEFINE m == u[i - 1] + 1
                 n == Least(u[i], L)
      <3>5. m \in Nat \ {0} /\ n \in 0..L
        BY <1>3, <2>1 DEF Least
      <3>6. v[j - 1] + 1 = 4 + m /\ Least(v[j], 4 + L) = 4 + n
        BY <1>3, <2>1, <3>3 DEF Least
      <3> HIDE DEF m, n
      <3>7. parts[j] = SubSeq(data, 4 + m, 4 + n)
        BY <3>4, <3>6
      <3>8. SubSeq(data, 4 + m, 4 + n) = SubSeq(pkt, m, n)
        <4> HIDE DEF h
        <4>1. SubSeq(h \o pkt, Len(h) + m, Len(h) + n) = SubSeq(pkt, m, n)
          BY <1>2, <3>5, SubSeqBehind
        <4>2. QED
          BY <1>2, <4>1
      <3>9. QED
        BY <2>3, <3>2, <3>7, <3>8 DEF m, n
    <2>4. QED
      BY <2>2, <2>3
  <1>15. Behind("pi", parts, lens) = Scatter(pkt, lens)
    <2>1. Behind("pi", parts, lens) =
              [i \in 1..N |-> IF lens[i] = 0 THEN <<>> ELSE parts[1 + Len(k[i])]]
      <3>1. Behind("pi", parts, lens) =
                [i \in DOMAIN lens |-> IF lens[i] = 0 THEN <<>> ELSE parts[1 + Len(k[i])]]
        BY <1>1 DEF Behind, k
      <3>2. QED
        BY <1>4, <3>1
    <2>2. Scatter(pkt, lens) = [i \in 1..N |-> SubSeq(pkt, u[i - 1] + 1, Least(u[i], L))]
      BY <1>4 DEF Scatter, u
    <2>3. QED
      BY <1>14, <2>1, <2>2
  <1>16. Count("pi", Least(Size(iov), 4 + L)) = Least(Size(lens), L)
    BY <1>1, <1>3, <1>12 DEF Count, Least
  <1>17. Recv("pi", lens) = [n    |-> Count("pi", Least(Size(iov), 4 + L)),
                             bufs |-> Behind("pi", parts, lens)]
    <2>1. Len(data) = 4 + L
      BY <1>3
    <2>2. Recv("pi", lens) = [n    |-> Count("pi", Least(Size(iov), Len(data))),
                              bufs |-> Behind("pi", parts, lens)]
      <3> HIDE DEF h
      <3>1. Recv("pi", lens) = [n    |-> Count("pi", Least(Size(Iovs("pi", lens)), Len(data))),
                                bufs |-> Behind("pi", Scatter(data, Iovs("pi", lens)), lens)]
        <4>1. data = (IF Offset("pi") = 0 THEN <<>> ELSE PacketInformation(Head(rx["pi"])))
                         \o Head(rx["pi"])
          <5>1. Head(rx["pi"]) = pkt /\ Offset("pi") # 0
            BY <1>1
          <5>2. QED
            BY ONLY <5>1, Zenon DEF data, h
        <4> HIDE DEF data
        <4>2. QED
          BY <4>1 DEF Recv
      <3>2. QED
        BY <1>8, <3>1 DEF parts
    <2> HIDE DEF data
    <2>3. QED
      BY <2>1, <2>2
  <1>18. QED
    BY <1>15, <1>16, <1>17 DEF Filled
-----------------------------------------------------------------------------
(* What a write leaves in the kernel *)

(* The buffer that decides the header has the version of all the data. *)
LEMMA LeadingVersion ==
    ASSUME NEW bufs \in Seq(Seq(Byte))
    PROVE  /\ NonEmpty(bufs) = <<>> <=> FlattenSeq(bufs) = <<>>
           /\ FlattenSeq(bufs) # <<>> => Version(Leading(bufs)) = Version(FlattenSeq(bufs))
  <1> DEFINE q == NonEmpty(bufs)
             data == FlattenSeq(bufs)
  <1>1. /\ q \in Seq(Seq(Byte)) /\ FlattenSeq(q) = data
        /\ q # <<>> => Leading(bufs) # <<>>
    BY NonEmptyIs
  <1>2. Leading(bufs) = Head(q)
    BY DEF Leading
  <1> HIDE DEF q, data
  <1>3. q = <<>> => data = <<>>
    BY <1>1, FlattenNone
  <1>4. q # <<>> => data # <<>> /\ data[1] = q[1][1] /\ q[1] # <<>> /\ Leading(bufs) = q[1]
    BY <1>1, <1>2, FlattenHead
  <1>5. QED
    BY <1>3, <1>4 DEF Version, q, data

(* A write whose data the kernel takes is one message; any other leaves nothing. *)
Delivers(r, data) ==
    /\ r.ok \in BOOLEAN
    /\ ~r.ok \/ data = <<>> => r.took = <<>>
    /\ r.ok /\ data # <<>> =>
           r.took = <<[proto |-> IF layer = "L2" THEN 0 ELSE Version(data), data |-> data]>>

LEMMA DeliversWhen ==
    ASSUME NEW data
    PROVE  /\ Delivers(Refused, data)
           /\ data = <<>> => Delivers(Nothing, data)
           /\ data # <<>> =>
                 Delivers(Took(IF layer = "L2" THEN 0 ELSE Version(data), data), data)
  <1> DEFINE proto == IF layer = "L2" THEN 0 ELSE Version(data)
             m == <<[proto |-> proto, data |-> data]>>
  <1>1. Refused.ok = FALSE /\ Refused.took = <<>>
    BY DEF Refused
  <1>2. Nothing.ok = TRUE /\ Nothing.took = <<>>
    BY DEF Nothing
  <1>3. Took(proto, data).ok = TRUE /\ Took(proto, data).took = m
    BY DEF Took
  <1>4. Delivers(Refused, data)
    BY <1>1 DEF Delivers
  <1>5. data = <<>> => Delivers(Nothing, data)
    BY <1>2 DEF Delivers
  <1>6. data # <<>> => Delivers(Took(proto, data), data)
    BY <1>3 DEF Delivers
  <1>7. QED
    BY <1>4, <1>5, <1>6

LEMMA KernelPlainIs ==
    ASSUME NEW bufs \in Seq(Seq(Byte)), NEW v \in BOOLEAN, layer \in {"L2", "L3"}
    PROVE  /\ Delivers(KernelPlain(bufs, v), FlattenSeq(bufs))
           /\ layer = "L3" /\ FlattenSeq(bufs) # <<>> /\ Len(bufs) < IovMax =>
                 KernelPlain(bufs, v) = IF IsIp(FlattenSeq(bufs))
                                        THEN Took(Version(FlattenSeq(bufs)), FlattenSeq(bufs))
                                        ELSE Refused
  <1> DEFINE data == FlattenSeq(bufs)
             r == KernelPlain(bufs, v)
  <1>1. r = IF Len(bufs) > IovMax THEN Refused
            ELSE IF data = <<>> THEN (IF v THEN Nothing ELSE Refused)
            ELSE IF layer = "L2" THEN Took(0, data)
            ELSE IF IsIp(data) THEN Took(Version(data), data) ELSE Refused
    BY DEF KernelPlain
  <1> HIDE DEF data, r
  <1>2. \/ r = Refused
        \/ data = <<>> /\ r = Nothing
        \/ data # <<>> /\ layer = "L2" /\ r = Took(0, data)
        \/ data # <<>> /\ layer = "L3" /\ r = Took(Version(data), data)
    BY <1>1
  <1>3. Delivers(r, data)
    BY <1>2, DeliversWhen
  <1>4. Len(bufs) < IovMax => ~(Len(bufs) > IovMax)
    BY BoundsAssumption
  <1>5. QED
    BY <1>1, <1>3, <1>4 DEF data, r

LEMMA SendPi ==
    ASSUME NEW bufs \in Seq(Seq(Byte)), NEW v \in BOOLEAN, layer \in {"L2", "L3"}
    PROVE  /\ Delivers(Send("pi", bufs, v), FlattenSeq(bufs))
           /\ layer = "L3" /\ FlattenSeq(bufs) # <<>> /\ Len(bufs) < IovMax =>
                 Send("pi", bufs, v) = IF IsIp(FlattenSeq(bufs))
                                       THEN Took(Version(FlattenSeq(bufs)), FlattenSeq(bufs))
                                       ELSE Refused
  <1> DEFINE data == FlattenSeq(bufs)
             q == NonEmpty(bufs)
             lead == Leading(bufs)
             h == PacketInformation(lead)
             all == <<h>> \o q
             r == Send("pi", bufs, v)
             proto == IF layer = "L2" THEN 0 ELSE Version(data)
  <1>1. Offset("pi") # 0
    BY DEF Offset, PIL
  <1>2. r = IF q = <<>> THEN (IF v THEN Nothing ELSE Refused)
            ELSE IF ~IsIp(lead) THEN Refused ELSE KernelPi(all)
    BY <1>1 DEF Send
  <1>3. q \in Seq(Seq(Byte)) /\ Len(q) <= Len(bufs) /\ FlattenSeq(q) = data
    BY NonEmptyIs
  <1>4. (q = <<>> <=> data = <<>>) /\ (data # <<>> => Version(lead) = Version(data))
    BY LeadingVersion
  <1>5. h \in Seq(Byte)
    BY InformationIs
  <1>6. h[3] = IF Version(lead) = 6 THEN 134 ELSE 8
    BY DEF PacketInformation
  <1> HIDE DEF data, q, lead, h
  <1>7. Len(all) = Len(q) + 1 /\ Head(all) = h /\ Tail(all) = q
    <2> DEFINE X == Seq(Byte)
    <2>1. q \in Seq(X) /\ h \in X
      BY <1>3, <1>5
    <2> HIDE DEF X
    <2>2. Len(all) = Len(q) + 1 /\ Head(all) = h /\ all \in Seq(X)
      BY <2>1
    <2>3. Tail(all) = q
      BY <2>1, <2>2
    <2>4. QED
      BY <2>2, <2>3
  <1> HIDE DEF all
  <1>8. KernelPi(all) = IF Len(all) > IovMax THEN Refused
                        ELSE Took(IF layer = "L2" THEN 0 ELSE IF h[3] = 134 THEN 6 ELSE 4, data)
    BY <1>3, <1>7 DEF KernelPi
  <1>9. IsIp(lead) /\ data # <<>> =>
            (IF layer = "L2" THEN 0 ELSE IF h[3] = 134 THEN 6 ELSE 4) = proto
    BY <1>4, <1>6 DEF IsIp
  <1>10. Delivers(r, data)
    <2>1. \/ r = Refused
          \/ data = <<>> /\ r = Nothing
          \/ data # <<>> /\ r = Took(proto, data)
      <3> HIDE DEF r, proto
      <3>1. QED
        BY <1>2, <1>4, <1>8, <1>9
    <2> HIDE DEF r
    <2>2. QED
      BY <2>1, DeliversWhen
  <1>11. ASSUME layer = "L3", data # <<>>, Len(bufs) < IovMax
         PROVE  r = IF IsIp(data) THEN Took(Version(data), data) ELSE Refused
    <2>1. ~(Len(all) > IovMax)
      BY <1>3, <1>7, <1>11, BoundsAssumption
    <2>2. q # <<>> /\ (IsIp(lead) <=> IsIp(data)) /\ proto = Version(data)
      BY <1>4, <1>11 DEF IsIp
    <2> HIDE DEF r, proto
    <2>3. QED
      BY <1>2, <1>8, <1>9, <1>11, <2>1, <2>2
  <1>12. QED
    BY <1>10, <1>11 DEF data

LEMMA SendIs ==
    ASSUME NEW bufs \in Seq(Seq(Byte)), NEW v \in BOOLEAN, NEW d \in Posix,
           layer \in {"L2", "L3"}
    PROVE  /\ Delivers(Send(d, bufs, v), FlattenSeq(bufs))
           /\ layer = "L3" /\ FlattenSeq(bufs) # <<>> /\ Len(bufs) < IovMax =>
                 Send(d, bufs, v) = IF IsIp(FlattenSeq(bufs))
                                    THEN Took(Version(FlattenSeq(bufs)), FlattenSeq(bufs))
                                    ELSE Refused
  <1>1. CASE d = "pi"
    BY <1>1, SendPi
  <1>2. CASE d = "plain"
    <2>1. Send(d, bufs, v) = KernelPlain(bufs, v)
      BY <1>2 DEF Send, Offset
    <2>2. QED
      BY <2>1, KernelPlainIs
  <1>3. QED
    BY <1>1, <1>2 DEF Posix
-----------------------------------------------------------------------------
(* The inductive invariant *)

TypeOK ==
    /\ layer \in {"L2", "L3"}
    /\ rx \in [Devices -> Seq(Packets)]
    /\ dst \in Seq(Packets)

IInv == TypeOK /\ WritesArriveWhole

(* The packets that a write carries. *)
LEMMA PacketsIs ==
    /\ Packets \subseteq Seq(Byte)
    /\ <<>> \notin Packets
  BY PacketsAssumption DEF Byte

LEMMA PacketLists ==
    ASSUME NEW q \in Seq(Packets)
    PROVE  /\ q \in Seq(Seq(Byte))
           /\ q # <<>> => FlattenSeq(q) # <<>> /\ Version(FlattenSeq(q)) = Version(Head(q))
           /\ Len(q) = 1 => Decode(FlattenSeq(q)) = q
  <1>1. q \in Seq(Seq(Byte))
    BY PacketsIs
  <1>2. q # <<>> => q[1] \in Packets /\ Head(q) = q[1]
    OBVIOUS
  <1>3. q # <<>> => FlattenSeq(q) # <<>> /\ Version(FlattenSeq(q)) = Version(Head(q))
    <2> DEFINE data == FlattenSeq(q)
    <2>1. q # <<>> => q[1] # <<>>
      BY <1>2, PacketsIs
    <2>2. q # <<>> => data # <<>> /\ data[1] = q[1][1]
      BY <1>1, <2>1, FlattenHead
    <2> HIDE DEF data
    <2>3. QED
      BY <1>2, <2>1, <2>2 DEF Version, data
  <1>4. ASSUME Len(q) = 1
        PROVE  Decode(FlattenSeq(q)) = q
    <2>1. q = <<q[1]>> /\ q # <<>>
      BY <1>4
    <2>2. q[1] \in Seq(Byte) /\ q[1] # <<>>
      BY <1>2, <2>1, PacketsIs
    <2>3. FlattenSeq(<<q[1]>>) = q[1]
      BY <2>2, FlattenOne
    <2>4. FlattenSeq(q) = q[1]
      BY <2>1, <2>3
    <2>5. QED
      BY <2>1, <2>2, <2>4 DEF Decode
  <1>5. QED
    BY <1>1, <1>3, <1>4

(* Each action that writes gives the kernel the data of whole packets. *)
Carries(bufs, v, packets) ==
    /\ Write(bufs, v, packets)
    /\ bufs \in Seq(Seq(Byte)) /\ v \in BOOLEAN /\ packets \in Seq(Packets)
    /\ FlattenSeq(bufs) = FlattenSeq(packets)
    /\ dst' \in Seq(Packets)

LEMMA WritesCarry ==
    ASSUME TypeOK, WriteOne \/ WriteCut \/ WriteEmpty \/ Flush
    PROVE  \E bufs, v, packets : Carries(bufs, v, packets)
  <1>1. dst \in Seq(Packets)
    BY DEF TypeOK
  <1>2. \A p \in Packets : <<p>> \in Seq(Packets) /\ <<p>> \in Seq(Seq(Byte))
    BY PacketsIs
  <1>3. CASE WriteOne
    <2>1. PICK p \in Packets : Write(<<p>>, FALSE, <<p>>) /\ dst' = dst
      BY <1>3 DEF WriteOne
    <2>2. Carries(<<p>>, FALSE, <<p>>)
      BY <1>1, <1>2, <2>1 DEF Carries
    <2>3. QED
      BY <2>2
  <1>4. CASE WriteCut
    <2> DEFINE Cut(p, i, j) ==
                  /\ Write(<<SubSeq(p, 1, i), SubSeq(p, i + 1, j), SubSeq(p, j + 1, Len(p))>>,
                           TRUE, <<p>>)
                  /\ dst' = dst
    <2>p. PICK p \in Packets : \E i \in 0..Len(p) : \E j \in i..Len(p) : Cut(p, i, j)
      BY <1>4 DEF WriteCut
    <2>i. PICK i \in 0..Len(p) : \E j \in i..Len(p) : Cut(p, i, j)
      BY <2>p
    <2>1. PICK j \in i..Len(p) : Cut(p, i, j)
      BY <2>i
    <2> DEFINE L == Len(p)
               a == SubSeq(p, 1, i)
               b == SubSeq(p, i + 1, j)
               c == SubSeq(p, j + 1, L)
    <2>2. /\ p \in Seq(Byte) /\ L \in Nat /\ i \in Nat /\ j \in Nat /\ i <= j /\ j <= L
          /\ \A n \in 1..L : p[n] \in Byte
      BY PacketsIs
    <2>3. a \in Seq(Byte) /\ b \in Seq(Byte) /\ c \in Seq(Byte)
      <3>1. /\ \A n \in 1..i : p[n] \in Byte
            /\ \A n \in (i + 1)..j : p[n] \in Byte
            /\ \A n \in (j + 1)..L : p[n] \in Byte
        BY <2>2
      <3>2. i + 1 \in Int /\ j + 1 \in Int /\ i \in Int /\ j \in Int /\ L \in Int
        BY <2>2
      <3>3. QED
        BY <3>1, <3>2, SubSeqProperties
    <2>4. FlattenSeq(<<a, b, c>>) = (a \o b) \o c
      <3> HIDE DEF a, b, c
      <3>1. ThreeJoin(a, b, c)
        BY <2>3, FlattenThree
      <3>2. QED
        BY <3>1 DEF ThreeJoin
    <2>5. a \o b = SubSeq(p, 1, j)
      BY <2>2, SubSeqJoin
    <2>6. SubSeq(p, 1, j) \o c = SubSeq(p, 1, L)
      <3>1. j \in Nat /\ L \in j..Len(p)
        BY <2>2
      <3>2. QED
        BY <2>2, <3>1, SubSeqJoin
    <2>7. SubSeq(p, 1, L) = p
      BY <2>2
    <2>8. FlattenSeq(<<p>>) = p
      BY <2>2, FlattenOne
    <2>9. FlattenSeq(<<a, b, c>>) = FlattenSeq(<<p>>)
      BY <2>4, <2>5, <2>6, <2>7, <2>8
    <2>10. <<a, b, c>> \in Seq(Seq(Byte)) /\ Write(<<a, b, c>>, TRUE, <<p>>)
      <3>1. Write(<<a, b, c>>, TRUE, <<p>>)
        BY <2>1
      <3> DEFINE X == Seq(Byte)
      <3>2. a \in X /\ b \in X /\ c \in X
        BY <2>3
      <3> HIDE DEF a, b, c, X
      <3>3. <<a, b, c>> \in Seq(X)
        BY <3>2
      <3>4. QED
        BY <3>1, <3>3 DEF X
    <2> HIDE DEF a, b, c
    <2>11. Carries(<<a, b, c>>, TRUE, <<p>>)
      BY <1>1, <1>2, <2>1, <2>9, <2>10 DEF Carries
    <2>12. QED
      BY <2>11
  <1>5. CASE WriteEmpty
    <2>1. PICK v \in BOOLEAN : Write(<<<<>>>>, v, <<>>) /\ dst' = dst
      BY <1>5 DEF WriteEmpty
    <2>2. <<>> \in Seq(Byte) /\ <<>> \in Seq(Packets)
      OBVIOUS
    <2>3. <<<<>>>> \in Seq(Seq(Byte)) /\ FlattenSeq(<<<<>>>>) = FlattenSeq(<<>>)
      <3> DEFINE e == <<>>
      <3>1. e \in Seq(Byte) /\ FlattenSeq(<<>>) = e
        BY <2>2, FlattenNone
      <3> HIDE DEF e
      <3>2. <<e>> \in Seq(Seq(Byte)) /\ FlattenSeq(<<e>>) = e
        BY <3>1, FlattenOne
      <3>3. QED
        BY <3>1, <3>2 DEF e
    <2>4. Carries(<<<<>>>>, v, <<>>)
      BY <1>1, <2>1, <2>2, <2>3 DEF Carries
    <2>5. QED
      BY <2>4
  <1>6. CASE Flush
    <2>1. Write(<<FlattenSeq(dst)>>, FALSE, dst) /\ dst' = <<>>
      BY <1>6 DEF Flush
    <2> DEFINE data == FlattenSeq(dst)
    <2>2. data \in Seq(Byte)
      BY <1>1, PacketLists, FlattenType
    <2>3. FlattenSeq(<<data>>) = data
      BY <2>2, FlattenOne
    <2> HIDE DEF data
    <2>4. Write(<<data>>, FALSE, dst)
      BY <2>1 DEF data
    <2>5. <<data>> \in Seq(Seq(Byte)) /\ <<>> \in Seq(Packets)
      BY <2>2
    <2>6. Carries(<<data>>, FALSE, dst)
      BY <1>1, <2>1, <2>3, <2>4, <2>5 DEF Carries, data
    <2>7. QED
      BY <2>6
  <1>7. QED
    BY <1>3, <1>4, <1>5, <1>6

(* What arrives for the packets of a write is as WritesArriveWhole says. *)
LEMMA Arrives ==
    ASSUME NEW r, NEW packets \in Seq(Packets), Delivers(r, FlattenSeq(packets))
    PROVE  IF packets = <<>> \/ ~r.ok THEN r.took = <<>>
           ELSE /\ Len(r.took) = 1
                /\ r.took[1].data = FlattenSeq(packets)
                /\ layer = "L3" => r.took[1].proto = Version(Head(packets))
                /\ Len(packets) = 1 => Decode(r.took[1].data) = packets
  <1> DEFINE data == FlattenSeq(packets)
             proto == IF layer = "L2" THEN 0 ELSE Version(data)
  <1>1. CASE packets = <<>>
    BY <1>1, FlattenNone DEF Delivers
  <1>2. CASE ~r.ok
    BY <1>2 DEF Delivers
  <1>3. CASE packets # <<>> /\ r.ok
    <2>1. data # <<>> /\ Version(data) = Version(Head(packets))
      BY <1>3, PacketLists
    <2>2. r.took = <<[proto |-> proto, data |-> data]>>
      BY <1>3, <2>1 DEF Delivers
    <2>3. Len(packets) = 1 => Decode(data) = packets
      BY PacketLists
    <2>4. layer = "L3" => proto = Version(Head(packets))
      BY <2>1
    <2> HIDE DEF data, proto
    <2>5. Len(r.took) = 1 /\ r.took[1].data = data /\ r.took[1].proto = proto
      BY <2>2
    <2>6. QED
      BY <1>3, <2>3, <2>4, <2>5 DEF data
  <1>4. QED
    BY <1>1, <1>2, <1>3

LEMMA WriteKeeps ==
    ASSUME TypeOK, NEW bufs, NEW v, NEW packets, Carries(bufs, v, packets)
    PROVE  IInv'
  <1>1. layer' = layer /\ rx' = rx /\ written' = packets
        /\ tx' = [d \in Posix |-> Send(d, bufs, v).took]
        /\ ok' = [d \in Posix |-> Send(d, bufs, v).ok]
    BY DEF Carries, Write
  <1>2. ASSUME NEW d \in Posix
        PROVE  (IF written = <<>> \/ ~ok[d] THEN tx[d] = <<>>
                ELSE /\ Len(tx[d]) = 1
                     /\ tx[d][1].data = FlattenSeq(written)
                     /\ layer = "L3" => tx[d][1].proto = Version(Head(written))
                     /\ Len(written) = 1 => Decode(tx[d][1].data) = written)'
    <2> DEFINE r == Send(d, bufs, v)
    <2>1. Delivers(r, FlattenSeq(packets)) /\ packets \in Seq(Packets)
      BY SendIs DEF Carries, TypeOK
    <2>2. tx'[d] = r.took /\ ok'[d] = r.ok
      BY <1>1
    <2> HIDE DEF r
    <2>3. IF packets = <<>> \/ ~r.ok THEN r.took = <<>>
          ELSE /\ Len(r.took) = 1
               /\ r.took[1].data = FlattenSeq(packets)
               /\ layer = "L3" => r.took[1].proto = Version(Head(packets))
               /\ Len(packets) = 1 => Decode(r.took[1].data) = packets
      BY <2>1, Arrives
    <2>4. QED
      BY <1>1, <2>2, <2>3
  <1>3. WritesArriveWhole'
    BY <1>2 DEF WritesArriveWhole
  <1>4. TypeOK'
    BY <1>1 DEF TypeOK, Carries
  <1>5. QED
    BY <1>3, <1>4 DEF IInv
-----------------------------------------------------------------------------
(* Reads *)

LEMMA BufListsAre ==
    ASSUME NEW lens \in BufLists(Widths)
    PROVE  lens \in Seq(Nat)
  <1>1. PICK n \in 0..MaxBufs : lens \in [1..n -> Widths]
    BY DEF BufLists
  <1>2. n \in Nat /\ Widths \subseteq Nat
    BY BoundsAssumption
  <1>3. lens \in [1..n -> Nat]
    BY <1>1, <1>2
  <1>4. QED
    BY <1>2, <1>3

LEMMA SizeType ==
    ASSUME NEW lens \in Seq(Nat)
    PROVE  Size(lens) \in Nat
  <1>1. Len(lens) \in 0..Len(lens)
    OBVIOUS
  <1>2. QED
    BY <1>1, UptoSums DEF Sums, Size

(* Where there is room for a byte, and a place for the header, each device gives a packet. *)
LEMMA RoomTakes ==
    ASSUME NEW lens \in Seq(Nat), HasRoom(lens), NEW d \in Devices
    PROVE  Takes(d, lens)
  <1>1. Len(lens) < IovMax /\ Size(lens) > 0 /\ Len(lens) \in Nat /\ IovMax \in Nat
    BY BoundsAssumption DEF HasRoom
  <1>2. CASE d = "plain"
    <2>1. Iovs(d, lens) = lens
      BY <1>2 DEF Iovs, Offset
    <2>2. QED
      BY <1>1, <2>1 DEF Takes
  <1>3. CASE d = "pi"
    <2> DEFINE r == Without(lens, 0)[Len(lens)]
               t == <<4>> \o r
    <2>1. Iovs(d, lens) = t
      BY <1>3 DEF Iovs, Offset, PIL
    <2>2. r \in Seq(Nat) /\ Len(r) <= Len(lens)
      BY RoomyIs DEF Roomy
    <2> HIDE DEF r
    <2>3. t \in Seq(Nat) /\ Len(t) = Len(r) + 1 /\ Len(r) \in Nat
      BY <2>2
    <2>4. Size(t) > 0
      <3>1. Len(r) \in 0..Len(r)
        BY <2>3
      <3>2. Upto(t)[Len(r) + 1] = 4 + Upto(r)[Len(r)]
        BY <2>2, <3>1, UptoBehind
      <3>3. Upto(r)[Len(r)] \in Nat
        BY <2>2, <3>1, UptoSums DEF Sums
      <3> HIDE DEF t
      <3>4. Size(t) = Upto(t)[Len(r) + 1]
        BY <2>3 DEF Size
      <3>5. QED
        BY <3>2, <3>3, <3>4
    <2> HIDE DEF t
    <2>5. Len(t) \in 0..IovMax
      BY <1>1, <2>2, <2>3
    <2>6. QED
      BY <2>1, <2>4, <2>5 DEF Takes
  <1>4. CASE d = "wintun"
    BY <1>4 DEF Takes, Posix
  <1>5. QED
    BY <1>2, <1>3, <1>4 DEF Devices, Posix

(* A packet is taken whole, and the program gets what there is room for. *)
LEMMA ReadFills ==
    ASSUME TypeOK, NEW lens \in Seq(Nat), Read(lens), NEW d \in Devices, Takes(d, lens)
    PROVE  /\ Head(rx[d]) \in Packets
           /\ got'[d] = Filled(Head(rx[d]), lens)
           /\ rx'[d] = Tail(rx[d])
  <1> DEFINE pkt == Head(rx[d])
  <1>1. rx[d] \in Seq(Packets) /\ rx[d] # <<>>
    BY DEF TypeOK, Read
  <1>2. pkt \in Packets
    BY <1>1
  <1>3. pkt \in Seq(Byte)
    BY <1>2, PacketsIs
  <1>4. /\ got'[d] = IF d = "wintun" THEN Putv(pkt, lens) ELSE Recv(d, lens)
        /\ rx'[d] = Tail(rx[d])
    BY DEF Read
  <1>5. CASE d = "wintun"
    <2>1. Putv(pkt, lens) = Filled(pkt, lens)
      BY <1>3, PutvIs DEF Filled
    <2>2. QED
      BY <1>2, <1>4, <1>5, <2>1
  <1>6. CASE d = "plain"
    BY <1>2, <1>3, <1>4, <1>6, RecvPlain
  <1>7. CASE d = "pi"
    BY <1>2, <1>3, <1>4, <1>7, RecvPi
  <1>8. QED
    BY <1>5, <1>6, <1>7 DEF Devices, Posix

LEMMA ReadKeeps ==
    ASSUME IInv, NEW lens \in BufLists(Widths), Read(lens)
    PROVE  IInv'
  <1>1. /\ layer' = layer /\ dst' = dst /\ written' = <<>>
        /\ tx' = [d \in Posix |-> <<>>]
        /\ rx' = [d \in Devices |-> IF Takes(d, lens) THEN Tail(rx[d]) ELSE rx[d]]
        /\ \A d \in Devices : rx[d] # <<>>
    BY DEF Read
  <1>2. \A d \in Devices : rx[d] \in Seq(Packets) /\ Tail(rx[d]) \in Seq(Packets)
    BY <1>1 DEF IInv, TypeOK
  <1>3. TypeOK'
    BY <1>1, <1>2 DEF IInv, TypeOK
  <1>4. WritesArriveWhole'
    BY <1>1 DEF WritesArriveWhole
  <1>5. QED
    BY <1>3, <1>4 DEF IInv

LEMMA Initially == Init => IInv
  <1> SUFFICES ASSUME Init
               PROVE  IInv
    OBVIOUS
  <1>1. PICK q \in UNION {[1..n -> Packets] : n \in 0..MaxQueue} :
            rx = [d \in Devices |-> q]
    BY DEF Init
  <1>2. q \in Seq(Packets)
    BY <1>1, BoundsAssumption
  <1>3. TypeOK
    BY <1>1, <1>2 DEF Init, TypeOK
  <1>4. WritesArriveWhole
    BY DEF Init, WritesArriveWhole
  <1>5. QED
    BY <1>3, <1>4 DEF IInv

LEMMA Inductive == IInv /\ [Next]_vars => IInv'
  <1> SUFFICES ASSUME IInv, [Next]_vars
               PROVE  IInv'
    OBVIOUS
  <1>1. ASSUME NEW lens \in BufLists(Widths), Read(lens)
        PROVE  IInv'
    BY <1>1, ReadKeeps
  <1>2. CASE WriteOne \/ WriteCut \/ WriteEmpty \/ Flush
    <2>1. TypeOK
      BY DEF IInv
    <2>2. PICK bufs, v, packets : Carries(bufs, v, packets)
      BY <1>2, <2>1, WritesCarry
    <2>3. QED
      BY <2>1, <2>2, WriteKeeps
  <1>3. CASE Encode
    <2>1. PICK p \in Packets : /\ dst' = Append(dst, p)
                               /\ UNCHANGED <<layer, rx, call, written, got, tx, ok>>
      BY <1>3 DEF Encode
    <2>2. TypeOK'
      BY <2>1 DEF IInv, TypeOK
    <2>3. WritesArriveWhole'
      BY <2>1 DEF IInv, WritesArriveWhole
    <2>4. QED
      BY <2>2, <2>3 DEF IInv
  <1>4. CASE UNCHANGED vars
    BY <1>4 DEF IInv, TypeOK, WritesArriveWhole, vars
  <1>5. QED
    BY <1>1, <1>2, <1>3, <1>4 DEF Next

LEMMA Invariance == Spec => []IInv
  <1>1. QED
    BY Initially, Inductive, PTL DEF Spec

-----------------------------------------------------------------------------

(* Every write that returned Ok is one message of the kernel with all of its   *)
(* data, under the protocol of the packet, however the packet was cut into     *)
(* buffers (split.rs:149-179), and the codec gives each packet back            *)
(* (codec.rs:33-52).                                                           *)
THEOREM Writes == Spec => []WritesArriveWhole
  <1>1. IInv => WritesArriveWhole
    BY DEF IInv
  <1>2. QED
    BY <1>1, Invariance, PTL

(* Every read that takes a packet gives its beginning, in the order of the     *)
(* buffers and without the header, whether the kernel scatters it or the loop  *)
(* of putv does (split.rs:76-117, utils.rs:32-49).                             *)
THEOREM Reads == Spec => ReadsGiveThePacket
  <1> DEFINE Gives ==
                \A d \in Devices : rx'[d] # rx[d] =>
                    /\ got'[d].n = Least(Size(call'), Len(Head(rx[d])))
                    /\ FlattenSeq(got'[d].bufs) = SubSeq(Head(rx[d]), 1, got'[d].n)
                    /\ \A i \in DOMAIN call' : Len(got'[d].bufs[i]) <= call'[i]
  <1>1. IInv /\ [Next]_vars => [Gives]_vars
    <2> SUFFICES ASSUME IInv, [Next]_vars, vars' # vars, NEW d \in Devices, rx'[d] # rx[d]
                 PROVE  /\ got'[d].n = Least(Size(call'), Len(Head(rx[d])))
                        /\ FlattenSeq(got'[d].bufs) = SubSeq(Head(rx[d]), 1, got'[d].n)
                        /\ \A i \in DOMAIN call' : Len(got'[d].bufs[i]) <= call'[i]
      OBVIOUS
    <2>1. ASSUME NEW lens \in BufLists(Widths), Read(lens)
          PROVE  /\ got'[d].n = Least(Size(call'), Len(Head(rx[d])))
                 /\ FlattenSeq(got'[d].bufs) = SubSeq(Head(rx[d]), 1, got'[d].n)
                 /\ \A i \in DOMAIN call' : Len(got'[d].bufs[i]) <= call'[i]
      <3> DEFINE pkt == Head(rx[d])
      <3>1. Takes(d, lens) /\ call' = lens
        BY <2>1 DEF Read
      <3>2. lens \in Seq(Nat) /\ TypeOK
        BY BufListsAre DEF IInv
      <3>3. pkt \in Packets /\ got'[d] = Filled(pkt, lens)
        BY <2>1, <3>1, <3>2, ReadFills
      <3>4. pkt \in Seq(Byte)
        BY <3>3, PacketsIs
      <3>5. Scattered(Scatter(pkt, lens), pkt, lens, Byte)
        BY <3>2, <3>4, ScatterIs
      <3>6. got'[d].n = Least(Size(lens), Len(pkt)) /\ got'[d].bufs = Scatter(pkt, lens)
        BY <3>3 DEF Filled
      <3>7. DOMAIN lens = 1..Len(lens)
        BY <3>2
      <3>8. QED
        BY <3>1, <3>5, <3>6, <3>7 DEF Scattered
    <2>2. CASE WriteOne \/ WriteCut \/ WriteEmpty \/ Flush \/ Encode
      BY <2>2 DEF WriteOne, WriteCut, WriteEmpty, Flush, Encode, Write
    <2>3. QED
      BY <2>1, <2>2 DEF Next
  <1>2. QED
    BY <1>1, Invariance, PTL DEF Spec, ReadsGiveThePacket

(* A program cannot see packet information: the same calls return the same on  *)
(* both devices, and leave the same to be read and to be sent                  *)
(* (linux/mod.rs:52), where there is room for a byte and for the header, and   *)
(* no write to an L2 device.                                                   *)
THEOREM Invisible == Spec => PacketInformationInvisible
  <1> DEFINE Same == SameOnBoth /\ HasRoom(call') /\ (layer = "L3" \/ rx' # rx)
                        => SameOnBoth'
  <1>1. IInv /\ [Next]_vars => [Same]_vars
    <2> SUFFICES ASSUME IInv, [Next]_vars, vars' # vars,
                        SameOnBoth, HasRoom(call'), layer = "L3" \/ rx' # rx
                 PROVE  SameOnBoth'
      OBVIOUS
    <2>1. TypeOK /\ {"plain", "pi"} \subseteq Devices /\ {"plain", "pi"} \subseteq Posix
      BY DEF IInv, Devices, Posix
    <2>2. ASSUME NEW lens \in BufLists(Widths), Read(lens)
          PROVE  SameOnBoth'
      <3>1. /\ call' = lens
            /\ tx' = [d \in Posix |-> <<>>] /\ ok' = [d \in Posix |-> TRUE]
        BY <2>2 DEF Read
      <3>2. lens \in Seq(Nat)
        BY BufListsAre
      <3>3. Takes("plain", lens) /\ Takes("pi", lens)
        BY <2>1, <3>1, <3>2, RoomTakes
      <3>4. /\ got'["plain"] = Filled(Head(rx["plain"]), lens)
            /\ rx'["plain"] = Tail(rx["plain"])
        BY <2>1, <2>2, <3>2, <3>3, ReadFills
      <3>5. /\ got'["pi"] = Filled(Head(rx["pi"]), lens)
            /\ rx'["pi"] = Tail(rx["pi"])
        BY <2>1, <2>2, <3>2, <3>3, ReadFills
      <3>6. QED
        BY <2>1, <3>1, <3>4, <3>5 DEF SameOnBoth
    <2>3. CASE WriteOne \/ WriteCut \/ WriteEmpty \/ Flush
      <3>1. PICK bufs, v, packets : Carries(bufs, v, packets)
        BY <2>1, <2>3, WritesCarry
      <3> DEFINE data == FlattenSeq(bufs)
                 lens == [i \in DOMAIN bufs |-> Len(bufs[i])]
      <3>2. bufs \in Seq(Seq(Byte)) /\ v \in BOOLEAN
        BY <3>1 DEF Carries
      <3>3. /\ call' = lens /\ rx' = rx
            /\ tx' = [d \in Posix |-> Send(d, bufs, v).took]
            /\ ok' = [d \in Posix |-> Send(d, bufs, v).ok]
            /\ got' = [d \in Devices |-> NoData(<<>>)]
        BY <3>1 DEF Carries, Write
      <3>4. Size(lens) = Len(data) /\ data \in Seq(Byte)
        BY <3>2, SizeIsLen, FlattenType
      <3>5. Len(lens) = Len(bufs)
        <4>1. DOMAIN lens = 1..Len(bufs) /\ Len(bufs) \in Nat /\ lens \in Seq(Nat)
          BY <3>2, SizeIsLen
        <4> HIDE DEF lens
        <4>2. QED
          BY <4>1
      <3> HIDE DEF lens, data
      <3>6. layer = "L3" /\ data # <<>> /\ Len(bufs) < IovMax
        BY <3>3, <3>4, <3>5 DEF HasRoom
      <3>7. Send("pi", bufs, v) = Send("plain", bufs, v)
        BY <2>1, <3>2, <3>6, SendIs DEF data
      <3>8. QED
        BY <2>1, <3>3, <3>7 DEF SameOnBoth
    <2>4. CASE Encode
      BY <2>4 DEF Encode, SameOnBoth
    <2>5. QED
      BY <2>2, <2>3, <2>4 DEF Next
  <1>2. QED
    BY <1>1, Invariance, PTL DEF Spec, PacketInformationInvisible

=============================================================================
