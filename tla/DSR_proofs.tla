----------------------------- MODULE DSR_proofs -----------------------------
(***************************************************************************)
(* Proofs about DSR, for every network, every course of failures, losses   *)
(* and expiries, and every choice of selfish nodes.                        *)
(***************************************************************************)
EXTENDS DSR, FiniteSetTheorems, SequenceTheorems, WellFoundedInduction, TLAPS

LEMMA LeastNat ==
    ASSUME NEW T, T \subseteq Nat, T # {}
    PROVE  \E x \in T : \A y \in T : x <= y
<1> DEFINE R == OpToRel(<, Nat)
<1>1. IsWellFoundedOn(R, Nat)
  BY NatLessThanWellFounded
<1>2. \A x, y \in Nat : x < y => <<x, y>> \in R
  BY DEF OpToRel
<1> HIDE DEF R
<1>3. PICK x \in T : \A y \in T : ~ (<<y, x>> \in R)
  BY <1>1, WFMin
<1>4. ASSUME NEW y \in T PROVE x <= y
  <2>1. x \in Nat /\ y \in Nat
    OBVIOUS
  <2>2. ~ (y < x)
    BY <1>2, <1>3, <2>1
  <2> QED
    BY <2>1, <2>2
<1> QED
  BY <1>4

LEMMA MinOfNats ==
    ASSUME NEW T, T \subseteq Nat, T # {}
    PROVE  Min(T) \in T /\ \A y \in T : Min(T) <= y
BY LeastNat DEF Min

LEMMA MaxOfNats ==
    ASSUME NEW k \in Nat, NEW T, T \subseteq 1..k, T # {}
    PROVE  Max(T) \in T /\ \A y \in T : y <= Max(T)
<1> DEFINE U == {k - x : x \in T}
<1>1. \A x \in T : x \in Nat /\ k - x \in Nat
  OBVIOUS
<1>2. PICK u \in U : \A y \in U : u <= y
  <2>1. U \subseteq Nat /\ U # {}
    BY <1>1
  <2> HIDE DEF U
  <2> QED
    BY <2>1, LeastNat
<1>3. PICK x \in T : u = k - x
  BY <1>2
<1>4. ASSUME NEW y \in T PROVE x >= y
  <2>1. k - x <= k - y
    BY <1>2, <1>3
  <2> QED
    BY <1>1, <2>1
<1>5. \E z \in T : \A y \in T : z >= y
  BY <1>4
<1>6. Max(T) \in T /\ \A y \in T : Max(T) >= y
  BY <1>5 DEF Max
<1> QED
  BY <1>6

-----------------------------------------------------------------------------
(* Routes of the cache *)

\* A source route of n: it begins there, passes no node twice and is not too long.
Way(r, n) == r \in Seq(Node) /\ r[1] = n /\ Simple(r) /\ Len(r) \in 2..MAX_SR_LEN

\* A part of a simple sequence is simple.
LEMMA PartIsSimple ==
    ASSUME NEW r \in Seq(Node), Simple(r), NEW j \in 1..Len(r), NEW k \in j..Len(r)
    PROVE  /\ SubSeq(r, j, k) \in Seq(Node) /\ Simple(SubSeq(r, j, k))
           /\ Len(SubSeq(r, j, k)) = k - j + 1
           /\ \A i \in 1..(k - j + 1) : SubSeq(r, j, k)[i] = r[j + i - 1]
<1> DEFINE t == SubSeq(r, j, k)
<1>1. Len(r) \in Nat /\ j \in Int /\ k \in Int /\ j <= k
  BY LenProperties
<1>2. \A i \in j..k : r[i] \in Node
  BY <1>1, ElementOfSeq
<1>3. /\ t \in Seq(Node) /\ Len(t) = k - j + 1
      /\ \A i \in 1..(k - j + 1) : t[i] = r[j + i - 1]
  BY <1>1, <1>2, SubSeqProperties
<1> HIDE DEF t
<1>4. ASSUME NEW x \in 1..Len(t), NEW y \in 1..Len(t), t[x] = t[y]
      PROVE  x = y
  <2>1. j + x - 1 \in 1..Len(r) /\ j + y - 1 \in 1..Len(r)
    BY <1>1, <1>3
  <2>2. r[j + x - 1] = r[j + y - 1]
    BY <1>3, <1>4
  <2>3. j + x - 1 = j + y - 1
    BY <2>1, <2>2 DEF Simple
  <2> QED
    BY <1>1, <2>3
<1> QED
  BY <1>3, <1>4 DEF Simple, t

LEMMA BeginningIsWay ==
    ASSUME NEW n, NEW r, Way(r, n), NEW k \in 2..Len(r)
    PROVE  /\ Way(SubSeq(r, 1, k), n) /\ Len(SubSeq(r, 1, k)) = k
           /\ SubSeq(r, 1, k)[k] = r[k]
<1>1. MAX_SR_LEN \in Nat /\ Len(r) \in Nat /\ k \in 1..Len(r) /\ 1 \in 1..Len(r)
  BY LenProperties, DSRAssumption DEF Way
<1>2. /\ SubSeq(r, 1, k) \in Seq(Node) /\ Simple(SubSeq(r, 1, k))
      /\ Len(SubSeq(r, 1, k)) = k - 1 + 1
      /\ \A i \in 1..(k - 1 + 1) : SubSeq(r, 1, k)[i] = r[1 + i - 1]
  BY <1>1, PartIsSimple DEF Way
<1> QED
  BY <1>1, <1>2 DEF Way

LEMMA WaysToOK ==
    ASSUME NEW s, NEW n, NEW d, d # n, \A r \in s.cache : Way(r, n), NEW r \in RoutesTo(s, d)
    PROVE  Way(r, n) /\ r[Len(r)] = d
<1>1. PICK r0 \in s.cache : /\ Contains(r0, d)
                            /\ r = SubSeq(r0, 1, SelectInSeq(r0, LAMBDA x : x = d))
  BY DEF RoutesTo
<1> DEFINE I == {i \in 1..Len(r0) : r0[i] = d}
           k == Min(I)
<1>2. Way(r0, n) /\ Len(r0) \in Nat
  BY LenProperties DEF Way
<1>3. I \subseteq Nat /\ I # {}
  BY <1>1, <1>2 DEF Contains
<1>4. k \in I
  BY <1>3, MinOfNats
<1>5. r = SubSeq(r0, 1, k)
  BY <1>1, <1>3 DEF SelectInSeq
<1> HIDE DEF k
<1>6. k \in 2..Len(r0) /\ r0[k] = d
  BY <1>2, <1>4 DEF Way
<1> QED
  BY <1>2, <1>5, <1>6, BeginningIsWay

LEMMA findRouteOK ==
    ASSUME NEW s, NEW n, NEW d, d # n, \A r \in s.cache : Way(r, n), RoutesTo(s, d) # {}
    PROVE  Way(findRoute(s, d), n) /\ findRoute(s, d)[Len(findRoute(s, d))] = d
<1> DEFINE L == {Len(r) : r \in RoutesTo(s, d)}
<1>1. \A r \in RoutesTo(s, d) : Len(r) \in Nat
  BY WaysToOK, LenProperties DEF Way
<1>2. L \subseteq Nat /\ L # {}
  BY <1>1
<1>3. PICK l \in L : \A y \in L : l <= y
  BY <1>2, LeastNat
<1>4. PICK r \in RoutesTo(s, d) : Len(r) = l
  BY <1>3
<1>5. \A o \in RoutesTo(s, d) : Len(r) <= Len(o)
  BY <1>3, <1>4
<1>6. findRoute(s, d) \in RoutesTo(s, d)
  BY <1>5 DEF findRoute
<1> QED
  BY <1>6, WaysToOK

-----------------------------------------------------------------------------
(* Double backs *)

\* What follows the last occurrence of the node at i.
After(r, i) == SelectLastInSeq(r, LAMBDA x : x = r[i]) + 1

LEMMA AfterOK ==
    ASSUME NEW r \in Seq(Node), NEW i \in 1..Len(r)
    PROVE  /\ After(r, i) \in (i + 1)..(Len(r) + 1)
           /\ \A j \in After(r, i)..Len(r) : r[j] # r[i]
<1> DEFINE I == {j \in 1..Len(r) : r[j] = r[i]}
<1>1. Len(r) \in Nat
  BY LenProperties
<1>2. I \subseteq 1..Len(r) /\ i \in I
  OBVIOUS
<1>3. Max(I) \in I /\ \A y \in I : y <= Max(I)
  <2> HIDE DEF I
  <2> QED
    BY <1>1, <1>2, MaxOfNats
<1>4. After(r, i) = Max(I) + 1
  BY <1>2 DEF After, SelectLastInSeq
<1> DEFINE m == Max(I)
<1>5. m \in 1..Len(r) /\ i <= m /\ \A y \in I : y <= m
  BY <1>2, <1>3
<1> HIDE DEF m
<1>6. ASSUME NEW j \in (m + 1)..Len(r) PROVE r[j] # r[i]
  <2>1. j \in 1..Len(r) /\ ~ (j <= m)
    BY <1>1, <1>5
  <2> QED
    BY <1>5, <2>1
<1> QED
  BY <1>1, <1>4, <1>5, <1>6 DEF m

From(r) ==
    CHOOSE from : from = [i \in 1..Len(r) + 1 |->
        IF i > Len(r) THEN <<>> ELSE <<r[i]>> \o from[After(r, i)]]

LEMMA FromExists ==
    ASSUME NEW r \in Seq(Node)
    PROVE  LET from == From(r)
           IN  from = [i \in 1..Len(r) + 1 |->
                         IF i > Len(r) THEN <<>> ELSE <<r[i]>> \o from[After(r, i)]]
<1> DEFINE L == Len(r)
           put(i, t) == IF i > L THEN <<>> ELSE <<r[i]>> \o t
           val(f, i) == put(i, f[After(r, i)])
           Downto(k, f) == f = [i \in (L + 1 - k)..(L + 1) |-> val(f, i)]
           T == {k \in 0..L : ~ \E f : Downto(k, f)}
<1>1. L \in Nat /\ \A i \in 1..L : After(r, i) \in (i + 1)..(L + 1)
  BY LenProperties, AfterOK
<1>a. \A t : put(L + 1, t) = <<>>
  BY <1>1
<1>b. \A f, h, i : i = L + 1 => val(f, i) = val(h, i)
  BY <1>a
<1> HIDE DEF L, put
<1>2. T = {}
  <2> SUFFICES ASSUME T # {} PROVE FALSE
    OBVIOUS
  <2>1. T \subseteq Nat
    BY <1>1
  <2>a. PICK k \in T : \A j \in T : k <= j
    <3> HIDE DEF T
    <3> QED
      BY <2>1, LeastNat
  <2>2. k # 0
    <3> SUFFICES ASSUME k = 0 PROVE FALSE
      OBVIOUS
    <3> DEFINE f == [i \in (L + 1)..(L + 1) |-> <<>>]
    <3>1. \A i \in (L + 1)..(L + 1) : val(f, i) = <<>>
      BY <1>1, <1>a
    <3>2. L + 1 - 0 = L + 1
      BY <1>1
    <3>3. f = [i \in (L + 1)..(L + 1) |-> val(f, i)]
      BY <3>1
    <3>4. Downto(0, f)
      BY <3>2, <3>3
    <3> QED
      BY <3>4
  <2>3. k \in 1..L /\ k - 1 \in 0..L /\ k - 1 \notin T
    <3>1. k \in 0..L
      OBVIOUS
    <3> HIDE DEF T
    <3> QED
      BY <1>1, <2>1, <2>a, <2>2, <3>1
  <2>4. PICK f : Downto(k - 1, f)
    BY <2>3
  <2> DEFINE x == L + 1 - k
             g == [i \in x..(L + 1) |-> IF i = x THEN val(f, x) ELSE f[i]]
  <2>5. x \in 1..L /\ L + 1 - (k - 1) = x + 1
    BY <1>1, <2>3
  <2>6. \A i \in (x + 1)..(L + 1) : f[i] = val(f, i)
    BY <2>4, <2>5
  <2>7. \A i \in (x + 1)..(L + 1) : g[i] = f[i]
    BY <1>1, <2>5
  <2>8. ASSUME NEW i \in x..(L + 1)
        PROVE  val(g, i) = val(f, i)
    <3>1. CASE i = L + 1
      BY <1>b, <3>1
    <3>2. CASE i # L + 1
      <4>1. i \in 1..L
        BY <1>1, <2>5, <3>2
      <4>2. After(r, i) \in (x + 1)..(L + 1)
        BY <1>1, <2>5, <4>1
      <4>3. g[After(r, i)] = f[After(r, i)]
        BY <2>7, <4>2
      <4> QED
        BY <4>3
    <3> QED
      BY <3>1, <3>2
  <2>9. ASSUME NEW i \in x..(L + 1)
        PROVE  g[i] = val(g, i)
    <3>1. CASE i = x
      BY <2>8, <3>1
    <3>2. CASE i # x
      <4>1. i \in (x + 1)..(L + 1)
        BY <1>1, <2>5, <3>2
      <4> QED
        BY <2>6, <2>7, <2>8, <4>1
    <3> QED
      BY <3>1, <3>2
  <2>10. g = [i \in x..(L + 1) |-> g[i]]
    OBVIOUS
  <2> HIDE DEF g
  <2>11. Downto(k, g)
    BY <2>9, <2>10
  <2> QED
    BY <2>3, <2>11
<1>3. \E f : Downto(L, f)
  <2>1. L \in 0..L
    BY <1>1
  <2>2. L \notin T
    BY <1>2
  <2> HIDE DEF Downto
  <2> QED
    BY <2>1, <2>2
<1>4. L + 1 - L = 1
  BY <1>1
<1>5. \E f : f = [i \in 1..(L + 1) |-> val(f, i)]
  BY <1>3, <1>4
<1>6. From(r) = CHOOSE f : f = [i \in 1..(L + 1) |-> val(f, i)]
  BY DEF From, L, put
<1> QED
  BY <1>5, <1>6 DEF L, put

LEMMA FromOK ==
    ASSUME NEW r \in Seq(Node), NEW i \in 1..Len(r) + 1
    PROVE  /\ From(r)[i] \in Seq(Node) /\ Len(From(r)[i]) <= Len(r) + 1 - i
           /\ \A x \in 1..Len(From(r)[i]) : \E j \in i..Len(r) : From(r)[i][x] = r[j]
           /\ Simple(From(r)[i])
<1> DEFINE from == From(r)
           L == Len(r)
           OK(k) == LET f == from[k]
                    IN  /\ f \in Seq(Node) /\ Len(f) <= L + 1 - k
                        /\ \A x \in 1..Len(f) : \E j \in k..L : f[x] = r[j]
                        /\ Simple(f)
           T == {k \in 0..L : ~OK(L + 1 - k)}
<1>1. L \in Nat
  BY LenProperties
<1>2. \A k \in 1..L + 1 : from[k] = IF k > L THEN <<>> ELSE <<r[k]>> \o from[After(r, k)]
  BY FromExists
<1> HIDE DEF from, L
<1>3. ASSUME NEW k \in 1..L, OK(After(r, k))
      PROVE  OK(k)
  <2> DEFINE f == from[k]
             g == from[After(r, k)]
  <2>1. f = <<r[k]>> \o g /\ g \in Seq(Node) /\ Len(g) \in Nat
    <3>1. k \in 1..L + 1 /\ ~ (k > L)
      BY <1>1
    <3>2. f = <<r[k]>> \o g
      BY <1>2, <3>1
    <3>3. g \in Seq(Node)
      BY <1>3
    <3> HIDE DEF f, g
    <3> QED
      BY <3>2, <3>3, LenProperties
  <2>2. After(r, k) \in (k + 1)..(L + 1) /\ \A j \in After(r, k)..L : r[j] # r[k]
    BY AfterOK DEF L
  <2>3. <<r[k]>> \in Seq(Node) /\ Len(<<r[k]>>) = 1 /\ <<r[k]>>[1] = r[k] /\ r[k] \in Node
    BY ElementOfSeq DEF L
  <2>4. /\ f \in Seq(Node) /\ Len(f) = 1 + Len(g)
        /\ f[1] = r[k] /\ \A x \in 2..(1 + Len(g)) : f[x] = g[x - 1]
    <3> HIDE DEF f, g
    <3>1. /\ <<r[k]>> \o g \in Seq(Node) /\ Len(<<r[k]>> \o g) = 1 + Len(g)
          /\ \A x \in 1..(1 + Len(g)) : (<<r[k]>> \o g)[x] =
                 IF x <= 1 THEN <<r[k]>>[x] ELSE g[x - 1]
      BY <2>1, <2>3, ConcatProperties
    <3> QED
      BY <2>1, <2>3, <3>1
  <2>5. /\ Len(g) <= L + 1 - After(r, k) /\ Simple(g)
        /\ \A x \in 1..Len(g) : \E j \in After(r, k)..L : g[x] = r[j]
    BY <1>3
  <2>6. \A x \in 1..Len(g) : g[x] # r[k]
    BY <2>2, <2>5
  <2> HIDE DEF f, g
  <2>7. Len(f) <= L + 1 - k
    BY <1>1, <2>1, <2>2, <2>4, <2>5
  <2>8. ASSUME NEW x \in 1..Len(f)
        PROVE  \E j \in k..L : f[x] = r[j]
    <3>1. CASE x = 1
      BY <1>1, <2>4, <3>1
    <3>2. CASE x # 1
      <4>1. x - 1 \in 1..Len(g) /\ f[x] = g[x - 1]
        BY <2>1, <2>4, <3>2
      <4>2. PICK j \in After(r, k)..L : g[x - 1] = r[j]
        BY <2>5, <4>1
      <4>3. j \in k..L
        BY <1>1, <2>2, <4>2
      <4> QED
        BY <4>1, <4>2, <4>3
    <3> QED
      BY <3>1, <3>2
  <2>9. ASSUME NEW x \in 1..Len(f), NEW y \in 1..Len(f), f[x] = f[y]
        PROVE  x = y
    <3>1. CASE x = 1 /\ y = 1
      BY <3>1
    <3>2. CASE x = 1 /\ y # 1
      BY <2>1, <2>4, <2>6, <2>9, <3>2
    <3>3. CASE x # 1 /\ y = 1
      BY <2>1, <2>4, <2>6, <2>9, <3>3
    <3>4. CASE x # 1 /\ y # 1
      <4>1. x - 1 \in 1..Len(g) /\ y - 1 \in 1..Len(g) /\ g[x - 1] = g[y - 1]
        BY <2>1, <2>4, <2>9, <3>4
      <4>2. x - 1 = y - 1
        BY <2>5, <4>1 DEF Simple
      <4> QED
        BY <2>1, <2>4, <4>2
    <3> QED
      BY <3>1, <3>2, <3>3, <3>4
  <2> QED
    BY <2>4, <2>7, <2>8, <2>9 DEF Simple, f
<1>4. OK(L + 1)
  <2>1. from[L + 1] = <<>>
    <3>1. L + 1 \in 1..L + 1 /\ L + 1 > L
      BY <1>1
    <3> QED
      BY <1>2, <3>1
  <2>2. <<>> \in Seq(Node) /\ Len(<<>>) = 0
    BY EmptySeq
  <2> QED
    BY <1>1, <2>1, <2>2 DEF Simple
<1> HIDE DEF OK
<1>5. ASSUME T # {} PROVE FALSE
  <2>1. T \subseteq Nat
    BY <1>1
  <2>a. PICK k \in T : \A j \in T : k <= j
    <3> HIDE DEF T
    <3> QED
      BY <1>5, <2>1, LeastNat
  <2>2. k \in 0..L /\ ~OK(L + 1 - k)
    OBVIOUS
  <2>3. k # 0
    BY <1>1, <1>4, <2>2
  <2>4. L + 1 - k \in 1..L
    BY <1>1, <2>2, <2>3
  <2> DEFINE j == After(r, L + 1 - k)
  <2>5. j \in (L + 1 - k + 1)..(L + 1)
    BY <2>4, AfterOK DEF L
  <2> HIDE DEF j
  <2>6. L + 1 - j \in 0..L /\ L + 1 - j < k /\ L + 1 - (L + 1 - j) = j
    BY <1>1, <2>2, <2>5
  <2>7. L + 1 - j \notin T
    <3> HIDE DEF T
    <3> QED
      BY <2>1, <2>2, <2>a, <2>6, <1>1
  <2>8. OK(j)
    BY <2>6, <2>7
  <2> QED
    BY <1>3, <2>2, <2>4, <2>8 DEF j
<1>6. L + 1 - i \in 0..L /\ L + 1 - (L + 1 - i) = i
  BY <1>1 DEF L
<1>7. OK(i)
  BY <1>5, <1>6
<1> QED
  BY <1>7 DEF OK, from, L

LEMMA compressPathOK ==
    ASSUME NEW r \in Seq(Node)
    PROVE  /\ compressPath(r) \in Seq(Node) /\ Len(compressPath(r)) <= Len(r)
           /\ Simple(compressPath(r))
<1>1. compressPath(r) = From(r)[1]
  BY DEF compressPath, From, After
<1>2. 1 \in 1..Len(r) + 1 /\ Len(r) \in Nat
  BY LenProperties
<1>3. From(r)[1] \in Seq(Node) /\ Len(From(r)[1]) <= Len(r) + 1 - 1 /\ Simple(From(r)[1])
  BY <1>2, FromOK
<1> QED
  BY <1>1, <1>2, <1>3, LenProperties

-----------------------------------------------------------------------------
(* The inductive invariant *)

Error == [down : Node \X Node, tell : Node]

\* Packets whose data, if any, is in D.
Header(D) ==
    [src : Node, dst : Node, data : D \cup {None}, route : Seq(Node), at : Nat,
     salvaged : 0..dsr_salvage_max_attempts, request : Nat, prop : Nat,
     reply : Seq(Node), errors : Seq(Error)]

\* What a packet carries.  Data packets have their source in the header, route errors and
\* requests carry no data, and requests no reply.  A route error is on its way to the node
\* that the last of its errors is told to, and after it goes to another node.
LoadOK(p) ==
    /\ Len(p.errors) <= MAX_ROUTE_ERRORS
    /\ p.data # None => p.src = p.data.src
    /\ p.errors # <<>> \/ p.request > 0 => p.data = None
    /\ p.request > 0 => Len(p.errors) <= 1 /\ p.reply = <<>>
    /\ p.request = 0 =>
           /\ p.errors # <<>> => p.dst = Last(p.errors).tell
           /\ \A i \in 1..Len(p.errors) - 1 : p.errors[i].tell # p.errors[i + 1].tell

PacketOK(p, D) ==
    /\ p \in Header(D) /\ LoadOK(p)
    /\ Simple(p.reply) /\ Len(p.reply) <= MAX_SR_LEN

\* A packet that n may give a source route.
Waits(p, n, D) == PacketOK(p, D) /\ p.request = 0 /\ p.dst # n

\* A request that n sends, and a packet on its way from n to m.
Asks(p, n) ==
    /\ p.request > 0 /\ p.route # <<>> /\ Last(p.route) = n /\ p.route[1] = p.src
    /\ ~Contains(p.route, p.dst)
Travels(p, n, m) ==
    /\ p.request = 0 /\ p.at \in 2..Len(p.route)
    /\ p.route[p.at - 1] = n /\ p.route[p.at] = m /\ Last(p.route) = p.dst

FrameOK(f, n, D) ==
    /\ f = [to |-> f.to, pkt |-> f.pkt, heard |-> f.heard]
    /\ PacketOK(f.pkt, D) /\ Simple(f.pkt.route) /\ Len(f.pkt.route) <= MAX_SR_LEN
    /\ \/ f.to = MAC_BROADCAST /\ Asks(f.pkt, n)
       \/ f.to \in Node /\ Travels(f.pkt, n, f.to)

IsAgent(s) ==
    s = [cache |-> s.cache, seen |-> s.seen, asked |-> s.asked, number |-> s.number,
         held |-> s.held, buf |-> s.buf, ifq |-> s.ifq]

Asked == [count : 0..15, type : {"LIMIT0", "UNLIMIT"}, phase : {"fresh", "silent", "ready"}]

\* The next number of a request of o; N has those of the agents other than n.
Number(s, n, N, o) == IF o = n THEN s.number ELSE N[o]

WaysOK(s, n) == \A r \in s.cache : Way(r, n)
SeenOK(s, n, N) ==
    /\ N \in [Node -> Nat] /\ s.seen \in [Node -> Nat]
    /\ \A o \in Node : s.seen[o] < Number(s, n, N, o)
AskedOK(s) == s.asked \in [Node -> Asked] /\ s.number \in Nat \ {0} /\ s.held \in Error \cup {None}
BufferOK(s, n, D) ==
    /\ s.buf \in Seq(Header(D)) /\ Len(s.buf) <= SEND_BUF_SIZE
    /\ \A i \in 1..Len(s.buf) : Waits(s.buf[i], n, D)
FramesOK(s, n, D, N) ==
    /\ IsFiniteSet(s.ifq)
    /\ \A f \in s.ifq : FrameOK(f, n, D) /\ f.pkt.request < Number(s, n, N, f.pkt.src)

\* The agent of n, if all data that it keeps is in D.
AgentOK(s, n, D, N) ==
    /\ IsAgent(s) /\ WaysOK(s, n) /\ SeenOK(s, n, N) /\ AskedOK(s)
    /\ BufferOK(s, n, D) /\ FramesOK(s, n, D, N)

Numbers == [o \in Node |-> agent[o].number]

IInv ==
    /\ DOMAIN agent = Node
    /\ \A n \in Node : AgentOK(agent[n], n, begun, Numbers)
    /\ begun \subseteq Flow /\ link \subseteq Links /\ selfish \subseteq Egoist
    /\ deaf \in Nat /\ Faults <= MaxFaults
    /\ taken \subseteq begun \X Node

-----------------------------------------------------------------------------
(* Sending *)

LEMMA PositiveNumber ==
    ASSUME NEW s, NEW n, NEW D, NEW N, AgentOK(s, n, D, N), NEW o \in Node
    PROVE  Number(s, n, N, o) \in Nat \ {0}
<1>1. s.number \in Nat /\ N[o] \in Nat /\ s.seen[o] \in Nat
  BY DEF AgentOK, SeenOK, AskedOK
<1>2. s.seen[o] < Number(s, n, N, o)
  BY DEF AgentOK, SeenOK
<1> QED
  BY <1>1, <1>2 DEF Number

Queued(s, f) == [s EXCEPT !.ifq = @ \cup {f}]

LEMMA FrameAdded ==
    ASSUME NEW s, NEW n, NEW D, NEW N, AgentOK(s, n, D, N),
           NEW f, FrameOK(f, n, D), f.pkt.request < Number(s, n, N, f.pkt.src)
    PROVE  AgentOK(Queued(s, f), n, D, N) /\ Queued(s, f).number = s.number
<1> DEFINE t == Queued(s, f)
<1>0. IsAgent(s)
  BY DEF AgentOK
<1>1. /\ IsAgent(t) /\ t.ifq = s.ifq \cup {f}
      /\ t.cache = s.cache /\ t.seen = s.seen /\ t.asked = s.asked /\ t.number = s.number
      /\ t.held = s.held /\ t.buf = s.buf
  BY <1>0 DEF IsAgent, Queued
<1> HIDE DEF t
<1>2. FramesOK(t, n, D, N)
  <2>1. IsFiniteSet(t.ifq)
    BY <1>1, FS_AddElement DEF AgentOK, FramesOK
  <2> QED
    BY <1>1, <2>1 DEF AgentOK, FramesOK, Number
<1>3. WaysOK(t, n) /\ SeenOK(t, n, N) /\ AskedOK(t) /\ BufferOK(t, n, D)
  BY <1>1 DEF AgentOK, WaysOK, SeenOK, AskedOK, BufferOK, Number
<1>4. AgentOK(t, n, D, N)
  BY <1>1, <1>2, <1>3 DEF AgentOK
<1> QED
  BY <1>1, <1>4 DEF t

\* A packet with another route is the same packet otherwise.
Along(p, r) == [p EXCEPT !.route = r, !.at = 1]

LEMMA RouteChanged ==
    ASSUME NEW D, NEW p, PacketOK(p, D), NEW r \in Seq(Node)
    PROVE  LET q == Along(p, r) IN
           /\ PacketOK(q, D) /\ q.route = r /\ q.at = 1
           /\ q.src = p.src /\ q.dst = p.dst /\ q.data = p.data /\ q.request = p.request
<1> DEFINE q == Along(p, r)
<1>1. p \in Header(D)
  BY DEF PacketOK
<1>2. /\ q \in Header(D) /\ q.route = r /\ q.at = 1
      /\ q.src = p.src /\ q.dst = p.dst /\ q.data = p.data /\ q.request = p.request
      /\ q.reply = p.reply /\ q.errors = p.errors
  BY <1>1 DEF Header, Along
<1> HIDE DEF q
<1>3. LoadOK(q)
  BY <1>2 DEF PacketOK, LoadOK
<1>4. PacketOK(q, D)
  BY <1>2, <1>3 DEF PacketOK
<1> QED
  BY <1>2, <1>4 DEF q

LEMMA PlaceChanged ==
    ASSUME NEW D, NEW p, PacketOK(p, D), NEW i \in Nat, NEW q, q = [p EXCEPT !.at = i]
    PROVE  /\ PacketOK(q, D) /\ q.at = i /\ q.route = p.route
           /\ q.src = p.src /\ q.dst = p.dst /\ q.data = p.data /\ q.request = p.request
<1>1. p \in Header(D)
  BY DEF PacketOK
<1>2. /\ q \in Header(D) /\ q.route = p.route /\ q.at = i
      /\ q.src = p.src /\ q.dst = p.dst /\ q.data = p.data /\ q.request = p.request
      /\ q.reply = p.reply /\ q.errors = p.errors
  BY <1>1 DEF Header
<1>3. LoadOK(q)
  BY <1>2 DEF PacketOK, LoadOK
<1> QED
  BY <1>2, <1>3 DEF PacketOK

LEMMA sendOutUnicast ==
    ASSUME NEW s, NEW n \in Node, NEW D, NEW N, AgentOK(s, n, D, N),
           NEW p, PacketOK(p, D), p.request = 0,
           Simple(p.route), Len(p.route) <= MAX_SR_LEN, p.at \in 1..Len(p.route) - 1,
           p.route[p.at] = n, Last(p.route) = p.dst
    PROVE  LET t == sendOutPacketWithRoute(s, n, p)
           IN  AgentOK(t, n, D, N) /\ t.number = s.number
<1>0. PICK q : q = [p EXCEPT !.at = @ + 1]
  OBVIOUS
<1> DEFINE f == [to |-> p.route[q.at], pkt |-> q, heard |-> FALSE]
<1>1. p \in Header(D) /\ p.route \in Seq(Node) /\ Len(p.route) \in Nat /\ p.src \in Node
  BY LenProperties DEF PacketOK, Header
<1>2. /\ PacketOK(q, D) /\ q.at = p.at + 1 /\ q.route = p.route
      /\ q.src = p.src /\ q.dst = p.dst /\ q.data = p.data /\ q.request = p.request
  <2>1. p.at + 1 \in Nat
    BY <1>1 DEF Header
  <2>2. q = [p EXCEPT !.at = p.at + 1]
    BY <1>0
  <2> QED
    BY <2>1, <2>2, PlaceChanged
<1>4. q.at \in 2..Len(q.route) /\ q.at - 1 = p.at /\ q.at \in 1..Len(p.route)
  BY <1>1, <1>2
<1>5. p.route[q.at] \in Node
  BY <1>1, <1>4, ElementOfSeq
<1>6. Travels(q, n, p.route[q.at])
  BY <1>2, <1>4 DEF Travels
<1>7. FrameOK(f, n, D)
  BY <1>2, <1>5, <1>6 DEF FrameOK
<1>8. f.pkt.request < Number(s, n, N, f.pkt.src)
  BY <1>1, <1>2, PositiveNumber
<1>9. sendOutPacketWithRoute(s, n, p) = Queued(s, f)
  BY <1>0 DEF sendOutPacketWithRoute, Queued
<1> HIDE DEF f
<1> QED
  BY <1>7, <1>8, <1>9, FrameAdded

LEMMA SendAlongOK ==
    ASSUME NEW s, NEW n \in Node, NEW D, NEW N, AgentOK(s, n, D, N),
           NEW p, Waits(p, n, D), NEW r, Way(r, n), r[Len(r)] = p.dst
    PROVE  LET t == SendAlong(s, n, p, r)
           IN  AgentOK(t, n, D, N) /\ t.number = s.number
<1> DEFINE q == Along(p, r)
<1>1. /\ PacketOK(q, D) /\ q.route = r /\ q.at = 1 /\ q.dst = p.dst /\ q.request = 0
  BY RouteChanged DEF Waits, Way
<1>2. SendAlong(s, n, p, r) = sendOutPacketWithRoute(s, n, q)
  BY DEF SendAlong, Along
<1> HIDE DEF q
<1>3. Len(r) \in 2..MAX_SR_LEN /\ MAX_SR_LEN \in Nat /\ Simple(r) /\ r[1] = n
  BY DSRAssumption DEF Way
<1>4. 1 \in 1..Len(r) - 1 /\ Len(r) <= MAX_SR_LEN /\ Last(r) = p.dst
  BY <1>3 DEF Last
<1> QED
  BY <1>1, <1>2, <1>3, <1>4, sendOutUnicast

LEMMA RouteKnown ==
    ASSUME NEW s, NEW n \in Node, NEW D, NEW N, AgentOK(s, n, D, N),
           NEW p, Waits(p, n, D), RoutesTo(s, p.dst) # {}
    PROVE  LET t == SendAlong(s, n, p, findRoute(s, p.dst))
           IN  AgentOK(t, n, D, N) /\ t.number = s.number
<1>1. \A r \in s.cache : Way(r, n)
  BY DEF AgentOK, WaysOK
<1>2. Way(findRoute(s, p.dst), n) /\ findRoute(s, p.dst)[Len(findRoute(s, p.dst))] = p.dst
  BY <1>1, findRouteOK DEF Waits
<1> QED
  BY <1>2, SendAlongOK

LEMMA NewPacketOK ==
    ASSUME NEW D, NEW src \in Node, NEW dst \in Node, NEW data \in D \cup {None},
           data # None => src = data.src
    PROVE  LET p == NewPacket(src, dst, data)
           IN  /\ PacketOK(p, D) /\ p.request = 0 /\ p.dst = dst /\ p.src = src /\ p.data = data
               /\ p.errors = <<>> /\ p.reply = <<>> /\ p.route = <<>>
<1> DEFINE p == NewPacket(src, dst, data)
<1>1. <<>> \in Seq(Node) /\ <<>> \in Seq(Error) /\ Len(<<>>) = 0
  BY EmptySeq
<1>2. dsr_salvage_max_attempts \in Nat /\ MAX_SR_LEN \in Nat /\ MAX_ROUTE_ERRORS \in Nat
  BY DSRAssumption
<1>3. p \in Header(D)
  BY <1>1, <1>2 DEF NewPacket, Header
<1>4. /\ p.request = 0 /\ p.dst = dst /\ p.src = src /\ p.data = data
      /\ p.errors = <<>> /\ p.reply = <<>> /\ p.route = <<>>
  BY DEF NewPacket
<1>5. LoadOK(p)
  BY <1>1, <1>2, <1>4 DEF LoadOK
<1>6. Simple(p.reply) /\ Len(p.reply) <= MAX_SR_LEN
  BY <1>1, <1>2, <1>4 DEF Simple
<1> QED
  BY <1>3, <1>4, <1>5, <1>6 DEF PacketOK

\* Requests go out with a new number.
LEMMA sendOutRtReqOK ==
    ASSUME NEW s, NEW n \in Node, NEW D, NEW N, AgentOK(s, n, D, N),
           NEW d \in Node \ {n}, NEW max_prop \in Nat
    PROVE  LET t == sendOutRtReq(s, n, d, max_prop)
           IN  AgentOK(t, n, D, N) /\ t.number = s.number + 1
<1> DEFINE errors == IF s.held = None THEN <<>> ELSE <<s.held>>
           rrp == [NewPacket(n, d, None) EXCEPT !.request = s.number, !.prop = max_prop,
                                             !.route = <<n>>, !.errors = errors]
           held == IF max_prop > 0 THEN None ELSE s.held
           number == s.number + 1
           v == [s EXCEPT !.number = number]
           u == [v EXCEPT !.held = held]
           f == [to |-> MAC_BROADCAST, pkt |-> rrp, heard |-> FALSE]
<1>1. sendOutRtReq(s, n, d, max_prop) = Queued(u, f)
  <2>1. rrp.request = s.number
    BY DEF NewPacket
  <2>2. s.number > 0
    BY DEF AgentOK, AskedOK
  <2> QED
    BY <2>1, <2>2 DEF sendOutRtReq, sendOutPacketWithRoute, Queued
<1>2. s.number \in Nat \ {0} /\ s.held \in Error \cup {None}
  BY DEF AgentOK, AskedOK
<1>3. errors \in Seq(Error) /\ Len(errors) <= 1 /\ Len(errors) \in Nat
  BY <1>2, EmptySeq
<1>4. <<n>> \in Seq(Node) /\ Len(<<n>>) = 1 /\ <<n>>[1] = n /\ <<n>> # <<>>
  OBVIOUS
<1>5. MAX_SR_LEN \in Nat \ {0} /\ MAX_ROUTE_ERRORS \in Nat \ {0}
  BY DSRAssumption
<1>6. /\ NewPacket(n, d, None) \in Header(D) /\ NewPacket(n, d, None).reply = <<>>
      /\ NewPacket(n, d, None).src = n /\ NewPacket(n, d, None).dst = d
      /\ NewPacket(n, d, None).data = None
  BY NewPacketOK DEF PacketOK
<1> HIDE DEF errors
<1>7. /\ rrp \in Header(D) /\ rrp.request = s.number /\ rrp.route = <<n>>
      /\ rrp.errors = errors /\ rrp.reply = <<>> /\ rrp.src = n /\ rrp.dst = d
      /\ rrp.data = None
  BY <1>2, <1>3, <1>4, <1>6 DEF Header
<1> HIDE DEF rrp, held
<1>8. LoadOK(rrp)
  BY <1>2, <1>3, <1>5, <1>7 DEF LoadOK
<1>9. PacketOK(rrp, D) /\ Simple(rrp.route) /\ Len(rrp.route) <= MAX_SR_LEN
  BY <1>4, <1>5, <1>7, <1>8 DEF PacketOK, Simple
<1>10. Asks(rrp, n)
  BY <1>2, <1>4, <1>7 DEF Asks, Last, Contains
<1>11. FrameOK(f, n, D)
  BY <1>9, <1>10 DEF FrameOK
<1>12. /\ IsAgent(u) /\ u.number = number /\ u.held = held
       /\ u.cache = s.cache /\ u.seen = s.seen /\ u.asked = s.asked
       /\ u.buf = s.buf /\ u.ifq = s.ifq
  <2>1. IsAgent(s)
    BY DEF AgentOK
  <2> HIDE DEF number
  <2>2. /\ IsAgent(v) /\ v.number = number
        /\ v.cache = s.cache /\ v.seen = s.seen /\ v.asked = s.asked
        /\ v.buf = s.buf /\ v.ifq = s.ifq
    BY <2>1 DEF IsAgent
  <2> HIDE DEF v
  <2> QED
    BY <2>2 DEF IsAgent
<1> HIDE DEF u
<1>13. u.number \in Nat \ {0} /\ held \in Error \cup {None} /\ u.number > s.number
  BY <1>2, <1>12 DEF held
<1>14. \A o \in Node : Number(u, n, N, o) >= Number(s, n, N, o)
  BY <1>2, <1>13, PositiveNumber DEF Number
<1>15. AgentOK(u, n, D, N)
  <2>1. SeenOK(u, n, N)
    <3>1. N \in [Node -> Nat] /\ s.seen \in [Node -> Nat]
      BY DEF AgentOK, SeenOK
    <3>2. \A o \in Node : s.seen[o] < Number(u, n, N, o)
      BY <1>2, <1>13, <1>14, <3>1 DEF AgentOK, SeenOK, Number
    <3> QED
      BY <1>12, <3>1, <3>2 DEF SeenOK
  <2>2. FramesOK(u, n, D, N)
    <3>1. ASSUME NEW g \in s.ifq
          PROVE  g.pkt.request < Number(u, n, N, g.pkt.src)
      <4>1. g.pkt.src \in Node /\ g.pkt.request \in Nat
        BY DEF AgentOK, FramesOK, FrameOK, PacketOK, Header
      <4>2. g.pkt.request < Number(s, n, N, g.pkt.src)
        BY DEF AgentOK, FramesOK
      <4>3. Number(s, n, N, g.pkt.src) \in Nat /\ N[g.pkt.src] \in Nat
        BY <4>1, PositiveNumber DEF AgentOK, SeenOK
      <4> QED
        BY <1>2, <1>13, <4>1, <4>2, <4>3 DEF Number
    <3> QED
      BY <1>12, <3>1 DEF AgentOK, FramesOK
  <2>3. WaysOK(u, n) /\ AskedOK(u) /\ BufferOK(u, n, D)
    BY <1>12, <1>13 DEF AgentOK, WaysOK, AskedOK, BufferOK
  <2> QED
    BY <1>12, <2>1, <2>2, <2>3 DEF AgentOK
<1>16. f.pkt.request < Number(u, n, N, f.pkt.src)
  BY <1>2, <1>7, <1>12 DEF Number
<1> HIDE DEF f
<1> QED
  BY <1>1, <1>11, <1>12, <1>15, <1>16, FrameAdded

LEMMA BufferChanged ==
    ASSUME NEW s, NEW n, NEW D, NEW N, AgentOK(s, n, D, N),
           NEW b \in Seq(Header(D)), Len(b) <= SEND_BUF_SIZE, \A i \in 1..Len(b) : Waits(b[i], n, D)
    PROVE  LET t == [s EXCEPT !.buf = b] IN AgentOK(t, n, D, N) /\ t.number = s.number
<1> DEFINE t == [s EXCEPT !.buf = b]
<1>0. IsAgent(s)
  BY DEF AgentOK
<1>1. /\ IsAgent(t) /\ t.buf = b
      /\ t.cache = s.cache /\ t.seen = s.seen /\ t.asked = s.asked /\ t.number = s.number
      /\ t.held = s.held /\ t.ifq = s.ifq
  BY <1>0 DEF IsAgent
<1> HIDE DEF t
<1>2. /\ WaysOK(t, n) /\ SeenOK(t, n, N) /\ AskedOK(t) /\ BufferOK(t, n, D)
      /\ FramesOK(t, n, D, N)
  BY <1>1 DEF AgentOK, WaysOK, SeenOK, AskedOK, BufferOK, FramesOK, Number
<1>3. AgentOK(t, n, D, N)
  BY <1>1, <1>2 DEF AgentOK
<1> QED
  BY <1>1, <1>3 DEF t

LEMMA stickOK ==
    ASSUME NEW s, NEW n \in Node, NEW D, NEW N, AgentOK(s, n, D, N), NEW p, Waits(p, n, D)
    PROVE  LET t == stickPacketInSendBuffer(s, p)
           IN  AgentOK(t, n, D, N) /\ t.number = s.number
<1> DEFINE rest == IF Len(s.buf) = SEND_BUF_SIZE THEN Tail(s.buf) ELSE s.buf
           q == Along(p, <<>>)
           b == Append(rest, q)
<1>1. Waits(q, n, D) /\ q \in Header(D)
  <2>1. PacketOK(p, D) /\ <<>> \in Seq(Node)
    BY EmptySeq DEF Waits
  <2>2. PacketOK(q, D) /\ q.request = p.request /\ q.dst = p.dst
    BY <2>1, RouteChanged
  <2> HIDE DEF q
  <2> QED
    BY <2>2 DEF Waits, PacketOK
<1>2. /\ s.buf \in Seq(Header(D)) /\ Len(s.buf) <= SEND_BUF_SIZE /\ Len(s.buf) \in Nat
      /\ \A i \in 1..Len(s.buf) : Waits(s.buf[i], n, D)
      /\ SEND_BUF_SIZE \in Nat \ {0}
  BY LenProperties, DSRAssumption DEF AgentOK, BufferOK
<1>3. /\ rest \in Seq(Header(D)) /\ Len(rest) < SEND_BUF_SIZE /\ Len(rest) \in Nat
      /\ \A i \in 1..Len(rest) : Waits(rest[i], n, D)
  <2>1. CASE Len(s.buf) = SEND_BUF_SIZE
    <3>1. s.buf # <<>>
      BY <1>2, <2>1, EmptySeq
    <3>2. /\ Tail(s.buf) \in Seq(Header(D)) /\ Len(Tail(s.buf)) = Len(s.buf) - 1
          /\ \A i \in 1..Len(Tail(s.buf)) : Tail(s.buf)[i] = s.buf[i + 1]
      BY <1>2, <3>1, HeadTailProperties
    <3>3. \A i \in 1..Len(Tail(s.buf)) : i + 1 \in 1..Len(s.buf)
      BY <1>2, <3>2
    <3> QED
      BY <1>2, <2>1, <3>2, <3>3
  <2>2. CASE Len(s.buf) # SEND_BUF_SIZE
    BY <1>2, <2>2
  <2> QED
    BY <2>1, <2>2
<1>4. stickPacketInSendBuffer(s, p) = [s EXCEPT !.buf = b]
  BY DEF stickPacketInSendBuffer, Along
<1> HIDE DEF q, rest
<1>5. /\ b \in Seq(Header(D)) /\ Len(b) = Len(rest) + 1
      /\ \A i \in 1..Len(rest) : b[i] = rest[i]
      /\ b[Len(rest) + 1] = q
  BY <1>1, <1>3, AppendProperties
<1> HIDE DEF b
<1>6. \A i \in 1..Len(b) : Waits(b[i], n, D)
  <2> SUFFICES ASSUME NEW i \in 1..Len(b) PROVE Waits(b[i], n, D)
    OBVIOUS
  <2>1. i \in 1..Len(rest) \/ i = Len(rest) + 1
    BY <1>3, <1>5
  <2> QED
    BY <1>1, <1>3, <1>5, <2>1
<1>7. Len(b) <= SEND_BUF_SIZE
  BY <1>2, <1>3, <1>5
<1> QED
  BY <1>4, <1>5, <1>6, <1>7, BufferChanged

-----------------------------------------------------------------------------
(* The request table and the send buffer *)

LEMMA AskedChanged ==
    ASSUME NEW s, NEW n, NEW D, NEW N, AgentOK(s, n, D, N), NEW a \in [Node -> Asked]
    PROVE  LET t == [s EXCEPT !.asked = a] IN AgentOK(t, n, D, N) /\ t.number = s.number
<1> DEFINE t == [s EXCEPT !.asked = a]
<1>0. IsAgent(s)
  BY DEF AgentOK
<1>1. /\ IsAgent(t) /\ t.asked = a
      /\ t.cache = s.cache /\ t.seen = s.seen /\ t.number = s.number
      /\ t.held = s.held /\ t.buf = s.buf /\ t.ifq = s.ifq
  BY <1>0 DEF IsAgent
<1> HIDE DEF t
<1>2. /\ WaysOK(t, n) /\ SeenOK(t, n, N) /\ AskedOK(t) /\ BufferOK(t, n, D)
      /\ FramesOK(t, n, D, N)
  BY <1>1 DEF AgentOK, WaysOK, SeenOK, AskedOK, BufferOK, FramesOK, Number
<1>3. AgentOK(t, n, D, N)
  BY <1>1, <1>2 DEF AgentOK
<1> QED
  BY <1>1, <1>3 DEF t

LEMMA BackedOK ==
    ASSUME NEW s, NEW n, NEW D, NEW N, AgentOK(s, n, D, N), NEW d \in Node,
           NEW type \in {"LIMIT0", "UNLIMIT"}, NEW phase \in {"fresh", "silent", "ready"}
    PROVE  LET t == Backed(s, d, type, phase) IN AgentOK(t, n, D, N) /\ t.number = s.number
<1> DEFINE c == s.asked[d].count
           e == [count |-> IF c < 15 THEN c + 1 ELSE c, type |-> type, phase |-> phase]
           a == [s.asked EXCEPT ![d] = e]
<1>1. s.asked \in [Node -> Asked] /\ IsAgent(s)
  BY DEF AgentOK, AskedOK
<1>2. e \in Asked
  <2>1. c \in 0..15
    BY <1>1 DEF Asked
  <2> HIDE DEF c
  <2> QED
    BY <2>1 DEF Asked
<1>3. Backed(s, d, type, phase) = [s EXCEPT !.asked = a]
  BY DEF Backed
<1> HIDE DEF e
<1>4. a \in [Node -> Asked]
  BY <1>1, <1>2
<1> HIDE DEF a
<1> QED
  BY <1>3, <1>4, AskedChanged

LEMMA getRouteOK ==
    ASSUME NEW s, NEW n \in Node, NEW D, NEW N, AgentOK(s, n, D, N),
           NEW p, p.dst \in Node \ {n}
    PROVE  LET t == getRouteForPacket(s, n, p)
           IN  AgentOK(t, n, D, N) /\ t.number >= s.number
<1> DEFINE e == s.asked[p.dst]
           t == getRouteForPacket(s, n, p)
<1>1. s.asked \in [Node -> Asked] /\ s.number \in Nat /\ e \in Asked
  BY DEF AgentOK, AskedOK
<1>2. MAX_SR_LEN \in Nat
  BY DSRAssumption
<1>3. CASE GivesUp(s, n, p)
  <2>1. t = Backed(s, p.dst, e.type, "silent")
    BY <1>3 DEF getRouteForPacket
  <2>2. e.type \in {"LIMIT0", "UNLIMIT"}
    BY <1>1 DEF Asked
  <2> HIDE DEF e, t
  <2>3. AgentOK(t, n, D, N) /\ t.number = s.number
    BY <2>1, <2>2, BackedOK
  <2> QED
    BY <1>1, <2>3 DEF t
<1>4. CASE ~GivesUp(s, n, p) /\ BackOffTest(s, p.dst)
  <2> DEFINE u == Backed(s, p.dst, "LIMIT0", "fresh")
  <2>1. t = sendOutRtReq(u, n, p.dst, 0)
    BY <1>4 DEF getRouteForPacket
  <2>2. AgentOK(u, n, D, N) /\ u.number = s.number
    BY BackedOK
  <2> HIDE DEF u, t
  <2>3. AgentOK(t, n, D, N) /\ t.number = u.number + 1
    BY <2>1, <2>2, sendOutRtReqOK
  <2> QED
    BY <1>1, <2>2, <2>3 DEF t
<1>5. CASE /\ ~GivesUp(s, n, p) /\ ~BackOffTest(s, p.dst)
           /\ e.type = "LIMIT0" /\ e.phase = "silent" /\ p.src = n
  <2> DEFINE a == [s.asked EXCEPT ![p.dst] = [e EXCEPT !.type = "UNLIMIT"]]
             u == [s EXCEPT !.asked = a]
  <2>1. t = sendOutRtReq(u, n, p.dst, MAX_SR_LEN)
    BY <1>5 DEF getRouteForPacket
  <2>2. [e EXCEPT !.type = "UNLIMIT"] \in Asked
    <3> HIDE DEF e
    <3> QED
      BY <1>1 DEF Asked
  <2>3. a \in [Node -> Asked]
    BY <1>1, <2>2
  <2> HIDE DEF a
  <2>4. AgentOK(u, n, D, N) /\ u.number = s.number
    BY <2>3, AskedChanged
  <2> HIDE DEF u, t
  <2>5. AgentOK(t, n, D, N) /\ t.number = u.number + 1
    BY <1>2, <2>1, <2>4, sendOutRtReqOK
  <2> QED
    BY <1>1, <2>4, <2>5 DEF t
<1>6. CASE /\ ~GivesUp(s, n, p) /\ ~BackOffTest(s, p.dst)
           /\ ~ (e.type = "LIMIT0" /\ e.phase = "silent" /\ p.src = n)
  <2>1. t = s
    BY <1>6 DEF getRouteForPacket
  <2> QED
    BY <1>1, <2>1
<1> QED
  BY <1>3, <1>4, <1>5, <1>6

LEMMA handlePktWithoutSROK ==
    ASSUME NEW s, NEW n \in Node, NEW D, NEW N, AgentOK(s, n, D, N), NEW p, Waits(p, n, D)
    PROVE  LET t == handlePktWithoutSR(s, n, p)
           IN  AgentOK(t, n, D, N) /\ t.number >= s.number
<1> DEFINE t == handlePktWithoutSR(s, n, p)
<1>1. s.number \in Nat /\ p.dst \in Node \ {n}
  BY DEF AgentOK, AskedOK, Waits, PacketOK, Header
<1>2. CASE RoutesTo(s, p.dst) # {}
  <2>1. t = SendAlong(s, n, p, findRoute(s, p.dst))
    BY <1>2 DEF handlePktWithoutSR
  <2> HIDE DEF t
  <2>2. AgentOK(t, n, D, N) /\ t.number = s.number
    BY <1>2, <2>1, RouteKnown
  <2> QED
    BY <1>1, <2>2 DEF t
<1>3. CASE RoutesTo(s, p.dst) = {}
  <2> DEFINE u == getRouteForPacket(s, n, p)
  <2>1. t = stickPacketInSendBuffer(u, p)
    BY <1>3 DEF handlePktWithoutSR
  <2>2. AgentOK(u, n, D, N) /\ u.number >= s.number
    BY <1>1, getRouteOK
  <2> HIDE DEF u, t
  <2>3. AgentOK(t, n, D, N) /\ t.number = u.number
    BY <2>1, <2>2, stickOK
  <2> QED
    BY <2>2, <2>3 DEF t
<1> QED
  BY <1>2, <1>3

\* What RemoveFirst does to a sequence that contains p.
LEMMA RemoveFirstOK ==
    ASSUME NEW S, NEW b \in Seq(S), NEW p, \E i \in 1..Len(b) : b[i] = p
    PROVE  LET c == RemoveFirst(b, p) IN
           /\ c \in Seq(S) /\ Len(c) = Len(b) - 1 /\ Len(b) \in Nat
           /\ \E k \in 1..Len(b) :
                 /\ b[k] = p /\ \A i \in 1..Len(b) : b[i] = p => k <= i
                 /\ \A i \in 1..Len(b) - 1 : c[i] = IF i < k THEN b[i] ELSE b[i + 1]
<1> DEFINE I == {i \in 1..Len(b) : b[i] = p}
           c == RemoveFirst(b, p)
           k == Min(I)
           x == SubSeq(b, 1, k - 1)
           y == SubSeq(b, k + 1, Len(b))
<1>1. Len(b) \in Nat /\ \A i \in 1..Len(b) : b[i] \in S
  BY LenProperties, ElementOfSeq
<1>2. k \in I /\ \A i \in I : k <= i
  <2>1. I \subseteq Nat /\ I # {}
    OBVIOUS
  <2> HIDE DEF I
  <2> QED
    BY <2>1, MinOfNats
<1>3. c = x \o y
  BY DEF RemoveFirst, RemoveAt, SelectInSeq
<1>4. k \in 1..Len(b) /\ b[k] = p /\ \A i \in 1..Len(b) : b[i] = p => k <= i
  BY <1>2
<1> HIDE DEF k
<1>5. k - 1 \in Int /\ k + 1 \in Int /\ 1 \in Int /\ Len(b) \in Int
  BY <1>1, <1>4
<1>6. x \in Seq(S) /\ Len(x) = k - 1 /\ \A i \in 1..(k - 1) : x[i] = b[i]
  <2>1. \A i \in 1..(k - 1) : b[i] \in S
    BY <1>1, <1>4
  <2>2. /\ x \in Seq(S) /\ Len(x) = IF 1 <= k - 1 THEN k - 1 - 1 + 1 ELSE 0
        /\ \A i \in 1..(k - 1 - 1 + 1) : x[i] = b[1 + i - 1]
    BY <1>5, <2>1, SubSeqProperties
  <2> QED
    BY <1>4, <2>2
<1>7. y \in Seq(S) /\ Len(y) = Len(b) - k /\ \A i \in 1..(Len(b) - k) : y[i] = b[k + i]
  <2>1. \A i \in (k + 1)..Len(b) : b[i] \in S
    BY <1>1, <1>4
  <2>2. /\ y \in Seq(S) /\ Len(y) = IF k + 1 <= Len(b) THEN Len(b) - (k + 1) + 1 ELSE 0
        /\ \A i \in 1..(Len(b) - (k + 1) + 1) : y[i] = b[(k + 1) + i - 1]
    BY <1>5, <2>1, SubSeqProperties
  <2> QED
    BY <1>1, <1>4, <2>2
<1> HIDE DEF x, y, c
<1>8. /\ c \in Seq(S) /\ Len(c) = Len(x) + Len(y)
      /\ \A i \in 1..(Len(x) + Len(y)) : c[i] = IF i <= Len(x) THEN x[i] ELSE y[i - Len(x)]
  BY <1>3, <1>6, <1>7, ConcatProperties
<1>9. Len(c) = Len(b) - 1
  BY <1>1, <1>4, <1>6, <1>7, <1>8
<1>10. ASSUME NEW i \in 1..Len(b) - 1 PROVE c[i] = IF i < k THEN b[i] ELSE b[i + 1]
  <2>1. i \in 1..(Len(x) + Len(y)) /\ (i < k <=> i <= Len(x))
    BY <1>1, <1>4, <1>6, <1>7
  <2>2. CASE i < k
    <3>1. i \in 1..(k - 1)
      BY <1>4, <2>2
    <3> QED
      BY <1>6, <1>8, <2>1, <2>2, <3>1
  <2>3. CASE ~(i < k)
    <3>1. i - (k - 1) \in 1..(Len(b) - k) /\ k + (i - (k - 1)) = i + 1
      BY <1>1, <1>4, <2>3
    <3> QED
      BY <1>6, <1>7, <1>8, <2>1, <2>3, <3>1
  <2> QED
    BY <2>2, <2>3
<1> QED
  BY <1>1, <1>4, <1>8, <1>9, <1>10 DEF c

LEMMA FirstRemoved ==
    ASSUME NEW s, NEW n, NEW D, NEW N, AgentOK(s, n, D, N), NEW p
    PROVE  LET t == [s EXCEPT !.buf = RemoveFirst(@, p)]
           IN  AgentOK(t, n, D, N) /\ t.number = s.number
<1> DEFINE b == s.buf
           c == RemoveFirst(b, p)
<1>1. /\ b \in Seq(Header(D)) /\ Len(b) <= SEND_BUF_SIZE /\ Len(b) \in Nat
      /\ \A i \in 1..Len(b) : Waits(b[i], n, D)
      /\ SEND_BUF_SIZE \in Nat
  BY LenProperties, DSRAssumption DEF AgentOK, BufferOK
<1>2. c \in Seq(Header(D)) /\ Len(c) <= SEND_BUF_SIZE /\ \A i \in 1..Len(c) : Waits(c[i], n, D)
  <2>1. CASE \A i \in 1..Len(b) : b[i] # p
    <3>1. c = b
      BY <2>1 DEF RemoveFirst
    <3> HIDE DEF b, c
    <3> QED
      BY <1>1, <3>1
  <2>2. CASE \E i \in 1..Len(b) : b[i] = p
    <3> HIDE DEF b
    <3>1. /\ c \in Seq(Header(D)) /\ Len(c) = Len(b) - 1
          /\ \E k \in 1..Len(b) :
                \A i \in 1..Len(b) - 1 : c[i] = IF i < k THEN b[i] ELSE b[i + 1]
      BY <1>1, <2>2, RemoveFirstOK
    <3> HIDE DEF c
    <3>2. ASSUME NEW i \in 1..Len(c) PROVE i \in 1..Len(b) /\ i + 1 \in 1..Len(b)
      BY <1>1, <3>1
    <3>3. ASSUME NEW i \in 1..Len(c) PROVE c[i] \in {b[i], b[i + 1]}
      BY <3>1
    <3> QED
      BY <1>1, <3>1, <3>2, <3>3
  <2> QED
    BY <2>1, <2>2
<1>3. [s EXCEPT !.buf = RemoveFirst(@, p)] = [s EXCEPT !.buf = c]
  OBVIOUS
<1> HIDE DEF c
<1> QED
  BY <1>2, <1>3, BufferChanged

LEMMA SendIfRouteOK ==
    ASSUME NEW s, NEW n \in Node, NEW D, NEW N, AgentOK(s, n, D, N), NEW p, Waits(p, n, D)
    PROVE  LET t == SendIfRoute(s, n, p) IN AgentOK(t, n, D, N) /\ t.number = s.number
<1>1. CASE RoutesTo(s, p.dst) = {}
  <2>1. SendIfRoute(s, n, p) = s
    BY <1>1 DEF SendIfRoute
  <2> QED
    BY <2>1
<1>2. CASE RoutesTo(s, p.dst) # {}
  <2> DEFINE u == [s EXCEPT !.buf = RemoveFirst(@, p)]
             r == findRoute(s, p.dst)
  <2>1. SendIfRoute(s, n, p) = SendAlong(u, n, p, r)
    BY <1>2 DEF SendIfRoute
  <2>2. AgentOK(u, n, D, N) /\ u.number = s.number
    BY FirstRemoved
  <2>3. Way(r, n) /\ r[Len(r)] = p.dst
    BY <1>2, findRouteOK DEF AgentOK, WaysOK, Waits
  <2> HIDE DEF u, r
  <2> QED
    BY <2>1, <2>2, <2>3, SendAlongOK
<1> QED
  BY <1>1, <1>2

LEMMA CheckPacketOK ==
    ASSUME NEW s, NEW n \in Node, NEW D, NEW N, AgentOK(s, n, D, N), NEW p, Waits(p, n, D),
           NEW expired
    PROVE  LET t == CheckPacket(s, n, p, expired)
           IN  AgentOK(t, n, D, N) /\ t.number >= s.number
<1> DEFINE without == [s EXCEPT !.buf = RemoveFirst(@, p)]
           t == CheckPacket(s, n, p, expired)
<1>1. AgentOK(without, n, D, N) /\ without.number = s.number
  BY FirstRemoved
<1>2. s.number \in Nat /\ p.dst \in Node \ {n}
  BY DEF AgentOK, AskedOK, Waits, PacketOK, Header
<1>3. CASE expired
  <2>1. t = without
    BY <1>3 DEF CheckPacket
  <2> HIDE DEF t, without
  <2> QED
    BY <1>1, <1>2, <2>1 DEF t
<1>4. CASE ~expired /\ RoutesTo(s, p.dst) # {}
  <2>1. t = SendIfRoute(s, n, p)
    BY <1>4 DEF CheckPacket
  <2> HIDE DEF t
  <2>2. AgentOK(t, n, D, N) /\ t.number = s.number
    BY <2>1, SendIfRouteOK
  <2> QED
    BY <1>2, <2>2 DEF t
<1>5. CASE ~expired /\ RoutesTo(s, p.dst) = {}
  <2> DEFINE u == IF GivesUp(s, n, p) THEN without ELSE s
  <2>1. t = getRouteForPacket(u, n, p)
    BY <1>5 DEF CheckPacket
  <2> HIDE DEF without
  <2>2. AgentOK(u, n, D, N) /\ u.number = s.number
    BY <1>1
  <2> HIDE DEF t, u
  <2>3. AgentOK(t, n, D, N) /\ t.number >= u.number
    BY <1>2, <2>1, <2>2, getRouteOK
  <2> QED
    BY <2>2, <2>3 DEF t
<1> QED
  BY <1>3, <1>4, <1>5

\* One packet of a SendBuffer.
Looked(s, n, check, expired, p) ==
    IF check THEN CheckPacket(s, n, p, p \in expired) ELSE SendIfRoute(s, n, p)

Sweep(s, n, check, expired) ==
    CHOOSE after : after = [i \in 0..Len(s.buf) |->
        IF i = 0 THEN s ELSE Looked(after[i - 1], n, check, expired, s.buf[i])]

LEMMA SweepExists ==
    ASSUME NEW s, NEW n, NEW check, NEW expired, Len(s.buf) \in Nat
    PROVE  LET after == Sweep(s, n, check, expired)
           IN  after = [i \in 0..Len(s.buf) |->
                   IF i = 0 THEN s ELSE Looked(after[i - 1], n, check, expired, s.buf[i])]
<1> DEFINE next(i, t) == Looked(t, n, check, expired, s.buf[i])
           Upto(k, f) == f = [i \in 0..k |-> IF i = 0 THEN s ELSE next(i, f[i - 1])]
           T == {k \in Nat : ~ \E f : Upto(k, f)}
<1> HIDE DEF next
<1>1. T = {}
  <2> SUFFICES ASSUME T # {} PROVE FALSE
    OBVIOUS
  <2>1. T \subseteq Nat
    OBVIOUS
  <2>a. PICK k \in T : \A j \in T : k <= j
    <3> HIDE DEF T
    <3> QED
      BY <2>1, LeastNat
  <2>2. k # 0
    <3> SUFFICES ASSUME k = 0 PROVE FALSE
      OBVIOUS
    <3>1. Upto(0, [i \in 0..0 |-> s])
      OBVIOUS
    <3> QED
      BY <3>1
  <2>3. k \in Nat /\ k - 1 \in Nat /\ k - 1 \notin T
    <3> HIDE DEF T
    <3> QED
      BY <2>1, <2>a, <2>2
  <2>4. PICK f : Upto(k - 1, f)
    BY <2>3
  <2> DEFINE g == [i \in 0..k |-> IF i = k THEN next(k, f[k - 1]) ELSE f[i]]
  <2>5. ASSUME NEW i \in 0..k
        PROVE  g[i] = IF i = 0 THEN s ELSE next(i, g[i - 1])
    <3>1. CASE i = k
      BY <3>1, <2>2, <2>3
    <3>2. CASE i # k
      <4>1. i \in 0..(k - 1) /\ g[i] = f[i]
        BY <3>2, <2>3
      <4>2. f[i] = IF i = 0 THEN s ELSE next(i, f[i - 1])
        BY <2>4, <4>1
      <4>3. i # 0 => i - 1 \in 0..k /\ i - 1 # k
        BY <4>1
      <4>4. i # 0 => g[i - 1] = f[i - 1]
        BY <4>3
      <4> QED
        BY <4>1, <4>2, <4>4
    <3> QED
      BY <3>1, <3>2
  <2>6. Upto(k, g)
    <3>1. g = [i \in 0..k |-> g[i]]
      OBVIOUS
    <3> HIDE DEF g
    <3> QED
      BY <3>1, <2>5
  <2> QED
    BY <2>6
<1>2. \E f : Upto(Len(s.buf), f)
  BY <1>1
<1>3. Upto(Len(s.buf), CHOOSE f : Upto(Len(s.buf), f))
  BY <1>2
<1> QED
  BY <1>3 DEF Sweep, next

LEMMA LookedOK ==
    ASSUME NEW s, NEW n \in Node, NEW D, NEW N, AgentOK(s, n, D, N), NEW p, Waits(p, n, D),
           NEW check \in BOOLEAN, NEW expired
    PROVE  LET t == Looked(s, n, check, expired, p)
           IN  AgentOK(t, n, D, N) /\ t.number >= s.number
<1> DEFINE t == Looked(s, n, check, expired, p)
<1>1. s.number \in Nat
  BY DEF AgentOK, AskedOK
<1>2. CASE check
  <2>1. t = CheckPacket(s, n, p, p \in expired)
    BY <1>2 DEF Looked
  <2> HIDE DEF t
  <2> QED
    BY <2>1, CheckPacketOK DEF t
<1>3. CASE ~check
  <2>1. t = SendIfRoute(s, n, p)
    BY <1>3 DEF Looked
  <2> HIDE DEF t
  <2>2. AgentOK(t, n, D, N) /\ t.number = s.number
    BY <2>1, SendIfRouteOK
  <2> QED
    BY <1>1, <2>2 DEF t
<1> QED
  BY <1>2, <1>3

LEMMA SendBufferOK ==
    ASSUME NEW s, NEW n \in Node, NEW D, NEW N, AgentOK(s, n, D, N),
           NEW check \in BOOLEAN, NEW expired
    PROVE  LET t == SendBuffer(s, n, check, expired)
           IN  AgentOK(t, n, D, N) /\ t.number >= s.number
<1> DEFINE after == Sweep(s, n, check, expired)
           L == Len(s.buf)
           OK(i) == AgentOK(after[i], n, D, N) /\ after[i].number >= s.number
           T == {i \in 0..L : ~OK(i)}
<1>1. L \in Nat /\ s.number \in Nat /\ \A i \in 1..L : Waits(s.buf[i], n, D)
  BY LenProperties DEF AgentOK, AskedOK, BufferOK
<1>2. SendBuffer(s, n, check, expired) = after[L]
  BY DEF SendBuffer, Sweep, Looked
<1>3. after = [i \in 0..L |-> IF i = 0 THEN s ELSE Looked(after[i - 1], n, check, expired, s.buf[i])]
  BY <1>1, SweepExists
<1> HIDE DEF after, L
<1>4. after[0] = s
  BY <1>1, <1>3
<1>5. OK(0)
  BY <1>1, <1>4
<1>6. ASSUME NEW i \in 1..L, OK(i - 1) PROVE OK(i)
  <2>1. i \in 0..L /\ i # 0
    BY <1>1
  <2>2. after[i] = Looked(after[i - 1], n, check, expired, s.buf[i])
    BY <1>3, <2>1
  <2>3. AgentOK(after[i], n, D, N) /\ after[i].number >= after[i - 1].number
    BY <1>1, <1>6, <2>2, LookedOK
  <2>4. after[i].number \in Nat /\ after[i - 1].number \in Nat
    BY <1>6, <2>3 DEF AgentOK, AskedOK
  <2> QED
    BY <1>1, <1>6, <2>3, <2>4
<1> HIDE DEF OK
<1>7. T = {}
  <2> SUFFICES ASSUME T # {} PROVE FALSE
    OBVIOUS
  <2>1. T \subseteq Nat
    BY <1>1
  <2>2. PICK k \in T : \A j \in T : k <= j
    <3> HIDE DEF T
    <3> QED
      BY <2>1, LeastNat
  <2>3. k \in 1..L /\ k - 1 \in 0..L /\ ~ (k <= k - 1)
    BY <1>1, <1>5
  <2>4. k - 1 \notin T
    <3> HIDE DEF T
    <3> QED
      BY <2>2, <2>3
  <2> QED
    BY <1>6, <2>3, <2>4
<1>8. OK(L)
  BY <1>1, <1>7
<1> QED
  BY <1>2, <1>8 DEF OK

-----------------------------------------------------------------------------
(* The cache *)

LEMMA CacheChanged ==
    ASSUME NEW s, NEW n, NEW D, NEW N, AgentOK(s, n, D, N), NEW C, \A r \in C : Way(r, n)
    PROVE  LET t == [s EXCEPT !.cache = C] IN AgentOK(t, n, D, N) /\ t.number = s.number
<1> DEFINE t == [s EXCEPT !.cache = C]
<1>0. IsAgent(s)
  BY DEF AgentOK
<1>1. /\ IsAgent(t) /\ t.cache = C
      /\ t.seen = s.seen /\ t.asked = s.asked /\ t.number = s.number
      /\ t.held = s.held /\ t.buf = s.buf /\ t.ifq = s.ifq
  BY <1>0 DEF IsAgent
<1> HIDE DEF t
<1>2. /\ WaysOK(t, n) /\ SeenOK(t, n, N) /\ AskedOK(t) /\ BufferOK(t, n, D)
      /\ FramesOK(t, n, D, N)
  BY <1>1 DEF AgentOK, WaysOK, SeenOK, AskedOK, BufferOK, FramesOK, Number
<1>3. AgentOK(t, n, D, N)
  BY <1>1, <1>2 DEF AgentOK
<1> QED
  BY <1>1, <1>3 DEF t

LEMMA addRouteOK ==
    ASSUME NEW s, NEW n, NEW D, NEW N, AgentOK(s, n, D, N),
           NEW r \in Seq(Node), Simple(r), Len(r) <= MAX_SR_LEN
    PROVE  LET t == addRoute(s, n, r) IN AgentOK(t, n, D, N) /\ t.number = s.number
<1>1. CASE Len(r) > 1 /\ r[1] = n
  <2> DEFINE C == s.cache \cup {r}
  <2>1. Way(r, n)
    BY <1>1, LenProperties, DSRAssumption DEF Way
  <2>2. \A c \in C : Way(c, n)
    BY <2>1 DEF AgentOK, WaysOK
  <2>3. addRoute(s, n, r) = [s EXCEPT !.cache = C]
    BY <1>1 DEF addRoute
  <2> HIDE DEF C
  <2>4. AgentOK([s EXCEPT !.cache = C], n, D, N) /\ [s EXCEPT !.cache = C].number = s.number
    BY <2>2, CacheChanged
  <2> QED
    BY <2>3, <2>4
<1>2. CASE ~ (Len(r) > 1 /\ r[1] = n)
  <2>1. addRoute(s, n, r) = s
    BY <1>2 DEF addRoute
  <2> QED
    BY <2>1
<1> QED
  BY <1>1, <1>2

LEMMA noticeDeadLinkOK ==
    ASSUME NEW s, NEW n, NEW D, NEW N, AgentOK(s, n, D, N), NEW down
    PROVE  LET t == noticeDeadLink(s, down) IN AgentOK(t, n, D, N) /\ t.number = s.number
<1> DEFINE ends(r) == {i \in 1..Len(r) : i = Len(r) \/ <<r[i], r[i + 1]>> \in down}
           end(r) == Min(ends(r))
           C == {r \in {SubSeq(r0, 1, end(r0)) : r0 \in s.cache} : Len(r) > 1}
<1>1. noticeDeadLink(s, down) = [s EXCEPT !.cache = C]
  BY DEF noticeDeadLink
<1>2. ASSUME NEW r \in C PROVE Way(r, n)
  <2>1. PICK r0 \in s.cache : r = SubSeq(r0, 1, end(r0)) /\ Len(r) > 1
    OBVIOUS
  <2>2. Way(r0, n) /\ Len(r0) \in Nat /\ Len(r0) >= 2 /\ r0 \in Seq(Node)
    BY LenProperties DEF AgentOK, WaysOK, Way
  <2>3. ends(r0) \subseteq Nat /\ Len(r0) \in ends(r0) /\ ends(r0) \subseteq 1..Len(r0)
    BY <2>2
  <2>4. end(r0) \in 1..Len(r0)
    <3> HIDE DEF ends
    <3> QED
      BY <2>3, MinOfNats
  <2> DEFINE k == end(r0)
  <2> HIDE DEF k
  <2>5. k \in 1..Len(r0) /\ r = SubSeq(r0, 1, k)
    BY <2>1, <2>4 DEF k
  <2>6. Len(r) = k - 1 + 1
    <3>1. 1 \in 1..Len(r0) /\ Simple(r0)
      BY <2>2 DEF Way
    <3>2. k \in 1..Len(r0) /\ r0 \in Seq(Node)
      BY <2>2, <2>5
    <3>3. Len(SubSeq(r0, 1, k)) = k - 1 + 1
      BY <3>1, <3>2, PartIsSimple
    <3> QED
      BY <2>5, <3>3
  <2>a. Len(r) > 1
    BY <2>1
  <2> HIDE DEF C
  <2>7. k \in 2..Len(r0)
    BY <2>2, <2>5, <2>6, <2>a
  <2> QED
    BY <2>2, <2>5, <2>7, BeginningIsWay
<1> HIDE DEF C
<1> QED
  BY <1>1, <1>2, CacheChanged

-----------------------------------------------------------------------------
(* Requests and replies *)

LEMMA RecordedOK ==
    ASSUME NEW s, NEW n, NEW D, NEW N, AgentOK(s, n, D, N),
           NEW p, p.src \in Node, p.request \in Nat, p.request < Number(s, n, N, p.src)
    PROVE  LET t == Recorded(s, p) IN AgentOK(t, n, D, N) /\ t.number = s.number
<1> DEFINE x == [s.seen EXCEPT ![p.src] = p.request]
           t == [s EXCEPT !.seen = x]
<1>0. IsAgent(s) /\ Recorded(s, p) = t
  BY DEF AgentOK, Recorded
<1>1. s.seen \in [Node -> Nat] /\ N \in [Node -> Nat]
  BY DEF AgentOK, SeenOK
<1>2. x \in [Node -> Nat] /\ \A o \in Node : x[o] = IF o = p.src THEN p.request ELSE s.seen[o]
  BY <1>1
<1>3. \A o \in Node : x[o] < Number(s, n, N, o)
  BY <1>2 DEF AgentOK, SeenOK
<1> HIDE DEF x
<1>4. /\ IsAgent(t) /\ t.seen = x
      /\ t.cache = s.cache /\ t.asked = s.asked /\ t.number = s.number
      /\ t.held = s.held /\ t.buf = s.buf /\ t.ifq = s.ifq
  BY <1>0 DEF IsAgent
<1> HIDE DEF t
<1>5. SeenOK(t, n, N)
  BY <1>1, <1>2, <1>3, <1>4 DEF SeenOK, Number
<1>6. /\ WaysOK(t, n) /\ AskedOK(t) /\ BufferOK(t, n, D) /\ FramesOK(t, n, D, N)
  BY <1>4 DEF AgentOK, WaysOK, AskedOK, BufferOK, FramesOK, Number
<1>7. AgentOK(t, n, D, N)
  BY <1>4, <1>5, <1>6 DEF AgentOK
<1> QED
  BY <1>0, <1>4, <1>7

\* A request that has come to a node.
Request(p, D) ==
    /\ PacketOK(p, D) /\ p.request > 0 /\ Simple(p.route) /\ Len(p.route) <= MAX_SR_LEN
    /\ p.route # <<>> /\ p.route[1] = p.src /\ ~Contains(p.route, p.dst)

\* The way back.
LEMMA ReverseOK ==
    ASSUME NEW r \in Seq(Node), Simple(r), Len(r) \in 2..MAX_SR_LEN
    PROVE  Way(Reverse(r), Last(r)) /\ Last(Reverse(r)) = r[1]
<1> DEFINE L == Len(r)
           b == Reverse(r)
<1>1. L \in Nat /\ L \in 2..MAX_SR_LEN
  BY LenProperties
<1>2. b = [i \in 1..L |-> r[(L - i) + 1]]
  BY DEF Reverse
<1>3. \A i \in 1..L : r[(L - i) + 1] \in Node
  <2> SUFFICES ASSUME NEW i \in 1..L PROVE r[(L - i) + 1] \in Node
    OBVIOUS
  <2>1. (L - i) + 1 \in 1..Len(r)
    BY <1>1
  <2> QED
    BY <2>1, ElementOfSeq
<1>4. b \in Seq(Node) /\ Len(b) = L
  <2>1. b \in [1..L -> Node] /\ L \in Nat
    BY <1>1, <1>2, <1>3
  <2> HIDE DEF b, L
  <2> QED
    BY <2>1
<1>5. \A i \in 1..L : b[i] = r[(L - i) + 1]
  BY <1>2
<1> HIDE DEF b
<1>6. Simple(b)
  <2> SUFFICES ASSUME NEW i \in 1..L, NEW j \in 1..L, b[i] = b[j] PROVE i = j
    BY <1>4 DEF Simple
  <2> DEFINE x == (L - i) + 1
             y == (L - j) + 1
  <2>1. x \in 1..L /\ y \in 1..L
    BY <1>1
  <2>2. r[x] = r[y]
    BY <1>5
  <2>3. x = y
    <3> HIDE DEF x, y
    <3> QED
      BY <2>1, <2>2 DEF Simple
  <2> QED
    BY <1>1, <2>3
<1>7. b[1] = r[L] /\ b[L] = r[1]
  <2>1. 1 \in 1..L /\ L \in 1..L /\ (L - 1) + 1 = L /\ (L - L) + 1 = 1
    BY <1>1
  <2> QED
    BY <1>5, <2>1
<1> QED
  BY <1>1, <1>4, <1>6, <1>7 DEF Way, Last, b

\* The way of a request and its end, there and back.
LEMMA LongerRoute ==
    ASSUME NEW r \in Seq(Node), NEW n \in Node, Simple(r), ~Contains(r, n), ~full(r), r # <<>>
    PROVE  /\ Append(r, n) \in Seq(Node) /\ Simple(Append(r, n))
           /\ Len(Append(r, n)) = Len(r) + 1 /\ Len(r) + 1 \in 2..MAX_SR_LEN
           /\ Append(r, n)[1] = r[1] /\ Last(Append(r, n)) = n
           /\ \A i \in 1..Len(r) + 1 : Append(r, n)[i] = IF i = Len(r) + 1 THEN n ELSE r[i]
           /\ Way(Reverse(Append(r, n)), n) /\ Last(Reverse(Append(r, n))) = r[1]
<1> DEFINE t == Append(r, n)
           L == Len(r)
<1>1. L \in Nat \ {0} /\ MAX_SR_LEN \in Nat /\ L < MAX_SR_LEN
  BY LenProperties, EmptySeq, DSRAssumption DEF full
<1>2. /\ t \in Seq(Node) /\ Len(t) = L + 1
      /\ \A i \in 1..L : t[i] = r[i]
      /\ t[L + 1] = n
  BY AppendProperties
<1> HIDE DEF t
<1>3. Simple(t)
  <2> SUFFICES ASSUME NEW i \in 1..L + 1, NEW j \in 1..L + 1, t[i] = t[j] PROVE i = j
    BY <1>2 DEF Simple
  <2>1. \A k \in 1..L : r[k] # n
    BY DEF Contains
  <2>2. CASE i \in 1..L /\ j \in 1..L
    BY <1>2, <2>2 DEF Simple
  <2>3. CASE i \in 1..L /\ j = L + 1
    BY <1>2, <2>1, <2>3
  <2>4. CASE i = L + 1 /\ j \in 1..L
    BY <1>2, <2>1, <2>4
  <2>5. CASE i = L + 1 /\ j = L + 1
    BY <2>5
  <2> QED
    BY <1>1, <2>2, <2>3, <2>4, <2>5
<1>4. t[1] = r[1] /\ Last(t) = n /\ L + 1 \in 2..MAX_SR_LEN
  BY <1>1, <1>2 DEF Last
<1>5. Way(Reverse(t), n) /\ Last(Reverse(t)) = r[1]
  BY <1>2, <1>3, <1>4, ReverseOK
<1>6. \A i \in 1..L + 1 : t[i] = IF i = L + 1 THEN n ELSE r[i]
  BY <1>1, <1>2
<1> QED
  BY <1>2, <1>3, <1>4, <1>5, <1>6 DEF t, L

LEMMA ReplyOK ==
    ASSUME NEW s, NEW n \in Node, NEW D, NEW N, AgentOK(s, n, D, N),
           NEW p, Request(p, D), ~Contains(p.route, n), ~full(p.route),
           NEW reply \in Seq(Node), Simple(reply), Len(reply) <= MAX_SR_LEN
    PROVE  LET t == Reply(s, n, p, reply) IN AgentOK(t, n, D, N) /\ t.number = s.number
<1> DEFINE back == Reverse(Append(p.route, n))
           u == addRoute(s, n, back)
           q0 == NewPacket(n, p.src, None)
           q == [q0 EXCEPT !.reply = reply]
<1>1. p.route \in Seq(Node) /\ p.src \in Node /\ p.route[1] = p.src /\ p.route # <<>>
  BY DEF Request, PacketOK, Header
<1>2. Way(back, n) /\ Last(back) = p.src
  BY <1>1, LongerRoute DEF Request
<1>3. p.src # n
  <2>1. Len(p.route) \in Nat \ {0}
    BY <1>1, EmptySeq
  <2>2. 1 \in 1..Len(p.route)
    BY <2>1
  <2> QED
    BY <1>1, <2>2 DEF Contains
<1>4. /\ q0 \in Header(D) /\ LoadOK(q0) /\ q0.request = 0 /\ q0.dst = p.src /\ q0.data = None
  BY <1>1, NewPacketOK DEF PacketOK
<1>5. Reply(s, n, p, reply) = SendAlong(u, n, q, back)
  BY DEF Reply
<1> HIDE DEF q0, back
<1>6. /\ q \in Header(D) /\ q.reply = reply /\ q.request = 0 /\ q.dst = p.src
      /\ q.errors = q0.errors /\ q.data = q0.data
  BY <1>4 DEF Header
<1> HIDE DEF q
<1>7. LoadOK(q)
  BY <1>4, <1>6 DEF LoadOK
<1>8. Waits(q, n, D)
  BY <1>3, <1>6, <1>7 DEF Waits, PacketOK
<1>9. back \in Seq(Node) /\ Simple(back) /\ Len(back) <= MAX_SR_LEN
  BY <1>2, LenProperties, DSRAssumption DEF Way
<1>10. AgentOK(u, n, D, N) /\ u.number = s.number
  BY <1>9, addRouteOK
<1> HIDE DEF u
<1>11. back[Len(back)] = q.dst
  BY <1>2, <1>6 DEF Last
<1> QED
  BY <1>2, <1>5, <1>8, <1>10, <1>11, SendAlongOK

LEMMA SuggestedOK ==
    ASSUME NEW s, NEW n \in Node, NEW D, NEW N, AgentOK(s, n, D, N),
           NEW p, Request(p, D), p.dst # n, Suggested(s, n, p) # <<>>
    PROVE  /\ Suggested(s, n, p) \in Seq(Node) /\ Simple(Suggested(s, n, p))
           /\ Len(Suggested(s, n, p)) <= MAX_SR_LEN
<1> DEFINE rest == findRoute(s, p.dst)
           all == p.route \o rest
           complete == compressPath(all)
<1>1. /\ RoutesTo(s, p.dst) # {} /\ ~ (Len(p.route) + Len(rest) > MAX_SR_LEN)
      /\ Suggested(s, n, p) = complete
  BY DEF Suggested
<1>2. Way(rest, n)
  BY <1>1, findRouteOK DEF AgentOK, WaysOK
<1> HIDE DEF rest
<1>3. rest \in Seq(Node) /\ p.route \in Seq(Node) /\ Len(rest) \in Nat /\ Len(p.route) \in Nat
  BY <1>2, LenProperties DEF Way, Request, PacketOK, Header
<1>4. all \in Seq(Node) /\ Len(all) = Len(p.route) + Len(rest)
  BY <1>3, ConcatProperties
<1> HIDE DEF all
<1>5. complete \in Seq(Node) /\ Len(complete) <= Len(all) /\ Simple(complete)
  BY <1>4, compressPathOK
<1>6. Len(complete) \in Nat /\ MAX_SR_LEN \in Nat
  BY <1>5, LenProperties, DSRAssumption
<1> HIDE DEF complete
<1>7. Len(complete) <= MAX_SR_LEN
  BY <1>1, <1>3, <1>4, <1>5, <1>6
<1> QED
  BY <1>1, <1>5, <1>7

LEMMA sendOutRequest ==
    ASSUME NEW s, NEW n \in Node, NEW D, NEW N, AgentOK(s, n, D, N),
           NEW p, Request(p, D), Last(p.route) = n, p.request < Number(s, n, N, p.src)
    PROVE  LET t == sendOutPacketWithRoute(s, n, p)
           IN  AgentOK(t, n, D, N) /\ t.number = s.number
<1> DEFINE f == [to |-> MAC_BROADCAST, pkt |-> p, heard |-> FALSE]
<1>1. sendOutPacketWithRoute(s, n, p) = Queued(s, f)
  BY DEF sendOutPacketWithRoute, Queued, Request
<1>2. FrameOK(f, n, D)
  BY DEF FrameOK, Request, Asks
<1>3. f.pkt.request < Number(s, n, N, f.pkt.src)
  OBVIOUS
<1> HIDE DEF f
<1> QED
  BY <1>1, <1>2, <1>3, FrameAdded

LEMMA handleRouteRequestOK ==
    ASSUME NEW s, NEW n \in Node, NEW D, NEW N, AgentOK(s, n, D, N),
           NEW p, Request(p, D), p.dst # n, p.request < Number(s, n, N, p.src)
    PROVE  LET t == handleRouteRequest(s, n, p) IN AgentOK(t, n, D, N) /\ t.number = s.number
<1> DEFINE new == Recorded(s, p)
           t == handleRouteRequest(s, n, p)
<1>1. p \in Header(D) /\ p.src \in Node /\ p.request \in Nat /\ p.route \in Seq(Node)
  BY DEF Request, PacketOK, Header
<1>2. AgentOK(new, n, D, N) /\ new.number = s.number
  BY <1>1, RecordedOK
<1>3. p.request < Number(new, n, N, p.src)
  BY <1>2 DEF Number
<1>4. CASE ignoreRouteRequestp(s, n, p)
  <2>1. t = s
    BY <1>4 DEF handleRouteRequest
  <2> QED
    BY <2>1
<1>5. CASE ~ignoreRouteRequestp(s, n, p)
  <2>1. ~Contains(p.route, n) /\ ~full(p.route)
    BY <1>5 DEF ignoreRouteRequestp
  <2>2. CASE Suggested(new, n, p) # <<>>
    <3> DEFINE reply == Suggested(new, n, p)
    <3>1. t = Reply(new, n, p, reply)
      BY <1>5, <2>2 DEF handleRouteRequest
    <3> HIDE DEF new, t
    <3>2. reply \in Seq(Node) /\ Simple(reply) /\ Len(reply) <= MAX_SR_LEN
      BY <1>2, <2>2, SuggestedOK
    <3> HIDE DEF reply
    <3>3. AgentOK(t, n, D, N) /\ t.number = new.number
      BY <1>2, <2>1, <3>1, <3>2, ReplyOK
    <3> QED
      BY <1>2, <3>3 DEF t
  <2>3. CASE Suggested(new, n, p) = <<>> /\ Len(p.route) > p.prop
    <3>1. t = new
      BY <1>5, <2>3 DEF handleRouteRequest
    <3> HIDE DEF new, t
    <3> QED
      BY <1>2, <3>1 DEF t
  <2>4. CASE Suggested(new, n, p) = <<>> /\ ~ (Len(p.route) > p.prop)
    <3> DEFINE r == Append(p.route, n)
               q == [p EXCEPT !.route = r]
    <3>1. t = sendOutPacketWithRoute(new, n, q)
      BY <1>5, <2>4 DEF handleRouteRequest
    <3>2. p.route # <<>> /\ Simple(p.route) /\ p.route[1] = p.src /\ Len(p.route) \in Nat
      BY <1>1, LenProperties DEF Request
    <3>3. /\ r \in Seq(Node) /\ Simple(r) /\ Len(r) = Len(p.route) + 1
          /\ Len(p.route) + 1 \in 2..MAX_SR_LEN
          /\ r[1] = p.src /\ Last(r) = n
          /\ \A i \in 1..Len(p.route) + 1 : r[i] = IF i = Len(p.route) + 1 THEN n ELSE p.route[i]
      BY <1>1, <2>1, <3>2, LongerRoute
    <3> HIDE DEF r, new, t
    <3>4. Len(r) <= MAX_SR_LEN /\ r # <<>>
      BY <3>2, <3>3, DSRAssumption, EmptySeq
    <3>5. ~Contains(r, p.dst)
      <4>1. \A i \in 1..Len(p.route) : p.route[i] # p.dst
        BY DEF Request, Contains
      <4>2. ASSUME NEW i \in 1..Len(r) PROVE r[i] # p.dst
        <5>1. i = Len(p.route) + 1 \/ i \in 1..Len(p.route)
          BY <3>2, <3>3
        <5> QED
          BY <3>3, <4>1, <5>1
      <4> QED
        BY <4>2 DEF Contains
    <3>6. /\ q \in Header(D) /\ q.route = r /\ q.src = p.src /\ q.dst = p.dst
          /\ q.request = p.request /\ q.data = p.data /\ q.errors = p.errors
          /\ q.reply = p.reply
      BY <1>1, <3>3 DEF Header
    <3> HIDE DEF q
    <3>7. LoadOK(q)
      BY <3>6 DEF LoadOK, Request, PacketOK
    <3>8. Request(q, D)
      BY <3>3, <3>4, <3>5, <3>6, <3>7 DEF Request, PacketOK
    <3>9. q.request < Number(new, n, N, q.src)
      BY <1>3, <3>6
    <3>10. AgentOK(t, n, D, N) /\ t.number = new.number
      BY <1>2, <3>1, <3>3, <3>6, <3>8, <3>9, sendOutRequest
    <3> QED
      BY <1>2, <3>10 DEF t
  <2> QED
    BY <2>2, <2>3, <2>4
<1> QED
  BY <1>4, <1>5

LEMMA returnSrcRouteOK ==
    ASSUME NEW s, NEW n \in Node, NEW D, NEW N, AgentOK(s, n, D, N),
           NEW p, Request(p, D), p.dst = n
    PROVE  LET t == returnSrcRouteToRequestor(s, n, p)
           IN  AgentOK(t, n, D, N) /\ t.number = s.number
<1>1. CASE full(p.route)
  <2>1. returnSrcRouteToRequestor(s, n, p) = s
    BY <1>1 DEF returnSrcRouteToRequestor
  <2> QED
    BY <2>1
<1>2. CASE ~full(p.route)
  <2> DEFINE r == Append(p.route, n)
  <2>1. returnSrcRouteToRequestor(s, n, p) = Reply(s, n, p, r)
    BY <1>2 DEF returnSrcRouteToRequestor
  <2>2. /\ p.route \in Seq(Node) /\ Simple(p.route) /\ ~Contains(p.route, n) /\ p.route # <<>>
    BY DEF Request, PacketOK, Header
  <2>3. r \in Seq(Node) /\ Simple(r) /\ Len(r) = Len(p.route) + 1 /\ Len(p.route) + 1 \in 2..MAX_SR_LEN
    BY <1>2, <2>2, LongerRoute
  <2> HIDE DEF r
  <2>4. Len(r) <= MAX_SR_LEN
    BY <2>3, DSRAssumption
  <2> QED
    BY <1>2, <2>1, <2>2, <2>3, <2>4, ReplyOK
<1> QED
  BY <1>1, <1>2

LEMMA addRouteSame ==
    ASSUME NEW s, IsAgent(s), NEW n, NEW r
    PROVE  addRoute(s, n, r).ifq = s.ifq /\ addRoute(s, n, r).buf = s.buf
BY DEF addRoute, IsAgent

\* The agent before it looks at its send buffer when a reply has come.
Known(s, n, reply) ==
    [addRoute(s, n, reply) EXCEPT
        !.asked[Last(reply)] = [@ EXCEPT !.count = 0, !.phase = "ready"]]

LEMMA KnownOK ==
    ASSUME NEW s, NEW n \in Node, NEW D, NEW N, AgentOK(s, n, D, N),
           NEW reply \in Seq(Node), reply # <<>>, Simple(reply), Len(reply) <= MAX_SR_LEN
    PROVE  LET t == Known(s, n, reply)
           IN  AgentOK(t, n, D, N) /\ t.number = s.number /\ t.ifq = s.ifq /\ t.buf = s.buf
<1> DEFINE u == addRoute(s, n, reply)
           x == Last(reply)
           e == [u.asked[x] EXCEPT !.count = 0, !.phase = "ready"]
           a == [u.asked EXCEPT ![x] = e]
           known == [u EXCEPT !.asked = a]
<1>1. Known(s, n, reply) = known
  BY DEF Known
<1>2. AgentOK(u, n, D, N) /\ u.number = s.number /\ u.ifq = s.ifq /\ u.buf = s.buf
  BY addRouteOK, addRouteSame DEF AgentOK
<1> HIDE DEF u
<1>3. x \in Node
  <2>1. Len(reply) \in Nat \ {0}
    BY EmptySeq, LenProperties
  <2> QED
    BY <2>1, ElementOfSeq DEF Last
<1> HIDE DEF x
<1>4. u.asked \in [Node -> Asked]
  BY <1>2 DEF AgentOK, AskedOK
<1>5. e \in Asked
  <2> DEFINE y == u.asked[x]
  <2>1. y \in Asked
    BY <1>3, <1>4
  <2> HIDE DEF y
  <2> DEFINE z == [y EXCEPT !.count = 0]
  <2>2. z \in Asked
    BY <2>1 DEF Asked
  <2> HIDE DEF z
  <2>3. [z EXCEPT !.phase = "ready"] \in Asked
    BY <2>2 DEF Asked
  <2> QED
    BY <2>3 DEF y, z
<1> HIDE DEF e
<1>6. a \in [Node -> Asked]
  BY <1>4, <1>5
<1> HIDE DEF a
<1>7. AgentOK(known, n, D, N) /\ known.number = u.number
  BY <1>2, <1>6, AskedChanged
<1>8. known.ifq = u.ifq /\ known.buf = u.buf
  BY <1>2 DEF AgentOK, IsAgent
<1> HIDE DEF known
<1> QED
  BY <1>1, <1>2, <1>7, <1>8

LEMMA acceptRouteReplyOK ==
    ASSUME NEW s, NEW n \in Node, NEW D, NEW N, AgentOK(s, n, D, N),
           NEW p, p.reply \in Seq(Node), p.reply # <<>>, Simple(p.reply), Len(p.reply) <= MAX_SR_LEN
    PROVE  LET t == acceptRouteReply(s, n, p)
           IN  AgentOK(t, n, D, N) /\ t.number >= s.number
<1> DEFINE known == Known(s, n, p.reply)
<1>1. acceptRouteReply(s, n, p) = SendBuffer(known, n, FALSE, {})
  BY DEF acceptRouteReply, Known
<1>2. AgentOK(known, n, D, N) /\ known.number = s.number
  BY KnownOK
<1> HIDE DEF known
<1>3. LET t == SendBuffer(known, n, FALSE, {}) IN AgentOK(t, n, D, N) /\ t.number >= known.number
  BY <1>2, SendBufferOK
<1> QED
  BY <1>1, <1>2, <1>3

-----------------------------------------------------------------------------
(* Route errors and salvaging *)

LEMMA HeldChanged ==
    ASSUME NEW s, NEW n, NEW D, NEW N, AgentOK(s, n, D, N), NEW h \in Error \cup {None}
    PROVE  LET t == [s EXCEPT !.held = h] IN AgentOK(t, n, D, N) /\ t.number = s.number
<1> DEFINE t == [s EXCEPT !.held = h]
<1>0. IsAgent(s)
  BY DEF AgentOK
<1>1. /\ IsAgent(t) /\ t.held = h
      /\ t.cache = s.cache /\ t.seen = s.seen /\ t.asked = s.asked /\ t.number = s.number
      /\ t.buf = s.buf /\ t.ifq = s.ifq
  BY <1>0 DEF IsAgent
<1> HIDE DEF t
<1>2. /\ WaysOK(t, n) /\ SeenOK(t, n, N) /\ AskedOK(t) /\ BufferOK(t, n, D)
      /\ FramesOK(t, n, D, N)
  BY <1>1 DEF AgentOK, WaysOK, SeenOK, AskedOK, BufferOK, FramesOK, Number
<1>3. AgentOK(t, n, D, N)
  BY <1>1, <1>2 DEF AgentOK
<1> QED
  BY <1>1, <1>3 DEF t

LEMMA FramesRemoved ==
    ASSUME NEW s, NEW n, NEW D, NEW N, AgentOK(s, n, D, N), NEW B
    PROVE  LET t == [s EXCEPT !.ifq = @ \ B] IN AgentOK(t, n, D, N) /\ t.number = s.number
<1> DEFINE t == [s EXCEPT !.ifq = @ \ B]
<1>0. IsAgent(s)
  BY DEF AgentOK
<1>1. /\ IsAgent(t) /\ t.ifq = s.ifq \ B
      /\ t.cache = s.cache /\ t.seen = s.seen /\ t.asked = s.asked /\ t.number = s.number
      /\ t.held = s.held /\ t.buf = s.buf
  BY <1>0 DEF IsAgent
<1> HIDE DEF t
<1>2. IsFiniteSet(t.ifq)
  BY <1>1, FS_Subset DEF AgentOK, FramesOK
<1>3. /\ WaysOK(t, n) /\ SeenOK(t, n, N) /\ AskedOK(t) /\ BufferOK(t, n, D)
      /\ FramesOK(t, n, D, N)
  BY <1>1, <1>2 DEF AgentOK, WaysOK, SeenOK, AskedOK, BufferOK, FramesOK, Number
<1>4. AgentOK(t, n, D, N)
  BY <1>1, <1>3 DEF AgentOK
<1> QED
  BY <1>1, <1>4 DEF t

\* The packet in which n sends the rest of the errors of p on.
Onward(p, n, rest) == [p EXCEPT !.errors = rest, !.src = n, !.dst = Last(rest).tell]

LEMMA OnwardOK ==
    ASSUME NEW n \in Node, NEW D, NEW E, NEW p, PacketOK(p, E),
           p.errors # <<>>, Last(p.errors).tell = n, Front(p.errors) # <<>>
    PROVE  Waits(Onward(p, n, Front(p.errors)), n, D)
<1> DEFINE errors == p.errors
           L == Len(errors)
           rest == Front(errors)
           dst == Last(rest).tell
           u == [p EXCEPT !.errors = rest]
           v == [u EXCEPT !.src = n]
           q == [v EXCEPT !.dst = dst]
<1>1. p \in Header(E) /\ p.data = None /\ errors \in Seq(Error) /\ LoadOK(p)
  BY DEF PacketOK, LoadOK, Header
<1>2. L \in Nat \ {0} /\ \A i \in 1..L : errors[i] \in Error
  BY <1>1, EmptySeq, LenProperties, ElementOfSeq
<1>3. rest \in Seq(Error) /\ Len(rest) = L - 1 /\ \A i \in 1..(L - 1) : rest[i] = errors[i]
  <2>1. 1 \in Int /\ L - 1 \in Int /\ \A i \in 1..(L - 1) : errors[i] \in Error
    BY <1>2
  <2>2. rest = SubSeq(errors, 1, L - 1)
    BY DEF Front
  <2> HIDE DEF rest, errors, L
  <2>3. /\ rest \in Seq(Error)
        /\ Len(rest) = IF 1 <= L - 1 THEN L - 1 - 1 + 1 ELSE 0
        /\ \A i \in 1..(L - 1 - 1 + 1) : rest[i] = errors[1 + i - 1]
    BY <2>1, <2>2, SubSeqProperties
  <2> QED
    BY <1>2, <2>3
<1>4. L >= 2 /\ L - 1 \in 1..L
  <2>1. Len(rest) # 0
    BY <1>3, EmptySeq
  <2> QED
    BY <1>2, <1>3, <2>1
<1>5. p.request = 0
  <2>1. p.request \in Nat
    BY <1>1 DEF Header
  <2> QED
    BY <1>1, <1>4, <2>1 DEF LoadOK
<1>6. dst \in Node /\ dst # n
  <2>1. dst = errors[L - 1].tell
    BY <1>2, <1>3, <1>4 DEF Last
  <2>2. errors[L].tell = n
    BY DEF Last
  <2>3. L - 1 + 1 = L /\ L - 1 \in 1..L - 1
    BY <1>2, <1>4
  <2>4. errors[L - 1].tell # errors[L - 1 + 1].tell
    BY <1>1, <1>5, <2>3 DEF LoadOK
  <2>5. errors[L - 1].tell \in Node
    BY <1>2, <1>4 DEF Error
  <2> HIDE DEF dst, L, errors
  <2> QED
    BY <2>1, <2>2, <2>3, <2>4, <2>5
<1> HIDE DEF dst, rest
<1>7. Onward(p, n, rest) = q
  BY DEF Onward, dst
<1>8. /\ q \in Header(D) /\ q.errors = rest /\ q.src = n /\ q.dst = dst /\ q.data = None
      /\ q.request = 0 /\ q.reply = p.reply
  <2>1. u \in Header(D) /\ u.errors = rest /\ u.data = None /\ u.request = 0 /\ u.reply = p.reply
    BY <1>1, <1>3, <1>5 DEF Header
  <2> HIDE DEF u
  <2>2. /\ v \in Header(D) /\ v.errors = rest /\ v.data = None /\ v.request = 0
        /\ v.reply = p.reply /\ v.src = n
    BY <2>1 DEF Header
  <2> HIDE DEF v
  <2> QED
    BY <1>6, <2>2 DEF Header
<1> HIDE DEF q
<1>9. LoadOK(q)
  <2>1. Len(rest) <= MAX_ROUTE_ERRORS
    BY <1>1, <1>2, <1>3, DSRAssumption DEF LoadOK
  <2>2. ASSUME NEW i \in 1..Len(rest) - 1 PROVE rest[i].tell # rest[i + 1].tell
    <3>1. i \in 1..L - 1 /\ i \in 1..(L - 1) /\ i + 1 \in 1..(L - 1)
      BY <1>2, <1>3
    <3>2. errors[i].tell # errors[i + 1].tell
      BY <1>1, <1>5, <3>1 DEF LoadOK
    <3> QED
      BY <1>3, <3>1, <3>2
  <2> QED
    BY <1>8, <2>1, <2>2 DEF LoadOK, dst
<1>10. Simple(p.reply) /\ Len(p.reply) <= MAX_SR_LEN
  BY DEF PacketOK
<1> QED
  BY <1>6, <1>7, <1>8, <1>9, <1>10 DEF Waits, PacketOK, rest

\* The error that a node holds.
LEMMA HoldsError ==
    ASSUME NEW E, NEW p, PacketOK(p, E), p.errors # <<>>
    PROVE  [Last(p.errors) EXCEPT !.tell = GRAT_ROUTE_ERROR] \in Error
<1> DEFINE x == Last(p.errors)
<1>1. p.errors \in Seq(Error)
  BY DEF PacketOK, Header
<1>2. Len(p.errors) \in Nat \ {0}
  BY <1>1, EmptySeq, LenProperties
<1>3. x \in Error
  BY <1>1, <1>2, ElementOfSeq DEF Last
<1> HIDE DEF x
<1>4. [x EXCEPT !.tell = GRAT_ROUTE_ERROR] \in Error
  BY <1>3, DSRAssumption DEF Error
<1> QED
  BY <1>4 DEF x

LEMMA processBrokenRouteErrorOK ==
    ASSUME NEW s, NEW n \in Node, NEW D, NEW N, AgentOK(s, n, D, N),
           NEW E, NEW p, PacketOK(p, E), p.errors # <<>>
    PROVE  LET t == processBrokenRouteError(s, n, p)
           IN  AgentOK(t, n, D, N) /\ t.number >= s.number
<1> DEFINE forgot == noticeDeadLink(s, {e.down : e \in ToSet(p.errors)})
           last == [Last(p.errors) EXCEPT !.tell = GRAT_ROUTE_ERROR]
           held == [forgot EXCEPT !.held = last]
           rest == Front(p.errors)
           t == processBrokenRouteError(s, n, p)
<1>1. AgentOK(forgot, n, D, N) /\ forgot.number = s.number
  BY noticeDeadLinkOK
<1>2. s.number \in Nat
  BY DEF AgentOK, AskedOK
<1>3. last \in Error
  BY HoldsError
<1> HIDE DEF last, forgot
<1>4. AgentOK(held, n, D, N) /\ held.number = forgot.number
  BY <1>1, <1>3, HeldChanged
<1>5. CASE Last(p.errors).tell # n
  <2>1. t = forgot
    BY <1>5 DEF processBrokenRouteError, forgot
  <2> HIDE DEF t
  <2> QED
    BY <1>1, <1>2, <2>1 DEF t
<1>6. CASE Last(p.errors).tell = n /\ rest = <<>>
  <2>1. t = held
    BY <1>6 DEF processBrokenRouteError, forgot, last
  <2> HIDE DEF t, held
  <2> QED
    BY <1>1, <1>2, <1>4, <2>1 DEF t
<1>7. CASE Last(p.errors).tell = n /\ rest # <<>>
  <2> DEFINE q == Onward(p, n, rest)
  <2>1. t = handlePktWithoutSR(held, n, q)
    BY <1>7 DEF processBrokenRouteError, forgot, last, Onward
  <2>2. Waits(q, n, D)
    BY <1>7, OnwardOK
  <2> HIDE DEF t, held, q
  <2>3. AgentOK(t, n, D, N) /\ t.number >= held.number
    BY <1>4, <2>1, <2>2, handlePktWithoutSROK
  <2> QED
    BY <1>1, <1>4, <2>3 DEF t
<1> QED
  BY <1>5, <1>6, <1>7
\* A salvaged packet: its reply is dropped if it is useless.
Salvaged(p, reply) == [p EXCEPT !.salvaged = @ + 1, !.reply = reply]

LEMMA SalvagedOK ==
    ASSUME NEW n, NEW D, NEW p, Waits(p, n, D), ~ (p.salvaged >= dsr_salvage_max_attempts),
           NEW reply, reply \in {<<>>, p.reply}
    PROVE  Waits(Salvaged(p, reply), n, D) /\ Salvaged(p, reply).dst = p.dst
<1> DEFINE u == [p EXCEPT !.salvaged = p.salvaged + 1]
           q == [u EXCEPT !.reply = reply]
<1>1. p \in Header(D) /\ LoadOK(p) /\ p.request = 0 /\ p.dst # n
  BY DEF Waits, PacketOK
<1>2. p.salvaged + 1 \in 0..dsr_salvage_max_attempts
  BY <1>1, DSRAssumption DEF Header
<1>3. reply \in Seq(Node) /\ Simple(reply) /\ Len(reply) <= MAX_SR_LEN
  <2>1. <<>> \in Seq(Node) /\ Simple(<<>>) /\ Len(<<>>) <= MAX_SR_LEN
    BY EmptySeq, DSRAssumption DEF Simple
  <2>2. p.reply \in Seq(Node) /\ Simple(p.reply) /\ Len(p.reply) <= MAX_SR_LEN
    BY DEF Waits, PacketOK, Header
  <2> QED
    BY <2>1, <2>2
<1>4. Salvaged(p, reply) = q
  BY DEF Salvaged
<1>5. /\ q \in Header(D) /\ q.reply = reply /\ q.request = 0 /\ q.src = p.src /\ q.dst = p.dst
      /\ q.data = p.data /\ q.errors = p.errors
  <2>1. /\ u \in Header(D) /\ u.request = 0 /\ u.src = p.src /\ u.dst = p.dst
        /\ u.data = p.data /\ u.errors = p.errors
    BY <1>1, <1>2 DEF Header
  <2> HIDE DEF u
  <2> QED
    BY <1>3, <2>1 DEF Header
<1> HIDE DEF q
<1>6. LoadOK(q)
  BY <1>1, <1>5 DEF LoadOK
<1> QED
  BY <1>1, <1>3, <1>4, <1>5, <1>6 DEF Waits, PacketOK

LEMMA undeliverablePktOK ==
    ASSUME NEW s, NEW n \in Node, NEW D, NEW N, AgentOK(s, n, D, N), NEW p, Waits(p, n, D)
    PROVE  LET t == undeliverablePkt(s, n, p)
           IN  AgentOK(t, n, D, N) /\ t.number >= s.number
<1> DEFINE hop == IF p.at < Len(p.route) THEN p.route[p.at + 1] ELSE None
           reply == IF BadReply(p, n, hop) THEN <<>> ELSE p.reply
           q == Salvaged(p, reply)
           t == undeliverablePkt(s, n, p)
<1>1. s.number \in Nat
  BY DEF AgentOK, AskedOK
<1>2. CASE p.src = n
  <2>1. t = handlePktWithoutSR(s, n, p)
    BY <1>2 DEF undeliverablePkt
  <2> HIDE DEF t
  <2> QED
    BY <2>1, handlePktWithoutSROK DEF t
<1>3. CASE /\ p.src # n
           /\ \/ p.salvaged >= dsr_salvage_max_attempts
              \/ RoutesTo(s, p.dst) # {} /\ BadReply(p, n, hop) /\ p.errors = <<>>
  <2>1. t = s
    BY <1>3 DEF undeliverablePkt
  <2> QED
    BY <1>1, <2>1
<1>4. CASE p.src # n /\ ~ (p.salvaged >= dsr_salvage_max_attempts) /\ RoutesTo(s, p.dst) = {}
  <2>1. t = stickPacketInSendBuffer(s, p)
    BY <1>4 DEF undeliverablePkt
  <2> HIDE DEF t
  <2>2. AgentOK(t, n, D, N) /\ t.number = s.number
    BY <2>1, stickOK
  <2> QED
    BY <1>1, <2>2 DEF t
<1>5. CASE /\ p.src # n /\ ~ (p.salvaged >= dsr_salvage_max_attempts)
           /\ RoutesTo(s, p.dst) # {} /\ ~ (BadReply(p, n, hop) /\ p.errors = <<>>)
  <2>1. t = SendAlong(s, n, q, findRoute(s, p.dst))
    BY <1>5 DEF undeliverablePkt, Salvaged
  <2>2. reply \in {<<>>, p.reply}
    OBVIOUS
  <2> HIDE DEF reply
  <2>3. Waits(q, n, D) /\ q.dst = p.dst
    BY <1>5, <2>2, SalvagedOK
  <2> HIDE DEF q, t
  <2>4. t = SendAlong(s, n, q, findRoute(s, q.dst)) /\ RoutesTo(s, q.dst) # {}
    BY <1>5, <2>1, <2>3
  <2>5. AgentOK(t, n, D, N) /\ t.number = s.number
    BY <2>3, <2>4, RouteKnown
  <2> QED
    BY <1>1, <2>5 DEF t
<1> QED
  BY <1>2, <1>3, <1>4, <1>5

Salvage(s, n, frames) ==
    CHOOSE after : after = [i \in 0..Len(frames) |->
        IF i = 0 THEN s ELSE undeliverablePkt(after[i - 1], n, frames[i].pkt)]

LEMMA SalvageExists ==
    ASSUME NEW s, NEW n, NEW frames, Len(frames) \in Nat
    PROVE  LET after == Salvage(s, n, frames)
           IN  after = [i \in 0..Len(frames) |->
                   IF i = 0 THEN s ELSE undeliverablePkt(after[i - 1], n, frames[i].pkt)]
<1> DEFINE next(i, t) == undeliverablePkt(t, n, frames[i].pkt)
           Upto(k, f) == f = [i \in 0..k |-> IF i = 0 THEN s ELSE next(i, f[i - 1])]
           T == {k \in Nat : ~ \E f : Upto(k, f)}
<1> HIDE DEF next
<1>1. T = {}
  <2> SUFFICES ASSUME T # {} PROVE FALSE
    OBVIOUS
  <2>1. T \subseteq Nat
    OBVIOUS
  <2>a. PICK k \in T : \A j \in T : k <= j
    <3> HIDE DEF T
    <3> QED
      BY <2>1, LeastNat
  <2>2. k # 0
    <3> SUFFICES ASSUME k = 0 PROVE FALSE
      OBVIOUS
    <3>1. Upto(0, [i \in 0..0 |-> s])
      OBVIOUS
    <3> QED
      BY <3>1
  <2>3. k \in Nat /\ k - 1 \in Nat /\ k - 1 \notin T
    <3> HIDE DEF T
    <3> QED
      BY <2>1, <2>a, <2>2
  <2>4. PICK f : Upto(k - 1, f)
    BY <2>3
  <2> DEFINE g == [i \in 0..k |-> IF i = k THEN next(k, f[k - 1]) ELSE f[i]]
  <2>5. ASSUME NEW i \in 0..k
        PROVE  g[i] = IF i = 0 THEN s ELSE next(i, g[i - 1])
    <3>1. CASE i = k
      BY <3>1, <2>2, <2>3
    <3>2. CASE i # k
      <4>1. i \in 0..(k - 1) /\ g[i] = f[i]
        BY <3>2, <2>3
      <4>2. f[i] = IF i = 0 THEN s ELSE next(i, f[i - 1])
        BY <2>4, <4>1
      <4>3. i # 0 => i - 1 \in 0..k /\ i - 1 # k
        BY <4>1
      <4>4. i # 0 => g[i - 1] = f[i - 1]
        BY <4>3
      <4> QED
        BY <4>1, <4>2, <4>4
    <3> QED
      BY <3>1, <3>2
  <2>6. Upto(k, g)
    <3>1. g = [i \in 0..k |-> g[i]]
      OBVIOUS
    <3> HIDE DEF g
    <3> QED
      BY <3>1, <2>5
  <2> QED
    BY <2>6
<1>2. \E f : Upto(Len(frames), f)
  BY <1>1
<1>3. Upto(Len(frames), CHOOSE f : Upto(Len(frames), f))
  BY <1>2
<1> QED
  BY <1>3 DEF Salvage, next

LEMMA salvageAllOK ==
    ASSUME NEW s, NEW n \in Node, NEW D, NEW N, AgentOK(s, n, D, N),
           NEW frames, Len(frames) \in Nat, \A i \in 1..Len(frames) : Waits(frames[i].pkt, n, D)
    PROVE  LET t == salvageAll(s, n, frames)
           IN  AgentOK(t, n, D, N) /\ t.number >= s.number
<1> DEFINE after == Salvage(s, n, frames)
           L == Len(frames)
           OK(i) == AgentOK(after[i], n, D, N) /\ after[i].number >= s.number
           T == {i \in 0..L : ~OK(i)}
<1>1. L \in Nat /\ s.number \in Nat /\ \A i \in 1..L : Waits(frames[i].pkt, n, D)
  BY DEF AgentOK, AskedOK
<1>2. salvageAll(s, n, frames) = after[L]
  BY DEF salvageAll, Salvage
<1>3. after = [i \in 0..L |-> IF i = 0 THEN s ELSE undeliverablePkt(after[i - 1], n, frames[i].pkt)]
  BY <1>1, SalvageExists
<1> HIDE DEF after, L
<1>4. after[0] = s
  BY <1>1, <1>3
<1>5. OK(0)
  BY <1>1, <1>4
<1>6. ASSUME NEW i \in 1..L, OK(i - 1) PROVE OK(i)
  <2>1. i \in 0..L /\ i # 0
    BY <1>1
  <2>2. after[i] = undeliverablePkt(after[i - 1], n, frames[i].pkt)
    BY <1>3, <2>1
  <2>3. AgentOK(after[i], n, D, N) /\ after[i].number >= after[i - 1].number
    BY <1>1, <1>6, <2>2, undeliverablePktOK
  <2>4. after[i].number \in Nat /\ after[i - 1].number \in Nat
    BY <1>6, <2>3 DEF AgentOK, AskedOK
  <2> QED
    BY <1>1, <1>6, <2>3, <2>4
<1> HIDE DEF OK
<1>7. T = {}
  <2> SUFFICES ASSUME T # {} PROVE FALSE
    OBVIOUS
  <2>1. T \subseteq Nat
    BY <1>1
  <2>2. PICK k \in T : \A j \in T : k <= j
    <3> HIDE DEF T
    <3> QED
      BY <2>1, LeastNat
  <2>3. k \in 1..L /\ k - 1 \in 0..L /\ ~ (k <= k - 1)
    BY <1>1, <1>5
  <2>4. k - 1 \notin T
    <3> HIDE DEF T
    <3> QED
      BY <2>2, <2>3
  <2> QED
    BY <1>6, <2>3, <2>4
<1>8. OK(L)
  BY <1>1, <1>7
<1> QED
  BY <1>2, <1>8 DEF OK

\* All members of a finite set of frames, in some order.
LEMMA SetToSeqOK ==
    ASSUME NEW S, IsFiniteSet(S)
    PROVE  Len(SetToSeq(S)) \in Nat /\ \A i \in 1..Len(SetToSeq(S)) : SetToSeq(S)[i] \in S
<1> DEFINE c == Cardinality(S)
           f == SetToSeq(S)
<1>1. c \in Nat /\ ExistsBijection(1..c, S)
  BY FS_CardinalityType
<1> HIDE DEF c
<1>2. \E g \in [1..c -> S] : IsInjective(g)
  BY <1>1 DEF ExistsBijection, Bijection, Injection, IsInjective
<1>3. f \in [1..c -> S]
  BY <1>2 DEF SetToSeq, c
<1> HIDE DEF f
<1>4. Len(f) = c
  BY <1>1, <1>3
<1> QED
  BY <1>1, <1>3, <1>4 DEF f

LEMMA FrameWaits ==
    ASSUME NEW f, NEW n, NEW D, FrameOK(f, n, D), f.to \in Node
    PROVE  /\ Travels(f.pkt, n, f.to) /\ Waits(f.pkt, n, D) /\ f.to # n
           /\ f.pkt.route \in Seq(Node) /\ Len(f.pkt.route) \in Nat
<1> DEFINE p == f.pkt
           r == f.pkt.route
<1>1. Travels(p, n, f.to) /\ PacketOK(p, D) /\ Simple(r)
  BY DSRAssumption DEF FrameOK
<1>2. r \in Seq(Node) /\ Len(r) \in Nat
  BY <1>1, LenProperties DEF PacketOK, Header
<1>3. /\ p.at \in 2..Len(r) /\ r[p.at - 1] = n /\ r[p.at] = f.to /\ r[Len(r)] = p.dst
      /\ p.request = 0
  BY <1>1 DEF Travels, Last
<1> HIDE DEF r, p
<1>4. p.at - 1 \in 1..Len(r) /\ p.at \in 1..Len(r) /\ Len(r) \in 1..Len(r) /\ p.at - 1 # Len(r)
      /\ p.at - 1 # p.at
  BY <1>2, <1>3
<1>5. p.dst # n /\ f.to # n
  BY <1>1, <1>3, <1>4 DEF Simple
<1> QED
  BY <1>1, <1>2, <1>3, <1>5 DEF Waits, p, r
\* What p becomes when n cannot send it to next.
ErrorOf(n, p, next) ==
    RouteError(n, p, Append(p.errors, [down |-> <<n, next>>, tell |-> p.route[1]]))

LEMMA RouteErrorOK ==
    ASSUME NEW n \in Node, NEW D, NEW E, NEW p, PacketOK(p, E), p.request = 0, Simple(p.route),
           Last(p.route) = p.dst, Len(p.route) >= 2, p.route[1] # n,
           NEW next \in Node, ~ (Len(p.errors) >= MAX_ROUTE_ERRORS)
    PROVE  Waits(ErrorOf(n, p, next), n, D) /\ ErrorOf(n, p, next).dst = p.route[1]
<1> DEFINE r == p.route
           e == [down |-> <<n, next>>, tell |-> r[1]]
           old == p.errors
           L == Len(old)
           errors == Append(old, e)
           u == [p EXCEPT !.errors = errors]
           v == [u EXCEPT !.reply = <<>>]
           w == [v EXCEPT !.src = n]
           x == [w EXCEPT !.dst = r[1]]
           q == [x EXCEPT !.data = None]
<1>1. p \in Header(E) /\ LoadOK(p) /\ r \in Seq(Node) /\ Len(r) \in Nat
  BY LenProperties DEF PacketOK, Header
<1>2. r[1] \in Node /\ e \in Error
  <2>1. r[1] \in Node
    BY <1>1, ElementOfSeq
  <2> QED
    BY <2>1 DEF Error
<1>3. old \in Seq(Error) /\ L \in Nat /\ MAX_ROUTE_ERRORS \in Nat /\ L + 1 <= MAX_ROUTE_ERRORS
  BY <1>1, LenProperties, DSRAssumption DEF Header
<1>4. r[1] # p.dst
  <2>1. 1 \in 1..Len(r) /\ Len(r) \in 1..Len(r) /\ 1 # Len(r) /\ r[Len(r)] = p.dst
    BY <1>1 DEF Last
  <2> QED
    BY <2>1 DEF Simple
<1>5. e.tell = r[1]
  OBVIOUS
<1> HIDE DEF e
<1>6. /\ errors \in Seq(Error) /\ Len(errors) = L + 1 /\ errors[L + 1] = e
      /\ \A i \in 1..L : errors[i] = old[i]
  BY <1>2, <1>3, AppendProperties
<1>7. ErrorOf(n, p, next) = q
  BY DEF ErrorOf, RouteError, e
<1> HIDE DEF errors
<1>8. <<>> \in Seq(Node) /\ Simple(<<>>) /\ Len(<<>>) <= MAX_SR_LEN
  BY EmptySeq, DSRAssumption DEF Simple
<1>9. /\ q \in Header(D) /\ q.errors = errors /\ q.reply = <<>> /\ q.src = n /\ q.dst = r[1]
      /\ q.data = None /\ q.request = 0
  <2> DEFINE Good(z) == z \in Header(E) /\ z.errors = errors /\ z.request = 0
  <2>1. Good(u)
    BY <1>1, <1>6 DEF Header
  <2> HIDE DEF u
  <2>2. Good(v) /\ v.reply = <<>>
    BY <1>8, <2>1 DEF Header
  <2> HIDE DEF v
  <2>3. Good(w) /\ w.reply = <<>> /\ w.src = n
    BY <2>2 DEF Header
  <2> HIDE DEF w
  <2>4. Good(x) /\ x.reply = <<>> /\ x.src = n /\ x.dst = r[1]
    BY <1>2, <2>3 DEF Header
  <2> HIDE DEF x
  <2> QED
    BY <2>4 DEF Header
<1> HIDE DEF q
<1>10. LoadOK(q)
  <2>1. q.dst = Last(errors).tell
    BY <1>3, <1>5, <1>6, <1>9 DEF Last
  <2>2. ASSUME NEW i \in 1..Len(errors) - 1 PROVE errors[i].tell # errors[i + 1].tell
    <3>1. i \in 1..L
      BY <1>3, <1>6
    <3>2. CASE i = L
      <4>1. old # <<>> /\ p.dst = Last(old).tell
        BY <1>1, <1>3, <3>1, EmptySeq DEF LoadOK
      <4> QED
        BY <1>4, <1>5, <1>6, <3>1, <3>2, <4>1 DEF Last
    <3>3. CASE i # L
      <4>1. i \in 1..L - 1 /\ i + 1 \in 1..L
        BY <1>3, <3>1, <3>3
      <4>2. old[i].tell # old[i + 1].tell
        BY <1>1, <4>1 DEF LoadOK
      <4> QED
        BY <1>6, <3>1, <4>1, <4>2
    <3> QED
      BY <3>2, <3>3
  <2> QED
    BY <1>3, <1>6, <1>9, <2>1, <2>2 DEF LoadOK
<1>11. Waits(q, n, D)
  BY <1>8, <1>9, <1>10 DEF Waits, PacketOK
<1> QED
  BY <1>7, <1>9, <1>11

LEMMA xmitFailedOK ==
    ASSUME NEW s, NEW n \in Node, NEW D, NEW N, AgentOK(s, n, D, N),
           NEW f, FrameOK(f, n, D), f.to \in Node
    PROVE  LET t == xmitFailed(s, n, f.pkt)
           IN  AgentOK(t, n, D, N) /\ t.number >= s.number
<1> DEFINE p == f.pkt
           r == p.route
           i == p.at - 1
           here == [p EXCEPT !.at = @ - 1]
           next == p.route[p.at]
           forgot == noticeDeadLink(s, {<<n, next>>})
           behind == {g \in s.ifq : g.to = next}
           without == [forgot EXCEPT !.ifq = @ \ behind]
           first == undeliverablePkt(without, n, here)
           frames == SetToSeq(behind)
           salvaged == salvageAll(first, n, frames)
           q == ErrorOf(n, p, next)
           back == Reverse(SubSeq(p.route, 1, here.at))
           t == xmitFailed(s, n, p)
<1>1. /\ Travels(p, n, f.to) /\ Waits(p, n, D) /\ PacketOK(p, D) /\ Simple(r)
      /\ r \in Seq(Node) /\ Len(r) \in Nat /\ Len(r) <= MAX_SR_LEN
  BY FrameWaits DEF Waits, FrameOK
<1>2. /\ p.at \in 2..Len(r) /\ r[p.at - 1] = n /\ next = f.to /\ Last(r) = p.dst
      /\ p.request = 0 /\ next \in Node
  BY <1>1 DEF Travels
<1>3. Waits(here, n, D) /\ here.at = i
  <2>1. p.at - 1 \in Nat
    BY <1>1, <1>2
  <2>2. here = [p EXCEPT !.at = p.at - 1]
    OBVIOUS
  <2> HIDE DEF here, p
  <2>3. /\ PacketOK(here, D) /\ here.at = p.at - 1 /\ here.dst = p.dst
        /\ here.request = p.request
    BY <1>1, <2>1, <2>2, PlaceChanged
  <2> QED
    BY <1>1, <2>3 DEF Waits
<1>4. t = IF p.route[1] = n \/ Len(p.errors) >= MAX_ROUTE_ERRORS THEN salvaged
          ELSE SendAlong(salvaged, n, q, back)
  BY DEF xmitFailed, ErrorOf
<1> HIDE DEF here, next
<1>5. AgentOK(forgot, n, D, N) /\ forgot.number = s.number
  BY noticeDeadLinkOK
<1> HIDE DEF forgot
<1>6. AgentOK(without, n, D, N) /\ without.number = forgot.number
  BY <1>5, FramesRemoved
<1> HIDE DEF without
<1>7. AgentOK(first, n, D, N) /\ first.number >= without.number
  BY <1>3, <1>6, undeliverablePktOK
<1> HIDE DEF first
<1>8. IsFiniteSet(behind) /\ \A g \in behind : Waits(g.pkt, n, D)
  <2>1. IsFiniteSet(s.ifq) /\ behind \subseteq s.ifq
    BY DEF AgentOK, FramesOK
  <2>2. ASSUME NEW g \in behind PROVE Waits(g.pkt, n, D)
    <3>1. FrameOK(g, n, D) /\ g.to \in Node
      BY <1>2 DEF AgentOK, FramesOK
    <3> QED
      BY <3>1, FrameWaits
  <2> HIDE DEF behind
  <2> QED
    BY <2>1, <2>2, FS_Subset
<1> HIDE DEF behind
<1>9. Len(frames) \in Nat /\ \A j \in 1..Len(frames) : Waits(frames[j].pkt, n, D)
  BY <1>8, SetToSeqOK
<1> HIDE DEF frames
<1>10. AgentOK(salvaged, n, D, N) /\ salvaged.number >= first.number
  BY <1>7, <1>9, salvageAllOK
<1> HIDE DEF salvaged
<1>11. salvaged.number >= s.number
  <2>1. /\ s.number \in Nat /\ forgot.number \in Nat /\ without.number \in Nat
        /\ first.number \in Nat /\ salvaged.number \in Nat
    BY <1>5, <1>6, <1>7, <1>10 DEF AgentOK, AskedOK
  <2> QED
    BY <1>5, <1>6, <1>7, <1>10, <2>1
<1>12. CASE p.route[1] = n \/ Len(p.errors) >= MAX_ROUTE_ERRORS
  <2>1. t = salvaged
    BY <1>4, <1>12
  <2> HIDE DEF t
  <2> QED
    BY <1>10, <1>11, <2>1 DEF t
<1>13. CASE ~ (p.route[1] = n \/ Len(p.errors) >= MAX_ROUTE_ERRORS)
  <2>1. t = SendAlong(salvaged, n, q, back)
    BY <1>4, <1>13
  <2>2. Waits(q, n, D) /\ q.dst = r[1]
    <3>1. Len(r) >= 2
      BY <1>1, <1>2
    <3> HIDE DEF p
    <3> QED
      BY <1>1, <1>2, <1>13, <3>1, RouteErrorOK
  <2>3. i \in 2..Len(r) /\ i <= MAX_SR_LEN /\ 1 \in 1..Len(r) /\ i \in 1..Len(r)
    <3>1. p.at - 1 # 1
      BY <1>2, <1>13
    <3>2. MAX_SR_LEN \in Nat
      BY DSRAssumption
    <3> HIDE DEF p
    <3> QED
      BY <1>1, <1>2, <3>1, <3>2
  <2> DEFINE part == SubSeq(p.route, 1, here.at)
  <2>4. /\ part \in Seq(Node) /\ Simple(part) /\ Len(part) = i
        /\ part[1] = r[1] /\ Last(part) = n
    <3> HIDE DEF i
    <3>1. /\ SubSeq(r, 1, i) \in Seq(Node) /\ Simple(SubSeq(r, 1, i))
          /\ Len(SubSeq(r, 1, i)) = i - 1 + 1
          /\ \A j \in 1..(i - 1 + 1) : SubSeq(r, 1, i)[j] = r[1 + j - 1]
      BY <1>1, <2>3, PartIsSimple
    <3>2. part = SubSeq(r, 1, i) /\ r[i] = n
      BY <1>2, <1>3 DEF i
    <3> HIDE DEF part, r
    <3> QED
      BY <2>3, <3>1, <3>2 DEF Last
  <2>5. i \in 2..MAX_SR_LEN
    BY <2>3, DSRAssumption
  <2> HIDE DEF part, i
  <2>6. Way(Reverse(part), n) /\ Last(Reverse(part)) = r[1]
    BY <2>4, <2>5, ReverseOK
  <2>7. Way(back, n) /\ back[Len(back)] = q.dst
    BY <2>2, <2>6 DEF part, Last
  <2> HIDE DEF t, q, back
  <2>8. AgentOK(t, n, D, N) /\ t.number = salvaged.number
    BY <1>10, <2>1, <2>2, <2>7, SendAlongOK
  <2> QED
    BY <1>11, <2>8 DEF t
<1> QED
  BY <1>12, <1>13

-----------------------------------------------------------------------------
(* Packets that arrive *)

LEMMA handleForwardingOK ==
    ASSUME NEW s, NEW n \in Node, NEW D, NEW N, AgentOK(s, n, D, N),
           NEW p, NEW m, PacketOK(p, D), Travels(p, m, n), Simple(p.route),
           Len(p.route) <= MAX_SR_LEN, p.dst # n
    PROVE  LET t == handleForwarding(s, n, p)
           IN  AgentOK(t, n, D, N) /\ t.number = s.number
<1> DEFINE r == p.route
           rest == SubSeq(r, p.at, Len(r))
           u == addRoute(s, n, rest)
<1>1. r \in Seq(Node) /\ Len(r) \in Nat /\ MAX_SR_LEN \in Nat
  BY LenProperties, DSRAssumption DEF PacketOK, Header
<1>2. p.at \in 2..Len(r) /\ r[p.at] = n /\ Last(r) = p.dst /\ p.request = 0
  BY DEF Travels
<1>3. p.at \in 1..Len(r) - 1 /\ p.at \in 1..Len(r) /\ Len(r) \in p.at..Len(r)
  BY <1>1, <1>2 DEF Last
<1>4. rest \in Seq(Node) /\ Simple(rest) /\ Len(rest) = Len(r) - p.at + 1
  BY <1>1, <1>3, PartIsSimple
<1>5. handleForwarding(s, n, p) = sendOutPacketWithRoute(u, n, p)
  BY DEF handleForwarding
<1> HIDE DEF rest
<1>6. Len(rest) <= MAX_SR_LEN
  BY <1>1, <1>3, <1>4
<1>7. AgentOK(u, n, D, N) /\ u.number = s.number
  BY <1>4, <1>6, addRouteOK
<1> HIDE DEF u
<1> QED
  BY <1>2, <1>3, <1>5, <1>7, sendOutUnicast

\* What a frame of another node brings: a packet on its way to n or a request.
Arrives(p, n, E) ==
    /\ PacketOK(p, E) /\ Simple(p.route) /\ Len(p.route) <= MAX_SR_LEN
    /\ Request(p, E) \/ \E m \in Node : Travels(p, m, n)

LEMMA handlePacketReceiptOK ==
    ASSUME NEW s, NEW n \in Node, NEW D, NEW N, AgentOK(s, n, D, N),
           NEW E, NEW p, Arrives(p, n, E), p.dst = n,
           p.request < Number(s, n, N, p.src)
    PROVE  LET t == handlePacketReceipt(s, n, p)
           IN  AgentOK(t, n, D, N) /\ t.number >= s.number
<1> DEFINE replied == IF p.reply # <<>> THEN acceptRouteReply(s, n, p) ELSE s
           asked == IF p.request = 0 THEN replied
                    ELSE returnSrcRouteToRequestor(Recorded(replied, p), n, p)
           t == handlePacketReceipt(s, n, p)
<1>0. t = IF p.errors # <<>> THEN processBrokenRouteError(asked, n, p) ELSE asked
  BY DEF handlePacketReceipt
<1>1. /\ p \in Header(E) /\ p.reply \in Seq(Node) /\ p.src \in Node /\ p.request \in Nat
      /\ Simple(p.reply) /\ Len(p.reply) <= MAX_SR_LEN /\ PacketOK(p, E)
  BY DEF Arrives, PacketOK, Header
<1>2. s.number \in Nat /\ N \in [Node -> Nat]
  BY DEF AgentOK, AskedOK, SeenOK
<1>3. AgentOK(replied, n, D, N) /\ replied.number >= s.number
  BY <1>1, <1>2, acceptRouteReplyOK
<1> HIDE DEF replied
<1>4. AgentOK(asked, n, D, N) /\ asked.number = replied.number
  <2>1. CASE p.request = 0
    BY <1>3, <2>1
  <2>2. CASE p.request # 0
    <3> DEFINE new == Recorded(replied, p)
    <3>1. p.request < Number(replied, n, N, p.src)
      <4>1. replied.number \in Nat
        BY <1>3 DEF AgentOK, AskedOK
      <4> QED
        BY <1>1, <1>2, <1>3, <4>1 DEF Number
    <3>2. AgentOK(new, n, D, N) /\ new.number = replied.number
      BY <1>1, <1>3, <3>1, RecordedOK
    <3>3. Request(p, E)
      BY <2>2 DEF Arrives, Travels
    <3>4. asked = returnSrcRouteToRequestor(new, n, p)
      BY <2>2
    <3>5. Request(p, D)
      BY <3>3 DEF Request, PacketOK, LoadOK, Header
    <3> HIDE DEF new, asked
    <3> QED
      BY <3>2, <3>4, <3>5, returnSrcRouteOK
  <2> QED
    BY <2>1, <2>2
<1> HIDE DEF asked
<1>5. asked.number \in Nat /\ replied.number \in Nat
  BY <1>3, <1>4 DEF AgentOK, AskedOK
<1>6. CASE p.errors # <<>>
  <2>1. t = processBrokenRouteError(asked, n, p)
    BY <1>0, <1>6
  <2> HIDE DEF t
  <2>2. AgentOK(t, n, D, N) /\ t.number >= asked.number
    BY <1>1, <1>4, <1>6, <2>1, processBrokenRouteErrorOK
  <2>3. t.number \in Nat
    BY <2>2 DEF AgentOK, AskedOK
  <2> QED
    BY <1>2, <1>3, <1>4, <1>5, <2>2, <2>3 DEF t
<1>7. CASE p.errors = <<>>
  <2>1. t = asked
    BY <1>0, <1>7
  <2> HIDE DEF t
  <2> QED
    BY <1>3, <1>4, <2>1 DEF t
<1> QED
  BY <1>6, <1>7

\* Packets whose journey ends at n: those for n and data that n drops.
Ends(n, p) == p.dst = n \/ (p.src # n /\ n \in selfish /\ p.data # None)

LEMMA recvOK ==
    ASSUME NEW s, NEW n \in Node, NEW D, NEW N, AgentOK(s, n, D, N),
           NEW E, NEW p, Arrives(p, n, E), p.request < Number(s, n, N, p.src),
           Ends(n, p) \/ p.data \in D \cup {None}
    PROVE  LET t == recv(s, n, p)
           IN  AgentOK(t, n, D, N) /\ t.number >= s.number
<1> DEFINE snooped == IF p.errors # <<>> THEN processBrokenRouteError(s, n, p) ELSE s
           t == recv(s, n, p)
<1>0. t = IF p.dst = n THEN handlePacketReceipt(s, n, p)
          ELSE IF p.request > 0 THEN handleRouteRequest(snooped, n, p)
          ELSE IF p.src # n /\ n \in selfish /\ p.data # None THEN snooped
          ELSE handleForwarding(snooped, n, p)
  BY DEF recv
<1>1. PacketOK(p, E) /\ p \in Header(E) /\ p.src \in Node /\ p.request \in Nat
  BY DEF Arrives, PacketOK, Header
<1>2. s.number \in Nat /\ N \in [Node -> Nat]
  BY DEF AgentOK, AskedOK, SeenOK
<1>3. AgentOK(snooped, n, D, N) /\ snooped.number >= s.number
  BY <1>1, <1>2, processBrokenRouteErrorOK
<1> HIDE DEF snooped
<1>4. snooped.number \in Nat
  BY <1>3 DEF AgentOK, AskedOK
<1>5. CASE p.dst = n
  <2>1. t = handlePacketReceipt(s, n, p)
    BY <1>0, <1>5
  <2> HIDE DEF t
  <2> QED
    BY <1>5, <2>1, handlePacketReceiptOK DEF t
<1>6. CASE p.dst # n /\ p.request > 0
  <2>1. t = handleRouteRequest(snooped, n, p)
    BY <1>0, <1>6
  <2>2. Request(p, E)
    BY <1>6 DEF Arrives, Travels
  <2>3. Request(p, D)
    BY <2>2 DEF Request, PacketOK, LoadOK, Header
  <2>4. p.request < Number(snooped, n, N, p.src)
    BY <1>1, <1>2, <1>3, <1>4 DEF Number
  <2> HIDE DEF t
  <2>5. AgentOK(t, n, D, N) /\ t.number = snooped.number
    BY <1>3, <1>6, <2>1, <2>3, <2>4, handleRouteRequestOK
  <2> QED
    BY <1>3, <2>5 DEF t
<1>7. CASE /\ p.dst # n /\ ~ (p.request > 0)
           /\ p.src # n /\ n \in selfish /\ p.data # None
  <2>1. t = snooped
    BY <1>0, <1>7
  <2> HIDE DEF t
  <2> QED
    BY <1>3, <2>1 DEF t
<1>8. CASE /\ p.dst # n /\ ~ (p.request > 0)
           /\ ~ (p.src # n /\ n \in selfish /\ p.data # None)
  <2>1. t = handleForwarding(snooped, n, p)
    BY <1>0, <1>8
  <2>2. PICK m \in Node : Travels(p, m, n)
    BY <1>8 DEF Arrives, Request
  <2>3. p.data \in D \cup {None}
    BY <1>8 DEF Ends
  <2>4. PacketOK(p, D)
    BY <1>1, <2>3 DEF PacketOK, Header
  <2>5. Simple(p.route) /\ Len(p.route) <= MAX_SR_LEN
    BY DEF Arrives
  <2> HIDE DEF t
  <2>6. AgentOK(t, n, D, N) /\ t.number = snooped.number
    BY <1>3, <1>8, <2>1, <2>2, <2>4, <2>5, handleForwardingOK
  <2> QED
    BY <1>3, <2>6 DEF t
<1> QED
  BY <1>5, <1>6, <1>7, <1>8
-----------------------------------------------------------------------------
(* Steps *)

LEMMA AgentMonotone ==
    ASSUME NEW s, NEW n, NEW D, NEW N, AgentOK(s, n, D, N), NEW E, D \subseteq E,
           NEW M \in [Node -> Nat], \A o \in Node : M[o] >= N[o]
    PROVE  AgentOK(s, n, E, M)
<1>1. ASSUME NEW o \in Node, NEW k \in Nat, k < Number(s, n, N, o) PROVE k < Number(s, n, M, o)
  <2>1. N[o] \in Nat /\ M[o] \in Nat
    BY DEF AgentOK, SeenOK
  <2> QED
    BY <1>1, <2>1 DEF Number
<1>2. SeenOK(s, n, M)
  <2>1. \A o \in Node : s.seen[o] \in Nat /\ s.seen[o] < Number(s, n, N, o)
    BY DEF AgentOK, SeenOK
  <2> QED
    BY <1>1, <2>1 DEF AgentOK, SeenOK
<1>3. ASSUME NEW p, PacketOK(p, D) PROVE PacketOK(p, E)
  BY <1>3 DEF PacketOK, Header
<1>4. BufferOK(s, n, E)
  <2>1. s.buf \in Seq(Header(D)) /\ Header(D) \subseteq Header(E)
    BY DEF AgentOK, BufferOK, Header
  <2>2. s.buf \in Seq(Header(E))
    BY <2>1, SeqMonotonic
  <2> QED
    BY <1>3, <2>2 DEF AgentOK, BufferOK, Waits
<1>5. FramesOK(s, n, E, M)
  <2>1. ASSUME NEW f \in s.ifq PROVE FrameOK(f, n, E) /\ f.pkt.request < Number(s, n, M, f.pkt.src)
    <3>1. FrameOK(f, n, D) /\ f.pkt.request < Number(s, n, N, f.pkt.src)
      BY DEF AgentOK, FramesOK
    <3>2. f.pkt.src \in Node /\ f.pkt.request \in Nat
      BY <3>1 DEF FrameOK, PacketOK, Header
    <3> QED
      BY <1>1, <1>3, <3>1, <3>2 DEF FrameOK
  <2> QED
    BY <2>1 DEF AgentOK, FramesOK
<1> QED
  BY <1>2, <1>4, <1>5 DEF AgentOK

LEMMA FramesKnown ==
    ASSUME IInv, NEW n \in Node, NEW f \in agent[n].ifq, NEW m \in Node
    PROVE  /\ FrameOK(f, n, begun) /\ f.pkt.request < Number(agent[m], m, Numbers, f.pkt.src)
           /\ f.to = MAC_BROADCAST \/ f.to \in Node
<1>1. FrameOK(f, n, begun) /\ f.pkt.request < Number(agent[n], n, Numbers, f.pkt.src)
  BY DEF IInv, AgentOK, FramesOK
<1>2. f.pkt.src \in Node
  BY <1>1 DEF FrameOK, PacketOK, Header
<1>3. Number(agent[n], n, Numbers, f.pkt.src) = Number(agent[m], m, Numbers, f.pkt.src)
  BY <1>2 DEF Number, Numbers
<1> QED
  BY <1>1, <1>3 DEF FrameOK

LEMMA PacketArrives ==
    ASSUME NEW n \in Node, NEW D, NEW f, FrameOK(f, n, D), NEW m \in Node,
           f.to \in {m, MAC_BROADCAST}
    PROVE  Arrives(f.pkt, m, D)
<1>1. PacketOK(f.pkt, D) /\ Simple(f.pkt.route) /\ Len(f.pkt.route) <= MAX_SR_LEN
  BY DEF FrameOK
<1>2. CASE f.to = MAC_BROADCAST
  <2>1. Request(f.pkt, D)
    BY <1>1, <1>2, DSRAssumption DEF FrameOK, Asks, Request
  <2> QED
    BY <1>1, <2>1 DEF Arrives
<1>3. CASE f.to = m
  <2>1. Travels(f.pkt, n, m)
    BY <1>3, DSRAssumption DEF FrameOK
  <2> QED
    BY <1>1, <2>1 DEF Arrives
<1> QED
  BY <1>2, <1>3

LEMMA NumbersType ==
    ASSUME IInv
    PROVE  Numbers \in [Node -> Nat] /\ \A n \in Node : agent[n].number \in Nat
BY DEF IInv, AgentOK, AskedOK, Numbers

\* When each agent is as it should be with regard to the numbers before a step, and none
\* of them has become less, then all are as they should be after it.
LEMMA AgentsOK ==
    ASSUME IInv, NEW E,
           \A n \in Node : /\ AgentOK(agent'[n], n, E, Numbers)
                           /\ agent'[n].number >= agent[n].number
    PROVE  \A n \in Node : AgentOK(agent'[n], n, E, Numbers')
<1>1. Numbers' = [o \in Node |-> agent'[o].number]
  BY DEF Numbers
<1>2. Numbers' \in [Node -> Nat]
  BY <1>1 DEF AgentOK, AskedOK
<1>3. \A o \in Node : Numbers'[o] >= Numbers[o]
  BY <1>1 DEF Numbers
<1> QED
  BY <1>2, <1>3, AgentMonotone

LEMMA LinksFinite ==
    ASSUME NEW L, L \subseteq Links
    PROVE  IsFiniteSet(L) /\ Cardinality(L) \in Nat
<1>1. IsFiniteSet(SUBSET Node) /\ L \subseteq SUBSET Node
  BY FS_SUBSET, DSRAssumption
<1> QED
  BY <1>1, FS_Subset, FS_CardinalityType

\* The frame as it stays with its sender after a delivery in vain.
Heard(f) == [f EXCEPT !.heard = TRUE]

LEMMA DeliverChanges ==
    ASSUME IInv, NEW n \in Node, NEW f, f.to \in Node, f.to # n,
           Deliver(n, f) \/ DeliverInVain(n, f)
    PROVE  /\ DOMAIN agent' = Node
           /\ agent'[n] = Sent(agent[n], f) \/ agent'[n] = Queued(Sent(agent[n], f), Heard(f))
           /\ agent'[f.to] = recv(agent[f.to], f.to, f.pkt)
           /\ \A k \in Node \ {n, f.to} : agent'[k] = agent[k]
<1> DEFINE m == f.to
           p == f.pkt
           heard == Heard(f)
<1>1. DOMAIN agent = Node /\ IsAgent(agent[n])
  BY DEF IInv, AgentOK
<1>2. CASE Deliver(n, f)
  BY <1>1, <1>2 DEF Deliver
<1>3. CASE DeliverInVain(n, f)
  <2>1. [agent[n] EXCEPT !.ifq = (@ \ {f}) \cup {heard}] = Queued(Sent(agent[n], f), heard)
    BY <1>1 DEF Queued, Sent, IsAgent
  <2>2. agent' = [agent EXCEPT ![n] = [agent[n] EXCEPT !.ifq = (@ \ {f}) \cup {heard}],
                               ![m] = recv(@, m, p)]
    BY <1>3 DEF DeliverInVain, Heard
  <2> HIDE DEF heard
  <2>3. agent'[n] = [agent[n] EXCEPT !.ifq = (@ \ {f}) \cup {heard}]
    BY <1>1, <2>2
  <2>4. agent'[n] = Queued(Sent(agent[n], f), heard)
    BY <2>1, <2>3
  <2>5. /\ DOMAIN agent' = Node
        /\ agent'[f.to] = recv(agent[f.to], f.to, f.pkt)
        /\ \A k \in Node \ {n, f.to} : agent'[k] = agent[k]
    BY <1>1, <2>2
  <2> QED
    BY <2>4, <2>5 DEF heard
<1> QED
  BY <1>2, <1>3

LEMMA DeliverOK ==
    ASSUME IInv, NEW n \in Node, NEW f \in agent[n].ifq, f.to \in Node,
           Deliver(n, f) \/ DeliverInVain(n, f)
    PROVE  IInv'
<1> DEFINE m == f.to
           p == f.pkt
           heard == Heard(f)
<1>1. FrameOK(f, n, begun) /\ p.request < Number(agent[m], m, Numbers, p.src)
  BY FramesKnown
<1>2. AgentOK(agent[n], n, begun, Numbers) /\ AgentOK(agent[m], m, begun, Numbers)
  BY DEF IInv
<1>3. m # n
  BY <1>1, FrameWaits
<1>4. Arrives(p, m, begun)
  BY <1>1, PacketArrives
<1>5. p.data \in begun \cup {None}
  BY <1>1 DEF FrameOK, PacketOK, Header
<1>6. LET t == recv(agent[m], m, p)
      IN  AgentOK(t, m, begun, Numbers) /\ t.number >= agent[m].number
  BY <1>1, <1>2, <1>4, <1>5, recvOK
<1>7. LET t == Sent(agent[n], f)
      IN  AgentOK(t, n, begun, Numbers) /\ t.number = agent[n].number
  BY <1>2, FramesRemoved DEF Sent
<1>8. LET t == Queued(Sent(agent[n], f), heard)
      IN  AgentOK(t, n, begun, Numbers) /\ t.number = agent[n].number
  <2> DEFINE u == Sent(agent[n], f)
  <2>1. AgentOK(u, n, begun, Numbers) /\ u.number = agent[n].number
    BY <1>7
  <2>2. heard.pkt = p /\ heard.to = m /\ heard = [to |-> m, pkt |-> p, heard |-> TRUE]
    <3>1. f = [to |-> m, pkt |-> p, heard |-> f.heard]
      BY <1>1 DEF FrameOK
    <3>2. PICK h : f = [to |-> m, pkt |-> p, heard |-> h]
      BY <3>1
    <3> HIDE DEF m, p
    <3>3. heard = [[to |-> m, pkt |-> p, heard |-> h] EXCEPT !.heard = TRUE]
      BY <3>2 DEF Heard
    <3> HIDE DEF heard
    <3> QED
      BY <3>3
  <2>3. FrameOK(heard, n, begun)
    BY <1>1, <2>2 DEF FrameOK
  <2>4. heard.pkt.request < Number(u, n, Numbers, heard.pkt.src)
    <3>1. p.request < Number(agent[n], n, Numbers, p.src)
      BY FramesKnown
    <3> QED
      BY <2>1, <2>2, <3>1 DEF Number
  <2> HIDE DEF u, heard
  <2>5. AgentOK(Queued(u, heard), n, begun, Numbers) /\ Queued(u, heard).number = u.number
    BY <2>1, <2>3, <2>4, FrameAdded
  <2> QED
    BY <2>1, <2>5 DEF u
<1>9. /\ DOMAIN agent' = Node
      /\ agent'[n] = Sent(agent[n], f) \/ agent'[n] = Queued(Sent(agent[n], f), heard)
      /\ agent'[m] = recv(agent[m], m, p)
      /\ \A k \in Node \ {n, m} : agent'[k] = agent[k]
  BY <1>3, DeliverChanges
<1> HIDE DEF heard, m
<1>10. \A k \in Node : AgentOK(agent'[k], k, begun, Numbers) /\ agent'[k].number >= agent[k].number
  <2> SUFFICES ASSUME NEW k \in Node
               PROVE  AgentOK(agent'[k], k, begun, Numbers) /\ agent'[k].number >= agent[k].number
    OBVIOUS
  <2>1. agent[k].number \in Nat
    BY NumbersType
  <2>2. CASE k = n
    BY <1>7, <1>8, <1>9, <2>1, <2>2
  <2>3. CASE k = m
    BY <1>6, <1>9, <2>3
  <2>4. CASE k \in Node \ {n, m}
    BY <1>9, <2>1, <2>4 DEF IInv
  <2> QED
    BY <2>2, <2>3, <2>4
<1>11. \A k \in Node : AgentOK(agent'[k], k, begun, Numbers')
  BY <1>10, AgentsOK
<1>12. taken' \subseteq begun \X Node
  <2>1. taken' = Taken(f)
    BY DEF Deliver, DeliverInVain
  <2> QED
    BY <1>5, <2>1 DEF IInv, Taken, m
<1>13. begun' = begun /\ link' = link /\ selfish' = selfish
  BY DEF Deliver, DeliverInVain
<1>14. deaf' \in Nat /\ Faults' <= MaxFaults
  <2>1. Cardinality(Links \ link) \in Nat /\ deaf \in Nat /\ MaxFaults \in Nat
    BY LinksFinite, DSRAssumption DEF IInv
  <2>2. deaf' = deaf \/ (deaf' = deaf + 1 /\ Faults < MaxFaults)
    BY DEF Deliver, DeliverInVain
  <2> QED
    BY <1>13, <2>1, <2>2 DEF IInv, Faults
<1> QED
  BY <1>9, <1>11, <1>12, <1>13, <1>14 DEF IInv
LEMMA FailOK ==
    ASSUME IInv, NEW n \in Node, NEW f \in agent[n].ifq, f.to \in Node, Fail(n, f)
    PROVE  IInv'
<1> DEFINE u == Sent(agent[n], f)
           t == xmitFailed(u, n, f.pkt)
<1>1. FrameOK(f, n, begun) /\ AgentOK(agent[n], n, begun, Numbers) /\ DOMAIN agent = Node
  BY FramesKnown DEF IInv
<1>2. AgentOK(u, n, begun, Numbers) /\ u.number = agent[n].number
  BY <1>1, FramesRemoved DEF Sent
<1>3. agent' = [agent EXCEPT ![n] = t]
  BY DEF Fail
<1> HIDE DEF u
<1>4. AgentOK(t, n, begun, Numbers) /\ t.number >= u.number
  BY <1>1, <1>2, xmitFailedOK
<1> HIDE DEF t
<1>5. DOMAIN agent' = Node /\ agent'[n] = t /\ \A k \in Node \ {n} : agent'[k] = agent[k]
  BY <1>1, <1>3
<1>6. \A k \in Node : AgentOK(agent'[k], k, begun, Numbers) /\ agent'[k].number >= agent[k].number
  BY <1>2, <1>4, <1>5, NumbersType DEF IInv
<1>7. \A k \in Node : AgentOK(agent'[k], k, begun, Numbers')
  BY <1>6, AgentsOK
<1>8. begun' = begun /\ link' = link /\ selfish' = selfish /\ taken' = taken
  BY DEF Fail
<1>9. deaf' \in Nat /\ Faults' <= MaxFaults
  <2>1. Cardinality(Links \ link) \in Nat /\ deaf \in Nat /\ MaxFaults \in Nat
    BY LinksFinite, DSRAssumption DEF IInv
  <2>2. deaf' = deaf \/ (deaf' = deaf + 1 /\ Faults < MaxFaults)
    BY DEF Fail
  <2> QED
    BY <1>8, <2>1, <2>2 DEF IInv, Faults
<1> QED
  BY <1>5, <1>7, <1>8, <1>9 DEF IInv

LEMMA BroadcastOK ==
    ASSUME IInv, NEW n \in Node, NEW f \in agent[n].ifq, f.to = MAC_BROADCAST, Broadcast(n, f)
    PROVE  IInv'
<1> DEFINE p == f.pkt
<1>1. PICK heard \in SUBSET {m \in Node : {n, m} \in link} :
        /\ deaf' = deaf + Cardinality({m \in Node \ heard : {n, m} \in link})
        /\ deaf' + Cardinality(Links \ link) <= MaxFaults
        /\ agent' = [m \in Node |-> IF m = n THEN Sent(agent[n], f)
                                    ELSE IF m \in heard THEN recv(agent[m], m, p)
                                    ELSE agent[m]]
        /\ UNCHANGED <<link, selfish, begun, taken>>
  BY DEF Broadcast
<1>2. ASSUME NEW m \in Node
      PROVE  AgentOK(agent'[m], m, begun, Numbers) /\ agent'[m].number >= agent[m].number
  <2>1. AgentOK(agent[m], m, begun, Numbers) /\ agent[m].number \in Nat
    BY NumbersType DEF IInv
  <2>2. CASE m = n
    <3> DEFINE t == Sent(agent[n], f)
    <3>1. AgentOK(t, n, begun, Numbers) /\ t.number = agent[n].number
      BY <2>1, <2>2, FramesRemoved DEF Sent
    <3>2. agent'[n] = t
      BY <1>1
    <3> HIDE DEF t
    <3> QED
      BY <2>1, <2>2, <3>1, <3>2
  <2>3. CASE m # n /\ m \in heard
    <3> DEFINE t == recv(agent[m], m, p)
    <3>1. agent'[m] = t
      BY <1>1, <2>3
    <3>2. FrameOK(f, n, begun) /\ p.request < Number(agent[m], m, Numbers, p.src)
      BY FramesKnown
    <3>3. Arrives(p, m, begun)
      BY <3>2, PacketArrives
    <3>4. p.data \in begun \cup {None}
      BY <3>2 DEF FrameOK, PacketOK, Header
    <3> HIDE DEF t
    <3>5. AgentOK(t, m, begun, Numbers) /\ t.number >= agent[m].number
      BY <2>1, <3>2, <3>3, <3>4, recvOK DEF t
    <3> QED
      BY <3>1, <3>5
  <2>4. CASE m # n /\ m \notin heard
    <3>1. agent'[m] = agent[m]
      BY <1>1, <2>4
    <3> QED
      BY <2>1, <3>1
  <2> QED
    BY <2>2, <2>3, <2>4
<1>3. \A m \in Node : AgentOK(agent'[m], m, begun, Numbers')
  BY <1>2, AgentsOK
<1>4. deaf' \in Nat /\ Faults' <= MaxFaults
  <2>1. IsFiniteSet({m \in Node \ heard : {n, m} \in link})
    BY DSRAssumption, FS_Subset
  <2>2. Cardinality({m \in Node \ heard : {n, m} \in link}) \in Nat
    BY <2>1, FS_CardinalityType
  <2>3. deaf \in Nat /\ Cardinality(Links \ link) \in Nat
    BY LinksFinite DEF IInv
  <2> QED
    BY <1>1, <2>2, <2>3 DEF Faults
<1>5. DOMAIN agent' = Node
  BY <1>1
<1> QED
  BY <1>1, <1>3, <1>4, <1>5 DEF IInv

LEMMA OriginateOK ==
    ASSUME IInv, NEW d \in Flow, Originate(d)
    PROVE  IInv'
<1> DEFINE E == begun \cup {d}
           n == d.src
           p == NewPacket(d.src, d.dst, d)
           t == handlePktWithoutSR(agent[n], n, p)
<1>1. n \in Node /\ d.dst \in Node \ {n}
  BY DSRAssumption
<1>2. agent' = [agent EXCEPT ![n] = t] /\ begun' = E /\ DOMAIN agent = Node
  BY DEF Originate, IInv
<1>3. \A k \in Node : AgentOK(agent[k], k, E, Numbers) /\ agent[k].number \in Nat
  <2>1. Numbers \in [Node -> Nat] /\ \A k \in Node : agent[k].number \in Nat
    BY NumbersType
  <2> QED
    BY <2>1, AgentMonotone DEF IInv
<1>4. Waits(p, n, E)
  BY <1>1, NewPacketOK DEF Waits
<1> HIDE DEF p, E
<1>5. AgentOK(t, n, E, Numbers) /\ t.number >= agent[n].number
  BY <1>1, <1>3, <1>4, handlePktWithoutSROK
<1> HIDE DEF t
<1>6. DOMAIN agent' = Node /\ agent'[n] = t /\ \A k \in Node \ {n} : agent'[k] = agent[k]
  BY <1>1, <1>2
<1>7. \A k \in Node : AgentOK(agent'[k], k, E, Numbers) /\ agent'[k].number >= agent[k].number
  BY <1>3, <1>5, <1>6
<1>8. \A k \in Node : AgentOK(agent'[k], k, E, Numbers')
  BY <1>7, AgentsOK
<1>9. link' = link /\ selfish' = selfish /\ taken' = taken /\ deaf' = deaf
  BY DEF Originate
<1>10. begun' \subseteq Flow /\ taken' \subseteq begun' \X Node
  BY <1>2, <1>9 DEF IInv, E
<1> QED
  BY <1>2, <1>6, <1>8, <1>9, <1>10 DEF IInv, Faults

\* A timer of n changes its agent only.
LEMMA TimerOK ==
    ASSUME IInv, NEW n \in Node, NEW t, AgentOK(t, n, begun, Numbers), t.number >= agent[n].number,
           agent' = [agent EXCEPT ![n] = t], UNCHANGED <<link, selfish, begun, taken, deaf>>
    PROVE  IInv'
<1>1. DOMAIN agent' = Node /\ agent'[n] = t /\ \A k \in Node \ {n} : agent'[k] = agent[k]
  BY DEF IInv
<1>2. \A k \in Node : AgentOK(agent'[k], k, begun, Numbers) /\ agent'[k].number >= agent[k].number
  BY <1>1, NumbersType DEF IInv
<1>3. \A k \in Node : AgentOK(agent'[k], k, begun, Numbers')
  BY <1>2, AgentsOK
<1> QED
  BY <1>1, <1>3 DEF IInv, Faults

LEMMA TimerChanges ==
    ASSUME IInv, NEW n \in Node, SendBufferTimer(n) \/ Forget(n) \/ \E d \in Node : Wait(n, d),
           NEW D, AgentOK(agent[n], n, D, Numbers)
    PROVE  /\ \E t : /\ AgentOK(t, n, D, Numbers) /\ t.number >= agent[n].number
                    /\ agent' = [agent EXCEPT ![n] = t]
           /\ UNCHANGED <<link, selfish, begun, taken, deaf>>
<1> DEFINE s == agent[n]
<1>1. UNCHANGED <<link, selfish, begun, taken, deaf>>
  BY DEF SendBufferTimer, Forget, Wait
<1>2. s.number \in Nat /\ s.asked \in [Node -> Asked]
  BY DEF AgentOK, AskedOK
<1>3. CASE SendBufferTimer(n)
  <2>1. PICK expired : agent' = [agent EXCEPT ![n] = sendBufferCheck(@, n, expired)]
    BY <1>3 DEF SendBufferTimer
  <2> DEFINE t == SendBuffer(s, n, TRUE, expired)
  <2>2. AgentOK(t, n, D, Numbers) /\ t.number >= s.number
    BY SendBufferOK
  <2>3. agent' = [agent EXCEPT ![n] = t]
    BY <2>1 DEF sendBufferCheck
  <2> HIDE DEF t
  <2> QED
    BY <1>1, <2>2, <2>3
<1>4. CASE Forget(n)
  <2> DEFINE t == [s EXCEPT !.held = None]
  <2>1. AgentOK(t, n, D, Numbers) /\ t.number = s.number
    BY HeldChanged
  <2>2. agent' = [agent EXCEPT ![n] = t]
    BY <1>4 DEF Forget
  <2> HIDE DEF t
  <2>3. t.number >= s.number
    BY <1>2, <2>1
  <2> QED
    BY <1>1, <2>1, <2>2, <2>3
<1>5. ASSUME NEW d \in Node, Wait(n, d)
      PROVE  \E t : /\ AgentOK(t, n, D, Numbers) /\ t.number >= s.number
                   /\ agent' = [agent EXCEPT ![n] = t]
  <2> DEFINE e == s.asked[d]
             phase == IF e.phase = "fresh" THEN "silent" ELSE "ready"
             x == [e EXCEPT !.phase = phase]
             a == [s.asked EXCEPT ![d] = x]
             t == [s EXCEPT !.asked = a]
  <2>1. agent' = [agent EXCEPT ![n] = t]
    BY <1>5 DEF Wait
  <2>2. x \in Asked
    <3>1. e \in Asked
      BY <1>2
    <3>2. phase \in {"silent", "ready"}
      OBVIOUS
    <3> HIDE DEF e, phase
    <3> QED
      BY <3>1, <3>2 DEF Asked
  <2> HIDE DEF x
  <2>3. a \in [Node -> Asked]
    BY <1>2, <2>2
  <2> HIDE DEF a
  <2>4. AgentOK(t, n, D, Numbers) /\ t.number = s.number
    BY <2>3, AskedChanged
  <2> HIDE DEF t
  <2>5. t.number >= s.number
    BY <1>2, <2>4
  <2> QED
    BY <2>1, <2>4, <2>5
<1> QED
  BY <1>1, <1>3, <1>4, <1>5

LEMMA TimePassesOK ==
    ASSUME IInv, TimePasses
    PROVE  IInv'
<1>1. PICK n \in Node : SendBufferTimer(n) \/ Forget(n) \/ \E d \in Node : Wait(n, d)
  BY DEF TimePasses
<1>2. AgentOK(agent[n], n, begun, Numbers)
  BY DEF IInv
<1>3. PICK t : /\ AgentOK(t, n, begun, Numbers) /\ t.number >= agent[n].number
               /\ agent' = [agent EXCEPT ![n] = t]
  BY <1>1, <1>2, TimerChanges
<1>4. UNCHANGED <<link, selfish, begun, taken, deaf>>
  BY <1>1, <1>2, TimerChanges
<1> QED
  BY <1>3, <1>4, TimerOK

LEMMA InitOK ==
    ASSUME Init
    PROVE  IInv
<1>1. \A n \in Node : agent[n] = Fresh
  BY DEF Init
<1>2. Fresh.number = 1
  BY DEF Fresh
<1>3. Numbers = [o \in Node |-> 1]
  BY <1>1, <1>2 DEF Numbers
<1>4. ASSUME NEW n \in Node PROVE AgentOK(Fresh, n, begun, Numbers)
  <2>1. IsAgent(Fresh) /\ WaysOK(Fresh, n)
    BY DEF Fresh, IsAgent, WaysOK
  <2>2. SeenOK(Fresh, n, Numbers)
    BY <1>3 DEF Fresh, SeenOK, Number
  <2>3. AskedOK(Fresh)
    BY DEF Fresh, AskedOK, Asked
  <2>4. BufferOK(Fresh, n, begun)
    BY EmptySeq, DSRAssumption DEF Fresh, BufferOK
  <2>5. FramesOK(Fresh, n, begun, Numbers)
    BY FS_EmptySet DEF Fresh, FramesOK
  <2> QED
    BY <2>1, <2>2, <2>3, <2>4, <2>5 DEF AgentOK
<1>5. Faults <= MaxFaults
  <2>1. Links \ link = {} /\ deaf = 0
    BY DEF Init
  <2>2. Cardinality({}) = 0 /\ MaxFaults \in Nat
    BY FS_EmptySet, DSRAssumption
  <2> QED
    BY <2>1, <2>2 DEF Faults
<1> QED
  BY <1>1, <1>4, <1>5 DEF Init, IInv

LEMMA BreakOK ==
    ASSUME IInv, NEW l, Break(l)
    PROVE  IInv'
<1>1. l \in link /\ Faults < MaxFaults /\ link' = link \ {l} /\ link \subseteq Links
  BY DEF Break, IInv
<1>2. UNCHANGED <<agent, selfish, begun, taken, deaf>>
  BY DEF Break
<1>3. Faults' <= MaxFaults
  <2>1. IsFiniteSet(Links \ link) /\ Cardinality(Links \ link) \in Nat
    BY LinksFinite
  <2>2. Links \ link' = (Links \ link) \cup {l} /\ l \notin Links \ link
    BY <1>1
  <2>3. Cardinality(Links \ link') = Cardinality(Links \ link) + 1
    BY <2>1, <2>2, FS_AddElement
  <2>4. deaf \in Nat /\ MaxFaults \in Nat
    BY DSRAssumption DEF IInv
  <2> QED
    BY <1>1, <1>2, <2>1, <2>3, <2>4 DEF Faults
<1>4. Numbers' = Numbers
  BY <1>2 DEF Numbers
<1> QED
  BY <1>1, <1>2, <1>3, <1>4 DEF IInv

LEMMA NextOK ==
    ASSUME IInv, [Next]_vars
    PROVE  IInv'
<1>1. CASE UNCHANGED vars
  <2>1. Numbers' = Numbers
    BY <1>1 DEF vars, Numbers
  <2> QED
    BY <1>1, <2>1 DEF vars, IInv, Faults
<1>2. ASSUME NEW d \in Flow, Originate(d) PROVE IInv'
  BY <1>2, OriginateOK
<1>3. CASE Transmit
  <2>0. PICK n \in Node : \E f \in agent[n].ifq :
            IF f.to = MAC_BROADCAST THEN Broadcast(n, f)
            ELSE Deliver(n, f) \/ Fail(n, f) \/ DeliverInVain(n, f)
    BY <1>3 DEF Transmit
  <2>1. PICK f \in agent[n].ifq :
            IF f.to = MAC_BROADCAST THEN Broadcast(n, f)
            ELSE Deliver(n, f) \/ Fail(n, f) \/ DeliverInVain(n, f)
    BY <2>0
  <2>2. CASE f.to = MAC_BROADCAST
    BY <2>1, <2>2, BroadcastOK
  <2>3. CASE f.to # MAC_BROADCAST
    <3>1. f.to \in Node
      BY <2>3, FramesKnown
    <3> QED
      BY <2>1, <2>3, <3>1, DeliverOK, FailOK
  <2> QED
    BY <2>2, <2>3
<1>4. CASE TimePasses
  BY <1>4, TimePassesOK
<1>5. ASSUME NEW l \in Fragile, Break(l) PROVE IInv'
  BY <1>5, BreakOK
<1>6. ASSUME NEW n \in Egoist, egoista(n) PROVE IInv'
  <2>1. UNCHANGED <<agent, link, begun, taken, deaf>> /\ selfish' \subseteq Egoist
    BY <1>6 DEF egoista, IInv
  <2>2. Numbers' = Numbers
    BY <2>1 DEF Numbers
  <2> QED
    BY <2>1, <2>2 DEF IInv, Faults
<1> QED
  BY <1>1, <1>2, <1>3, <1>4, <1>5, <1>6 DEF Next

-----------------------------------------------------------------------------
(* Theorems *)

\* In every reachable state each agent's caches, tables, buffers and queued packets are ones
\* that the handlers of dsragent.cc can work on (IInv); what the other theorems rest on.
THEOREM Invariance == Spec => []IInv
<1>1. Init => IInv
  BY InitOK
<1>2. IInv /\ [Next]_vars => IInv'
  BY NextOK
<1> QED
  BY <1>1, <1>2, PTL DEF Spec

\* Buffers and headers stay within their sizes and agents have the fields of the code, in
\* every network: no request is recorded before it is made, no more errors than
\* MAX_ROUTE_ERRORS are in a packet and none is salvaged too often.
THEOREM TypeCorrect == Spec => []TypeOK
<1>1. IInv => TypeOK
  <2> SUFFICES ASSUME IInv PROVE TypeOK
    OBVIOUS
  <2>1. ASSUME NEW n \in Node
        PROVE  /\ Len(agent[n].buf) <= SEND_BUF_SIZE
               /\ \A o \in Node : agent[n].seen[o] < agent[o].number
               /\ \A d \in Node : /\ agent[n].asked[d].count \in 0..15
                                  /\ agent[n].asked[d].phase \in {"fresh", "silent", "ready"}
               /\ \A f \in agent[n].ifq :
                      /\ f.to \in Node \cup {MAC_BROADCAST} /\ f.pkt.src \in Node /\ f.pkt.dst \in Node
                      /\ f.pkt.data \in begun \cup {None}
                      /\ Len(f.pkt.route) <= MAX_SR_LEN /\ Len(f.pkt.reply) <= MAX_SR_LEN
                      /\ Len(f.pkt.errors) <= MAX_ROUTE_ERRORS
                      /\ f.pkt.salvaged <= dsr_salvage_max_attempts
    <3>1. AgentOK(agent[n], n, begun, Numbers)
      BY DEF IInv
    <3>2. Len(agent[n].buf) <= SEND_BUF_SIZE
      BY <3>1 DEF AgentOK, BufferOK
    <3>3. \A o \in Node : agent[n].seen[o] < agent[o].number
      BY <3>1 DEF AgentOK, SeenOK, Number, Numbers
    <3>4. \A d \in Node : agent[n].asked[d] \in Asked
      BY <3>1 DEF AgentOK, AskedOK
    <3>5. ASSUME NEW f \in agent[n].ifq
          PROVE  /\ f.to \in Node \cup {MAC_BROADCAST} /\ f.pkt.src \in Node /\ f.pkt.dst \in Node
                 /\ f.pkt.data \in begun \cup {None}
                 /\ Len(f.pkt.route) <= MAX_SR_LEN /\ Len(f.pkt.reply) <= MAX_SR_LEN
                 /\ Len(f.pkt.errors) <= MAX_ROUTE_ERRORS
                 /\ f.pkt.salvaged <= dsr_salvage_max_attempts
      <4>1. FrameOK(f, n, begun) /\ (f.to = MAC_BROADCAST \/ f.to \in Node)
        BY FramesKnown
      <4>2. f.pkt \in Header(begun) /\ LoadOK(f.pkt) /\ Len(f.pkt.reply) <= MAX_SR_LEN
        BY <4>1 DEF FrameOK, PacketOK
      <4>3. f.pkt.salvaged <= dsr_salvage_max_attempts
        BY <4>2, DSRAssumption DEF Header
      <4> QED
        BY <4>1, <4>2, <4>3 DEF FrameOK, LoadOK, Header
    <3>6. \A d \in Node : /\ agent[n].asked[d].count \in 0..15
                          /\ agent[n].asked[d].phase \in {"fresh", "silent", "ready"}
      BY <3>4 DEF Asked
    <3> QED
      BY <3>2, <3>3, <3>5, <3>6
  <2> QED
    BY <2>1 DEF IInv, TypeOK
<1> QED
  BY <1>1, Invariance, PTL

\* Whatever routes the caches suggest, however links fail and packets are salvaged, a
\* packet is always at the current node of its source route, which leads to its
\* destination and has no loop.
THEOREM SourceRoutes == Spec => []SourceRoutesHold
<1>1. IInv => SourceRoutesHold
  <2> SUFFICES ASSUME IInv, NEW n \in Node
               PROVE  /\ \A r \in agent[n].cache : r[1] = n /\ Simple(r)
                      /\ \A f \in agent[n].ifq :
                             LET p == f.pkt
                             IN  /\ Simple(p.route) /\ p.dst # n
                                 /\ IF p.request > 0 THEN Last(p.route) = n /\ p.route[1] = p.src
                                    ELSE /\ p.at \in 2..Len(p.route)
                                         /\ p.route[p.at - 1] = n /\ p.route[p.at] = f.to
                                         /\ Last(p.route) = p.dst
    BY DEF SourceRoutesHold
  <2>1. \A r \in agent[n].cache : r[1] = n /\ Simple(r)
    BY DEF IInv, AgentOK, WaysOK, Way
  <2>2. ASSUME NEW f \in agent[n].ifq
        PROVE  LET p == f.pkt
               IN  /\ Simple(p.route) /\ p.dst # n
                   /\ IF p.request > 0 THEN Last(p.route) = n /\ p.route[1] = p.src
                      ELSE /\ p.at \in 2..Len(p.route)
                           /\ p.route[p.at - 1] = n /\ p.route[p.at] = f.to
                           /\ Last(p.route) = p.dst
    <3>1. FrameOK(f, n, begun) /\ (f.to = MAC_BROADCAST \/ f.to \in Node)
      BY FramesKnown
    <3>2. CASE f.to = MAC_BROADCAST
      <4>1. Asks(f.pkt, n) /\ Simple(f.pkt.route)
        BY <3>1, <3>2, DSRAssumption DEF FrameOK
      <4>2. f.pkt.route \in Seq(Node)
        BY <3>1 DEF FrameOK, PacketOK, Header
      <4>3. Len(f.pkt.route) \in Nat \ {0}
        BY <4>1, <4>2, EmptySeq, LenProperties DEF Asks
      <4>4. Len(f.pkt.route) \in 1..Len(f.pkt.route)
        BY <4>3
      <4>5. f.pkt.dst # n
        BY <4>1, <4>4 DEF Asks, Last, Contains
      <4> QED
        BY <4>1, <4>5 DEF Asks
    <3>3. CASE f.to \in Node
      <4>1. Travels(f.pkt, n, f.to) /\ f.pkt.dst # n /\ Simple(f.pkt.route)
        BY <3>1, <3>3, FrameWaits DEF Waits, FrameOK
      <4> QED
        BY <4>1 DEF Travels
    <3> QED
      BY <3>1, <3>2, <3>3
  <2> QED
    BY <2>1, <2>2
<1> QED
  BY <1>1, Invariance, PTL
-----------------------------------------------------------------------------
(* What requests make nodes send *)

\* The frames that were added to those of s carry no data.
Mute(t, s) == \A f \in t.ifq : f \in s.ifq \/ f.pkt.data = None

LEMMA SendsMutely ==
    ASSUME NEW s, NEW n, NEW D, NEW N, AgentOK(s, n, D, N),
           NEW E, NEW p, PacketOK(p, E), p.data = None
    PROVE  Mute(sendOutPacketWithRoute(s, n, p), s)
<1> DEFINE on == [p EXCEPT !.at = @ + 1]
           f == IF p.request > 0 THEN [to |-> MAC_BROADCAST, pkt |-> p, heard |-> FALSE]
                ELSE [to |-> p.route[on.at], pkt |-> on, heard |-> FALSE]
           t == [s EXCEPT !.ifq = @ \cup {f}]
<1>1. sendOutPacketWithRoute(s, n, p) = t
  BY DEF sendOutPacketWithRoute
<1>2. on.data = None
  BY DEF PacketOK, Header
<1> HIDE DEF on
<1>3. f.pkt.data = None
  BY <1>2
<1> HIDE DEF f
<1>4. t.ifq = s.ifq \cup {f}
  BY DEF AgentOK, IsAgent
<1> QED
  BY <1>1, <1>3, <1>4 DEF Mute

LEMMA SendsAlongMutely ==
    ASSUME NEW s, NEW n, NEW D, NEW N, AgentOK(s, n, D, N),
           NEW E, NEW p, PacketOK(p, E), p.data = None, NEW r \in Seq(Node)
    PROVE  Mute(SendAlong(s, n, p, r), s)
<1> DEFINE q == Along(p, r)
<1>1. PacketOK(q, E) /\ q.data = None
  BY RouteChanged
<1>2. SendAlong(s, n, p, r) = sendOutPacketWithRoute(s, n, q)
  BY DEF SendAlong, Along
<1> HIDE DEF q
<1> QED
  BY <1>1, <1>2, SendsMutely

LEMMA AsksMutely ==
    ASSUME NEW s, NEW n \in Node, NEW D, NEW N, AgentOK(s, n, D, N),
           NEW d \in Node, NEW max_prop
    PROVE  Mute(sendOutRtReq(s, n, d, max_prop), s)
<1> DEFINE errors == IF s.held = None THEN <<>> ELSE <<s.held>>
           rrp == [NewPacket(n, d, None) EXCEPT !.request = s.number, !.prop = max_prop,
                                             !.route = <<n>>, !.errors = errors]
           v == [s EXCEPT !.number = @ + 1]
           u == [v EXCEPT !.held = IF max_prop > 0 THEN None ELSE @]
           f == [to |-> MAC_BROADCAST, pkt |-> rrp, heard |-> FALSE]
<1>1. sendOutRtReq(s, n, d, max_prop) = Queued(u, f)
  <2>1. rrp.request = s.number
    BY DEF NewPacket
  <2>2. s.number > 0
    BY DEF AgentOK, AskedOK
  <2> QED
    BY <2>1, <2>2 DEF sendOutRtReq, sendOutPacketWithRoute, Queued
<1>2. rrp.data = None
  BY DEF NewPacket
<1> HIDE DEF rrp
<1>3. f.pkt.data = None
  BY <1>2
<1> HIDE DEF f
<1>4. IsAgent(v) /\ v.ifq = s.ifq
  BY DEF AgentOK, IsAgent
<1> HIDE DEF v
<1>5. IsAgent(u) /\ u.ifq = s.ifq
  BY <1>4 DEF IsAgent
<1> HIDE DEF u
<1>6. Queued(u, f).ifq = s.ifq \cup {f}
  BY <1>5 DEF Queued, IsAgent
<1> QED
  BY <1>1, <1>3, <1>6 DEF Mute

\* The node has the same send buffer and sends no more data.
Quiet(t, s) == t.buf = s.buf /\ Mute(t, s)

LEMMA AsksQuietly ==
    ASSUME NEW s, NEW n \in Node, NEW D, NEW N, AgentOK(s, n, D, N),
           NEW d \in Node, NEW max_prop
    PROVE  Quiet(sendOutRtReq(s, n, d, max_prop), s)
<1> DEFINE errors == IF s.held = None THEN <<>> ELSE <<s.held>>
           rrp == [NewPacket(n, d, None) EXCEPT !.request = s.number, !.prop = max_prop,
                                             !.route = <<n>>, !.errors = errors]
           v == [s EXCEPT !.number = @ + 1]
           u == [v EXCEPT !.held = IF max_prop > 0 THEN None ELSE @]
           t == sendOutPacketWithRoute(u, n, rrp)
<1>1. sendOutRtReq(s, n, d, max_prop) = t
  BY DEF sendOutRtReq
<1>2. IsAgent(v) /\ v.buf = s.buf
  BY DEF AgentOK, IsAgent
<1> HIDE DEF rrp, v
<1>3. IsAgent(u) /\ u.buf = s.buf
  BY <1>2 DEF IsAgent
<1> HIDE DEF u
<1>4. t.buf = s.buf
  BY <1>3 DEF sendOutPacketWithRoute, IsAgent
<1> HIDE DEF t
<1> QED
  BY <1>1, <1>4, AsksMutely DEF Quiet

LEMMA getRouteQuietly ==
    ASSUME NEW s, NEW n \in Node, NEW D, NEW N, AgentOK(s, n, D, N),
           NEW p, p.dst \in Node \ {n}
    PROVE  Quiet(getRouteForPacket(s, n, p), s)
<1> DEFINE d == p.dst
           e == s.asked[d]
           u == getRouteForPacket(s, n, p)
<1>1. d \in Node /\ IsAgent(s)
  BY DEF AgentOK
<1>2. CASE GivesUp(s, n, p)
  <2>1. u.ifq = s.ifq /\ u.buf = s.buf
    BY <1>1, <1>2 DEF getRouteForPacket, Backed, IsAgent
  <2> QED
    BY <2>1 DEF Quiet, Mute
<1>3. CASE ~GivesUp(s, n, p) /\ BackOffTest(s, d)
  <2> DEFINE v == Backed(s, d, "LIMIT0", "fresh")
  <2>1. u = sendOutRtReq(v, n, d, 0)
    BY <1>3 DEF getRouteForPacket
  <2>2. AgentOK(v, n, D, N)
    BY <1>1, BackedOK
  <2>3. v.ifq = s.ifq /\ v.buf = s.buf
    BY <1>1 DEF Backed, IsAgent
  <2> HIDE DEF u, v
  <2>4. Quiet(u, v)
    BY <1>1, <2>1, <2>2, AsksQuietly
  <2> QED
    BY <2>3, <2>4 DEF Quiet, Mute, u
<1>4. CASE /\ ~GivesUp(s, n, p) /\ ~BackOffTest(s, d)
           /\ e.type = "LIMIT0" /\ e.phase = "silent" /\ p.src = n
  <2> DEFINE a == [s.asked EXCEPT ![d] = [e EXCEPT !.type = "UNLIMIT"]]
             v == [s EXCEPT !.asked = a]
  <2>1. u = sendOutRtReq(v, n, d, MAX_SR_LEN)
    BY <1>4 DEF getRouteForPacket
  <2>2. a \in [Node -> Asked]
    <3>1. s.asked \in [Node -> Asked] /\ e \in Asked
      BY <1>1 DEF AgentOK, AskedOK
    <3>2. [e EXCEPT !.type = "UNLIMIT"] \in Asked
      <4> HIDE DEF e
      <4> QED
        BY <3>1 DEF Asked
    <3> QED
      BY <3>1, <3>2
  <2> HIDE DEF a
  <2>3. AgentOK(v, n, D, N)
    BY <2>2, AskedChanged
  <2>4. v.ifq = s.ifq /\ v.buf = s.buf
    BY <1>1 DEF IsAgent
  <2> HIDE DEF u, v
  <2>5. Quiet(u, v)
    BY <1>1, <2>1, <2>3, AsksQuietly
  <2> QED
    BY <2>4, <2>5 DEF Quiet, Mute, u
<1>5. CASE /\ ~GivesUp(s, n, p) /\ ~BackOffTest(s, d)
           /\ ~ (e.type = "LIMIT0" /\ e.phase = "silent" /\ p.src = n)
  <2>1. u = s
    BY <1>5 DEF getRouteForPacket
  <2> QED
    BY <2>1 DEF Quiet, Mute
<1> QED
  BY <1>2, <1>3, <1>4, <1>5

LEMMA HandlesMutely ==
    ASSUME NEW s, NEW n \in Node, NEW D, NEW N, AgentOK(s, n, D, N),
           NEW p, Waits(p, n, D), p.data = None
    PROVE  Mute(handlePktWithoutSR(s, n, p), s)
<1> DEFINE d == p.dst
           u == getRouteForPacket(s, n, p)
<1>1. PacketOK(p, D) /\ d \in Node /\ d # n /\ IsAgent(s)
  BY DEF Waits, PacketOK, Header, AgentOK
<1>2. CASE RoutesTo(s, d) # {}
  <2>1. findRoute(s, d) \in Seq(Node)
    BY <1>1, <1>2, findRouteOK DEF AgentOK, WaysOK, Way
  <2>2. handlePktWithoutSR(s, n, p) = SendAlong(s, n, p, findRoute(s, d))
    BY <1>2 DEF handlePktWithoutSR
  <2> QED
    BY <1>1, <2>1, <2>2, SendsAlongMutely
<1>3. Mute(u, s)
  BY <1>1, getRouteQuietly DEF Quiet
<1>4. CASE RoutesTo(s, d) = {}
  <2>1. handlePktWithoutSR(s, n, p) = stickPacketInSendBuffer(u, p)
    BY <1>4 DEF handlePktWithoutSR
  <2>2. AgentOK(u, n, D, N)
    BY <1>1, getRouteOK
  <2> HIDE DEF u
  <2>3. stickPacketInSendBuffer(u, p).ifq = u.ifq
    BY <2>2 DEF stickPacketInSendBuffer, AgentOK, IsAgent
  <2> QED
    BY <1>3, <2>1, <2>3 DEF Mute
<1> QED
  BY <1>2, <1>4

LEMMA ErrorsMutely ==
    ASSUME NEW s, NEW n \in Node, NEW D, NEW N, AgentOK(s, n, D, N),
           NEW E, NEW p, PacketOK(p, E), p.errors # <<>>
    PROVE  Mute(processBrokenRouteError(s, n, p), s)
<1> DEFINE forgot == noticeDeadLink(s, {e.down : e \in ToSet(p.errors)})
           last == [Last(p.errors) EXCEPT !.tell = GRAT_ROUTE_ERROR]
           held == [forgot EXCEPT !.held = last]
           rest == Front(p.errors)
           t == processBrokenRouteError(s, n, p)
<1>1. AgentOK(forgot, n, D, N)
  BY noticeDeadLinkOK
<1>2. forgot.ifq = s.ifq
  BY DEF noticeDeadLink, AgentOK, IsAgent
<1>3. last \in Error
  BY HoldsError
<1> HIDE DEF last, forgot
<1>4. AgentOK(held, n, D, N)
  BY <1>1, <1>3, HeldChanged
<1>5. held.ifq = s.ifq
  BY <1>1, <1>2 DEF AgentOK, IsAgent
<1>6. CASE Last(p.errors).tell # n
  <2>1. t = forgot
    BY <1>6 DEF processBrokenRouteError, forgot
  <2> QED
    BY <1>2, <2>1 DEF Mute
<1>7. CASE Last(p.errors).tell = n /\ rest = <<>>
  <2>1. t = held
    BY <1>7 DEF processBrokenRouteError, forgot, last
  <2> HIDE DEF t, held
  <2> QED
    BY <1>5, <2>1 DEF Mute, t
<1>8. CASE Last(p.errors).tell = n /\ rest # <<>>
  <2> DEFINE q == Onward(p, n, rest)
  <2>1. t = handlePktWithoutSR(held, n, q)
    BY <1>8 DEF processBrokenRouteError, forgot, last, Onward
  <2>2. Waits(q, n, D)
    BY <1>8, OnwardOK
  <2>3. q.data = None
    <3>1. p \in Header(E) /\ p.data = None
      BY DEF PacketOK, LoadOK
    <3> DEFINE u == [p EXCEPT !.errors = rest]
               v == [u EXCEPT !.src = n]
    <3>2. q = [v EXCEPT !.dst = Last(rest).tell]
      BY DEF Onward
    <3>3. u.data = None /\ DOMAIN u = DOMAIN p
      BY <3>1 DEF Header
    <3> HIDE DEF u
    <3>4. v.data = None /\ DOMAIN v = DOMAIN p
      BY <3>3
    <3> HIDE DEF v
    <3> QED
      BY <3>2, <3>4
  <2> HIDE DEF t, held, q
  <2>4. Mute(t, held)
    BY <1>4, <2>1, <2>2, <2>3, HandlesMutely
  <2> QED
    BY <1>5, <2>4 DEF Mute, t
<1> QED
  BY <1>6, <1>7, <1>8
LEMMA RepliesMutely ==
    ASSUME NEW s, NEW n \in Node, NEW D, NEW N, AgentOK(s, n, D, N),
           NEW p, Request(p, D), ~Contains(p.route, n), ~full(p.route), NEW reply \in Seq(Node),
           Simple(reply), Len(reply) <= MAX_SR_LEN
    PROVE  Mute(Reply(s, n, p, reply), s)
<1> DEFINE back == Reverse(Append(p.route, n))
           u == addRoute(s, n, back)
           q0 == NewPacket(n, p.src, None)
           q == [q0 EXCEPT !.reply = reply]
<1>1. p.route \in Seq(Node) /\ p.src \in Node /\ p.route # <<>> /\ Simple(p.route)
  BY DEF Request, PacketOK, Header
<1>2. Way(back, n)
  BY <1>1, LongerRoute
<1>3. /\ q0 \in Header(D) /\ LoadOK(q0) /\ q0.request = 0 /\ q0.data = None
  BY <1>1, NewPacketOK DEF PacketOK
<1>4. Reply(s, n, p, reply) = SendAlong(u, n, q, back)
  BY DEF Reply
<1> HIDE DEF q0, back
<1>5. /\ q \in Header(D) /\ q.reply = reply /\ q.request = 0 /\ q.dst = q0.dst
      /\ q.errors = q0.errors /\ q.data = None
  BY <1>3 DEF Header
<1> HIDE DEF q
<1>6. PacketOK(q, D)
  BY <1>3, <1>5 DEF PacketOK, LoadOK
<1>7. back \in Seq(Node) /\ Simple(back) /\ Len(back) <= MAX_SR_LEN
  BY <1>2, LenProperties, DSRAssumption DEF Way
<1>8. AgentOK(u, n, D, N)
  BY <1>7, addRouteOK
<1>9. u.ifq = s.ifq
  BY DEF addRoute, AgentOK, IsAgent
<1> HIDE DEF u
<1>10. Mute(SendAlong(u, n, q, back), u)
  BY <1>5, <1>6, <1>7, <1>8, SendsAlongMutely
<1> QED
  BY <1>4, <1>9, <1>10 DEF Mute

LEMMA RequestsMutely ==
    ASSUME NEW s, NEW n \in Node, NEW D, NEW N, AgentOK(s, n, D, N),
           NEW p, Request(p, D), p.request < Number(s, n, N, p.src)
    PROVE  /\ p.dst # n => Mute(handleRouteRequest(s, n, p), s)
           /\ p.dst = n => Mute(returnSrcRouteToRequestor(Recorded(s, p), n, p), s)
<1> DEFINE new == Recorded(s, p)
<1>1. /\ p \in Header(D) /\ p.src \in Node /\ p.request \in Nat /\ p.route \in Seq(Node)
      /\ PacketOK(p, D) /\ LoadOK(p) /\ p.data = None /\ p.route # <<>>
  BY DEF Request, PacketOK, Header, LoadOK
<1>2. AgentOK(new, n, D, N)
  BY <1>1, RecordedOK
<1>3. new.ifq = s.ifq
  BY DEF Recorded, AgentOK, IsAgent
<1> HIDE DEF new
<1>4. ASSUME p.dst # n PROVE Mute(handleRouteRequest(s, n, p), s)
  <2> DEFINE t == handleRouteRequest(s, n, p)
  <2>1. CASE ignoreRouteRequestp(s, n, p)
    <3>1. t = s
      BY <2>1 DEF handleRouteRequest
    <3> QED
      BY <3>1 DEF Mute
  <2>2. CASE ~ignoreRouteRequestp(s, n, p)
    <3>1. ~Contains(p.route, n) /\ ~full(p.route)
      BY <2>2 DEF ignoreRouteRequestp
    <3>2. CASE Suggested(new, n, p) # <<>>
      <4> DEFINE reply == Suggested(new, n, p)
      <4>1. t = Reply(new, n, p, reply)
        BY <2>2, <3>2 DEF handleRouteRequest, new
      <4>2. reply \in Seq(Node) /\ Simple(reply) /\ Len(reply) <= MAX_SR_LEN
        BY <1>2, <1>4, <3>2, SuggestedOK
      <4> HIDE DEF reply, t
      <4>3. Mute(t, new)
        BY <1>2, <3>1, <4>1, <4>2, RepliesMutely
      <4> QED
        BY <1>3, <4>3 DEF Mute, t
    <3>3. CASE Suggested(new, n, p) = <<>> /\ Len(p.route) > p.prop
      <4>1. t = new
        BY <2>2, <3>3 DEF handleRouteRequest, new
      <4> QED
        BY <1>3, <4>1 DEF Mute
    <3>4. CASE Suggested(new, n, p) = <<>> /\ ~ (Len(p.route) > p.prop)
      <4> DEFINE q == [p EXCEPT !.route = Append(@, n)]
      <4>1. t = sendOutPacketWithRoute(new, n, q)
        BY <2>2, <3>4 DEF handleRouteRequest, new
      <4>2. Append(p.route, n) \in Seq(Node)
        BY <1>1, AppendProperties
      <4>3. /\ q \in Header(D) /\ q.src = p.src /\ q.dst = p.dst /\ q.request = p.request
            /\ q.data = p.data /\ q.errors = p.errors /\ q.reply = p.reply
        BY <1>1, <4>2 DEF Header
      <4> HIDE DEF q, t
      <4>4. LoadOK(q)
        BY <1>1, <4>3 DEF LoadOK
      <4>5. PacketOK(q, D) /\ q.data = None
        BY <1>1, <4>3, <4>4 DEF PacketOK
      <4>6. Mute(t, new)
        BY <1>2, <4>1, <4>5, SendsMutely
      <4> QED
        BY <1>3, <4>6 DEF Mute, t
    <3> QED
      BY <3>2, <3>3, <3>4
  <2> QED
    BY <2>1, <2>2
<1>5. ASSUME p.dst = n PROVE Mute(returnSrcRouteToRequestor(new, n, p), s)
  <2>1. CASE full(p.route)
    BY <1>3, <2>1 DEF returnSrcRouteToRequestor, Mute
  <2>2. CASE ~full(p.route)
    <3> DEFINE r == Append(p.route, n)
    <3>1. /\ p.route \in Seq(Node) /\ Simple(p.route) /\ ~Contains(p.route, n)
      BY <1>1, <1>5 DEF Request
    <3>2. /\ r \in Seq(Node) /\ Simple(r) /\ Len(r) = Len(p.route) + 1
          /\ Len(p.route) + 1 \in 2..MAX_SR_LEN
      BY <1>1, <2>2, <3>1, LongerRoute
    <3>3. returnSrcRouteToRequestor(new, n, p) = Reply(new, n, p, r)
      BY <2>2 DEF returnSrcRouteToRequestor
    <3> HIDE DEF r
    <3>4. Len(r) <= MAX_SR_LEN
      BY <3>2, DSRAssumption
    <3>5. Mute(Reply(new, n, p, r), new)
      BY <1>2, <2>2, <3>1, <3>2, <3>4, RepliesMutely
    <3> QED
      BY <1>3, <3>3, <3>5 DEF Mute
  <2> QED
    BY <2>1, <2>2
<1> QED
  BY <1>4, <1>5 DEF new

\* A request makes no node send data, whatever it does with it.
LEMMA ReceivesMutely ==
    ASSUME NEW s, NEW n \in Node, NEW D, NEW N, AgentOK(s, n, D, N),
           NEW p, Request(p, D), p.request < Number(s, n, N, p.src)
    PROVE  Mute(recv(s, n, p), s)
<1> DEFINE snooped == IF p.errors # <<>> THEN processBrokenRouteError(s, n, p) ELSE s
           asked == returnSrcRouteToRequestor(Recorded(s, p), n, p)
           t == recv(s, n, p)
<1>1. /\ PacketOK(p, D) /\ p.src \in Node /\ p.request \in Nat /\ p.request > 0 /\ p.reply = <<>>
  BY DEF Request, PacketOK, Header, LoadOK
<1>2. s.number \in Nat /\ N \in [Node -> Nat]
  BY DEF AgentOK, AskedOK, SeenOK
<1>3. CASE p.dst = n
  <2>1. t = IF p.errors # <<>> THEN processBrokenRouteError(asked, n, p) ELSE asked
    BY <1>1, <1>3 DEF recv, handlePacketReceipt
  <2>2. Mute(asked, s)
    BY <1>3, RequestsMutely
  <2>3. AgentOK(asked, n, D, N)
    <3> DEFINE new == Recorded(s, p)
    <3>1. AgentOK(new, n, D, N)
      BY <1>1, RecordedOK
    <3> HIDE DEF new
    <3>2. AgentOK(returnSrcRouteToRequestor(new, n, p), n, D, N)
      BY <1>3, <3>1, returnSrcRouteOK
    <3> QED
      BY <3>2 DEF new
  <2> HIDE DEF asked, t
  <2>4. CASE p.errors # <<>>
    <3>1. Mute(t, asked)
      BY <1>1, <2>1, <2>3, <2>4, ErrorsMutely
    <3> QED
      BY <2>2, <3>1 DEF Mute, t
  <2>5. CASE p.errors = <<>>
    BY <2>1, <2>2, <2>5 DEF t
  <2> QED
    BY <2>4, <2>5
<1>4. CASE p.dst # n
  <2>1. t = handleRouteRequest(snooped, n, p)
    BY <1>1, <1>4 DEF recv
  <2>2. AgentOK(snooped, n, D, N) /\ snooped.number >= s.number
    BY <1>1, <1>2, processBrokenRouteErrorOK
  <2>3. Mute(snooped, s)
    <3>1. CASE p.errors # <<>>
      BY <1>1, <3>1, ErrorsMutely
    <3>2. CASE p.errors = <<>>
      BY <3>2 DEF Mute
    <3> QED
      BY <3>1, <3>2
  <2> HIDE DEF snooped
  <2>4. snooped.number \in Nat
    BY <2>2 DEF AgentOK, AskedOK
  <2>5. p.request < Number(snooped, n, N, p.src)
    BY <1>1, <1>2, <2>2, <2>4 DEF Number
  <2> HIDE DEF t
  <2>6. Mute(t, snooped)
    BY <1>4, <2>1, <2>2, <2>5, RequestsMutely
  <2> QED
    BY <2>3, <2>6 DEF Mute, t
<1> QED
  BY <1>3, <1>4
-----------------------------------------------------------------------------
(* DSR implements Algorithm1 *)

\* The abstract state that the agents A stand for.
Sending(A, d) == UNION {{<<n, f>> : f \in {f \in A[n].ifq : f.pkt.data = d}} : n \in Node}
Holding(A, d) ==
    UNION {{<<n, i>> : i \in {i \in DOMAIN A[n].buf : A[n].buf[i].data = d}} : n \in Node}
Offered(A) == UNION {{<<d, x[1], x[2].to>> : x \in Sending(A, d)} : d \in Flow}
Kept(A) ==
    UNION {{<<d, x[1]>> : x \in Sending(A, d)} \cup {<<d, x[1]>> : x \in Holding(A, d)} : d \in Flow}

\* The data packets that an agent keeps.
Data(s) ==
    {d \in Flow : (\E f \in s.ifq : f.pkt.data = d) \/ (\E i \in DOMAIN s.buf : s.buf[i].data = d)}

\* The agent has no more data than before, and what it has sent of it was on its way.
NoMore(t, s) ==
    /\ Data(t) \subseteq Data(s)
    /\ \A f \in t.ifq : f.pkt.data = None
                        \/ \E g \in s.ifq : g.pkt.data = f.pkt.data /\ g.to = f.to

LEMMA OfferedOnes ==
    ASSUME NEW A, NEW x
    PROVE  x \in Offered(A) <=> \E n \in Node : \E f \in A[n].ifq :
                                    f.pkt.data \in Flow /\ x = <<f.pkt.data, n, f.to>>
<1>1. ASSUME NEW d \in Flow, NEW y \in Sending(A, d), x = <<d, y[1], y[2].to>>
      PROVE  \E n \in Node : \E f \in A[n].ifq : f.pkt.data \in Flow /\ x = <<f.pkt.data, n, f.to>>
  <2>1. PICK n \in Node : y \in {<<n, f>> : f \in {f \in A[n].ifq : f.pkt.data = d}}
    BY DEF Sending
  <2>2. PICK f \in A[n].ifq : f.pkt.data = d /\ y = <<n, f>>
    BY <2>1
  <2>3. y[1] = n /\ y[2] = f
    BY <2>2
  <2> QED
    BY <1>1, <2>2, <2>3
<1>2. ASSUME NEW n \in Node, NEW f \in A[n].ifq, f.pkt.data \in Flow, x = <<f.pkt.data, n, f.to>>
      PROVE  \E d \in Flow : \E y \in Sending(A, d) : x = <<d, y[1], y[2].to>>
  <2> DEFINE y == <<n, f>>
  <2>1. y \in Sending(A, f.pkt.data)
    BY DEF Sending
  <2>2. y[1] = n /\ y[2] = f
    OBVIOUS
  <2> HIDE DEF y
  <2> QED
    BY <1>2, <2>1, <2>2
<1>3. x \in Offered(A) <=> \E d \in Flow : \E y \in Sending(A, d) : x = <<d, y[1], y[2].to>>
  BY DEF Offered
<1> QED
  BY <1>1, <1>2, <1>3

LEMMA KeptOnes ==
    ASSUME NEW A, NEW x
    PROVE  x \in Kept(A) <=> \E n \in Node : \E d \in Data(A[n]) : x = <<d, n>>
<1>1. ASSUME NEW d \in Flow, NEW y \in Sending(A, d), x = <<d, y[1]>>
      PROVE  \E n \in Node : \E e \in Data(A[n]) : x = <<e, n>>
  <2>1. PICK n \in Node : y \in {<<n, f>> : f \in {f \in A[n].ifq : f.pkt.data = d}}
    BY DEF Sending
  <2>2. PICK f \in A[n].ifq : f.pkt.data = d /\ y = <<n, f>>
    BY <2>1
  <2>3. y[1] = n /\ d \in Data(A[n])
    BY <2>2 DEF Data
  <2> QED
    BY <1>1, <2>3
<1>2. ASSUME NEW d \in Flow, NEW y \in Holding(A, d), x = <<d, y[1]>>
      PROVE  \E n \in Node : \E e \in Data(A[n]) : x = <<e, n>>
  <2>1. PICK n \in Node : y \in {<<n, i>> : i \in {i \in DOMAIN A[n].buf : A[n].buf[i].data = d}}
    BY DEF Holding
  <2>2. PICK i \in DOMAIN A[n].buf : A[n].buf[i].data = d /\ y = <<n, i>>
    BY <2>1
  <2>3. y[1] = n /\ d \in Data(A[n])
    BY <2>2 DEF Data
  <2> QED
    BY <1>2, <2>3
<1>3. ASSUME NEW n \in Node, NEW d \in Data(A[n]), x = <<d, n>>
      PROVE  \E e \in Flow : \/ \E y \in Sending(A, e) : x = <<e, y[1]>>
                             \/ \E y \in Holding(A, e) : x = <<e, y[1]>>
  <2>1. CASE \E f \in A[n].ifq : f.pkt.data = d
    <3>1. PICK f \in A[n].ifq : f.pkt.data = d
      BY <2>1
    <3> DEFINE y == <<n, f>>
    <3>2. y \in Sending(A, d)
      BY <3>1 DEF Sending
    <3>3. y[1] = n /\ d \in Flow
      BY DEF Data
    <3> HIDE DEF y
    <3> QED
      BY <1>3, <3>2, <3>3
  <2>2. CASE \E i \in DOMAIN A[n].buf : A[n].buf[i].data = d
    <3>1. PICK i \in DOMAIN A[n].buf : A[n].buf[i].data = d
      BY <2>2
    <3> DEFINE y == <<n, i>>
    <3>2. y \in Holding(A, d)
      BY <3>1 DEF Holding
    <3>3. y[1] = n /\ d \in Flow
      BY DEF Data
    <3> HIDE DEF y
    <3> QED
      BY <1>3, <3>2, <3>3
  <2> QED
    BY <2>1, <2>2 DEF Data
<1>4. x \in Kept(A) <=> \E d \in Flow : \/ \E y \in Sending(A, d) : x = <<d, y[1]>>
                                        \/ \E y \in Holding(A, d) : x = <<d, y[1]>>
  BY DEF Kept
<1> QED
  BY <1>1, <1>2, <1>3, <1>4

\* An agent is as it should be with regard to the data that it has, and no other.
LEMMA OwnData ==
    ASSUME NEW s, NEW n, NEW D, NEW N, AgentOK(s, n, D, N), D \subseteq Flow
    PROVE  AgentOK(s, n, Data(s), N)
<1>1. BufferOK(s, n, Data(s))
  <2>1. s.buf \in Seq(Header(D)) /\ Len(s.buf) \in Nat /\ DOMAIN s.buf = 1..Len(s.buf)
    BY LenProperties DEF AgentOK, BufferOK
  <2>2. ASSUME NEW i \in 1..Len(s.buf)
        PROVE  s.buf[i] \in Header(Data(s)) /\ Waits(s.buf[i], n, Data(s))
    <3> DEFINE p == s.buf[i]
    <3>1. p \in Header(D) /\ Waits(p, n, D)
      BY <2>1 DEF AgentOK, BufferOK, Waits, PacketOK
    <3>2. p.data \in Data(s) \cup {None}
      BY <2>1, <3>1 DEF Header, Data
    <3> HIDE DEF p
    <3> QED
      BY <3>1, <3>2 DEF Header, Waits, PacketOK, p
  <2>3. s.buf \in Seq(Header(Data(s)))
    <3>1. s.buf = [i \in 1..Len(s.buf) |-> s.buf[i]]
      BY <2>1
    <3>2. s.buf \in [1..Len(s.buf) -> Header(Data(s))]
      BY <2>2, <3>1
    <3> QED
      BY <2>1, <3>2, SeqDef
  <2> QED
    BY <2>2, <2>3 DEF AgentOK, BufferOK
<1>2. FramesOK(s, n, Data(s), N)
  <2>1. ASSUME NEW f \in s.ifq PROVE FrameOK(f, n, Data(s))
    <3>1. FrameOK(f, n, D)
      BY DEF AgentOK, FramesOK
    <3>2. f.pkt.data \in Data(s) \cup {None}
      BY <3>1 DEF FrameOK, PacketOK, Header, Data
    <3>3. PacketOK(f.pkt, Data(s))
      BY <3>1, <3>2 DEF FrameOK, PacketOK, Header
    <3> QED
      BY <3>1, <3>3 DEF FrameOK
  <2> QED
    BY <2>1 DEF AgentOK, FramesOK
<1> QED
  BY <1>1, <1>2 DEF AgentOK

LEMMA DataKnown ==
    ASSUME NEW s, NEW n, NEW D, NEW N, AgentOK(s, n, D, N)
    PROVE  Data(s) \subseteq D
<1> SUFFICES ASSUME NEW d \in Data(s) PROVE d \in D
  OBVIOUS
<1>1. d \in Flow /\ d # None
  BY DSRAssumption DEF Data
<1>2. CASE \E f \in s.ifq : f.pkt.data = d
  BY <1>1, <1>2 DEF AgentOK, FramesOK, FrameOK, PacketOK, Header
<1>3. CASE \E i \in DOMAIN s.buf : s.buf[i].data = d
  <2>1. DOMAIN s.buf = 1..Len(s.buf)
    BY LenProperties DEF AgentOK, BufferOK
  <2> QED
    BY <1>1, <1>3, <2>1 DEF AgentOK, BufferOK, Waits, PacketOK, Header
<1> QED
  BY <1>2, <1>3 DEF Data

\* Data goes to one node at a time.
LEMMA DataUnicast ==
    ASSUME NEW s, NEW n, NEW D, NEW N, AgentOK(s, n, D, N), NEW f \in s.ifq, f.pkt.data # None
    PROVE  f.to \in Node
BY DEF AgentOK, FramesOK, FrameOK, PacketOK, LoadOK, Asks

LEMMA SameAgent ==
    ASSUME NEW s
    PROVE  NoMore(s, s)
BY DEF NoMore

\* A step of n in which it comes to have data that it may accept is a Handle.
LEMMA HandsOn ==
    ASSUME IInv, IInv', NEW n \in Node, NEW got \in SUBSET Flow, UNCHANGED selfish,
           \A d \in got : \/ d.src = n
                          \/ (n \notin selfish /\ \E m \in Node : <<d, m, n>> \in Offered(agent)),
           Data(agent'[n]) \subseteq Data(agent[n]) \cup got,
           \A m \in Node \ {n} : NoMore(agent'[m], agent[m])
    PROVE  Algo!Handle(n)
<1> DEFINE has == got \cup {d \in Flow : <<d, n>> \in Kept(agent)}
<1>1. got \in SUBSET {d \in Flow : Algo!MayAccept(n, d)}
  BY DEF Algo!MayAccept, Offered, Sending, InFlight
<1>2. Data(agent'[n]) \subseteq has
  BY KeptOnes DEF Data
<1>3. Kept(agent') \subseteq Kept(agent) \cup (got \X {n})
  <2> SUFFICES ASSUME NEW x \in Kept(agent') PROVE x \in Kept(agent) \cup (got \X {n})
    OBVIOUS
  <2>1. PICK m \in Node : \E d \in Data(agent'[m]) : x = <<d, m>>
    BY KeptOnes
  <2>2. PICK d \in Data(agent'[m]) : x = <<d, m>>
    BY <2>1
  <2>3. CASE m = n
    <3>1. d \in Data(agent[n]) \/ d \in got
      BY <2>3
    <3> QED
      BY <2>2, <2>3, <3>1, KeptOnes
  <2>4. CASE m # n
    <3>1. d \in Data(agent[m])
      BY <2>4 DEF NoMore
    <3> QED
      BY <2>2, <3>1, KeptOnes
  <2> QED
    BY <2>3, <2>4
<1>4. Offered(agent') \subseteq Offered(agent) \cup (has \X {n} \X Node)
  <2> SUFFICES ASSUME NEW x \in Offered(agent') PROVE x \in Offered(agent) \cup (has \X {n} \X Node)
    OBVIOUS
  <2>1. PICK m \in Node : \E f \in agent'[m].ifq : f.pkt.data \in Flow /\ x = <<f.pkt.data, m, f.to>>
    BY OfferedOnes
  <2>2. PICK f \in agent'[m].ifq : f.pkt.data \in Flow /\ x = <<f.pkt.data, m, f.to>>
    BY <2>1
  <2>3. f.pkt.data # None
    BY <2>2, DSRAssumption
  <2>4. CASE m = n
    <3>1. f.pkt.data \in has
      BY <1>2, <2>2, <2>4 DEF Data
    <3>2. f.to \in Node
      BY <2>3, DataUnicast DEF IInv
    <3> HIDE DEF has
    <3> QED
      BY <2>2, <2>4, <3>1, <3>2
  <2>5. CASE m # n
    <3>1. PICK g \in agent[m].ifq : g.pkt.data = f.pkt.data /\ g.to = f.to
      BY <2>3, <2>5 DEF NoMore
    <3> QED
      BY <2>2, <3>1, OfferedOnes
  <2> QED
    BY <2>4, <2>5
<1> HIDE DEF has
<1>5. {} \subseteq {} \cup (got \X {n})
  OBVIOUS
<1> QED
  BY <1>1, <1>3, <1>4, <1>5 DEF Algo!Handle, Offered, Kept, Sending, Holding, InFlight, Waiting, has
\* The data of the agent as it is and what it gets.
LEMMA MoreData ==
    ASSUME IInv, NEW n \in Node, NEW got \in SUBSET Flow
    PROVE  AgentOK(agent[n], n, Data(agent[n]) \cup got, Numbers)
<1> DEFINE D == Data(agent[n])
<1>1. AgentOK(agent[n], n, D, Numbers)
  BY OwnData DEF IInv
<1>2. \A o \in Node : Numbers[o] >= Numbers[o]
  BY NumbersType
<1> HIDE DEF D
<1>3. AgentOK(agent[n], n, D \cup got, Numbers)
  BY <1>1, <1>2, NumbersType, AgentMonotone
<1> QED
  BY <1>3 DEF D

\* A step of n that gets data is one of the agent of n only.
LEMMA HandsOnAlone ==
    ASSUME IInv, IInv', NEW n \in Node, NEW got \in SUBSET Flow, UNCHANGED selfish,
           \A d \in got : \/ d.src = n
                          \/ (n \notin selfish /\ \E m \in Node : <<d, m, n>> \in Offered(agent)),
           NEW N, AgentOK(agent'[n], n, Data(agent[n]) \cup got, N),
           \A m \in Node \ {n} : agent'[m] = agent[m]
    PROVE  Algo!Handle(n)
<1>1. Data(agent'[n]) \subseteq Data(agent[n]) \cup got
  BY DataKnown
<1>2. \A m \in Node \ {n} : NoMore(agent'[m], agent[m])
  BY SameAgent
<1> QED
  BY <1>1, <1>2, HandsOn

LEMMA FrameLeft ==
    ASSUME NEW s, IsAgent(s), NEW f \in s.ifq
    PROVE  NoMore(Sent(s, f), s) /\ NoMore(Queued(Sent(s, f), Heard(f)), s)
<1> DEFINE t == Sent(s, f)
           h == Heard(f)
           u == Queued(t, h)
<1>1. IsAgent(t) /\ t.ifq = s.ifq \ {f} /\ t.buf = s.buf
  BY DEF Sent, IsAgent
<1>2. NoMore(t, s)
  BY <1>1 DEF NoMore, Data
<1> HIDE DEF t
<1>3. u.ifq = t.ifq \cup {h} /\ u.buf = t.buf
  BY <1>1 DEF Queued, IsAgent
<1>4. h.pkt = f.pkt /\ h.to = f.to
  BY DEF Heard
<1> HIDE DEF h, u
<1>5. NoMore(u, s)
  BY <1>1, <1>3, <1>4 DEF NoMore, Data
<1> QED
  BY <1>2, <1>5 DEF t, u, h

LEMMA DeliverHands ==
    ASSUME IInv, IInv', NEW n \in Node, NEW f \in agent[n].ifq, f.to \in Node,
           Deliver(n, f) \/ DeliverInVain(n, f)
    PROVE  Algo!Handle(f.to)
<1> DEFINE m == f.to
           p == f.pkt
           got == IF Ends(m, p) \/ p.data = None THEN {} ELSE {p.data}
           D == Data(agent[m]) \cup got
           t == recv(agent[m], m, p)
<1>1. FrameOK(f, n, begun) /\ p.request < Number(agent[m], m, Numbers, p.src) /\ m # n
  BY FramesKnown, FrameWaits
<1>2. p \in Header(begun) /\ LoadOK(p) /\ begun \subseteq Flow
  BY <1>1 DEF FrameOK, PacketOK, IInv
<1>3. got \in SUBSET Flow
  BY <1>2 DEF Header
<1>4. ASSUME NEW d \in got
      PROVE  d.src = m \/ (m \notin selfish /\ \E k \in Node : <<d, k, m>> \in Offered(agent))
  <2>1. d = p.data /\ ~Ends(m, p) /\ p.data # None /\ d \in Flow
    BY <1>3
  <2>2. p.src = d.src
    BY <1>2, <2>1 DEF LoadOK
  <2>3. p.src = m \/ m \notin selfish
    BY <2>1 DEF Ends
  <2>4. <<d, n, m>> \in Offered(agent)
    BY <2>1, OfferedOnes
  <2> QED
    BY <2>2, <2>3, <2>4
<1>5. AgentOK(agent[m], m, D, Numbers)
  BY <1>3, MoreData
<1>6. Arrives(p, m, begun)
  BY <1>1, PacketArrives
<1>7. Ends(m, p) \/ p.data \in D \cup {None}
  OBVIOUS
<1> HIDE DEF D
<1>8. AgentOK(t, m, D, Numbers)
  BY <1>1, <1>5, <1>6, <1>7, recvOK
<1>9. /\ agent'[m] = t
      /\ agent'[n] = Sent(agent[n], f) \/ agent'[n] = Queued(Sent(agent[n], f), Heard(f))
      /\ \A k \in Node \ {n, m} : agent'[k] = agent[k]
  BY <1>1, DeliverChanges
<1> HIDE DEF t
<1>10. Data(agent'[m]) \subseteq Data(agent[m]) \cup got
  BY <1>8, <1>9, DataKnown DEF D
<1>11. ASSUME NEW k \in Node \ {m} PROVE NoMore(agent'[k], agent[k])
  <2>1. IsAgent(agent[n])
    BY DEF IInv, AgentOK
  <2>2. CASE k = n
    BY <1>9, <2>1, <2>2, FrameLeft
  <2>3. CASE k # n
    BY <1>9, <2>3, SameAgent
  <2> QED
    BY <2>2, <2>3
<1>12. UNCHANGED selfish
  BY DEF Deliver, DeliverInVain
<1> HIDE DEF got
<1> QED
  BY <1>3, <1>4, <1>10, <1>11, <1>12, HandsOn

LEMMA FailHands ==
    ASSUME IInv, IInv', NEW n \in Node, NEW f \in agent[n].ifq, f.to \in Node, Fail(n, f)
    PROVE  Algo!Handle(n)
<1> DEFINE u == Sent(agent[n], f)
           t == xmitFailed(u, n, f.pkt)
           got == {}
           D == Data(agent[n]) \cup got
<1>1. AgentOK(agent[n], n, D, Numbers) /\ got \in SUBSET Flow
  BY MoreData
<1> HIDE DEF D
<1>2. AgentOK(u, n, D, Numbers)
  BY <1>1, FramesRemoved DEF Sent
<1>3. FrameOK(f, n, D)
  BY <1>1 DEF AgentOK, FramesOK
<1>4. agent' = [agent EXCEPT ![n] = t] /\ UNCHANGED selfish /\ DOMAIN agent = Node
  BY DEF Fail, IInv
<1> HIDE DEF u
<1>5. AgentOK(t, n, D, Numbers)
  BY <1>2, <1>3, xmitFailedOK
<1> HIDE DEF t
<1>6. agent'[n] = t /\ \A m \in Node \ {n} : agent'[m] = agent[m]
  BY <1>4
<1>7. AgentOK(agent'[n], n, Data(agent[n]) \cup got, Numbers)
  BY <1>5, <1>6 DEF D
<1>8. \A d \in got : d.src = n \/ (n \notin selfish /\ \E m \in Node : <<d, m, n>> \in Offered(agent))
  OBVIOUS
<1> HIDE DEF got
<1> QED
  BY <1>1, <1>4, <1>6, <1>7, <1>8, HandsOnAlone

LEMMA BroadcastHands ==
    ASSUME IInv, IInv', NEW n \in Node, NEW f \in agent[n].ifq, f.to = MAC_BROADCAST, Broadcast(n, f)
    PROVE  Algo!Handle(n)
<1> DEFINE p == f.pkt
           got == {}
<1>1. PICK heard \in SUBSET {m \in Node : {n, m} \in link} :
        /\ agent' = [m \in Node |-> IF m = n THEN Sent(agent[n], f)
                                    ELSE IF m \in heard THEN recv(agent[m], m, p)
                                    ELSE agent[m]]
        /\ UNCHANGED selfish
  BY DEF Broadcast
<1>2. NoMore(agent'[n], agent[n])
  <2>1. IsAgent(agent[n]) /\ agent'[n] = Sent(agent[n], f)
    BY <1>1 DEF IInv, AgentOK
  <2> QED
    BY <2>1, FrameLeft
<1>3. ASSUME NEW m \in Node \ {n} PROVE NoMore(agent'[m], agent[m])
  <2>1. CASE m \notin heard
    <3>1. agent'[m] = agent[m]
      BY <1>1, <2>1
    <3> QED
      BY <3>1, SameAgent
  <2>2. CASE m \in heard
    <3> DEFINE t == recv(agent[m], m, p)
               D == Data(agent[m]) \cup got
    <3>1. agent'[m] = t
      BY <1>1, <2>2
    <3>2. FrameOK(f, n, begun) /\ p.request < Number(agent[m], m, Numbers, p.src)
      BY FramesKnown
    <3>3. Arrives(p, m, begun)
      BY <3>2, PacketArrives
    <3>4. p.request > 0 /\ p.data = None
      BY <3>2, DSRAssumption DEF FrameOK, Asks, PacketOK, LoadOK
    <3>5. Request(p, begun)
      BY <3>3, <3>4 DEF Arrives, Travels
    <3>6. AgentOK(agent[m], m, D, Numbers) /\ AgentOK(agent[m], m, begun, Numbers)
      BY MoreData DEF IInv
    <3>7. p.data \in D \cup {None}
      BY <3>4
    <3> HIDE DEF D
    <3>8. AgentOK(t, m, D, Numbers)
      BY <3>2, <3>3, <3>6, <3>7, recvOK
    <3>9. Mute(t, agent[m])
      BY <3>2, <3>5, <3>6, ReceivesMutely
    <3> HIDE DEF t
    <3>10. Data(t) \subseteq Data(agent[m])
      BY <3>8, DataKnown DEF D
    <3> QED
      BY <3>1, <3>9, <3>10 DEF NoMore, Mute
  <2> QED
    BY <2>1, <2>2
<1>4. got \in SUBSET Flow
  OBVIOUS
<1>5. \A d \in got : d.src = n \/ (n \notin selfish /\ \E m \in Node : <<d, m, n>> \in Offered(agent))
  OBVIOUS
<1>6. Data(agent'[n]) \subseteq Data(agent[n]) \cup got
  BY <1>2 DEF NoMore
<1> HIDE DEF got
<1> QED
  BY <1>1, <1>3, <1>4, <1>5, <1>6, HandsOn

LEMMA OriginateHands ==
    ASSUME IInv, IInv', NEW d \in Flow, Originate(d)
    PROVE  d.src \in Node /\ Algo!Handle(d.src)
<1> DEFINE got == {d}
           n == d.src
           D == Data(agent[n]) \cup got
           p == NewPacket(d.src, d.dst, d)
           t == handlePktWithoutSR(agent[n], n, p)
<1>1. n \in Node /\ d.dst \in Node \ {n} /\ got \in SUBSET Flow
  BY DSRAssumption
<1>2. agent' = [agent EXCEPT ![n] = t] /\ UNCHANGED selfish /\ DOMAIN agent = Node
  BY DEF Originate, IInv
<1>3. AgentOK(agent[n], n, D, Numbers)
  BY <1>1, MoreData
<1>4. Waits(p, n, D)
  <2>1. d \in D \cup {None}
    OBVIOUS
  <2> HIDE DEF D
  <2> QED
    BY <1>1, <2>1, NewPacketOK DEF Waits
<1> HIDE DEF p, D
<1>5. AgentOK(t, n, D, Numbers)
  BY <1>1, <1>3, <1>4, handlePktWithoutSROK
<1> HIDE DEF t
<1>6. agent'[n] = t /\ \A m \in Node \ {n} : agent'[m] = agent[m]
  BY <1>1, <1>2
<1>7. AgentOK(agent'[n], n, Data(agent[n]) \cup got, Numbers)
  BY <1>5, <1>6 DEF D
<1>8. \A x \in got : x.src = n \/ (n \notin selfish /\ \E m \in Node : <<x, m, n>> \in Offered(agent))
  OBVIOUS
<1> HIDE DEF got, n
<1>9. Algo!Handle(n)
  BY <1>1, <1>2, <1>6, <1>7, <1>8, HandsOnAlone
<1> QED
  BY <1>1, <1>9 DEF n

LEMMA TimePassesHands ==
    ASSUME IInv, IInv', TimePasses
    PROVE  \E n \in Node : Algo!Handle(n)
<1>1. PICK n \in Node : SendBufferTimer(n) \/ Forget(n) \/ \E d \in Node : Wait(n, d)
  BY DEF TimePasses
<1> DEFINE got == {}
           D == Data(agent[n]) \cup got
<1>2. AgentOK(agent[n], n, D, Numbers) /\ got \in SUBSET Flow
  BY MoreData
<1> HIDE DEF D
<1>3. PICK t : AgentOK(t, n, D, Numbers) /\ agent' = [agent EXCEPT ![n] = t]
  BY <1>1, <1>2, TimerChanges
<1>4. UNCHANGED selfish
  BY <1>1, <1>2, TimerChanges
<1>5. agent'[n] = t /\ \A m \in Node \ {n} : agent'[m] = agent[m]
  BY <1>3 DEF IInv
<1>6. AgentOK(agent'[n], n, Data(agent[n]) \cup got, Numbers)
  BY <1>3, <1>5 DEF D
<1>7. \A d \in got : d.src = n \/ (n \notin selfish /\ \E m \in Node : <<d, m, n>> \in Offered(agent))
  OBVIOUS
<1> HIDE DEF got
<1>8. Algo!Handle(n)
  BY <1>2, <1>4, <1>5, <1>6, <1>7, HandsOnAlone
<1> QED
  BY <1>8

LEMMA AlgoStep ==
    ASSUME IInv, IInv', [Next]_vars
    PROVE  [Algo!Next]_(Algo!vars)
<1>1. CASE UNCHANGED agent /\ UNCHANGED selfish
  BY <1>1 DEF Algo!vars, InFlight, Waiting
<1>2. ASSUME NEW n \in Node, Algo!Handle(n) PROVE Algo!Next
  BY <1>2 DEF Algo!Next
<1>3. ASSUME NEW d \in Flow, Originate(d) PROVE Algo!Next
  BY <1>2, <1>3, OriginateHands
<1>4. CASE Transmit
  <2>1. PICK n \in Node : \E f \in agent[n].ifq :
            IF f.to = MAC_BROADCAST THEN Broadcast(n, f)
            ELSE Deliver(n, f) \/ Fail(n, f) \/ DeliverInVain(n, f)
    BY <1>4 DEF Transmit
  <2>2. PICK f \in agent[n].ifq :
            IF f.to = MAC_BROADCAST THEN Broadcast(n, f)
            ELSE Deliver(n, f) \/ Fail(n, f) \/ DeliverInVain(n, f)
    BY <2>1
  <2>3. CASE f.to = MAC_BROADCAST
    BY <1>2, <2>2, <2>3, BroadcastHands
  <2>4. CASE f.to # MAC_BROADCAST
    <3>1. f.to \in Node
      BY <2>4, FramesKnown
    <3> QED
      BY <1>2, <2>2, <2>4, <3>1, DeliverHands, FailHands
  <2> QED
    BY <2>3, <2>4
<1>5. CASE TimePasses
  BY <1>2, <1>5, TimePassesHands
<1>6. ASSUME NEW l \in Fragile, Break(l) PROVE UNCHANGED agent /\ UNCHANGED selfish
  BY <1>6 DEF Break
<1>7. ASSUME NEW n \in Egoist, egoista(n) PROVE Algo!Next
  <2>1. n \in Node /\ UNCHANGED agent /\ selfish' \in {selfish \cup {n}, selfish \ {n}}
    BY <1>7, DSRAssumption DEF egoista
  <2>2. Algo!Switch(n)
    BY <2>1 DEF Algo!Switch, InFlight, Waiting
  <2> QED
    BY <2>1, <2>2 DEF Algo!Next
<1>8. CASE UNCHANGED vars
  <2>1. UNCHANGED agent /\ UNCHANGED selfish
    BY <1>8 DEF vars
  <2> QED
    BY <1>1, <2>1
<1> QED
  BY <1>1, <1>3, <1>4, <1>5, <1>6, <1>7, <1>8 DEF Next

\* DSR implements Algorithm 1 of the repository's README in every network, whenever nodes
\* turn selfish or back: a selfish node drops all data that it did not originate, and no
\* node keeps or hands on what it was not given, however it is salvaged or buffered.
THEOREM SelfishNodesDrop == Spec => SelfishPromise
<1>1. Init => Algo!Init
  <2> SUFFICES ASSUME Init PROVE Algo!Init
    OBVIOUS
  <2>1. \A n \in Node : agent[n].ifq = {} /\ agent[n].buf = <<>>
    BY DEF Init, Fresh
  <2>2. \A d : InFlight(d) = {} /\ Waiting(d) = {}
    BY <2>1 DEF InFlight, Waiting
  <2> QED
    BY <2>2 DEF Init, Algo!Init
<1>2. IInv /\ IInv' /\ [Next]_vars => [Algo!Next]_(Algo!vars)
  BY AlgoStep
<1> QED
  BY <1>1, <1>2, Invariance, PTL DEF Spec, SelfishPromise, Algo!Spec

-----------------------------------------------------------------------------
(* Copies of a data packet at a node *)

Frames(s, d) == {f \in s.ifq : f.pkt.data = d}
Slots(s, d) == {i \in DOMAIN s.buf : s.buf[i].data = d}
Copies(s, d) == Cardinality(Frames(s, d)) + Cardinality(Slots(s, d))
Carried(p, d) == IF p.data = d THEN 1 ELSE 0

LEMMA NotMore ==
    ASSUME NEW S, NEW T, IsFiniteSet(T), NEW g \in [S -> T],
           \A x, y \in S : g[x] = g[y] => x = y
    PROVE  IsFiniteSet(S) /\ Cardinality(S) \in Nat /\ Cardinality(S) <= Cardinality(T)
<1>1. g \in Injection(S, T)
  BY DEF Injection, IsInjective
<1> QED
  BY <1>1, FS_Injection, FS_CardinalityType

LEMMA CopiesType ==
    ASSUME NEW s, NEW n, NEW D, NEW N, AgentOK(s, n, D, N), NEW d
    PROVE  /\ IsFiniteSet(Frames(s, d)) /\ Cardinality(Frames(s, d)) \in Nat
           /\ IsFiniteSet(Slots(s, d)) /\ Cardinality(Slots(s, d)) \in Nat
           /\ Copies(s, d) \in Nat
           /\ Slots(s, d) = {i \in 1..Len(s.buf) : s.buf[i].data = d}
<1>1. IsFiniteSet(s.ifq) /\ Frames(s, d) \subseteq s.ifq
  BY DEF AgentOK, FramesOK, Frames
<1>2. DOMAIN s.buf = 1..Len(s.buf) /\ Len(s.buf) \in Nat
  BY LenProperties DEF AgentOK, BufferOK
<1>3. Slots(s, d) = {i \in 1..Len(s.buf) : s.buf[i].data = d}
  BY <1>2 DEF Slots
<1>4. IsFiniteSet(1..Len(s.buf))
  BY <1>2, FS_Interval
<1>5. Slots(s, d) \subseteq 1..Len(s.buf)
  BY <1>3
<1>6. IsFiniteSet(Frames(s, d)) /\ IsFiniteSet(Slots(s, d))
  BY <1>1, <1>4, <1>5, FS_Subset
<1>7. Cardinality(Frames(s, d)) \in Nat /\ Cardinality(Slots(s, d)) \in Nat
  BY <1>6, FS_CardinalityType
<1> QED
  BY <1>3, <1>6, <1>7 DEF Copies

LEMMA SameCopies ==
    ASSUME NEW s, NEW t, t.ifq = s.ifq, t.buf = s.buf
    PROVE  \A d : Copies(t, d) = Copies(s, d)
BY DEF Copies, Frames, Slots

LEMMA QuietCopies ==
    ASSUME NEW s, NEW n, NEW D, NEW N, AgentOK(s, n, D, N), NEW t, Quiet(t, s),
           NEW d \in Flow
    PROVE  Copies(t, d) <= Copies(s, d)
<1>1. d # None
  BY DSRAssumption
<1>2. Frames(t, d) \subseteq Frames(s, d) /\ Slots(t, d) = Slots(s, d)
  BY <1>1 DEF Frames, Slots, Quiet, Mute
<1>3. /\ Cardinality(Frames(t, d)) \in Nat
      /\ Cardinality(Frames(t, d)) <= Cardinality(Frames(s, d))
  BY <1>2, CopiesType, FS_Subset, FS_CardinalityType
<1>4. Cardinality(Frames(s, d)) \in Nat /\ Cardinality(Slots(s, d)) \in Nat
  BY CopiesType
<1> QED
  BY <1>2, <1>3, <1>4 DEF Copies

LEMMA FrameCopies ==
    ASSUME NEW s, NEW n, NEW D, NEW N, AgentOK(s, n, D, N), NEW t, t.buf = s.buf,
           NEW f, t.ifq = s.ifq \cup {f}, NEW d
    PROVE  Copies(t, d) <= Copies(s, d) + Carried(f.pkt, d)
<1>1. /\ IsFiniteSet(Frames(s, d)) /\ Cardinality(Frames(s, d)) \in Nat
      /\ Cardinality(Slots(s, d)) \in Nat
  BY CopiesType
<1>2. Slots(t, d) = Slots(s, d)
  BY DEF Slots
<1>3. CASE f.pkt.data = d
  <2>1. Frames(t, d) = Frames(s, d) \cup {f}
    BY <1>3 DEF Frames
  <2>2. Cardinality(Frames(t, d)) \in {Cardinality(Frames(s, d)), Cardinality(Frames(s, d)) + 1}
    BY <1>1, <2>1, FS_AddElement
  <2> QED
    BY <1>1, <1>2, <1>3, <2>2 DEF Copies, Carried
<1>4. CASE f.pkt.data # d
  <2>1. Frames(t, d) = Frames(s, d)
    BY <1>4 DEF Frames
  <2> QED
    BY <1>1, <1>2, <1>4, <2>1 DEF Copies, Carried
<1> QED
  BY <1>3, <1>4

LEMMA sendOutCopies ==
    ASSUME NEW s, NEW n, NEW D, NEW N, AgentOK(s, n, D, N), NEW E, NEW p, PacketOK(p, E)
    PROVE  LET t == sendOutPacketWithRoute(s, n, p)
           IN  t.buf = s.buf /\ \A d : Copies(t, d) <= Copies(s, d) + Carried(p, d)
<1> DEFINE on == [p EXCEPT !.at = @ + 1]
           f == IF p.request > 0 THEN [to |-> MAC_BROADCAST, pkt |-> p, heard |-> FALSE]
                ELSE [to |-> p.route[on.at], pkt |-> on, heard |-> FALSE]
           t == [s EXCEPT !.ifq = @ \cup {f}]
<1>1. sendOutPacketWithRoute(s, n, p) = t
  BY DEF sendOutPacketWithRoute
<1>2. on.data = p.data
  BY DEF PacketOK, Header
<1> HIDE DEF on
<1>3. f.pkt.data = p.data
  BY <1>2
<1> HIDE DEF f
<1>4. t.ifq = s.ifq \cup {f} /\ t.buf = s.buf
  BY DEF AgentOK, IsAgent
<1> HIDE DEF t
<1>5. \A d : Copies(t, d) <= Copies(s, d) + Carried(p, d)
  BY <1>3, <1>4, FrameCopies DEF Carried
<1> QED
  BY <1>1, <1>4, <1>5

LEMMA SendAlongCopies ==
    ASSUME NEW s, NEW n, NEW D, NEW N, AgentOK(s, n, D, N),
           NEW E, NEW p, PacketOK(p, E), NEW r \in Seq(Node)
    PROVE  LET t == SendAlong(s, n, p, r)
           IN  t.buf = s.buf /\ \A d : Copies(t, d) <= Copies(s, d) + Carried(p, d)
<1> DEFINE q == Along(p, r)
<1>1. PacketOK(q, E) /\ q.data = p.data
  BY RouteChanged
<1>2. SendAlong(s, n, p, r) = sendOutPacketWithRoute(s, n, q)
  BY DEF SendAlong, Along
<1> HIDE DEF q
<1>3. \A d : Carried(q, d) = Carried(p, d)
  BY <1>1 DEF Carried
<1> QED
  BY <1>1, <1>2, <1>3, sendOutCopies

\* The slots of a buffer that carry d.
LEMMA stickCopies ==
    ASSUME NEW s, NEW n \in Node, NEW D, NEW N, AgentOK(s, n, D, N), NEW p, Waits(p, n, D),
           NEW d
    PROVE  Copies(stickPacketInSendBuffer(s, p), d) <= Copies(s, d) + Carried(p, d)
<1> DEFINE t == stickPacketInSendBuffer(s, p)
           brim == Len(s.buf) = SEND_BUF_SIZE
           rest == IF brim THEN Tail(s.buf) ELSE s.buf
           L == Len(rest)
           q == Along(p, <<>>)
           R == {i \in 1..L : rest[i].data = d}
           k == IF brim THEN 1 ELSE 0
<1>1. t.ifq = s.ifq /\ t.buf = Append(rest, q)
  BY DEF stickPacketInSendBuffer, Along, AgentOK, IsAgent
<1>2. q.data = p.data /\ q \in Header(D)
  <2>1. PacketOK(p, D) /\ <<>> \in Seq(Node)
    BY EmptySeq DEF Waits
  <2>2. PacketOK(q, D) /\ q.data = p.data
    BY <2>1, RouteChanged
  <2> HIDE DEF q
  <2> QED
    BY <2>2 DEF PacketOK
<1>3. s.buf \in Seq(Header(D)) /\ Len(s.buf) \in Nat /\ SEND_BUF_SIZE \in Nat \ {0}
  BY LenProperties, DSRAssumption DEF AgentOK, BufferOK
<1>4. /\ rest \in Seq(Header(D)) /\ L \in Nat /\ k \in Nat
      /\ \A i \in 1..L : i + k \in 1..Len(s.buf) /\ rest[i] = s.buf[i + k]
  <2>1. CASE brim
    <3>1. s.buf # <<>>
      BY <1>3, <2>1, EmptySeq
    <3>2. /\ Tail(s.buf) \in Seq(Header(D)) /\ Len(Tail(s.buf)) = Len(s.buf) - 1
          /\ \A i \in 1..Len(Tail(s.buf)) : Tail(s.buf)[i] = s.buf[i + 1]
      BY <1>3, <3>1, HeadTailProperties
    <3>3. Len(s.buf) - 1 \in Nat /\ k = 1 /\ rest = Tail(s.buf)
      BY <1>3, <2>1
    <3> QED
      BY <1>3, <3>2, <3>3
  <2>2. CASE ~brim
    BY <1>3, <2>2
  <2> QED
    BY <2>1, <2>2
<1> HIDE DEF t, rest, q, L, k
<1>5. /\ t.buf \in Seq(Header(D)) /\ Len(t.buf) = L + 1
      /\ \A i \in 1..L : t.buf[i] = rest[i]
      /\ t.buf[L + 1] = q
  BY <1>1, <1>2, <1>4, AppendProperties DEF L
<1>6. DOMAIN t.buf = 1..(L + 1)
  BY <1>5, LenProperties
<1>7. /\ IsFiniteSet(Slots(s, d)) /\ Slots(s, d) = {i \in 1..Len(s.buf) : s.buf[i].data = d}
      /\ Cardinality(Slots(s, d)) \in Nat /\ Cardinality(Frames(s, d)) \in Nat
  BY CopiesType
<1>8. IsFiniteSet(R) /\ Cardinality(R) \in Nat /\ Cardinality(R) <= Cardinality(Slots(s, d))
  <2> DEFINE g == [i \in R |-> i + k]
  <2>1. g \in [R -> Slots(s, d)] /\ \A x, y \in R : g[x] = g[y] => x = y
    BY <1>4, <1>7
  <2> HIDE DEF R, g
  <2> QED
    BY <1>7, <2>1, NotMore
<1>9. Frames(t, d) = Frames(s, d)
  BY <1>1 DEF Frames
<1>10. CASE p.data = d
  <2>1. Slots(t, d) = R \cup {L + 1}
    BY <1>2, <1>4, <1>5, <1>6, <1>10 DEF Slots
  <2> HIDE DEF R
  <2>2. Cardinality(Slots(t, d)) \in {Cardinality(R), Cardinality(R) + 1}
    BY <1>8, <2>1, FS_AddElement
  <2> QED
    BY <1>7, <1>8, <1>9, <1>10, <2>2 DEF Copies, Carried, t
<1>11. CASE p.data # d
  <2>1. Slots(t, d) = R
    BY <1>2, <1>4, <1>5, <1>6, <1>11 DEF Slots
  <2> HIDE DEF R
  <2> QED
    BY <1>7, <1>8, <1>9, <1>11, <2>1 DEF Copies, Carried, t
<1> QED
  BY <1>10, <1>11

LEMMA handlePktCopies ==
    ASSUME NEW s, NEW n \in Node, NEW D, NEW N, AgentOK(s, n, D, N), NEW p, Waits(p, n, D),
           NEW d \in Flow
    PROVE  Copies(handlePktWithoutSR(s, n, p), d) <= Copies(s, d) + Carried(p, d)
<1>1. PacketOK(p, D) /\ p.dst \in Node \ {n}
  BY DEF Waits, PacketOK, Header
<1>2. CASE RoutesTo(s, p.dst) # {}
  <2>1. findRoute(s, p.dst) \in Seq(Node)
    BY <1>1, <1>2, findRouteOK DEF AgentOK, WaysOK, Way
  <2>2. handlePktWithoutSR(s, n, p) = SendAlong(s, n, p, findRoute(s, p.dst))
    BY <1>2 DEF handlePktWithoutSR
  <2> QED
    BY <1>1, <2>1, <2>2, SendAlongCopies
<1>3. CASE RoutesTo(s, p.dst) = {}
  <2> DEFINE u == getRouteForPacket(s, n, p)
             t == stickPacketInSendBuffer(u, p)
  <2>1. handlePktWithoutSR(s, n, p) = t
    BY <1>3 DEF handlePktWithoutSR
  <2>2. AgentOK(u, n, D, N) /\ Quiet(u, s)
    BY <1>1, getRouteOK, getRouteQuietly
  <2> HIDE DEF u
  <2>3. Copies(t, d) <= Copies(u, d) + Carried(p, d)
    BY <2>2, stickCopies
  <2>4. AgentOK(t, n, D, N)
    BY <2>2, stickOK
  <2> HIDE DEF t
  <2>5. Copies(u, d) <= Copies(s, d)
    BY <2>2, QuietCopies
  <2>6. Copies(t, d) \in Nat /\ Copies(u, d) \in Nat /\ Copies(s, d) \in Nat
    BY <2>2, <2>4, CopiesType
  <2> QED
    BY <2>1, <2>3, <2>5, <2>6 DEF Carried
<1> QED
  BY <1>2, <1>3

\* p is in the send buffer of s.
Buffered(p, s) == \E i \in 1..Len(s.buf) : s.buf[i] = p

LEMMA FirstRemovedCopies ==
    ASSUME NEW s, NEW n, NEW D, NEW N, AgentOK(s, n, D, N), NEW p, Buffered(p, s), NEW d
    PROVE  Copies([s EXCEPT !.buf = RemoveFirst(@, p)], d) + Carried(p, d) <= Copies(s, d)
<1> DEFINE t == [s EXCEPT !.buf = RemoveFirst(@, p)]
           S == Slots(s, d)
           T == Slots(t, d)
<1>1. t.ifq = s.ifq /\ t.buf = RemoveFirst(s.buf, p)
  BY DEF AgentOK, IsAgent
<1>2. AgentOK(t, n, D, N)
  BY FirstRemoved
<1> HIDE DEF t
<1>3. s.buf \in Seq(Header(D))
  BY DEF AgentOK, BufferOK
<1> DEFINE b == s.buf
           c == t.buf
<1>4. /\ Len(b) \in Nat /\ Len(c) = Len(b) - 1
      /\ \E k \in 1..Len(b) :
            /\ b[k] = p /\ \A i \in 1..Len(b) : b[i] = p => k <= i
            /\ \A i \in 1..Len(b) - 1 : c[i] = IF i < k THEN b[i] ELSE b[i + 1]
  <2>1. b \in Seq(Header(D)) /\ \E i \in 1..Len(b) : b[i] = p
    BY <1>3 DEF Buffered
  <2>2. c = RemoveFirst(b, p)
    BY <1>1
  <2> HIDE DEF b, c
  <2> QED
    BY <2>1, <2>2, RemoveFirstOK
<1>5. PICK k \in 1..Len(b) :
        b[k] = p /\ \A i \in 1..Len(b) - 1 : c[i] = IF i < k THEN b[i] ELSE b[i + 1]
  BY <1>4
<1>6. /\ S = {i \in 1..Len(b) : b[i].data = d} /\ IsFiniteSet(S) /\ Cardinality(S) \in Nat
      /\ Cardinality(Frames(s, d)) \in Nat
  BY CopiesType
<1>7. T = {i \in 1..Len(b) - 1 : c[i].data = d} /\ Cardinality(T) \in Nat
  <2>1. T = {i \in 1..Len(c) : c[i].data = d} /\ Cardinality(T) \in Nat
    BY <1>2, CopiesType
  <2> HIDE DEF b, c, T
  <2> QED
    BY <1>4, <2>1
<1>8. Frames(t, d) = Frames(s, d)
  BY <1>1 DEF Frames
<1> HIDE DEF S, T, b, c
<1>9. IsFiniteSet(S \ {k}) /\ Cardinality(S \ {k}) = Cardinality(S) - Carried(p, d)
  <2>1. k \in S <=> p.data = d
    BY <1>5, <1>6
  <2>2. /\ IsFiniteSet(S \ {k})
        /\ Cardinality(S \ {k}) = IF k \in S THEN Cardinality(S) - 1 ELSE Cardinality(S)
    BY <1>6, FS_RemoveElement
  <2> QED
    BY <1>6, <2>1, <2>2 DEF Carried
<1>10. Cardinality(T) <= Cardinality(S \ {k})
  <2> DEFINE g == [i \in T |-> IF i < k THEN i ELSE i + 1]
  <2>1. ASSUME NEW i \in T PROVE g[i] \in S \ {k} /\ i \in Nat /\ g[i] = IF i < k THEN i ELSE i + 1
    BY <1>4, <1>5, <1>6, <1>7
  <2>2. g \in [T -> S \ {k}] /\ k \in Nat
    BY <1>4, <2>1
  <2> HIDE DEF g
  <2>3. \A x, y \in T : g[x] = g[y] => x = y
    BY <2>1, <2>2
  <2> QED
    BY <1>9, <2>2, <2>3, NotMore
<1> QED
  BY <1>6, <1>7, <1>8, <1>9, <1>10 DEF Copies, Carried, S, T, t

LEMMA SendIfRouteCopies ==
    ASSUME NEW s, NEW n \in Node, NEW D, NEW N, AgentOK(s, n, D, N),
           NEW p, Waits(p, n, D), Buffered(p, s)
    PROVE  LET t == SendIfRoute(s, n, p) IN
           /\ t.buf \in {s.buf, RemoveFirst(s.buf, p)}
           /\ \A d : Copies(t, d) <= Copies(s, d)
<1>1. CASE RoutesTo(s, p.dst) = {}
  <2>1. SendIfRoute(s, n, p) = s
    BY <1>1 DEF SendIfRoute
  <2>2. \A d : Copies(s, d) \in Nat
    BY CopiesType
  <2> QED
    BY <2>1, <2>2
<1>2. CASE RoutesTo(s, p.dst) # {}
  <2> DEFINE u == [s EXCEPT !.buf = RemoveFirst(@, p)]
             r == findRoute(s, p.dst)
             t == SendAlong(u, n, p, r)
  <2>1. SendIfRoute(s, n, p) = t
    BY <1>2 DEF SendIfRoute
  <2>2. AgentOK(u, n, D, N) /\ u.buf = RemoveFirst(s.buf, p)
    BY FirstRemoved DEF AgentOK, IsAgent
  <2>3. \A d : Copies(u, d) + Carried(p, d) <= Copies(s, d)
    BY FirstRemovedCopies
  <2>4. Way(r, n) /\ r[Len(r)] = p.dst /\ PacketOK(p, D)
    BY <1>2, findRouteOK DEF AgentOK, WaysOK, Waits
  <2> HIDE DEF u, r
  <2>5. AgentOK(t, n, D, N)
    BY <2>2, <2>4, SendAlongOK
  <2>6. t.buf = u.buf /\ \A d : Copies(t, d) <= Copies(u, d) + Carried(p, d)
    BY <2>2, <2>4, SendAlongCopies DEF Way
  <2> HIDE DEF t
  <2>7. \A d : Copies(t, d) <= Copies(s, d)
    <3>1. \A d : Copies(t, d) \in Nat /\ Copies(u, d) \in Nat /\ Copies(s, d) \in Nat
      BY <2>2, <2>5, CopiesType
    <3>2. \A d : Carried(p, d) \in Nat
      BY DEF Carried
    <3> QED
      BY <2>3, <2>6, <3>1, <3>2
  <2> QED
    BY <2>1, <2>2, <2>6, <2>7
<1> QED
  BY <1>1, <1>2

LEMMA CheckPacketCopies ==
    ASSUME NEW s, NEW n \in Node, NEW D, NEW N, AgentOK(s, n, D, N),
           NEW p, Waits(p, n, D), Buffered(p, s), NEW expired
    PROVE  LET t == CheckPacket(s, n, p, expired) IN
           /\ t.buf \in {s.buf, RemoveFirst(s.buf, p)}
           /\ \A d \in Flow : Copies(t, d) <= Copies(s, d)
<1> DEFINE without == [s EXCEPT !.buf = RemoveFirst(@, p)]
           t == CheckPacket(s, n, p, expired)
<1>1. AgentOK(without, n, D, N) /\ without.buf = RemoveFirst(s.buf, p)
  BY FirstRemoved DEF AgentOK, IsAgent
<1>2. \A d : /\ Copies(s, d) \in Nat /\ Copies(without, d) \in Nat /\ Carried(p, d) \in Nat
             /\ Copies(without, d) + Carried(p, d) <= Copies(s, d)
  <2>1. \A d : Copies(without, d) + Carried(p, d) <= Copies(s, d)
    BY FirstRemovedCopies
  <2> HIDE DEF without
  <2> QED
    BY <1>1, <2>1, CopiesType DEF Carried
<1>3. CASE expired
  <2>1. t = without
    BY <1>3 DEF CheckPacket
  <2> HIDE DEF without, t
  <2> QED
    BY <1>1, <1>2, <2>1 DEF t
<1>4. CASE ~expired /\ RoutesTo(s, p.dst) # {}
  <2>1. t = SendIfRoute(s, n, p)
    BY <1>4 DEF CheckPacket
  <2> QED
    BY <2>1, SendIfRouteCopies
<1>5. CASE ~expired /\ RoutesTo(s, p.dst) = {}
  <2> DEFINE u == IF GivesUp(s, n, p) THEN without ELSE s
  <2>1. t = getRouteForPacket(u, n, p)
    BY <1>5 DEF CheckPacket
  <2> HIDE DEF without
  <2>2. AgentOK(u, n, D, N) /\ u.buf \in {s.buf, RemoveFirst(s.buf, p)}
    BY <1>1
  <2>3. \A d : Copies(u, d) <= Copies(s, d) /\ Copies(s, d) \in Nat /\ Copies(u, d) \in Nat
    BY <1>2
  <2>4. p.dst \in Node \ {n}
    BY DEF Waits, PacketOK, Header
  <2> HIDE DEF t, u
  <2>5. Quiet(t, u) /\ AgentOK(t, n, D, N)
    BY <2>1, <2>2, <2>4, getRouteQuietly, getRouteOK
  <2>6. \A d \in Flow : Copies(t, d) <= Copies(u, d) /\ Copies(t, d) \in Nat
    BY <2>2, <2>5, QuietCopies, CopiesType
  <2>7. \A d \in Flow : Copies(t, d) <= Copies(s, d)
    BY <2>3, <2>6
  <2> QED
    BY <2>2, <2>5, <2>7 DEF Quiet, t
<1> QED
  BY <1>3, <1>4, <1>5

LEMMA LookedCopies ==
    ASSUME NEW s, NEW n \in Node, NEW D, NEW N, AgentOK(s, n, D, N),
           NEW p, Waits(p, n, D), Buffered(p, s), NEW check \in BOOLEAN, NEW expired
    PROVE  LET t == Looked(s, n, check, expired, p) IN
           /\ t.buf \in {s.buf, RemoveFirst(s.buf, p)}
           /\ \A d \in Flow : Copies(t, d) <= Copies(s, d)
<1>1. CASE check
  <2>1. Looked(s, n, check, expired, p) = CheckPacket(s, n, p, p \in expired)
    BY <1>1 DEF Looked
  <2> QED
    BY <2>1, CheckPacketCopies
<1>2. CASE ~check
  <2>1. Looked(s, n, check, expired, p) = SendIfRoute(s, n, p)
    BY <1>2 DEF Looked
  <2> QED
    BY <2>1, SendIfRouteCopies
<1> QED
  BY <1>1, <1>2

\* The buffer c ends with what comes after i in the buffer b.
Aligned(b, c, i) ==
    /\ Len(c) >= Len(b) - i
    /\ \A j \in 1..Len(b) : j > i => c[Len(c) - Len(b) + j] = b[j]

\* A packet that is removed is at its old place or before it.
LEMMA StaysAligned ==
    ASSUME NEW S, NEW b \in Seq(S), NEW c \in Seq(S), NEW i \in 1..Len(b),
           Aligned(b, c, i - 1), NEW e \in {c, RemoveFirst(c, b[i])}
    PROVE  Aligned(b, e, i) /\ \E j \in 1..Len(c) : c[j] = b[i]
<1> DEFINE l == Len(c) - Len(b) + i
<1>1. Len(b) \in Nat /\ Len(c) \in Nat
  BY LenProperties
<1>2. Len(c) >= Len(b) - (i - 1) /\ \A j \in 1..Len(b) : j > i - 1 => c[Len(c) - Len(b) + j] = b[j]
  BY DEF Aligned
<1>3. l \in 1..Len(c) /\ c[l] = b[i]
  BY <1>1, <1>2
<1>4. CASE e = c
  BY <1>1, <1>2, <1>4 DEF Aligned
<1>5. CASE e = RemoveFirst(c, b[i])
  <2>1. /\ Len(e) = Len(c) - 1
        /\ \E k \in 1..Len(c) :
              /\ c[k] = b[i] /\ \A x \in 1..Len(c) : c[x] = b[i] => k <= x
              /\ \A x \in 1..Len(c) - 1 : e[x] = IF x < k THEN c[x] ELSE c[x + 1]
    <3> DEFINE p == b[i]
    <3>1. e = RemoveFirst(c, p) /\ \E x \in 1..Len(c) : c[x] = p
      BY <1>3, <1>5
    <3> HIDE DEF p
    <3>2. LET r == RemoveFirst(c, p) IN
          /\ Len(r) = Len(c) - 1
          /\ \E k \in 1..Len(c) :
                /\ c[k] = p /\ \A x \in 1..Len(c) : c[x] = p => k <= x
                /\ \A x \in 1..Len(c) - 1 : r[x] = IF x < k THEN c[x] ELSE c[x + 1]
      BY <3>1, RemoveFirstOK
    <3> QED
      BY <3>1, <3>2 DEF p
  <2>2. PICK k \in 1..Len(c) :
              /\ c[k] = b[i] /\ \A x \in 1..Len(c) : c[x] = b[i] => k <= x
              /\ \A x \in 1..Len(c) - 1 : e[x] = IF x < k THEN c[x] ELSE c[x + 1]
    BY <2>1
  <2>3. k <= l
    BY <1>3, <2>2
  <2>4. Len(e) >= Len(b) - i
    BY <1>1, <1>2, <2>1
  <2>5. ASSUME NEW j \in 1..Len(b), j > i PROVE e[Len(e) - Len(b) + j] = b[j]
    <3> DEFINE x == Len(c) - 1 - Len(b) + j
    <3>1. x \in 1..Len(c) - 1 /\ ~ (x < k) /\ x + 1 = Len(c) - Len(b) + j /\ Len(e) - Len(b) + j = x
      BY <1>1, <1>2, <1>3, <2>1, <2>3, <2>5
    <3>2. c[Len(c) - Len(b) + j] = b[j]
      BY <1>1, <1>2, <2>5
    <3> HIDE DEF x
    <3> QED
      BY <2>2, <3>1, <3>2
  <2> QED
    BY <2>4, <2>5 DEF Aligned
<1> QED
  BY <1>3, <1>4, <1>5

LEMMA SendBufferCopies ==
    ASSUME NEW s, NEW n \in Node, NEW D, NEW N, AgentOK(s, n, D, N),
           NEW check \in BOOLEAN, NEW expired, NEW d \in Flow
    PROVE  Copies(SendBuffer(s, n, check, expired), d) <= Copies(s, d)
<1> DEFINE after == Sweep(s, n, check, expired)
           b == s.buf
           L == Len(b)
           OK(i) == /\ AgentOK(after[i], n, D, N) /\ Copies(after[i], d) <= Copies(s, d)
                    /\ Aligned(b, after[i].buf, i)
           T == {i \in 0..L : ~OK(i)}
<1>1. L \in Nat /\ \A i \in 1..L : Waits(b[i], n, D)
  BY LenProperties DEF AgentOK, BufferOK
<1>2. SendBuffer(s, n, check, expired) = after[L]
  BY DEF SendBuffer, Sweep, Looked
<1>3. after = [i \in 0..L |-> IF i = 0 THEN s ELSE Looked(after[i - 1], n, check, expired, b[i])]
  BY <1>1, SweepExists
<1> HIDE DEF after
<1>4. after[0] = s
  BY <1>1, <1>3
<1>5. OK(0)
  <2>1. Copies(s, d) \in Nat
    BY CopiesType
  <2>2. Aligned(b, b, 0)
    BY <1>1 DEF Aligned
  <2> QED
    BY <1>4, <2>1, <2>2
<1>6. ASSUME NEW i \in 1..L, OK(i - 1) PROVE OK(i)
  <2> DEFINE u == after[i - 1]
             t == after[i]
  <2>1. i \in 0..L /\ i # 0
    BY <1>1
  <2>2. t = Looked(u, n, check, expired, b[i])
    BY <1>3, <2>1
  <2>3. AgentOK(u, n, D, N) /\ Aligned(b, u.buf, i - 1) /\ Copies(u, d) <= Copies(s, d)
    BY <1>6
  <2> HIDE DEF u, t
  <2>4. AgentOK(t, n, D, N)
    BY <1>1, <2>2, <2>3, LookedOK
  <2>5. b \in Seq(Header(D)) /\ u.buf \in Seq(Header(D))
    BY <2>3 DEF AgentOK, BufferOK
  <2> HIDE DEF b, L
  <2>6. Buffered(b[i], u)
    BY <2>3, <2>5, StaysAligned DEF Buffered, L
  <2>7. t.buf \in {u.buf, RemoveFirst(u.buf, b[i])} /\ Copies(t, d) <= Copies(u, d)
    BY <1>1, <2>2, <2>3, <2>6, LookedCopies
  <2>8. Aligned(b, t.buf, i)
    BY <2>3, <2>5, <2>7, StaysAligned DEF L
  <2>9. Copies(t, d) \in Nat /\ Copies(u, d) \in Nat /\ Copies(s, d) \in Nat
    BY <2>3, <2>4, CopiesType
  <2> QED
    BY <2>3, <2>4, <2>7, <2>8, <2>9 DEF t
<1> HIDE DEF L
<1> HIDE DEF OK
<1>7. T = {}
  <2> SUFFICES ASSUME T # {} PROVE FALSE
    OBVIOUS
  <2>1. T \subseteq Nat
    BY <1>1
  <2>2. PICK k \in T : \A j \in T : k <= j
    <3> HIDE DEF T
    <3> QED
      BY <2>1, LeastNat
  <2>3. k \in 1..L /\ k - 1 \in 0..L /\ ~ (k <= k - 1)
    BY <1>1, <1>5
  <2>4. k - 1 \notin T
    <3> HIDE DEF T
    <3> QED
      BY <2>2, <2>3
  <2> QED
    BY <1>6, <2>3, <2>4
<1>8. OK(L)
  BY <1>1, <1>7
<1> QED
  BY <1>2, <1>8 DEF OK

LEMMA acceptRouteReplyCopies ==
    ASSUME NEW s, NEW n \in Node, NEW D, NEW N, AgentOK(s, n, D, N),
           NEW p, p.reply \in Seq(Node), p.reply # <<>>, Simple(p.reply), Len(p.reply) <= MAX_SR_LEN,
           NEW d \in Flow
    PROVE  Copies(acceptRouteReply(s, n, p), d) <= Copies(s, d)
<1> DEFINE known == Known(s, n, p.reply)
<1>1. acceptRouteReply(s, n, p) = SendBuffer(known, n, FALSE, {})
  BY DEF acceptRouteReply, Known
<1>2. AgentOK(known, n, D, N) /\ known.ifq = s.ifq /\ known.buf = s.buf
  BY KnownOK
<1> HIDE DEF known
<1>3. Copies(SendBuffer(known, n, FALSE, {}), d) <= Copies(known, d)
  BY <1>2, SendBufferCopies
<1>4. Copies(known, d) = Copies(s, d)
  BY <1>2, SameCopies
<1> QED
  BY <1>1, <1>3, <1>4

LEMMA noticeDeadLinkSame ==
    ASSUME NEW s, IsAgent(s), NEW down
    PROVE  noticeDeadLink(s, down).ifq = s.ifq /\ noticeDeadLink(s, down).buf = s.buf
BY DEF noticeDeadLink, IsAgent

LEMMA ErrorsCopies ==
    ASSUME NEW s, NEW n \in Node, NEW D, NEW N, AgentOK(s, n, D, N),
           NEW E, NEW p, PacketOK(p, E), p.errors # <<>>, NEW d \in Flow
    PROVE  Copies(processBrokenRouteError(s, n, p), d) <= Copies(s, d)
<1> DEFINE forgot == noticeDeadLink(s, {e.down : e \in ToSet(p.errors)})
           last == [Last(p.errors) EXCEPT !.tell = GRAT_ROUTE_ERROR]
           held == [forgot EXCEPT !.held = last]
           rest == Front(p.errors)
           t == processBrokenRouteError(s, n, p)
<1>1. AgentOK(forgot, n, D, N) /\ forgot.ifq = s.ifq /\ forgot.buf = s.buf
  BY noticeDeadLinkOK, noticeDeadLinkSame DEF AgentOK
<1>2. last \in Error
  BY HoldsError
<1> HIDE DEF last, forgot
<1>3. AgentOK(held, n, D, N) /\ held.ifq = s.ifq /\ held.buf = s.buf
  BY <1>1, <1>2, HeldChanged DEF AgentOK, IsAgent
<1>4. Copies(s, d) \in Nat /\ Copies(forgot, d) = Copies(s, d) /\ Copies(held, d) = Copies(s, d)
  <2> HIDE DEF held
  <2> QED
    BY <1>1, <1>3, SameCopies, CopiesType
<1>5. CASE Last(p.errors).tell # n
  <2>1. t = forgot
    BY <1>5 DEF processBrokenRouteError, forgot
  <2> HIDE DEF t
  <2> QED
    BY <1>4, <2>1 DEF t
<1>6. CASE Last(p.errors).tell = n /\ rest = <<>>
  <2>1. t = held
    BY <1>6 DEF processBrokenRouteError, forgot, last
  <2> HIDE DEF t, held
  <2> QED
    BY <1>4, <2>1 DEF t
<1>7. CASE Last(p.errors).tell = n /\ rest # <<>>
  <2> DEFINE q == Onward(p, n, rest)
  <2>1. t = handlePktWithoutSR(held, n, q)
    BY <1>7 DEF processBrokenRouteError, forgot, last, Onward
  <2>2. Waits(q, n, D)
    BY <1>7, OnwardOK
  <2>3. q.data = None
    <3>1. p \in Header(E) /\ p.data = None
      BY DEF PacketOK, LoadOK
    <3> DEFINE u == [p EXCEPT !.errors = rest]
               v == [u EXCEPT !.src = n]
    <3>2. q = [v EXCEPT !.dst = Last(rest).tell]
      BY DEF Onward
    <3>3. u.data = None /\ DOMAIN u = DOMAIN p
      BY <3>1 DEF Header
    <3> HIDE DEF u
    <3>4. v.data = None /\ DOMAIN v = DOMAIN p
      BY <3>3
    <3> HIDE DEF v
    <3> QED
      BY <3>2, <3>4
  <2> HIDE DEF t, held, q
  <2>4. Copies(t, d) <= Copies(held, d) + Carried(q, d)
    BY <1>3, <2>1, <2>2, handlePktCopies
  <2>5. Carried(q, d) = 0
    BY <2>3, DSRAssumption DEF Carried
  <2> QED
    BY <1>4, <2>4, <2>5 DEF t
<1> QED
  BY <1>5, <1>6, <1>7

LEMMA undeliverableCopies ==
    ASSUME NEW s, NEW n \in Node, NEW D, NEW N, AgentOK(s, n, D, N), NEW p, Waits(p, n, D),
           NEW d \in Flow
    PROVE  Copies(undeliverablePkt(s, n, p), d) <= Copies(s, d) + Carried(p, d)
<1> DEFINE hop == IF p.at < Len(p.route) THEN p.route[p.at + 1] ELSE None
           reply == IF BadReply(p, n, hop) THEN <<>> ELSE p.reply
           q == Salvaged(p, reply)
           t == undeliverablePkt(s, n, p)
<1>1. Copies(s, d) \in Nat
  BY CopiesType
<1>2. CASE p.src = n
  <2>1. t = handlePktWithoutSR(s, n, p)
    BY <1>2 DEF undeliverablePkt
  <2> QED
    BY <2>1, handlePktCopies
<1>3. CASE /\ p.src # n
           /\ \/ p.salvaged >= dsr_salvage_max_attempts
              \/ RoutesTo(s, p.dst) # {} /\ BadReply(p, n, hop) /\ p.errors = <<>>
  <2>1. t = s
    BY <1>3 DEF undeliverablePkt
  <2> QED
    BY <1>1, <2>1 DEF Carried
<1>4. CASE p.src # n /\ ~ (p.salvaged >= dsr_salvage_max_attempts) /\ RoutesTo(s, p.dst) = {}
  <2>1. t = stickPacketInSendBuffer(s, p)
    BY <1>4 DEF undeliverablePkt
  <2> QED
    BY <2>1, stickCopies
<1>5. CASE /\ p.src # n /\ ~ (p.salvaged >= dsr_salvage_max_attempts)
           /\ RoutesTo(s, p.dst) # {} /\ ~ (BadReply(p, n, hop) /\ p.errors = <<>>)
  <2> DEFINE r == findRoute(s, p.dst)
  <2>1. t = SendAlong(s, n, q, r)
    BY <1>5 DEF undeliverablePkt, Salvaged
  <2>2. reply \in {<<>>, p.reply}
    OBVIOUS
  <2> HIDE DEF reply
  <2>3. Waits(q, n, D) /\ q.data = p.data
    <3>1. Waits(q, n, D)
      BY <1>5, <2>2, SalvagedOK
    <3>2. q.data = p.data
      BY DEF Salvaged, Waits, PacketOK, Header
    <3> QED
      BY <3>1, <3>2
  <2>4. Way(r, n)
    BY <1>5, findRouteOK DEF AgentOK, WaysOK, Waits
  <2> HIDE DEF q, t, r
  <2>5. PacketOK(q, D) /\ r \in Seq(Node) /\ Carried(q, d) = Carried(p, d)
    BY <2>3, <2>4 DEF Waits, Way, Carried
  <2>6. Copies(t, d) <= Copies(s, d) + Carried(q, d)
    BY <2>1, <2>5, SendAlongCopies
  <2> QED
    BY <2>5, <2>6 DEF t
<1> QED
  BY <1>2, <1>3, <1>4, <1>5

\* The first i frames that carry d.
Carriers(frames, i, d) == {j \in 1..i : frames[j].pkt.data = d}

LEMMA salvageAllCopies ==
    ASSUME NEW s, NEW n \in Node, NEW D, NEW N, AgentOK(s, n, D, N),
           NEW frames, Len(frames) \in Nat, \A i \in 1..Len(frames) : Waits(frames[i].pkt, n, D),
           NEW d \in Flow
    PROVE  Copies(salvageAll(s, n, frames), d)
             <= Copies(s, d) + Cardinality(Carriers(frames, Len(frames), d))
<1> DEFINE after == Salvage(s, n, frames)
           L == Len(frames)
           C(i) == Cardinality(Carriers(frames, i, d))
           OK(i) == AgentOK(after[i], n, D, N) /\ Copies(after[i], d) <= Copies(s, d) + C(i)
           T == {i \in 0..L : ~OK(i)}
<1>1. L \in Nat /\ Copies(s, d) \in Nat
  BY CopiesType
<1>2. salvageAll(s, n, frames) = after[L]
  BY DEF salvageAll, Salvage
<1>3. after = [i \in 0..L |-> IF i = 0 THEN s ELSE undeliverablePkt(after[i - 1], n, frames[i].pkt)]
  BY <1>1, SalvageExists
<1> HIDE DEF after
<1>4. after[0] = s
  BY <1>1, <1>3
<1>5. \A i \in 0..L : IsFiniteSet(Carriers(frames, i, d)) /\ C(i) \in Nat
  <2> SUFFICES ASSUME NEW i \in 0..L PROVE IsFiniteSet(Carriers(frames, i, d)) /\ C(i) \in Nat
    OBVIOUS
  <2>1. IsFiniteSet(1..i) /\ Carriers(frames, i, d) \subseteq 1..i
    BY <1>1, FS_Interval DEF Carriers
  <2> QED
    BY <2>1, FS_Subset, FS_CardinalityType
<1>6. OK(0)
  <2>1. C(0) \in Nat
    BY <1>1, <1>5
  <2> HIDE DEF C
  <2> QED
    BY <1>1, <1>4, <2>1
<1>7. ASSUME NEW i \in 1..L, OK(i - 1) PROVE OK(i)
  <2> DEFINE u == after[i - 1]
             t == after[i]
             p == frames[i].pkt
  <2>1. i \in 0..L /\ i - 1 \in 0..L /\ i # 0
    BY <1>1
  <2>2. t = undeliverablePkt(u, n, p) /\ Waits(p, n, D)
    BY <1>3, <2>1
  <2>3. AgentOK(u, n, D, N) /\ Copies(u, d) <= Copies(s, d) + C(i - 1)
    BY <1>7
  <2>4. C(i) = C(i - 1) + Carried(p, d)
    <3>1. CASE p.data = d
      <4>1. Carriers(frames, i, d) = Carriers(frames, i - 1, d) \cup {i}
        BY <1>1, <2>1, <3>1 DEF Carriers
      <4>2. i \notin Carriers(frames, i - 1, d)
        BY <1>1, <2>1 DEF Carriers
      <4> QED
        BY <1>5, <2>1, <3>1, <4>1, <4>2, FS_AddElement DEF Carried
    <3>2. CASE p.data # d
      <4>1. Carriers(frames, i, d) = Carriers(frames, i - 1, d)
        BY <1>1, <2>1, <3>2 DEF Carriers
      <4> QED
        BY <1>5, <2>1, <3>2, <4>1 DEF Carried
    <3> QED
      BY <3>1, <3>2
  <2> HIDE DEF u, t, p, C
  <2>5. AgentOK(t, n, D, N) /\ Copies(t, d) <= Copies(u, d) + Carried(p, d)
    BY <2>2, <2>3, undeliverablePktOK, undeliverableCopies
  <2>6. Copies(t, d) \in Nat /\ Copies(u, d) \in Nat /\ C(i) \in Nat /\ C(i - 1) \in Nat
    BY <1>5, <2>1, <2>3, <2>5, CopiesType
  <2>7. Carried(p, d) \in Nat
    BY DEF Carried
  <2> QED
    BY <1>1, <2>3, <2>4, <2>5, <2>6, <2>7 DEF t
<1> HIDE DEF L
<1> HIDE DEF OK
<1>8. T = {}
  <2> SUFFICES ASSUME T # {} PROVE FALSE
    OBVIOUS
  <2>1. T \subseteq Nat
    BY <1>1
  <2>2. PICK k \in T : \A j \in T : k <= j
    <3> HIDE DEF T
    <3> QED
      BY <2>1, LeastNat
  <2>3. k \in 1..L /\ k - 1 \in 0..L /\ ~ (k <= k - 1)
    BY <1>1, <1>6
  <2>4. k - 1 \notin T
    <3> HIDE DEF T
    <3> QED
      BY <2>2, <2>3
  <2> QED
    BY <1>7, <2>3, <2>4
<1>9. OK(L)
  BY <1>1, <1>8
<1> QED
  BY <1>2, <1>9 DEF OK, L

\* No member comes twice.
LEMMA SetToSeqOnce ==
    ASSUME NEW S, IsFiniteSet(S)
    PROVE  \A i, j \in 1..Len(SetToSeq(S)) : SetToSeq(S)[i] = SetToSeq(S)[j] => i = j
<1> DEFINE c == Cardinality(S)
           f == SetToSeq(S)
<1>1. c \in Nat /\ ExistsBijection(1..c, S)
  BY FS_CardinalityType
<1> HIDE DEF c
<1>2. \E g \in [1..c -> S] : IsInjective(g)
  BY <1>1 DEF ExistsBijection, Bijection, Injection, IsInjective
<1>3. f \in [1..c -> S] /\ IsInjective(f)
  BY <1>2 DEF SetToSeq, c
<1> HIDE DEF f
<1>4. Len(f) = c
  BY <1>1, <1>3
<1> QED
  BY <1>1, <1>3, <1>4 DEF f, IsInjective

LEMMA ReverseType ==
    ASSUME NEW r \in Seq(Node)
    PROVE  Reverse(r) \in Seq(Node)
<1> DEFINE L == Len(r)
           b == Reverse(r)
<1>1. L \in Nat
  BY LenProperties
<1>2. \A i \in 1..L : r[(L - i) + 1] \in Node
  BY <1>1, ElementOfSeq
<1>3. b \in [1..L -> Node]
  BY <1>1, <1>2 DEF Reverse
<1> HIDE DEF b, L
<1>4. b \in Seq(Node)
  BY <1>1, <1>3
<1> QED
  BY <1>4 DEF b

\* A route error has no data.
LEMMA DataCut ==
    ASSUME NEW p, NEW E, p \in Header(E), NEW n, NEW errors
    PROVE  RouteError(n, p, errors).data = None
<1> DEFINE u == [p EXCEPT !.errors = errors]
           v == [u EXCEPT !.reply = <<>>]
           w == [v EXCEPT !.src = n]
           x == [w EXCEPT !.dst = p.route[1]]
<1>1. RouteError(n, p, errors) = [x EXCEPT !.data = None]
  BY DEF RouteError
<1>2. DOMAIN u = DOMAIN p
  OBVIOUS
<1>3. DOMAIN v = DOMAIN p /\ DOMAIN w = DOMAIN p /\ DOMAIN x = DOMAIN p
  OBVIOUS
<1>4. "data" \in DOMAIN p
  BY DEF Header
<1> HIDE DEF x
<1> QED
  BY <1>1, <1>3, <1>4

LEMMA PlaceCopies ==
    ASSUME NEW p, NEW E, p \in Header(E), NEW i
    PROVE  [p EXCEPT !.at = i].data = p.data
BY DEF Header

\* The frames in B are taken out of the queue.
LEMMA FramesTaken ==
    ASSUME NEW s, NEW n, NEW D, NEW N, AgentOK(s, n, D, N), NEW B, B \subseteq s.ifq,
           NEW t, t.buf = s.buf, t.ifq = s.ifq \ B, NEW d
    PROVE  /\ IsFiniteSet({g \in B : g.pkt.data = d})
           /\ Copies(t, d) + Cardinality({g \in B : g.pkt.data = d}) = Copies(s, d)
<1> DEFINE C == {g \in B : g.pkt.data = d}
<1>1. /\ IsFiniteSet(Frames(s, d)) /\ Cardinality(Frames(s, d)) \in Nat
      /\ Cardinality(Slots(s, d)) \in Nat
  BY CopiesType
<1>2. Slots(t, d) = Slots(s, d)
  BY DEF Slots
<1>3. C \subseteq Frames(s, d) /\ Frames(t, d) = Frames(s, d) \ C /\ Frames(s, d) \cap C = C
  BY DEF Frames
<1> HIDE DEF C
<1>4. IsFiniteSet(C)
  BY <1>1, <1>3, FS_Subset
<1>5. Cardinality(C) \in Nat
  BY <1>4, FS_CardinalityType
<1>6. Cardinality(Frames(t, d)) = Cardinality(Frames(s, d)) - Cardinality(C)
  BY <1>1, <1>3, FS_Difference
<1>7. Copies(t, d) + Cardinality(C) = Copies(s, d)
  BY <1>1, <1>2, <1>5, <1>6 DEF Copies
<1> QED
  BY <1>4, <1>7 DEF C

LEMMA SetCarriers ==
    ASSUME NEW S, IsFiniteSet(S), NEW d
    PROVE  /\ Cardinality(Carriers(SetToSeq(S), Len(SetToSeq(S)), d)) \in Nat
           /\ Cardinality(Carriers(SetToSeq(S), Len(SetToSeq(S)), d))
                <= Cardinality({g \in S : g.pkt.data = d})
<1> DEFINE frames == SetToSeq(S)
           L == Len(frames)
           C == Carriers(frames, L, d)
           T == {g \in S : g.pkt.data = d}
           h == [j \in C |-> frames[j]]
<1>1. L \in Nat /\ \A j \in 1..L : frames[j] \in S
  BY SetToSeqOK
<1>2. \A i, j \in 1..L : frames[i] = frames[j] => i = j
  BY SetToSeqOnce
<1> HIDE DEF frames, L
<1>3. h \in [C -> T] /\ \A x, y \in C : h[x] = h[y] => x = y
  BY <1>1, <1>2 DEF Carriers
<1>4. IsFiniteSet(T)
  BY FS_Subset
<1> HIDE DEF h, C, T
<1>5. Cardinality(C) \in Nat /\ Cardinality(C) <= Cardinality(T)
  BY <1>3, <1>4, NotMore
<1> QED
  BY <1>5 DEF C, T, L, frames

LEMMA xmitFailedCopies ==
    ASSUME NEW s, NEW n \in Node, NEW D, NEW N, AgentOK(s, n, D, N),
           NEW f, FrameOK(f, n, D), f.to \in Node, NEW d \in Flow
    PROVE  Copies(xmitFailed(s, n, f.pkt), d) <= Copies(s, d) + Carried(f.pkt, d)
<1> DEFINE p == f.pkt
           r == p.route
           here == [p EXCEPT !.at = @ - 1]
           next == p.route[p.at]
           forgot == noticeDeadLink(s, {<<n, next>>})
           behind == {g \in s.ifq : g.to = next}
           B == {g \in behind : g.pkt.data = d}
           without == [forgot EXCEPT !.ifq = @ \ behind]
           first == undeliverablePkt(without, n, here)
           frames == SetToSeq(behind)
           C == Carriers(frames, Len(frames), d)
           salvaged == salvageAll(first, n, frames)
           q == ErrorOf(n, p, next)
           back == Reverse(SubSeq(p.route, 1, here.at))
           t == xmitFailed(s, n, p)
<1>1. /\ Travels(p, n, f.to) /\ Waits(p, n, D) /\ PacketOK(p, D) /\ Simple(r)
      /\ r \in Seq(Node) /\ Len(r) \in Nat /\ p \in Header(D)
  BY FrameWaits DEF Waits, FrameOK, PacketOK
<1>2. /\ p.at \in 2..Len(r) /\ next = f.to /\ Last(r) = p.dst /\ p.request = 0 /\ next \in Node
  BY <1>1 DEF Travels
<1>3. Waits(here, n, D) /\ Carried(here, d) = Carried(p, d) /\ here.at = p.at - 1
  <2>1. p.at - 1 \in Nat
    BY <1>1, <1>2
  <2>2. here = [p EXCEPT !.at = p.at - 1]
    OBVIOUS
  <2> HIDE DEF here, p
  <2>3. /\ PacketOK(here, D) /\ here.at = p.at - 1 /\ here.dst = p.dst
        /\ here.request = p.request
    BY <1>1, <2>1, <2>2, PlaceChanged
  <2>4. here.data = p.data
    BY <1>1, <2>2, PlaceCopies
  <2> QED
    BY <1>1, <2>3, <2>4 DEF Waits, Carried
<1>4. t = IF p.route[1] = n \/ Len(p.errors) >= MAX_ROUTE_ERRORS THEN salvaged
          ELSE SendAlong(salvaged, n, q, back)
  BY DEF xmitFailed, ErrorOf
<1> HIDE DEF here, next
<1>5. AgentOK(forgot, n, D, N) /\ forgot.ifq = s.ifq /\ forgot.buf = s.buf
  BY noticeDeadLinkOK, noticeDeadLinkSame DEF AgentOK
<1> HIDE DEF forgot
<1>6. /\ AgentOK(without, n, D, N) /\ without.ifq = s.ifq \ behind /\ without.buf = s.buf
  <2>1. AgentOK(without, n, D, N)
    BY <1>5, FramesRemoved
  <2>2. without.ifq = s.ifq \ behind /\ without.buf = s.buf
    BY <1>5 DEF AgentOK, IsAgent
  <2> QED
    BY <2>1, <2>2
<1> HIDE DEF without
<1>7. AgentOK(first, n, D, N) /\ Copies(first, d) <= Copies(without, d) + Carried(p, d)
  BY <1>3, <1>6, undeliverablePktOK, undeliverableCopies
<1> HIDE DEF first
<1>8. IsFiniteSet(behind) /\ behind \subseteq s.ifq /\ \A g \in behind : Waits(g.pkt, n, D)
  <2>1. IsFiniteSet(s.ifq) /\ behind \subseteq s.ifq
    BY DEF AgentOK, FramesOK
  <2>2. ASSUME NEW g \in behind PROVE Waits(g.pkt, n, D)
    <3>1. FrameOK(g, n, D) /\ g.to \in Node
      BY <1>2 DEF AgentOK, FramesOK
    <3> QED
      BY <3>1, FrameWaits
  <2> HIDE DEF behind
  <2> QED
    BY <2>1, <2>2, FS_Subset
<1> HIDE DEF behind
<1>9. Len(frames) \in Nat /\ \A j \in 1..Len(frames) : Waits(frames[j].pkt, n, D)
  BY <1>8, SetToSeqOK
<1>10. Cardinality(C) \in Nat /\ Cardinality(C) <= Cardinality(B)
  BY <1>8, SetCarriers
<1>11. IsFiniteSet(B) /\ Copies(without, d) + Cardinality(B) = Copies(s, d)
  BY <1>6, <1>8, FramesTaken
<1>12. Cardinality(B) \in Nat
  BY <1>11, FS_CardinalityType
<1> HIDE DEF B
<1> HIDE DEF frames
<1>13. Copies(salvaged, d) <= Copies(first, d) + Cardinality(C)
  BY <1>7, <1>9, salvageAllCopies
<1>14. AgentOK(salvaged, n, D, N)
  BY <1>7, <1>9, salvageAllOK
<1> HIDE DEF C, salvaged
<1>15. /\ Copies(s, d) \in Nat /\ Copies(without, d) \in Nat /\ Copies(first, d) \in Nat
       /\ Copies(salvaged, d) \in Nat /\ Carried(p, d) \in Nat
  BY <1>6, <1>7, <1>14, CopiesType DEF Carried
<1>16. Copies(salvaged, d) <= Copies(s, d) + Carried(p, d)
  BY <1>7, <1>10, <1>11, <1>12, <1>13, <1>15
<1>17. CASE p.route[1] = n \/ Len(p.errors) >= MAX_ROUTE_ERRORS
  <2>1. t = salvaged
    BY <1>4, <1>17
  <2> HIDE DEF t
  <2> QED
    BY <1>16, <2>1 DEF t
<1>18. CASE ~ (p.route[1] = n \/ Len(p.errors) >= MAX_ROUTE_ERRORS)
  <2>1. t = SendAlong(salvaged, n, q, back)
    BY <1>4, <1>18
  <2>2. PacketOK(q, D)
    <3>1. Len(r) >= 2
      BY <1>1, <1>2
    <3>2. Waits(q, n, D)
      <4> HIDE DEF p
      <4> QED
        BY <1>1, <1>2, <1>18, <3>1, RouteErrorOK
    <3> QED
      BY <3>2 DEF Waits
  <2>3. Carried(q, d) = 0
    <3>1. q.data = None
      BY <1>1, DataCut DEF ErrorOf
    <3> QED
      BY <3>1, DSRAssumption DEF Carried
  <2>4. back \in Seq(Node)
    <3>1. p.at - 1 \in 1..Len(r) /\ 1 \in 1..Len(r)
      BY <1>1, <1>2
    <3>2. SubSeq(r, 1, p.at - 1) \in Seq(Node) /\ Simple(SubSeq(r, 1, p.at - 1))
      BY <1>1, <3>1, PartIsSimple
    <3> DEFINE part == SubSeq(r, 1, p.at - 1)
    <3>3. back = Reverse(part)
      BY <1>3
    <3> HIDE DEF part
    <3> QED
      BY <3>2, <3>3, ReverseType DEF part
  <2> HIDE DEF t, q, back
  <2>5. Copies(t, d) <= Copies(salvaged, d) + Carried(q, d)
    BY <1>14, <2>1, <2>2, <2>4, SendAlongCopies
  <2>6. AgentOK(t, n, D, N)
    BY xmitFailedOK DEF t
  <2>7. Copies(t, d) \in Nat
    BY <2>6, CopiesType
  <2> QED
    BY <1>15, <1>16, <2>3, <2>5, <2>7 DEF t
<1> QED
  BY <1>17, <1>18

\* What only sends and records leaves the send buffer as it is.
LEMMA SendsKeepBuffer ==
    ASSUME NEW s, IsAgent(s), NEW n, NEW p
    PROVE  sendOutPacketWithRoute(s, n, p).buf = s.buf
BY DEF sendOutPacketWithRoute, IsAgent

LEMMA addRouteAgent ==
    ASSUME NEW s, IsAgent(s), NEW n, NEW r
    PROVE  IsAgent(addRoute(s, n, r))
BY DEF addRoute, IsAgent

LEMMA RequestsQuietly ==
    ASSUME NEW s, NEW n \in Node, NEW D, NEW N, AgentOK(s, n, D, N),
           NEW p, Request(p, D), p.request < Number(s, n, N, p.src)
    PROVE  /\ p.dst # n => Quiet(handleRouteRequest(s, n, p), s)
           /\ p.dst = n => Quiet(returnSrcRouteToRequestor(Recorded(s, p), n, p), s)
<1> DEFINE new == Recorded(s, p)
<1>1. IsAgent(s)
  BY DEF AgentOK
<1>2. IsAgent(new) /\ new.buf = s.buf
  BY <1>1 DEF Recorded, IsAgent
<1> HIDE DEF new
<1>3. ASSUME NEW reply PROVE Reply(new, n, p, reply).buf = s.buf
  <2> DEFINE back == Reverse(Append(p.route, n))
             u == addRoute(new, n, back)
             q == [NewPacket(n, p.src, None) EXCEPT !.reply = reply]
  <2>1. Reply(new, n, p, reply) = SendAlong(u, n, q, back)
    BY DEF Reply
  <2> HIDE DEF back, q
  <2>2. IsAgent(u) /\ u.buf = s.buf
    BY <1>2, addRouteAgent, addRouteSame
  <2> HIDE DEF u
  <2>3. SendAlong(u, n, q, back).buf = u.buf
    BY <2>2, SendsKeepBuffer DEF SendAlong
  <2> QED
    BY <2>1, <2>2, <2>3
<1>4. handleRouteRequest(s, n, p).buf = s.buf
  <2> DEFINE t == handleRouteRequest(s, n, p)
             q == [p EXCEPT !.route = Append(@, n)]
  <2>1. t \in {s, Reply(new, n, p, Suggested(new, n, p)), new, sendOutPacketWithRoute(new, n, q)}
    BY DEF handleRouteRequest, new
  <2> HIDE DEF t, q
  <2>2. sendOutPacketWithRoute(new, n, q).buf = s.buf
    BY <1>2, SendsKeepBuffer
  <2> QED
    BY <1>2, <1>3, <2>1, <2>2 DEF t
<1>5. returnSrcRouteToRequestor(new, n, p).buf = s.buf
  BY <1>2, <1>3 DEF returnSrcRouteToRequestor
<1>6. /\ p.dst # n => Mute(handleRouteRequest(s, n, p), s)
      /\ p.dst = n => Mute(returnSrcRouteToRequestor(new, n, p), s)
  BY RequestsMutely DEF new
<1> QED
  BY <1>4, <1>5, <1>6 DEF Quiet, new

LEMMA handlePacketReceiptCopies ==
    ASSUME NEW s, NEW n \in Node, NEW D, NEW N, AgentOK(s, n, D, N),
           NEW E, NEW p, Arrives(p, n, E), p.dst = n,
           p.request < Number(s, n, N, p.src), NEW d \in Flow
    PROVE  Copies(handlePacketReceipt(s, n, p), d) <= Copies(s, d)
<1> DEFINE replied == IF p.reply # <<>> THEN acceptRouteReply(s, n, p) ELSE s
           asked == IF p.request = 0 THEN replied
                    ELSE returnSrcRouteToRequestor(Recorded(replied, p), n, p)
           t == handlePacketReceipt(s, n, p)
<1>0. t = IF p.errors # <<>> THEN processBrokenRouteError(asked, n, p) ELSE asked
  BY DEF handlePacketReceipt
<1>1. /\ p \in Header(E) /\ p.reply \in Seq(Node) /\ p.src \in Node /\ p.request \in Nat
      /\ Simple(p.reply) /\ Len(p.reply) <= MAX_SR_LEN /\ PacketOK(p, E)
  BY DEF Arrives, PacketOK, Header
<1>2. s.number \in Nat /\ N \in [Node -> Nat] /\ Copies(s, d) \in Nat
  BY CopiesType DEF AgentOK, AskedOK, SeenOK
<1>3. AgentOK(replied, n, D, N) /\ replied.number >= s.number
  BY <1>1, <1>2, acceptRouteReplyOK
<1>4. Copies(replied, d) <= Copies(s, d)
  BY <1>1, <1>2, acceptRouteReplyCopies
<1> HIDE DEF replied
<1>5. AgentOK(asked, n, D, N) /\ Copies(asked, d) <= Copies(s, d)
  <2>1. CASE p.request = 0
    BY <1>3, <1>4, <2>1
  <2>2. CASE p.request # 0
    <3> DEFINE new == Recorded(replied, p)
    <3>1. p.request < Number(replied, n, N, p.src)
      <4>1. replied.number \in Nat
        BY <1>3 DEF AgentOK, AskedOK
      <4> QED
        BY <1>1, <1>2, <1>3, <4>1 DEF Number
    <3>2. AgentOK(new, n, D, N)
      BY <1>1, <1>3, <3>1, RecordedOK
    <3>3. Request(p, D)
      BY <2>2 DEF Arrives, Travels, Request, PacketOK, LoadOK, Header
    <3>4. asked = returnSrcRouteToRequestor(new, n, p)
      BY <2>2
    <3> HIDE DEF asked
    <3>5. Quiet(asked, replied)
      BY <1>3, <3>1, <3>3, <3>4, RequestsQuietly DEF new
    <3> HIDE DEF new
    <3>6. AgentOK(asked, n, D, N)
      BY <3>2, <3>3, <3>4, returnSrcRouteOK
    <3>7. Copies(asked, d) <= Copies(replied, d)
      BY <1>3, <3>5, QuietCopies
    <3>8. Copies(asked, d) \in Nat /\ Copies(replied, d) \in Nat
      BY <1>3, <3>6, CopiesType
    <3> QED
      BY <1>2, <1>4, <3>6, <3>7, <3>8
  <2> QED
    BY <2>1, <2>2
<1> HIDE DEF asked
<1>6. CASE p.errors # <<>>
  <2>1. t = processBrokenRouteError(asked, n, p)
    BY <1>0, <1>6
  <2> HIDE DEF t
  <2>2. Copies(t, d) <= Copies(asked, d)
    BY <1>1, <1>5, <1>6, <2>1, ErrorsCopies
  <2>3. AgentOK(t, n, D, N)
    BY handlePacketReceiptOK DEF t
  <2>4. Copies(t, d) \in Nat /\ Copies(asked, d) \in Nat
    BY <1>5, <2>3, CopiesType
  <2> QED
    BY <1>2, <1>5, <2>2, <2>4 DEF t
<1>7. CASE p.errors = <<>>
  <2>1. t = asked
    BY <1>0, <1>7
  <2> HIDE DEF t
  <2> QED
    BY <1>5, <2>1 DEF t
<1> QED
  BY <1>6, <1>7

LEMMA handleForwardingCopies ==
    ASSUME NEW s, NEW n \in Node, NEW D, NEW N, AgentOK(s, n, D, N),
           NEW E, NEW p, NEW m, PacketOK(p, E), Travels(p, m, n), Simple(p.route),
           Len(p.route) <= MAX_SR_LEN, p.dst # n, NEW d \in Flow
    PROVE  Copies(handleForwarding(s, n, p), d) <= Copies(s, d) + Carried(p, d)
<1> DEFINE r == p.route
           rest == SubSeq(r, p.at, Len(r))
           u == addRoute(s, n, rest)
<1>1. r \in Seq(Node) /\ Len(r) \in Nat /\ MAX_SR_LEN \in Nat
  BY LenProperties, DSRAssumption DEF PacketOK, Header
<1>2. p.at \in 2..Len(r) /\ r[p.at] = n /\ Last(r) = p.dst /\ p.request = 0
  BY DEF Travels
<1>3. p.at \in 1..Len(r) - 1 /\ p.at \in 1..Len(r) /\ Len(r) \in p.at..Len(r)
  BY <1>1, <1>2 DEF Last
<1>4. rest \in Seq(Node) /\ Simple(rest) /\ Len(rest) = Len(r) - p.at + 1
  BY <1>1, <1>3, PartIsSimple
<1>5. handleForwarding(s, n, p) = sendOutPacketWithRoute(u, n, p)
  BY DEF handleForwarding
<1> HIDE DEF rest
<1>6. Len(rest) <= MAX_SR_LEN
  BY <1>1, <1>3, <1>4
<1>7. AgentOK(u, n, D, N) /\ u.ifq = s.ifq /\ u.buf = s.buf
  BY <1>4, <1>6, addRouteOK, addRouteSame DEF AgentOK
<1> HIDE DEF u
<1>8. Copies(sendOutPacketWithRoute(u, n, p), d) <= Copies(u, d) + Carried(p, d)
  BY <1>7, sendOutCopies
<1>9. Copies(u, d) = Copies(s, d)
  BY <1>7, SameCopies
<1> QED
  BY <1>5, <1>8, <1>9

\* A packet that is received adds at most itself, unless its journey ends.
Added(n, p, d) == IF Ends(n, p) THEN 0 ELSE Carried(p, d)

LEMMA recvCopies ==
    ASSUME NEW s, NEW n \in Node, NEW D, NEW N, AgentOK(s, n, D, N),
           NEW E, NEW p, Arrives(p, n, E), p.request < Number(s, n, N, p.src),
           Ends(n, p) \/ p.data \in D \cup {None}, NEW d \in Flow
    PROVE  Copies(recv(s, n, p), d) <= Copies(s, d) + Added(n, p, d)
<1> DEFINE snooped == IF p.errors # <<>> THEN processBrokenRouteError(s, n, p) ELSE s
           t == recv(s, n, p)
<1>0. t = IF p.dst = n THEN handlePacketReceipt(s, n, p)
          ELSE IF p.request > 0 THEN handleRouteRequest(snooped, n, p)
          ELSE IF p.src # n /\ n \in selfish /\ p.data # None THEN snooped
          ELSE handleForwarding(snooped, n, p)
  BY DEF recv
<1>1. PacketOK(p, E) /\ p \in Header(E) /\ p.src \in Node /\ p.request \in Nat
  BY DEF Arrives, PacketOK, Header
<1>2. s.number \in Nat /\ N \in [Node -> Nat]
  BY DEF AgentOK, AskedOK, SeenOK
<1>3. AgentOK(snooped, n, D, N) /\ snooped.number >= s.number
  BY <1>1, <1>2, processBrokenRouteErrorOK
<1>4. Copies(s, d) \in Nat
  BY CopiesType
<1>5. Copies(snooped, d) <= Copies(s, d)
  BY <1>1, <1>4, ErrorsCopies
<1> HIDE DEF snooped
<1>6. snooped.number \in Nat /\ Copies(snooped, d) \in Nat
  BY <1>3, CopiesType DEF AgentOK, AskedOK
<1>7. AgentOK(t, n, D, N)
  BY recvOK
<1>8. Copies(t, d) \in Nat /\ Added(n, p, d) \in {0, 1}
  <2> HIDE DEF t
  <2> QED
    BY <1>7, CopiesType DEF Added, Carried
<1>9. CASE p.dst = n
  <2>1. t = handlePacketReceipt(s, n, p)
    BY <1>0, <1>9
  <2> HIDE DEF t
  <2>2. Copies(t, d) <= Copies(s, d)
    BY <1>9, <2>1, handlePacketReceiptCopies
  <2> QED
    BY <1>4, <1>8, <2>2 DEF t
<1>10. CASE p.dst # n /\ p.request > 0
  <2>1. t = handleRouteRequest(snooped, n, p)
    BY <1>0, <1>10
  <2>2. Request(p, D)
    BY <1>10 DEF Arrives, Travels, Request, PacketOK, LoadOK, Header
  <2>3. p.request < Number(snooped, n, N, p.src)
    BY <1>1, <1>2, <1>3, <1>6 DEF Number
  <2> HIDE DEF t
  <2>4. Quiet(t, snooped)
    BY <1>3, <1>10, <2>1, <2>2, <2>3, RequestsQuietly
  <2>5. Copies(t, d) <= Copies(snooped, d)
    BY <1>3, <2>4, QuietCopies
  <2> QED
    BY <1>4, <1>5, <1>6, <1>8, <2>5 DEF t
<1>11. CASE p.dst # n /\ ~ (p.request > 0) /\ p.src # n /\ n \in selfish /\ p.data # None
  <2>1. t = snooped
    BY <1>0, <1>11
  <2> HIDE DEF t
  <2> QED
    BY <1>4, <1>5, <1>6, <1>8, <2>1 DEF t
<1>12. CASE p.dst # n /\ ~ (p.request > 0) /\ ~ (p.src # n /\ n \in selfish /\ p.data # None)
  <2>1. t = handleForwarding(snooped, n, p)
    BY <1>0, <1>12
  <2>2. PICK m \in Node : Travels(p, m, n)
    BY <1>12 DEF Arrives, Request
  <2>3. Simple(p.route) /\ Len(p.route) <= MAX_SR_LEN
    BY DEF Arrives
  <2>4. Added(n, p, d) = Carried(p, d)
    BY <1>12 DEF Added, Ends
  <2> HIDE DEF t
  <2>5. Copies(t, d) <= Copies(snooped, d) + Carried(p, d)
    BY <1>1, <1>3, <1>12, <2>1, <2>2, <2>3, handleForwardingCopies
  <2> QED
    BY <1>4, <1>5, <1>6, <1>8, <2>4, <2>5 DEF t
<1> QED
  BY <1>9, <1>10, <1>11, <1>12

-----------------------------------------------------------------------------
(* Copies of a data packet in the network *)

\* The members of all G[n], told apart by n.
Spread(G, S) == UNION {{<<n, x>> : x \in G[n]} : n \in S}

\* The copies of d that the agents A of the nodes in S have.
FramesOf(A, d) == [n \in Node |-> Frames(A[n], d)]
SlotsOf(A, d) == [n \in Node |-> Slots(A[n], d)]
Total(A, d, S) == Cardinality(Spread(FramesOf(A, d), S)) + Cardinality(Spread(SlotsOf(A, d), S))

Counted(A, d) == \A n \in Node : IsFiniteSet(Frames(A[n], d)) /\ IsFiniteSet(Slots(A[n], d))

LEMMA SpreadPart ==
    ASSUME NEW G, NEW S, NEW n \in S, IsFiniteSet(G[n]), IsFiniteSet(Spread(G, S \ {n}))
    PROVE  /\ IsFiniteSet(Spread(G, S))
           /\ Cardinality(Spread(G, S)) = Cardinality(Spread(G, S \ {n})) + Cardinality(G[n])
<1> DEFINE T == {<<n, x>> : x \in G[n]}
           R == Spread(G, S \ {n})
           f == [x \in G[n] |-> <<n, x>>]
<1>1. f \in Injection(G[n], T) /\ f \in Surjection(G[n], T)
  BY DEF Injection, IsInjective, Surjection
<1> HIDE DEF f
<1>2. IsFiniteSet(T) /\ Cardinality(T) = Cardinality(G[n])
  <2> DEFINE H == G[n]
  <2>1. f \in Injection(H, T) /\ f \in Surjection(H, T) /\ IsFiniteSet(H)
    BY <1>1
  <2> HIDE DEF H, T
  <2>2. IsFiniteSet(T) /\ Cardinality(T) = Cardinality(H)
    BY <2>1, FS_Surjection
  <2> QED
    BY <2>2 DEF H
<1>3. Spread(G, S) = R \cup T
  BY DEF Spread
<1>4. R \cap T = {}
  BY DEF Spread
<1>5. Cardinality({}) = 0 /\ IsFiniteSet(R)
  BY FS_EmptySet
<1> HIDE DEF R, T
<1>6. /\ IsFiniteSet(R \cup T)
      /\ Cardinality(R \cup T) = Cardinality(R) + Cardinality(T) - Cardinality(R \cap T)
  BY <1>2, <1>5, FS_Union
<1>7. Cardinality(R) \in Nat /\ Cardinality(T) \in Nat
  BY <1>2, <1>5, FS_CardinalityType
<1>8. Cardinality(R \cup T) = Cardinality(R) + Cardinality(G[n])
  <2>1. Cardinality(R \cap T) = 0
    BY <1>4, <1>5, Zenon
  <2> QED
    BY <1>2, <1>6, <1>7, <2>1
<1> QED
  BY <1>3, <1>6, <1>8 DEF R

LEMMA NothingSpread ==
    ASSUME NEW G, NEW S, \A n \in S : G[n] = {}
    PROVE  Cardinality(Spread(G, S)) = 0
<1>1. Spread(G, S) = {}
  BY DEF Spread
<1> QED
  BY <1>1, FS_EmptySet

\* Induction over the subsets of Node.
LEMMA SmallestSet ==
    ASSUME NEW B, B \subseteq SUBSET Node, B # {}
    PROVE  \E S \in B : \A n \in S : S \ {n} \notin B
<1> DEFINE K == {Cardinality(S) : S \in B}
<1>1. \A S \in B : IsFiniteSet(S) /\ Cardinality(S) \in Nat
  BY DSRAssumption, FS_Subset, FS_CardinalityType
<1>2. K \subseteq Nat /\ K # {}
  BY <1>1
<1>3. PICK k \in K : \A j \in K : k <= j
  <2> HIDE DEF K
  <2> QED
    BY <1>2, LeastNat
<1>4. PICK S \in B : Cardinality(S) = k
  BY <1>3
<1>5. ASSUME NEW n \in S, S \ {n} \in B PROVE FALSE
  <2>1. Cardinality(S \ {n}) = Cardinality(S) - 1
    BY <1>1, FS_RemoveElement
  <2>2. k <= Cardinality(S \ {n})
    BY <1>3, <1>5
  <2> QED
    BY <1>1, <1>4, <2>1, <2>2
<1> QED
  BY <1>5

LEMMA SpreadFinite ==
    ASSUME NEW G, \A n \in Node : IsFiniteSet(G[n])
    PROVE  \A S \in SUBSET Node : IsFiniteSet(Spread(G, S))
<1> DEFINE B == {S \in SUBSET Node : ~IsFiniteSet(Spread(G, S))}
<1> SUFFICES ASSUME B # {} PROVE FALSE
  OBVIOUS
<1>1. PICK S \in B : \A n \in S : S \ {n} \notin B
  <2>1. B \subseteq SUBSET Node
    OBVIOUS
  <2> HIDE DEF B
  <2> QED
    BY <2>1, SmallestSet
<1>2. S \in SUBSET Node /\ ~IsFiniteSet(Spread(G, S))
  BY <1>1
<1>3. S # {}
  <2>1. Spread(G, {}) = {}
    BY DEF Spread
  <2> QED
    BY <1>2, <2>1, FS_EmptySet
<1>4. PICK n \in S : TRUE
  BY <1>3
<1>5. IsFiniteSet(Spread(G, S \ {n})) /\ IsFiniteSet(G[n])
  BY <1>1, <1>2, <1>4
<1> QED
  BY <1>2, <1>5, SpreadPart

LEMMA TotalSplit ==
    ASSUME NEW A, NEW d, Counted(A, d), NEW S, S \subseteq Node
    PROVE  /\ Total(A, d, S) \in Nat
           /\ \A n \in S : /\ Total(A, d, S) = Total(A, d, S \ {n}) + Copies(A[n], d)
                           /\ Copies(A[n], d) \in Nat /\ Total(A, d, S \ {n}) \in Nat
<1> DEFINE F == FramesOf(A, d)
           W == SlotsOf(A, d)
<1>1. \A n \in Node : F[n] = Frames(A[n], d) /\ W[n] = Slots(A[n], d)
  BY DEF FramesOf, SlotsOf
<1> HIDE DEF F, W
<1>2. \A n \in Node : IsFiniteSet(F[n]) /\ IsFiniteSet(W[n])
  BY <1>1 DEF Counted
<1>3. \A R \in SUBSET Node : IsFiniteSet(Spread(F, R)) /\ IsFiniteSet(Spread(W, R))
  BY <1>2, SpreadFinite
<1>4. \A R \in SUBSET Node :
          Cardinality(Spread(F, R)) \in Nat /\ Cardinality(Spread(W, R)) \in Nat
  BY <1>3, FS_CardinalityType
<1>5. \A R : Total(A, d, R) = Cardinality(Spread(F, R)) + Cardinality(Spread(W, R))
  BY DEF Total, F, W
<1>6. ASSUME NEW n \in S
      PROVE  /\ Total(A, d, S) = Total(A, d, S \ {n}) + Copies(A[n], d)
             /\ Copies(A[n], d) \in Nat /\ Total(A, d, S \ {n}) \in Nat
  <2>1. S \ {n} \in SUBSET Node /\ n \in Node
    OBVIOUS
  <2>2. Cardinality(Spread(F, S)) = Cardinality(Spread(F, S \ {n})) + Cardinality(F[n])
    BY <1>2, <1>3, <2>1, SpreadPart
  <2>3. Cardinality(Spread(W, S)) = Cardinality(Spread(W, S \ {n})) + Cardinality(W[n])
    BY <1>2, <1>3, <2>1, SpreadPart
  <2>4. Cardinality(F[n]) \in Nat /\ Cardinality(W[n]) \in Nat
    BY <1>2, <2>1, FS_CardinalityType
  <2>5. Copies(A[n], d) = Cardinality(F[n]) + Cardinality(W[n])
    BY <1>1, <2>1 DEF Copies
  <2> QED
    BY <1>4, <1>5, <2>1, <2>2, <2>3, <2>4, <2>5
<1>7. Total(A, d, S) \in Nat
  BY <1>4, <1>5
<1> QED
  BY <1>6, <1>7

\* Copies can be compared node by node.
LEMMA TotalLess ==
    ASSUME NEW A, NEW A2, NEW d, Counted(A, d), Counted(A2, d), NEW R, R \subseteq Node,
           \A n \in R : Copies(A2[n], d) <= Copies(A[n], d)
    PROVE  Total(A2, d, R) <= Total(A, d, R)
<1> DEFINE B == {S \in SUBSET R : ~ (Total(A2, d, S) <= Total(A, d, S))}
<1>1. B = {}
  <2> SUFFICES ASSUME B # {} PROVE FALSE
    OBVIOUS
  <2>1. PICK S \in B : \A n \in S : S \ {n} \notin B
    <3>1. B \subseteq SUBSET Node
      OBVIOUS
    <3> HIDE DEF B
    <3> QED
      BY <3>1, SmallestSet
  <2>2. S \subseteq R /\ S \subseteq Node /\ ~ (Total(A2, d, S) <= Total(A, d, S))
    BY <2>1
  <2>3. S # {}
    <3>1. Total(A2, d, {}) = 0 /\ Total(A, d, {}) = 0
      BY NothingSpread DEF Total
    <3> QED
      BY <2>2, <3>1
  <2>4. PICK n \in S : TRUE
    BY <2>3
  <2>5. Total(A2, d, S \ {n}) <= Total(A, d, S \ {n}) /\ Copies(A2[n], d) <= Copies(A[n], d)
    BY <2>1, <2>2
  <2>6. /\ Total(A2, d, S) = Total(A2, d, S \ {n}) + Copies(A2[n], d)
        /\ Copies(A2[n], d) \in Nat /\ Total(A2, d, S \ {n}) \in Nat
    BY <2>2, TotalSplit
  <2>7. /\ Total(A, d, S) = Total(A, d, S \ {n}) + Copies(A[n], d)
        /\ Copies(A[n], d) \in Nat /\ Total(A, d, S \ {n}) \in Nat
    BY <2>2, TotalSplit
  <2> QED
    BY <2>2, <2>5, <2>6, <2>7
<1> QED
  BY <1>1

\* One node changes.
LEMMA TotalOne ==
    ASSUME NEW A, NEW A2, NEW d, Counted(A, d), Counted(A2, d), NEW n \in Node, NEW R, R \subseteq Node,
           \A m \in R \ {n} : Copies(A2[m], d) <= Copies(A[m], d),
           NEW a \in Nat, Copies(A2[n], d) <= Copies(A[n], d) + a
    PROVE  Total(A2, d, R) <= Total(A, d, R) + a
<1>1. Total(A2, d, R) \in Nat /\ Total(A, d, R) \in Nat
  BY TotalSplit
<1>2. CASE n \in R
  <2>1. Total(A2, d, R \ {n}) <= Total(A, d, R \ {n})
    BY TotalLess
  <2>2. /\ Total(A2, d, R) = Total(A2, d, R \ {n}) + Copies(A2[n], d)
        /\ Copies(A2[n], d) \in Nat /\ Total(A2, d, R \ {n}) \in Nat
    BY <1>2, TotalSplit
  <2>3. /\ Total(A, d, R) = Total(A, d, R \ {n}) + Copies(A[n], d)
        /\ Copies(A[n], d) \in Nat /\ Total(A, d, R \ {n}) \in Nat
    BY <1>2, TotalSplit
  <2> QED
    BY <2>1, <2>2, <2>3
<1>3. CASE n \notin R
  <2>1. Total(A2, d, R) <= Total(A, d, R)
    BY <1>3, TotalLess
  <2> QED
    BY <1>1, <2>1
<1> QED
  BY <1>2, <1>3

\* The places of d: its copies and the nodes that have taken it.
TakenOf(K, d) == {x \in K : x[1] = d}
Places(A, K, d) == Total(A, d, Node) + Cardinality(TakenOf(K, d))

LEMMA AllCounted ==
    ASSUME NEW A, NEW D, NEW N, \A n \in Node : AgentOK(A[n], n, D, N)
    PROVE  \A d : Counted(A, d)
BY CopiesType DEF Counted

LEMMA InPlaces ==
    ASSUME NEW A, NEW d
    PROVE  /\ Sending(A, d) = Spread(FramesOf(A, d), Node)
           /\ Holding(A, d) = Spread(SlotsOf(A, d), Node)
<1> DEFINE F == FramesOf(A, d)
           W == SlotsOf(A, d)
<1>1. \A n \in Node : F[n] = Frames(A[n], d) /\ W[n] = Slots(A[n], d)
  BY DEF FramesOf, SlotsOf
<1> HIDE DEF F, W
<1>2. ASSUME NEW n \in Node
      PROVE  /\ {<<n, x>> : x \in F[n]} = {<<n, f>> : f \in {f \in A[n].ifq : f.pkt.data = d}}
             /\ {<<n, x>> : x \in W[n]}
                  = {<<n, i>> : i \in {i \in DOMAIN A[n].buf : A[n].buf[i].data = d}}
  BY <1>1 DEF Frames, Slots
<1>3. Sending(A, d) = Spread(F, Node)
  BY <1>2 DEF Sending, Spread
<1>4. Holding(A, d) = Spread(W, Node)
  BY <1>2 DEF Holding, Spread
<1> QED
  BY <1>3, <1>4 DEF F, W

LEMMA OneCopyPlaces ==
    /\ OneCopy <=> \A d \in begun : Places(agent, taken, d) <= 1 + deaf
    /\ OneCopy' <=> \A d \in begun' : Places(agent', taken', d) <= 1 + deaf'
<1>1. \A d : InFlight(d) = Sending(agent, d) /\ Waiting(d) = Holding(agent, d)
  BY DEF InFlight, Waiting, Sending, Holding
<1>2. \A d : InFlight(d)' = Sending(agent', d) /\ Waiting(d)' = Holding(agent', d)
  BY DEF InFlight, Waiting, Sending, Holding
<1>3. \A d : Places(agent, taken, d) = Cardinality(InFlight(d)) + Cardinality(Waiting(d))
                                         + Cardinality({x \in taken : x[1] = d})
  BY <1>1, InPlaces DEF Places, Total, TakenOf
<1>4. \A d : Places(agent', taken', d) = Cardinality(InFlight(d)') + Cardinality(Waiting(d)')
                                           + Cardinality({x \in taken' : x[1] = d})
  BY <1>2, InPlaces DEF Places, Total, TakenOf
<1> QED
  BY <1>3, <1>4 DEF OneCopy

LEMMA TakenFinite ==
    ASSUME NEW K, NEW B, K \subseteq B \X Node, NEW d
    PROVE  IsFiniteSet(TakenOf(K, d)) /\ Cardinality(TakenOf(K, d)) \in Nat
<1>1. IsFiniteSet({d} \X Node)
  BY FS_Singleton, FS_Product, DSRAssumption
<1>2. TakenOf(K, d) \subseteq {d} \X Node
  BY DEF TakenOf
<1> QED
  BY <1>1, <1>2, FS_Subset, FS_CardinalityType

LEMMA PlacesType ==
    ASSUME IInv, NEW d
    PROVE  /\ Counted(agent, d) /\ Total(agent, d, Node) \in Nat
           /\ Cardinality(TakenOf(taken, d)) \in Nat /\ Places(agent, taken, d) \in Nat
<1>1. Counted(agent, d)
  BY AllCounted DEF IInv
<1>2. Total(agent, d, Node) \in Nat
  BY <1>1, TotalSplit
<1>3. Cardinality(TakenOf(taken, d)) \in Nat
  BY TakenFinite DEF IInv
<1> QED
  BY <1>1, <1>2, <1>3 DEF Places

LEMMA PlacesTypeNext ==
    ASSUME IInv', NEW d
    PROVE  /\ Counted(agent', d) /\ Total(agent', d, Node) \in Nat
           /\ Cardinality(TakenOf(taken', d)) \in Nat /\ Places(agent', taken', d) \in Nat
<1>1. Counted(agent', d)
  BY AllCounted DEF IInv
<1>2. Total(agent', d, Node) \in Nat
  BY <1>1, TotalSplit
<1>3. Cardinality(TakenOf(taken', d)) \in Nat
  BY TakenFinite DEF IInv
<1> QED
  BY <1>1, <1>2, <1>3 DEF Places

\* d is in no more places than before, but for what faults add.
NoNewPlaces(d) == Places(agent', taken', d) + deaf <= Places(agent, taken, d) + deaf'

LEMMA TakenCopies ==
    ASSUME IInv, NEW f, NEW d \in Flow
    PROVE  /\ Cardinality(TakenOf(Taken(f), d)) \in Nat
           /\ Cardinality(TakenOf(Taken(f), d))
                <= Cardinality(TakenOf(taken, d)) + IF f.pkt.dst = f.to THEN Carried(f.pkt, d) ELSE 0
<1> DEFINE x == <<f.pkt.data, f.to>>
           T == TakenOf(taken, d)
           U == TakenOf(Taken(f), d)
<1>1. IsFiniteSet(T) /\ Cardinality(T) \in Nat
  BY TakenFinite DEF IInv
<1>2. CASE f.pkt.dst = f.to /\ f.pkt.data = d
  <2>1. U = T \cup {x}
    BY <1>2, DSRAssumption DEF Taken, TakenOf
  <2> HIDE DEF T, U, x
  <2>2. Cardinality(U) \in {Cardinality(T), Cardinality(T) + 1}
    BY <1>1, <2>1, FS_AddElement
  <2> QED
    BY <1>1, <1>2, <2>2 DEF Carried, T, U
<1>3. CASE ~ (f.pkt.dst = f.to /\ f.pkt.data = d)
  <2>1. U = T
    BY <1>3 DEF Taken, TakenOf
  <2> HIDE DEF T, U
  <2> QED
    BY <1>1, <2>1 DEF Carried, T, U
<1> QED
  BY <1>2, <1>3

LEMMA SentCopies ==
    ASSUME NEW s, NEW n, NEW D, NEW N, AgentOK(s, n, D, N), NEW f \in s.ifq, NEW d
    PROVE  /\ AgentOK(Sent(s, f), n, D, N)
           /\ Copies(Sent(s, f), d) + Carried(f.pkt, d) = Copies(s, d)
           /\ Copies(Queued(Sent(s, f), Heard(f)), d) <= Copies(s, d)
<1> DEFINE t == Sent(s, f)
           h == Heard(f)
           u == Queued(t, h)
           B == {f}
<1>1. AgentOK(t, n, D, N)
  BY FramesRemoved DEF Sent
<1>2. t.ifq = s.ifq \ B /\ t.buf = s.buf /\ B \subseteq s.ifq
  BY DEF Sent, AgentOK, IsAgent
<1> HIDE DEF t
<1>3. Copies(t, d) + Cardinality({g \in B : g.pkt.data = d}) = Copies(s, d)
  <2> HIDE DEF B
  <2> QED
    BY <1>2, FramesTaken
<1>4. Cardinality({g \in B : g.pkt.data = d}) = Carried(f.pkt, d)
  <2>1. CASE f.pkt.data = d
    <3>1. {g \in B : g.pkt.data = d} = {f}
      BY <2>1
    <3> QED
      BY <2>1, <3>1, FS_Singleton DEF Carried
  <2>2. CASE f.pkt.data # d
    <3>1. {g \in B : g.pkt.data = d} = {}
      BY <2>2
    <3> QED
      BY <2>2, <3>1, FS_EmptySet DEF Carried
  <2> QED
    BY <2>1, <2>2
<1>5. h.pkt = f.pkt
  BY DEF Heard
<1> HIDE DEF h
<1>6. u.ifq = t.ifq \cup {h} /\ u.buf = t.buf
  BY <1>1 DEF Queued, AgentOK, IsAgent
<1> HIDE DEF u, B
<1>7. Copies(u, d) <= Copies(t, d) + Carried(f.pkt, d)
  BY <1>1, <1>5, <1>6, FrameCopies DEF Carried
<1> QED
  BY <1>1, <1>3, <1>4, <1>7 DEF t, u, h

LEMMA DeliverCopies ==
    ASSUME IInv, IInv', NEW n \in Node, NEW f \in agent[n].ifq, f.to \in Node,
           Deliver(n, f) \/ DeliverInVain(n, f), NEW d \in Flow
    PROVE  NoNewPlaces(d)
<1> DEFINE m == f.to
           p == f.pkt
           c == Carried(p, d)
           a == Added(m, p, d)
           k == IF p.dst = m THEN c ELSE 0
           s == agent[n]
           R == Node \ {n}
           T == Total(agent, d, R)
           T2 == Total(agent', d, R)
           C == Copies(s, d)
           C2 == Copies(agent'[n], d)
           K == Cardinality(TakenOf(taken, d))
           K2 == Cardinality(TakenOf(taken', d))
<1>1. FrameOK(f, n, begun) /\ p.request < Number(agent[m], m, Numbers, p.src) /\ m # n
  BY FramesKnown, FrameWaits
<1>2. AgentOK(s, n, begun, Numbers) /\ AgentOK(agent[m], m, begun, Numbers) /\ deaf \in Nat
  BY DEF IInv
<1>3. Arrives(p, m, begun) /\ p.data \in begun \cup {None}
  BY <1>1, PacketArrives DEF FrameOK, PacketOK, Header
<1>4. Copies(recv(agent[m], m, p), d) <= Copies(agent[m], d) + a
  BY <1>1, <1>2, <1>3, recvCopies
<1>5. c \in {0, 1} /\ a \in Nat /\ k \in Nat /\ a + k <= c
  BY DEF Carried, Added, Ends
<1>6. /\ agent'[m] = recv(agent[m], m, p)
      /\ \A x \in Node \ {n, m} : agent'[x] = agent[x]
      /\ DOMAIN agent' = Node
      /\ agent'[n] = Sent(s, f) \/ agent'[n] = Queued(Sent(s, f), Heard(f))
  BY <1>1, DeliverChanges
<1>7. K \in Nat /\ K2 \in Nat /\ K2 <= K + k
  <2>1. taken' = Taken(f)
    BY DEF Deliver, DeliverInVain
  <2> QED
    BY <2>1, PlacesType, TakenCopies
<1>8. Counted(agent, d) /\ Counted(agent', d)
  BY PlacesType, PlacesTypeNext
<1>9. /\ Total(agent, d, Node) = T + C
      /\ C \in Nat /\ T \in Nat
  BY <1>8, TotalSplit
<1>10. /\ Total(agent', d, Node) = T2 + C2
       /\ C2 \in Nat /\ T2 \in Nat
  BY <1>8, TotalSplit
<1>11. T2 <= T + a
  <2>1. \A x \in Node \ {n, m} : Copies(agent'[x], d) <= Copies(agent[x], d)
    <3> SUFFICES ASSUME NEW x \in Node \ {n, m} PROVE Copies(agent'[x], d) <= Copies(agent[x], d)
      OBVIOUS
    <3>1. Copies(agent[x], d) \in Nat /\ agent'[x] = agent[x]
      BY <1>6, <1>8, TotalSplit
    <3> QED
      BY <3>1
  <2>2. R \subseteq Node /\ R \ {m} = Node \ {n, m}
    OBVIOUS
  <2>3. Copies(agent'[m], d) <= Copies(agent[m], d) + a
    BY <1>4, <1>6
  <2> HIDE DEF a, R, m
  <2> QED
    BY <1>5, <1>8, <2>1, <2>2, <2>3, TotalOne DEF m
<1>12. CASE Deliver(n, f)
  <2>1. agent'[n] = Sent(s, f) /\ deaf' = deaf
    <3>1. DOMAIN agent = Node
      BY DEF IInv
    <3> QED
      BY <1>1, <1>12, <3>1 DEF Deliver
  <2>2. C2 + c = C
    BY <1>2, <2>1, SentCopies
  <2> HIDE DEF c, a, k, T, T2, C, C2, K, K2
  <2>3. T2 + C2 + K2 <= T + C + K
    BY <1>5, <1>7, <1>9, <1>10, <1>11, <2>2
  <2> QED
    BY <1>2, <1>7, <1>9, <1>10, <2>1, <2>3 DEF NoNewPlaces, Places, K, K2
<1>13. CASE DeliverInVain(n, f)
  <2>1. deaf' = deaf + 1
    BY <1>13 DEF DeliverInVain
  <2>2. C2 <= C
    <3>1. /\ Copies(Sent(s, f), d) + c = Copies(s, d)
          /\ Copies(Queued(Sent(s, f), Heard(f)), d) <= Copies(s, d)
          /\ AgentOK(Sent(s, f), n, begun, Numbers)
      BY <1>2, SentCopies
    <3>2. Copies(Sent(s, f), d) \in Nat
      BY <3>1, CopiesType
    <3> HIDE DEF c, s
    <3>3. Copies(Sent(s, f), d) <= Copies(s, d)
      BY <1>5, <1>9, <3>1, <3>2
    <3> QED
      BY <1>6, <3>1, <3>3
  <2> HIDE DEF c, a, k, T, T2, C, C2, K, K2
  <2>3. T2 + C2 + K2 <= T + C + K + 1
    BY <1>5, <1>7, <1>9, <1>10, <1>11, <2>2
  <2> QED
    BY <1>2, <1>7, <1>9, <1>10, <2>1, <2>3 DEF NoNewPlaces, Places, K, K2
<1> QED
  BY <1>12, <1>13

\* Steps in which the agent of n may change and no other.
LEMMA AloneCopies ==
    ASSUME IInv, IInv', NEW n \in Node, \A m \in Node \ {n} : agent'[m] = agent[m],
           UNCHANGED taken, NEW d, NEW a \in Nat, Copies(agent'[n], d) <= Copies(agent[n], d) + a
    PROVE  Places(agent', taken', d) <= Places(agent, taken, d) + a
<1>1. \A m \in Node \ {n} : Copies(agent'[m], d) <= Copies(agent[m], d)
  <2> SUFFICES ASSUME NEW m \in Node \ {n} PROVE Copies(agent'[m], d) <= Copies(agent[m], d)
    OBVIOUS
  <2>1. Copies(agent[m], d) \in Nat /\ agent'[m] = agent[m]
    BY PlacesType, TotalSplit
  <2> QED
    BY <2>1
<1>2. /\ Counted(agent, d) /\ Total(agent, d, Node) \in Nat
      /\ Cardinality(TakenOf(taken, d)) \in Nat
  BY PlacesType
<1>3. Counted(agent', d) /\ Total(agent', d, Node) \in Nat
  BY PlacesTypeNext
<1>4. Total(agent', d, Node) <= Total(agent, d, Node) + a
  BY <1>1, <1>2, <1>3, TotalOne
<1> QED
  BY <1>2, <1>3, <1>4 DEF Places

LEMMA FailCopies ==
    ASSUME IInv, IInv', NEW n \in Node, NEW f \in agent[n].ifq, f.to \in Node, Fail(n, f),
           NEW d \in Flow
    PROVE  NoNewPlaces(d)
<1> DEFINE u == Sent(agent[n], f)
           t == xmitFailed(u, n, f.pkt)
<1>1. AgentOK(agent[n], n, begun, Numbers) /\ DOMAIN agent = Node /\ FrameOK(f, n, begun)
  BY FramesKnown DEF IInv
<1>2. AgentOK(u, n, begun, Numbers) /\ Copies(u, d) + Carried(f.pkt, d) = Copies(agent[n], d)
  BY <1>1, SentCopies
<1>3. agent' = [agent EXCEPT ![n] = t] /\ UNCHANGED taken /\ deaf' \in {deaf, deaf + 1}
  BY DEF Fail
<1> HIDE DEF u
<1>4. Copies(t, d) <= Copies(u, d) + Carried(f.pkt, d)
  BY <1>1, <1>2, xmitFailedCopies
<1> HIDE DEF t
<1>5. agent'[n] = t /\ \A m \in Node \ {n} : agent'[m] = agent[m]
  BY <1>1, <1>3
<1>6. Copies(agent[n], d) \in Nat /\ deaf \in Nat
  BY <1>1, CopiesType DEF IInv
<1>7. Copies(agent'[n], d) <= Copies(agent[n], d) + 0
  BY <1>2, <1>4, <1>5, <1>6
<1>8. Places(agent', taken', d) <= Places(agent, taken, d) + 0
  BY <1>3, <1>5, <1>6, <1>7, AloneCopies
<1>9. Places(agent', taken', d) \in Nat /\ Places(agent, taken, d) \in Nat
  BY PlacesType, PlacesTypeNext
<1> QED
  BY <1>3, <1>6, <1>8, <1>9 DEF NoNewPlaces

LEMMA BroadcastCopies ==
    ASSUME IInv, IInv', NEW n \in Node, NEW f \in agent[n].ifq, f.to = MAC_BROADCAST,
           Broadcast(n, f), NEW d \in Flow
    PROVE  NoNewPlaces(d)
<1> DEFINE p == f.pkt
<1>1. PICK heard \in SUBSET {m \in Node : {n, m} \in link} :
        /\ deaf' = deaf + Cardinality({m \in Node \ heard : {n, m} \in link})
        /\ agent' = [m \in Node |-> IF m = n THEN Sent(agent[n], f)
                                    ELSE IF m \in heard THEN recv(agent[m], m, p)
                                    ELSE agent[m]]
        /\ UNCHANGED taken
  BY DEF Broadcast
<1>2. ASSUME NEW m \in Node PROVE Copies(agent'[m], d) <= Copies(agent[m], d)
  <2>1. AgentOK(agent[m], m, begun, Numbers) /\ Copies(agent[m], d) \in Nat
    BY CopiesType DEF IInv
  <2>2. CASE m = n
    <3> DEFINE t == Sent(agent[n], f)
    <3>1. AgentOK(t, n, begun, Numbers) /\ Copies(t, d) + Carried(p, d) = Copies(agent[n], d)
      BY <2>1, <2>2, SentCopies
    <3>2. agent'[n] = t
      BY <1>1
    <3> HIDE DEF t
    <3>3. Copies(t, d) \in Nat /\ Carried(p, d) \in Nat
      BY <3>1, CopiesType DEF Carried
    <3> QED
      BY <2>1, <2>2, <3>1, <3>2, <3>3
  <2>3. CASE m # n /\ m \in heard
    <3>1. agent'[m] = recv(agent[m], m, p)
      BY <1>1, <2>3
    <3>2. FrameOK(f, n, begun) /\ p.request < Number(agent[m], m, Numbers, p.src)
      BY FramesKnown
    <3>3. Arrives(p, m, begun)
      BY <3>2, PacketArrives
    <3>4. p.data = None
      BY <3>2, DSRAssumption DEF FrameOK, Asks, PacketOK, LoadOK
    <3>5. Copies(recv(agent[m], m, p), d) <= Copies(agent[m], d) + Added(m, p, d)
      BY <2>1, <3>2, <3>3, <3>4, recvCopies
    <3>6. Added(m, p, d) = 0
      BY <3>4, DSRAssumption DEF Added, Carried
    <3> QED
      BY <2>1, <3>1, <3>5, <3>6
  <2>4. CASE m # n /\ m \notin heard
    <3>1. agent'[m] = agent[m]
      BY <1>1, <2>4
    <3> QED
      BY <2>1, <3>1
  <2> QED
    BY <2>2, <2>3, <2>4
<1>3. /\ Counted(agent, d) /\ Total(agent, d, Node) \in Nat
      /\ Cardinality(TakenOf(taken, d)) \in Nat
  BY PlacesType
<1>4. Counted(agent', d) /\ Total(agent', d, Node) \in Nat
  BY PlacesTypeNext
<1>5. Total(agent', d, Node) <= Total(agent, d, Node)
  BY <1>2, <1>3, <1>4, TotalLess
<1>6. deaf \in Nat /\ Cardinality({m \in Node \ heard : {n, m} \in link}) \in Nat
  <2>1. IsFiniteSet({m \in Node \ heard : {n, m} \in link})
    BY DSRAssumption, FS_Subset
  <2> QED
    BY <2>1, FS_CardinalityType DEF IInv
<1> QED
  BY <1>1, <1>3, <1>4, <1>5, <1>6 DEF NoNewPlaces, Places

LEMMA TimePassesCopies ==
    ASSUME IInv, IInv', TimePasses, NEW d \in Flow
    PROVE  NoNewPlaces(d)
<1>1. PICK n \in Node : SendBufferTimer(n) \/ Forget(n) \/ \E e \in Node : Wait(n, e)
  BY DEF TimePasses
<1> DEFINE s == agent[n]
<1>2. /\ AgentOK(s, n, begun, Numbers) /\ IsAgent(s) /\ DOMAIN agent = Node
      /\ Copies(s, d) \in Nat /\ deaf \in Nat
  BY CopiesType DEF IInv, AgentOK
<1>3. UNCHANGED <<taken, deaf>>
  BY <1>1 DEF SendBufferTimer, Forget, Wait
<1>4. /\ \A m \in Node \ {n} : agent'[m] = agent[m]
      /\ Copies(agent'[n], d) <= Copies(s, d)
  <2>1. CASE SendBufferTimer(n)
    <3>1. PICK expired : agent' = [agent EXCEPT ![n] = sendBufferCheck(@, n, expired)]
      BY <2>1 DEF SendBufferTimer
    <3> DEFINE t == SendBuffer(s, n, TRUE, expired)
    <3>2. Copies(t, d) <= Copies(s, d)
      BY <1>2, SendBufferCopies
    <3>3. agent' = [agent EXCEPT ![n] = t]
      BY <3>1 DEF sendBufferCheck
    <3> HIDE DEF t
    <3> QED
      BY <1>2, <3>2, <3>3
  <2>2. CASE Forget(n)
    <3> DEFINE t == [s EXCEPT !.held = None]
    <3>1. agent' = [agent EXCEPT ![n] = t]
      BY <2>2 DEF Forget
    <3>2. t.ifq = s.ifq /\ t.buf = s.buf
      BY <1>2 DEF IsAgent
    <3> HIDE DEF t
    <3>3. Copies(t, d) = Copies(s, d)
      BY <3>2, SameCopies
    <3> QED
      BY <1>2, <3>1, <3>3
  <2>3. ASSUME NEW e \in Node, Wait(n, e)
        PROVE  /\ \A m \in Node \ {n} : agent'[m] = agent[m]
               /\ Copies(agent'[n], d) <= Copies(s, d)
    <3> DEFINE x == [s.asked[e] EXCEPT !.phase = IF s.asked[e].phase = "fresh" THEN "silent" ELSE "ready"]
               a == [s.asked EXCEPT ![e] = x]
               t == [s EXCEPT !.asked = a]
    <3>1. agent' = [agent EXCEPT ![n] = t]
      BY <2>3 DEF Wait
    <3> HIDE DEF a
    <3>2. t.ifq = s.ifq /\ t.buf = s.buf
      BY <1>2 DEF IsAgent
    <3> HIDE DEF t
    <3>3. Copies(t, d) = Copies(s, d)
      BY <3>2, SameCopies
    <3> QED
      BY <1>2, <3>1, <3>3
  <2> QED
    BY <1>1, <2>1, <2>2, <2>3
<1>5. Copies(agent'[n], d) <= Copies(agent[n], d) + 0
  BY <1>2, <1>4
<1>6. Places(agent', taken', d) <= Places(agent, taken, d) + 0
  BY <1>3, <1>4, <1>5, AloneCopies
<1>7. Places(agent', taken', d) \in Nat /\ Places(agent, taken, d) \in Nat
  BY PlacesType, PlacesTypeNext
<1> QED
  BY <1>2, <1>3, <1>6, <1>7 DEF NoNewPlaces

LEMMA OriginateCopies ==
    ASSUME IInv, IInv', NEW o \in Flow, Originate(o), NEW d \in Flow
    PROVE  Places(agent', taken', d) <= Places(agent, taken, d) + IF d = o THEN 1 ELSE 0
<1> DEFINE E == begun \cup {o}
           n == o.src
           p == NewPacket(o.src, o.dst, o)
           t == handlePktWithoutSR(agent[n], n, p)
           a == IF d = o THEN 1 ELSE 0
<1>1. n \in Node /\ o.dst \in Node \ {n}
  BY DSRAssumption
<1>2. agent' = [agent EXCEPT ![n] = t] /\ UNCHANGED taken /\ DOMAIN agent = Node
  BY DEF Originate, IInv
<1>3. AgentOK(agent[n], n, E, Numbers)
  <2>1. Numbers \in [Node -> Nat] /\ \A k \in Node : agent[k].number \in Nat
    BY NumbersType
  <2> QED
    BY <1>1, <2>1, AgentMonotone DEF IInv
<1>4. Waits(p, n, E) /\ Carried(p, d) <= a
  <2>1. Waits(p, n, E)
    <3>1. o \in E \cup {None}
      OBVIOUS
    <3> HIDE DEF E
    <3> DEFINE m == o.dst
    <3>2. m \in Node /\ m # n /\ n \in Node /\ (o # None => n = o.src)
      BY <1>1
    <3> HIDE DEF n, m
    <3>3. LET q == NewPacket(n, m, o) IN PacketOK(q, E) /\ q.request = 0 /\ q.dst = m
      BY <3>1, <3>2, NewPacketOK
    <3> QED
      BY <3>2, <3>3 DEF Waits, n, m
  <2>2. p.data = o
    BY DEF NewPacket
  <2> QED
    BY <2>1, <2>2 DEF Carried
<1> HIDE DEF p, E
<1>5. Copies(t, d) <= Copies(agent[n], d) + Carried(p, d)
  BY <1>1, <1>3, <1>4, handlePktCopies
<1> HIDE DEF t
<1>6. agent'[n] = t /\ \A m \in Node \ {n} : agent'[m] = agent[m]
  BY <1>1, <1>2
<1>7. Copies(agent'[n], d) \in Nat /\ Copies(agent[n], d) \in Nat
  BY <1>1, PlacesType, PlacesTypeNext, TotalSplit
<1>8. a \in Nat /\ Copies(agent'[n], d) <= Copies(agent[n], d) + a
  BY <1>4, <1>5, <1>6, <1>7 DEF Carried
<1> HIDE DEF a
<1>9. Places(agent', taken', d) <= Places(agent, taken, d) + a
  BY <1>1, <1>2, <1>6, <1>8, AloneCopies
<1> QED
  BY <1>9 DEF a

\* A packet that was not originated is nowhere.
LEMMA NowhereYet ==
    ASSUME IInv, NEW d \in Flow, d \notin begun
    PROVE  Places(agent, taken, d) = 0
<1> DEFINE F == FramesOf(agent, d)
           W == SlotsOf(agent, d)
<1>1. ASSUME NEW n \in Node PROVE Frames(agent[n], d) = {} /\ Slots(agent[n], d) = {}
  <2>1. AgentOK(agent[n], n, begun, Numbers)
    BY DEF IInv
  <2>2. d \notin Data(agent[n])
    BY <2>1, DataKnown
  <2> QED
    BY <2>2 DEF Data, Frames, Slots
<1>2. \A n \in Node : F[n] = {} /\ W[n] = {}
  BY <1>1 DEF FramesOf, SlotsOf
<1> HIDE DEF F, W
<1>3. Cardinality(Spread(F, Node)) = 0 /\ Cardinality(Spread(W, Node)) = 0
  BY <1>2, NothingSpread
<1>4. Total(agent, d, Node) = 0
  BY <1>3 DEF Total, F, W
<1>5. Cardinality(TakenOf(taken, d)) = 0
  <2>1. TakenOf(taken, d) = {}
    BY DEF TakenOf, IInv
  <2> QED
    BY <2>1, FS_EmptySet
<1> QED
  BY <1>4, <1>5 DEF Places

LEMMA TransmitCopies ==
    ASSUME IInv, IInv', Transmit, NEW d \in Flow
    PROVE  NoNewPlaces(d) /\ UNCHANGED begun
<1>1. PICK n \in Node : \E f \in agent[n].ifq :
          IF f.to = MAC_BROADCAST THEN Broadcast(n, f)
          ELSE Deliver(n, f) \/ Fail(n, f) \/ DeliverInVain(n, f)
  BY DEF Transmit
<1>2. PICK f \in agent[n].ifq :
          IF f.to = MAC_BROADCAST THEN Broadcast(n, f)
          ELSE Deliver(n, f) \/ Fail(n, f) \/ DeliverInVain(n, f)
  BY <1>1
<1>3. CASE f.to = MAC_BROADCAST
  BY <1>2, <1>3, BroadcastCopies DEF Broadcast
<1>4. CASE f.to # MAC_BROADCAST
  <2>1. f.to \in Node
    BY <1>4, FramesKnown
  <2>2. NoNewPlaces(d)
    BY <1>2, <1>4, <2>1, DeliverCopies, FailCopies
  <2> QED
    BY <1>2, <1>4, <2>2 DEF Deliver, Fail, DeliverInVain
<1> QED
  BY <1>3, <1>4

LEMMA OneCopyNext ==
    ASSUME IInv, IInv', [Next]_vars, OneCopy
    PROVE  OneCopy'
<1> SUFFICES ASSUME NEW d \in begun' PROVE Places(agent', taken', d) <= 1 + deaf'
  BY OneCopyPlaces
<1>1. d \in Flow /\ deaf \in Nat /\ deaf' \in Nat
  BY DEF IInv
<1>2. Places(agent', taken', d) \in Nat /\ Places(agent, taken, d) \in Nat
  BY PlacesType, PlacesTypeNext
<1>3. d \in begun => Places(agent, taken, d) <= 1 + deaf
  BY OneCopyPlaces
<1>4. ASSUME NoNewPlaces(d), UNCHANGED begun PROVE Places(agent', taken', d) <= 1 + deaf'
  BY <1>1, <1>2, <1>3, <1>4 DEF NoNewPlaces
<1>5. ASSUME NEW o \in Flow, Originate(o) PROVE Places(agent', taken', d) <= 1 + deaf'
  <2>1. /\ Places(agent', taken', d) <= Places(agent, taken, d) + IF d = o THEN 1 ELSE 0
        /\ begun' = begun \cup {o} /\ o \notin begun /\ deaf' = deaf
    BY <1>1, <1>5, OriginateCopies DEF Originate
  <2>2. CASE d = o
    <3>1. Places(agent, taken, d) = 0
      BY <1>1, <2>1, <2>2, NowhereYet
    <3> QED
      BY <1>1, <1>2, <2>1, <2>2, <3>1
  <2>3. CASE d # o
    BY <1>1, <1>2, <1>3, <2>1, <2>3
  <2> QED
    BY <2>2, <2>3
<1>6. CASE Transmit
  BY <1>1, <1>4, <1>6, TransmitCopies
<1>7. CASE TimePasses
  <2>1. UNCHANGED begun
    BY <1>7 DEF TimePasses, SendBufferTimer, Forget, Wait
  <2> QED
    BY <1>1, <1>4, <1>7, <2>1, TimePassesCopies
<1>8. ASSUME UNCHANGED <<agent, begun, taken, deaf>> PROVE Places(agent', taken', d) <= 1 + deaf'
  BY <1>3, <1>8
<1>9. CASE UNCHANGED vars
  BY <1>8, <1>9 DEF vars
<1>10. ASSUME NEW l \in Fragile, Break(l) PROVE Places(agent', taken', d) <= 1 + deaf'
  BY <1>8, <1>10 DEF Break
<1>11. ASSUME NEW n \in Egoist, egoista(n) PROVE Places(agent', taken', d) <= 1 + deaf'
  BY <1>8, <1>11 DEF egoista
<1> QED
  BY <1>5, <1>6, <1>7, <1>9, <1>10, <1>11 DEF Next

\* Every data packet is in one place only, in a send buffer, on its way or at its destination,
\* but for one more copy per frame that was sent in vain, whatever is salvaged, buffered,
\* answered and retried in whatever order, in every network and with buffers of every size.
THEOREM OnePlace == Spec => []OneCopy
<1>1. Init => OneCopy
  BY DEF Init, OneCopy
<1>2. IInv /\ IInv' /\ OneCopy /\ [Next]_vars => OneCopy'
  BY OneCopyNext
<1> QED
  BY <1>1, <1>2, Invariance, PTL DEF Spec
=============================================================================
