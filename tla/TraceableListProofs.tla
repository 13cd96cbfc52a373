------------------------ MODULE TraceableListProofs ------------------------
(***************************************************************************)
(* The links of traceable_list agree and its operations keep the promises  *)
(* of IterableList, for every amount of memory and any number of cursors.  *)
(* The invariant has a witness: the sequence of the nodes, in the order in *)
(* which next goes through them and prev comes back.                       *)
(***************************************************************************)
EXTENDS TraceableList, Integers, FiniteSetTheorems, WellFoundedInduction, TLAPS

(* Every set of natural numbers has a least one: induction on the position *)
(* in the list.                                                            *)
LEMMA LeastNatural ==
  ASSUME NEW T, T \subseteq Nat, T # {}
  PROVE  \E x \in T : \A y \in T : x <= y
<1> DEFINE R == {ss \in Nat \X Nat : ss[1] < ss[2]}
<1>1. IsWellFoundedOn(R, Nat)
  BY NatLessThanWellFounded DEF OpToRel
<1>2. \A x, y \in Nat : <<y, x>> \in R <=> y < x
  OBVIOUS
<1> HIDE DEF R
<1>3. PICK x \in T : \A y \in T : ~ (<<y, x>> \in R)
  BY <1>1, WFMin
<1>4. \A y \in T : ~(y < x)
  BY <1>2, <1>3
<1>. QED
  BY <1>4

-----------------------------------------------------------------------------
(* The node at a position of a sequence, Null in front of it and behind it. *)
Node(s, k) == IF k \in 1..Len(s) THEN s[k] ELSE Null

Distinct(s) == \A j, k \in 1..Len(s) : s[j] = s[k] => j = k

(* The allocated cells are the nodes that next goes through, ...           *)
Chain(s) ==
  /\ s \in Seq(Cells) /\ Distinct(s)
  /\ heap = {s[k] : k \in 1..Len(s)}
  /\ \A k \in 1..Len(s) : next[s[k]] = Node(s, k + 1)

(* ... and in a list in use, prev, the ends and m_size fit.                *)
LiveChain(s) ==
  /\ Chain(s)
  /\ head = Node(s, 1)
  /\ tail = Node(s, Len(s))
  /\ \A k \in 1..Len(s) : prev[s[k]] = Node(s, k - 1)
  /\ size = Len(s)

LEMMA NodeFacts ==
  ASSUME NEW s \in Seq(Cells), Distinct(s)
  PROVE  /\ Len(s) \in Nat /\ DOMAIN s = 1..Len(s)
         /\ \A k \in 1..Len(s) : Node(s, k) = s[k] /\ s[k] \in Cells /\ s[k] # Null
         /\ \A k \in Int : k \notin 1..Len(s) => Node(s, k) = Null
         /\ \A k \in Int : Node(s, k) \in Pointers
         /\ \A j, k \in 1..Len(s) : Node(s, j) = Node(s, k) => j = k
BY ListAssumption DEF Node, Distinct, Pointers

LEMMA ChainFitsMemory ==
  ASSUME NEW s \in Seq(Cells), Distinct(s)
  PROVE  /\ Len(s) <= Cardinality(Cells) /\ Cardinality(Cells) \in Nat
         /\ Cardinality({s[k] : k \in 1..Len(s)}) = Len(s)
<1> DEFINE n == Len(s)
           H == {s[k] : k \in 1..n}
<1>1. n \in Nat /\ H \subseteq Cells /\ s \in [1..n -> H]
  OBVIOUS
<1>2. IsFiniteSet(1..n) /\ Cardinality(1..n) = n
  <2>. HIDE DEF n
  <2>1. IsFiniteSet(1..n) /\ Cardinality(1..n) = IF 1 > n THEN 0 ELSE n - 1 + 1
    BY <1>1, FS_Interval, 1 \in Int, n \in Int
  <2>. QED
    BY <1>1, <2>1
<1>3. /\ IsFiniteSet(H) /\ Cardinality(H) <= Cardinality(Cells)
      /\ Cardinality(Cells) \in Nat
  BY <1>1, ListAssumption, FS_Subset, FS_CardinalityType
<1>4. s \in Surjection(1..n, H)
  BY <1>1 DEF Surjection
<1>5. s \in Injection(1..n, H)
  BY <1>1 DEF Injection, IsInjective, Distinct
<1>6. Cardinality(H) = n
  BY <1>2, <1>4, <1>5, FS_Surjection
<1>. QED
  BY <1>1, <1>3, <1>6

(* begin() and ++ visit the chain: the walk is the only function that      *)
(* starts at the head and goes on with next.                               *)
LEMMA WalkVisitsChain ==
  \A s : LiveChain(s) =>
    Walk = [k \in 1..(Cardinality(Cells) + 1) |-> Node(s, k)]
<1> SUFFICES ASSUME NEW s, LiveChain(s)
             PROVE  Walk = [k \in 1..(Cardinality(Cells) + 1) |-> Node(s, k)]
  OBVIOUS
<1> DEFINE N == Cardinality(Cells) + 1
           G == [k \in 1..N |-> Node(s, k)]
           Step(f) == [k \in 1..N |->
             IF k = 1 THEN head
             ELSE IF f[k - 1] = Null THEN Null ELSE next[f[k - 1]]]
<1>1. N \in Nat
  BY FS_CardinalityType, ListAssumption
<1> HIDE DEF N
<1>2. \A k \in 1..N : k # 1 => /\ k - 1 \in 1..N /\ k - 1 \in Nat
                               /\ k - 1 < k /\ (k - 1) + 1 = k
  BY <1>1
<1>3. G = Step(G)
  <2>1. SUFFICES ASSUME NEW k \in 1..N, k # 1
                 PROVE  Node(s, k) = IF Node(s, k - 1) = Null THEN Null
                                     ELSE next[Node(s, k - 1)]
    BY <1>2 DEF LiveChain
  <2>2. CASE k - 1 \in 1..Len(s)
    BY <2>2, <1>2, <2>1, ListAssumption DEF Node, LiveChain, Chain
  <2>3. CASE k - 1 \notin 1..Len(s)
    <3>1. Len(s) \in Nat
      BY DEF LiveChain, Chain
    <3>. QED
      BY <2>3, <3>1, <1>2, <2>1 DEF Node
  <2>. QED
    BY <2>2, <2>3
<1>4. ASSUME NEW f, f = Step(f)
      PROVE  f = G
  <2> DEFINE T == {k \in 1..N : f[k] # G[k]}
  <2>1. SUFFICES ASSUME T # {} PROVE FALSE
    BY <1>4
  <2>2. PICK k \in T : \A j \in T : k <= j
    <3>1. T \subseteq Nat
      BY <1>1
    <3>. HIDE DEF T
    <3>. QED
      BY <3>1, <2>1, LeastNatural
  <2>3. CASE k = 1
    BY <2>3, <2>2, <1>4 DEF LiveChain
  <2>4. CASE k # 1
    <3>1. f[k - 1] = G[k - 1]
      BY <2>2, <2>4, <1>2
    <3>. HIDE DEF G
    <3>. QED
      BY <2>2, <2>4, <1>2, <1>4, <1>3, <3>1
  <2>. QED
    BY <2>3, <2>4
<1>5. Walk = CHOOSE f : f = Step(f)
  BY DEF Walk, N
<1> HIDE DEF Step, G
<1>6. Walk = G
  BY <1>3, <1>4, <1>5
<1>. QED
  BY <1>6 DEF G, N

(* What the client sees of a list in use is the chain. *)
LEMMA ItemsAreChain == \A s : Alive /\ LiveChain(s) => Items = s
<1> SUFFICES ASSUME NEW s, Alive, LiveChain(s)
             PROVE  Items = s
  OBVIOUS
<1>1. s \in Seq(Cells) /\ Distinct(s) /\ size = Len(s)
  BY DEF LiveChain, Chain
<1>2. \A k \in 1..size : k \in 1..(Cardinality(Cells) + 1)
  <2>1. Len(s) <= Cardinality(Cells) /\ Cardinality(Cells) \in Nat
    BY <1>1, ChainFitsMemory
  <2>. QED
    BY <1>1, <2>1
<1>3. \A k \in 1..size : Walk[k] = s[k]
  <2>1. \A k \in 1..Len(s) : Node(s, k) = s[k]
    BY DEF Node
  <2>. QED
    BY <1>1, <1>2, <2>1, WalkVisitsChain
<1>4. Items = [k \in 1..size |-> Walk[k]]
  BY DEF Items, Alive
<1>. QED
  BY <1>1, <1>3, <1>4

LEMMA ItemsAreChainNext == (\A s : Alive /\ LiveChain(s) => Items = s)'
BY ItemsAreChain, PTL

(* What IterableList says of the list, in terms of the chain.              *)
ChainView(s) ==
  /\ Items = s
  /\ List!Elements = heap
  /\ List!First = head
  /\ \A k \in 1..(Len(s) + 1) :
       List!Position(Node(s, k)) = k /\ List!Place(k) = Node(s, k)

LEMMA ViewOfChain ==
  ASSUME NEW s, Alive, LiveChain(s)
  PROVE  ChainView(s)
<1>1. Items = s
  BY ItemsAreChain
<1>2. /\ s \in Seq(Cells) /\ Distinct(s) /\ head = Node(s, 1)
      /\ heap = {s[k] : k \in 1..Len(s)}
  BY DEF LiveChain, Chain
<1>3. /\ Len(s) \in Nat /\ DOMAIN s = 1..Len(s)
      /\ \A k \in 1..Len(s) : Node(s, k) = s[k] /\ s[k] \in Cells /\ s[k] # Null
      /\ \A k \in Int : k \notin 1..Len(s) => Node(s, k) = Null
  BY <1>2, NodeFacts
<1>4. List!Elements = heap
  BY <1>1, <1>2, <1>3 DEF List!Elements, List!ToSet
<1>5. List!First = head
  BY <1>1, <1>2, <1>3 DEF List!First
<1>6. ASSUME NEW k \in 1..(Len(s) + 1)
      PROVE  List!Position(Node(s, k)) = k /\ List!Place(k) = Node(s, k)
  <2>1. CASE k = Len(s) + 1
    <3>1. k \notin 1..Len(s) /\ k \in Int
      BY <2>1, <1>3
    <3>. QED
      BY <2>1, <3>1, <1>1, <1>3 DEF List!Position, List!Place
  <2>2. CASE k # Len(s) + 1
    <3>1. k \in 1..Len(s)
      BY <2>2, <1>3
    <3>2. \A j \in DOMAIN s : s[j] = s[k] <=> j = k
      BY <3>1, <1>2, <1>3 DEF Distinct
    <3>3. (CHOOSE j \in DOMAIN s : s[j] = s[k]) = k
      BY <3>1, <3>2, <1>3
    <3>. QED
      BY <2>2, <3>1, <3>3, <1>1, <1>3 DEF List!Position, List!Place
  <2>. QED
    BY <2>1, <2>2
<1>. QED
  BY <1>1, <1>4, <1>5, <1>6 DEF ChainView

-----------------------------------------------------------------------------
(* What an insertion and a removal do to the node at each position.        *)
IsInsertion(t, s, p, c) ==
  /\ t \in Seq(Cells) /\ Distinct(t) /\ Len(t) = Len(s) + 1
  /\ \A k \in Int : Node(t, k) = IF k < p THEN Node(s, k)
                                 ELSE IF k = p THEN c ELSE Node(s, k - 1)
  /\ {t[k] : k \in 1..Len(t)} = {s[k] : k \in 1..Len(s)} \cup {c}

IsRemoval(t, s, p) ==
  /\ t \in Seq(Cells) /\ Distinct(t) /\ Len(t) = Len(s) - 1
  /\ \A k \in Int : Node(t, k) = IF k < p THEN Node(s, k) ELSE Node(s, k + 1)
  /\ {t[k] : k \in 1..Len(t)} = {s[k] : k \in 1..Len(s)} \ {s[p]}

LEMMA InsertAtInserts ==
  ASSUME NEW s \in Seq(Cells), Distinct(s), NEW p \in 1..(Len(s) + 1),
         NEW c \in Cells, \A k \in 1..Len(s) : s[k] # c
  PROVE  IsInsertion(List!InsertAt(s, p, c), s, p, c)
<1> DEFINE t == List!InsertAt(s, p, c)
           n == Len(s)
<1>1. n \in Nat /\ p \in Nat /\ p - 1 \in Nat
  OBVIOUS
<1>2. t = SubSeq(s, 1, p - 1) \o <<c>> \o SubSeq(s, p, n)
  BY DEF List!InsertAt
<1>3. /\ t \in Seq(Cells) /\ Len(t) = n + 1
      /\ \A k \in 1..(n + 1) : t[k] = IF k < p THEN s[k]
                                      ELSE IF k = p THEN c ELSE s[k - 1]
  <2>1. /\ SubSeq(s, 1, p - 1) \in Seq(Cells) /\ Len(SubSeq(s, 1, p - 1)) = p - 1
        /\ \A k \in 1..(p - 1) : SubSeq(s, 1, p - 1)[k] = s[k]
    BY <1>1
  <2>2. /\ SubSeq(s, p, n) \in Seq(Cells) /\ Len(SubSeq(s, p, n)) = n + 1 - p
        /\ \A k \in 1..(n + 1 - p) : SubSeq(s, p, n)[k] = s[k + p - 1]
    BY <1>1
  <2> DEFINE a == SubSeq(s, 1, p - 1)
             b == SubSeq(s, p, n)
  <2>3. a \in Seq(Cells) /\ b \in Seq(Cells) /\ Len(a) = p - 1 /\ Len(b) = n + 1 - p
    BY <2>1, <2>2
  <2>4. /\ \A k \in 1..(p - 1) : a[k] = s[k]
        /\ \A k \in 1..(n + 1 - p) : b[k] = s[k + p - 1]
    BY <2>1, <2>2
  <2>5. t = (a \o <<c>>) \o b
    BY <1>2
  <2> HIDE DEF a, b, n, t
  <2> DEFINE ac == a \o <<c>>
  <2>6. /\ ac \in Seq(Cells) /\ Len(ac) = p
        /\ \A k \in 1..p : ac[k] = IF k < p THEN a[k] ELSE c
    BY <1>1, <2>3
  <2> HIDE DEF ac
  <2>7. /\ ac \o b \in Seq(Cells) /\ Len(ac \o b) = n + 1
        /\ \A k \in 1..(n + 1) : (ac \o b)[k] = IF k <= p THEN ac[k] ELSE b[k - p]
    BY <1>1, <2>3, <2>6
  <2>8. t \in Seq(Cells) /\ Len(t) = n + 1 /\ t = ac \o b
    BY <2>5, <2>7 DEF ac
  <2>9. ASSUME NEW k \in 1..(n + 1)
        PROVE  t[k] = IF k < p THEN s[k] ELSE IF k = p THEN c ELSE s[k - 1]
    <3>1. p \in 1..(n + 1)
      BY DEF n
    <3>2. CASE k < p
      <4>1. k \in 1..(p - 1) /\ k \in 1..p
        BY <1>1, <3>1, <3>2
      <4>2. t[k] = ac[k] /\ ac[k] = a[k] /\ a[k] = s[k]
        BY <3>2, <4>1, <1>1, <2>4, <2>6, <2>7, <2>8
      <4>. QED
        BY <3>2, <4>2
    <3>3. CASE k = p
      BY <3>1, <3>3, <1>1, <2>6, <2>7, <2>8
    <3>4. CASE k > p
      <4>1. k - p \in 1..(n + 1 - p) /\ (k - p) + p - 1 = k - 1
        BY <1>1, <3>1, <3>4
      <4>2. t[k] = b[k - p]
        <5>1. ~(k <= p)
          BY <3>4, <1>1
        <5>. QED
          BY <5>1, <2>7, <2>8
      <4>3. b[k - p] = s[(k - p) + p - 1]
        BY <4>1, <2>4
      <4>. QED
        BY <3>1, <3>4, <4>1, <4>2, <4>3, <1>1
    <3>. QED
      BY <3>2, <3>3, <3>4, <1>1
  <2>. QED
    BY <2>8, <2>9
<1> HIDE DEF n, t
<1>4. /\ p \in 1..(n + 1) /\ s \in Seq(Cells) /\ n = Len(s)
      /\ \A k \in 1..n : s[k] # c
  BY DEF n
<1>5. Distinct(t)
  <2> SUFFICES ASSUME NEW j \in 1..(n + 1), NEW k \in 1..(n + 1), t[j] = t[k]
               PROVE  j = k
    BY <1>3 DEF Distinct
  <2> DEFINE Old(i) == IF i < p THEN i ELSE i - 1
  <2>1. \A i \in 1..(n + 1) : i # p => Old(i) \in 1..n /\ t[i] = s[Old(i)]
    BY <1>1, <1>3, <1>4
  <2>2. t[p] = c
    BY <1>1, <1>3, <1>4
  <2>3. CASE j = p \/ k = p
    BY <2>1, <2>2, <2>3, <1>4
  <2>4. CASE j # p /\ k # p
    <3>1. Old(j) = Old(k)
      BY <2>1, <2>4, <1>4 DEF Distinct
    <3>. QED
      BY <3>1, <2>4, <1>1
  <2>. QED
    BY <2>3, <2>4
<1>6. ASSUME NEW k \in Int
      PROVE  Node(t, k) = IF k < p THEN Node(s, k)
                          ELSE IF k = p THEN c ELSE Node(s, k - 1)
  BY <1>1, <1>3, <1>4 DEF Node
<1>7. {t[k] : k \in 1..Len(t)} = {s[k] : k \in 1..n} \cup {c}
  <2>1. \A k \in 1..(n + 1) : t[k] = c \/ \E j \in 1..n : t[k] = s[j]
    <3> SUFFICES ASSUME NEW k \in 1..(n + 1), k # p
                 PROVE  \E j \in 1..n : t[k] = s[j]
      BY <1>3, <1>4
    <3>1. CASE k < p
      BY <3>1, <1>1, <1>3, <1>4
    <3>2. CASE k > p
      <4>1. k - 1 \in 1..n /\ t[k] = s[k - 1]
        BY <3>2, <1>1, <1>3, <1>4
      <4>. QED
        BY <4>1
    <3>. QED
      BY <3>1, <3>2, <1>1
  <2>2. \A j \in 1..n : \E k \in 1..(n + 1) : t[k] = s[j]
    <3> SUFFICES ASSUME NEW j \in 1..n
                 PROVE  \E k \in 1..(n + 1) : t[k] = s[j]
      OBVIOUS
    <3>1. CASE j < p
      BY <3>1, <1>1, <1>3, <1>4
    <3>2. CASE j >= p
      <4>1. j + 1 \in 1..(n + 1) /\ t[j + 1] = s[(j + 1) - 1] /\ (j + 1) - 1 = j
        BY <3>2, <1>1, <1>3, <1>4
      <4>. QED
        BY <4>1
    <3>. QED
      BY <3>1, <3>2, <1>1
  <2>3. p \in 1..(n + 1) /\ t[p] = c
    BY <1>1, <1>3, <1>4
  <2>4. Len(t) = n + 1
    BY <1>3
  <2>. HIDE DEF n, t
  <2>5. \A x \in {t[k] : k \in 1..(n + 1)} : x \in {s[k] : k \in 1..n} \cup {c}
    BY <2>1, <2>3
  <2>6. \A x \in {s[k] : k \in 1..n} \cup {c} : x \in {t[k] : k \in 1..(n + 1)}
    BY <2>2, <2>3
  <2>. QED
    BY <2>4, <2>5, <2>6
<1>. QED
  BY <1>3, <1>5, <1>6, <1>7 DEF n, t, IsInsertion

LEMMA RemoveAtRemoves ==
  ASSUME NEW s \in Seq(Cells), Distinct(s), NEW p \in 1..Len(s)
  PROVE  IsRemoval(List!RemoveAt(s, p), s, p)
<1> DEFINE t == List!RemoveAt(s, p)
           n == Len(s)
           a == SubSeq(s, 1, p - 1)
           b == SubSeq(s, p + 1, n)
<1>1. n \in Nat /\ n - 1 \in Nat /\ p \in Nat /\ p - 1 \in Nat /\ p \in 1..n
  OBVIOUS
<1>2. /\ a \in Seq(Cells) /\ Len(a) = p - 1
      /\ \A k \in 1..(p - 1) : a[k] = s[k]
  BY <1>1
<1>3. /\ b \in Seq(Cells) /\ Len(b) = n - p
      /\ \A k \in 1..(n - p) : b[k] = s[k + p]
  BY <1>1
<1>4. t = a \o b
  BY DEF List!RemoveAt
<1> HIDE DEF a, b, n, t
<1>5. /\ t \in Seq(Cells) /\ Len(t) = n - 1
      /\ \A k \in 1..(n - 1) : t[k] = IF k < p THEN s[k] ELSE s[k + 1]
  <2>1. /\ t \in Seq(Cells) /\ Len(t) = n - 1
        /\ \A k \in 1..(n - 1) : t[k] = IF k < p THEN a[k] ELSE b[k - (p - 1)]
    <3>1. Len(a) + Len(b) = n - 1 /\ \A k \in 1..(n - 1) : k <= p - 1 <=> k < p
      BY <1>1, <1>2, <1>3
    <3>2. /\ a \o b \in Seq(Cells) /\ Len(a \o b) = Len(a) + Len(b)
          /\ \A k \in 1..(Len(a) + Len(b)) :
               (a \o b)[k] = IF k <= Len(a) THEN a[k] ELSE b[k - Len(a)]
      <4>1. a \in Seq(Cells) /\ b \in Seq(Cells)
        BY <1>2, <1>3
      <4>. QED
        BY <4>1
    <3>3. ASSUME NEW k \in 1..(n - 1)
          PROVE  t[k] = IF k <= p - 1 THEN a[k] ELSE b[k - (p - 1)]
      <4>1. k \in 1..(Len(a) + Len(b))
        BY <3>1
      <4>2. t[k] = IF k <= Len(a) THEN a[k] ELSE b[k - Len(a)]
        BY <4>1, <3>2, <1>4
      <4>. QED
        BY <4>2, <1>2
    <3>. QED
      BY <3>1, <3>2, <3>3, <1>4
  <2>2. ASSUME NEW k \in 1..(n - 1)
        PROVE  t[k] = IF k < p THEN s[k] ELSE s[k + 1]
    <3>1. CASE k < p
      BY <3>1, <2>1, <1>1, <1>2
    <3>2. CASE k >= p
      <4>1. k - (p - 1) \in 1..(n - p) /\ (k - (p - 1)) + p = k + 1
        BY <3>2, <1>1
      <4>2. t[k] = b[k - (p - 1)] /\ b[k - (p - 1)] = s[(k - (p - 1)) + p]
        BY <3>2, <4>1, <2>1, <1>1, <1>3
      <4>. QED
        BY <3>2, <4>1, <4>2, <1>1
    <3>. QED
      BY <3>1, <3>2, <1>1
  <2>. QED
    BY <2>1, <2>2
<1>6. s \in Seq(Cells) /\ n = Len(s) /\ \A j, k \in 1..n : s[j] = s[k] => j = k
  BY DEF n, Distinct
<1> DEFINE Old(k) == IF k < p THEN k ELSE k + 1
<1>7. \A k \in 1..(n - 1) : Old(k) \in 1..n \ {p} /\ t[k] = s[Old(k)]
  BY <1>1, <1>5
<1>8. Distinct(t)
  <2> SUFFICES ASSUME NEW j \in 1..(n - 1), NEW k \in 1..(n - 1), t[j] = t[k]
               PROVE  j = k
    BY <1>5 DEF Distinct
  <2>1. Old(j) = Old(k)
    <3>. HIDE DEF Old
    <3>. QED
      BY <1>6, <1>7
  <2>. QED
    BY <2>1, <1>1
<1>9. ASSUME NEW k \in Int
      PROVE  Node(t, k) = IF k < p THEN Node(s, k) ELSE Node(s, k + 1)
  BY <1>1, <1>5, <1>6 DEF Node
<1>10. {t[k] : k \in 1..Len(t)} = {s[k] : k \in 1..n} \ {s[p]}
  <2>1. \A j \in 1..n : j # p => \E k \in 1..(n - 1) : Old(k) = j
    <3> SUFFICES ASSUME NEW j \in 1..n, j # p
                 PROVE  \E k \in 1..(n - 1) : Old(k) = j
      OBVIOUS
    <3>1. CASE j < p
      <4>1. j \in 1..(n - 1) /\ Old(j) = j
        BY <3>1, <1>1
      <4>. QED
        BY <4>1
    <3>2. CASE j > p
      <4>1. j - 1 \in 1..(n - 1) /\ Old(j - 1) = j
        BY <3>2, <1>1
      <4>. QED
        BY <4>1
    <3>. QED
      BY <3>1, <3>2, <1>1
  <2>. HIDE DEF Old
  <2>2. \A k \in 1..(n - 1) : \E j \in 1..n : t[k] = s[j] /\ s[j] # s[p]
    BY <1>1, <1>6, <1>7
  <2>3. \A j \in 1..n : s[j] # s[p] => \E k \in 1..(n - 1) : t[k] = s[j]
    BY <1>7, <2>1
  <2>4. {t[k] : k \in 1..(n - 1)} = {s[k] : k \in 1..n} \ {s[p]}
    <3>1. \A x \in {t[k] : k \in 1..(n - 1)} : x \in {s[k] : k \in 1..n} \ {s[p]}
      BY <2>2
    <3>2. \A x \in {s[k] : k \in 1..n} \ {s[p]} : x \in {t[k] : k \in 1..(n - 1)}
      BY <2>3
    <3>. QED
      BY <3>1, <3>2
  <2>. QED
    BY <1>5, <2>4
<1>. QED
  BY <1>5, <1>8, <1>9, <1>10 DEF n, t, IsRemoval

-----------------------------------------------------------------------------
LinksTyped ==
  /\ heap \in SUBSET Cells
  /\ prev \in [Cells -> Pointers] /\ next \in [Cells -> Pointers]
  /\ head \in Pointers /\ tail \in Pointers

(* A chain, by its nodes. *)
LEMMA ChainNodes ==
  ASSUME NEW s, Chain(s)
  PROVE  /\ s \in Seq(Cells) /\ Distinct(s) /\ Len(s) \in Nat
         /\ \A k \in 1..Len(s) : /\ Node(s, k) \in Cells /\ Node(s, k) \in heap
                                 /\ Node(s, k) = s[k] /\ Node(s, k) # Null
                                 /\ next[Node(s, k)] = Node(s, k + 1)
         /\ \A k \in Int : k \notin 1..Len(s) => Node(s, k) = Null
         /\ \A k \in Int : Node(s, k) \in Pointers /\ Node(s, k) \in heap \cup {Null}
         /\ \A j, k \in 1..Len(s) : Node(s, j) = Node(s, k) => j = k
         /\ \A c \in heap : \E k \in 1..Len(s) : c = Node(s, k)
<1>1. /\ s \in Seq(Cells) /\ Distinct(s) /\ heap = {s[k] : k \in 1..Len(s)}
      /\ \A k \in 1..Len(s) : next[s[k]] = Node(s, k + 1)
  BY DEF Chain
<1>2. /\ Len(s) \in Nat
      /\ \A k \in 1..Len(s) : Node(s, k) = s[k] /\ s[k] \in Cells /\ s[k] # Null
      /\ \A k \in Int : k \notin 1..Len(s) => Node(s, k) = Null
      /\ \A k \in Int : Node(s, k) \in Pointers
      /\ \A j, k \in 1..Len(s) : Node(s, j) = Node(s, k) => j = k
  BY <1>1, NodeFacts
<1>. QED
  BY <1>1, <1>2

(* push_one puts the new node into the chain, in front of where it points. *)
LEMMA PushKeepsChain ==
  ASSUME LinksTyped, NEW s, LiveChain(s), NEW p \in 1..(Len(s) + 1),
         NEW c \in Cells, Push(c, Node(s, p)),
         NEW t, IsInsertion(t, s, p, c)
  PROVE  LiveChain(t)' /\ LinksTyped' /\ wild' = wild
<1> DEFINE n == Len(s)
           where == Node(s, p)
<1>1. /\ s \in Seq(Cells) /\ Distinct(s) /\ n \in Nat
      /\ \A k \in 1..n : /\ Node(s, k) \in Cells /\ Node(s, k) \in heap
                         /\ Node(s, k) = s[k] /\ Node(s, k) # Null
                         /\ next[Node(s, k)] = Node(s, k + 1)
      /\ \A k \in Int : k \notin 1..n => Node(s, k) = Null
      /\ \A k \in Int : Node(s, k) \in Pointers /\ Node(s, k) \in heap \cup {Null}
      /\ \A j, k \in 1..n : Node(s, j) = Node(s, k) => j = k
  BY ChainNodes DEF LiveChain
<1>2. /\ heap = {s[k] : k \in 1..n} /\ head = Node(s, 1) /\ tail = Node(s, n)
      /\ \A k \in 1..n : prev[Node(s, k)] = Node(s, k - 1)
      /\ size = n
  BY <1>1 DEF LiveChain, Chain
<1>3. /\ c \notin heap /\ heap' = heap \cup {c} /\ size' = size + 1
      /\ \/ head = Null /\ PushFirst(c, where)
         \/ head # Null /\ where = Null /\ PushAtEnd(c)
         \/ head # Null /\ where # Null /\ PushBefore(c, where)
  BY DEF Push, Count
<1>4. /\ t \in Seq(Cells) /\ Distinct(t) /\ Len(t) = n + 1
      /\ \A k \in Int : Node(t, k) = IF k < p THEN Node(s, k)
                                     ELSE IF k = p THEN c ELSE Node(s, k - 1)
      /\ {t[k] : k \in 1..Len(t)} = {s[k] : k \in 1..n} \cup {c}
  BY DEF IsInsertion
<1>5. /\ prev \in [Cells -> Pointers] /\ next \in [Cells -> Pointers]
      /\ head \in Pointers /\ tail \in Pointers /\ heap \in SUBSET Cells
      /\ c \in Pointers /\ Null \in Pointers /\ c # Null
  BY ListAssumption DEF LinksTyped, Pointers
<1>6. p \in 1..(n + 1) /\ n = Len(s) /\ \A k \in 1..n : c # Node(s, k)
  BY <1>1, <1>3
<1> HIDE DEF n
<1>7. where = Null <=> p = n + 1
  BY <1>1, <1>6
<1>8. head = Null <=> n = 0
  BY <1>1, <1>2
<1> SUFFICES /\ \A k \in 1..(n + 1) : /\ next'[Node(t, k)] = Node(t, k + 1)
                                      /\ prev'[Node(t, k)] = Node(t, k - 1)
             /\ head' = Node(t, 1) /\ tail' = Node(t, n + 1)
             /\ prev' \in [Cells -> Pointers] /\ next' \in [Cells -> Pointers]
             /\ head' \in Pointers /\ tail' \in Pointers
             /\ wild' = wild
  <2>1. heap' = {t[k] : k \in 1..Len(t)} /\ size' = Len(t) /\ heap' \in SUBSET Cells
    BY <1>2, <1>3, <1>4, <1>5
  <2>2. \A k \in 1..Len(t) : Node(t, k) = t[k]
    BY DEF Node
  <2>. QED
    BY <1>4, <2>1, <2>2 DEF LiveChain, Chain, LinksTyped
<1>9. CASE head = Null /\ PushFirst(c, where)
  BY <1>1, <1>4, <1>5, <1>6, <1>7, <1>8, <1>9 DEF PushFirst
<1>10. CASE head # Null /\ where = Null /\ PushAtEnd(c)
  <2>1. p = n + 1 /\ n >= 1 /\ tail \in heap
    <3>1. p = n + 1 /\ n # 0
      BY <1>7, <1>8, <1>10
    <3>2. n \in 1..n
      BY <3>1, <1>1
    <3>. QED
      BY <3>1, <3>2, <1>1, <1>2
  <2>2. /\ next' = [Relink(next, tail, c) EXCEPT ![c] = Null] /\ wild' = wild
        /\ prev' = [prev EXCEPT ![c] = tail] /\ tail' = c /\ head' = head
    BY <2>1, <1>10 DEF PushAtEnd, Follows
  <2>3. ASSUME NEW d \in Cells
        PROVE  /\ next'[d] = IF d = c THEN Null ELSE IF d = tail THEN c ELSE next[d]
               /\ prev'[d] = IF d = c THEN tail ELSE prev[d]
    BY <2>2, <1>5 DEF Relink
  <2>4. prev' \in [Cells -> Pointers] /\ next' \in [Cells -> Pointers]
    BY <2>2, <1>5 DEF Relink
  <2>5. ASSUME NEW k \in 1..(n + 1)
        PROVE  next'[Node(t, k)] = Node(t, k + 1) /\ prev'[Node(t, k)] = Node(t, k - 1)
    <3>1. /\ Node(t, k) = IF k < n + 1 THEN Node(s, k) ELSE c
          /\ Node(t, k + 1) = IF k + 1 <= n THEN Node(s, k + 1)
                              ELSE IF k = n THEN c ELSE Null
          /\ Node(t, k - 1) = Node(s, k - 1)
      BY <1>1, <1>4, <2>1
    <3>2. tail # c /\ tail = Node(s, n) /\ tail \in Cells /\ n \in 1..n
      BY <1>1, <1>2, <1>6, <2>1
    <3>3. CASE k = n + 1
      <4>1. Node(t, k) = c /\ Node(t, k + 1) = Null /\ Node(t, k - 1) = tail
        BY <3>1, <3>2, <3>3, <1>1
      <4>. QED
        BY <4>1, <1>5, <2>3
    <3>4. CASE k = n
      <4>1. Node(t, k) = tail /\ Node(t, k + 1) = c /\ Node(t, k - 1) = Node(s, n - 1)
        BY <3>1, <3>2, <3>4, <1>1
      <4>2. prev[tail] = Node(s, n - 1)
        BY <3>2, <1>2
      <4>. QED
        BY <3>2, <4>1, <4>2, <2>3
    <3>5. CASE k < n
      <4>1. k \in 1..n /\ k # n
        BY <3>5, <1>1
      <4>2. Node(s, k) # tail /\ Node(s, k) # c /\ Node(s, k) \in Cells
        BY <3>2, <4>1, <1>1, <1>6
      <4>3. Node(t, k) = Node(s, k) /\ Node(t, k + 1) = Node(s, k + 1)
        BY <3>1, <3>5, <1>1
      <4>4. next[Node(s, k)] = Node(s, k + 1) /\ prev[Node(s, k)] = Node(s, k - 1)
        BY <4>1, <1>1, <1>2
      <4>. QED
        BY <3>1, <4>2, <4>3, <4>4, <2>3
    <3>. QED
      BY <3>3, <3>4, <3>5, <1>1
  <2>6. Node(t, 1) = Node(s, 1) /\ Node(t, n + 1) = c
    BY <1>1, <1>4, <2>1
  <2>. QED
    BY <1>2, <1>5, <2>2, <2>4, <2>5, <2>6
<1>11. CASE head # Null /\ where # Null /\ PushBefore(c, where)
  <2>1. /\ p \in 1..n /\ where \in heap /\ where = Node(s, p) /\ where \in Cells
        /\ prev[where] = Node(s, p - 1) /\ prev[where] \in heap \cup {Null}
    <3>1. p \in 1..n
      BY <1>1, <1>6, <1>7, <1>11
    <3>2. p - 1 \in Int
      BY <3>1
    <3>. QED
      BY <3>1, <3>2, <1>1, <1>2
  <2>2. /\ next' = [LeftLink(c, where) EXCEPT ![c] = where] /\ wild' = wild
        /\ prev' = [prev EXCEPT ![c] = prev[where], ![where] = c]
        /\ head' = (IF head = where THEN c ELSE head) /\ tail' = tail
    BY <2>1, <1>11 DEF PushBefore, Follows
  <2>. HIDE DEF where
  <2>3. ASSUME NEW d \in Cells
        PROVE  /\ next'[d] = IF d = c THEN where
                             ELSE IF d = prev[where] THEN c ELSE next[d]
               /\ prev'[d] = IF d = where THEN c
                             ELSE IF d = c THEN prev[where] ELSE prev[d]
    BY <2>1, <2>2, <1>5 DEF LeftLink, Relink
  <2>4. prev' \in [Cells -> Pointers] /\ next' \in [Cells -> Pointers]
    BY <2>1, <2>2, <1>5 DEF LeftLink, Relink, Pointers
  <2>5. ASSUME NEW k \in 1..(n + 1)
        PROVE  next'[Node(t, k)] = Node(t, k + 1) /\ prev'[Node(t, k)] = Node(t, k - 1)
    <3>1. CASE k < p
      <4>1. /\ k \in 1..n /\ p \in 1..n /\ Node(s, k) # c /\ Node(s, k) # where
            /\ Node(t, k) = Node(s, k) /\ Node(t, k - 1) = Node(s, k - 1)
            /\ Node(t, k + 1) = IF k = p - 1 THEN c ELSE Node(s, k + 1)
        BY <3>1, <1>1, <1>4, <1>6, <2>1
      <4>2. Node(s, k) = prev[where] <=> k = p - 1
        <5>1. CASE p = 1
          BY <5>1, <3>1
        <5>2. CASE p # 1
          <6>1. p - 1 \in 1..n
            BY <5>2, <2>1, <1>1
          <6>. QED
            BY <4>1, <6>1, <2>1, <1>1
        <5>. QED
          BY <5>1, <5>2
      <4>3. next[Node(s, k)] = Node(s, k + 1) /\ prev[Node(s, k)] = Node(s, k - 1)
        BY <4>1, <1>1, <1>2
      <4>4. Node(s, k) \in Cells
        BY <4>1, <1>1
      <4>. QED
        BY <4>1, <4>2, <4>3, <4>4, <2>3
    <3>2. CASE k = p
      <4>1. /\ Node(t, k) = c /\ Node(t, k + 1) = where /\ Node(t, k - 1) = Node(s, p - 1)
            /\ where # c
        BY <3>2, <1>1, <1>4, <1>6, <2>1
      <4>. QED
        BY <4>1, <1>5, <2>1, <2>3
    <3>3. CASE k > p
      <4>1. /\ k - 1 \in 1..n /\ (k - 1) + 1 = k /\ (k + 1) - 1 = k /\ p \in 1..n
            /\ Node(t, k) = Node(s, k - 1) /\ Node(t, k + 1) = Node(s, k)
            /\ Node(t, k - 1) = IF k - 1 = p THEN c ELSE Node(s, (k - 1) - 1)
        BY <3>3, <1>1, <1>4, <1>6, <2>1
      <4>2. Node(s, k - 1) # prev[where]
        <5>1. CASE p = 1
          BY <4>1, <5>1, <2>1, <1>1
        <5>2. CASE p # 1
          <6>1. p - 1 \in 1..n /\ p - 1 # k - 1
            BY <3>3, <5>2, <2>1, <1>1
          <6>. QED
            BY <4>1, <6>1, <2>1, <1>1
        <5>. QED
          BY <5>1, <5>2
      <4>3. Node(s, k - 1) # c /\ (Node(s, k - 1) = where <=> k - 1 = p)
        BY <4>1, <1>1, <1>6, <2>1
      <4>4. Node(s, k - 1) \in Cells /\ next[Node(s, k - 1)] = Node(s, k)
        BY <4>1, <1>1
      <4>5. prev[Node(s, k - 1)] = Node(s, (k - 1) - 1)
        BY <4>1, <1>2
      <4>. QED
        BY <4>1, <4>2, <4>3, <4>4, <4>5, <2>3
    <3>. QED
      BY <3>1, <3>2, <3>3, <1>1, <1>6
  <2>6. head = where <=> p = 1
    <3>1. 1 \in 1..n
      BY <2>1, <1>1
    <3>. QED
      BY <3>1, <2>1, <1>1, <1>2
  <2>7. /\ Node(t, 1) = IF p = 1 THEN c ELSE Node(s, 1)
        /\ Node(t, n + 1) = Node(s, n)
    BY <1>1, <1>4, <2>1
  <2>. QED
    BY <1>2, <1>5, <2>2, <2>4, <2>5, <2>6, <2>7
<1>. QED
  BY <1>3, <1>9, <1>10, <1>11

(* pop_one takes the node out of the chain.                                *)
LEMMA PopKeepsChain ==
  ASSUME LinksTyped, NEW s, LiveChain(s), NEW p \in 1..Len(s), Pop(s[p]),
         NEW t, IsRemoval(t, s, p)
  PROVE  LiveChain(t)' /\ LinksTyped' /\ wild' = wild
<1> DEFINE n == Len(s)
           c == Node(s, p)
<1>1. /\ s \in Seq(Cells) /\ Distinct(s) /\ n \in Nat
      /\ \A k \in 1..n : /\ Node(s, k) \in Cells /\ Node(s, k) \in heap
                         /\ Node(s, k) = s[k] /\ Node(s, k) # Null
                         /\ next[Node(s, k)] = Node(s, k + 1)
      /\ \A k \in Int : k \notin 1..n => Node(s, k) = Null
      /\ \A k \in Int : Node(s, k) \in Pointers /\ Node(s, k) \in heap \cup {Null}
      /\ \A j, k \in 1..n : Node(s, j) = Node(s, k) => j = k
  BY ChainNodes DEF LiveChain
<1>2. /\ heap = {s[k] : k \in 1..n} /\ head = Node(s, 1) /\ tail = Node(s, n)
      /\ \A k \in 1..n : prev[Node(s, k)] = Node(s, k - 1)
      /\ size = n
  BY <1>1 DEF LiveChain, Chain
<1>3. /\ t \in Seq(Cells) /\ Distinct(t) /\ Len(t) = n - 1
      /\ \A k \in Int : Node(t, k) = IF k < p THEN Node(s, k) ELSE Node(s, k + 1)
      /\ {t[k] : k \in 1..Len(t)} = {s[k] : k \in 1..n} \ {c}
  BY <1>1 DEF IsRemoval
<1>4. p \in 1..n /\ n = Len(s) /\ c = Node(s, p) /\ c = s[p] /\ c \in Cells /\ c \in heap
  BY <1>1
<1>5. /\ prev \in [Cells -> Pointers] /\ next \in [Cells -> Pointers]
      /\ head \in Pointers /\ tail \in Pointers /\ heap \in SUBSET Cells
      /\ Null \in Pointers
  BY DEF LinksTyped, Pointers
<1> HIDE DEF n, c
<1>6. next[c] = Node(s, p + 1) /\ prev[c] = Node(s, p - 1) /\ p - 1 \in Int /\ p + 1 \in Int
  <2>1. next[c] = Node(s, p + 1)
    BY <1>1, <1>4
  <2>2. prev[c] = Node(s, p - 1)
    BY <1>2, <1>4
  <2>3. p - 1 \in Int /\ p + 1 \in Int
    <3>1. p \in Int
      BY <1>1, <1>4
    <3>. QED
      BY <3>1
  <2>. QED
    BY <2>1, <2>2, <2>3
<1>7. /\ next' = [Relink(next, prev[c], next[c]) EXCEPT ![c] = Null]
      /\ prev' = [Relink(prev, next[c], prev[c]) EXCEPT ![c] = Null]
      /\ head' = (IF head = c THEN next[c] ELSE head)
      /\ tail' = (IF tail = c THEN prev[c] ELSE tail)
      /\ size' = size - 1 /\ heap' = heap \ {c}
      /\ wild' = wild
  <2>1. next[c] \in heap \cup {Null} /\ prev[c] \in heap \cup {Null}
    BY <1>1, <1>6
  <2>. QED
    BY <1>4, <2>1 DEF Pop, MoveTail, Follows
<1>8. ASSUME NEW d \in Cells, d # c
      PROVE  /\ next'[d] = IF d = prev[c] THEN next[c] ELSE next[d]
             /\ prev'[d] = IF d = next[c] THEN prev[c] ELSE prev[d]
  BY <1>7, <1>8, <1>5 DEF Relink
<1>9. /\ prev' \in [Cells -> Pointers] /\ next' \in [Cells -> Pointers]
      /\ head' \in Pointers /\ tail' \in Pointers /\ heap' \in SUBSET Cells
  <2>1. next[c] \in Pointers /\ prev[c] \in Pointers
    BY <1>4, <1>5
  <2>. QED
    BY <1>5, <1>7, <2>1 DEF Relink
<1>10. heap' = {t[k] : k \in 1..Len(t)} /\ size' = Len(t)
  BY <1>2, <1>3, <1>7
<1>11. /\ head = c <=> p = 1
       /\ tail = c <=> p = n
  <2>1. 1 \in 1..n /\ n \in 1..n
    BY <1>1, <1>4
  <2>. QED
    BY <2>1, <1>1, <1>2, <1>4
<1>12. /\ \A k \in Int : k < p => Node(t, k) = Node(s, k)
       /\ \A k \in Int : k >= p => Node(t, k) = Node(s, k + 1)
       /\ n \in Int /\ p \in Int /\ 1 <= p /\ p <= n
  <2>1. n \in Int /\ p \in Int /\ 1 <= p /\ p <= n
    BY <1>1, <1>4
  <2>2. \A k \in Int : Node(t, k) = IF k < p THEN Node(s, k) ELSE Node(s, k + 1)
    BY <1>3
  <2>3. ASSUME NEW k \in Int, k < p
        PROVE  Node(t, k) = Node(s, k)
    BY <2>2, <2>3
  <2>4. ASSUME NEW k \in Int, k >= p
        PROVE  Node(t, k) = Node(s, k + 1)
    <3>1. ~(k < p)
      BY <2>1, <2>4
    <3>. QED
      BY <2>2, <3>1
  <2>. QED
    BY <2>1, <2>3, <2>4
<1>13. head' = Node(t, 1) /\ tail' = Node(t, n - 1)
  <2>2. Node(t, 1) = IF p = 1 THEN Node(s, p + 1) ELSE Node(s, 1)
    <3>1. CASE p = 1
      BY <1>12, <3>1
    <3>2. CASE p # 1
      <4>1. 1 \in Int /\ 1 < p
        BY <1>12, <3>2
      <4>. QED
        BY <1>12, <3>2, <4>1
    <3>. QED
      BY <3>1, <3>2
  <2>3. Node(t, n - 1) = IF p = n THEN Node(s, p - 1) ELSE Node(s, n)
    <3>1. CASE p = n
      BY <1>12, <3>1
    <3>2. CASE p # n
      <4>1. n - 1 \in Int /\ n - 1 >= p /\ (n - 1) + 1 = n
        BY <1>12, <3>2
      <4>. QED
        BY <1>12, <3>2, <4>1
    <3>. QED
      BY <3>1, <3>2
  <2>4. head' = Node(t, 1)
    BY <2>2, <1>2, <1>6, <1>7, <1>11
  <2>5. tail' = Node(t, n - 1)
    BY <2>3, <1>2, <1>6, <1>7, <1>11
  <2>. QED
    BY <2>4, <2>5
<1>14. ASSUME NEW k \in 1..(n - 1)
       PROVE  next'[Node(t, k)] = Node(t, k + 1) /\ prev'[Node(t, k)] = Node(t, k - 1)
  <2> DEFINE j == IF k < p THEN k ELSE k + 1
  <2>1. j \in 1..n /\ j # p /\ Node(t, k) = Node(s, j)
    <3>1. CASE k < p
      <4>1. k \in Int /\ j = k /\ k \in 1..n /\ k # p
        BY <3>1, <1>12
      <4>2. Node(t, k) = Node(s, k)
        BY <1>12, <3>1, <4>1
      <4>. QED
        BY <4>1, <4>2
    <3>2. CASE k >= p
      <4>1. k \in Int /\ j = k + 1 /\ k + 1 \in 1..n /\ k + 1 # p
        BY <3>2, <1>12
      <4>2. Node(t, k) = Node(s, k + 1)
        BY <1>12, <3>2, <4>1
      <4>. QED
        BY <4>1, <4>2
    <3>. QED
      BY <1>12, <3>1, <3>2
  <2>2. Node(s, j) \in Cells /\ Node(s, j) # c
    BY <2>1, <1>1, <1>4
  <2>3. next[Node(s, j)] = Node(s, j + 1) /\ prev[Node(s, j)] = Node(s, j - 1)
    BY <2>1, <1>1, <1>2
  <2>4. /\ Node(t, k + 1) = IF j = p - 1 THEN Node(s, p + 1) ELSE Node(s, j + 1)
        /\ Node(t, k - 1) = IF j = p + 1 THEN Node(s, p - 1) ELSE Node(s, j - 1)
    <3>1. k \in Int /\ k + 1 \in Int /\ k - 1 \in Int /\ (k - 1) + 1 = k
      OBVIOUS
    <3>2. CASE k < p
      <4>1. k - 1 < p /\ j = k /\ j # p + 1
        BY <1>12, <3>2
      <4>2. Node(t, k - 1) = Node(s, k - 1)
        BY <1>12, <3>1, <4>1
      <4>3. CASE k + 1 < p
        <5>1. j # p - 1 /\ Node(t, k + 1) = Node(s, k + 1)
          BY <1>12, <3>1, <4>1, <4>3
        <5>. QED
          BY <4>1, <4>2, <5>1
      <4>4. CASE k + 1 >= p
        <5>1. j = p - 1 /\ (k + 1) + 1 = p + 1
          BY <1>12, <3>2, <4>1, <4>4
        <5>2. Node(t, k + 1) = Node(s, (k + 1) + 1)
          BY <1>12, <3>1, <4>4
        <5>. QED
          BY <4>1, <4>2, <5>1, <5>2
      <4>. QED
        BY <1>12, <3>1, <4>3, <4>4
    <3>3. CASE k >= p
      <4>0. k + 1 >= p /\ j = k + 1 /\ j # p - 1 /\ j - 1 = k /\ (j = p + 1 <=> k = p)
        BY <1>12, <3>3
      <4>1. /\ Node(t, k + 1) = Node(s, (k + 1) + 1) /\ j = k + 1 /\ j # p - 1
            /\ j - 1 = k /\ (j = p + 1 <=> k = p)
        BY <1>12, <3>1, <4>0
      <4>2. Node(t, k - 1) = IF k - 1 < p THEN Node(s, k - 1) ELSE Node(s, (k - 1) + 1)
        <5>1. CASE k - 1 < p
          BY <1>12, <3>1, <5>1
        <5>2. CASE k - 1 >= p
          BY <1>12, <3>1, <5>2
        <5>. QED
          BY <1>12, <3>1, <5>1, <5>2
      <4>3. Node(t, k - 1) = IF j = p + 1 THEN Node(s, p - 1) ELSE Node(s, j - 1)
        <5>1. CASE k = p
          BY <5>1, <1>12, <4>1, <4>2
        <5>2. CASE k # p
          <6>1. ~(k - 1 < p)
            BY <3>3, <5>2, <1>12
          <6>. QED
            BY <6>1, <5>2, <3>1, <4>1, <4>2
        <5>. QED
          BY <5>1, <5>2
      <4>. QED
        BY <4>1, <4>3
    <3>. QED
      BY <1>12, <3>1, <3>2, <3>3
  <2>5. Node(s, j) = prev[c] <=> j = p - 1
    <3>1. CASE p = 1
      BY <3>1, <2>1, <1>1, <1>6
    <3>2. CASE p # 1
      <4>1. p - 1 \in 1..n
        BY <3>2, <1>1, <1>4
      <4>. QED
        BY <4>1, <2>1, <1>1, <1>6
    <3>. QED
      BY <3>1, <3>2
  <2>6. Node(s, j) = next[c] <=> j = p + 1
    <3>1. CASE p = n
      BY <3>1, <2>1, <1>1, <1>6
    <3>2. CASE p # n
      <4>1. p + 1 \in 1..n
        BY <3>2, <1>1, <1>4
      <4>. QED
        BY <4>1, <2>1, <1>1, <1>6
    <3>. QED
      BY <3>1, <3>2
  <2>. HIDE DEF j
  <2>. QED
    BY <2>1, <2>2, <2>3, <2>4, <2>5, <2>6, <1>6, <1>8
<1>15. \A k \in 1..Len(t) : Node(t, k) = t[k]
  BY DEF Node
<1>. QED
  BY <1>3, <1>7, <1>9, <1>10, <1>13, <1>14, <1>15 DEF LiveChain, Chain, LinksTyped

(* The destructor takes the nodes off the front of the chain: iter has     *)
(* moved on before its node is gone.                                       *)
LEMMA DestroyStepKeepsChain ==
  ASSUME loop \in Loops, NEW s, Chain(s), loop.iter = Node(s, 1), DestroyStep,
         NEW t, IsRemoval(t, s, 1)
  PROVE  /\ Chain(t)' /\ loop'.iter = Node(t, 1) /\ wild' = wild
<1> DEFINE n == Len(s)
<1>1. /\ s \in Seq(Cells) /\ n \in Nat
      /\ \A k \in 1..n : /\ Node(s, k) \in Cells /\ Node(s, k) \in heap
                         /\ Node(s, k) = s[k]
                         /\ next[Node(s, k)] = Node(s, k + 1)
      /\ \A k \in Int : k \notin 1..n => Node(s, k) = Null
  BY ChainNodes
<1>2. /\ heap' = heap \ {loop.iter} /\ next' = next
      /\ loop' = [loop EXCEPT !.iter = next[loop.iter]]
      /\ loop.iter # Null /\ Follows("destroy", {loop.iter})
  BY DEF DestroyStep
<1>3. n >= 1 /\ 1 \in 1..n
  BY <1>1, <1>2
<1>4. wild' = wild
  BY <1>1, <1>2, <1>3 DEF Follows
<1>5. /\ t \in Seq(Cells) /\ Distinct(t) /\ Len(t) = n - 1
      /\ \A k \in Int : Node(t, k) = IF k < 1 THEN Node(s, k) ELSE Node(s, k + 1)
      /\ {t[k] : k \in 1..Len(t)} = {s[k] : k \in 1..n} \ {s[1]}
  BY DEF IsRemoval
<1>6. heap' = {t[k] : k \in 1..Len(t)}
  BY <1>1, <1>2, <1>3, <1>5 DEF Chain
<1>7. ASSUME NEW k \in 1..Len(t)
      PROVE  next'[t[k]] = Node(t, k + 1)
  <2>1. t[k] = Node(s, k + 1) /\ k + 1 \in 1..n
    BY <1>1, <1>5 DEF Node
  <2>2. Node(t, k + 1) = Node(s, (k + 1) + 1)
    BY <1>1, <1>5, <2>1
  <2>. QED
    BY <1>1, <1>2, <2>1, <2>2
<1>8. loop'.iter = Node(t, 1)
  <2>1. loop'.iter = next[loop.iter]
    BY <1>2 DEF Loops
  <2>2. next[Node(s, 1)] = Node(s, 1 + 1)
    BY <1>1, <1>3
  <2>3. 1 \in Int /\ ~(1 < 1)
    OBVIOUS
  <2>4. Node(t, 1) = Node(s, 1 + 1)
    BY <1>5, <2>3
  <2>. QED
    BY <1>1, <2>1, <2>2, <2>4
<1>. QED
  BY <1>4, <1>5, <1>6, <1>7, <1>8 DEF Chain

-----------------------------------------------------------------------------
(* pop_some has iter and to in the list, and iter not behind to.           *)
PopsInOrder(s) == loop.op = "pop_some" =>
  \E m, n \in 1..(Len(s) + 1) :
    m <= n /\ loop.iter = Node(s, m) /\ loop.to = Node(s, n)

CursorsOnNodes ==
  \A i \in Cursors : Usable(i) => cursor[i].ptr \in heap \cup {Null}

(* What TypeOK says besides the links, the size and the mark. *)
ClientTyped ==
  /\ cursor \in [Cursors -> Iterators \cup {Lost}]
  /\ misled \in SUBSET Cursors
  /\ loop \in Loops

(* The inductive invariant: a list in use is a chain, the destructor takes *)
(* one apart, and the iterators that the client may use are on nodes.      *)
ListInv ==
  /\ LinksTyped /\ ClientTyped
  /\ size \in 0..Cardinality(Cells)
  /\ OnlyEndsAreWild
  /\ CursorsOnNodes
  /\ Alive => \E s : LiveChain(s) /\ PopsInOrder(s)
  /\ loop.op = "destroy" => \E s : Chain(s) /\ loop.iter = Node(s, 1)
  /\ loop.op = "destroyed" => heap = {}
  /\ ~Alive => \A i \in Cursors : cursor[i] = Lost

LEMMA ListInvImplies ==
  ListInv => TypeOK /\ LinksAgree /\ NothingLeaks /\ OnlyEndsAreWild
<1> SUFFICES ASSUME ListInv
             PROVE  TypeOK /\ LinksAgree /\ NothingLeaks /\ OnlyEndsAreWild
  OBVIOUS
<1>1. TypeOK
  BY DEF ListInv, LinksTyped, ClientTyped, OnlyEndsAreWild, TypeOK
<1>2. ASSUME NEW s, Alive, LiveChain(s)
      PROVE  LinksAgree /\ heap = {Items[k] : k \in DOMAIN Items}
  <2> DEFINE n == Len(s)
  <2>1. /\ s \in Seq(Cells) /\ Distinct(s) /\ n \in Nat
        /\ \A k \in 1..n : /\ Node(s, k) \in Cells /\ Node(s, k) \in heap
                           /\ Node(s, k) = s[k] /\ Node(s, k) # Null
                           /\ next[Node(s, k)] = Node(s, k + 1)
        /\ \A k \in Int : k \notin 1..n => Node(s, k) = Null
        /\ \A k \in Int : Node(s, k) \in heap \cup {Null}
        /\ \A j, k \in 1..n : Node(s, j) = Node(s, k) => j = k
        /\ \A c \in heap : \E k \in 1..n : c = Node(s, k)
    BY <1>2, ChainNodes DEF LiveChain
  <2>2. /\ heap = {s[k] : k \in 1..n} /\ head = Node(s, 1) /\ tail = Node(s, n)
        /\ \A k \in 1..n : prev[Node(s, k)] = Node(s, k - 1)
        /\ size = n
    BY <1>2, <2>1 DEF LiveChain, Chain
  <2>3. Items = s /\ DOMAIN s = 1..n
    BY <1>2, <2>1, ItemsAreChain
  <2>4. size = Cardinality(heap)
    BY <2>1, <2>2, ChainFitsMemory
  <2>. HIDE DEF n
  <2>5. /\ head = Null <=> n = 0
        /\ tail = Null <=> n = 0
        /\ heap = {} <=> n = 0
        /\ head \in heap \cup {Null} /\ tail \in heap \cup {Null}
    <3>1. CASE n = 0
      BY <3>1, <2>1, <2>2
    <3>2. CASE n # 0
      <4>1. 1 \in 1..n /\ n \in 1..n
        BY <3>2, <2>1
      <4>. QED
        BY <3>2, <4>1, <2>1, <2>2
    <3>. QED
      BY <3>1, <3>2
  <2>6. ASSUME NEW c \in heap
        PROVE  /\ next[c] = Null <=> c = tail
               /\ prev[c] = Null <=> c = head
               /\ next[c] # Null => next[c] \in heap /\ prev[next[c]] = c
               /\ prev[c] # Null => prev[c] \in heap /\ next[prev[c]] = c
    <3>1. PICK k \in 1..n : c = Node(s, k)
      BY <2>1
    <3>2. next[c] = Node(s, k + 1) /\ prev[c] = Node(s, k - 1)
      BY <3>1, <2>1, <2>2
    <3>3. 1 \in 1..n /\ n \in 1..n /\ k - 1 \in Int /\ k + 1 \in Int
      BY <2>1
    <3>4. (c = head <=> k = 1) /\ (c = tail <=> k = n)
      BY <3>1, <3>3, <2>1, <2>2
    <3>5. k # n => k + 1 \in 1..n /\ (k + 1) - 1 = k
      BY <2>1
    <3>6. k # 1 => k - 1 \in 1..n /\ (k - 1) + 1 = k
      BY <2>1
    <3>7. (k = n => next[c] = Null) /\ (k = 1 => prev[c] = Null)
      BY <3>2, <2>1
    <3>8. ASSUME k # n
          PROVE  /\ next[c] # Null /\ next[c] \in heap /\ prev[next[c]] = c
                 /\ c # tail
      <4>1. next[c] = Node(s, k + 1) /\ k + 1 \in 1..n /\ (k + 1) - 1 = k
        BY <3>2, <3>5, <3>8
      <4>2. next[c] \in heap /\ next[c] # Null
        BY <4>1, <2>1
      <4>3. prev[next[c]] = Node(s, (k + 1) - 1)
        BY <4>1, <2>2
      <4>4. c # tail
        BY <3>4, <3>8
      <4>. QED
        BY <3>1, <4>1, <4>2, <4>3, <4>4
    <3>9. ASSUME k # 1
          PROVE  /\ prev[c] # Null /\ prev[c] \in heap /\ next[prev[c]] = c
                 /\ c # head
      <4>1. prev[c] = Node(s, k - 1) /\ k - 1 \in 1..n /\ (k - 1) + 1 = k
        BY <3>2, <3>6, <3>9
      <4>2. prev[c] \in heap /\ prev[c] # Null
        BY <4>1, <2>1
      <4>3. next[prev[c]] = Node(s, (k - 1) + 1)
        BY <4>1, <2>1
      <4>4. c # head
        BY <3>4, <3>9
      <4>. QED
        BY <3>1, <4>1, <4>2, <4>3, <4>4
    <3>10. (next[c] = Null <=> c = tail) /\ (prev[c] = Null <=> c = head)
      BY <3>4, <3>7, <3>8, <3>9
    <3>11. /\ next[c] # Null => next[c] \in heap /\ prev[next[c]] = c
           /\ prev[c] # Null => prev[c] \in heap /\ next[prev[c]] = c
      BY <3>7, <3>8, <3>9
    <3>. QED
      BY <3>10, <3>11
  <2>7. LinksAgree
    <3>1. /\ head = Null <=> heap = {}
          /\ tail = Null <=> heap = {}
      BY <2>5
    <3>. QED
      BY <2>4, <2>5, <2>6, <3>1 DEF LinksAgree
  <2>8. heap = {Items[k] : k \in DOMAIN Items}
    BY <2>2, <2>3
  <2>. QED
    BY <2>7, <2>8
<1>. QED
  BY <1>1, <1>2 DEF ListInv, LinksAgree, NothingLeaks, OnlyEndsAreWild

-----------------------------------------------------------------------------
(* What is left to show of a step that leaves the list in use.             *)
LEMMA LiveStep ==
  ASSUME NEW t, LiveChain(t)', PopsInOrder(t)', Alive',
         LinksTyped', ClientTyped', OnlyEndsAreWild', CursorsOnNodes'
  PROVE  ListInv'
<1>1. t \in Seq(Cells) /\ Distinct(t) /\ size' = Len(t)
  BY DEF LiveChain, Chain
<1>2. size' \in 0..Cardinality(Cells)
  <2>1. Len(t) <= Cardinality(Cells) /\ Cardinality(Cells) \in Nat
    BY <1>1, ChainFitsMemory
  <2>2. Len(t) \in Nat
    BY <1>1
  <2>. QED
    BY <1>1, <2>1, <2>2
<1>3. loop'.op # "destroy" /\ loop'.op # "destroyed"
  BY DEF Alive
<1>. QED
  BY <1>2, <1>3 DEF ListInv

LEMMA IdleAlive == Idle => Alive /\ loop.op = "none" /\ wild = "no" /\ loop = NoLoop
BY DEF Idle, Alive, NoLoop

LEMMA PushStep ==
  ASSUME ListInv, NEW c \in Cells, NEW where \in heap \cup {Null}, Push(c, where)
  PROVE  ListInv' /\ List!Insert(where, c)
<1>1. /\ Idle /\ c \notin heap /\ heap' = heap \cup {c}
      /\ cursor' = cursor /\ misled' = misled /\ loop' = loop
  BY DEF Push
<1>2. Alive /\ loop.op = "none" /\ wild = "no" /\ loop = NoLoop
  BY <1>1, IdleAlive
<1>3. PICK s : LiveChain(s)
  BY <1>2 DEF ListInv
<1>4. /\ s \in Seq(Cells) /\ Distinct(s) /\ Len(s) \in Nat
      /\ \A k \in 1..Len(s) : Node(s, k) = s[k] /\ Node(s, k) \in heap
      /\ \A k \in Int : k \notin 1..Len(s) => Node(s, k) = Null
      /\ \A d \in heap : \E k \in 1..Len(s) : d = Node(s, k)
  BY <1>3, ChainNodes DEF LiveChain
<1>5. PICK p \in 1..(Len(s) + 1) : where = Node(s, p)
  <2>1. CASE where \in heap
    BY <2>1, <1>4
  <2>2. CASE where = Null
    <3>1. Len(s) + 1 \in Int /\ Len(s) + 1 \notin 1..Len(s)
      BY <1>4
    <3>2. where = Node(s, Len(s) + 1) /\ Len(s) + 1 \in 1..(Len(s) + 1)
      BY <2>2, <3>1, <1>4
    <3>. QED
      BY <3>2
  <2>. QED
    BY <2>1, <2>2
<1> DEFINE t == List!InsertAt(s, p, c)
<1>6. IsInsertion(t, s, p, c)
  <2>1. \A k \in 1..Len(s) : s[k] # c
    BY <1>1, <1>4
  <2>. QED
    BY <2>1, <1>4, InsertAtInserts
<1> HIDE DEF t
<1>7. LiveChain(t)' /\ LinksTyped' /\ wild' = wild
  BY <1>3, <1>5, <1>6, PushKeepsChain DEF ListInv
<1>8. Alive' /\ PopsInOrder(t)' /\ ClientTyped' /\ OnlyEndsAreWild' /\ CursorsOnNodes'
  BY <1>1, <1>2, <1>7
     DEF ListInv, Alive, PopsInOrder, ClientTyped, OnlyEndsAreWild, CursorsOnNodes, Usable
<1>9. ChainView(s)
  BY <1>2, <1>3, ViewOfChain
<1>10. Items' = t
  BY <1>7, <1>8, ItemsAreChainNext
<1>11. At' = At
  BY <1>1 DEF At
<1>12. List!Insert(where, c)
  BY <1>1, <1>5, <1>9, <1>10, <1>11 DEF List!Insert, ChainView, t
<1>. QED
  BY <1>7, <1>8, <1>12, LiveStep

LEMMA PopStep ==
  ASSUME ListInv, Alive, wild = "no", NEW s, LiveChain(s), NEW p \in 1..Len(s),
         Pop(s[p]), Alive', loop' \in Loops,
         PopsInOrder(List!RemoveAt(s, p))'
  PROVE  ListInv' /\ List!Take(s[p])
<1> DEFINE c == s[p]
           t == List!RemoveAt(s, p)
<1>1. /\ s \in Seq(Cells) /\ Distinct(s) /\ Len(s) \in Nat
      /\ c = Node(s, p) /\ c \in heap /\ c \in Cells
  BY ChainNodes DEF LiveChain
<1>2. IsRemoval(t, s, p)
  BY <1>1, RemoveAtRemoves
<1> HIDE DEF t
<1>3. LiveChain(t)' /\ LinksTyped' /\ wild' = wild
  BY <1>2, PopKeepsChain DEF ListInv
<1>4. /\ cursor' = [i \in Cursors |->
           IF cursor[i] # Lost /\ cursor[i].ptr = c THEN Lost ELSE cursor[i]]
      /\ misled' = misled /\ heap' = heap \ {c}
  BY DEF Pop, Drop
<1>5. ClientTyped' /\ OnlyEndsAreWild' /\ CursorsOnNodes'
  BY <1>3, <1>4 DEF ListInv, ClientTyped, OnlyEndsAreWild, CursorsOnNodes, Usable
<1>6. ListInv'
  BY <1>3, <1>5, LiveStep DEF t
<1>7. ChainView(s)
  BY ViewOfChain
<1>8. Items' = t
  BY <1>3, ItemsAreChainNext
<1>9. At' = [i \in Cursors |-> IF At[i] = c THEN Lost ELSE At[i]]
  BY <1>1, <1>4, ListAssumption DEF At
<1>10. List!Position(c) = p
  BY <1>1, <1>7 DEF ChainView
<1>11. List!Take(c)
  BY <1>1, <1>7, <1>8, <1>9, <1>10 DEF List!Take, ChainView, t
<1>. QED
  BY <1>6, <1>11

(* One lemma for each operation that changes the links: it keeps the       *)
(* invariant and does what the operation of its name promises.             *)
LEMMA EndsOfList ==
  ASSUME ListInv, Alive
  PROVE  /\ head \in heap \cup {Null} /\ tail \in heap \cup {Null}
         /\ head = Null <=> heap = {}
         /\ tail = Null <=> heap = {}
         /\ List!First = head /\ List!Elements = heap
         /\ \E s : LiveChain(s) /\ PopsInOrder(s) /\ ChainView(s)
<1>1. LinksAgree
  BY ListInvImplies
<1>2. PICK s : LiveChain(s) /\ PopsInOrder(s)
  BY DEF ListInv
<1>3. ChainView(s)
  BY <1>2, ViewOfChain
<1>. QED
  BY <1>1, <1>2, <1>3 DEF LinksAgree, ChainView

LEMMA PushFrontStep ==
  ASSUME ListInv, NEW c \in Cells, PushFront(c)
  PROVE  ListInv' /\ List!PushFront(c)
<1>1. Alive
  BY IdleAlive DEF PushFront, Push
<1>. QED
  BY <1>1, EndsOfList, PushStep DEF PushFront, List!PushFront

LEMMA PushBackStep ==
  ASSUME ListInv, NEW c \in Cells, PushBack(c)
  PROVE  ListInv' /\ List!PushBack(c)
BY PushStep DEF PushBack, List!PushBack

LEMMA PushOneStep ==
  ASSUME ListInv, NEW i \in Cursors, NEW c \in Cells, PushOne(i, c)
  PROVE  ListInv' /\ List!PushOne(i, c)
<1>1. cursor[i].ptr \in heap \cup {Null} /\ Usable(i) /\ Push(c, cursor[i].ptr)
  BY DEF PushOne, ListInv, CursorsOnNodes
<1>2. ListInv' /\ List!Insert(cursor[i].ptr, c)
  BY <1>1, PushStep
<1>3. At[i] = cursor[i].ptr /\ At[i] # Lost
  BY <1>1, ListAssumption DEF At, Usable, ListInv, LinksTyped
<1>. QED
  BY <1>2, <1>3 DEF List!PushOne

(* A pop while no loop is under way. *)
LEMMA IdlePopStep ==
  ASSUME ListInv, Idle, NEW c \in heap, Pop(c), UNCHANGED loop
  PROVE  ListInv' /\ List!Take(c)
<1>1. Alive /\ loop.op = "none" /\ wild = "no" /\ loop = NoLoop
  BY IdleAlive
<1>2. PICK s : LiveChain(s)
  BY <1>1 DEF ListInv
<1>3. PICK p \in 1..Len(s) : c = s[p]
  BY <1>2 DEF LiveChain, Chain
<1>4. /\ Alive' /\ loop' \in Loops
      /\ PopsInOrder(List!RemoveAt(s, p))'
  BY <1>1 DEF Alive, PopsInOrder, ListInv, ClientTyped
<1>. QED
  BY <1>1, <1>2, <1>3, <1>4, PopStep

LEMMA PopOneStep ==
  ASSUME ListInv, NEW i \in Cursors, PopOne(i)
  PROVE  ListInv' /\ List!PopOne(i)
<1>1. /\ Idle /\ Usable(i) /\ Pop(cursor[i].ptr) /\ UNCHANGED loop
      /\ cursor[i].ptr \in heap
  BY DEF PopOne, AtNode, ListInv, CursorsOnNodes
<1>2. ListInv' /\ List!Take(cursor[i].ptr)
  BY <1>1, IdlePopStep
<1>3. At[i] = cursor[i].ptr
  BY <1>1 DEF At, Usable
<1>. QED
  BY <1>2, <1>3 DEF List!PopOne

LEMMA PopFrontStep ==
  ASSUME ListInv, PopFront
  PROVE  ListInv' /\ List!PopFront
<1>1. Idle /\ head # Null /\ Pop(head) /\ UNCHANGED loop
  BY DEF PopFront
<1>2. head \in heap /\ List!First = head
  BY <1>1, IdleAlive, EndsOfList
<1>. QED
  BY <1>1, <1>2, IdlePopStep DEF List!PopFront

LEMMA PopBackStep ==
  ASSUME ListInv, PopBack
  PROVE  ListInv' /\ List!PopBack
<1>1. Idle /\ tail # Null /\ Pop(tail) /\ UNCHANGED loop
  BY DEF PopBack
<1>2. tail \in heap /\ \E s : LiveChain(s) /\ ChainView(s)
  BY <1>1, IdleAlive, EndsOfList
<1>3. PICK s : LiveChain(s) /\ ChainView(s)
  BY <1>2
<1>4. Items # <<>> /\ List!Last(Items) = tail
  BY <1>1, <1>3 DEF ChainView, LiveChain, Chain, Node, List!Last
<1>. QED
  BY <1>1, <1>2, <1>4, IdlePopStep DEF List!PopBack

-----------------------------------------------------------------------------
(* The loops. *)
LEMMA PopSomeStarts ==
  ASSUME ListInv, NEW i \in Cursors, NEW j \in Cursors, PopSome(i, j)
  PROVE  ListInv' /\ UNCHANGED <<Items, At>>
<1>1. /\ Idle /\ UNCHANGED <<links, cursor, misled, wild>>
      /\ loop' = [op |-> "pop_some", iter |-> cursor[i].ptr, to |-> cursor[j].ptr]
      /\ Usable(i) /\ Usable(j)
  BY DEF PopSome, AtNode
<1>2. Alive /\ loop.op = "none" /\ wild = "no"
  BY <1>1, IdleAlive
<1>3. PICK m, n \in 1..(size + 1) :
        m <= n /\ Walk[m] = cursor[i].ptr /\ Walk[n] = cursor[j].ptr
  BY DEF PopSome
<1>4. PICK s : LiveChain(s)
  BY <1>2 DEF ListInv
<1>5. \A k \in 1..(size + 1) : Walk[k] = Node(s, k)
  <2>1. s \in Seq(Cells) /\ Distinct(s) /\ size = Len(s)
    BY <1>4 DEF LiveChain, Chain
  <2>2. Len(s) <= Cardinality(Cells) /\ Cardinality(Cells) \in Nat
    BY <2>1, ChainFitsMemory
  <2>3. \A k \in 1..(size + 1) : k \in 1..(Cardinality(Cells) + 1)
    BY <2>1, <2>2
  <2>. QED
    BY <2>3, <1>4, WalkVisitsChain
<1>6. LiveChain(s)' /\ LinksTyped' /\ OnlyEndsAreWild'
  BY <1>1, <1>4 DEF ListInv, links, LiveChain, Chain, LinksTyped, OnlyEndsAreWild
<1>7. PopsInOrder(s)'
  <2>1. size = Len(s)
    BY <1>4 DEF LiveChain
  <2>. QED
    BY <1>1, <1>3, <1>5, <2>1 DEF PopsInOrder
<1>8. /\ cursor[i].ptr \in Pointers /\ cursor[j].ptr \in Pointers
  BY <1>1 DEF ListInv, ClientTyped, Usable, Iterators
<1>9. Alive' /\ ClientTyped' /\ CursorsOnNodes'
  BY <1>1, <1>8 DEF Alive, ListInv, ClientTyped, Loops, CursorsOnNodes, Usable, links
<1>10. Items' = s /\ Items = s
  BY <1>2, <1>4, <1>6, <1>9, ItemsAreChain, ItemsAreChainNext
<1>11. At' = At
  BY <1>1 DEF At
<1>. QED
  BY <1>6, <1>7, <1>9, <1>10, <1>11, LiveStep

LEMMA PopSomeGoesOn ==
  ASSUME ListInv, PopSomeStep
  PROVE  ListInv' /\ List!Take(loop.iter)
<1>1. wild = "no" /\ loop.op = "pop_some" /\ loop.iter # loop.to /\ Alive
  BY DEF PopSomeStep, Alive
<1>2. PICK s : LiveChain(s) /\ PopsInOrder(s)
  BY <1>1 DEF ListInv
<1>3. PICK m, n \in 1..(Len(s) + 1) :
        m <= n /\ loop.iter = Node(s, m) /\ loop.to = Node(s, n)
  BY <1>1, <1>2 DEF PopsInOrder
<1>4. /\ s \in Seq(Cells) /\ Distinct(s) /\ Len(s) \in Nat
      /\ \A k \in 1..Len(s) : /\ Node(s, k) = s[k] /\ Node(s, k) \in heap
                              /\ next[Node(s, k)] = Node(s, k + 1)
  BY <1>2, ChainNodes DEF LiveChain
<1>5. m \in 1..Len(s) /\ m < n
  <2>1. m # n
    BY <1>1, <1>3
  <2>. QED
    BY <1>3, <1>4, <2>1
<1>6. /\ Pop(s[m]) /\ loop.iter = s[m]
      /\ loop' = [loop EXCEPT !.iter = Node(s, m + 1)]
  BY <1>3, <1>4, <1>5 DEF PopSomeStep
<1> DEFINE t == List!RemoveAt(s, m)
<1>7. IsRemoval(t, s, m)
  BY <1>4, <1>5, RemoveAtRemoves
<1> HIDE DEF t
<1>8. /\ Len(t) = Len(s) - 1
      /\ \A k \in Int : Node(t, k) = IF k < m THEN Node(s, k) ELSE Node(s, k + 1)
  BY <1>7 DEF IsRemoval
<1>9. /\ loop'.op = "pop_some" /\ loop'.iter = Node(s, m + 1) /\ loop'.to = Node(s, n)
      /\ loop' \in Loops
  <2>1. next[s[m]] \in Pointers /\ next[s[m]] = Node(s, m + 1)
    BY <1>4, <1>5, <1>6 DEF ListInv, LinksTyped
  <2>. QED
    BY <1>1, <1>3, <1>6, <2>1 DEF ListInv, ClientTyped, Loops
<1>10. PopsInOrder(t)'
  <2>1. m \in 1..(Len(t) + 1) /\ n - 1 \in 1..(Len(t) + 1) /\ m <= n - 1
    BY <1>3, <1>4, <1>5, <1>8
  <2>2. Node(t, m) = Node(s, m + 1)
    BY <1>5, <1>8
  <2>3. Node(t, n - 1) = Node(s, n)
    <3>1. n - 1 \in Int /\ ~(n - 1 < m) /\ (n - 1) + 1 = n
      BY <2>1
    <3>. QED
      BY <1>8, <3>1
  <2>. QED
    BY <1>9, <2>1, <2>2, <2>3 DEF PopsInOrder
<1>11. Alive'
  BY <1>9 DEF Alive
<1>. QED
  BY <1>1, <1>2, <1>5, <1>6, <1>9, <1>10, <1>11, PopStep DEF t

LEMMA PopSomeEnds ==
  ASSUME ListInv, PopSomeEnd
  PROVE  ListInv' /\ UNCHANGED <<Items, At>>
<1>1. /\ wild = "no" /\ Alive /\ loop' = NoLoop
      /\ UNCHANGED <<links, cursor, misled, wild>>
  BY DEF PopSomeEnd, Alive
<1>2. PICK s : LiveChain(s)
  BY <1>1 DEF ListInv
<1>3. LiveChain(s)' /\ LinksTyped' /\ OnlyEndsAreWild'
  BY <1>1, <1>2 DEF ListInv, links, LiveChain, Chain, LinksTyped, OnlyEndsAreWild
<1>4. NoLoop \in Loops
  BY DEF NoLoop, Loops, Pointers
<1>5. PopsInOrder(s)' /\ Alive'
  BY <1>1 DEF PopsInOrder, Alive, NoLoop
<1>6. ClientTyped' /\ CursorsOnNodes'
  BY <1>1, <1>4 DEF ListInv, ClientTyped, CursorsOnNodes, Usable, links
<1>7. Items' = s /\ Items = s /\ At' = At
  BY <1>1, <1>2, <1>3, <1>5, ItemsAreChain, ItemsAreChainNext DEF At
<1>. QED
  BY <1>3, <1>5, <1>6, <1>7, LiveStep

LEMMA DestroyStarts ==
  ASSUME ListInv, Destroy
  PROVE  ListInv' /\ List!Clear
<1>1. /\ Alive /\ UNCHANGED <<links, misled, wild>>
      /\ loop' = [op |-> "destroy", iter |-> head, to |-> Null]
      /\ cursor' = [i \in Cursors |-> Lost]
  BY IdleAlive DEF Destroy
<1>2. PICK s : LiveChain(s)
  BY <1>1 DEF ListInv
<1>3. Chain(s)' /\ head = Node(s, 1) /\ loop'.iter = head
  BY <1>1, <1>2 DEF LiveChain, Chain, links
<1>4. LinksTyped' /\ OnlyEndsAreWild' /\ size' \in 0..Cardinality(Cells)
  BY <1>1 DEF ListInv, links, LinksTyped, OnlyEndsAreWild
<1>5. loop' \in Loops
  BY <1>1 DEF ListInv, LinksTyped, Loops, Pointers
<1>6. ClientTyped' /\ CursorsOnNodes'
  BY <1>1, <1>5 DEF ListInv, ClientTyped, CursorsOnNodes, Usable
<1>7. ListInv'
  BY <1>1, <1>3, <1>4, <1>6 DEF ListInv, Alive
<1>8. Items' = <<>> /\ At' = [i \in Cursors |-> Lost]
  BY <1>1 DEF Items, At
<1>. QED
  BY <1>7, <1>8 DEF List!Clear

LEMMA DestroyGoesOn ==
  ASSUME ListInv, DestroyStep
  PROVE  ListInv' /\ UNCHANGED <<Items, At>>
<1>1. /\ wild = "no" /\ loop.op = "destroy" /\ loop.iter # Null
      /\ heap' = heap \ {loop.iter} /\ loop' = [loop EXCEPT !.iter = next[loop.iter]]
      /\ UNCHANGED <<prev, next, head, tail, size, cursor, misled>>
  BY DEF DestroyStep
<1>2. PICK s : Chain(s) /\ loop.iter = Node(s, 1)
  BY <1>1 DEF ListInv
<1>3. /\ s \in Seq(Cells) /\ Distinct(s) /\ Len(s) \in Nat
      /\ \A k \in Int : k \notin 1..Len(s) => Node(s, k) = Null
      /\ \A k \in 1..Len(s) : Node(s, k) \in Cells
  BY <1>2, ChainNodes
<1>4. 1 \in 1..Len(s)
  BY <1>1, <1>2, <1>3
<1> DEFINE t == List!RemoveAt(s, 1)
<1>5. IsRemoval(t, s, 1)
  BY <1>3, <1>4, RemoveAtRemoves
<1> HIDE DEF t
<1>6. loop \in Loops
  BY DEF ListInv, ClientTyped
<1>7. Chain(t)' /\ loop'.iter = Node(t, 1) /\ wild' = wild
  BY <1>2, <1>5, <1>6, DestroyStepKeepsChain
<1>8. loop'.op = "destroy" /\ loop' \in Loops
  <2>1. next[loop.iter] \in Pointers
    BY <1>2, <1>3, <1>4 DEF ListInv, LinksTyped
  <2>. QED
    BY <1>1, <1>6, <2>1 DEF Loops
<1>9. \A i \in Cursors : cursor[i] = Lost
  BY <1>1 DEF ListInv, Alive
<1>10. LinksTyped' /\ ClientTyped' /\ OnlyEndsAreWild' /\ CursorsOnNodes'
  BY <1>1, <1>7, <1>8, <1>9
     DEF ListInv, LinksTyped, ClientTyped, OnlyEndsAreWild, CursorsOnNodes, Usable
<1>11. ListInv'
  BY <1>1, <1>7, <1>8, <1>9, <1>10 DEF ListInv, Alive
<1>12. Items' = <<>> /\ Items = <<>> /\ At' = At
  BY <1>1, <1>8 DEF Items, At
<1>. QED
  BY <1>11, <1>12

LEMMA DestroyEnds ==
  ASSUME ListInv, Destroyed
  PROVE  ListInv' /\ UNCHANGED <<Items, At>>
<1>1. /\ wild = "no" /\ loop.op = "destroy" /\ loop.iter = Null
      /\ loop' = [loop EXCEPT !.op = "destroyed"]
      /\ UNCHANGED <<links, cursor, misled, wild>>
  BY DEF Destroyed
<1>2. PICK s : Chain(s) /\ loop.iter = Node(s, 1)
  BY <1>1 DEF ListInv
<1>3. /\ Len(s) \in Nat /\ heap = {s[k] : k \in 1..Len(s)}
      /\ \A k \in 1..Len(s) : Node(s, k) # Null
  BY <1>2, ChainNodes DEF Chain
<1>4. heap = {}
  BY <1>1, <1>2, <1>3
<1>5. loop'.op = "destroyed" /\ loop' \in Loops
  BY <1>1 DEF ListInv, ClientTyped, Loops
<1>6. \A i \in Cursors : cursor[i] = Lost
  BY <1>1 DEF ListInv, Alive
<1>7. ListInv'
  BY <1>1, <1>4, <1>5, <1>6
     DEF ListInv, Alive, LinksTyped, ClientTyped, OnlyEndsAreWild, CursorsOnNodes, Usable, links
<1>8. Items' = <<>> /\ Items = <<>> /\ At' = At
  BY <1>1, <1>5 DEF Items, At
<1>. QED
  BY <1>7, <1>8

-----------------------------------------------------------------------------
(* The iterators move; the list stays as it is. *)
LEMMA LinksUnchanged ==
  ASSUME ListInv, Idle, UNCHANGED <<links, loop>>,
         ClientTyped', OnlyEndsAreWild', CursorsOnNodes'
  PROVE  ListInv' /\ Items' = Items
<1>1. Alive /\ loop.op = "none"
  BY IdleAlive
<1>2. PICK s : LiveChain(s)
  BY <1>1 DEF ListInv
<1>3. LiveChain(s)' /\ LinksTyped'
  BY <1>2 DEF ListInv, links, LiveChain, Chain, LinksTyped
<1>4. Alive' /\ PopsInOrder(s)'
  BY <1>1 DEF Alive, PopsInOrder
<1>5. Items' = s /\ Items = s
  BY <1>1, <1>2, <1>3, <1>4, ItemsAreChain, ItemsAreChainNext
<1>. QED
  BY <1>3, <1>4, <1>5, LiveStep

LEMMA AssignStep ==
  ASSUME ListInv, NEW i \in Cursors, NEW it \in Iterators,
         it.ptr \in heap \cup {Null}, Assign(i, it)
  PROVE  ListInv' /\ List!Move(i, it.ptr)
<1>1. /\ Idle /\ cursor' = [cursor EXCEPT ![i] = it] /\ misled' = misled \ {i}
      /\ UNCHANGED <<links, loop, wild>>
  BY DEF Assign
<1>2. /\ cursor \in [Cursors -> Iterators \cup {Lost}] /\ misled \in SUBSET Cursors
      /\ loop \in Loops
  BY DEF ListInv, ClientTyped
<1>3. ClientTyped' /\ OnlyEndsAreWild'
  BY <1>1, <1>2 DEF ClientTyped, ListInv, OnlyEndsAreWild, links
<1>4. CursorsOnNodes'
  BY <1>1, <1>2 DEF CursorsOnNodes, ListInv, Usable, links
<1>5. ListInv' /\ Items' = Items
  BY <1>1, <1>3, <1>4, LinksUnchanged
<1>6. it # Lost
  BY ListAssumption DEF Iterators, Pointers
<1>7. At' = [At EXCEPT ![i] = it.ptr]
  BY <1>1, <1>2, <1>6 DEF At
<1>. QED
  BY <1>5, <1>7 DEF List!Move

LEMMA BeginStep ==
  ASSUME ListInv, NEW i \in Cursors, Begin(i)
  PROVE  ListInv' /\ List!Begin(i)
<1>1. Assign(i, Iterator(head, tail)) /\ Alive
  BY IdleAlive DEF Begin, Assign
<1>2. head \in heap \cup {Null} /\ List!First = head
  BY <1>1, EndsOfList
<1>3. /\ Iterator(head, tail) \in Iterators /\ Iterator(head, tail).ptr = head
  BY DEF ListInv, LinksTyped, Iterator, Iterators
<1>. QED
  BY <1>1, <1>2, <1>3, AssignStep DEF List!Begin

LEMMA EndStep ==
  ASSUME ListInv, NEW i \in Cursors, End(i)
  PROVE  ListInv' /\ List!End(i)
<1>1. /\ Iterator(Null, tail) \in Iterators /\ Iterator(Null, tail).ptr = Null
  BY DEF ListInv, LinksTyped, Iterator, Iterators, Pointers
<1>. QED
  BY <1>1, AssignStep DEF End, List!End

LEMMA AtDataStep ==
  ASSUME ListInv, NEW i \in Cursors, NEW c \in Cells, AtData(i, c)
  PROVE  ListInv' /\ List!AtData(i, c)
<1>1. c \in heap /\ Assign(i, Iterator(c, Null)) /\ Alive
  BY IdleAlive DEF AtData, Assign
<1>2. List!Elements = heap
  BY <1>1, EndsOfList
<1>3. /\ Iterator(c, Null) \in Iterators /\ Iterator(c, Null).ptr = c
  BY DEF Iterator, Iterators, Pointers
<1>. QED
  BY <1>1, <1>2, <1>3, AssignStep DEF List!AtData

(* ++ and -- take a cursor from a node to another or to the end. *)
LEMMA StepCursor ==
  ASSUME ListInv, Idle, NEW i \in Cursors, Usable(i), NEW q \in heap \cup {Null},
         cursor' = [cursor EXCEPT ![i].ptr = q], UNCHANGED <<links, misled, loop, wild>>
  PROVE  ListInv' /\ List!Move(i, q)
<1>1. /\ cursor \in [Cursors -> Iterators \cup {Lost}] /\ misled \in SUBSET Cursors
      /\ loop \in Loops /\ heap \in SUBSET Cells
  BY DEF ListInv, ClientTyped, LinksTyped
<1>2. /\ cursor[i] \in Iterators /\ cursor[i] # Lost /\ i \notin misled
  BY <1>1 DEF Usable
<1> DEFINE it == [cursor[i] EXCEPT !.ptr = q]
<1>3. it \in Iterators /\ it.ptr = q
  BY <1>1, <1>2 DEF Iterators, Pointers
<1>4. it # Lost
  BY <1>3, ListAssumption DEF Iterators, Pointers
<1>5. cursor' = [cursor EXCEPT ![i] = it]
  OBVIOUS
<1> HIDE DEF it
<1>6. ClientTyped' /\ OnlyEndsAreWild'
  BY <1>1, <1>3, <1>5 DEF ClientTyped, ListInv, OnlyEndsAreWild, links
<1>7. CursorsOnNodes'
  BY <1>1, <1>3, <1>5 DEF CursorsOnNodes, ListInv, Usable, links
<1>8. ListInv' /\ Items' = Items
  BY <1>6, <1>7, LinksUnchanged
<1>9. At' = [At EXCEPT ![i] = q]
  BY <1>1, <1>2, <1>3, <1>4, <1>5 DEF At
<1>. QED
  BY <1>8, <1>9 DEF List!Move

LEMMA ForwardStep ==
  ASSUME ListInv, NEW i \in Cursors, Forward(i)
  PROVE  ListInv' /\ List!Forward(i)
<1>1. /\ Idle /\ Usable(i) /\ cursor[i].ptr # Null /\ Follows("++", {cursor[i].ptr})
      /\ cursor' = [cursor EXCEPT ![i].ptr = next[cursor[i].ptr]]
      /\ UNCHANGED <<links, misled, loop>> /\ Alive
  BY IdleAlive DEF Forward, AtNode
<1>2. cursor[i].ptr \in heap /\ At[i] = cursor[i].ptr
  BY <1>1 DEF ListInv, CursorsOnNodes, At, Usable
<1>3. PICK s : LiveChain(s) /\ ChainView(s)
  BY <1>1, EndsOfList
<1>4. /\ Len(s) \in Nat
      /\ \A k \in 1..Len(s) : next[Node(s, k)] = Node(s, k + 1)
      /\ \A k \in Int : Node(s, k) \in heap \cup {Null}
      /\ \A d \in heap : \E k \in 1..Len(s) : d = Node(s, k)
  BY <1>3, ChainNodes DEF LiveChain
<1>5. PICK k \in 1..Len(s) : cursor[i].ptr = Node(s, k)
  BY <1>2, <1>4
<1>6. /\ next[cursor[i].ptr] = Node(s, k + 1) /\ Node(s, k + 1) \in heap \cup {Null}
      /\ k \in 1..(Len(s) + 1) /\ k + 1 \in 1..(Len(s) + 1)
  BY <1>4, <1>5
<1>7. wild' = wild
  BY <1>1, <1>2 DEF Follows
<1>8. ListInv' /\ List!Move(i, Node(s, k + 1))
  BY <1>1, <1>6, <1>7, StepCursor
<1>9. List!Position(At[i]) = k /\ List!Place(k + 1) = Node(s, k + 1)
  BY <1>2, <1>3, <1>5, <1>6 DEF ChainView
<1>. QED
  BY <1>2, <1>3, <1>8, <1>9 DEF List!Forward, ChainView

LEMMA BackFromNodeStep ==
  ASSUME ListInv, NEW i \in Cursors, BackFromNode(i)
  PROVE  ListInv' /\ List!Back(i)
<1>1. /\ Idle /\ Usable(i) /\ cursor[i].ptr # Null /\ cursor[i].ptr # head
      /\ Follows("--", {cursor[i].ptr})
      /\ cursor' = [cursor EXCEPT ![i].ptr = prev[cursor[i].ptr]]
      /\ UNCHANGED <<links, misled, loop>> /\ Alive
  BY IdleAlive DEF BackFromNode, NotFirst
<1>2. cursor[i].ptr \in heap /\ At[i] = cursor[i].ptr
  BY <1>1 DEF ListInv, CursorsOnNodes, At, Usable
<1>3. PICK s : LiveChain(s) /\ ChainView(s)
  BY <1>1, EndsOfList
<1>4. /\ Len(s) \in Nat
      /\ \A k \in 1..Len(s) : prev[Node(s, k)] = Node(s, k - 1)
      /\ \A k \in Int : Node(s, k) \in heap \cup {Null}
      /\ \A d \in heap : \E k \in 1..Len(s) : d = Node(s, k)
      /\ head = Node(s, 1)
  BY <1>3, ChainNodes DEF LiveChain
<1>5. PICK k \in 1..Len(s) : cursor[i].ptr = Node(s, k)
  BY <1>2, <1>4
<1>6. k # 1 /\ k - 1 \in 1..(Len(s) + 1) /\ k - 1 \in Int /\ k \in 1..(Len(s) + 1)
  BY <1>1, <1>4, <1>5
<1>7. prev[cursor[i].ptr] = Node(s, k - 1) /\ Node(s, k - 1) \in heap \cup {Null}
  BY <1>4, <1>5, <1>6
<1>8. wild' = wild
  BY <1>1, <1>2 DEF Follows
<1>9. ListInv' /\ List!Move(i, Node(s, k - 1))
  BY <1>1, <1>7, <1>8, StepCursor
<1>10. List!Position(At[i]) = k /\ List!Place(k - 1) = Node(s, k - 1)
  BY <1>2, <1>3, <1>5, <1>6 DEF ChainView
<1>11. At[i] \notin {Lost, List!First}
  BY <1>1, <1>2, <1>3, ListAssumption DEF ChainView, ListInv, LinksTyped
<1>. QED
  BY <1>9, <1>10, <1>11 DEF List!Back

(* -- of an end goes to the tail of the list, if it remembers that one;    *)
(* otherwise there is no promise for the cursor any more.                  *)
LEMMA BackFromEndStep ==
  ASSUME ListInv, NEW i \in Cursors, BackFromEnd(i)
  PROVE  ListInv' /\ IF OutdatedEnd(i) THEN List!Lose(i) ELSE List!Back(i)
<1>1. /\ Idle /\ Usable(i) /\ cursor[i].ptr = Null /\ cursor[i].ptr # head
      /\ cursor[i].tail # Null
      /\ cursor' = [cursor EXCEPT ![i].ptr = cursor[i].tail]
      /\ misled' = (IF cursor[i].tail = tail THEN misled ELSE misled \cup {i})
      /\ UNCHANGED <<links, loop, wild>> /\ Alive
  BY IdleAlive DEF BackFromEnd, NotFirst
<1>2. CASE cursor[i].tail = tail
  <2>1. PICK s : LiveChain(s) /\ ChainView(s)
    BY <1>1, EndsOfList
  <2>2. /\ Len(s) \in Nat /\ Len(s) # 0 /\ tail = Node(s, Len(s))
        /\ Node(s, Len(s) + 1) = Null /\ tail \in heap
    <3>1. /\ Len(s) \in Nat /\ tail = Node(s, Len(s)) /\ head = Node(s, 1)
          /\ \A k \in Int : k \notin 1..Len(s) => Node(s, k) = Null
      BY <2>1, ChainNodes DEF LiveChain
    <3>2. tail \in heap
      BY <1>1, <1>2, EndsOfList
    <3>3. Len(s) # 0 /\ Len(s) + 1 \in Int /\ Len(s) + 1 \notin 1..Len(s)
      BY <1>1, <3>1
    <3>. QED
      BY <3>1, <3>2, <3>3
  <2>3. ListInv' /\ List!Move(i, tail)
    BY <1>1, <1>2, <2>2, StepCursor
  <2>4. At[i] = Null
    BY <1>1 DEF At, Usable
  <2>5. /\ Len(s) + 1 \in 1..(Len(s) + 1) /\ Len(s) \in 1..(Len(s) + 1)
        /\ (Len(s) + 1) - 1 = Len(s)
    BY <2>2
  <2>6. List!Position(Null) = Len(s) + 1 /\ List!Place(Len(s)) = tail
    BY <2>1, <2>2, <2>5 DEF ChainView
  <2>7. Null \notin {Lost, List!First}
    BY <1>1, <2>1, ListAssumption DEF ChainView
  <2>8. List!Back(i)
    BY <2>3, <2>4, <2>5, <2>6, <2>7 DEF List!Back
  <2>. QED
    BY <1>2, <2>3, <2>8 DEF OutdatedEnd
<1>3. CASE cursor[i].tail # tail
  <2>1. /\ cursor \in [Cursors -> Iterators \cup {Lost}] /\ misled \in SUBSET Cursors
        /\ loop \in Loops /\ cursor[i] \in Iterators
    BY <1>1 DEF ListInv, ClientTyped, Usable
  <2> DEFINE it == [cursor[i] EXCEPT !.ptr = cursor[i].tail]
  <2>2. it \in Iterators /\ cursor' = [cursor EXCEPT ![i] = it] /\ misled' = misled \cup {i}
    BY <1>1, <1>3, <2>1 DEF Iterators
  <2> HIDE DEF it
  <2>3. ClientTyped' /\ OnlyEndsAreWild'
    BY <1>1, <2>1, <2>2 DEF ClientTyped, ListInv, OnlyEndsAreWild, links
  <2>4. CursorsOnNodes'
    BY <1>1, <2>1, <2>2 DEF CursorsOnNodes, ListInv, Usable, links
  <2>5. ListInv' /\ Items' = Items
    BY <1>1, <2>3, <2>4, LinksUnchanged
  <2>6. At' = [At EXCEPT ![i] = Lost]
    BY <2>1, <2>2 DEF At
  <2>. QED
    BY <1>1, <1>3, <2>5, <2>6 DEF OutdatedEnd, List!Lose, List!Move
<1>. QED
  BY <1>2, <1>3

(* The two operations that are undefined stop the list. *)
LEMMA WildStep ==
  ASSUME ListInv, \/ PopBackOfEmpty
                  \/ \E i \in Cursors : BackFromNowhere(i)
  PROVE  ListInv' /\ UNCHANGED <<Items, At>>
<1>1. /\ Idle /\ UNCHANGED <<links, cursor, misled, loop>>
      /\ wild' = "--end" \/ (wild' = "pop_back" /\ tail = Null)
  BY DEF PopBackOfEmpty, BackFromNowhere, NotFirst
<1>2. tail = Null => heap = {}
  BY <1>1, IdleAlive, EndsOfList
<1>3. ClientTyped' /\ OnlyEndsAreWild' /\ CursorsOnNodes'
  BY <1>1, <1>2
     DEF ListInv, ClientTyped, OnlyEndsAreWild, CursorsOnNodes, Usable, links
<1>. QED
  BY <1>1, <1>3, LinksUnchanged DEF At

(* -- of an end without a tail is only reached with an outdated end.       *)
LEMMA NowhereIsOutdated ==
  ASSUME ListInv, NEW i \in Cursors, BackFromNowhere(i)
  PROVE  OutdatedEnd(i)
<1>1. /\ Idle /\ cursor[i].ptr = Null /\ cursor[i].ptr # head /\ cursor[i].tail = Null
  BY DEF BackFromNowhere, NotFirst
<1>2. tail # Null
  BY <1>1, IdleAlive, EndsOfList
<1>. QED
  BY <1>1, <1>2 DEF OutdatedEnd

-----------------------------------------------------------------------------
ListStep == ListInv' /\ [List!Next]_(List!listVars)

LEMMA InitIsList == Init => ListInv /\ List!Init
<1> SUFFICES ASSUME Init
             PROVE  ListInv /\ List!Init
  OBVIOUS
<1>1. /\ heap = {} /\ head = Null /\ tail = Null /\ size = 0 /\ wild = "no"
      /\ prev = [c \in Cells |-> Null] /\ next = [c \in Cells |-> Null]
      /\ cursor = [i \in Cursors |-> Lost] /\ misled = {} /\ loop = NoLoop
  BY DEF Init
<1>2. LiveChain(<<>>)
  BY <1>1 DEF LiveChain, Chain, Distinct, Node
<1>3. loop.op = "none" /\ loop \in Loops
  BY <1>1 DEF NoLoop, Loops, Pointers
<1>4. LinksTyped /\ ClientTyped /\ OnlyEndsAreWild
  BY <1>1, <1>3 DEF LinksTyped, ClientTyped, OnlyEndsAreWild, Pointers
<1>5. size \in 0..Cardinality(Cells)
  BY <1>1, FS_CardinalityType, ListAssumption
<1>6. CursorsOnNodes /\ PopsInOrder(<<>>) /\ Alive
  BY <1>1, <1>3 DEF CursorsOnNodes, Usable, PopsInOrder, Alive
<1>7. ListInv
  BY <1>2, <1>3, <1>4, <1>5, <1>6 DEF ListInv
<1>8. Items = <<>>
  BY <1>2, <1>6, ItemsAreChain
<1>9. At = [i \in Cursors |-> Lost]
  BY <1>1 DEF At
<1>. QED
  BY <1>7, <1>8, <1>9 DEF List!Init

LEMMA NextIsList == ListInv /\ [Next]_vars => ListStep
<1> SUFFICES ASSUME ListInv, [Next]_vars
             PROVE  ListStep
  OBVIOUS
<1>1. ASSUME NEW c \in Cells, PushFront(c) \/ PushBack(c)
      PROVE  ListStep
  BY <1>1, PushFrontStep, PushBackStep DEF ListStep, List!Next
<1>2. ASSUME NEW i \in Cursors, NEW c \in Cells, PushOne(i, c) \/ AtData(i, c)
      PROVE  ListStep
  BY <1>2, PushOneStep, AtDataStep DEF ListStep, List!Next
<1>3. ASSUME \/ \E i, j \in Cursors : PopSome(i, j)
             \/ PopSomeEnd \/ DestroyStep \/ Destroyed \/ PopBackOfEmpty
             \/ \E i \in Cursors : BackFromNowhere(i)
      PROVE  ListStep
  <2>1. ListInv' /\ UNCHANGED <<Items, At>>
    BY <1>3, PopSomeStarts, PopSomeEnds, DestroyGoesOn, DestroyEnds, WildStep
  <2>. QED
    BY <2>1 DEF ListStep, List!listVars
<1>4. ASSUME Alive, ListInv', NEW c, List!Take(c)
      PROVE  ListStep
  <2>1. c \in Cells
    BY <1>4, EndsOfList DEF List!Take, ListInv, LinksTyped
  <2>. QED
    BY <1>4, <2>1 DEF ListStep, List!Next
<1>5. CASE PopFront
  <2>1. ListInv' /\ List!PopFront /\ Alive
    BY <1>5, PopFrontStep, IdleAlive DEF PopFront
  <2>. QED
    BY <2>1, <1>4 DEF List!PopFront
<1>6. CASE PopBack
  <2>1. ListInv' /\ List!PopBack /\ Alive
    BY <1>6, PopBackStep, IdleAlive DEF PopBack
  <2>. QED
    BY <2>1, <1>4 DEF List!PopBack
<1>7. ASSUME NEW i \in Cursors, PopOne(i)
      PROVE  ListStep
  <2>1. ListInv' /\ List!PopOne(i) /\ Alive
    BY <1>7, PopOneStep, IdleAlive DEF PopOne
  <2>. QED
    BY <2>1, <1>4 DEF List!PopOne
<1>8. CASE PopSomeStep
  <2>1. ListInv' /\ List!Take(loop.iter) /\ Alive
    BY <1>8, PopSomeGoesOn DEF PopSomeStep, Alive
  <2>. QED
    BY <2>1, <1>4
<1>9. CASE Destroy
  BY <1>9, DestroyStarts DEF ListStep, List!Next
<1>10. ASSUME NEW i \in Cursors,
              Begin(i) \/ End(i) \/ Forward(i) \/ BackFromNode(i) \/ BackFromEnd(i)
       PROVE  ListStep
  <2>1. /\ ListInv'
        /\ List!Begin(i) \/ List!End(i) \/ List!Forward(i) \/ List!Back(i) \/ List!Lose(i)
    BY <1>10, BeginStep, EndStep, ForwardStep, BackFromNodeStep, BackFromEndStep
  <2>. QED
    BY <2>1 DEF ListStep, List!Next
<1>11. CASE UNCHANGED vars
  <2>1. UNCHANGED <<heap, prev, next, head, tail, size, cursor, misled, loop, wild>>
    BY <1>11 DEF vars, links
  <2>2. ListInv'
    BY <2>1 DEF ListInv, LinksTyped, ClientTyped, OnlyEndsAreWild, CursorsOnNodes, Usable,
                Alive, LiveChain, Chain, PopsInOrder
  <2>3. UNCHANGED <<Items, At>>
    BY <2>1 DEF Items, At, Walk
  <2>. QED
    BY <2>2, <2>3 DEF ListStep, List!listVars
<1>. QED
  BY <1>1, <1>2, <1>3, <1>5, <1>6, <1>7, <1>8, <1>9, <1>10, <1>11 DEF Next, Back

LEMMA ListInvariant == Spec => []ListInv
<1>1. Init => ListInv
  BY InitIsList
<1>2. ListInv /\ [Next]_vars => ListInv'
  BY NextIsList DEF ListStep
<1>. QED
  BY <1>1, <1>2, PTL DEF Spec

(* The variables have their types; m_size does not exceed the memory.      *)
THEOREM TypeCorrect == Spec => []TypeOK
<1>1. ListInv => TypeOK
  BY ListInvImplies
<1>. QED
  BY <1>1, ListInvariant, PTL

(* push_one and pop_one keep prev and next inverse to each other, head and *)
(* tail at the ends, and m_size the number of the nodes.                   *)
THEOREM LinksAlwaysAgree == Spec => []LinksAgree
<1>1. ListInv => LinksAgree
  BY ListInvImplies
<1>. QED
  BY <1>1, ListInvariant, PTL

(* begin() and ++ reach every allocated node, and the destructor leaves    *)
(* none.                                                                   *)
THEOREM NothingEverLeaks == Spec => []NothingLeaks
<1>1. ListInv => NothingLeaks
  BY ListInvImplies
<1>. QED
  BY <1>1, ListInvariant, PTL

(* No operation follows a pointer to a node that is gone, pop_back of an   *)
(* empty list and -- of some ends excepted.                                *)
THEOREM OnlyEndsAreEverWild == Spec => []OnlyEndsAreWild
<1>1. ListInv => OnlyEndsAreWild
  BY ListInvImplies
<1>. QED
  BY <1>1, ListInvariant, PTL

(* traceable_list is a list with stable iterators: Items and At map its    *)
(* behaviours to behaviours of IterableList.                               *)
THEOREM ListIsIterable == Spec => ImplementsList
<1>1. Init => List!Init
  BY InitIsList
<1>2. ListInv /\ [Next]_vars => [List!Next]_(List!listVars)
  BY NextIsList DEF ListStep
<1>. QED
  BY <1>1, <1>2, ListInvariant, PTL DEF Spec, ImplementsList, List!Spec

(* Each operation does what the operation of its name promises, -- of an   *)
(* outdated end excepted.                                                  *)
THEOREM OperationsKeepPromises == Spec => OperationsAgree
<1> DEFINE Agree ==
  /\ \A c \in Cells :
       /\ PushFront(c) => List!PushFront(c)
       /\ PushBack(c) => List!PushBack(c)
       /\ \A i \in Cursors : PushOne(i, c) => List!PushOne(i, c)
  /\ PopFront => List!PopFront
  /\ PopBack => List!PopBack
  /\ PopSomeStep => List!Take(loop.iter)
  /\ \A i \in Cursors :
       /\ PopOne(i) => List!PopOne(i)
       /\ Begin(i) => List!Begin(i)
       /\ End(i) => List!End(i)
       /\ Forward(i) => List!Forward(i)
       /\ Back(i) /\ ~OutdatedEnd(i) => List!Back(i)
<1>1. ListInv => Agree
  <2> SUFFICES ASSUME ListInv PROVE Agree
    OBVIOUS
  <2>1. ASSUME NEW c \in Cells
        PROVE  /\ PushFront(c) => List!PushFront(c)
               /\ PushBack(c) => List!PushBack(c)
               /\ \A i \in Cursors : PushOne(i, c) => List!PushOne(i, c)
    BY PushFrontStep, PushBackStep, PushOneStep
  <2>2. /\ PopFront => List!PopFront
        /\ PopBack => List!PopBack
        /\ PopSomeStep => List!Take(loop.iter)
    BY PopFrontStep, PopBackStep, PopSomeGoesOn
  <2>3. ASSUME NEW i \in Cursors
        PROVE  /\ PopOne(i) => List!PopOne(i)
               /\ Begin(i) => List!Begin(i)
               /\ End(i) => List!End(i)
               /\ Forward(i) => List!Forward(i)
    BY PopOneStep, BeginStep, EndStep, ForwardStep
  <2>4. ASSUME NEW i \in Cursors, Back(i), ~OutdatedEnd(i)
        PROVE  List!Back(i)
    BY <2>4, BackFromNodeStep, BackFromEndStep, NowhereIsOutdated DEF Back
  <2>. QED
    BY <2>1, <2>2, <2>3, <2>4
<1>2. ListInv => [Agree]_vars
  BY <1>1
<1>. QED
  BY <1>2, ListInvariant, PTL DEF OperationsAgree
=============================================================================
