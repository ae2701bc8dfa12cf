-------------------------- MODULE PageTableProofs --------------------------
(***************************************************************************)
(* Proofs about PageTable, for any number and size of levels, any width of *)
(* a word and any number of frames.                                        *)
(***************************************************************************)
EXTENDS PageTable, WellFoundedInduction, TLAPS

(***************************************************************************)
(* Induction over the levels                                               *)
(***************************************************************************)
LEMMA LeastElement ==
    ASSUME NEW S, S \subseteq Nat, S # {}
    PROVE  \E x \in S : \A y \in S : x <= y
<1>1. PICK x \in S : \A y \in S : ~ (<<y, x>> \in OpToRel(<, Nat))
  BY NatLessThanWellFounded, WFMin
<1>2. \A y \in S : ~ (y < x)
  BY <1>1 DEF OpToRel
<1> QED
  BY <1>2

LEMMA Induction ==
    ASSUME NEW n \in Nat, NEW m \in Nat, NEW S, n \in S,
           \A l \in n .. m - 1 : l \in S => l + 1 \in S
    PROVE  \A l \in n .. m : l \in S
<1> SUFFICES ASSUME (n .. m) \ S # {} PROVE FALSE
  OBVIOUS
<1>1. PICK x \in (n .. m) \ S : \A y \in (n .. m) \ S : x <= y
  <2>1. (n .. m) \ S \subseteq Nat
    OBVIOUS
  <2> QED
    BY <2>1, LeastElement
<1>2. x - 1 \in n .. m - 1 /\ x - 1 \in S
  BY <1>1
<1> QED
  BY <1>1, <1>2

LEMMA Greatest ==
    ASSUME NEW m \in Nat, NEW S, S \subseteq 1 .. m, S # {}
    PROVE  Max(S) \in S /\ \A y \in S : y <= Max(S)
<1>1. PICK T : T = {m - y : y \in S}
  OBVIOUS
<1>2. T \subseteq Nat /\ T # {}
  <2>1. \A y \in S : y \in Nat /\ m - y \in Nat
    OBVIOUS
  <2> QED
    BY <1>1, <2>1
<1>3. PICK x \in T : \A y \in T : x <= y
  BY <1>2, LeastElement
<1>4. PICK z \in S : x = m - z
  BY <1>1, <1>3
<1>5. ASSUME NEW y \in S PROVE z >= y
  <2>1. m - y \in T
    BY <1>1
  <2> QED
    BY <1>3, <1>4, <2>1
<1> QED
  BY <1>5 DEF Max

(***************************************************************************)
(* The words of a table                                                    *)
(***************************************************************************)
LEMMA Product ==
    ASSUME NEW a \in Nat, NEW b \in Nat
    PROVE  a * b \in Nat
OBVIOUS

LEMMA Shifted ==
    ASSUME NEW H \in Nat \ {0}, NEW F \in Nat \ {0}, NEW S, NEW W, S = 2 * H, W = S * F,
           NEW p \in 0 .. F - 1
    PROVE  /\ (p * S + 1) % W = p * S + 1
           /\ (p * S + 1) \div S = p
           /\ (p * S + 1) % 2 = 1
<1>1. p * S \in Nat /\ S \in Nat /\ S >= 2 /\ W \in Nat
  OBVIOUS
<1>2. (p + 1) * S <= F * S
  OBVIOUS
<1>3. p * S + 1 < W
  BY <1>1, <1>2
<1>4. (p * S + 1) % W = p * S + 1
  BY <1>1, <1>3
<1>5. (p * S + 1) \div S = p
  BY <1>1
<1>6. p * S = 2 * (p * H) /\ p * H \in Nat
  OBVIOUS
<1>7. (p * S + 1) % 2 = 1
  BY <1>6
<1> QED
  BY <1>4, <1>5, <1>7

\* frame() undoes pte() for the numbers of frames, and zero is not valid.
LEMMA Word ==
    ASSUME NEW p \in 0 .. 2^(WORD - SHIFT) - 1
    PROVE  pte(p) \in Nat /\ frame(pte(p)) = p /\ valid(pte(p))
<1>1. PICK H \in Nat \ {0} : H = 2^(SHIFT - 1)
  BY PowerAssumption
<1>2. PICK F \in Nat \ {0} : F = 2^(WORD - SHIFT)
  BY PowerAssumption
<1>3. 2^SHIFT = 2 * H /\ 2^WORD = 2^SHIFT * F /\ p \in 0 .. F - 1
  BY <1>1, <1>2, PowerAssumption
<1>4. 2^SHIFT \in Nat /\ p * 2^SHIFT + 1 \in Nat
  BY <1>3
<1> QED
  BY <1>1, <1>2, <1>3, <1>4, Shifted DEF pte, frame, valid

LEMMA ZeroWord == ~valid(0)
BY DEF valid

LEMMA FrameNumber ==
    ASSUME NEW w \in Nat
    PROVE  frame(w) \in Nat
<1>1. 2^SHIFT \in Nat \ {0}
  BY PowerAssumption
<1> QED
  BY <1>1 DEF frame

(***************************************************************************)
(* The digits of a virtual page number                                     *)
(***************************************************************************)
\* The weight of the digit of a level.
Weight(l) == 2^((LEVELS - l) * BITS)

LEMMA Weights ==
    /\ LEVELS \in Nat \ {0} /\ BITS \in Nat \ {0} /\ 2^BITS \in Nat \ {0}
    /\ \A l \in 0 .. LEVELS : Weight(l) \in Nat \ {0}
    /\ \A l \in 1 .. LEVELS : Weight(l - 1) = 2^BITS * Weight(l)
    /\ Weight(LEVELS) = 1
    /\ VPN = 0 .. Weight(0) - 1
<1>1. LEVELS \in Nat \ {0} /\ BITS \in Nat \ {0} /\ 2^BITS \in Nat \ {0}
  BY PageTableAssumption, PowerAssumption
<1>2. ASSUME NEW l \in 0 .. LEVELS PROVE Weight(l) \in Nat \ {0}
  <2>1. LEVELS - l \in 0 .. LEVELS
    BY <1>1
  <2> QED
    BY <2>1, PowerAssumption DEF Weight
<1>3. ASSUME NEW l \in 1 .. LEVELS PROVE Weight(l - 1) = 2^BITS * Weight(l)
  <2>1. PICK k \in 1 .. LEVELS : k = LEVELS - (l - 1) /\ k - 1 = LEVELS - l
    BY <1>1
  <2>2. 2^(k * BITS) = 2^BITS * 2^((k - 1) * BITS)
    BY <2>1, PowerAssumption
  <2> QED
    BY <2>1, <2>2 DEF Weight
<1>4. Weight(LEVELS) = 1
  <2>1. (LEVELS - LEVELS) * BITS = 0
    BY <1>1
  <2> QED
    BY <2>1, PowerAssumption DEF Weight
<1>5. VPN = 0 .. Weight(0) - 1
  <2>1. (LEVELS - 0) * BITS = BITS * LEVELS
    BY <1>1
  <2> QED
    BY <2>1 DEF VPN, Weight
<1> QED
  BY <1>1, <1>2, <1>3, <1>4, <1>5

LEMMA IndexRange ==
    ASSUME NEW v \in VPN, NEW l \in 1 .. LEVELS
    PROVE  index(v, l) \in INDEX
<1>1. PICK d \in Nat \ {0} : d = Weight(l)
  BY Weights
<1>2. PICK b \in Nat \ {0} : b = 2^BITS
  BY Weights
<1>3. v \in Nat
  BY Weights
<1>4. (v \div d) \in Nat
  BY <1>1, <1>3
<1> QED
  BY <1>1, <1>2, <1>4 DEF index, INDEX, Weight

LEMMA Digit ==
    ASSUME NEW v \in Nat, NEW d \in Nat \ {0}, NEW b \in Nat \ {0}
    PROVE  v \div d = (b * (v \div (b * d))) + ((v \div d) % b)
<1>1. PICK x \in Nat : x = v \div d
  OBVIOUS
<1>2. PICK q \in Nat : q = x \div b
  OBVIOUS
<1>3. b * q <= x /\ x < b * q + b
  BY <1>2
<1>4. d * x <= v /\ v < d * x + d
  BY <1>1
<1>5. b * d \in Nat \ {0}
  OBVIOUS
<1>6. (b * d) * q <= v
  <2>1. d * (b * q) <= d * x
    BY <1>3
  <2> QED
    BY <1>4, <2>1
<1>7. v < (b * d) * q + b * d
  <2>1. x + 1 <= b * q + b
    BY <1>3
  <2>2. d * (x + 1) <= d * (b * q + b)
    BY <2>1
  <2> QED
    BY <1>4, <2>2
<1>8. v \div (b * d) = q
  <2>1. PICK c \in Nat \ {0} : c = b * d
    BY <1>5
  <2>2. c * q <= v /\ v < c * q + c
    BY <1>6, <1>7, <2>1
  <2>3. v \div c = q
    BY <2>2
  <2> QED
    BY <2>1, <2>3
<1>9. x % b = x - b * q /\ b * q \in Nat
  BY <1>2
<1>10. x = (b * q) + (x % b)
  BY <1>9
<1> QED
  BY <1>1, <1>8, <1>10

\* A virtual page number is determined by its indices.
LEMMA SameDigits ==
    ASSUME NEW u \in VPN, NEW v \in VPN, \A l \in 1 .. LEVELS : index(u, l) = index(v, l)
    PROVE  u = v
<1> DEFINE S == {l \in 0 .. LEVELS : u \div Weight(l) = v \div Weight(l)}
<1>1. u \in Nat /\ v \in Nat
  BY Weights
<1>2. 0 \in S
  <2>1. PICK d \in Nat \ {0} : d = Weight(0)
    BY Weights
  <2>2. u < d /\ v < d
    BY <2>1, Weights
  <2>3. u \div d = 0 /\ v \div d = 0
    BY <1>1, <2>2
  <2> QED
    BY <2>1, <2>3, Weights
<1>3. ASSUME NEW l \in 0 .. LEVELS - 1, l \in S PROVE l + 1 \in S
  <2>1. l + 1 \in 1 .. LEVELS
    BY Weights
  <2>2. PICK d \in Nat \ {0} : d = Weight(l + 1)
    BY <2>1, Weights
  <2>3. PICK b \in Nat \ {0} : b = 2^BITS
    BY Weights
  <2>4. Weight(l) = b * d
    BY <2>1, <2>2, <2>3, Weights
  <2>5. (u \div d) % b = (v \div d) % b
    BY <2>1, <2>2, <2>3 DEF index, Weight
  <2>6. u \div (b * d) = v \div (b * d)
    BY <1>3, <2>4
  <2>7. u \div d = v \div d
    <3>1. u \div d = (b * (u \div (b * d))) + ((u \div d) % b)
      BY <1>1, Digit
    <3>2. v \div d = (b * (v \div (b * d))) + ((v \div d) % b)
      BY <1>1, Digit
    <3> QED
      BY <2>5, <2>6, <3>1, <3>2, Zenon
  <2> QED
    BY <2>1, <2>2, <2>7
<1>4. LEVELS \in S
  <2>1. LEVELS \in Nat /\ 0 \in Nat /\ LEVELS \in 0 .. LEVELS
    BY Weights
  <2> HIDE DEF S
  <2> QED
    BY <1>2, <1>3, <2>1, Induction
<1>5. u \div 1 = v \div 1
  BY <1>4, Weights
<1> QED
  BY <1>1, <1>5

-----------------------------------------------------------------------------
(***************************************************************************)
(* Walks                                                                   *)
(***************************************************************************)
\* Where the entry i of a table leads.
Follow(m, t, i) ==
    LET w == IF t = Nil THEN 0 ELSE m[t][i]
    IN  IF valid(w) THEN frame(w) ELSE Nil

IsWalk(m, t, pt, v, n) ==
    t = [l \in 1 .. n |-> IF l = 1 THEN pt ELSE Follow(m, t[l - 1], index(v, l - 1))]

\* The walk in memory m.
Walk(m, pt, v) == CHOOSE t : IsWalk(m, t, pt, v, LEVELS)

LEMMA WalkIsWalk ==
    ASSUME NEW pt, NEW v
    PROVE  walk(pt, v) = Walk(pages, pt, v) /\ walk(pt, v)' = Walk(pages', pt, v)
<1>1. walk(pt, v) = Walk(pages, pt, v)
  BY DEF walk, Walk, IsWalk, Follow
<1>2. walk(pt, v)' = Walk(pages', pt, v)
  BY DEF walk, Walk, IsWalk, Follow
<1> QED
  BY <1>1, <1>2

LEMMA WalkExists ==
    ASSUME NEW m, NEW pt, NEW v
    PROVE  IsWalk(m, Walk(m, pt, v), pt, v, LEVELS)
<1> DEFINE S == {n \in 1 .. LEVELS : \E t : IsWalk(m, t, pt, v, n)}
<1>1. 1 \in S
  <2> DEFINE t == [l \in 1 .. 1 |-> pt]
  <2>1. IsWalk(m, t, pt, v, 1)
    BY DEF IsWalk
  <2> QED
    BY <2>1, Weights
<1>2. ASSUME NEW n \in 1 .. LEVELS - 1, n \in S PROVE n + 1 \in S
  <2>1. PICK t : IsWalk(m, t, pt, v, n)
    BY <1>2
  <2>2. PICK s : s = [l \in 1 .. n + 1 |->
                         IF l = 1 THEN pt ELSE Follow(m, t[l - 1], index(v, l - 1))]
    OBVIOUS
  <2>3. \A l \in 1 .. n : s[l] = t[l]
    BY <2>1, <2>2 DEF IsWalk
  <2>4. \A l \in 1 .. n + 1 : l # 1 => s[l - 1] = t[l - 1]
    BY <2>3
  <2>5. s = [l \in 1 .. n + 1 |-> IF l = 1 THEN pt ELSE Follow(m, s[l - 1], index(v, l - 1))]
    BY <2>2, <2>4
  <2>6. IsWalk(m, s, pt, v, n + 1)
    BY <2>5 DEF IsWalk
  <2> QED
    BY <2>6, Weights
<1>3. LEVELS \in S
  <2>1. LEVELS \in Nat /\ 1 \in Nat /\ LEVELS \in 1 .. LEVELS
    BY Weights
  <2> HIDE DEF S
  <2> QED
    BY <1>1, <1>2, <2>1, Induction
<1>4. PICK t : IsWalk(m, t, pt, v, LEVELS)
  BY <1>3
<1> QED
  BY <1>4 DEF Walk

\* The loop of page_table_query() and page_table_update().
LEMMA WalkSteps ==
    ASSUME NEW m, NEW pt, NEW v
    PROVE  /\ Walk(m, pt, v)[1] = pt
           /\ \A l \in 1 .. LEVELS - 1 :
                  Walk(m, pt, v)[l + 1] = Follow(m, Walk(m, pt, v)[l], index(v, l))
<1>1. PICK t : t = Walk(m, pt, v)
  OBVIOUS
<1>2. t = [l \in 1 .. LEVELS |-> IF l = 1 THEN pt ELSE Follow(m, t[l - 1], index(v, l - 1))]
  BY <1>1, WalkExists DEF IsWalk
<1>3. 1 \in 1 .. LEVELS /\ \A l \in 1 .. LEVELS - 1 : l + 1 \in 1 .. LEVELS /\ l + 1 # 1 /\ l + 1 - 1 = l
  BY Weights
<1>4. t[1] = pt
  BY <1>2, <1>3
<1>5. ASSUME NEW l \in 1 .. LEVELS - 1 PROVE t[l + 1] = Follow(m, t[l], index(v, l))
  <2>1. PICK k \in 1 .. LEVELS : k = l + 1 /\ k # 1 /\ k - 1 = l
    BY <1>3
  <2>2. t[k] = Follow(m, t[k - 1], index(v, k - 1))
    BY <1>2, <2>1
  <2> QED
    BY <2>1, <2>2
<1> QED
  BY <1>1, <1>4, <1>5

LEMMA FollowNil ==
    ASSUME NEW m, NEW i
    PROVE  Follow(m, Nil, i) = Nil
BY ZeroWord DEF Follow

\* Below an entry that is not valid there is nothing.
LEMMA NilBelow ==
    ASSUME NEW m, NEW pt, NEW v, NEW k \in 1 .. LEVELS, Walk(m, pt, v)[k] = Nil,
           NEW l \in k .. LEVELS
    PROVE  Walk(m, pt, v)[l] = Nil
<1> DEFINE S == {n \in 1 .. LEVELS : Walk(m, pt, v)[n] = Nil}
<1>1. ASSUME NEW n \in k .. LEVELS - 1, n \in S PROVE n + 1 \in S
  <2>1. n \in 1 .. LEVELS - 1 /\ n + 1 \in 1 .. LEVELS
    BY Weights
  <2> QED
    BY <1>1, <2>1, WalkSteps, FollowNil
<1>2. k \in Nat /\ LEVELS \in Nat /\ k \in S
  BY Weights
<1>3. l \in S
  <2> HIDE DEF S
  <2> QED
    BY <1>1, <1>2, Induction
<1> QED
  BY <1>3

Prefix(u, v, l) == \A j \in 1 .. l - 1 : index(u, j) = index(v, j)

LEMMA PrefixNext ==
    ASSUME NEW u, NEW v, NEW l \in Nat \ {0}
    PROVE  Prefix(u, v, l + 1) <=> Prefix(u, v, l) /\ index(u, l) = index(v, l)
BY DEF Prefix

\* Two walks are the same as long as the indices are.
LEMMA PrefixWalk ==
    ASSUME NEW m, NEW pt, NEW u, NEW v, NEW l \in 1 .. LEVELS, Prefix(u, v, l)
    PROVE  Walk(m, pt, u)[l] = Walk(m, pt, v)[l]
<1> DEFINE S == {n \in 1 .. l : Walk(m, pt, u)[n] = Walk(m, pt, v)[n]}
<1>1. 1 \in S /\ l \in Nat
  <2>1. l \in Nat /\ 1 \in 1 .. l
    BY Weights
  <2> QED
    BY <2>1, WalkSteps
<1>2. ASSUME NEW n \in 1 .. l - 1, n \in S PROVE n + 1 \in S
  <2>1. n \in 1 .. LEVELS - 1 /\ index(u, n) = index(v, n) /\ n + 1 \in 1 .. l
    BY Weights DEF Prefix
  <2> QED
    BY <1>2, <2>1, WalkSteps
<1>3. l \in S
  <2> HIDE DEF S
  <2> QED
    BY <1>1, <1>2, Induction
<1> QED
  BY <1>3

-----------------------------------------------------------------------------
(***************************************************************************)
(* Memory and the invariants                                               *)
(***************************************************************************)
MemType ==
    /\ nalloc \in 0 .. NPAGES /\ pages \in [0 .. nalloc - 1 -> [INDEX -> Nat]]
    /\ roots \subseteq 0 .. nalloc - 1 /\ exited \in BOOLEAN

\* The two invariants, of the tables r of a memory m with n frames.
Stays(m, r, n) ==
    \A pt \in r, v \in VPN, l \in 1 .. LEVELS : Walk(m, pt, v)[l] \in {Nil} \cup 0 .. n - 1

Trees(m, r) ==
    \A p, q \in r, u, v \in VPN, l, k \in 1 .. LEVELS :
        Walk(m, p, u)[l] # Nil /\ Walk(m, p, u)[l] = Walk(m, q, v)[k] =>
            p = q /\ l = k /\ Prefix(u, v, l)

IInv == MemType /\ Stays(pages, roots, nalloc) /\ Trees(pages, roots)

LEMMA SomePages == NPAGES \in Nat /\ NPAGES <= 2^(WORD - SHIFT)
BY PageTableAssumption

LEMMA StaysIs == WalksStayInMemory <=> Stays(pages, roots, nalloc)
BY WalkIsWalk DEF WalksStayInMemory, Stays

LEMMA TreesIs == TablesAreTrees <=> Trees(pages, roots)
BY WalkIsWalk DEF TablesAreTrees, Trees, Prefix

\* What a query returns.
Answer(m, pt, v) ==
    LET t == Follow(m, Walk(m, pt, v)[LEVELS], index(v, LEVELS))
    IN  IF t = Nil THEN NO_MAPPING ELSE t

LEMMA FollowNat ==
    ASSUME NEW n \in Nat, NEW m \in [0 .. n - 1 -> [INDEX -> Nat]],
           NEW t \in {Nil} \cup 0 .. n - 1, NEW i \in INDEX
    PROVE  LET w == IF t = Nil THEN 0 ELSE m[t][i]
           IN  w \in Nat /\ frame(w) # Nil
<1>1. (IF t = Nil THEN 0 ELSE m[t][i]) \in Nat
  OBVIOUS
<1> QED
  BY <1>1, FrameNumber DEF Nil

LEMMA AnswerIs ==
    ASSUME NEW n \in Nat, NEW m \in [0 .. n - 1 -> [INDEX -> Nat]], NEW r,
           Stays(m, r, n), NEW pt \in r, NEW v \in VPN
    PROVE  LET t == Walk(m, pt, v)[LEVELS]
               w == IF t = Nil THEN 0 ELSE m[t][index(v, LEVELS)]
           IN  Answer(m, pt, v) = IF valid(w) THEN frame(w) ELSE NO_MAPPING
<1>1. LEVELS \in 1 .. LEVELS
  BY Weights
<1>2. Walk(m, pt, v)[LEVELS] \in {Nil} \cup 0 .. n - 1 /\ index(v, LEVELS) \in INDEX
  BY <1>1, IndexRange DEF Stays
<1> QED
  BY <1>2, FollowNat DEF Answer, Follow

LEMMA QueryIs ==
    ASSUME IInv, NEW pt \in roots, NEW v \in VPN
    PROVE  page_table_query(pt, v) = Answer(pages, pt, v)
<1>1. nalloc \in Nat /\ pages \in [0 .. nalloc - 1 -> [INDEX -> Nat]]
  BY SomePages DEF IInv, MemType
<1> QED
  BY <1>1, AnswerIs, WalkIsWalk DEF IInv, page_table_query

LEMMA QueryPrimed ==
    ASSUME IInv', NEW pt \in roots', NEW v \in VPN
    PROVE  page_table_query(pt, v)' = Answer(pages', pt, v)
<1>1. nalloc' \in Nat /\ pages' \in [0 .. nalloc' - 1 -> [INDEX -> Nat]]
  <2>1. MemType'
    BY DEF IInv
  <2>2. nalloc' \in 0 .. NPAGES
    BY <2>1 DEF MemType
  <2>3. pages' \in [0 .. nalloc' - 1 -> [INDEX -> Nat]]
    BY <2>1 DEF MemType
  <2>4. nalloc' \in Nat
    BY <2>2, SomePages
  <2> QED
    BY <2>3, <2>4
<1>2. Stays(pages', roots', nalloc')
  BY DEF IInv, Stays
<1> QED
  BY <1>1, <1>2, AnswerIs, WalkIsWalk DEF page_table_query

LEMMA InitIInv == Init => IInv
<1> SUFFICES ASSUME Init PROVE IInv
  OBVIOUS
<1>1. pages \in [0 .. nalloc - 1 -> [INDEX -> Nat]]
  <2>1. 0 .. nalloc - 1 = {}
    BY DEF Init
  <2> QED
    BY <2>1 DEF Init
<1>2. MemType
  <2>1. nalloc \in 0 .. NPAGES
    BY SomePages DEF Init
  <2>2. roots \subseteq 0 .. nalloc - 1
    BY DEF Init
  <2>3. exited \in BOOLEAN
    BY DEF Init
  <2> QED
    BY <1>1, <2>1, <2>2, <2>3 DEF MemType
<1> QED
  BY <1>2 DEF Init, IInv, Stays, Trees

LEMMA FollowSame ==
    ASSUME NEW m, NEW k, NEW t, NEW i, t = Nil \/ k[t][i] = m[t][i]
    PROVE  Follow(k, t, i) = Follow(m, t, i)
BY DEF Follow

\* A walk whose entries are not changed.
LEMMA SameWalk ==
    ASSUME NEW m, NEW k, NEW pt, NEW v,
           \A l \in 1 .. LEVELS - 1 : Follow(k, Walk(m, pt, v)[l], index(v, l))
                                      = Follow(m, Walk(m, pt, v)[l], index(v, l))
    PROVE  \A l \in 1 .. LEVELS : Walk(k, pt, v)[l] = Walk(m, pt, v)[l]
<1> DEFINE S == {l \in 1 .. LEVELS : Walk(k, pt, v)[l] = Walk(m, pt, v)[l]}
<1>1. 1 \in S /\ LEVELS \in Nat
  BY WalkSteps, Weights
<1>2. ASSUME NEW l \in 1 .. LEVELS - 1, l \in S PROVE l + 1 \in S
  <2>1. l + 1 \in 1 .. LEVELS
    BY Weights
  <2>2. Walk(k, pt, v)[l + 1] = Follow(k, Walk(k, pt, v)[l], index(v, l))
    BY WalkSteps
  <2>3. Walk(m, pt, v)[l + 1] = Follow(m, Walk(m, pt, v)[l], index(v, l))
    BY WalkSteps
  <2> QED
    BY <1>2, <2>1, <2>2, <2>3
<1>3. \A l \in 1 .. LEVELS : l \in S
  <2> HIDE DEF S
  <2> QED
    BY <1>1, <1>2, Induction
<1> QED
  BY <1>3

LEMMA SameAnswer ==
    ASSUME NEW m, NEW k, NEW pt, NEW v, Walk(k, pt, v)[LEVELS] = Walk(m, pt, v)[LEVELS],
           Follow(k, Walk(m, pt, v)[LEVELS], index(v, LEVELS))
           = Follow(m, Walk(m, pt, v)[LEVELS], index(v, LEVELS))
    PROVE  Answer(k, pt, v) = Answer(m, pt, v)
BY DEF Answer

LEMMA InMemory ==
    ASSUME IInv, NEW pt \in roots, NEW v \in VPN, NEW l \in 1 .. LEVELS
    PROVE  Walk(pages, pt, v)[l] = Nil \/ Walk(pages, pt, v)[l] \in 0 .. nalloc - 1
BY DEF IInv, Stays

LEMMA OneTree ==
    ASSUME IInv, NEW p \in roots, NEW q \in roots, NEW u \in VPN, NEW v \in VPN,
           NEW l \in 1 .. LEVELS, NEW k \in 1 .. LEVELS, Walk(pages, p, u)[l] # Nil,
           Walk(pages, p, u)[l] = Walk(pages, q, v)[k]
    PROVE  p = q /\ l = k /\ Prefix(u, v, l)
BY DEF IInv, Trees

-----------------------------------------------------------------------------
(***************************************************************************)
(* A new table                                                             *)
(***************************************************************************)
LEMMA NewMemory ==
    ASSUME IInv, NewTable
    PROVE  /\ MemType' /\ nalloc \in Nat
           /\ \A p \in 0 .. nalloc - 1 : pages'[p] = pages[p]
           /\ \A i \in INDEX : pages'[nalloc][i] = 0
           /\ roots' = roots \cup {nalloc} /\ nalloc \notin roots
<1>1. nalloc \in Nat /\ nalloc + 1 <= NPAGES /\ pages \in [0 .. nalloc - 1 -> [INDEX -> Nat]]
      /\ roots \subseteq 0 .. nalloc - 1
  BY SomePages DEF IInv, MemType, NewTable
<1>2. pages' = [p \in 0 .. nalloc |-> Contents(p)] /\ nalloc' = nalloc + 1
      /\ roots' = roots \cup {nalloc}
  BY DEF NewTable
<1>3. \A p \in 0 .. nalloc - 1 : Contents(p) = pages[p] /\ p \in 0 .. nalloc
  BY <1>1 DEF Contents
<1>4. Contents(nalloc) = Zeros /\ nalloc \in 0 .. nalloc
  BY <1>1 DEF Contents
<1>5. Zeros \in [INDEX -> Nat] /\ \A i \in INDEX : Zeros[i] = 0
  BY DEF Zeros
<1>6. \A p \in 0 .. nalloc - 1 : pages'[p] = pages[p]
  BY <1>2, <1>3
<1>7. pages'[nalloc] = Zeros
  BY <1>2, <1>4
<1>8. pages' \in [0 .. nalloc -> [INDEX -> Nat]]
  <2>1. \A p \in 0 .. nalloc : p \in 0 .. nalloc - 1 \/ p = nalloc
    BY <1>1
  <2>2. \A p \in 0 .. nalloc : Contents(p) \in [INDEX -> Nat]
    BY <1>1, <1>3, <1>4, <1>5, <2>1
  <2> QED
    BY <1>2, <2>2
<1>9. MemType'
  <2>1. nalloc' - 1 = nalloc /\ nalloc' \in 0 .. NPAGES
    BY <1>1, <1>2, SomePages
  <2>2. roots' \subseteq 0 .. nalloc
    BY <1>1, <1>2
  <2>3. exited' \in BOOLEAN
    BY DEF IInv, MemType, NewTable
  <2> QED
    BY <1>8, <2>1, <2>2, <2>3 DEF MemType
<1>10. nalloc \notin roots /\ \A i \in INDEX : pages'[nalloc][i] = 0
  BY <1>1, <1>5, <1>7
<1> QED
  BY <1>1, <1>2, <1>6, <1>9, <1>10

LEMMA NewWalks ==
    ASSUME IInv, NewTable, NEW v \in VPN
    PROVE  /\ \A pt \in roots : /\ \A l \in 1 .. LEVELS : Walk(pages', pt, v)[l] = Walk(pages, pt, v)[l]
                                /\ Answer(pages', pt, v) = Answer(pages, pt, v)
           /\ Walk(pages', nalloc, v)[1] = nalloc
           /\ \A l \in 2 .. LEVELS : Walk(pages', nalloc, v)[l] = Nil
           /\ Answer(pages', nalloc, v) = NO_MAPPING
<1> USE NewMemory
<1>1. ASSUME NEW pt \in roots
      PROVE  /\ \A l \in 1 .. LEVELS : Walk(pages', pt, v)[l] = Walk(pages, pt, v)[l]
             /\ Answer(pages', pt, v) = Answer(pages, pt, v)
  <2>1. ASSUME NEW l \in 1 .. LEVELS
        PROVE  Follow(pages', Walk(pages, pt, v)[l], index(v, l))
               = Follow(pages, Walk(pages, pt, v)[l], index(v, l))
    BY InMemory, FollowSame
  <2>2. LEVELS \in 1 .. LEVELS /\ \A l \in 1 .. LEVELS - 1 : l \in 1 .. LEVELS
    BY Weights
  <2>3. \A l \in 1 .. LEVELS : Walk(pages', pt, v)[l] = Walk(pages, pt, v)[l]
    BY <2>1, <2>2, SameWalk
  <2> QED
    BY <2>1, <2>2, <2>3, SameAnswer
<1>2. Walk(pages', nalloc, v)[1] = nalloc
  BY WalkSteps
<1>3. ASSUME NEW i \in INDEX PROVE Follow(pages', nalloc, i) = Nil
  BY ZeroWord DEF Follow
<1>4. ASSUME NEW l \in 2 .. LEVELS PROVE Walk(pages', nalloc, v)[l] = Nil
  <2>1. 1 \in 1 .. LEVELS - 1 /\ 1 \in 1 .. LEVELS /\ 2 \in 1 .. LEVELS
    BY Weights
  <2>2. Walk(pages', nalloc, v)[1 + 1] = Follow(pages', nalloc, index(v, 1))
    BY <1>2, <2>1, WalkSteps
  <2>3. Walk(pages', nalloc, v)[2] = Nil
    BY <1>3, <2>1, <2>2, IndexRange
  <2> QED
    BY <2>1, <2>3, NilBelow
<1>5. Answer(pages', nalloc, v) = NO_MAPPING
  <2>1. LEVELS \in 1 .. LEVELS /\ (LEVELS = 1 \/ LEVELS \in 2 .. LEVELS)
    BY Weights
  <2>2. Follow(pages', Walk(pages', nalloc, v)[LEVELS], index(v, LEVELS)) = Nil
    BY <1>2, <1>3, <1>4, <2>1, IndexRange, FollowNil
  <2> QED
    BY <2>2 DEF Answer
<1> QED
  BY <1>1, <1>2, <1>4, <1>5

LEMMA NewTableIInv ==
    ASSUME IInv, NewTable
    PROVE  IInv'
<1> USE NewMemory, NewWalks
<1>1. nalloc' = nalloc + 1 /\ nalloc \in Nat
  BY DEF NewTable
<1>2. ASSUME NEW pt \in roots, NEW v \in VPN, NEW l \in 1 .. LEVELS
      PROVE  /\ Walk(pages', pt, v)[l] = Walk(pages, pt, v)[l]
             /\ Walk(pages', pt, v)[l] \in {Nil} \cup 0 .. nalloc - 1
  BY InMemory
<1>3. ASSUME NEW v \in VPN, NEW l \in 1 .. LEVELS
      PROVE  \/ l = 1 /\ Walk(pages', nalloc, v)[l] = nalloc
             \/ Walk(pages', nalloc, v)[l] = Nil
  <2>1. l = 1 \/ l \in 2 .. LEVELS
    BY Weights
  <2> QED
    BY <2>1
<1>4. Stays(pages', roots', nalloc')
  BY <1>1, <1>2, <1>3 DEF Stays
<1>5. Trees(pages', roots')
  <2> SUFFICES ASSUME NEW p \in roots', NEW q \in roots', NEW u \in VPN, NEW v \in VPN,
                      NEW l \in 1 .. LEVELS, NEW k \in 1 .. LEVELS,
                      Walk(pages', p, u)[l] # Nil,
                      Walk(pages', p, u)[l] = Walk(pages', q, v)[k]
               PROVE  p = q /\ l = k /\ Prefix(u, v, l)
    BY DEF Trees
  <2>1. CASE p \in roots /\ q \in roots
    <3>1. /\ Walk(pages', p, u)[l] = Walk(pages, p, u)[l]
          /\ Walk(pages', q, v)[k] = Walk(pages, q, v)[k]
      BY <1>2, <2>1
    <3>2. /\ Walk(pages, p, u)[l] # Nil
          /\ Walk(pages, p, u)[l] = Walk(pages, q, v)[k]
      BY <3>1
    <3>3. p \in roots /\ q \in roots
      BY <2>1
    <3> QED
      BY <3>2, <3>3, OneTree, Zenon
  <2>2. CASE p \in roots /\ q = nalloc
    <3>1. Walk(pages', p, u)[l] \in {Nil} \cup 0 .. nalloc - 1
      BY <1>2, <2>2
    <3>2. Walk(pages', q, v)[k] \in {Nil, nalloc}
      BY <1>3, <2>2
    <3> QED
      BY <1>1, <3>1, <3>2
  <2>3. CASE p = nalloc /\ q \in roots
    <3>1. Walk(pages', q, v)[k] \in {Nil} \cup 0 .. nalloc - 1
      BY <1>2, <2>3
    <3>2. Walk(pages', p, u)[l] \in {Nil, nalloc}
      BY <1>3, <2>3
    <3> QED
      BY <1>1, <3>1, <3>2
  <2>4. CASE p = nalloc /\ q = nalloc
    <3>1. l = 1 /\ k = 1
      BY <1>3, <2>4
    <3> QED
      BY <2>4, <3>1 DEF Prefix
  <2> QED
    BY <2>1, <2>2, <2>3, <2>4
<1> QED
  BY <1>4, <1>5 DEF IInv, Stays, Trees

-----------------------------------------------------------------------------
(***************************************************************************)
(* A mapping is destroyed                                                  *)
(***************************************************************************)
\* Only the entry of the page itself changes, in a table of the last level.
LEMMA DestroyMemory ==
    ASSUME IInv, NEW pt \in roots, NEW vpn \in VPN, Destroy(pt, vpn)
    PROVE  LET leaf == Walk(pages, pt, vpn)[LEVELS]
               i == index(vpn, LEVELS)
           IN  /\ leaf \in 0 .. nalloc - 1 /\ i \in INDEX /\ leaf # Nil
               /\ MemType' /\ UNCHANGED <<nalloc, roots>>
               /\ \A p \in 0 .. nalloc - 1, j \in INDEX :
                      pages'[p][j] = IF p = leaf /\ j = i THEN 0 ELSE pages[p][j]
<1> DEFINE leaf == Walk(pages, pt, vpn)[LEVELS]
           i == index(vpn, LEVELS)
<1>1. LEVELS \in 1 .. LEVELS
  BY Weights
<1>2. i \in INDEX
  BY <1>1, IndexRange
<1>3. leaf # Nil
  <2>1. Answer(pages, pt, vpn) # NO_MAPPING
    BY QueryIs DEF Destroy
  <2> QED
    BY <2>1, FollowNil DEF Answer
<1>4. leaf \in 0 .. nalloc - 1
  BY <1>1, <1>3, InMemory
<1>5. pages' = [pages EXCEPT ![leaf][i] = 0]
  BY WalkIsWalk DEF Destroy
<1>6. pages \in [0 .. nalloc - 1 -> [INDEX -> Nat]] /\ UNCHANGED <<nalloc, roots>>
  BY DEF IInv, MemType, Destroy
<1> HIDE DEF leaf, i
<1>7. pages' \in [0 .. nalloc - 1 -> [INDEX -> Nat]]
  BY <1>2, <1>4, <1>5, <1>6
<1>8. \A p \in 0 .. nalloc - 1, j \in INDEX :
          pages'[p][j] = IF p = leaf /\ j = i THEN 0 ELSE pages[p][j]
  BY <1>2, <1>4, <1>5, <1>6
<1>9. MemType'
  <2>1. exited' \in BOOLEAN
    BY DEF IInv, MemType, Destroy
  <2> QED
    BY <1>6, <1>7, <2>1 DEF IInv, MemType
<1> QED
  BY <1>2, <1>3, <1>4, <1>6, <1>8, <1>9 DEF leaf, i

LEMMA DestroyWalks ==
    ASSUME IInv, NEW pt \in roots, NEW vpn \in VPN, Destroy(pt, vpn),
           NEW r \in roots, NEW v \in VPN
    PROVE  /\ \A l \in 1 .. LEVELS : Walk(pages', r, v)[l] = Walk(pages, r, v)[l]
           /\ Answer(pages', r, v) = IF r = pt /\ v = vpn THEN NO_MAPPING
                                     ELSE Answer(pages, r, v)
<1>1. LEVELS \in 1 .. LEVELS /\ \A l \in 1 .. LEVELS - 1 : l \in 1 .. LEVELS /\ l # LEVELS
  BY Weights
<1>2. ASSUME NEW l \in 1 .. LEVELS, l # LEVELS \/ r # pt \/ v # vpn
      PROVE  Follow(pages', Walk(pages, r, v)[l], index(v, l))
             = Follow(pages, Walk(pages, r, v)[l], index(v, l))
  <2>1. CASE Walk(pages, r, v)[l] = Nil
    BY <2>1, FollowSame
  <2>2. CASE Walk(pages, r, v)[l] # Nil
    <3>1. PICK t \in 0 .. nalloc - 1 : t = Walk(pages, r, v)[l]
      BY <2>2, InMemory
    <3>2. PICK j \in INDEX : j = index(v, l)
      BY IndexRange
    <3>3. ~ (t = Walk(pages, pt, vpn)[LEVELS] /\ j = index(vpn, LEVELS))
      <4> SUFFICES ASSUME t = Walk(pages, pt, vpn)[LEVELS], j = index(vpn, LEVELS)
                   PROVE  FALSE
        OBVIOUS
      <4>1. r = pt /\ l = LEVELS /\ Prefix(v, vpn, LEVELS)
        <5>1. Walk(pages, r, v)[l] = Walk(pages, pt, vpn)[LEVELS]
          BY <3>1
        <5>2. PICK k \in 1 .. LEVELS : k = LEVELS
          BY <1>1
        <5>3. Walk(pages, r, v)[l] = Walk(pages, pt, vpn)[k]
          BY <5>1, <5>2
        <5>4. r = pt /\ l = k /\ Prefix(v, vpn, l)
          BY <2>2, <5>3, OneTree
        <5> QED
          BY <5>2, <5>4
      <4>2. \A n \in 1 .. LEVELS : n \in 1 .. LEVELS - 1 \/ n = LEVELS
        BY Weights
      <4>3. \A n \in 1 .. LEVELS : index(v, n) = index(vpn, n)
        BY <3>2, <4>1, <4>2 DEF Prefix
      <4> QED
        BY <1>2, <4>1, <4>3, SameDigits
    <3>4. pages'[t][j] = pages[t][j]
      BY <3>3, DestroyMemory
    <3> QED
      BY <3>1, <3>2, <3>4, FollowSame
  <2> QED
    BY <2>1, <2>2
<1>3. \A l \in 1 .. LEVELS : Walk(pages', r, v)[l] = Walk(pages, r, v)[l]
  BY <1>1, <1>2, SameWalk
<1>4. CASE r = pt /\ v = vpn
  <2>1. PICK t \in 0 .. nalloc - 1 : t = Walk(pages, pt, vpn)[LEVELS]
    BY DestroyMemory
  <2>2. PICK j \in INDEX : j = index(vpn, LEVELS)
    BY DestroyMemory
  <2>3. pages'[t][j] = 0
    BY <2>1, <2>2, DestroyMemory
  <2>4. Follow(pages', t, j) = Nil
    BY <2>3, ZeroWord DEF Follow
  <2> QED
    BY <1>1, <1>3, <1>4, <2>1, <2>2, <2>4 DEF Answer
<1>5. CASE ~ (r = pt /\ v = vpn)
  BY <1>1, <1>2, <1>3, <1>5, SameAnswer
<1> QED
  BY <1>3, <1>4, <1>5

LEMMA DestroyIInv ==
    ASSUME IInv, NEW pt \in roots, NEW vpn \in VPN, Destroy(pt, vpn)
    PROVE  IInv'
<1>1. MemType' /\ UNCHANGED <<nalloc, roots>>
  BY DestroyMemory
<1>2. \A r \in roots, v \in VPN : \A l \in 1 .. LEVELS :
          Walk(pages', r, v)[l] = Walk(pages, r, v)[l]
  BY DestroyWalks
<1>3. Stays(pages', roots', nalloc')
  BY <1>1, <1>2 DEF IInv, Stays
<1>4. Trees(pages', roots')
  BY <1>1, <1>2 DEF IInv, Trees
<1> QED
  BY <1>1, <1>3, <1>4 DEF IInv, Stays, Trees

-----------------------------------------------------------------------------
(***************************************************************************)
(* A mapping is created                                                    *)
(***************************************************************************)
LEMMA LastLevelIs ==
    ASSUME IInv, NEW pt \in roots, NEW vpn \in VPN
    PROVE  /\ LastLevel(pt, vpn) \in 1 .. LEVELS
           /\ \A l \in 1 .. LEVELS : Walk(pages, pt, vpn)[l] # Nil <=> l <= LastLevel(pt, vpn)
<1>1. PICK S : S = {l \in 1 .. LEVELS : Walk(pages, pt, vpn)[l] # Nil}
  OBVIOUS
<1>2. LastLevel(pt, vpn) = Max(S)
  BY <1>1, WalkIsWalk DEF LastLevel
<1>3. 1 \in S
  <2>1. 1 \in 1 .. LEVELS
    BY Weights
  <2>2. pt # Nil
    BY SomePages DEF IInv, MemType, Nil
  <2> QED
    BY <1>1, <2>1, <2>2, WalkSteps
<1>4. Max(S) \in S /\ \A y \in S : y <= Max(S)
  BY <1>1, <1>3, Greatest, Weights
<1>5. ASSUME NEW l \in 1 .. LEVELS, l <= Max(S) PROVE Walk(pages, pt, vpn)[l] # Nil
  <2>1. Max(S) \in l .. LEVELS /\ Walk(pages, pt, vpn)[Max(S)] # Nil
    BY <1>1, <1>4, <1>5
  <2> QED
    BY <2>1, NilBelow
<1> QED
  BY <1>1, <1>2, <1>4, <1>5

\* The tables of the path: those of the walk, then new frames in order.
LEMMA PathIs ==
    ASSUME IInv, NEW pt \in roots, NEW vpn \in VPN, NEW last, last = LastLevel(pt, vpn)
    PROVE  /\ last \in 1 .. LEVELS
           /\ Path(pt, vpn)[last] = Walk(pages, pt, vpn)[last]
           /\ Path(pt, vpn)[last] \in 0 .. nalloc - 1
           /\ \A l \in last + 1 .. LEVELS : Path(pt, vpn)[l] = nalloc + (l - last - 1)
           /\ \A l \in 1 .. LEVELS : Walk(pages, pt, vpn)[l] # Nil <=> l <= last
<1>1. last \in 1 .. LEVELS
  BY LastLevelIs
<1>2. Path(pt, vpn) = [l \in 1 .. LEVELS |-> IF l <= last THEN Walk(pages, pt, vpn)[l]
                                              ELSE nalloc + (l - last - 1)]
  BY WalkIsWalk DEF Path
<1>3. Path(pt, vpn)[last] = Walk(pages, pt, vpn)[last]
  BY <1>1, <1>2
<1>4. Walk(pages, pt, vpn)[last] \in 0 .. nalloc - 1
  BY <1>1, LastLevelIs, InMemory
<1>5. ASSUME NEW l \in last + 1 .. LEVELS PROVE Path(pt, vpn)[l] = nalloc + (l - last - 1)
  <2>1. l \in 1 .. LEVELS /\ ~ (l <= last)
    BY <1>1
  <2> QED
    BY <1>2, <2>1
<1> QED
  BY <1>1, <1>3, <1>4, <1>5, LastLevelIs

\* What the entry on the path leads to.
Goal(pt, vpn, ppn, l) == IF l = LEVELS THEN ppn ELSE Path(pt, vpn)[l + 1]

LEMMA PathFrames ==
    ASSUME IInv, NEW pt \in roots, NEW vpn \in VPN, NEW ppn \in PPN, Create(pt, vpn, ppn),
           NEW last, last = LastLevel(pt, vpn)
    PROVE  /\ nalloc' = nalloc + (LEVELS - last) /\ nalloc' \in 0 .. NPAGES
           /\ nalloc \in Nat /\ nalloc <= nalloc'
           /\ \A l \in last .. LEVELS : Path(pt, vpn)[l] \in 0 .. nalloc' - 1
           /\ \A l, k \in last .. LEVELS : Path(pt, vpn)[l] = Path(pt, vpn)[k] => l = k
           /\ \A l \in last .. LEVELS : Goal(pt, vpn, ppn, l) \in 0 .. 2^(WORD - SHIFT) - 1
<1>1. nalloc \in Nat
  BY SomePages DEF IInv, MemType
<1>2. last \in 1 .. LEVELS /\ last \in Nat /\ LEVELS \in Nat
  BY PathIs, Weights
<1>3. nalloc' = nalloc + (LEVELS - last) /\ nalloc + (LEVELS - last) <= NPAGES
  BY DEF Create, Missing
<1>4. nalloc' \in 0 .. NPAGES /\ nalloc <= nalloc'
  BY <1>1, <1>2, <1>3, SomePages
<1>5. ASSUME NEW l \in last .. LEVELS
      PROVE  \/ l = last /\ Path(pt, vpn)[l] \in 0 .. nalloc - 1
             \/ l \in last + 1 .. LEVELS /\ Path(pt, vpn)[l] = nalloc + (l - last - 1)
  <2>1. l = last \/ l \in last + 1 .. LEVELS
    BY <1>2
  <2> QED
    BY <2>1, PathIs
<1>6. ASSUME NEW l \in last .. LEVELS PROVE Path(pt, vpn)[l] \in 0 .. nalloc' - 1
  <2>1. CASE l = last /\ Path(pt, vpn)[l] \in 0 .. nalloc - 1
    BY <1>1, <1>4, <2>1
  <2>2. CASE l \in last + 1 .. LEVELS /\ Path(pt, vpn)[l] = nalloc + (l - last - 1)
    <3>1. PICK a : a = nalloc + (l - last - 1)
      OBVIOUS
    <3>2. a \in 0 .. nalloc' - 1
      BY <1>1, <1>2, <1>3, <2>2, <3>1
    <3> QED
      BY <2>2, <3>1, <3>2
  <2> QED
    BY <1>5, <2>1, <2>2
<1>7. ASSUME NEW l \in last .. LEVELS, NEW k \in last .. LEVELS,
             Path(pt, vpn)[l] = Path(pt, vpn)[k]
      PROVE  l = k
  <2>1. PICK a : a = Path(pt, vpn)[l]
    OBVIOUS
  <2>2. \/ l = last /\ a \in 0 .. nalloc - 1
        \/ l \in last + 1 .. LEVELS /\ a = nalloc + (l - last - 1)
    BY <1>5, <2>1
  <2>3. \/ k = last /\ a \in 0 .. nalloc - 1
        \/ k \in last + 1 .. LEVELS /\ a = nalloc + (k - last - 1)
    BY <1>5, <1>7, <2>1
  <2> QED
    BY <1>1, <1>2, <2>2, <2>3
<1>8. ASSUME NEW l \in last .. LEVELS
      PROVE  Goal(pt, vpn, ppn, l) \in 0 .. 2^(WORD - SHIFT) - 1
  <2>1. CASE l = LEVELS
    BY <2>1, PageTableAssumption DEF Goal
  <2>2. CASE l # LEVELS
    <3>1. l + 1 \in last .. LEVELS
      BY <1>2, <2>2
    <3>2. PICK a \in 0 .. nalloc' - 1 : a = Path(pt, vpn)[l + 1]
      BY <1>6, <3>1
    <3>3. PICK F \in Nat : F = 2^(WORD - SHIFT)
      BY PowerAssumption
    <3>4. a \in 0 .. F - 1
      BY <1>4, <3>2, <3>3, SomePages
    <3> QED
      BY <2>2, <3>2, <3>3, <3>4 DEF Goal
  <2> QED
    BY <2>1, <2>2
<1> QED
  BY <1>1, <1>3, <1>4, <1>6, <1>7, <1>8

LEMMA MoreFrames ==
    ASSUME NEW a \in Nat, NEW b \in Nat, a <= b
    PROVE  \A t \in 0 .. a - 1 : t \in 0 .. b - 1 /\ t < a
OBVIOUS

\* The entries of the path lead to the next table or to the page, the other entries
\* of new tables nowhere, and what was there before is not changed otherwise.
LEMMA CreateMemory ==
    ASSUME IInv, NEW pt \in roots, NEW vpn \in VPN, NEW ppn \in PPN, Create(pt, vpn, ppn),
           NEW last, last = LastLevel(pt, vpn)
    PROVE  /\ MemType' /\ roots' = roots
           /\ \A l \in last .. LEVELS :
                  Follow(pages', Path(pt, vpn)[l], index(vpn, l)) = Goal(pt, vpn, ppn, l)
           /\ \A l \in last + 1 .. LEVELS, j \in INDEX :
                  j # index(vpn, l) => Follow(pages', Path(pt, vpn)[l], j) = Nil
           /\ \A t \in 0 .. nalloc - 1, j \in INDEX :
                  t # Path(pt, vpn)[last] \/ j # index(vpn, last) =>
                      Follow(pages', t, j) = Follow(pages, t, j)
<1> DEFINE path == Path(pt, vpn)
           G(l) == Goal(pt, vpn, ppn, l)
           On(l, p, i) == p = path[l] /\ i = index(vpn, l)
           Touched(p, i) == \E l \in last .. LEVELS : On(l, p, i)
<1>1. /\ pages' = [p \in 0 .. nalloc' - 1 |-> [i \in INDEX |->
              IF \E l \in last .. LEVELS : p = path[l] /\ i = index(vpn, l)
              THEN LET k == CHOOSE l \in last .. LEVELS : p = path[l] /\ i = index(vpn, l)
                   IN  IF k = LEVELS THEN pte(ppn) ELSE pte(path[k + 1])
              ELSE Contents(p)[i]]]
      /\ roots' = roots /\ exited' = exited
  BY DEF Create
<1>2. last \in 1 .. LEVELS /\ path[last] \in 0 .. nalloc - 1
      /\ \A l \in last + 1 .. LEVELS : path[l] = nalloc + (l - last - 1)
  BY PathIs
<1>3. /\ nalloc' \in 0 .. NPAGES /\ nalloc \in Nat /\ nalloc <= nalloc'
      /\ \A l \in last .. LEVELS : path[l] \in 0 .. nalloc' - 1
      /\ \A l, k \in last .. LEVELS : path[l] = path[k] => l = k
      /\ \A l \in last .. LEVELS : G(l) \in 0 .. 2^(WORD - SHIFT) - 1
  BY PathFrames
<1>a. \A t \in 0 .. nalloc - 1 : t \in 0 .. nalloc' - 1 /\ t < nalloc
  <2>1. nalloc \in Nat /\ nalloc' \in Nat /\ nalloc <= nalloc'
    BY PathFrames, SomePages
  <2> QED
    BY <2>1, MoreFrames
<1>4. \A l \in last .. LEVELS : pte(G(l)) = IF l = LEVELS THEN pte(ppn) ELSE pte(path[l + 1])
  BY DEF Goal
<1>5. \A l \in last .. LEVELS : l \in 1 .. LEVELS /\ index(vpn, l) \in INDEX
  BY <1>2, IndexRange
<1> HIDE DEF path, G
<1>6. ASSUME NEW l \in last .. LEVELS
      PROVE  pages'[path[l]][index(vpn, l)] = pte(G(l))
  <2>1. PICK p \in 0 .. nalloc' - 1 : p = path[l]
    BY <1>3
  <2>2. PICK i \in INDEX : i = index(vpn, l)
    BY <1>5
  <2>3. PICK k : k = CHOOSE n \in last .. LEVELS : On(n, p, i)
    OBVIOUS
  <2>4. k \in last .. LEVELS /\ On(k, p, i)
    BY <2>1, <2>2, <2>3
  <2>5. k = l
    BY <1>3, <2>1, <2>4
  <2>6. pages'[p][i] = IF k = LEVELS THEN pte(ppn) ELSE pte(path[k + 1])
    BY <1>1, <2>1, <2>2, <2>3
  <2> QED
    BY <1>4, <2>1, <2>2, <2>5, <2>6
<1>7. ASSUME NEW p \in 0 .. nalloc' - 1, NEW i \in INDEX, ~Touched(p, i)
      PROVE  pages'[p][i] = Contents(p)[i]
  BY <1>1, <1>7
<1>8. ASSUME NEW p \in 0 .. nalloc' - 1 PROVE Contents(p) \in [INDEX -> Nat]
  <2>1. Zeros \in [INDEX -> Nat]
    BY DEF Zeros
  <2>2. pages \in [0 .. nalloc - 1 -> [INDEX -> Nat]]
    BY DEF IInv, MemType
  <2>3. CASE p < nalloc
    <3>1. p \in 0 .. nalloc - 1
      BY <1>3, <2>3
    <3> QED
      BY <2>2, <2>3, <3>1 DEF Contents
  <2>4. CASE ~ (p < nalloc)
    BY <2>1, <2>4 DEF Contents
  <2> QED
    BY <2>3, <2>4
<1>9. MemType'
  <2>1. ASSUME NEW p \in 0 .. nalloc' - 1, NEW i \in INDEX PROVE pages'[p][i] \in Nat
    <3>1. CASE Touched(p, i)
      <4>1. PICK l \in last .. LEVELS : On(l, p, i)
        BY <3>1
      <4>2. pages'[p][i] = pte(G(l))
        BY <1>6, <4>1
      <4> QED
        BY <1>3, <4>2, Word
    <3>2. CASE ~Touched(p, i)
      BY <1>7, <1>8, <3>2
    <3> QED
      BY <3>1, <3>2
  <2>2. pages' \in [0 .. nalloc' - 1 -> [INDEX -> Nat]]
    <3>1. PICK f : \A p \in 0 .. nalloc' - 1 : pages'[p] = [i \in INDEX |-> f[p][i]]
      <4>1. \A p \in 0 .. nalloc' - 1 : pages'[p] = [i \in INDEX |-> pages'[p][i]]
        BY <1>1
      <4> QED
        BY <4>1
    <3>2. \A p \in 0 .. nalloc' - 1 : pages'[p] \in [INDEX -> Nat]
      BY <2>1, <3>1
    <3>3. pages' = [p \in 0 .. nalloc' - 1 |-> pages'[p]]
      BY <1>1
    <3> QED
      BY <3>2, <3>3
  <2>3. roots' \subseteq 0 .. nalloc' - 1
    <3>1. roots \subseteq 0 .. nalloc - 1
      BY DEF IInv, MemType
    <3> QED
      BY <1>1, <1>a, <3>1
  <2>4. exited' \in BOOLEAN
    BY <1>1 DEF IInv, MemType
  <2> QED
    BY <1>3, <2>2, <2>3, <2>4 DEF MemType
<1>10. ASSUME NEW l \in last .. LEVELS
       PROVE  Follow(pages', path[l], index(vpn, l)) = G(l)
  <2>1. path[l] # Nil
    BY <1>3 DEF Nil
  <2> QED
    BY <1>3, <1>6, <2>1, Word DEF Follow
<1>11. ASSUME NEW l \in last + 1 .. LEVELS, NEW j \in INDEX, j # index(vpn, l)
       PROVE  Follow(pages', path[l], j) = Nil
  <2>1. l \in last .. LEVELS
    BY <1>2
  <2>2. PICK p \in 0 .. nalloc' - 1 : p = path[l]
    BY <1>3, <2>1
  <2>3. ~ (p < nalloc)
    BY <1>2, <1>3, <2>2
  <2>4. ~Touched(p, j)
    BY <1>3, <1>11, <2>1, <2>2
  <2>5. pages'[p][j] = 0
    BY <1>7, <2>3, <2>4 DEF Contents, Zeros
  <2> QED
    BY <2>2, <2>5, ZeroWord DEF Follow
<1>12. ASSUME NEW t \in 0 .. nalloc - 1, NEW j \in INDEX,
              t # path[last] \/ j # index(vpn, last)
       PROVE  Follow(pages', t, j) = Follow(pages, t, j)
  <2>1. ~Touched(t, j)
    <3> SUFFICES ASSUME NEW l \in last .. LEVELS, On(l, t, j) PROVE FALSE
      OBVIOUS
    <3>1. l \in last + 1 .. LEVELS
      BY <1>2, <1>12
    <3>2. t = nalloc + (l - last - 1)
      BY <1>2, <3>1
    <3> QED
      BY <1>2, <1>3, <3>1, <3>2
  <2>2. t \in 0 .. nalloc' - 1 /\ t < nalloc
    BY <1>a
  <2>3. pages'[t][j] = pages[t][j]
    BY <1>7, <2>1, <2>2 DEF Contents
  <2> QED
    BY <2>3, FollowSame
<1> QED
  BY <1>1, <1>9, <1>10, <1>11, <1>12 DEF path, G

\* The walks afterwards: a table that was missing is now on the path if the walk is
\* that of the page so far.
LEMMA CreateWalks ==
    ASSUME IInv, NEW pt \in roots, NEW vpn \in VPN, NEW ppn \in PPN, Create(pt, vpn, ppn),
           NEW r \in roots, NEW v \in VPN, NEW l \in 1 .. LEVELS
    PROVE  Walk(pages', r, v)[l] =
               IF Walk(pages, r, v)[l] # Nil THEN Walk(pages, r, v)[l]
               ELSE IF r = pt /\ Prefix(v, vpn, l) THEN Path(pt, vpn)[l] ELSE Nil
<1>0. PICK last : last = LastLevel(pt, vpn)
  OBVIOUS
<1> DEFINE path == Path(pt, vpn)
           Old(n) == Walk(pages, r, v)[n]
           New(n) == Walk(pages', r, v)[n]
           Same(n) == r = pt /\ Prefix(v, vpn, n)
           Claim(n) == New(n) = IF Old(n) # Nil THEN Old(n) ELSE IF Same(n) THEN path[n] ELSE Nil
           S == {n \in 1 .. LEVELS : Claim(n)}
<1>1. /\ last \in 1 .. LEVELS /\ last \in Nat
      /\ path[last] = Walk(pages, pt, vpn)[last]
      /\ \A n \in 1 .. LEVELS : Walk(pages, pt, vpn)[n] # Nil <=> n <= last
  <2>1. last \in 1 .. LEVELS /\ LEVELS \in Nat
    BY <1>0, PathIs, Weights
  <2>2. last \in Nat
    BY <2>1
  <2> QED
    BY <1>0, <2>1, <2>2, PathIs
<1>2. /\ \A n \in last .. LEVELS : Follow(pages', path[n], index(vpn, n)) = Goal(pt, vpn, ppn, n)
      /\ \A n \in last + 1 .. LEVELS, j \in INDEX :
             j # index(vpn, n) => Follow(pages', path[n], j) = Nil
      /\ \A t \in 0 .. nalloc - 1, j \in INDEX :
             t # path[last] \/ j # index(vpn, last) =>
                 Follow(pages', t, j) = Follow(pages, t, j)
  BY <1>0, CreateMemory
<1>3. 1 \in S /\ LEVELS \in Nat /\ 1 \in Nat
  <2>1. 1 \in 1 .. LEVELS /\ LEVELS \in Nat
    BY Weights
  <2>2. Old(1) = r /\ New(1) = r
    BY WalkSteps
  <2>3. r # Nil
    BY DEF IInv, MemType, Nil
  <2> QED
    BY <2>1, <2>2, <2>3
<1>4. ASSUME NEW n \in 1 .. LEVELS - 1, n \in S PROVE n + 1 \in S
  <2>1. n \in 1 .. LEVELS /\ n + 1 \in 1 .. LEVELS /\ n # LEVELS /\ n \in Nat \ {0}
    <3>1. LEVELS \in Nat
      BY Weights
    <3> HIDE DEF S
    <3> QED
      BY <3>1
  <2>2. PICK i \in INDEX : i = index(v, n)
    BY <2>1, IndexRange
  <2>3. Old(n + 1) = Follow(pages, Old(n), i) /\ New(n + 1) = Follow(pages', New(n), i)
    BY <2>2, WalkSteps
  <2>4. Same(n + 1) <=> Same(n) /\ i = index(vpn, n)
    BY <2>1, <2>2, PrefixNext
  <2>5. Goal(pt, vpn, ppn, n) = path[n + 1]
    BY <2>1 DEF Goal
  <2>6. Same(n) => Old(n) = Walk(pages, pt, vpn)[n]
    BY <2>1, PrefixWalk
  <2>7. Same(n + 1) => Old(n + 1) = Walk(pages, pt, vpn)[n + 1]
    BY <2>1, PrefixWalk
  <2>8. CASE Old(n) = Nil
    <3>1. Old(n + 1) = Nil
      BY <2>3, <2>8, FollowNil
    <3>2. CASE Same(n)
      <4>1. n \in last + 1 .. LEVELS /\ n \in last .. LEVELS
        BY <1>1, <2>1, <2>6, <2>8, <3>2
      <4>2. New(n) = path[n]
        BY <1>4, <2>8, <3>2
      <4>3. CASE i = index(vpn, n)
        <5>1. New(n + 1) = path[n + 1]
          BY <1>2, <2>3, <2>5, <4>1, <4>2, <4>3
        <5> QED
          BY <2>1, <2>4, <3>1, <3>2, <4>3, <5>1
      <4>4. CASE i # index(vpn, n)
        <5>1. New(n + 1) = Nil
          BY <1>2, <2>3, <4>1, <4>2, <4>4
        <5> QED
          BY <2>1, <2>4, <3>1, <4>4, <5>1
      <4> QED
        BY <4>3, <4>4
    <3>3. CASE ~Same(n)
      <4>1. New(n + 1) = Nil
        BY <1>4, <2>3, <2>8, <3>3, FollowNil
      <4> QED
        BY <2>1, <2>4, <3>1, <3>3, <4>1
    <3> QED
      BY <3>2, <3>3
  <2>9. CASE Old(n) # Nil
    <3>1. New(n) = Old(n) /\ Old(n) \in 0 .. nalloc - 1
      BY <1>4, <2>1, <2>9, InMemory
    <3>2. CASE Old(n) = path[last] /\ i = index(vpn, last)
      <4>1. Old(n) = Walk(pages, pt, vpn)[last]
        BY <1>1, <3>2
      <4>2. r = pt /\ n = last /\ Prefix(v, vpn, n)
        BY <1>1, <2>1, <2>9, <4>1, OneTree
      <4>3. Same(n + 1)
        BY <2>4, <3>2, <4>2
      <4>4. Old(n + 1) = Nil
        BY <1>1, <2>1, <2>7, <4>2, <4>3
      <4>5. n \in last .. LEVELS /\ path[n] = Old(n) /\ index(vpn, n) = i
        BY <2>1, <3>2, <4>2
      <4>6. New(n + 1) = path[n + 1]
        BY <1>2, <2>3, <2>5, <3>1, <4>5
      <4> QED
        BY <2>1, <4>3, <4>4, <4>6
    <3>3. CASE ~ (Old(n) = path[last] /\ i = index(vpn, last))
      <4>1. New(n + 1) = Old(n + 1)
        BY <1>2, <2>3, <3>1, <3>3
      <4>2. Old(n + 1) # Nil \/ ~Same(n + 1)
        <5> SUFFICES ASSUME Old(n + 1) = Nil, Same(n + 1) PROVE FALSE
          OBVIOUS
        <5>1. n <= last /\ ~ (n + 1 <= last)
          BY <1>1, <2>1, <2>4, <2>6, <2>7, <2>9
        <5>2. n = last
          BY <1>1, <2>1, <5>1
        <5> QED
          BY <1>1, <2>4, <2>6, <3>3, <5>2
      <4> QED
        BY <2>1, <4>1, <4>2
    <3> QED
      BY <3>2, <3>3
  <2> QED
    BY <2>8, <2>9
<1>5. \A n \in 1 .. LEVELS : n \in S
  <2> HIDE DEF S
  <2> QED
    BY <1>3, <1>4, Induction
<1> QED
  BY <1>5

LEMMA CreateAnswer ==
    ASSUME IInv, NEW pt \in roots, NEW vpn \in VPN, NEW ppn \in PPN, Create(pt, vpn, ppn),
           NEW r \in roots, NEW v \in VPN
    PROVE  Answer(pages', r, v) = IF r = pt /\ v = vpn THEN ppn ELSE Answer(pages, r, v)
<1>0. PICK last : last = LastLevel(pt, vpn)
  OBVIOUS
<1> DEFINE path == Path(pt, vpn)
           Old == Walk(pages, r, v)[LEVELS]
           New == Walk(pages', r, v)[LEVELS]
           Same == r = pt /\ Prefix(v, vpn, LEVELS)
<1>1. /\ last \in 1 .. LEVELS
      /\ path[last] = Walk(pages, pt, vpn)[last]
      /\ \A n \in 1 .. LEVELS : Walk(pages, pt, vpn)[n] # Nil <=> n <= last
  BY <1>0, PathIs
<1>2. /\ \A n \in last .. LEVELS : Follow(pages', path[n], index(vpn, n)) = Goal(pt, vpn, ppn, n)
      /\ \A n \in last + 1 .. LEVELS, j \in INDEX :
             j # index(vpn, n) => Follow(pages', path[n], j) = Nil
      /\ \A t \in 0 .. nalloc - 1, j \in INDEX :
             t # path[last] \/ j # index(vpn, last) =>
                 Follow(pages', t, j) = Follow(pages, t, j)
  BY <1>0, CreateMemory
<1>3. LEVELS \in Nat /\ LEVELS \in 1 .. LEVELS /\ last \in Nat /\ LEVELS \in last .. LEVELS
  <2>1. LEVELS \in Nat /\ LEVELS \in 1 .. LEVELS
    BY Weights
  <2> QED
    BY <1>1, <2>1
<1>4. PICK i \in INDEX : i = index(v, LEVELS)
  BY <1>3, IndexRange
<1>5. New = IF Old # Nil THEN Old ELSE IF Same THEN path[LEVELS] ELSE Nil
  BY <1>3, CreateWalks
<1>6. Goal(pt, vpn, ppn, LEVELS) = ppn /\ ppn # Nil
  BY PageTableAssumption DEF Goal, Nil
<1>7. r = pt /\ v = vpn <=> Same /\ i = index(vpn, LEVELS)
  <2>1. \A n \in 1 .. LEVELS : n \in 1 .. LEVELS - 1 \/ n = LEVELS
    BY <1>3
  <2>2. Prefix(v, vpn, LEVELS) /\ i = index(vpn, LEVELS) => v = vpn
    BY <1>4, <2>1, SameDigits DEF Prefix
  <2>3. v = vpn => Prefix(v, vpn, LEVELS) /\ i = index(vpn, LEVELS)
    BY <1>4 DEF Prefix
  <2> QED
    BY <2>2, <2>3
<1>8. Same => Old = Walk(pages, pt, vpn)[LEVELS]
  BY <1>3, PrefixWalk
<1>9. /\ Answer(pages, r, v) = IF Follow(pages, Old, i) = Nil THEN NO_MAPPING ELSE Follow(pages, Old, i)
      /\ Answer(pages', r, v) = IF Follow(pages', New, i) = Nil THEN NO_MAPPING ELSE Follow(pages', New, i)
  BY <1>4 DEF Answer
<1>10. CASE Old = Nil
  <2>1. Follow(pages, Old, i) = Nil
    BY <1>10, FollowNil
  <2>2. CASE Same
    <3>1. LEVELS \in last + 1 .. LEVELS
      BY <1>1, <1>3, <1>8, <1>10, <2>2
    <3>2. New = path[LEVELS]
      BY <1>5, <1>10, <2>2
    <3>3. CASE i = index(vpn, LEVELS)
      <4>1. Follow(pages', New, i) = ppn
        BY <1>2, <1>3, <1>6, <3>2, <3>3
      <4> QED
        BY <1>6, <1>7, <1>9, <2>2, <3>3, <4>1
    <3>4. CASE i # index(vpn, LEVELS)
      <4>1. Follow(pages', New, i) = Nil
        BY <1>2, <3>1, <3>2, <3>4
      <4> QED
        BY <1>7, <1>9, <2>1, <3>4, <4>1
    <3> QED
      BY <3>3, <3>4
  <2>3. CASE ~Same
    <3>1. Follow(pages', New, i) = Nil
      BY <1>5, <1>10, <2>3, FollowNil
    <3> QED
      BY <1>7, <1>9, <2>1, <2>3, <3>1
  <2> QED
    BY <2>2, <2>3
<1>11. CASE Old # Nil
  <2>1. New = Old /\ Old \in 0 .. nalloc - 1
    BY <1>3, <1>5, <1>11, InMemory
  <2>2. CASE Old = path[last] /\ i = index(vpn, last)
    <3>1. Old = Walk(pages, pt, vpn)[last]
      BY <1>1, <2>2
    <3>2. PICK n \in 1 .. LEVELS : n = LEVELS
      BY <1>3
    <3>3. Walk(pages, r, v)[n] # Nil /\ Walk(pages, r, v)[n] = Walk(pages, pt, vpn)[last]
      BY <1>11, <3>1, <3>2
    <3>4. r = pt /\ n = last /\ Prefix(v, vpn, n)
      BY <1>1, <3>3, OneTree
    <3>5. Same /\ i = index(vpn, LEVELS) /\ Old = path[LEVELS]
      BY <2>2, <3>2, <3>4
    <3>6. Follow(pages', New, i) = ppn
      BY <1>2, <1>3, <1>6, <2>1, <3>5
    <3> QED
      BY <1>6, <1>7, <1>9, <3>5, <3>6
  <2>3. CASE ~ (Old = path[last] /\ i = index(vpn, last))
    <3>1. Follow(pages', New, i) = Follow(pages, Old, i)
      BY <1>2, <2>1, <2>3
    <3>2. ~ (Same /\ i = index(vpn, LEVELS))
      <4> SUFFICES ASSUME Same, i = index(vpn, LEVELS) PROVE FALSE
        OBVIOUS
      <4>1. LEVELS <= last
        BY <1>1, <1>3, <1>8, <1>11
      <4>2. LEVELS = last
        BY <1>1, <1>3, <4>1
      <4> QED
        BY <1>1, <1>8, <2>3, <4>2
    <3> QED
      BY <1>7, <1>9, <3>1, <3>2
  <2> QED
    BY <2>2, <2>3
<1> QED
  BY <1>10, <1>11

LEMMA CreateIInv ==
    ASSUME IInv, NEW pt \in roots, NEW vpn \in VPN, NEW ppn \in PPN, Create(pt, vpn, ppn)
    PROVE  IInv'
<1>0. PICK last : last = LastLevel(pt, vpn)
  OBVIOUS
<1> DEFINE Old(r, v, l) == Walk(pages, r, v)[l]
           New(r, v, l) == Walk(pages', r, v)[l]
           path == Path(pt, vpn)
<1>1. MemType' /\ roots' = roots
  BY <1>0, CreateMemory
<1>2. /\ last \in 1 .. LEVELS
      /\ \A l \in last + 1 .. LEVELS : path[l] = nalloc + (l - last - 1)
      /\ \A l \in 1 .. LEVELS : Walk(pages, pt, vpn)[l] # Nil <=> l <= last
  BY <1>0, PathIs
<1>3. /\ nalloc \in Nat /\ nalloc' \in Nat /\ nalloc <= nalloc'
      /\ \A l \in last .. LEVELS : path[l] \in 0 .. nalloc' - 1
      /\ \A l, k \in last .. LEVELS : path[l] = path[k] => l = k
  BY <1>0, PathFrames, SomePages
<1>4. last \in Nat /\ LEVELS \in Nat
  BY <1>2, Weights
\* A table is where it was or new.
<1>5. ASSUME NEW r \in roots, NEW v \in VPN, NEW l \in 1 .. LEVELS, New(r, v, l) # Nil
      PROVE  \/ New(r, v, l) = Old(r, v, l) /\ New(r, v, l) \in 0 .. nalloc - 1
             \/ /\ r = pt /\ Prefix(v, vpn, l) /\ l \in last + 1 .. LEVELS
                /\ New(r, v, l) = path[l]
  <2>1. CASE Old(r, v, l) # Nil
    BY <2>1, CreateWalks, InMemory
  <2>2. CASE Old(r, v, l) = Nil
    <3>1. r = pt /\ Prefix(v, vpn, l) /\ New(r, v, l) = path[l]
      BY <1>5, <2>2, CreateWalks
    <3>2. Walk(pages, pt, vpn)[l] = Nil
      BY <2>2, <3>1, PrefixWalk
    <3>3. ~ (l <= last)
      BY <1>2, <3>2
    <3>4. l \in last + 1 .. LEVELS
      BY <1>4, <3>3
    <3> QED
      BY <3>1, <3>4
  <2> QED
    BY <2>1, <2>2
<1>6. ASSUME NEW l \in last + 1 .. LEVELS
      PROVE  path[l] \in 0 .. nalloc' - 1 /\ path[l] \notin 0 .. nalloc - 1 /\ l \in last .. LEVELS
  <2>1. l \in last .. LEVELS
    BY <1>4
  <2>2. nalloc + (l - last - 1) \notin 0 .. nalloc - 1
    BY <1>3, <1>4
  <2> QED
    BY <1>2, <1>3, <2>1, <2>2
<1> HIDE DEF path
<1>7. Stays(pages', roots', nalloc')
  <2> SUFFICES ASSUME NEW r \in roots, NEW v \in VPN, NEW l \in 1 .. LEVELS, New(r, v, l) # Nil
               PROVE  New(r, v, l) \in 0 .. nalloc' - 1
    BY <1>1 DEF Stays
  <2>1. nalloc \in Nat /\ nalloc' \in Nat /\ nalloc <= nalloc'
    BY <1>3
  <2>2. \A t \in 0 .. nalloc - 1 : t \in 0 .. nalloc' - 1
    BY <2>1, MoreFrames
  <2> QED
    BY <1>5, <1>6, <2>2
<1>8. Trees(pages', roots')
  <2> SUFFICES ASSUME NEW p \in roots, NEW q \in roots, NEW u \in VPN, NEW v \in VPN,
                      NEW l \in 1 .. LEVELS, NEW k \in 1 .. LEVELS,
                      New(p, u, l) # Nil, New(p, u, l) = New(q, v, k)
               PROVE  p = q /\ l = k /\ Prefix(u, v, l)
    BY <1>1 DEF Trees
  <2>1. PICK a : a = New(p, u, l) /\ a = New(q, v, k)
    OBVIOUS
  <2>2. \/ a = Old(p, u, l) /\ a \in 0 .. nalloc - 1
        \/ p = pt /\ Prefix(u, vpn, l) /\ l \in last + 1 .. LEVELS /\ a = path[l]
    BY <1>5, <2>1
  <2>3. \/ a = Old(q, v, k) /\ a \in 0 .. nalloc - 1
        \/ q = pt /\ Prefix(v, vpn, k) /\ k \in last + 1 .. LEVELS /\ a = path[k]
    BY <1>5, <2>1
  <2>4. CASE a \in 0 .. nalloc - 1
    <3>1. Old(p, u, l) = a /\ Old(q, v, k) = a /\ a # Nil
      BY <1>6, <2>1, <2>2, <2>3, <2>4
    <3> QED
      BY <3>1, OneTree
  <2>5. CASE a \notin 0 .. nalloc - 1
    <3>1. /\ p = pt /\ Prefix(u, vpn, l) /\ l \in last + 1 .. LEVELS /\ a = path[l]
          /\ q = pt /\ Prefix(v, vpn, k) /\ k \in last + 1 .. LEVELS /\ a = path[k]
      BY <2>2, <2>3, <2>5
    <3>2. l = k
      BY <1>3, <1>6, <3>1 DEF path
    <3> QED
      BY <3>1, <3>2 DEF Prefix
  <2> QED
    BY <2>4, <2>5
<1> QED
  BY <1>1, <1>7, <1>8 DEF IInv, Stays, Trees

-----------------------------------------------------------------------------
(***************************************************************************)
(* The invariants                                                          *)
(***************************************************************************)
LEMMA UnchangedIInv ==
    ASSUME IInv, UNCHANGED <<nalloc, pages, roots>>, exited' \in BOOLEAN
    PROVE  IInv'
<1>1. MemType'
  BY DEF IInv, MemType
<1> QED
  BY <1>1 DEF IInv, Stays, Trees

LEMMA NextIInv ==
    ASSUME IInv, [Next]_vars
    PROVE  IInv'
<1>1. CASE NewTable
  BY <1>1, NewTableIInv
<1>2. ASSUME NEW pt \in roots, NEW vpn \in VPN, page_table_update(pt, vpn)
      PROVE  IInv'
  <2>1. CASE Destroy(pt, vpn)
    BY <2>1, DestroyIInv
  <2>2. ASSUME NEW ppn \in PPN, Create(pt, vpn, ppn) PROVE IInv'
    BY <2>2, CreateIInv
  <2> QED
    BY <1>2, <2>1, <2>2 DEF page_table_update
<1>3. CASE AllocFails
  BY <1>3, UnchangedIInv DEF AllocFails
<1>4. CASE UNCHANGED vars
  BY <1>4, UnchangedIInv DEF vars, IInv, MemType
<1> QED
  BY <1>1, <1>2, <1>3, <1>4 DEF Next

\* The structure of the tables in memory, in every reachable state.
LEMMA MemoryInvariance == Spec => []IInv
<1>1. Init => IInv
  BY InitIInv
<1>2. IInv /\ [Next]_vars => IInv'
  BY NextIInv
<1> QED
  BY <1>1, <1>2, PTL DEF Spec

\* A walk never leaves the frames that have been allocated, so phys_to_virt() never
\* returns NULL, for any number of levels, bits and frames and whatever physical page
\* numbers are mapped (pt.c:12, 34, 50).
THEOREM WalksStay == Spec => []WalksStayInMemory
<1>1. IInv => WalksStayInMemory
  BY StaysIs DEF IInv
<1> QED
  BY <1>1, MemoryInvariance, PTL

\* No frame is the table of two prefixes, of two levels or of two page tables
\* (pt.c:6-66, os.c:17-36).
THEOREM TablesStayTrees == Spec => []TablesAreTrees
<1>1. IInv => TablesAreTrees
  BY TreesIs DEF IInv
<1> QED
  BY <1>1, MemoryInvariance, PTL

-----------------------------------------------------------------------------
(***************************************************************************)
(* Page tables are maps                                                    *)
(***************************************************************************)
MapOf(m, r) == [t \in 0 .. NPAGES - 1 |->
                   IF t \in r THEN [v \in VPN |-> Answer(m, t, v)] ELSE <<>>]

LEMMA MapsIs ==
    ASSUME IInv
    PROVE  Maps = MapOf(pages, roots)
<1>1. ASSUME NEW t \in roots
      PROVE  [v \in VPN |-> page_table_query(t, v)] = [v \in VPN |-> Answer(pages, t, v)]
  BY QueryIs
<1> QED
  BY <1>1 DEF Maps, MapOf

LEMMA MapsPrimed ==
    ASSUME IInv'
    PROVE  Maps' = MapOf(pages', roots')
<1>1. ASSUME NEW t \in roots'
      PROVE  [v \in VPN |-> page_table_query(t, v)'] = [v \in VPN |-> Answer(pages', t, v)]
  BY QueryPrimed
<1> QED
  BY <1>1 DEF Maps, MapOf

LEMMA MapExists ==
    ASSUME IInv, NEW t \in roots
    PROVE  /\ t \in 0 .. NPAGES - 1
           /\ Maps[t] = [v \in VPN |-> Answer(pages, t, v)] /\ Maps[t] # <<>>
<1>1. t \in 0 .. NPAGES - 1
  <2>1. PICK n \in 0 .. NPAGES : t \in 0 .. n - 1
    BY DEF IInv, MemType
  <2> QED
    BY <2>1, SomePages
<1>2. Maps[t] = [v \in VPN |-> Answer(pages, t, v)]
  BY <1>1, MapsIs DEF MapOf
<1>3. 0 \in VPN
  BY Weights
<1>4. DOMAIN Maps[t] # DOMAIN <<>>
  BY <1>2, <1>3
<1> QED
  BY <1>1, <1>2, <1>4

\* One entry of one map is changed.
LEMMA OneEntry ==
    ASSUME IInv, IInv', roots' = roots, NEW pt \in roots, NEW vpn \in VPN, NEW p,
           \A r \in roots, v \in VPN :
               Answer(pages', r, v) = IF r = pt /\ v = vpn THEN p ELSE Answer(pages, r, v)
    PROVE  Abstract!Map(pt, vpn, p)
<1>1. Maps[pt] # <<>> /\ pt \in 0 .. NPAGES - 1
  BY MapExists
<1>2. Maps' = MapOf(pages', roots)
  BY MapsPrimed
<1>3. Maps = MapOf(pages, roots)
  BY MapsIs
<1>4. ASSUME NEW r \in roots
      PROVE  [v \in VPN |-> Answer(pages', r, v)] =
                 IF r = pt THEN [[v \in VPN |-> Answer(pages, r, v)] EXCEPT ![vpn] = p]
                 ELSE [v \in VPN |-> Answer(pages, r, v)]
  OBVIOUS
<1>5. MapOf(pages', roots) = [MapOf(pages, roots) EXCEPT ![pt][vpn] = p]
  BY <1>1, <1>4 DEF MapOf
<1> QED
  BY <1>1, <1>2, <1>3, <1>5 DEF Abstract!Map

LEMMA OneMore ==
    ASSUME IInv, NewTable
    PROVE  nalloc \in 0 .. NPAGES - 1 /\ Abstract!NewTable(nalloc)
<1>1. nalloc \in 0 .. NPAGES - 1
  BY SomePages DEF IInv, MemType, NewTable
<1>2. IInv' /\ roots' = roots \cup {nalloc} /\ nalloc \notin roots
  BY NewTableIInv, NewMemory
<1>3. Maps = MapOf(pages, roots) /\ Maps' = MapOf(pages', roots \cup {nalloc})
  BY <1>2, MapsIs, MapsPrimed
<1>4. Maps[nalloc] = <<>>
  BY <1>1, <1>2, <1>3 DEF MapOf
<1>5. ASSUME NEW r \in roots
      PROVE  [v \in VPN |-> Answer(pages', r, v)] = [v \in VPN |-> Answer(pages, r, v)]
  BY NewWalks
<1>6. [v \in VPN |-> Answer(pages', nalloc, v)] = [v \in VPN |-> NO_MAPPING]
  BY NewWalks
<1>7. MapOf(pages', roots \cup {nalloc})
      = [MapOf(pages, roots) EXCEPT ![nalloc] = [v \in VPN |-> NO_MAPPING]]
  BY <1>1, <1>2, <1>5, <1>6 DEF MapOf
<1> QED
  BY <1>1, <1>3, <1>4, <1>7 DEF Abstract!NewTable

\* Each page table is a map of its own: page_table_update() changes what
\* page_table_query() returns for its own page in its own table, and for no other, for
\* any number of levels, bits and frames (pt.c:6-66).
THEOREM TablesAreMaps == Spec => PageMapSpec
<1>1. Init => Abstract!Init
  BY DEF Init, Abstract!Init, Maps
<1>2. IInv /\ [Next]_vars => [Abstract!Next]_(Abstract!vars)
  <2> SUFFICES ASSUME IInv, [Next]_vars PROVE Abstract!Next \/ UNCHANGED Abstract!vars
    OBVIOUS
  <2>1. CASE NewTable
    BY <2>1, OneMore DEF Abstract!Next
  <2>2. ASSUME NEW pt \in roots, NEW vpn \in VPN, page_table_update(pt, vpn)
        PROVE  Abstract!Next \/ UNCHANGED Abstract!vars
    <3>1. pt \in 0 .. NPAGES - 1
      BY MapExists
    <3>2. CASE Destroy(pt, vpn)
      <4>1. IInv' /\ roots' = roots
        BY <3>2, DestroyIInv, DestroyMemory
      <4>2. Abstract!Map(pt, vpn, NO_MAPPING)
        BY <3>2, <4>1, DestroyWalks, OneEntry
      <4> QED
        BY <3>1, <4>2 DEF Abstract!Next
    <3>3. ASSUME NEW ppn \in PPN, Create(pt, vpn, ppn) PROVE Abstract!Next
      <4>1. IInv' /\ roots' = roots
        BY <3>3, CreateIInv, CreateMemory
      <4>2. Abstract!Map(pt, vpn, ppn)
        BY <3>3, <4>1, CreateAnswer, OneEntry
      <4> QED
        BY <3>1, <4>2 DEF Abstract!Next
    <3> QED
      BY <2>2, <3>2, <3>3 DEF page_table_update
  <2>3. CASE AllocFails \/ UNCHANGED vars
    <3>1. IInv' /\ UNCHANGED <<pages, roots>>
      BY <2>3, NextIInv DEF AllocFails, vars
    <3> QED
      BY <3>1, MapsIs, MapsPrimed DEF Abstract!vars
  <2> QED
    BY <2>1, <2>2, <2>3 DEF Next
<1> QED
  BY <1>1, <1>2, MemoryInvariance, PTL DEF Spec, PageMapSpec, Abstract!Spec
=============================================================================
