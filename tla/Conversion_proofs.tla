-------------------------- MODULE Conversion_proofs --------------------------
(***************************************************************************)
(* What the loops of the conversions do to every string and every body:    *)
(* the lemmas the proofs about requests rest on.                           *)
(*                                                                         *)
(* The argument.  A fold and a function defined by recursion are chosen    *)
(* among the functions that satisfy an equation.  Such a function exists,  *)
(* by induction on the rank of its arguments; so the one chosen satisfies  *)
(* its equation, and what it computes follows by induction over the places *)
(* of the string.  Induction is had from the least member of a set of      *)
(* numbers.                                                                *)
(***************************************************************************)
EXTENDS Conversion, WellFoundedInduction, SequenceTheorems, FiniteSetTheorems, TLAPS

(* Induction over the natural numbers, for sets: each set of them has a     *)
(* least member, ...                                                       *)
LEMMA LeastNatural ==
  ASSUME NEW T, T \subseteq Nat, T # {}
  PROVE  \E n \in T : \A m \in T : n <= m
<1> DEFINE R == OpToRel(<, Nat)
<1>1. IsWellFoundedOn(R, Nat)
  BY NatLessThanWellFounded
<1>2. \A x, y \in Nat : x < y => <<x, y>> \in R
  BY DEF OpToRel
<1> HIDE DEF R
<1>3. PICK n \in T : \A m \in T : <<m, n>> \notin R
  BY <1>1, WFMin
<1>4. ASSUME NEW m \in T
      PROVE  n <= m
  <2>1. m \in Nat /\ n \in Nat
    OBVIOUS
  <2>2. ~ (m < n)
    BY <2>1, <1>2, <1>3
  <2> QED
    BY <2>1, <2>2
<1> QED
  BY <1>4

(* ... so a set with 0 and the successor of each of its numbers has all.   *)
LEMMA SetInduction ==
  ASSUME NEW S, 0 \in S, \A n \in Nat : n \in S => n + 1 \in S
  PROVE  Nat \subseteq S
<1> SUFFICES ASSUME Nat \ S # {} PROVE FALSE
  OBVIOUS
<1>1. PICK n \in Nat \ S : \A m \in Nat \ S : n <= m
  BY LeastNatural
<1>2. n - 1 \in Nat /\ n - 1 \notin Nat \ S
  BY <1>1
<1> QED
  BY <1>1, <1>2

(* Max, by which a fold chooses the last place, is the largest of some.    *)
LEMMA MaxOf ==
  ASSUME NEW k \in Nat, NEW s \in SUBSET (1 .. k), s # {}
  PROVE  Max(s) \in s /\ \A i \in s : Max(s) >= i
<1> DEFINE T == {k - i : i \in s}
<1>1. T \subseteq Nat /\ T # {}
  OBVIOUS
<1>2. PICK d \in T : \A e \in T : d <= e
  BY <1>1, LeastNatural
<1>3. PICK m \in s : d = k - m
  OBVIOUS
<1>4. \A i \in s : m >= i
  <2> SUFFICES ASSUME NEW i \in s PROVE m >= i
    OBVIOUS
  <2>1. k - i \in T
    OBVIOUS
  <2>2. k - m <= k - i
    BY <1>2, <1>3, <2>1
  <2>3. m \in Int /\ i \in Int
    OBVIOUS
  <2> QED
    BY <2>2, <2>3
<1>5. \E x \in s : \A y \in s : x >= y
  BY <1>4
<1> QED
  BY <1>5 DEF Max

(* A function on I is defined by recursion: its value at a place is known, *)
(* or made of its value at a next place, which has a lower rank.           *)
WellFounded(I, T, N, rank, stop, leaf, next, G) ==
  /\ N \in Nat /\ rank \in [I -> 0 .. N]
  /\ stop \in SUBSET I /\ leaf \in [stop -> T]
  /\ next \in [I \ stop -> I] /\ G \in [(I \ stop) \X T -> T]
  /\ \A i \in I \ stop : rank[next[i]] < rank[i]

Follows(f, I, stop, leaf, next, G) ==
  \A i \in I : f[i] = IF i \in stop THEN leaf[i] ELSE G[<<i, f[next[i]]>>]

(* There is such a function.                                               *)
LEMMA Recursion ==
  ASSUME NEW I, NEW T, NEW N, NEW rank, NEW stop, NEW leaf, NEW next, NEW G,
         WellFounded(I, T, N, rank, stop, leaf, next, G)
  PROVE  \E f \in [I -> T] : Follows(f, I, stop, leaf, next, G)
<1> USE DEF WellFounded
<1> DEFINE Below(k) == {i \in I : rank[i] < k}
           Solves(f, S) ==
             \A i \in S : f[i] = IF i \in stop THEN leaf[i]
                                 ELSE G[<<i, f[next[i]]>>]
           Has(k) == \E f \in [Below(k) -> T] : Solves(f, Below(k))
           S == {k \in Nat : Has(k)}
<1>1. Has(0)
  <2> DEFINE f == [i \in Below(0) |-> leaf[i]]
  <2>1. Below(0) = {}
    OBVIOUS
  <2>2. f \in [Below(0) -> T] /\ Solves(f, Below(0))
    BY <2>1
  <2> QED
    BY <2>2
<1>2. ASSUME NEW k \in Nat, Has(k)
      PROVE  Has(k + 1)
  <2>1. PICK f \in [Below(k) -> T] : Solves(f, Below(k))
    BY <1>2
  <2> DEFINE h == [i \in Below(k + 1) |-> IF i \in stop THEN leaf[i]
                                          ELSE G[<<i, f[next[i]]>>]]
  <2>2. ASSUME NEW i \in Below(k + 1), i \notin stop
        PROVE  next[i] \in Below(k) /\ next[i] \in Below(k + 1)
    <3>1. i \in I /\ rank[i] \in Nat /\ rank[i] < k + 1
      OBVIOUS
    <3>2. next[i] \in I /\ rank[next[i]] \in Nat /\ rank[next[i]] < rank[i]
      BY <2>2, <3>1
    <3> QED
      BY <3>1, <3>2
  <2>3. Below(k) \subseteq Below(k + 1)
    OBVIOUS
  <2>4. h \in [Below(k + 1) -> T]
    <3> SUFFICES ASSUME NEW i \in Below(k + 1)
                 PROVE  (IF i \in stop THEN leaf[i] ELSE G[<<i, f[next[i]]>>]) \in T
      OBVIOUS
    <3>1. CASE i \in stop
      BY <3>1
    <3>2. CASE i \notin stop
      <4>1. f[next[i]] \in T /\ i \in I \ stop
        BY <2>2, <3>2
      <4> QED
        BY <3>2, <4>1
    <3> QED
      BY <3>1, <3>2
  <2>5. \A i \in Below(k) : h[i] = f[i]
    BY <2>1, <2>3
  <2>6. Solves(h, Below(k + 1))
    <3> SUFFICES ASSUME NEW i \in Below(k + 1)
                 PROVE  h[i] = IF i \in stop THEN leaf[i] ELSE G[<<i, h[next[i]]>>]
      OBVIOUS
    <3>1. h[i] = IF i \in stop THEN leaf[i] ELSE G[<<i, f[next[i]]>>]
      OBVIOUS
    <3>2. i \notin stop => h[next[i]] = f[next[i]]
      BY <2>2, <2>5
    <3> HIDE DEF h
    <3> QED
      BY <3>1, <3>2
  <2> QED
    BY <2>4, <2>6
<1> HIDE DEF Has
<1>3. 0 \in S /\ \A k \in Nat : k \in S => k + 1 \in S
  BY <1>1, <1>2
<1>4. Nat \subseteq S
  <2> HIDE DEF S
  <2> QED
    BY <1>3, SetInduction
<1>5. Has(N + 1)
  BY <1>4
<1>6. Below(N + 1) = I
  OBVIOUS
<1> QED
  BY <1>5, <1>6 DEF Has, Follows

(* What a fold over the places 1 .. n is chosen to be: F's value for each  *)
(* set of places, the largest place last.                                  *)
Iterates(g, F, base, n) ==
  \A s \in SUBSET (1 .. n) :
    g[s] = IF s = {} THEN base ELSE F[<<g[s \ {Max(s)}], Max(s)>>]

(* There is such a function.                                               *)
LEMMA IterationExists ==
  ASSUME NEW A, NEW base \in A, NEW n \in Nat, NEW F \in [A \X (1 .. n) -> A]
  PROVE  \E g \in [SUBSET (1 .. n) -> A] : Iterates(g, F, base, n)
<1> DEFINE I == SUBSET (1 .. n)
           stop == {{}}
           rank == [s \in I |-> IF s = {} THEN 0 ELSE Max(s)]
           leaf == [s \in stop |-> base]
           next == [s \in I \ stop |-> s \ {Max(s)}]
           G == [p \in (I \ stop) \X A |-> F[<<p[2], Max(p[1])>>]]
<1>1. ASSUME NEW s \in I \ stop
      PROVE  /\ Max(s) \in 1 .. n /\ next[s] \in I
             /\ rank[s] = Max(s)
             /\ rank[next[s]] < rank[s]
  <2>1. s # {} /\ s \in SUBSET (1 .. n)
    OBVIOUS
  <2>2. Max(s) \in s /\ \A i \in s : Max(s) >= i
    BY <2>1, MaxOf
  <2>3. Max(s) \in 1 .. n /\ next[s] = s \ {Max(s)} /\ next[s] \in I
    BY <2>1, <2>2
  <2>4. CASE s \ {Max(s)} = {}
    BY <2>1, <2>3, <2>4
  <2>5. CASE s \ {Max(s)} # {}
    <3> DEFINE m == Max(s \ {Max(s)})
    <3>1. m \in s \ {Max(s)}
      BY <2>3, <2>5, MaxOf
    <3>2. m < Max(s)
      BY <2>1, <2>2, <2>3, <3>1
    <3> QED
      BY <2>1, <2>3, <2>5, <3>2
  <2> QED
    BY <2>1, <2>3, <2>4, <2>5
<1>2. rank \in [I -> 0 .. n] /\ stop \in SUBSET I /\ leaf \in [stop -> A]
  <2>1. ASSUME NEW s \in I
        PROVE  (IF s = {} THEN 0 ELSE Max(s)) \in 0 .. n
    <3>1. s # {} => Max(s) \in 1 .. n
      BY <1>1
    <3> QED
      BY <3>1
  <2> QED
    BY <2>1
<1>3. next \in [I \ stop -> I]
  BY <1>1
<1>4. G \in [(I \ stop) \X A -> A]
  <2>1. ASSUME NEW p \in (I \ stop) \X A
        PROVE  F[<<p[2], Max(p[1])>>] \in A
    <3>1. p[1] \in I \ stop /\ p[2] \in A
      OBVIOUS
    <3> QED
      BY <1>1, <3>1
  <2> QED
    BY <2>1
<1> HIDE DEF rank
<1>5. PICK g \in [I -> A] : Follows(g, I, stop, leaf, next, G)
  <2>1. \A s \in I \ stop : rank[next[s]] < rank[s]
    BY <1>1
  <2> HIDE DEF I, stop, leaf, next, G
  <2>2. WellFounded(I, A, n, rank, stop, leaf, next, G)
    BY <1>2, <1>3, <1>4, <2>1 DEF WellFounded
  <2> QED
    BY <2>2, Recursion
<1>6. ASSUME NEW s \in SUBSET (1 .. n)
      PROVE  g[s] = IF s = {} THEN base ELSE F[<<g[s \ {Max(s)}], Max(s)>>]
  <2>1. CASE s = {}
    BY <1>5, <2>1 DEF Follows
  <2>2. CASE s # {}
    <3>1. g[s] = G[<<s, g[s \ {Max(s)}]>>]
      BY <1>5, <2>2 DEF Follows
    <3>2. s \ {Max(s)} \in I /\ <<s, g[s \ {Max(s)}]>> \in (I \ stop) \X A
      BY <2>2
    <3> QED
      BY <2>2, <3>1, <3>2
  <2> QED
    BY <2>1, <2>2
<1> QED
  BY <1>6 DEF Iterates

(* Of the first places, the last one is taken before the others.           *)
LEMMA TopOfPrefix ==
  ASSUME NEW k \in Nat
  PROVE  Max(1 .. k + 1) = k + 1 /\ (1 .. k + 1) \ {k + 1} = 1 .. k
<1>1. k + 1 \in Nat /\ 1 .. k + 1 \in SUBSET (1 .. k + 1) /\ k + 1 \in 1 .. k + 1
  OBVIOUS
<1>2. Max(1 .. k + 1) \in 1 .. k + 1 /\ Max(1 .. k + 1) >= k + 1
  BY <1>1, MaxOf
<1>3. (1 .. k + 1) \ {k + 1} = 1 .. k
  OBVIOUS
<1> QED
  BY <1>2, <1>3

-----------------------------------------------------------------------------
(* What Sent is: a sum, place by place.                                    *)
LEMMA SumIs ==
  ASSUME NEW bufs \in Seq(Buffer)
  PROVE  \E g :
           /\ g[{}] = 0
           /\ \A k \in 0 .. Len(bufs) - 1 :
                g[1 .. k + 1] = g[1 .. k] + bufs[k + 1].size
           /\ FoldLeft(LAMBDA m, b : m + b.size, 0, bufs) = g[1 .. Len(bufs)]
<1> DEFINE n == Len(bufs)
           F == [p \in Nat \X (1 .. n) |-> p[1] + bufs[p[2]].size]
           Sums(f) == f = [s \in SUBSET (DOMAIN bufs) |->
                             IF s = {} THEN 0
                             ELSE f[s \ {Max(s)}] + bufs[Max(s)].size]
           g == CHOOSE f : Sums(f)
<1>1. n \in Nat /\ DOMAIN bufs = 1 .. n /\ \A i \in 1 .. n : bufs[i].size \in Nat
  <2>1. \A i \in 1 .. n : bufs[i] \in Buffer
    OBVIOUS
  <2> QED
    BY <2>1 DEF Buffer
<1>2. F \in [Nat \X (1 .. n) -> Nat]
  BY <1>1
<1>3. FoldLeft(LAMBDA m, b : m + b.size, 0, bufs) = g[DOMAIN bufs]
  BY DEF FoldLeft, MapThenFoldSet
<1>4. \A s \in SUBSET (1 .. n) : s # {} => Max(s) \in 1 .. n
  BY <1>1, MaxOf
<1>5. ASSUME NEW f \in [SUBSET (1 .. n) -> Nat], Iterates(f, F, 0, n)
      PROVE  Sums(f)
  <2>1. ASSUME NEW s \in SUBSET (1 .. n)
        PROVE  f[s] = IF s = {} THEN 0 ELSE f[s \ {Max(s)}] + bufs[Max(s)].size
    <3>1. CASE s = {}
      BY <1>5, <3>1 DEF Iterates
    <3>2. CASE s # {}
      <4>1. f[s] = F[<<f[s \ {Max(s)}], Max(s)>>]
        BY <1>5, <3>2 DEF Iterates
      <4>2. f[s \ {Max(s)}] \in Nat /\ Max(s) \in 1 .. n
        BY <1>4, <3>2
      <4> QED
        BY <3>2, <4>1, <4>2
    <3> QED
      BY <3>1, <3>2
  <2> QED
    BY <1>1, <2>1
<1>6. PICK f0 \in [SUBSET (1 .. n) -> Nat] : Iterates(f0, F, 0, n)
  BY <1>1, <1>2, IterationExists
<1>7. Sums(g)
  <2> HIDE DEF Sums
  <2> QED
    BY <1>5, <1>6
<1>8. ASSUME NEW s \in SUBSET (1 .. n)
      PROVE  g[s] = IF s = {} THEN 0 ELSE g[s \ {Max(s)}] + bufs[Max(s)].size
  <2> HIDE DEF g
  <2> QED
    BY <1>1, <1>7
<1> HIDE DEF g
<1>9. g[{}] = 0
  BY <1>8
<1>10. ASSUME NEW k \in 0 .. n - 1
       PROVE  g[1 .. k + 1] = g[1 .. k] + bufs[k + 1].size
  <2>1. k \in Nat /\ 1 .. k + 1 \in SUBSET (1 .. n) /\ k + 1 \in 1 .. k + 1
    BY <1>1
  <2>2. Max(1 .. k + 1) = k + 1 /\ (1 .. k + 1) \ {k + 1} = 1 .. k
    BY <2>1, TopOfPrefix
  <2> QED
    BY <1>8, <2>1, <2>2
<1> QED
  BY <1>1, <1>3, <1>9, <1>10

(* What get_post_body's loop leaves, place by place: the room it has for   *)
(* what it reads from a file, and how much it appended.                    *)
LEMMA BodyIs ==
  ASSUME NEW bufs \in Seq(Buffer)
  PROVE  \E g :
           /\ g[{}] = [room |-> 0, size |-> 0]
           /\ \A k \in 0 .. Len(bufs) - 1 :
                LET b == bufs[k + 1]
                    room == IF b.kind = "file" /\ b.size > g[1 .. k].room
                            THEN b.size ELSE g[1 .. k].room
                IN g[1 .. k + 1] =
                     [room |-> room,
                      size |-> g[1 .. k].size + IF b.kind = "memory" \/ b.size = 0
                                                THEN b.size ELSE room]
           /\ GetPostBody(bufs) = g[1 .. Len(bufs)].size
<1> DEFINE n == Len(bufs)
           A == [room : Nat, size : Nat]
           Larger(m, b) == IF b.kind = "file" /\ b.size > m THEN b.size ELSE m
           Add(acc, b) == [room |-> Larger(acc.room, b),
                           size |-> acc.size + IF b.kind = "memory" \/ b.size = 0
                                               THEN b.size ELSE Larger(acc.room, b)]
           base == [room |-> 0, size |-> 0]
           F == [p \in A \X (1 .. n) |-> Add(p[1], bufs[p[2]])]
           Adds(f) == f = [s \in SUBSET (DOMAIN bufs) |->
                             IF s = {} THEN base
                             ELSE Add(f[s \ {Max(s)}], bufs[Max(s)])]
           g == CHOOSE f : Adds(f)
<1>1. n \in Nat /\ DOMAIN bufs = 1 .. n /\ \A i \in 1 .. n : bufs[i] \in Buffer
  OBVIOUS
<1>2. F \in [A \X (1 .. n) -> A]
  <2>1. ASSUME NEW acc \in A, NEW b \in Buffer
        PROVE  Add(acc, b) \in A
    BY DEF Buffer
  <2> HIDE DEF Add, A
  <2> QED
    BY <1>1, <2>1
<1>3. GetPostBody(bufs) = g[DOMAIN bufs].size
  BY DEF GetPostBody, FoldLeft, MapThenFoldSet
<1>4. \A s \in SUBSET (1 .. n) : s # {} => Max(s) \in 1 .. n
  BY <1>1, MaxOf
<1>5. ASSUME NEW f \in [SUBSET (1 .. n) -> A], Iterates(f, F, base, n)
      PROVE  Adds(f)
  <2> HIDE DEF Add, A, base
  <2>1. ASSUME NEW s \in SUBSET (1 .. n)
        PROVE  f[s] = IF s = {} THEN base ELSE Add(f[s \ {Max(s)}], bufs[Max(s)])
    <3>1. CASE s = {}
      BY <1>5, <3>1 DEF Iterates
    <3>2. CASE s # {}
      <4>1. f[s] = F[<<f[s \ {Max(s)}], Max(s)>>]
        BY <1>5, <3>2 DEF Iterates
      <4>2. f[s \ {Max(s)}] \in A /\ Max(s) \in 1 .. n
        BY <1>4, <3>2
      <4> QED
        BY <3>2, <4>1, <4>2
    <3> QED
      BY <3>1, <3>2
  <2> QED
    BY <1>1, <2>1
<1>6. PICK f0 \in [SUBSET (1 .. n) -> A] : Iterates(f0, F, base, n)
  <2>1. base \in A
    OBVIOUS
  <2> HIDE DEF A, base, F
  <2> QED
    BY <1>1, <1>2, <2>1, IterationExists
<1>7. Adds(g)
  <2> HIDE DEF Adds
  <2> QED
    BY <1>5, <1>6
<1>8. ASSUME NEW s \in SUBSET (1 .. n)
      PROVE  g[s] = IF s = {} THEN base ELSE Add(g[s \ {Max(s)}], bufs[Max(s)])
  <2> HIDE DEF g, Add, base
  <2> QED
    BY <1>1, <1>7
<1>9. g[{}] = base
  <2> HIDE DEF g, base
  <2> QED
    BY <1>8
<1>10. ASSUME NEW k \in 0 .. n - 1
       PROVE  g[1 .. k + 1] = Add(g[1 .. k], bufs[k + 1])
  <2> HIDE DEF g, Add
  <2>1. k \in Nat /\ 1 .. k + 1 \in SUBSET (1 .. n) /\ k + 1 \in 1 .. k + 1
    BY <1>1
  <2>2. Max(1 .. k + 1) = k + 1 /\ (1 .. k + 1) \ {k + 1} = 1 .. k
    BY <2>1, TopOfPrefix
  <2> QED
    BY <1>8, <2>1, <2>2
<1> HIDE DEF g
<1> QED
  BY <1>1, <1>3, <1>9, <1>10

(* The loop's body is whole if at most one buffer is in a file: the room   *)
(* for it is made then, and is as large as it is.                          *)
LEMMA WholeBody ==
  ASSUME NEW bufs \in Seq(Buffer),
         \A i, j \in DOMAIN bufs :
           bufs[i].kind = "file" /\ bufs[j].kind = "file" => i = j
  PROVE  GetPostBody(bufs) = FoldLeft(LAMBDA m, b : m + b.size, 0, bufs)
<1> DEFINE n == Len(bufs)
<1>1. n \in Nat /\ DOMAIN bufs = 1 .. n
  OBVIOUS
<1>2. \A i \in 1 .. n : bufs[i].kind \in {"memory", "file"} /\ bufs[i].size \in Nat
  <2>1. \A i \in 1 .. n : bufs[i] \in Buffer
    OBVIOUS
  <2> QED
    BY <2>1 DEF Buffer
<1>3. PICK g : /\ g[{}] = 0
               /\ \A k \in 0 .. n - 1 : g[1 .. k + 1] = g[1 .. k] + bufs[k + 1].size
               /\ FoldLeft(LAMBDA m, b : m + b.size, 0, bufs) = g[1 .. n]
  BY SumIs
<1>4. PICK h : /\ h[{}] = [room |-> 0, size |-> 0]
               /\ \A k \in 0 .. n - 1 :
                    LET b == bufs[k + 1]
                        room == IF b.kind = "file" /\ b.size > h[1 .. k].room
                                THEN b.size ELSE h[1 .. k].room
                    IN h[1 .. k + 1] =
                         [room |-> room,
                          size |-> h[1 .. k].size + IF b.kind = "memory" \/ b.size = 0
                                                    THEN b.size ELSE room]
               /\ GetPostBody(bufs) = h[1 .. n].size
  BY BodyIs
<1> DEFINE Same(k) == /\ g[1 .. k] \in Nat
                      /\ h[1 .. k].size = g[1 .. k]
                      /\ (\A i \in 1 .. k : bufs[i].kind # "file") => h[1 .. k].room = 0
           S == {k \in Nat : k <= n => Same(k)}
<1>5. Same(0)
  <2>1. 1 .. 0 = {}
    OBVIOUS
  <2>2. g[1 .. 0] = 0 /\ h[1 .. 0] = [room |-> 0, size |-> 0]
    BY <1>3, <1>4, <2>1
  <2> QED
    BY <2>2
<1>6. ASSUME NEW k \in Nat, Same(k), k + 1 <= n
      PROVE  Same(k + 1)
  <2> DEFINE b == bufs[k + 1]
  <2>1. k \in 0 .. n - 1 /\ k + 1 \in 1 .. n
    BY <1>1, <1>6
  <2>2. b.kind \in {"memory", "file"} /\ b.size \in Nat
    BY <1>2, <2>1
  <2>3. g[1 .. k + 1] = g[1 .. k] + b.size
    BY <1>3, <2>1
  <2> DEFINE room == IF b.kind = "file" /\ b.size > h[1 .. k].room
                     THEN b.size ELSE h[1 .. k].room
             part == IF b.kind = "memory" \/ b.size = 0 THEN b.size ELSE room
  <2>4. h[1 .. k + 1] = [room |-> room, size |-> h[1 .. k].size + part]
    BY <1>4, <2>1
  <2>5. h[1 .. k + 1].room = room /\ h[1 .. k + 1].size = h[1 .. k].size + part
    BY <2>4
  <2>6. CASE b.kind = "memory"
    <3>1. h[1 .. k + 1].room = h[1 .. k].room /\ h[1 .. k + 1].size = h[1 .. k].size + b.size
      BY <2>5, <2>6
    <3>2. 1 .. k \subseteq 1 .. k + 1
      OBVIOUS
    <3> QED
      BY <1>6, <2>2, <2>3, <3>1, <3>2
  <2>7. CASE b.kind = "file"
    <3>1. \A i \in 1 .. k : bufs[i].kind # "file"
      BY <1>1, <2>1, <2>7
    <3>2. h[1 .. k].room = 0 /\ h[1 .. k].size = g[1 .. k]
      BY <1>6, <3>1
    <3>3. h[1 .. k + 1].size = h[1 .. k].size + b.size
      <4>1. part = b.size
        BY <2>2, <2>7, <3>2
      <4> QED
        BY <2>5, <4>1
    <3>4. k + 1 \in 1 .. k + 1 /\ bufs[k + 1].kind = "file"
      BY <2>7
    <3> QED
      BY <1>6, <2>2, <2>3, <3>2, <3>3, <3>4
  <2> QED
    BY <2>2, <2>6, <2>7
<1> HIDE DEF Same
<1>7. 0 \in S
  BY <1>5
<1>8. \A k \in Nat : k \in S => k + 1 \in S
  BY <1>6
<1>9. Nat \subseteq S
  <2> HIDE DEF S
  <2> QED
    BY <1>7, <1>8, SetInduction
<1>10. Same(n)
  BY <1>1, <1>9
<1> QED
  BY <1>3, <1>4, <1>10 DEF Same

-----------------------------------------------------------------------------
(* What uri_decode's loop appends for the character at i, ...              *)
Piece(s, i) ==
  IF Escape(s, i) THEN Escaped(s, i) ELSE IF s[i] = Plus THEN Space ELSE s[i]

(* ... and where it goes on.                                               *)
After(s, i) == IF Escape(s, i) THEN i + 3 ELSE i + 1

(* A character stands for a digit, or for none.                             *)
LEMMA HexIs ==
  ASSUME NEW c \in Byte
  PROVE  HEX2DEC(c) \in Int
BY DEF HEX2DEC, Byte

(* What UriDecode does, character by character.                             *)
LEMMA DecodeIs ==
  ASSUME NEW s \in Seq(Byte)
  PROVE  \E f :
           /\ \A i \in 1 .. Len(s) + 1 :
                f[i] = IF i > Len(s) - 2 THEN SubSeq(s, i, Len(s))
                       ELSE <<Piece(s, i)>> \o f[After(s, i)]
           /\ UriDecode(s) = f[1]
<1> DEFINE n == Len(s)
           I == 1 .. n + 1
           rank == [i \in I |-> n + 1 - i]
           stop == {i \in I : i > n - 2}
           leaf == [i \in stop |-> SubSeq(s, i, n)]
           next == [i \in I \ stop |-> After(s, i)]
           G == [p \in (I \ stop) \X Seq(Int) |-> <<Piece(s, p[1])>> \o p[2]]
           From(f) == f = [i \in I |->
             IF i > n - 2 THEN SubSeq(s, i, n)
             ELSE IF Escape(s, i) THEN <<Escaped(s, i)>> \o f[i + 3]
             ELSE <<IF s[i] = Plus THEN Space ELSE s[i]>> \o f[i + 1]]
           g == CHOOSE f : From(f)
<1>0. \A b \in Byte : b \in Int
  BY DEF Byte
<1>1. n \in Nat /\ \A i \in 1 .. n : s[i] \in Byte
  OBVIOUS
<1>2. UriDecode(s) = g[1]
  BY DEF UriDecode
<1>3. ASSUME NEW i \in I \ stop
      PROVE  /\ i \in 1 .. n /\ i + 2 <= n
             /\ Piece(s, i) \in Int
             /\ After(s, i) \in I /\ After(s, i) > i
             /\ next[i] = After(s, i)
  <2>1. i \in Nat /\ i >= 1 /\ i + 2 <= n
    BY <1>1
  <2>2. s[i] \in Byte /\ s[i + 1] \in Byte /\ s[i + 2] \in Byte
    BY <1>1, <2>1
  <2>3. HEX2DEC(s[i + 1]) \in Int /\ HEX2DEC(s[i + 2]) \in Int
    BY <2>2, HexIs
  <2>4. Piece(s, i) \in Int
    <3>1. s[i] \in Int /\ Space \in Int
      BY <1>0, <2>2 DEF Space
    <3>2. Escaped(s, i) \in Int
      BY <2>3 DEF Escaped
    <3> QED
      BY <3>1, <3>2 DEF Piece
  <2>5. After(s, i) \in I /\ After(s, i) > i
    BY <1>1, <2>1 DEF After
  <2> QED
    BY <2>1, <2>4, <2>5
<1>4. ASSUME NEW i \in I
      PROVE  SubSeq(s, i, n) \in Seq(Int)
  <2>1. \A j \in i .. n : j \in 1 .. n
    BY <1>1
  <2>2. \A j \in i .. n : s[j] \in Int
    BY <1>0, <1>1, <2>1
  <2> QED
    BY <1>1, <2>2, SubSeqProperties
<1>5. ASSUME NEW p \in (I \ stop) \X Seq(Int)
      PROVE  <<Piece(s, p[1])>> \o p[2] \in Seq(Int)
  <2>1. <<Piece(s, p[1])>> \in Seq(Int) /\ p[2] \in Seq(Int)
    BY <1>3
  <2> QED
    BY <2>1, ConcatProperties
<1>6. WellFounded(I, Seq(Int), n + 1, rank, stop, leaf, next, G)
  <2>1. n + 1 \in Nat /\ rank \in [I -> 0 .. n + 1] /\ stop \in SUBSET I
    BY <1>1
  <2>2. leaf \in [stop -> Seq(Int)]
    BY <1>4
  <2>3. next \in [I \ stop -> I]
    BY <1>3
  <2>4. G \in [(I \ stop) \X Seq(Int) -> Seq(Int)]
    BY <1>5
  <2>5. \A i \in I \ stop : rank[next[i]] < rank[i]
    BY <1>1, <1>3
  <2> HIDE DEF I, rank, stop, leaf, next, G
  <2> QED
    BY <2>1, <2>2, <2>3, <2>4, <2>5 DEF WellFounded
<1>7. PICK h \in [I -> Seq(Int)] : Follows(h, I, stop, leaf, next, G)
  <2> HIDE DEF I, rank, stop, leaf, next, G
  <2> QED
    BY <1>6, Recursion
<1>8. ASSUME NEW i \in I
      PROVE  h[i] = IF i > n - 2 THEN SubSeq(s, i, n)
                    ELSE IF Escape(s, i) THEN <<Escaped(s, i)>> \o h[i + 3]
                    ELSE <<IF s[i] = Plus THEN Space ELSE s[i]>> \o h[i + 1]
  <2>1. CASE i > n - 2
    BY <1>7, <2>1 DEF Follows
  <2>2. CASE ~ (i > n - 2)
    <3>1. i \in I \ stop
      BY <2>2
    <3>2. h[i] = G[<<i, h[After(s, i)]>>]
      BY <1>7, <1>3, <3>1 DEF Follows
    <3>3. <<i, h[After(s, i)]>> \in (I \ stop) \X Seq(Int)
      BY <1>3, <3>1
    <3>4. h[i] = <<Piece(s, i)>> \o h[After(s, i)]
      BY <3>2, <3>3
    <3> QED
      BY <2>2, <3>4 DEF Piece, After
  <2> QED
    BY <2>1, <2>2
<1>9. From(g)
  <2>1. From(h)
    BY <1>8
  <2> HIDE DEF From
  <2> QED
    BY <2>1
<1>10. ASSUME NEW i \in I
       PROVE  g[i] = IF i > n - 2 THEN SubSeq(s, i, n)
                     ELSE <<Piece(s, i)>> \o g[After(s, i)]
  <2> HIDE DEF g
  <2>1. g[i] = IF i > n - 2 THEN SubSeq(s, i, n)
               ELSE IF Escape(s, i) THEN <<Escaped(s, i)>> \o g[i + 3]
               ELSE <<IF s[i] = Plus THEN Space ELSE s[i]>> \o g[i + 1]
    BY <1>9
  <2> QED
    BY <2>1 DEF Piece, After
<1> HIDE DEF g
<1> QED
  BY <1>2, <1>10

(* What FlattenSeq does, sequence by sequence.                              *)
LEMMA FlattenIs ==
  ASSUME NEW T, NEW seqs \in Seq(Seq(T)), Len(seqs) > 0
  PROVE  \E f \in [1 .. Len(seqs) -> Seq(T)] :
           /\ f[1] = seqs[1]
           /\ \A i \in 2 .. Len(seqs) : f[i] = f[i - 1] \o seqs[i]
           /\ FlattenSeq(seqs) = f[Len(seqs)]
<1> DEFINE n == Len(seqs)
           I == 1 .. n
           rank == [i \in I |-> i]
           stop == {1}
           leaf == [i \in stop |-> seqs[1]]
           next == [i \in I \ stop |-> i - 1]
           G == [p \in (I \ stop) \X Seq(T) |-> p[2] \o seqs[p[1]]]
           Flat(f) == f = [i \in I |-> IF i = 1 THEN seqs[i] ELSE f[i - 1] \o seqs[i]]
           g == CHOOSE f : Flat(f)
<1>1. n \in Nat /\ 1 \in I /\ \A i \in I : seqs[i] \in Seq(T)
  OBVIOUS
<1>2. FlattenSeq(seqs) = g[n]
  BY <1>1 DEF FlattenSeq
<1>3. ASSUME NEW p \in (I \ stop) \X Seq(T)
      PROVE  p[2] \o seqs[p[1]] \in Seq(T)
  BY <1>1, ConcatProperties
<1>4. WellFounded(I, Seq(T), n, rank, stop, leaf, next, G)
  <2>1. n \in Nat /\ rank \in [I -> 0 .. n] /\ stop \in SUBSET I
    BY <1>1
  <2>2. leaf \in [stop -> Seq(T)]
    BY <1>1
  <2>3. next \in [I \ stop -> I]
    BY <1>1
  <2>4. G \in [(I \ stop) \X Seq(T) -> Seq(T)]
    BY <1>3
  <2>5. \A i \in I \ stop : rank[next[i]] < rank[i]
    BY <1>1
  <2> HIDE DEF I, rank, stop, leaf, next, G
  <2> QED
    BY <2>1, <2>2, <2>3, <2>4, <2>5 DEF WellFounded
<1>5. PICK h \in [I -> Seq(T)] : Follows(h, I, stop, leaf, next, G)
  <2> HIDE DEF I, rank, stop, leaf, next, G
  <2> QED
    BY <1>4, Recursion
<1>6. Flat(h)
  <2>1. ASSUME NEW i \in I
        PROVE  h[i] = IF i = 1 THEN seqs[i] ELSE h[i - 1] \o seqs[i]
    <3>1. CASE i = 1
      BY <1>5, <3>1 DEF Follows
    <3>2. CASE i # 1
      <4>1. i \in I \ stop /\ i - 1 \in I
        BY <3>2
      <4>2. h[i] = G[<<i, h[i - 1]>>]
        BY <1>5, <4>1 DEF Follows
      <4>3. <<i, h[i - 1]>> \in (I \ stop) \X Seq(T)
        BY <4>1
      <4> QED
        BY <3>2, <4>2, <4>3
    <3> QED
      BY <3>1, <3>2
  <2> QED
    BY <2>1
<1>7. Flat(g)
  <2> HIDE DEF Flat
  <2> QED
    BY <1>6
<1>8. \A i \in I : g[i] = IF i = 1 THEN seqs[i] ELSE g[i - 1] \o seqs[i]
  <2> HIDE DEF g
  <2> QED
    BY <1>7
<1>9. g \in [I -> Seq(T)]
  <2> HIDE DEF g
  <2> DEFINE S == {k \in Nat : k + 1 \in I => g[k + 1] \in Seq(T)}
  <2>1. 0 \in S
    BY <1>1, <1>8
  <2>2. ASSUME NEW k \in Nat, k \in S
        PROVE  k + 1 \in S
    <3> SUFFICES ASSUME k + 2 \in I
                 PROVE  g[k + 2] \in Seq(T)
      OBVIOUS
    <3>1. k + 1 \in I /\ g[k + 1] \in Seq(T)
      BY <1>1, <2>2
    <3>2. g[k + 2] = g[k + 1] \o seqs[k + 2]
      <4>1. k + 2 \in I /\ k + 2 # 1 /\ (k + 2) - 1 = k + 1
        OBVIOUS
      <4> QED
        BY <1>8, <4>1
    <3> QED
      BY <1>1, <3>1, <3>2, ConcatProperties
  <2>3. Nat \subseteq S
    <3> HIDE DEF S
    <3> QED
      BY <2>1, <2>2, SetInduction
  <2>4. ASSUME NEW i \in I
        PROVE  g[i] \in Seq(T)
    <3>1. i - 1 \in Nat /\ (i - 1) + 1 = i
      OBVIOUS
    <3> QED
      BY <2>3, <3>1
  <2> QED
    BY <1>7, <2>4
<1> HIDE DEF g
<1>10. g[1] = seqs[1]
  BY <1>1, <1>8
<1>11. ASSUME NEW i \in 2 .. n
       PROVE  g[i] = g[i - 1] \o seqs[i]
  <2>1. i \in I /\ i # 1
    OBVIOUS
  <2> QED
    BY <1>8, <2>1
<1> QED
  BY <1>2, <1>9, <1>10, <1>11

(* What UriEncode writes for a byte.                                       *)
CodeOf(c) == IF c \in SAFE THEN <<c>>
             ELSE <<Percent, DEC2HEX(c \div 16), DEC2HEX(c % 16)>>

(* The code of a byte is a string of bytes, ...                             *)
LEMMA CodeType ==
  ASSUME NEW c \in Byte
  PROVE  CodeOf(c) \in Seq(Byte)
<1>1. c \div 16 \in 0 .. 15 /\ c % 16 \in 0 .. 15
  BY DEF Byte
<1>2. \A d \in 0 .. 15 : DEC2HEX(d) \in Byte
  BY DEF DEC2HEX, Byte
<1>3. Percent \in Byte
  BY DEF Percent, Byte
<1> QED
  BY <1>1, <1>2, <1>3 DEF CodeOf

(* ... from whose digits the byte can be had.                               *)
LEMMA CodeValue ==
  ASSUME NEW c \in Byte
  PROVE  /\ HEX2DEC(DEC2HEX(c \div 16)) # -1 /\ HEX2DEC(DEC2HEX(c % 16)) # -1
         /\ 16 * HEX2DEC(DEC2HEX(c \div 16)) + HEX2DEC(DEC2HEX(c % 16)) = c
<1>1. c \div 16 \in 0 .. 15 /\ c % 16 \in 0 .. 15 /\ 16 * (c \div 16) + (c % 16) = c
  BY DEF Byte
<1>2. \A d \in 0 .. 15 : HEX2DEC(DEC2HEX(d)) = d
  BY DEF DEC2HEX, HEX2DEC
<1> QED
  BY <1>1, <1>2

(* What UriEncode does, byte by byte: h[i] is what the first i bytes become.*)
LEMMA EncodeIs ==
  ASSUME NEW s \in Seq(Byte)
  PROVE  \E h \in [0 .. Len(s) -> Seq(Byte)] :
           /\ h[0] = <<>>
           /\ \A i \in 1 .. Len(s) : h[i] = h[i - 1] \o CodeOf(s[i])
           /\ UriEncode(s) = h[Len(s)]
<1> DEFINE n == Len(s)
           codes == [i \in DOMAIN s |-> CodeOf(s[i])]
<1>1. n \in Nat /\ DOMAIN s = 1 .. n /\ \A i \in 1 .. n : s[i] \in Byte
  OBVIOUS
<1>2. \A i \in 1 .. n : CodeOf(s[i]) \in Seq(Byte)
  BY <1>1, CodeType
<1>3. codes \in Seq(Seq(Byte)) /\ Len(codes) = n
  BY <1>1, <1>2
<1>4. UriEncode(s) = FlattenSeq(codes)
  BY DEF UriEncode, CodeOf
<1>5. CASE n = 0
  <2>1. UriEncode(s) = <<>>
    BY <1>3, <1>4, <1>5 DEF FlattenSeq
  <2> DEFINE h == [i \in 0 .. n |-> <<>>]
  <2>2. h \in [0 .. n -> Seq(Byte)] /\ h[0] = <<>> /\ h[n] = <<>>
    BY <1>5
  <2>3. 1 .. n = {}
    BY <1>5
  <2> HIDE DEF h
  <2> QED
    BY <2>1, <2>2, <2>3
<1>6. CASE n > 0
  <2>0. PICK f \in [1 .. Len(codes) -> Seq(Byte)] :
          /\ f[1] = codes[1]
          /\ \A i \in 2 .. Len(codes) : f[i] = f[i - 1] \o codes[i]
          /\ FlattenSeq(codes) = f[Len(codes)]
    <3> HIDE DEF codes
    <3> QED
      BY <1>3, <1>6, FlattenIs
  <2>1. /\ f \in [1 .. n -> Seq(Byte)]
        /\ f[1] = codes[1]
        /\ \A i \in 2 .. n : f[i] = f[i - 1] \o codes[i]
        /\ FlattenSeq(codes) = f[n]
    <3> HIDE DEF codes
    <3> QED
      BY <1>3, <2>0
  <2> DEFINE h == [i \in 0 .. n |-> IF i = 0 THEN <<>> ELSE f[i]]
  <2>2. h \in [0 .. n -> Seq(Byte)] /\ h[0] = <<>> /\ h[n] = f[n]
    BY <1>1, <1>6
  <2>3. ASSUME NEW i \in 1 .. n
        PROVE  h[i] = h[i - 1] \o CodeOf(s[i])
    <3>1. codes[i] = CodeOf(s[i]) /\ h[i] = f[i]
      BY <1>1
    <3>2. CASE i = 1
      <4>1. h[i - 1] = <<>>
        BY <1>1, <3>2
      <4>2. <<>> \o CodeOf(s[i]) = CodeOf(s[i])
        BY <1>2, ConcatEmptySeq
      <4> QED
        BY <2>1, <3>1, <3>2, <4>1, <4>2
    <3>3. CASE i # 1
      <4>1. i - 1 \in 1 .. n /\ h[i - 1] = f[i - 1] /\ i \in 2 .. n
        BY <1>1, <3>3
      <4> QED
        BY <2>1, <3>1, <4>1
    <3> QED
      BY <3>2, <3>3
  <2> HIDE DEF h
  <2> QED
    BY <1>4, <2>1, <2>2, <2>3
<1>7. n = 0 \/ n > 0
  BY <1>1
<1> QED
  BY <1>5, <1>6, <1>7

(* What stands in an encoding for a byte is decoded to that byte, and      *)
(* decoding goes on behind it.                                             *)
LEMMA Decodes ==
  ASSUME NEW c \in Byte, NEW t \in Seq(Byte), NEW p \in Nat \ {0},
         p + Len(CodeOf(c)) - 1 <= Len(t),
         \A j \in 1 .. Len(CodeOf(c)) : t[p + j - 1] = CodeOf(c)[j],
         NEW f,
         \A i \in 1 .. Len(t) + 1 :
           f[i] = IF i > Len(t) - 2 THEN SubSeq(t, i, Len(t))
                  ELSE <<Piece(t, i)>> \o f[After(t, i)]
  PROVE  f[p] = <<c>> \o f[p + Len(CodeOf(c))]
<1> DEFINE n == Len(t)
<1>1. n \in Nat
  OBVIOUS
<1>2. CASE c \in SAFE
  <2>1. CodeOf(c) = <<c>> /\ Len(CodeOf(c)) = 1
    BY <1>2 DEF CodeOf
  <2>2. p <= n /\ t[p] = c
    <3>1. p + 1 - 1 = p
      OBVIOUS
    <3>2. 1 \in 1 .. Len(CodeOf(c)) /\ CodeOf(c)[1] = c
      BY <2>1
    <3>3. t[p + 1 - 1] = CodeOf(c)[1]
      BY <3>2
    <3> QED
      BY <1>1, <2>1, <3>1, <3>2, <3>3
  <2>3. c # Percent /\ c # Plus
    BY <1>2 DEF SAFE, Percent, Plus
  <2>4. Piece(t, p) = c /\ After(t, p) = p + 1
    BY <2>2, <2>3 DEF Piece, After, Escape
  <2>5. CASE p <= n - 2
    <3>1. p \in 1 .. n + 1 /\ ~ (p > n - 2)
      BY <1>1, <2>2, <2>5
    <3> QED
      BY <2>1, <2>4, <3>1
  <2>6. CASE p > n - 2
    <3>1. /\ p \in 1 .. n + 1 /\ p + 1 \in 1 .. n + 1 /\ p + 1 > n - 2
          /\ p \in 1 .. n /\ n \in p .. n
      BY <1>1, <2>2, <2>6
    <3>2. f[p] = SubSeq(t, p, n) /\ f[p + 1] = SubSeq(t, p + 1, n)
      BY <2>6, <3>1
    <3>3. SubSeq(t, p, n) = <<t[p]>> \o SubSeq(t, p + 1, n)
      BY <3>1, SubSeqRecursiveFirst
    <3> QED
      BY <2>1, <2>2, <3>2, <3>3
  <2> QED
    BY <1>1, <2>5, <2>6
<1>3. CASE c \notin SAFE
  <2> DEFINE high == DEC2HEX(c \div 16)
             low == DEC2HEX(c % 16)
  <2>1. CodeOf(c) = <<Percent, high, low>> /\ Len(CodeOf(c)) = 3
    BY <1>3 DEF CodeOf
  <2>2. p + 2 <= n
    BY <1>1, <2>1
  <2> HIDE DEF high, low
  <2>3. t[p] = Percent /\ t[p + 1] = high /\ t[p + 2] = low
    <3>1. p + 1 - 1 = p /\ p + 2 - 1 = p + 1 /\ p + 3 - 1 = p + 2
      OBVIOUS
    <3>2. /\ 1 \in 1 .. Len(CodeOf(c)) /\ 2 \in 1 .. Len(CodeOf(c))
          /\ 3 \in 1 .. Len(CodeOf(c))
      BY <2>1
    <3>3. t[p + 1 - 1] = CodeOf(c)[1] /\ t[p + 2 - 1] = CodeOf(c)[2]
            /\ t[p + 3 - 1] = CodeOf(c)[3]
      BY <3>2
    <3>4. CodeOf(c)[1] = Percent /\ CodeOf(c)[2] = high /\ CodeOf(c)[3] = low
      BY <2>1
    <3> QED
      BY <3>1, <3>3, <3>4
  <2>4. HEX2DEC(high) # -1 /\ HEX2DEC(low) # -1
          /\ 16 * HEX2DEC(high) + HEX2DEC(low) = c
    BY CodeValue DEF high, low
  <2>5. Piece(t, p) = c /\ After(t, p) = p + 3
    BY <2>2, <2>3, <2>4 DEF Piece, After, Escape, Escaped
  <2>6. p \in 1 .. n + 1 /\ ~ (p > n - 2)
    BY <1>1, <2>2
  <2> QED
    BY <2>1, <2>5, <2>6
<1> QED
  BY <1>2, <1>3

(* Every string of bytes comes back from its encoding: what is decoded     *)
(* from behind the code of each byte is the rest of the string.            *)
LEMMA DecodesEncoding ==
  ASSUME NEW s \in Seq(Byte)
  PROVE  UriDecode(UriEncode(s)) = s
<1> DEFINE n == Len(s)
           t == UriEncode(s)
<1>1. n \in Nat /\ \A i \in 1 .. n : s[i] \in Byte
  OBVIOUS
<1>2. PICK h \in [0 .. n -> Seq(Byte)] :
        /\ h[0] = <<>>
        /\ \A i \in 1 .. n : h[i] = h[i - 1] \o CodeOf(s[i])
        /\ t = h[n]
  BY EncodeIs
<1>3. t \in Seq(Byte) /\ Len(t) \in Nat
  <2> HIDE DEF t
  <2>1. n \in 0 .. n
    BY <1>1
  <2> QED
    BY <1>2, <2>1
<1> HIDE DEF t
<1>4. PICK f :
        /\ \A i \in 1 .. Len(t) + 1 :
             f[i] = IF i > Len(t) - 2 THEN SubSeq(t, i, Len(t))
                    ELSE <<Piece(t, i)>> \o f[After(t, i)]
        /\ UriDecode(t) = f[1]
  BY <1>3, DecodeIs
<1> DEFINE Rest(i) ==
             /\ Len(h[i]) <= Len(t)
             /\ \A j \in 1 .. Len(h[i]) : t[j] = h[i][j]
             /\ f[Len(h[i]) + 1] = SubSeq(s, i + 1, n)
           S == {d \in Nat : d <= n => Rest(n - d)}
<1>5. Rest(n)
  <2>1. f[Len(t) + 1] = SubSeq(t, Len(t) + 1, Len(t))
    BY <1>3, <1>4
  <2>2. SubSeq(t, Len(t) + 1, Len(t)) = <<>> /\ SubSeq(s, n + 1, n) = <<>>
    BY <1>1, <1>3, SubSeqEmpty
  <2> QED
    BY <1>2, <1>3, <2>1, <2>2
<1>6. ASSUME NEW i \in 1 .. n, Rest(i)
      PROVE  Rest(i - 1)
  <2> DEFINE c == s[i]
             a == h[i - 1]
             b == h[i]
             e == CodeOf(c)
             p == Len(a) + 1
  <2>1. c \in Byte /\ i - 1 \in 0 .. n /\ i \in 0 .. n
    BY <1>1
  <2>2. a \in Seq(Byte) /\ e \in Seq(Byte) /\ b = a \o e
    BY <1>2, <2>1, CodeType
  <2>3. SubSeq(s, i, n) = <<c>> \o SubSeq(s, i + 1, n)
    BY <1>1, SubSeqRecursiveFirst
  <2>4. /\ Len(b) <= Len(t)
        /\ \A j \in 1 .. Len(b) : t[j] = b[j]
        /\ f[Len(b) + 1] = SubSeq(s, i + 1, n)
    BY <1>6
  <2>5. ASSUME /\ Len(a) <= Len(t)
               /\ \A j \in 1 .. Len(a) : t[j] = a[j]
               /\ f[Len(a) + 1] = SubSeq(s, i, n)
        PROVE  Rest(i - 1)
    <3>1. (i - 1) + 1 = i
      OBVIOUS
    <3> QED
      BY <2>5, <3>1
  <2> HIDE DEF a, b, e, Rest
  <2>6. /\ Len(a) \in Nat /\ Len(e) \in Nat /\ Len(b) = Len(a) + Len(e)
        /\ \A j \in 1 .. Len(a) + Len(e) :
             b[j] = IF j <= Len(a) THEN a[j] ELSE e[j - Len(a)]
    BY <2>2, ConcatProperties
  <2>7. Len(a) <= Len(t) /\ \A j \in 1 .. Len(a) : t[j] = a[j]
    BY <1>3, <2>4, <2>6
  <2>8. ASSUME NEW j \in 1 .. Len(e)
        PROVE  t[p + j - 1] = e[j]
    <3> DEFINE k == Len(a) + j
    <3>1. k \in 1 .. Len(a) + Len(e) /\ ~ (k <= Len(a)) /\ k - Len(a) = j
      BY <2>6
    <3>2. t[k] = b[k] /\ b[k] = e[k - Len(a)] /\ p + j - 1 = k
      BY <2>4, <2>6, <3>1
    <3> QED
      BY <3>1, <3>2
  <2>9. p \in Nat \ {0} /\ p + Len(e) - 1 <= Len(t) /\ p + Len(e) = Len(b) + 1
    BY <1>3, <2>4, <2>6
  <2>10. f[p] = <<c>> \o f[p + Len(e)]
    <3> HIDE DEF c, p
    <3> QED
      BY <1>3, <1>4, <2>1, <2>8, <2>9, Decodes DEF e
  <2> QED
    BY <2>3, <2>4, <2>5, <2>7, <2>9, <2>10
<1>7. 0 \in S
  BY <1>1, <1>5
<1>8. ASSUME NEW d \in Nat, d \in S
      PROVE  d + 1 \in S
  <2> SUFFICES ASSUME d + 1 <= n
               PROVE  Rest(n - (d + 1))
    OBVIOUS
  <2>1. n - d \in 1 .. n /\ n - (d + 1) = (n - d) - 1
    BY <1>1
  <2>2. Rest(n - d)
    BY <1>1, <1>8
  <2> HIDE DEF Rest
  <2>3. Rest((n - d) - 1)
    BY <1>6, <2>1, <2>2
  <2> QED
    BY <2>1, <2>3
<1>9. Rest(0)
  <2> HIDE DEF Rest
  <2>1. Nat \subseteq S
    <3> HIDE DEF S
    <3> QED
      BY <1>7, <1>8, SetInduction
  <2>2. n \in S /\ n - n = 0
    BY <1>1, <2>1
  <2> QED
    BY <1>1, <2>2
<1>10. f[1] = SubSeq(s, 1, n)
  <2>1. Len(h[0]) = 0
    BY <1>2
  <2> QED
    BY <1>9, <2>1
<1> QED
  BY <1>4, <1>10, SubSeqFull DEF t

-----------------------------------------------------------------------------
(* Where escapes stand in a string, and what is not a digit of one.        *)
EscapesOf(s) == {i \in 1 .. Len(s) : Escape(s, i)}

KeptOf(s) == (1 .. Len(s)) \ UNION {{i + 1, i + 2} : i \in EscapesOf(s)}

(* A digit of an escape is not kept, the digits and the next character are *)
(* not escapes' starts: what comes after a kept character is kept.          *)
LEMMA AfterKept ==
  ASSUME NEW s \in Seq(Byte), NEW i \in KeptOf(s)
  PROVE  /\ After(s, i) \in KeptOf(s) \cup {Len(s) + 1}
         /\ i < After(s, i)
         /\ \A j \in KeptOf(s) : j > i => j >= After(s, i)
<1> DEFINE n == Len(s)
<1>1. n \in Nat /\ i \in 1 .. n
  BY DEF KeptOf
<1>2. \A j \in 1 .. n : j \in KeptOf(s) <=>
        ~ (j - 1 \in EscapesOf(s)) /\ ~ (j - 2 \in EscapesOf(s))
  <2> SUFFICES ASSUME NEW j \in 1 .. n
               PROVE  j \in UNION {{e + 1, e + 2} : e \in EscapesOf(s)} <=>
                        j - 1 \in EscapesOf(s) \/ j - 2 \in EscapesOf(s)
    BY DEF KeptOf
  <2>1. ASSUME NEW e \in EscapesOf(s), j \in {e + 1, e + 2}
        PROVE  j - 1 \in EscapesOf(s) \/ j - 2 \in EscapesOf(s)
    <3>1. e \in Int
      BY DEF EscapesOf
    <3>2. e = j - 1 \/ e = j - 2
      BY <2>1, <3>1
    <3> QED
      BY <3>2
  <2>2. ASSUME NEW e \in EscapesOf(s), e = j - 1 \/ e = j - 2
        PROVE  j \in {e + 1, e + 2}
    BY <2>2
  <2> QED
    BY <2>1, <2>2
<1>3. ASSUME NEW e \in EscapesOf(s)
      PROVE  /\ e \in 1 .. n /\ e + 2 <= n
             /\ e + 1 \notin EscapesOf(s) /\ e + 2 \notin EscapesOf(s)
  <2>1. e \in 1 .. n /\ e + 2 <= n
    BY <1>1 DEF EscapesOf, Escape
  <2>2. HEX2DEC(s[e + 1]) # -1 /\ HEX2DEC(s[e + 2]) # -1
    BY DEF EscapesOf, Escape
  <2>3. HEX2DEC(Percent) = -1
    BY DEF HEX2DEC, Percent
  <2>4. s[e + 1] # Percent /\ s[e + 2] # Percent
    BY <2>2, <2>3
  <2> QED
    BY <2>1, <2>4 DEF EscapesOf, Escape
<1>4. i - 1 \notin EscapesOf(s) /\ i - 2 \notin EscapesOf(s)
  BY <1>1, <1>2
<1>5. CASE i \in EscapesOf(s)
  <2>1. After(s, i) = i + 3 /\ i + 2 <= n
    BY <1>3, <1>5 DEF After, EscapesOf
  <2>2. i + 1 \notin KeptOf(s) /\ i + 2 \notin KeptOf(s)
    <3>1. (i + 1) - 1 = i /\ (i + 2) - 2 = i /\ i + 1 \in 1 .. n /\ i + 2 \in 1 .. n
      BY <1>1, <2>1
    <3> QED
      BY <1>2, <1>5, <3>1
  <2>3. i + 3 <= n => i + 3 \in KeptOf(s)
    <3>1. (i + 3) - 1 = i + 2 /\ (i + 3) - 2 = i + 1
      BY <1>1
    <3>2. i + 3 <= n => i + 3 \in 1 .. n
      BY <1>1
    <3> QED
      BY <1>2, <1>3, <1>5, <3>1, <3>2
  <2>4. ASSUME NEW j \in KeptOf(s), j > i
        PROVE  j >= i + 3
    <3>1. j \in Int /\ j # i + 1 /\ j # i + 2
      BY <2>2 DEF KeptOf
    <3> QED
      BY <1>1, <2>4, <3>1
  <2> QED
    BY <1>1, <2>1, <2>3, <2>4
<1>6. CASE i \notin EscapesOf(s)
  <2>1. After(s, i) = i + 1
    BY <1>1, <1>6 DEF After, EscapesOf
  <2>2. i + 1 <= n => i + 1 \in KeptOf(s)
    <3>1. (i + 1) - 1 = i /\ (i + 1) - 2 = i - 1
      BY <1>1
    <3>2. i + 1 <= n => i + 1 \in 1 .. n
      BY <1>1
    <3> QED
      BY <1>2, <1>4, <1>6, <3>1, <3>2
  <2>3. \A j \in KeptOf(s) : j \in Int
    BY DEF KeptOf
  <2> QED
    BY <1>1, <2>1, <2>2, <2>3
<1> QED
  BY <1>5, <1>6

(* Decoding a kept character appends what it is decoded to and goes on     *)
(* behind it, up to the end, if no '+' is too near it.                     *)
LEMMA DecodeStep ==
  ASSUME NEW s \in Seq(Byte), NEW f, NEW i \in 1 .. Len(s),
         \A j \in {Len(s) - 1, Len(s)} \cap 1 .. Len(s) : s[j] # Plus,
         \A j \in 1 .. Len(s) + 1 :
           f[j] = IF j > Len(s) - 2 THEN SubSeq(s, j, Len(s))
                  ELSE <<Piece(s, j)>> \o f[After(s, j)]
  PROVE  f[i] = <<Piece(s, i)>> \o f[After(s, i)]
<1> DEFINE n == Len(s)
<1>1. n \in Nat /\ i \in 1 .. n + 1
  OBVIOUS
<1>2. CASE ~ (i > n - 2)
  BY <1>1, <1>2
<1>3. CASE i > n - 2
  <2>1. i \in {n - 1, n} /\ ~ Escape(s, i)
    BY <1>1, <1>3 DEF Escape
  <2>2. Piece(s, i) = s[i] /\ After(s, i) = i + 1
    BY <2>1 DEF Piece, After
  <2>3. i + 1 \in 1 .. n + 1 /\ i + 1 > n - 2 /\ n \in i .. n
    BY <1>1, <1>3
  <2>4. f[i] = SubSeq(s, i, n) /\ f[i + 1] = SubSeq(s, i + 1, n)
    BY <1>1, <1>3, <2>3
  <2>5. SubSeq(s, i, n) = <<s[i]>> \o SubSeq(s, i + 1, n)
    BY <2>3, SubSeqRecursiveFirst
  <2> QED
    BY <2>2, <2>4, <2>5
<1> QED
  BY <1>2, <1>3

(* What a character is decoded to is a number.                             *)
LEMMA PieceType ==
  ASSUME NEW s \in Seq(Byte), NEW i \in 1 .. Len(s)
  PROVE  Piece(s, i) \in Int
<1>0. \A j \in 1 .. Len(s) : s[j] \in Byte /\ s[j] \in Int
  <2>1. \A b \in Byte : b \in Int
    BY DEF Byte
  <2> QED
    BY <2>1
<1>1. CASE Escape(s, i)
  <2>1. i + 1 \in 1 .. Len(s) /\ i + 2 \in 1 .. Len(s)
    BY <1>1 DEF Escape
  <2>2. HEX2DEC(s[i + 1]) \in Int /\ HEX2DEC(s[i + 2]) \in Int
    BY <1>0, <2>1, HexIs
  <2> QED
    BY <1>1, <2>2 DEF Piece, Escaped
<1>2. CASE ~ Escape(s, i)
  BY <1>0, <1>2 DEF Piece, Space
<1> QED
  BY <1>1, <1>2

(* A decoded form is, character by character, what it should be.           *)
LEMMA FormsDecoded ==
  ASSUME NEW s \in Seq(Byte),
         \A j \in {Len(s) - 1, Len(s)} \cap 1 .. Len(s) : s[j] # Plus
  PROVE  /\ Len(UriDecode(s)) = Cardinality(KeptOf(s))
         /\ \A i \in KeptOf(s) :
              UriDecode(s)[Cardinality(KeptOf(s) \cap 1 .. i)] = Piece(s, i)
<1> DEFINE n == Len(s)
           K == KeptOf(s)
           Count(i, j) == Cardinality(K \cap i .. j)
<1>1. n \in Nat /\ K \subseteq 1 .. n
  BY DEF KeptOf
<1>2. PICK f :
        /\ \A i \in 1 .. n + 1 :
             f[i] = IF i > n - 2 THEN SubSeq(s, i, n)
                    ELSE <<Piece(s, i)>> \o f[After(s, i)]
        /\ UriDecode(s) = f[1]
  BY DecodeIs
<1>3. ASSUME NEW i \in Int, NEW j \in Int
      PROVE  IsFiniteSet(K \cap i .. j) /\ Count(i, j) \in Nat
  <2>1. IsFiniteSet(i .. j) /\ K \cap i .. j \in SUBSET (i .. j)
    BY FS_Interval
  <2>2. IsFiniteSet(K \cap i .. j)
    BY <2>1, FS_Subset
  <2> QED
    BY <2>2, FS_CardinalityType
<1>4. ASSUME NEW i \in K, NEW j \in i .. n
      PROVE  Count(i, j) = 1 + Count(After(s, i), j)
  <2> DEFINE a == After(s, i)
  <2>1. a \in Int /\ i < a /\ i \in 1 .. n /\ \A k \in K : k > i => k >= a
    <3>1. \A k \in K \cup {n + 1} : k \in Int
      BY <1>1
    <3> QED
      BY <1>1, <3>1, AfterKept
  <2> HIDE DEF a
  <2>2. K \cap i .. j = (K \cap a .. j) \cup {i}
    <3>1. \A k \in K : k \in Int
      BY <1>1
    <3> HIDE DEF K
    <3> QED
      BY <2>1, <3>1
  <2>3. i \notin K \cap a .. j
    BY <2>1
  <2>4. j \in Int
    OBVIOUS
  <2>5. IsFiniteSet(K \cap a .. j) /\ Cardinality(K \cap a .. j) \in Nat
    BY <1>3, <2>1, <2>4
  <2> HIDE DEF K
  <2>6. Cardinality((K \cap a .. j) \cup {i}) = Cardinality(K \cap a .. j) + 1
    BY <2>3, <2>5, FS_AddElement
  <2>7. Cardinality(K \cap i .. j) = Cardinality(K \cap a .. j) + 1
    BY <2>2, <2>6
  <2>8. Cardinality(K \cap i .. j) = 1 + Cardinality(K \cap a .. j)
    BY <2>5, <2>7
  <2> QED
    BY <2>8 DEF a
<1> HIDE DEF K
<1> DEFINE Good(i) ==
             /\ f[i] \in Seq(Int)
             /\ Len(f[i]) = Count(i, n)
             /\ \A j \in K : j >= i =>
                  Count(i, j) \in 1 .. Len(f[i]) /\ f[i][Count(i, j)] = Piece(s, j)
           S == {d \in Nat : \A i \in K \cup {n + 1} : i >= n + 1 - d => Good(i)}
<1>5. Good(n + 1)
  <2>1. f[n + 1] = <<>>
    <3>1. SubSeq(s, n + 1, n) = <<>>
      BY <1>1, SubSeqEmpty
    <3>2. n + 1 \in 1 .. n + 1 /\ n + 1 > n - 2
      BY <1>1
    <3> QED
      BY <1>2, <3>1, <3>2
  <2>2. K \cap (n + 1) .. n = {}
    BY <1>1
  <2>3. Count(n + 1, n) = 0
    BY <2>2, FS_EmptySet
  <2> QED
    BY <1>1, <2>1, <2>3
<1>6. ASSUME NEW i \in K, Good(After(s, i))
      PROVE  Good(i)
  <2> DEFINE a == After(s, i)
             c == Piece(s, i)
             r == f[a]
  <2>1. i \in 1 .. n /\ a \in Int /\ i < a /\ \A k \in K : k > i => k >= a
    <3>1. \A k \in K \cup {n + 1} : k \in Int
      BY <1>1
    <3> QED
      BY <1>1, <3>1, AfterKept DEF K
  <2>2. f[i] = <<c>> \o r
    BY <1>2, <2>1, DecodeStep
  <2>3. c \in Int
    BY <2>1, PieceType
  <2>4. /\ r \in Seq(Int) /\ Len(r) = Count(a, n)
        /\ \A j \in K : j >= a =>
             Count(a, j) \in 1 .. Len(r) /\ r[Count(a, j)] = Piece(s, j)
    BY <1>6
  <2>5. \A j \in i .. n : Count(i, j) = 1 + Count(a, j)
    BY <1>4
  <2>6. \A j \in K : j \in 1 .. n
    BY <1>1
  <2> HIDE DEF a, c, r, Count
  <2>7. <<c>> \in Seq(Int) /\ Len(<<c>>) = 1 /\ <<c>>[1] = c
    BY <2>3
  <2>8. /\ <<c>> \o r \in Seq(Int) /\ Len(<<c>> \o r) = 1 + Len(r)
        /\ \A k \in 1 .. 1 + Len(r) :
             (<<c>> \o r)[k] = IF k <= 1 THEN c ELSE r[k - 1]
    <3>1. /\ <<c>> \o r \in Seq(Int) /\ Len(<<c>> \o r) = Len(<<c>>) + Len(r)
          /\ \A k \in 1 .. Len(<<c>>) + Len(r) :
               (<<c>> \o r)[k] = IF k <= Len(<<c>>) THEN <<c>>[k] ELSE r[k - Len(<<c>>)]
      BY <2>4, <2>7, ConcatProperties
    <3>2. \A k \in 1 .. 1 + Len(r) : k <= 1 => k = 1
      BY <2>4
    <3> QED
      BY <2>7, <3>1, <3>2
  <2>9. f[i] \in Seq(Int) /\ Len(f[i]) = Count(i, n)
    <3>1. n \in i .. n
      BY <2>1
    <3> QED
      BY <2>2, <2>4, <2>5, <2>8, <3>1
  <2>10. ASSUME NEW j \in K, j >= i
         PROVE  Count(i, j) \in 1 .. Len(f[i]) /\ f[i][Count(i, j)] = Piece(s, j)
    <3>1. CASE j = i
      <4>1. Count(a, i) = 0
        <5>1. K \cap a .. i = {}
          BY <2>1
        <5> QED
          BY <5>1, FS_EmptySet DEF Count
      <4>2. Count(i, j) = 1
        BY <2>1, <2>5, <3>1, <4>1
      <4>3. Len(r) \in Nat /\ 1 \in 1 .. 1 + Len(r)
        BY <2>4
      <4> QED
        BY <2>2, <2>8, <3>1, <4>2, <4>3 DEF c
    <3>2. CASE j # i
      <4>1. j >= a /\ j \in i .. n
        BY <2>1, <2>6, <2>10, <3>2
      <4>2. Count(i, j) = 1 + Count(a, j) /\ Count(a, j) \in 1 .. Len(r)
              /\ r[Count(a, j)] = Piece(s, j) /\ Len(r) \in Nat
        BY <2>4, <2>5, <4>1
      <4> QED
        BY <2>2, <2>8, <4>2
    <3> QED
      BY <3>1, <3>2
  <2> QED
    BY <2>9, <2>10
<1> HIDE DEF Good
<1>7. 0 \in S
  <2>1. ASSUME NEW i \in K \cup {n + 1}, i >= n + 1 - 0
        PROVE  i = n + 1
    BY <1>1, <2>1
  <2> QED
    BY <1>5, <2>1
<1>8. ASSUME NEW d \in Nat, d \in S
      PROVE  d + 1 \in S
  <2> SUFFICES ASSUME NEW i \in K \cup {n + 1}, i >= n + 1 - (d + 1)
               PROVE  Good(i)
    OBVIOUS
  <2>1. CASE i = n + 1
    BY <1>5, <2>1
  <2>2. CASE i \in K
    <3>1. After(s, i) \in K \cup {n + 1} /\ i < After(s, i)
      BY <2>2, AfterKept DEF K
    <3>2. After(s, i) \in Int /\ i \in Int
      <4>1. \A k \in K \cup {n + 1} : k \in Int
        BY <1>1
      <4> HIDE DEF n
      <4> QED
        BY <2>2, <3>1, <4>1
    <3>3. After(s, i) >= n + 1 - d
      BY <1>1, <3>1, <3>2
    <3>4. Good(After(s, i))
      BY <1>8, <3>1, <3>3
    <3> QED
      BY <1>6, <2>2, <3>4
  <2> QED
    BY <2>1, <2>2
<1>9. Good(1)
  <2>1. Nat \subseteq S
    <3> HIDE DEF S
    <3> QED
      BY <1>7, <1>8, SetInduction
  <2>2. 1 \in K \cup {n + 1}
    <3>1. CASE n = 0
      BY <3>1
    <3>2. CASE n > 0
      <4>1. ASSUME NEW e \in EscapesOf(s)
            PROVE  1 \notin {e + 1, e + 2}
        BY DEF EscapesOf
      <4> QED
        BY <1>1, <3>2, <4>1 DEF K, KeptOf
    <3> QED
      BY <1>1, <3>1, <3>2
  <2>3. n \in S
    BY <1>1, <2>1
  <2>4. 1 >= n + 1 - n
    BY <1>1
  <2> QED
    BY <2>2, <2>3, <2>4
<1>10. K \cap 1 .. n = K
  BY <1>1
<1> QED
  <2>1. \A j \in K : j >= 1
    BY <1>1
  <2> QED
    BY <1>2, <1>9, <1>10, <2>1 DEF Good, K

-----------------------------------------------------------------------------
(* A scan ends at the first place of its kind, or past the end.            *)
LEMMA ScanIs ==
  ASSUME NEW s, NEW C, Len(s) \in Nat, NEW i \in 1 .. Len(s) + 1
  PROVE  /\ Scan(s, i, C) \in i .. Len(s) + 1
         /\ Scan(s, i, C) <= Len(s) => s[Scan(s, i, C)] \in C
         /\ \A k \in i .. Scan(s, i, C) - 1 : s[k] \notin C
<1> DEFINE Ends(j) == /\ j <= Len(s) => s[j] \in C
                      /\ \A k \in i .. j - 1 : s[k] \notin C
           T == {j \in i .. Len(s) : s[j] \in C}
<1>1. \E j \in i .. Len(s) + 1 : Ends(j)
  <2>1. CASE T = {}
    <3>1. Len(s) + 1 \in i .. Len(s) + 1 /\ Ends(Len(s) + 1)
      BY <2>1
    <3> QED
      BY <3>1
  <2>2. CASE T # {}
    <3>1. T \subseteq Nat
      OBVIOUS
    <3>2. PICK j \in T : \A k \in T : j <= k
      BY <2>2, <3>1, LeastNatural
    <3>3. \A k \in i .. j - 1 : s[k] \notin C
      BY <3>2
    <3>4. j \in i .. Len(s) + 1 /\ Ends(j)
      BY <3>3
    <3> QED
      BY <3>4
  <2> QED
    BY <2>1, <2>2
<1>2. Scan(s, i, C) = CHOOSE j \in i .. Len(s) + 1 : Ends(j)
  BY DEF Scan
<1>3. Scan(s, i, C) \in i .. Len(s) + 1 /\ Ends(Scan(s, i, C))
  <2> HIDE DEF Ends
  <2> QED
    BY <1>1, <1>2
<1> QED
  BY <1>3

(* No other place is like that.                                            *)
LEMMA ScanUnique ==
  ASSUME NEW s, NEW C, Len(s) \in Nat, NEW i \in 1 .. Len(s) + 1,
         NEW j \in i .. Len(s) + 1, j <= Len(s) => s[j] \in C,
         \A k \in i .. j - 1 : s[k] \notin C
  PROVE  Scan(s, i, C) = j
<1> DEFINE l == Scan(s, i, C)
<1>1. /\ l \in i .. Len(s) + 1
      /\ l <= Len(s) => s[l] \in C
      /\ \A k \in i .. l - 1 : s[k] \notin C
  BY ScanIs
<1> HIDE DEF l
<1>2. ~ (l < j)
  <2> SUFFICES ASSUME l < j PROVE FALSE
    OBVIOUS
  <2>1. l \in i .. j - 1 /\ l <= Len(s)
    BY <1>1
  <2> QED
    BY <1>1, <2>1
<1>3. ~ (j < l)
  <2> SUFFICES ASSUME j < l PROVE FALSE
    OBVIOUS
  <2>1. j \in i .. l - 1 /\ j <= Len(s)
    BY <1>1
  <2> QED
    BY <1>1, <2>1
<1> QED
  BY <1>1, <1>2, <1>3 DEF l

(* Where split_string finds a key's first character, ...                   *)
BegOf(s, i) == Scan(s, i, Byte \ {Space})

(* ... the delimiter behind it and the '=' between them.                   *)
DelOf(s, d, i) == Scan(s, BegOf(s, i), {d})

EqualOf(s, d, i) ==
  Scan(SubSeq(s, 1, DelOf(s, d, i) - 1), BegOf(s, i), {Equal})

(* The key and the value found from i on.                                  *)
KeyAt(s, d, i) == SubSeq(s, BegOf(s, i), EqualOf(s, d, i) - 1)

ValueAt(s, d, i) == UriDecode(SubSeq(s, EqualOf(s, d, i) + 1, DelOf(s, d, i) - 1))

(* They are found in this order.                                           *)
LEMMA SplitPlaces ==
  ASSUME NEW s \in Seq(Byte), NEW d, NEW i \in 1 .. Len(s), BegOf(s, i) <= Len(s)
  PROVE  /\ BegOf(s, i) \in i .. Len(s)
         /\ DelOf(s, d, i) \in BegOf(s, i) .. Len(s) + 1
         /\ EqualOf(s, d, i) \in BegOf(s, i) .. DelOf(s, d, i)
<1> DEFINE n == Len(s)
           b == BegOf(s, i)
           p == DelOf(s, d, i)
           t == SubSeq(s, 1, p - 1)
<1>1. n \in Nat
  OBVIOUS
<1>2. b \in i .. n
  <2>1. b \in i .. n + 1
    BY <1>1, ScanIs DEF BegOf
  <2> QED
    BY <1>1, <2>1
<1>3. p \in b .. n + 1
  <2>1. b \in 1 .. n + 1
    BY <1>1, <1>2
  <2> QED
    BY <1>1, <2>1, ScanIs DEF DelOf
<1>4. Len(t) = p - 1
  <2>1. \A k \in 1 .. p - 1 : k \in 1 .. n
    BY <1>1, <1>2, <1>3
  <2>2. \A k \in 1 .. p - 1 : s[k] \in Byte
    BY <2>1
  <2>3. 1 \in Int /\ p - 1 \in Int /\ p - 1 >= 0
    BY <1>1, <1>2, <1>3
  <2> HIDE DEF p
  <2> QED
    BY <2>2, <2>3, SubSeqProperties
<1>5. EqualOf(s, d, i) \in b .. p
  <2>1. Len(t) \in Nat /\ b \in 1 .. Len(t) + 1 /\ Len(t) + 1 = p
    BY <1>1, <1>2, <1>3, <1>4
  <2>2. Scan(t, b, {Equal}) \in b .. Len(t) + 1
    <3> HIDE DEF t, b
    <3> QED
      BY <2>1, ScanIs
  <2> QED
    BY <2>1, <2>2 DEF EqualOf
<1> QED
  BY <1>2, <1>3, <1>5

(* A string's parts, and what they are decoded to.                         *)
Parts(s) == {SubSeq(s, p[1], p[2]) : p \in Int \X Int}

MapsOf(s) == UNION {[D -> {UriDecode(t) : t \in Parts(s)}] : D \in SUBSET Parts(s)}

(* What SplitString does, from each place on.                              *)
LEMMA SplitIs ==
  ASSUME NEW s \in Seq(Byte), NEW d
  PROVE  \E kv :
           /\ \A i \in 1 .. Len(s) + 2 :
                kv[i] = IF i > Len(s) \/ BegOf(s, i) > Len(s) THEN <<>>
                        ELSE IF EqualOf(s, d, i) = BegOf(s, i)
                             THEN kv[DelOf(s, d, i) + 1]
                        ELSE With(kv[DelOf(s, d, i) + 1],
                                  KeyAt(s, d, i), ValueAt(s, d, i))
           /\ SplitString(s, d) = kv[1]
<1> DEFINE n == Len(s)
           I == 1 .. n + 2
           T == MapsOf(s)
           Step(i, x) == IF EqualOf(s, d, i) = BegOf(s, i) THEN x
                         ELSE With(x, KeyAt(s, d, i), ValueAt(s, d, i))
           rank == [i \in I |-> n + 2 - i]
           stop == {i \in I : i > n \/ BegOf(s, i) > n}
           leaf == [i \in stop |-> <<>>]
           next == [i \in I \ stop |-> DelOf(s, d, i) + 1]
           G == [p \in (I \ stop) \X T |-> Step(p[1], p[2])]
           Kv(f) == f = [i \in I |->
             IF i > n \/ BegOf(s, i) > n THEN <<>>
             ELSE IF EqualOf(s, d, i) = BegOf(s, i) THEN f[DelOf(s, d, i) + 1]
             ELSE With(f[DelOf(s, d, i) + 1], KeyAt(s, d, i), ValueAt(s, d, i))]
           g == CHOOSE f : Kv(f)
<1>1. n \in Nat
  OBVIOUS
<1>2. SplitString(s, d) = g[1]
  BY DEF SplitString, BegOf, DelOf, EqualOf, KeyAt, ValueAt
<1>3. ASSUME NEW i \in I \ stop
      PROVE  /\ i \in 1 .. n
             /\ BegOf(s, i) \in Int /\ EqualOf(s, d, i) \in Int
             /\ DelOf(s, d, i) \in Int
             /\ DelOf(s, d, i) + 1 \in I /\ DelOf(s, d, i) + 1 > i
  <2>1. i \in 1 .. n /\ ~ (BegOf(s, i) > n)
    BY <1>1
  <2>2. BegOf(s, i) \in i .. n + 1
    BY <1>1, <2>1, ScanIs DEF BegOf
  <2>3. BegOf(s, i) <= n
    BY <1>1, <2>1, <2>2
  <2>4. /\ BegOf(s, i) \in i .. n
        /\ DelOf(s, d, i) \in BegOf(s, i) .. n + 1
        /\ EqualOf(s, d, i) \in BegOf(s, i) .. DelOf(s, d, i)
    BY <2>1, <2>3, SplitPlaces
  <2> QED
    BY <1>1, <2>1, <2>4
<1>4. ASSUME NEW a \in Int, NEW b \in Int
      PROVE  SubSeq(s, a, b) \in Parts(s)
  <2>1. <<a, b>> \in Int \X Int /\ <<a, b>>[1] = a /\ <<a, b>>[2] = b
    OBVIOUS
  <2>2. \E p \in Int \X Int : SubSeq(s, a, b) = SubSeq(s, p[1], p[2])
    BY <2>1
  <2> QED
    BY <2>2 DEF Parts
<1>5. ASSUME NEW i \in I \ stop, NEW x \in T
      PROVE  Step(i, x) \in T
  <2>1. PICK D \in SUBSET Parts(s) : x \in [D -> {UriDecode(t) : t \in Parts(s)}]
    BY DEF MapsOf
  <2>2. KeyAt(s, d, i) \in Parts(s)
    <3>1. BegOf(s, i) \in Int /\ EqualOf(s, d, i) - 1 \in Int
      BY <1>3
    <3> QED
      BY <1>4, <3>1 DEF KeyAt
  <2>3. ValueAt(s, d, i) \in {UriDecode(t) : t \in Parts(s)}
    <3>1. EqualOf(s, d, i) + 1 \in Int /\ DelOf(s, d, i) - 1 \in Int
      BY <1>3
    <3>2. SubSeq(s, EqualOf(s, d, i) + 1, DelOf(s, d, i) - 1) \in Parts(s)
      BY <1>4, <3>1
    <3> QED
      BY <3>2 DEF ValueAt
  <2> DEFINE k == KeyAt(s, d, i)
             v == ValueAt(s, d, i)
             E == D \cup {k}
  <2> HIDE DEF k, v
  <2>4. With(x, k, v) \in [E -> {UriDecode(t) : t \in Parts(s)}]
    BY <2>1, <2>3 DEF With, v
  <2>5. E \in SUBSET Parts(s)
    BY <2>2 DEF k
  <2>6. With(x, k, v) \in T
    <3> HIDE DEF E
    <3> QED
      BY <2>4, <2>5 DEF MapsOf
  <2> QED
    BY <2>6 DEF k, v
<1>6. <<>> \in T
  <2>1. {} \in SUBSET Parts(s)
    OBVIOUS
  <2>2. <<>> \in [{} -> {UriDecode(t) : t \in Parts(s)}]
    <3>1. <<>> \in Seq({UriDecode(t) : t \in Parts(s)}) /\ Len(<<>>) = 0
      BY EmptySeq
    <3>2. <<>> \in [1 .. 0 -> {UriDecode(t) : t \in Parts(s)}]
      BY <3>1, LenProperties
    <3>3. 1 .. 0 = {}
      OBVIOUS
    <3> QED
      BY <3>2, <3>3
  <2> QED
    BY <2>1, <2>2 DEF MapsOf
<1> HIDE DEF T
<1>7. WellFounded(I, T, n + 2, rank, stop, leaf, next, G)
  <2>1. n + 2 \in Nat /\ rank \in [I -> 0 .. n + 2] /\ stop \in SUBSET I
    BY <1>1
  <2>2. leaf \in [stop -> T]
    BY <1>6
  <2>3. next \in [I \ stop -> I]
    BY <1>3
  <2>4. G \in [(I \ stop) \X T -> T]
    <3> HIDE DEF Step, stop, I
    <3> QED
      BY <1>5
  <2>5. ASSUME NEW i \in I \ stop
        PROVE  rank[next[i]] < rank[i]
    <3>1. next[i] = DelOf(s, d, i) + 1
      OBVIOUS
    <3> QED
      BY <1>1, <1>3, <3>1
  <2> HIDE DEF I, rank, stop, leaf, next, G
  <2> QED
    BY <2>1, <2>2, <2>3, <2>4, <2>5 DEF WellFounded
<1>8. PICK h \in [I -> T] : Follows(h, I, stop, leaf, next, G)
  <2> HIDE DEF I, rank, stop, leaf, next, G
  <2> QED
    BY <1>7, Recursion
<1>9. ASSUME NEW i \in I
      PROVE  h[i] = IF i > n \/ BegOf(s, i) > n THEN <<>>
                    ELSE IF EqualOf(s, d, i) = BegOf(s, i) THEN h[DelOf(s, d, i) + 1]
                    ELSE With(h[DelOf(s, d, i) + 1], KeyAt(s, d, i), ValueAt(s, d, i))
  <2>1. CASE i \in stop
    BY <1>8, <2>1 DEF Follows
  <2>2. CASE i \notin stop
    <3>1. i \in I \ stop /\ DelOf(s, d, i) + 1 \in I
      BY <1>3, <2>2
    <3>2. h[i] = G[<<i, h[DelOf(s, d, i) + 1]>>]
      BY <1>8, <3>1 DEF Follows
    <3>3. <<i, h[DelOf(s, d, i) + 1]>> \in (I \ stop) \X T
      BY <3>1
    <3>4. h[i] = Step(i, h[DelOf(s, d, i) + 1])
      <4> HIDE DEF Step
      <4> QED
        BY <3>2, <3>3
    <3> QED
      BY <2>2, <3>4
  <2> QED
    BY <2>1, <2>2
<1>10. Kv(g)
  <2>1. Kv(h)
    BY <1>9
  <2> HIDE DEF Kv
  <2> QED
    BY <2>1
<1> HIDE DEF g
<1> QED
  BY <1>2, <1>10
=============================================================================
