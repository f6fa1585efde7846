--------------------------- MODULE TranslateProofs ---------------------------
(***************************************************************************)
(* Proofs about what is translated on a turn that goes local: what a model *)
(* is sent (LocalPrompt.tla), for any limits and any turns of the client,  *)
(* and what the client is shown of its output (LocalReply.tla), for any    *)
(* chunks the model's server may send.                                     *)
(*                                                                         *)
(* What a fold adds up or puts together is found by induction, which is    *)
(* taken from the least element of a set of numbers: so the facts about    *)
(* folds come first.  Then the prompt, then the reply.                     *)
(***************************************************************************)
EXTENDS LocalPrompt, LocalReply, FiniteSetTheorems, WellFoundedInduction, SequenceTheorems, TLAPS

-----------------------------------------------------------------------------
(* Folds                                                                       *)

\* There is a least number.
LEMMA LeastNumber == ASSUME NEW D \in SUBSET Nat, D # {} PROVE \E d \in D : \A e \in D : d <= e
<1>. DEFINE less == OpToRel(<, Nat)
<1>1. IsWellFoundedOn(less, Nat)
  BY NatLessThanWellFounded
<1>2. \A T : T \subseteq Nat /\ T # {} => \E x \in T : \A y \in T : ~ (<<y, x>> \in less)
  <2>. HIDE DEF less
  <2>. QED  BY <1>1, WFMin, Zenon
<1>3. D \subseteq Nat
  OBVIOUS
<1>4. PICK d \in D : \A e \in D : ~ (<<e, d>> \in less)
  BY <1>2, <1>3, Zenon
<1>5. \A a, b \in Nat : <<a, b>> \in less <=> a < b
  BY DEF OpToRel
<1>. HIDE DEF less
<1>6. ASSUME NEW e \in D PROVE d <= e
  <2>1. d \in Nat /\ e \in Nat /\ ~ (e < d)
    BY <1>4, <1>5
  <2>. QED  BY <2>1
<1>. QED  BY <1>6

\* Induction up to a number, for what a set holds.
LEMMA UpTo ==
    ASSUME NEW n \in Nat, NEW P, 0 \in P, \A i \in 1..n : i - 1 \in P => i \in P
    PROVE  n \in P
<1>. DEFINE D == {i \in 0..n : i \notin P}
<1>. SUFFICES ASSUME n \notin P PROVE FALSE
  OBVIOUS
<1>1. D \in SUBSET Nat /\ D # {}
  OBVIOUS
<1>2. PICK d \in D : \A e \in D : d <= e
  <2>. HIDE DEF D
  <2>. QED  BY <1>1, LeastNumber
<1>3. d \in 1..n /\ d - 1 \in 0..n /\ ~(d <= d - 1)
  OBVIOUS
<1>4. d - 1 \in P
  BY <1>2, <1>3
<1>. QED  BY <1>3, <1>4

\* f goes from a through the steps 1 to n that s asks for.
StepsThrough(n, A, a, step, s, f) ==
    /\ f \in [0..n -> A]
    /\ f[0] = a
    /\ \A i \in 1..n : f[i] = IF i \in s THEN step[i][f[i - 1]] ELSE f[i - 1]

\* What a fold has after each number of steps, as one function.
LEMMA StepsAreThere ==
    ASSUME NEW n \in Nat, NEW A, NEW a \in A, NEW step \in [1..n -> [A -> A]], NEW s
    PROVE  \E f : StepsThrough(n, A, a, step, s, f)
<1>. DEFINE over(i, x) == IF i \in s THEN step[i][x] ELSE x
            Q(m) == \E f \in [0..m -> A] : f[0] = a /\ \A i \in 1..m : f[i] = over(i, f[i - 1])
            P == {m \in Nat : Q(m)}
<1>0. \A i \in 1..n, x \in A : over(i, x) \in A
  OBVIOUS
<1>. HIDE DEF over
<1>1. 0 \in P
  <2>. DEFINE f == [i \in 0..0 |-> a]
  <2>1. f \in [0..0 -> A] /\ f[0] = a /\ \A i \in 1..0 : f[i] = over(i, f[i - 1])
    OBVIOUS
  <2>. HIDE DEF f
  <2>. QED  BY <2>1
<1>2. ASSUME NEW m \in 1..n, m - 1 \in P PROVE m \in P
  <2>1. PICK f \in [0..(m - 1) -> A] : f[0] = a /\ \A i \in 1..(m - 1) : f[i] = over(i, f[i - 1])
    BY <1>2
  <2>. DEFINE g == [i \in 0..m |-> IF i = m THEN over(m, f[m - 1]) ELSE f[i]]
  <2>2. f[m - 1] \in A /\ over(m, f[m - 1]) \in A
    BY <1>0
  <2>3. g \in [0..m -> A]
    BY <2>2
  <2>4. g[0] = a
    BY <2>1
  <2>5. ASSUME NEW i \in 1..m PROVE g[i] = over(i, g[i - 1])
    <3>1. CASE i = m
      <4>1. i - 1 # m /\ i - 1 \in 0..m /\ i \in 0..m
        BY <3>1
      <4>2. g[i - 1] = f[i - 1] /\ g[i] = over(m, f[m - 1])
        BY <3>1, <4>1
      <4>. QED  BY <3>1, <4>2
    <3>2. CASE i # m
      <4>1. i \in 1..(m - 1) /\ i - 1 \in 0..(m - 1) /\ i - 1 # m /\ i - 1 \in 0..m /\ i \in 0..m
        BY <3>2
      <4>. QED  BY <3>2, <4>1, <2>1
    <3>. QED  BY <3>1, <3>2
  <2>. HIDE DEF g
  <2>. QED  BY <2>3, <2>4, <2>5
<1>. HIDE DEF P
<1>4. n \in P
  BY <1>1, <1>2, UpTo
<1>. QED  BY <1>4 DEF P, over, StepsThrough

\* The largest of a set of positions.
LEMMA Largest ==
    ASSUME NEW n \in Nat, NEW s \in SUBSET (1..n), s # {}
    PROVE  Max(s) \in s /\ \A i \in s : i <= Max(s)
<1>. DEFINE D == {n - i : i \in s}
<1>1. D \in SUBSET Nat /\ D # {}
  OBVIOUS
<1>2. PICK d \in D : \A e \in D : d <= e
  <2>. HIDE DEF D
  <2>. QED  BY <1>1, LeastNumber
<1>3. PICK i \in s : d = n - i
  OBVIOUS
<1>4. \A j \in s : i >= j
  <2>. TAKE j \in s
  <2>1. d <= n - j
    BY <1>2
  <2>. QED  BY <1>3, <2>1
<1>5. \E x \in s : \A y \in s : x >= y
  BY <1>4
<1>6. \A y \in s : Max(s) >= y /\ Max(s) \in s
  BY <1>5 DEF Max
<1>. QED  BY <1>5, <1>6

\* A fold over the positions of a sequence, the last taken off first, is well defined.
Folds(n, a, step, g) ==
    g = [s \in SUBSET (1..n) |-> IF s = {} THEN a ELSE step[Max(s)][g[s \ {Max(s)}]]]

\* A fold over the subsets of 1..n, as a function that obeys its recursion.
LEMMA FoldIsThere ==
    ASSUME NEW n \in Nat, NEW A, NEW a \in A, NEW step \in [1..n -> [A -> A]]
    PROVE  \E g \in [SUBSET (1..n) -> A] : Folds(n, a, step, g)
<1>. DEFINE run(s) == CHOOSE f : StepsThrough(n, A, a, step, s, f)
<1>1. ASSUME NEW s \in SUBSET (1..n) PROVE StepsThrough(n, A, a, step, s, run(s))
  <2>1. \E f : StepsThrough(n, A, a, step, s, f)
    BY StepsAreThere
  <2>. QED  BY <2>1
<1>. HIDE DEF run
<1>. DEFINE g == [s \in SUBSET (1..n) |-> run(s)[n]]
<1>2. g \in [SUBSET (1..n) -> A]
  BY <1>1 DEF StepsThrough
<1>3. g[{}] = a
  <2>. DEFINE f == run({})
              P == {i \in Nat : i \in 0..n => f[i] = a}
  <2>0. StepsThrough(n, A, a, step, {}, f)
    BY <1>1
  <2>. HIDE DEF f
  <2>1. 0 \in P /\ \A i \in 1..n : i - 1 \in P => i \in P
    BY <2>0 DEF StepsThrough
  <2>. HIDE DEF P
  <2>2. n \in P
    BY <2>1, UpTo
  <2>. QED  BY <2>2 DEF P, f
<1>4. ASSUME NEW s \in SUBSET (1..n), s # {}
      PROVE  g[s] = step[Max(s)][g[s \ {Max(s)}]]
  <2>. DEFINE x == Max(s)
              t == s \ {x}
              f == run(s)
              h == run(t)
  <2>1. x \in s /\ x \in 1..n /\ \A i \in s : i <= x
    BY <1>4, Largest
  <2>. HIDE DEF x
  <2>2. StepsThrough(n, A, a, step, s, f) /\ StepsThrough(n, A, a, step, t, h)
    BY <1>1
  <2>. HIDE DEF f, h
  <2>. DEFINE P == {i \in Nat : i < x => f[i] = h[i]}
              R == {i \in Nat : x + i <= n => f[x + i] = step[x][h[n]]}
              Q == {i \in Nat : x + i <= n => h[x + i] = h[x - 1]}
  <2>3. x - 1 \in P
    <3>1. 0 \in P
      BY <2>2 DEF StepsThrough
    <3>2. ASSUME NEW i \in 1..(x - 1), i - 1 \in P PROVE i \in P
      <4>1. i \in 1..n /\ (i \in s <=> i \in t) /\ f[i - 1] = h[i - 1]
        BY <2>1, <3>2
      <4>2. f[i] = h[i]
        BY <2>2, <4>1 DEF StepsThrough
      <4>. QED  BY <4>2
    <3>3. x - 1 \in Nat
      BY <2>1
    <3>. HIDE DEF P
    <3>. QED  BY <3>1, <3>2, <3>3, UpTo
  <2>4. n - x \in Q
    <3>1. 0 \in Q
      <4>1. x \in 1..n /\ x \notin t /\ x + 0 = x
        BY <2>1
      <4>. QED  BY <2>2, <4>1 DEF StepsThrough
    <3>2. ASSUME NEW i \in 1..(n - x), i - 1 \in Q PROVE i \in Q
      <4>1. x + i \in 1..n /\ x + i \notin t /\ x + (i - 1) = (x + i) - 1 /\ x + (i - 1) <= n
        BY <2>1
      <4>2. h[x + i] = h[(x + i) - 1]
        BY <2>2, <4>1 DEF StepsThrough
      <4>3. h[(x + i) - 1] = h[x - 1]
        BY <3>2, <4>1
      <4>. QED  BY <4>2, <4>3
    <3>3. n - x \in Nat
      BY <2>1
    <3>. HIDE DEF Q
    <3>. QED  BY <3>1, <3>2, <3>3, UpTo
  <2>5. h[n] = h[x - 1]
    BY <2>1, <2>4
  <2>6. f[x] = step[x][f[x - 1]] /\ f[x - 1] = h[x - 1]
    BY <2>1, <2>2, <2>3 DEF StepsThrough
  <2>7. n - x \in R
    <3>1. 0 \in R
      BY <2>1, <2>5, <2>6
    <3>2. ASSUME NEW i \in 1..(n - x), i - 1 \in R PROVE i \in R
      <4>1. x + i \in 1..n /\ x + i \notin s /\ x + (i - 1) = (x + i) - 1 /\ x + (i - 1) <= n
        BY <2>1
      <4>2. f[x + i] = f[(x + i) - 1]
        BY <2>2, <4>1 DEF StepsThrough
      <4>3. f[(x + i) - 1] = step[x][h[n]]
        BY <3>2, <4>1
      <4>. QED  BY <4>2, <4>3
    <3>3. n - x \in Nat
      BY <2>1
    <3>. HIDE DEF R
    <3>. QED  BY <3>1, <3>2, <3>3, UpTo
  <2>8. f[n] = step[x][h[n]]
    BY <2>1, <2>7
  <2>9. t \in SUBSET (1..n)
    OBVIOUS
  <2>. QED  BY <2>8, <2>9 DEF f, h, x
<1>. DEFINE G == [s \in SUBSET (1..n) |-> IF s = {} THEN a ELSE step[Max(s)][g[s \ {Max(s)}]]]
<1>5. \A s \in SUBSET (1..n) : g[s] = G[s]
  <2>. TAKE s \in SUBSET (1..n)
  <2>. HIDE DEF g
  <2>. QED  BY <1>3, <1>4
<1>6. g = G
  <2>1. DOMAIN g = SUBSET (1..n) /\ DOMAIN G = SUBSET (1..n)
    OBVIOUS
  <2>2. g = [s \in SUBSET (1..n) |-> g[s]] /\ G = [s \in SUBSET (1..n) |-> G[s]]
    OBVIOUS
  <2>. HIDE DEF g, G
  <2>. QED  BY <1>5, <2>2 DEF StepsThrough
<1>. HIDE DEF g
<1>. QED  BY <1>2, <1>6 DEF Folds

\* The largest of the first positions, and what is left without it.
LEMMA FirstPositions ==
    ASSUME NEW n \in Nat, NEW i \in 1..n
    PROVE  1..i \in SUBSET (1..n) /\ 1..i # {} /\ Max(1..i) = i /\ (1..i) \ {Max(1..i)} = 1..(i - 1)
<1>1. 1..i \in SUBSET (1..n) /\ 1..i # {}
  OBVIOUS
<1>2. Max(1..i) \in 1..i /\ \A j \in 1..i : j <= Max(1..i)
  BY <1>1, Largest
<1>3. Max(1..i) = i
  BY <1>2
<1>. QED  BY <1>1, <1>3

-----------------------------------------------------------------------------
\* What FlattenSeq gives, one sequence after the other.
Flattens(n, A, seqs, flat) ==
    /\ flat \in [0..n -> Seq(A)]
    /\ flat[0] = <<>>
    /\ \A i \in 1..n : flat[i] = flat[i - 1] \o seqs[i]

\* FlattenSeq over a prefix, as a function of the prefix's length.
LEMMA FlattenIsThere ==
    ASSUME NEW n \in Nat, NEW A, NEW seqs \in [1..n -> Seq(A)]
    PROVE  \E flat : Flattens(n, A, seqs, flat) /\ FlattenSeq(seqs) = flat[n]
<1>. DEFINE step == [i \in 1..n |-> [x \in Seq(A) |-> x \o seqs[i]]]
<1>1. step \in [1..n -> [Seq(A) -> Seq(A)]] /\ <<>> \in Seq(A)
  <2>1. ASSUME NEW i \in 1..n, NEW x \in Seq(A) PROVE x \o seqs[i] \in Seq(A)
    <3>1. seqs[i] \in Seq(A)
      OBVIOUS
    <3>. QED  BY <3>1
  <2>. QED  BY <2>1
<1>2. PICK flat : StepsThrough(n, Seq(A), <<>>, step, 1..n, flat)
  <2>. HIDE DEF step
  <2>. QED  BY <1>1, StepsAreThere
<1>3. Flattens(n, A, seqs, flat)
  <2>1. flat \in [0..n -> Seq(A)] /\ flat[0] = <<>>
    BY <1>2 DEF StepsThrough
  <2>2. ASSUME NEW i \in 1..n PROVE flat[i] = flat[i - 1] \o seqs[i]
    <3>1. flat[i] = step[i][flat[i - 1]]
      <4>. HIDE DEF step
      <4>. QED  BY <1>2 DEF StepsThrough
    <3>2. flat[i - 1] \in Seq(A)
      BY <2>1
    <3>. QED  BY <3>1, <3>2
  <2>. QED  BY <2>1, <2>2 DEF Flattens
<1>. HIDE DEF step
<1>4. CASE n = 0
  <2>1. seqs = <<>> /\ Len(seqs) = 0
    BY <1>4
  <2>2. FlattenSeq(seqs) = <<>>
    BY <2>1 DEF FlattenSeq
  <2>. QED  BY <1>3, <1>4, <2>2 DEF Flattens
<1>5. CASE n # 0
  <2>. DEFINE G(g) == [i \in 1..n |-> IF i = 1 THEN seqs[i] ELSE g[i - 1] \o seqs[i]]
              g0 == [i \in 1..n |-> flat[i]]
              h == CHOOSE g : g = G(g)
  <2>1. Len(seqs) = n
    OBVIOUS
  <2>2. FlattenSeq(seqs) = h[n]
    BY <1>5, <2>1 DEF FlattenSeq
  <2>3. g0 = G(g0)
    <3>1. ASSUME NEW i \in 1..n
          PROVE  flat[i] = IF i = 1 THEN seqs[i] ELSE g0[i - 1] \o seqs[i]
      <4>1. CASE i = 1
        <5>0. 1 \in 1..n /\ 1 - 1 = 0
          BY <1>5
        <5>1. flat[1] = <<>> \o seqs[1] /\ seqs[1] \in Seq(A)
          BY <1>3, <5>0 DEF Flattens
        <5>. QED  BY <4>1, <5>1
      <4>2. CASE i # 1
        <5>1. i - 1 \in 1..n /\ g0[i - 1] = flat[i - 1]
          BY <4>2
        <5>. HIDE DEF g0
        <5>. QED  BY <1>3, <4>2, <5>1 DEF Flattens
      <4>. QED  BY <4>1, <4>2
    <3>. QED  BY <3>1
  <2>4. h = G(h)
    <3>. HIDE DEF G, g0
    <3>. QED  BY <2>3
  <2>. HIDE DEF h, g0
  <2>. DEFINE P == {i \in Nat : i \in 1..n => h[i] = flat[i]}
  <2>5. 0 \in P
    OBVIOUS
  <2>6. ASSUME NEW i \in 1..n, i - 1 \in P PROVE i \in P
    <3>1. h[i] = IF i = 1 THEN seqs[i] ELSE h[i - 1] \o seqs[i]
      BY <2>4
    <3>2. g0[i] = IF i = 1 THEN seqs[i] ELSE g0[i - 1] \o seqs[i]
      BY <2>3
    <3>3. g0[i] = flat[i] /\ (i # 1 => i - 1 \in 1..n /\ g0[i - 1] = flat[i - 1])
      BY DEF g0
    <3>4. i # 1 => h[i - 1] = flat[i - 1]
      BY <2>6, <3>3
    <3>5. h[i] = flat[i]
      <4>. HIDE DEF G, P
      <4>1. CASE i = 1
        BY <3>1, <3>2, <3>3, <4>1
      <4>2. CASE i # 1
        BY <3>1, <3>2, <3>3, <3>4, <4>2
      <4>. QED  BY <4>1, <4>2
    <3>. QED  BY <3>5
  <2>7. n \in P
    <3>. HIDE DEF P
    <3>. QED  BY <2>5, <2>6, UpTo
  <2>8. h[n] = flat[n]
    BY <1>5, <2>7
  <2>. QED  BY <1>3, <2>2, <2>8
<1>. QED  BY <1>4, <1>5

Alike(n, s, t) == \A i \in 1..n : s[i] = t[i]

\* Two that begin alike are flattened alike, as far as they are.
LEMMA FlattensAlike ==
    ASSUME NEW n \in Nat, NEW m \in Nat, n <= m, NEW A, NEW s, NEW t, NEW f, NEW g,
           Alike(n, s, t), Flattens(n, A, s, f), Flattens(m, A, t, g)
    PROVE  \A i \in 0..n : f[i] = g[i]
<1>. DEFINE P == {i \in Nat : i <= n => f[i] = g[i]}
<1>1. 0 \in P
  BY DEF Flattens
<1>2. ASSUME NEW i \in 1..n, i - 1 \in P PROVE i \in P
  <2>1. f[i - 1] = g[i - 1] /\ i \in 1..m
    BY <1>2
  <2>2. f[i] = f[i - 1] \o s[i] /\ g[i] = g[i - 1] \o t[i]
    BY <2>1 DEF Flattens
  <2>3. s[i] = t[i]
    BY DEF Alike
  <2>4. f[i] = g[i]
    <3>. HIDE DEF P
    <3>. QED  BY <2>1, <2>2, <2>3
  <2>. QED  BY <2>4
<1>3. ASSUME NEW k \in 0..n PROVE f[k] = g[k]
  <2>1. k \in P
    <3>. HIDE DEF P
    <3>1. k \in Nat /\ \A i \in 1..k : i \in 1..n
      OBVIOUS
    <3>. QED  BY <1>1, <1>2, <3>1, UpTo
  <2>. QED  BY <2>1
<1>. QED  BY <1>3

\* One sequence more is appended.
LEMMA FlattenAppends ==
    ASSUME NEW n \in Nat, NEW A, NEW s \in [1..n -> Seq(A)], NEW t \in [1..(n + 1) -> Seq(A)],
           \A i \in 1..n : s[i] = t[i]
    PROVE  /\ FlattenSeq(s) \in Seq(A)
           /\ FlattenSeq(t) = FlattenSeq(s) \o t[n + 1]
<1>1. PICK f : Flattens(n, A, s, f) /\ FlattenSeq(s) = f[n]
  BY FlattenIsThere
<1>2. PICK g : Flattens(n + 1, A, t, g) /\ FlattenSeq(t) = g[n + 1]
  BY FlattenIsThere
<1>3. n <= n + 1 /\ n + 1 \in Nat /\ n \in 0..n /\ n + 1 \in 1..(n + 1) /\ (n + 1) - 1 = n
  OBVIOUS
<1>4. f[n] = g[n]
  <2>1. \A i \in 0..n : f[i] = g[i]
    <3>1. Alike(n, s, t)
      BY DEF Alike
    <3>. QED  BY <1>1, <1>2, <1>3, <3>1, FlattensAlike
  <2>. QED  BY <1>3, <2>1
<1>5. g[n + 1] = g[n] \o t[n + 1] /\ f[n] \in Seq(A)
  BY <1>1, <1>2, <1>3 DEF Flattens
<1>. QED  BY <1>1, <1>2, <1>4, <1>5

\* Where the elements of two sequences are in the two put together.
LEMMA ConcatOf ==
    ASSUME NEW A, NEW s \in Seq(A), NEW t \in Seq(A)
    PROVE  /\ s \o t \in Seq(A)
           /\ Len(s) \in Nat /\ Len(t) \in Nat /\ Len(s \o t) = Len(s) + Len(t)
           /\ \A x \in 1..Len(s) : (s \o t)[x] = s[x]
           /\ \A x \in 1..Len(t) : (s \o t)[Len(s) + x] = t[x]
OBVIOUS

\* What is flattened first stays at the beginning.
LEMMA FlattenBegins ==
    ASSUME NEW n \in Nat, NEW A, NEW seqs, NEW flat, Flattens(n, A, seqs, flat),
           \A i \in 1..n : seqs[i] \in Seq(A), NEW i \in 0..n
    PROVE  /\ Len(flat[i]) \in Nat /\ Len(flat[n]) \in Nat
           /\ Len(flat[i]) <= Len(flat[n])
           /\ Alike(Len(flat[i]), flat[n], flat[i])
<1>. DEFINE P == {j \in Nat : i + j <= n => /\ Len(flat[i]) <= Len(flat[i + j])
                                          /\ Alike(Len(flat[i]), flat[i + j], flat[i])}
<1>1. \A k \in 0..n : flat[k] \in Seq(A) /\ Len(flat[k]) \in Nat
  BY DEF Flattens
<1>2. 0 \in P
  BY <1>1 DEF Alike
<1>3. ASSUME NEW j \in 1..(n - i), j - 1 \in P PROVE j \in P
  <2>. DEFINE k == i + j
  <2>1. k \in 1..n /\ k - 1 \in 0..n /\ i + (j - 1) = k - 1 /\ i + (j - 1) <= n
    OBVIOUS
  <2>2. flat[k] = flat[k - 1] \o seqs[k] /\ flat[k - 1] \in Seq(A) /\ seqs[k] \in Seq(A)
    BY <1>1, <2>1 DEF Flattens
  <2>3. Len(flat[i]) <= Len(flat[k - 1]) /\ Alike(Len(flat[i]), flat[k - 1], flat[i])
    BY <1>3, <2>1
  <2>. HIDE DEF k
  <2>4. /\ Len(flat[k - 1]) <= Len(flat[k])
        /\ \A x \in 1..Len(flat[k - 1]) : flat[k][x] = flat[k - 1][x]
    <3>. DEFINE s == flat[k - 1]
                u == seqs[k]
    <3>1. s \in Seq(A) /\ u \in Seq(A) /\ flat[k] = s \o u
      BY <2>2
    <3>. HIDE DEF s, u
    <3>2. Len(s) <= Len(s \o u) /\ \A x \in 1..Len(s) : (s \o u)[x] = s[x]
      BY <3>1, ConcatOf
    <3>. QED  BY <3>1, <3>2 DEF s
  <2>5. Len(flat[i]) \in Nat /\ Len(flat[k - 1]) \in Nat /\ Len(flat[k]) \in Nat
    BY <1>1, <2>1
  <2>6. Len(flat[i]) <= Len(flat[k]) /\ Alike(Len(flat[i]), flat[k], flat[i])
    <3>1. \A x \in 1..Len(flat[i]) : x \in 1..Len(flat[k - 1])
      BY <2>3, <2>5
    <3>. QED  BY <2>3, <2>4, <2>5, <3>1 DEF Alike
  <2>. QED  BY <2>6 DEF k
<1>4. n - i \in P
  <2>1. n - i \in Nat
    OBVIOUS
  <2>. HIDE DEF P
  <2>. QED  BY <1>2, <1>3, <2>1, UpTo
<1>5. i + (n - i) = n /\ n <= n
  OBVIOUS
<1>. QED  BY <1>1, <1>4, <1>5

-----------------------------------------------------------------------------
(* The prompt of a turn that goes local, and the results in it.                *)

Messages == [id : Nat, kind : Kinds, size : Nat, pair : Nat]

\* A result follows its call: the client runs the tool before it sends anything else.
Paired(messages) ==
    \A i \in DOMAIN messages :
        messages[i].kind \in Results =>
            /\ i > 1
            /\ messages[i - 1].kind = "call"
            /\ messages[i - 1].id = messages[i].pair

\* The window may begin at start: with no orphan, or where a turn ended.
MayBegin(start) ==
    /\ start \in DOMAIN transcript
    /\ Orphan(transcript, start) => \E k \in DOMAIN turns : turns[k] = start

TranscriptShaped ==
    /\ transcript \in Seq(Messages)
    /\ turns \in Seq(Nat)
    /\ count \in Nat
    /\ boundary \in Nat
    /\ rewound \in BOOLEAN
    /\ \A k \in DOMAIN turns : turns[k] <= Len(transcript)
    /\ \A j, k \in DOMAIN turns : j <= k => turns[j] <= turns[k]

WindowBegins ==
    \E start \in DOMAIN transcript :
        /\ MayBegin(start)
        /\ window = From(StripAll(transcript), start)
        /\ Orphan(transcript, start) => chosen = "stable" \/ start = Len(transcript)

\* While no turn has been taken back, the boundary is where a window may begin, and the
\* window begins where it may: so a boundary that is used again is still one.
PromptInv ==
    /\ TranscriptShaped
    /\ Paired(transcript)
    /\ rewound \/ boundary = 0 \/ MayBegin(boundary)
    /\ rewound \/ window = <<>> \/ WindowBegins

\* A rebuild begins at one of the messages.
LEMMA RebuildBegins ==
    ASSUME NEW S, NEW messages \in Seq(S), messages # <<>>
    PROVE  RebuildStart(messages) \in DOMAIN messages
<1>. DEFINE n == Len(messages)
            over(i) == Tokens(From(messages, i)) > Target
            kept == {i \in 1..n : \A k \in i..(n - 1) : ~over(k)}
<1>1. n \in Nat \ {0} /\ DOMAIN messages = 1..n
  OBVIOUS
<1>2. kept \in SUBSET Nat /\ n \in kept
  BY <1>1
<1>. HIDE DEF over
<1>3. PICK start \in kept : \A e \in kept : start <= e
  <2>. HIDE DEF kept
  <2>. QED  BY <1>2, LeastNumber
<1>4. start \in 1..n /\ \A k \in start..(n - 1) : ~over(k)
  OBVIOUS
<1>5. start = 1 \/ over(start - 1)
  <2>1. SUFFICES ASSUME start # 1, ~over(start - 1) PROVE FALSE
    OBVIOUS
  <2>2. \A k \in (start - 1)..(n - 1) : ~over(k)
    <3>. TAKE k \in (start - 1)..(n - 1)
    <3>1. k = start - 1 \/ k \in start..(n - 1)
      BY <1>1, <1>4
    <3>. QED  BY <1>4, <2>1, <3>1
  <2>3. start - 1 \in kept
    BY <1>1, <1>4, <2>1, <2>2
  <2>4. start <= start - 1
    <3>. HIDE DEF kept
    <3>. QED  BY <1>3, <2>3
  <2>. QED  BY <1>1, <1>4, <2>4
<1>6. \E s \in DOMAIN messages :
         /\ \A i \in s..(n - 1) : ~(Tokens(From(messages, i)) > Target)
         /\ s = 1 \/ Tokens(From(messages, s - 1)) > Target
  BY <1>1, <1>4, <1>5, Zenon DEF over
<1>. QED  BY <1>6, Zenon DEF RebuildStart

\* The search for a safe beginning ends at one, or at the last message.
LEMMA SafeBegins ==
    ASSUME NEW S, NEW messages \in Seq(S), NEW start \in DOMAIN messages
    PROVE  /\ FirstSafeStart(messages, start) \in DOMAIN messages
           /\ \/ FirstSafeStart(messages, start) = Len(messages)
              \/ ~Orphan(messages, FirstSafeStart(messages, start))
<1>. DEFINE n == Len(messages)
            safe == {i \in start..n : i = n \/ ~Orphan(messages, i)}
<1>1. n \in Nat /\ DOMAIN messages = 1..n /\ start \in 1..n
  OBVIOUS
<1>2. safe \in SUBSET Nat /\ n \in safe
  BY <1>1
<1>3. PICK first \in safe : \A e \in safe : first <= e
  <2>. HIDE DEF safe
  <2>. QED  BY <1>2, LeastNumber
<1>4. first \in start..n /\ (first = n \/ ~Orphan(messages, first))
  OBVIOUS
<1>5. \A j \in start..(first - 1) : Orphan(messages, j)
  <2>. TAKE j \in start..(first - 1)
  <2>1. j \in start..n /\ j # n /\ ~(first <= j)
    <3>. HIDE DEF n, safe
    <3>. QED  BY <1>1, <1>4
  <2>2. j \notin safe
    <3>. HIDE DEF safe
    <3>. QED  BY <1>3, <2>1
  <2>. QED  BY <2>1, <2>2
<1>6. \E i \in start..n : /\ i = n \/ ~Orphan(messages, i)
                          /\ \A j \in start..(i - 1) : Orphan(messages, j)
  BY <1>4, <1>5, Zenon
<1>7. /\ FirstSafeStart(messages, start) \in start..n
      /\ \/ FirstSafeStart(messages, start) = n
         \/ ~Orphan(messages, FirstSafeStart(messages, start))
  BY <1>6, Zenon DEF FirstSafeStart
<1>8. start..n \subseteq DOMAIN messages
  <2>. HIDE DEF n
  <2>. QED  BY <1>1
<1>. QED  BY <1>7, <1>8

\* However a window is chosen, it begins at a message: the first, the last, one that is no
\* orphan, or the remembered one.
LEMMA BoundBegins ==
    ASSUME NEW S, NEW messages \in Seq(S), messages # <<>>, NEW remembered \in Nat
    PROVE  LET b == Bound(messages, remembered)
           IN  /\ b.start \in DOMAIN messages
               /\ \/ b.start \in {1, Len(messages)}
                  \/ ~Orphan(messages, b.start)
                  \/ b.start = remembered /\ b.chosen = "stable"
<1>. DEFINE fresh == FirstSafeStart(messages, RebuildStart(messages))
            whole == Tokens(messages) <= Ceiling
            sticky == /\ Tokens(messages) > Ceiling
                      /\ 1 < remembered /\ remembered <= Len(messages)
                      /\ Tokens(From(messages, remembered)) <= Ceiling
<1>1. fresh \in DOMAIN messages /\ (fresh = Len(messages) \/ ~Orphan(messages, fresh))
  BY RebuildBegins, SafeBegins
<1>2. CASE whole
  BY <1>2 DEF Bound
<1>3. CASE ~whole /\ sticky
  <2>1. Bound(messages, remembered) = [start |-> remembered, chosen |-> "stable"]
    BY <1>3 DEF Bound
  <2>. QED  BY <1>3, <2>1
<1>4. CASE ~whole /\ ~sticky
  <2>1. Bound(messages, remembered) =
          [start |-> fresh,
           chosen |-> IF Tokens(From(messages, fresh)) > Ceiling THEN "overflow" ELSE "rebuilt"]
    BY <1>4 DEF Bound
  <2>. QED  BY <1>1, <2>1
<1>. QED  BY <1>2, <1>3, <1>4

\* What a turn adds is in order: only its second message may be a result, of the first.
LEMMA TurnsAreOrdered ==
    ASSUME NEW new \in FirstTurns \union LaterTurns
    PROVE  /\ new \in Seq(Contents) /\ new # <<>>
           /\ \A i \in DOMAIN new : new[i].kind \in Results => i = 2 /\ new[1].kind = "call"
<1>1. new \in Seq(Contents) /\ Len(new) \in 1..9
  BY TurnsAssumption, Zenon
<1>2. \A i \in DOMAIN new : new[i].kind \in Results => i = 2 /\ new[1].kind = "call"
  BY TurnsAssumption, Zenon
<1>3. Len(new) # 0
  <2>1. \A m \in 1..9 : m # 0
    OBVIOUS
  <2>. QED  BY <1>1, <2>1, Zenon
<1>4. new # <<>>
  BY <1>3
<1>. QED  BY <1>1, <1>2, <1>4

\* So the transcript stays one in which a result follows its call.
LEMMA TranscriptGrows ==
    ASSUME TranscriptShaped, Paired(transcript),
           NEW new \in FirstTurns \union LaterTurns
    PROVE  LET all == transcript \o Named(new)
           IN  /\ all \in Seq(Messages) /\ all # <<>>
               /\ Len(all) > Len(transcript)
               /\ \A i \in DOMAIN transcript : all[i] = transcript[i]
               /\ Paired(all)
<1>. DEFINE n == Len(transcript)
            added == Named(new)
            all == transcript \o added
<1>1. /\ new \in Seq(Contents) /\ new # <<>>
      /\ \A i \in DOMAIN new : new[i].kind \in Results => i = 2 /\ new[1].kind = "call"
  BY TurnsAreOrdered
<1>2. /\ Len(new) \in Nat \ {0} /\ DOMAIN new = 1..Len(new)
      /\ \A i \in DOMAIN new : new[i].kind \in Kinds /\ new[i].size \in Nat
  <2>1. \A i \in DOMAIN new : new[i] \in Contents
    BY <1>1
  <2>2. Len(new) \in Nat \ {0} /\ DOMAIN new = 1..Len(new)
    BY <1>1
  <2>. QED  BY <2>1, <2>2 DEF Contents
<1>3. /\ added = [i \in 1..Len(new) |-> added[i]]
      /\ \A i \in 1..Len(new) : /\ added[i] \in Messages
                                /\ added[i].kind = new[i].kind
                                /\ added[i].id = 10 * count + i
                                /\ added[i].pair = 10 * count + 1
  <2>1. added = [i \in 1..Len(new) |->
                    [id |-> 10 * count + i, kind |-> new[i].kind, size |-> new[i].size,
                     pair |-> 10 * count + 1]]
    BY <1>2, Zenon DEF Named
  <2>2. \A i \in 1..Len(new) : 10 * count + i \in Nat /\ 10 * count + 1 \in Nat
    BY <1>2 DEF TranscriptShaped
  <2>. HIDE DEF added
  <2>. QED  BY <1>2, <2>1, <2>2 DEF Messages
<1>. HIDE DEF added
<1>4. added \in Seq(Messages) /\ Len(added) = Len(new)
  BY <1>2, <1>3
<1>5. transcript \in Seq(Messages) /\ n \in Nat
  BY DEF TranscriptShaped
<1>6. /\ all \in Seq(Messages) /\ Len(all) = n + Len(new)
      /\ \A i \in 1..n : all[i] = transcript[i]
      /\ \A i \in (n + 1)..(n + Len(new)) : all[i] = added[i - n]
  BY <1>2, <1>4, <1>5
<1>7. ASSUME NEW i \in 1..(n + Len(new)), all[i].kind \in Results
      PROVE  i > 1 /\ all[i - 1].kind = "call" /\ all[i - 1].id = all[i].pair
  <2>1. CASE i <= n
    <3>1. /\ i \in DOMAIN transcript /\ all[i] = transcript[i]
          /\ i > 1 => all[i - 1] = transcript[i - 1]
      BY <1>5, <1>6, <2>1
    <3>. QED  BY <1>7, <3>1 DEF Paired
  <2>2. CASE i > n
    <3>1. i - n \in 1..Len(new) /\ all[i] = added[i - n]
      BY <1>2, <1>5, <1>6, <2>2
    <3>2. i - n = 2 /\ new[1].kind = "call"
      BY <1>1, <1>2, <1>3, <1>7, <3>1
    <3>3. /\ i = n + 2 /\ i > 1 /\ i - 1 \in (n + 1)..(n + Len(new)) /\ (i - 1) - n = 1
          /\ 1 \in 1..Len(new)
      BY <1>2, <1>5, <3>1, <3>2
    <3>4. all[i - 1] = added[1]
      BY <1>6, <3>3
    <3>5. added[1].kind = "call" /\ added[1].id = 10 * count + 1
      BY <1>3, <3>2, <3>3
    <3>6. all[i].pair = 10 * count + 1
      BY <1>3, <3>1
    <3>. HIDE DEF all, n
    <3>. QED  BY <3>3, <3>4, <3>5, <3>6
  <2>. HIDE DEF all, n
  <2>. QED  BY <1>2, <1>5, <2>1, <2>2
<1>8. DOMAIN all = 1..(n + Len(new))
  BY <1>6
<1>9. Paired(all)
  BY <1>7, <1>8 DEF Paired
<1>10. all # <<>> /\ Len(all) > n
  BY <1>2, <1>5, <1>6
<1>11. DOMAIN transcript = 1..n
  BY <1>5
<1>12. \A i \in DOMAIN transcript : all[i] = transcript[i]
  BY <1>6, <1>11, Zenon
<1>. QED  BY <1>6, <1>9, <1>10, <1>12, Zenon DEF added

\* Bare mode takes no call from its result.
LEMMA StrippedKeepsPairs ==
    ASSUME NEW messages \in Seq(Messages), messages # <<>>
    PROVE  /\ StripAll(messages) \in Seq({Strip(m) : m \in Messages}) /\ StripAll(messages) # <<>>
           /\ Len(StripAll(messages)) = Len(messages)
           /\ \A i \in DOMAIN messages :
                 /\ StripAll(messages)[i].kind \in Results <=> messages[i].kind \in Results
                 /\ StripAll(messages)[i].kind = "call" <=> messages[i].kind = "call"
                 /\ StripAll(messages)[i].id = messages[i].id
                 /\ StripAll(messages)[i].pair = messages[i].pair
           /\ \A i \in DOMAIN messages : Orphan(StripAll(messages), i) <=> Orphan(messages, i)
<1>1. ASSUME NEW m \in Messages
      PROVE  /\ Strip(m).kind \in Results <=> m.kind \in Results
             /\ Strip(m).kind = "call" <=> m.kind = "call"
             /\ Strip(m).id = m.id /\ Strip(m).pair = m.pair
  BY <1>1 DEF Strip, Messages, Kinds, Results
<1>2. Len(messages) \in Nat \ {0} /\ DOMAIN messages = 1..Len(messages)
  OBVIOUS
<1>3. \A i \in DOMAIN messages : messages[i] \in Messages
  OBVIOUS
<1>4. StripAll(messages) = [i \in 1..Len(messages) |-> Strip(messages[i])]
  BY <1>2 DEF StripAll
<1>5. \A i \in DOMAIN messages : StripAll(messages)[i] = Strip(messages[i])
  BY <1>2, <1>4
<1>6. StripAll(messages) \in Seq({Strip(m) : m \in Messages}) /\ Len(StripAll(messages)) = Len(messages)
  BY <1>1, <1>2, <1>3, <1>4
<1>7. \A i \in DOMAIN messages :
         /\ StripAll(messages)[i].kind \in Results <=> messages[i].kind \in Results
         /\ StripAll(messages)[i].kind = "call" <=> messages[i].kind = "call"
         /\ StripAll(messages)[i].id = messages[i].id
         /\ StripAll(messages)[i].pair = messages[i].pair
  BY <1>1, <1>3, <1>5
<1>8. ASSUME NEW i \in DOMAIN messages
      PROVE  Orphan(StripAll(messages), i) <=> Orphan(messages, i)
  <2>1. \A j \in i..Len(messages) : j \in DOMAIN messages
    BY <1>2
  <2>. QED  BY <1>6, <1>7, <1>8, <2>1, Zenon DEF Orphan, Results
<1>9. StripAll(messages) # <<>>
  BY <1>2, <1>6
<1>. QED  BY <1>6, <1>7, <1>8, <1>9

\* A turn gives the boundary and the window a beginning that they may have.
LEMMA TurnKeepsPrompt ==
    ASSUME PromptInv, NEW new \in FirstTurns \union LaterTurns, Turn(new)
    PROVE  PromptInv'
<1>. DEFINE all == transcript \o Named(new)
            messages == StripAll(all)
            start == Bound(messages, boundary).start
            how == Bound(messages, boundary).chosen
<1>1. /\ all \in Seq(Messages) /\ all # <<>>
      /\ Len(all) > Len(transcript)
      /\ \A i \in DOMAIN transcript : all[i] = transcript[i]
      /\ Paired(all)
  BY TranscriptGrows DEF PromptInv
<1>2. /\ messages \in Seq({Strip(m) : m \in Messages}) /\ messages # <<>>
      /\ Len(messages) = Len(all)
      /\ \A i \in DOMAIN all : Orphan(messages, i) <=> Orphan(all, i)
  BY <1>1, StrippedKeepsPairs
<1>3. boundary \in Nat
  BY DEF PromptInv, TranscriptShaped
<1>. HIDE DEF all, messages
<1>4. /\ start \in DOMAIN messages
      /\ \/ start \in {1, Len(messages)}
         \/ ~Orphan(messages, start)
         \/ start = boundary /\ how = "stable"
  BY <1>2, <1>3, BoundBegins
<1>. HIDE DEF start, how
<1>5. /\ transcript' = all
      /\ turns' = Append(turns, Len(all))
      /\ boundary' = start
      /\ window' = messages \/ window' = From(messages, start)
      /\ chosen' = how
      /\ count' = count + 1 /\ rewound' = rewound
  BY DEF Turn, all, messages, start, how
<1>6. /\ Len(all) \in Nat \ {0} /\ DOMAIN all = 1..Len(all) /\ DOMAIN messages = 1..Len(all)
      /\ Len(transcript) \in Nat /\ DOMAIN transcript = 1..Len(transcript)
      /\ transcript \in Seq(Messages)
  BY <1>1, <1>2 DEF PromptInv, TranscriptShaped
<1>7. /\ turns \in Seq(Nat) /\ Len(turns) \in Nat
      /\ DOMAIN turns = 1..Len(turns) /\ DOMAIN turns' = 1..(Len(turns) + 1)
      /\ \A k \in DOMAIN turns : turns'[k] = turns[k] /\ turns[k] \in Nat
      /\ turns'[Len(turns) + 1] = Len(all)
      /\ turns' \in Seq(Nat)
  BY <1>5, <1>6 DEF PromptInv, TranscriptShaped
<1>8. TranscriptShaped'
  <2>1. \A k \in DOMAIN turns : turns[k] <= Len(transcript)
    BY DEF PromptInv, TranscriptShaped
  <2>2. \A j, k \in DOMAIN turns : j <= k => turns[j] <= turns[k]
    BY DEF PromptInv, TranscriptShaped
  <2>3. \A k \in DOMAIN turns' : turns'[k] <= Len(all)
    <3>. TAKE k \in DOMAIN turns'
    <3>1. CASE k \in DOMAIN turns
      BY <1>1, <1>6, <1>7, <2>1, <3>1
    <3>2. CASE k = Len(turns) + 1
      BY <1>6, <1>7, <3>2
    <3>. QED  BY <1>7, <3>1, <3>2
  <2>4. ASSUME NEW j \in DOMAIN turns', NEW k \in DOMAIN turns', j <= k
        PROVE  turns'[j] <= turns'[k]
    <3>1. CASE k \in DOMAIN turns
      <4>1. j \in DOMAIN turns
        BY <1>7, <2>4, <3>1
      <4>. QED  BY <1>7, <2>2, <2>4, <3>1, <4>1, Zenon
    <3>2. CASE k = Len(turns) + 1
      BY <1>7, <2>3, <3>2
    <3>. QED  BY <1>7, <3>1, <3>2
  <2>5. /\ count' \in Nat /\ boundary' \in Nat /\ rewound' \in BOOLEAN
    BY <1>4, <1>5, <1>6 DEF PromptInv, TranscriptShaped
  <2>. QED  BY <1>1, <1>5, <1>7, <2>3, <2>4, <2>5 DEF TranscriptShaped
<1>9. ~rewound => MayBegin(1)' /\ MayBegin(boundary)'
  <2>. SUFFICES ASSUME ~rewound PROVE MayBegin(1)' /\ MayBegin(boundary)'
    OBVIOUS
  <2>1. ~Orphan(all, 1)
    BY <1>1, <1>6 DEF Orphan, Paired, Results
  <2>2. MayBegin(1)'
    BY <1>5, <1>6, <2>1, SMTT(30) DEF MayBegin
  <2>3. CASE start = boundary
    <3>1. boundary \in 1..Len(all)
      BY <1>4, <1>6, <2>3
    <3>2. MayBegin(boundary)
      BY <3>1 DEF PromptInv
    <3>3. boundary \in DOMAIN transcript
      BY <3>2 DEF MayBegin
    <3>4. ASSUME Orphan(all, boundary) PROVE Orphan(transcript, boundary)
      <4>1. \A i \in boundary..Len(transcript) : i \in boundary..Len(all) /\ all[i] = transcript[i]
        BY <1>1, <1>6, <3>3
      <4>. QED  BY <1>1, <3>3, <3>4, <4>1 DEF Orphan
    <3>5. Orphan(all, boundary) => \E k \in DOMAIN turns' : turns'[k] = boundary
      <4>1. \A k \in DOMAIN turns : k \in DOMAIN turns' /\ turns'[k] = turns[k]
        BY <1>7
      <4>. QED  BY <3>2, <3>4, <4>1 DEF MayBegin
    <3>. QED  BY <1>5, <1>6, <2>2, <2>3, <3>1, <3>5 DEF MayBegin
  <2>4. CASE start = Len(messages)
    <3>1. Len(turns) + 1 \in DOMAIN turns' /\ turns'[Len(turns) + 1] = start
      BY <1>2, <1>7, <2>4
    <3>. QED  BY <1>2, <1>4, <1>5, <1>6, <2>2, <3>1 DEF MayBegin
  <2>5. CASE ~Orphan(messages, start)
    <3>1. ~Orphan(all, start)
      BY <1>2, <1>4, <1>6, <2>5
    <3>. QED  BY <1>4, <1>5, <1>6, <2>2, <3>1 DEF MayBegin
  <2>6. CASE start = 1
    BY <1>5, <2>2, <2>6 DEF MayBegin
  <2>. QED  BY <1>4, <2>3, <2>4, <2>5, <2>6
<1>10. ~rewound => WindowBegins'
  <2>. SUFFICES ASSUME ~rewound PROVE WindowBegins'
    OBVIOUS
  <2>1. StripAll(transcript)' = messages
    BY <1>5 DEF StripAll, messages
  <2>2. messages = From(messages, 1)
    BY <1>2 DEF From
  <2>3. 1 \in DOMAIN transcript' /\ start \in DOMAIN transcript'
    BY <1>4, <1>5, <1>6
  <2>4. ~Orphan(all, 1)
    BY <1>1, <1>6 DEF Orphan, Paired, Results
  <2>5. Orphan(all, start) => how = "stable" \/ start = Len(all)
    BY <1>2, <1>4, <1>6, <2>4
  <2>6. CASE window' = From(messages, start)
    BY <1>5, <1>9, <2>1, <2>3, <2>5, <2>6 DEF WindowBegins
  <2>7. CASE window' = messages
    BY <1>5, <1>9, <2>1, <2>2, <2>3, <2>4, <2>7 DEF WindowBegins
  <2>. QED  BY <1>5, <2>6, <2>7
<1>. QED  BY <1>1, <1>5, <1>8, <1>9, <1>10 DEF PromptInv

\* What is taken back is taken from the end.
LEMMA RewindKeepsPrompt ==
    ASSUME PromptInv, NEW k \in DOMAIN turns, Rewinds(k)
    PROVE  PromptInv'
<1>1. /\ turns \in Seq(Nat) /\ transcript \in Seq(Messages)
      /\ Len(turns) \in Nat /\ Len(transcript) \in Nat
      /\ DOMAIN turns = 1..Len(turns) /\ DOMAIN transcript = 1..Len(transcript)
      /\ turns[k] \in 0..Len(transcript) /\ k \in 1..Len(turns)
  BY DEF PromptInv, TranscriptShaped
<1>2. /\ turns' = SubSeq(turns, 1, k) /\ transcript' = SubSeq(transcript, 1, turns[k])
      /\ rewound' /\ rewound' \in BOOLEAN /\ UNCHANGED <<count, boundary>>
  BY DEF Rewinds
<1>3. /\ turns' \in Seq(Nat) /\ Len(turns') = k /\ DOMAIN turns' = 1..k
      /\ \A j \in 1..k : turns'[j] = turns[j]
  BY <1>1, <1>2
<1>4. /\ transcript' \in Seq(Messages) /\ Len(transcript') = turns[k]
      /\ DOMAIN transcript' = 1..turns[k]
      /\ \A i \in 1..turns[k] : transcript'[i] = transcript[i]
  BY <1>1, <1>2
<1>5. TranscriptShaped'
  <2>0. 1..k \subseteq DOMAIN turns
    BY <1>1
  <2>1. ASSUME NEW i \in 1..k, NEW j \in 1..k, i <= j
        PROVE  turns'[i] <= turns'[j]
    BY <1>3, <2>0, <2>1 DEF PromptInv, TranscriptShaped
  <2>2. ASSUME NEW j \in 1..k PROVE turns'[j] <= Len(transcript')
    <3>1. j \in DOMAIN turns /\ j <= k /\ turns'[j] = turns[j]
      BY <1>1, <1>3, <2>0
    <3>2. turns[j] <= turns[k]
      BY <3>1 DEF PromptInv, TranscriptShaped
    <3>. QED  BY <1>4, <3>1, <3>2
  <2>. QED  BY <1>2, <1>3, <1>4, <2>1, <2>2 DEF PromptInv, TranscriptShaped
<1>6. Paired(transcript)'
  <2>1. \A i \in 1..turns[k] : i \in DOMAIN transcript /\ (i > 1 => i - 1 \in 1..turns[k])
    BY <1>1
  <2>. QED  BY <1>4, <2>1 DEF PromptInv, Paired
<1>. QED  BY <1>2, <1>5, <1>6 DEF PromptInv

\* The prompt's first invariant holds in every behaviour.
LEMMA PromptInvHolds == PromptSpec => []PromptInv
<1>1. PromptInit => PromptInv
  <2>. SUFFICES ASSUME PromptInit PROVE PromptInv
    OBVIOUS
  <2>1. /\ transcript = <<>> /\ turns = <<0>> /\ count = 0 /\ boundary = 0 /\ window = <<>>
        /\ rewound = FALSE
    BY DEF PromptInit
  <2>2. transcript \in Seq(Messages) /\ DOMAIN transcript = {} /\ Len(transcript) = 0
    BY <2>1
  <2>3. turns \in Seq(Nat) /\ \A k \in DOMAIN turns : turns[k] = 0
    BY <2>1
  <2>4. TranscriptShaped
    <3>1. /\ \A k \in DOMAIN turns : turns[k] <= Len(transcript)
          /\ \A j, k \in DOMAIN turns : j <= k => turns[j] <= turns[k]
      BY <2>2, <2>3
    <3>2. count \in Nat /\ boundary \in Nat /\ rewound \in BOOLEAN
      BY <2>1
    <3>. QED  BY <2>2, <2>3, <3>1, <3>2, Zenon DEF TranscriptShaped
  <2>. QED  BY <2>1, <2>2, <2>4 DEF PromptInv, Paired
<1>2. PromptInv /\ [PromptNext]_promptVars => PromptInv'
  <2>. SUFFICES ASSUME PromptInv, [PromptNext]_promptVars PROVE PromptInv'
    OBVIOUS
  <2>1. CASE Opens \/ Continues
    BY <2>1, TurnKeepsPrompt DEF Opens, Continues
  <2>2. CASE \E k \in DOMAIN turns : Rewinds(k)
    BY <2>2, RewindKeepsPrompt
  <2>3. CASE Evicted
    BY <2>3 DEF Evicted, PromptInv, TranscriptShaped, Paired, WindowBegins, MayBegin, StripAll
  <2>4. CASE UNCHANGED promptVars
    BY <2>4 DEF promptVars, PromptInv, TranscriptShaped, Paired, WindowBegins, MayBegin, StripAll
  <2>. QED  BY <2>1, <2>2, <2>3, <2>4 DEF PromptNext
<1>. QED  BY <1>1, <1>2, PTL DEF PromptSpec

\* A result the model is sent comes with its call (_first_safe_start), unless turns were
\* taken back, or the result is all that is sent, or a boundary is used again that fell on
\* the end of a turn: however long calls and results are, for every target, ceiling and
\* limit.
THEOREM PromptKeepsPairs == PromptSpec => []NoOrphanResult
<1>1. PromptInv => NoOrphanResult
  <2>. SUFFICES ASSUME PromptInv, ~rewound,
                       NEW i \in DOMAIN window, OrphanAt(i)
                PROVE  /\ i = 1
                       /\ \E k \in DOMAIN turns : turns[k] = Len(transcript) - Len(window) + 1
                       /\ chosen = "stable" \/ Len(window) = 1
    BY DEF NoOrphanResult
  <2>. DEFINE messages == StripAll(transcript)
              n == Len(transcript)
  <2>1. window # <<>>
    OBVIOUS
  <2>2. PICK start \in DOMAIN transcript :
           /\ MayBegin(start)
           /\ window = From(messages, start)
           /\ Orphan(transcript, start) => chosen = "stable" \/ start = n
    BY <2>1 DEF PromptInv, WindowBegins
  <2>3. /\ transcript \in Seq(Messages) /\ n \in Nat /\ start \in 1..n /\ transcript # <<>>
        /\ DOMAIN transcript = 1..n
    BY <2>2 DEF PromptInv, TranscriptShaped
  <2>4. /\ messages \in Seq({Strip(m) : m \in Messages}) /\ Len(messages) = n
        /\ \A j \in DOMAIN transcript :
              /\ messages[j].kind \in Results <=> transcript[j].kind \in Results
              /\ messages[j].kind = "call" <=> transcript[j].kind = "call"
              /\ messages[j].id = transcript[j].id
              /\ messages[j].pair = transcript[j].pair
        /\ \A j \in DOMAIN transcript : Orphan(messages, j) <=> Orphan(transcript, j)
    BY <2>3, StrippedKeepsPairs
  <2>. HIDE DEF messages, n
  <2>5. /\ Len(window) = n - start + 1 /\ DOMAIN window = 1..(n - start + 1)
        /\ \A j \in 1..(n - start + 1) : window[j] = messages[start + j - 1]
    BY <2>2, <2>3, <2>4 DEF From
  <2>6. i = 1
    <3>. SUFFICES ASSUME i # 1 PROVE FALSE
      OBVIOUS
    <3>1. /\ start + i - 1 \in 1..n /\ start + (i - 1) - 1 \in 1..n /\ i - 1 \in 1..(n - start + 1)
          /\ (start + i - 1) - 1 = start + (i - 1) - 1
      BY <2>3, <2>5
    <3>2. messages[start + i - 1].kind \in Results
      BY <2>5 DEF OrphanAt, Results
    <3>3. /\ transcript[start + (i - 1) - 1].kind = "call"
          /\ transcript[start + (i - 1) - 1].id = transcript[start + i - 1].pair
      BY <2>3, <2>4, <3>1, <3>2 DEF PromptInv, Paired
    <3>4. window[i - 1].kind = "call" /\ window[i - 1].id = window[i].pair
      BY <2>3, <2>4, <2>5, <3>1, <3>3, SMTT(30)
    <3>. QED  BY <2>5, <3>1, <3>4 DEF OrphanAt
  <2>7. Orphan(messages, start)
    <3>1. window[1] = messages[start]
      BY <2>3, <2>5
    <3>2. ASSUME NEW j \in start..n, messages[j].kind = "call", messages[j].id = messages[start].pair
          PROVE  FALSE
      <4>1. j - start + 1 \in DOMAIN window /\ window[j - start + 1] = messages[j]
        <5>1. j - start + 1 \in 1..(n - start + 1) /\ start + (j - start + 1) - 1 = j
          BY <2>3
        <5>. QED  BY <2>5, <5>1
      <4>. QED  BY <2>6, <3>1, <3>2, <4>1 DEF OrphanAt
    <3>. QED  BY <2>4, <2>6, <3>1, <3>2 DEF Orphan, OrphanAt
  <2>8. \E k \in DOMAIN turns : turns[k] = start
    BY <2>2, <2>4, <2>7 DEF MayBegin
  <2>9. start = Len(transcript) - Len(window) + 1
    BY <2>3, <2>5 DEF n
  <2>10. chosen = "stable" \/ Len(window) = 1
    BY <2>2, <2>3, <2>4, <2>5, <2>7
  <2>. QED  BY <2>6, <2>8, <2>9, <2>10
<1>. QED  BY <1>1, PromptInvHolds, PTL

\* What bare mode makes of a message, and a list of them.
WindowKinds == {"user", "answer", "call", "result", "both", "note"}
KeptMessages == [id : Nat, kind : WindowKinds, size : Nat, pair : Nat]
Items == [role : {"user", "assistant", "tool", "system"}, parts : Seq(Nat)]
Gathered == [out : Seq(Items), carry : Seq(Nat)]

\* Later messages have later ids.
Ordered(messages) ==
    \A i, j \in DOMAIN messages : i < j => messages[i].id < messages[j].id

\* How often an id is among the parts; the parts of a list of items.
Times(parts, id) == Cardinality({k \in DOMAIN parts : parts[k] = id})
Body(items) == FlattenSeq([i \in 1..Len(items) |-> items[i].parts])

-----------------------------------------------------------------------------
\* The sum of the sizes, one message after the other.
Sums(n, messages, sum) ==
    /\ sum \in [0..n -> Nat]
    /\ sum[0] = 0
    /\ \A i \in 1..n : sum[i] = sum[i - 1] + messages[i].size

\* The tokens of a window, summed message by message.
LEMMA SumIsThere ==
    ASSUME NEW messages \in Seq(KeptMessages)
    PROVE  \E sum : Sums(Len(messages), messages, sum) /\ Tokens(messages) = sum[Len(messages)]
<1>. DEFINE n == Len(messages)
            G(g) == [s \in SUBSET (1..n) |-> IF s = {} THEN 0 ELSE g[s \ {Max(s)}] + messages[Max(s)].size]
            fold == CHOOSE g : g = G(g)
            step == [i \in 1..n |-> [x \in Nat |-> x + messages[i].size]]
<1>0. n \in Nat /\ DOMAIN messages = 1..n /\ \A i \in 1..n : messages[i].size \in Nat
  <2>1. \A i \in 1..n : messages[i] \in KeptMessages
    OBVIOUS
  <2>. QED  BY <2>1 DEF KeptMessages
<1>4. Tokens(messages) = fold[1..n]
  BY <1>0 DEF Tokens, FoldLeft, MapThenFoldSet
<1>. HIDE DEF n
<1>1. \E g : g = G(g)
  <2>1. step \in [1..n -> [Nat -> Nat]]
    BY <1>0
  <2>. HIDE DEF step
  <2>2. PICK g \in [SUBSET (1..n) -> Nat] : Folds(n, 0, step, g)
    BY <1>0, <2>1, FoldIsThere
  <2>3. ASSUME NEW s \in SUBSET (1..n), s # {}
        PROVE  step[Max(s)][g[s \ {Max(s)}]] = g[s \ {Max(s)}] + messages[Max(s)].size
    <3>1. Max(s) \in 1..n
      BY <1>0, <2>3, Largest
    <3>. QED  BY <3>1 DEF step
  <2>4. g = G(g)
    BY <2>2, <2>3 DEF Folds
  <2>. QED  BY <2>4
<1>2. fold = G(fold)
  <2>. HIDE DEF G
  <2>. QED  BY <1>1
<1>. HIDE DEF fold
<1>. DEFINE sum == [i \in 0..n |-> fold[1..i]]
<1>5. sum[0] = 0
  BY <1>0, <1>2
<1>6. ASSUME NEW i \in 1..n PROVE sum[i] = sum[i - 1] + messages[i].size
  <2>1. fold[1..i] = fold[(1..i) \ {Max(1..i)}] + messages[Max(1..i)].size
    BY <1>0, <1>2, FirstPositions
  <2>2. fold[1..i] = fold[1..(i - 1)] + messages[i].size
    BY <1>0, <2>1, FirstPositions
  <2>3. sum[i] = fold[1..i] /\ sum[i - 1] = fold[1..(i - 1)]
    BY <1>0
  <2>. QED  BY <2>2, <2>3
<1>7. sum \in [0..n -> Nat]
  <2>. DEFINE P == {i \in Nat : i \in 0..n => sum[i] \in Nat}
  <2>. SUFFICES ASSUME NEW m \in 0..n PROVE sum[m] \in Nat
    OBVIOUS
  <2>. HIDE DEF sum
  <2>1. 0 \in P /\ \A i \in 1..m : i - 1 \in P => i \in P
    <3>1. 0 \in P
      BY <1>5
    <3>2. ASSUME NEW i \in 1..m, i - 1 \in P PROVE i \in P
      <4>1. i \in 1..n /\ i - 1 \in 0..n /\ messages[i].size \in Nat
        BY <1>0
      <4>2. sum[i] = sum[i - 1] + messages[i].size /\ sum[i - 1] \in Nat
        BY <1>6, <3>2, <4>1
      <4>. QED  BY <4>1, <4>2
    <3>. QED  BY <3>1, <3>2
  <2>2. m \in P
    <3>. HIDE DEF P
    <3>1. m \in Nat
      BY <1>0
    <3>. QED  BY <2>1, <3>1, UpTo
  <2>. QED  BY <2>2 DEF P
<1>8. Tokens(messages) = sum[n]
  BY <1>0, <1>4
<1>. HIDE DEF sum
<1>. QED  BY <1>5, <1>6, <1>7, <1>8 DEF Sums, n

\* A list that begins with another has no fewer tokens.
LEMMA TokensGrow ==
    ASSUME NEW s \in Seq(KeptMessages), NEW t \in Seq(KeptMessages), Len(s) <= Len(t), Alike(Len(s), s, t)
    PROVE  Tokens(s) \in Nat /\ Tokens(t) \in Nat /\ Tokens(s) <= Tokens(t)
<1>. DEFINE n == Len(s)
            m == Len(t)
<1>1. PICK f : Sums(n, s, f) /\ Tokens(s) = f[n]
  BY SumIsThere
<1>2. PICK g : Sums(m, t, g) /\ Tokens(t) = g[m]
  BY SumIsThere
<1>3. n \in Nat /\ m \in Nat /\ n <= m
  OBVIOUS
<1>4. \A i \in 1..m : t[i].size \in Nat
  <2>1. \A i \in 1..m : t[i] \in KeptMessages
    OBVIOUS
  <2>. QED  BY <2>1 DEF KeptMessages
<1>5. Alike(n, s, t)
  OBVIOUS
<1>. HIDE DEF n, m
<1>. DEFINE P == {i \in Nat : i <= n => f[i] = g[i]}
            Q == {i \in Nat : n + i <= m => g[n] <= g[n + i]}
<1>6. n \in P
  <2>1. 0 \in P
    BY <1>1, <1>2 DEF Sums
  <2>2. ASSUME NEW i \in 1..n, i - 1 \in P PROVE i \in P
    <3>1. f[i - 1] = g[i - 1] /\ i \in 1..m /\ s[i] = t[i]
      BY <1>3, <1>5, <2>2 DEF Alike
    <3>2. f[i] = f[i - 1] + s[i].size /\ g[i] = g[i - 1] + t[i].size
      BY <1>1, <1>2, <3>1 DEF Sums
    <3>3. f[i] = g[i]
      BY <3>1, <3>2
    <3>. QED  BY <3>3
  <2>. HIDE DEF P
  <2>. QED  BY <1>3, <2>1, <2>2, UpTo
<1>7. m - n \in Q
  <2>1. 0 \in Q
    BY <1>2, <1>3 DEF Sums
  <2>2. ASSUME NEW i \in 1..(m - n), i - 1 \in Q PROVE i \in Q
    <3>1. n + i \in 1..m /\ n + (i - 1) = (n + i) - 1 /\ n + (i - 1) <= m
          /\ n \in 0..m /\ (n + i) - 1 \in 0..m
      BY <1>3
    <3>2. g[n + i] = g[(n + i) - 1] + t[n + i].size
      BY <1>2, <3>1 DEF Sums
    <3>3. g[n] <= g[(n + i) - 1]
      BY <2>2, <3>1
    <3>4. g[n] \in Nat /\ g[(n + i) - 1] \in Nat /\ t[n + i].size \in Nat
      BY <1>2, <1>4, <3>1 DEF Sums
    <3>5. g[n] <= g[n + i]
      BY <3>2, <3>3, <3>4
    <3>. QED  BY <3>5
  <2>3. m - n \in Nat
    BY <1>3
  <2>. HIDE DEF Q
  <2>. QED  BY <2>1, <2>2, <2>3, UpTo
<1>8. n \in 0..n /\ m \in 0..m /\ n + (m - n) = m
  BY <1>3
<1>9. f[n] = g[n] /\ g[n] <= g[m]
  BY <1>3, <1>6, <1>7, <1>8
<1>10. f[n] \in Nat /\ g[m] \in Nat
  BY <1>1, <1>2, <1>8 DEF Sums
<1>. QED  BY <1>1, <1>2, <1>9, <1>10

-----------------------------------------------------------------------------
\* The hoisting, one item after the other.
Hoists(n, items, acc) ==
    /\ acc \in [0..n -> Gathered]
    /\ acc[0] = [out |-> <<>>, carry |-> <<>>]
    /\ \A i \in 1..n : acc[i] = Gathers(acc[i - 1], items[i])

\* What hoist has gathered stays what it is, whatever item comes next.
LEMMA GathersType ==
    ASSUME NEW a \in Gathered, NEW item \in Items
    PROVE  Gathers(a, item) \in Gathered
<1>1. a = [out |-> a.out, carry |-> a.carry] /\ a.out \in Seq(Items) /\ a.carry \in Seq(Nat)
  BY DEF Gathered
<1>2. item.parts \in Seq(Nat) /\ item.role \in {"user", "assistant", "tool", "system"}
  BY DEF Items
<1>3. a.carry \o item.parts \in Seq(Nat)
  BY <1>1, <1>2
<1>4. Item("user", a.carry \o item.parts) \in Items
  BY <1>3 DEF Item, Items
<1>5. Append(a.out, Item("user", a.carry \o item.parts)) \in Seq(Items) /\ Append(a.out, item) \in Seq(Items)
  BY <1>1, <1>4
<1>6. <<>> \in Seq(Nat)
  OBVIOUS
<1>7. CASE item.role = "system"
  <2>1. Gathers(a, item) = [a EXCEPT !.carry = a.carry \o item.parts]
    BY <1>7 DEF Gathers
  <2>2. Gathers(a, item) = [out |-> a.out, carry |-> a.carry \o item.parts]
    BY <1>1, <2>1
  <2>. QED  BY <1>1, <1>3, <2>2 DEF Gathered
<1>8. CASE item.role = "user"
  <2>1. Gathers(a, item) = [out |-> Append(a.out, Item("user", a.carry \o item.parts)), carry |-> <<>>]
    BY <1>8 DEF Gathers
  <2>. QED  BY <1>5, <1>6, <2>1 DEF Gathered
<1>9. CASE item.role \notin {"system", "user"}
  <2>1. Gathers(a, item) = [a EXCEPT !.out = Append(a.out, item)]
    BY <1>9 DEF Gathers
  <2>2. Gathers(a, item) = [out |-> Append(a.out, item), carry |-> a.carry]
    BY <1>1, <2>1
  <2>. QED  BY <1>1, <1>5, <2>2 DEF Gathered
<1>. QED  BY <1>7, <1>8, <1>9

\* _hoist_system_messages gathers item by item, and puts what it still carries at the end.
LEMMA HoistIsThere ==
    ASSUME NEW items \in Seq(Items)
    PROVE  \E acc : /\ Hoists(Len(items), items, acc)
                    /\ Hoist(items) = LET last == acc[Len(items)]
                                      IN  IF last.carry = <<>> THEN last.out
                                          ELSE Append(last.out, Item("user", last.carry))
<1>. DEFINE n == Len(items)
            a == [out |-> <<>>, carry |-> <<>>]
            G(g) == [s \in SUBSET (1..n) |-> IF s = {} THEN a ELSE Gathers(g[s \ {Max(s)}], items[Max(s)])]
            fold == CHOOSE g : g = G(g)
            step == [i \in 1..n |-> [x \in Gathered |-> Gathers(x, items[i])]]
<1>0. n \in Nat /\ DOMAIN items = 1..n /\ \A i \in 1..n : items[i] \in Items
  OBVIOUS
<1>4. Hoist(items) = LET last == fold[1..n]
                     IN  IF last.carry = <<>> THEN last.out
                         ELSE Append(last.out, Item("user", last.carry))
  BY <1>0 DEF Hoist, FoldLeft, MapThenFoldSet
<1>. HIDE DEF n
<1>3. a \in Gathered
  BY DEF Gathered
<1>. HIDE DEF a
<1>1. \E g : g = G(g)
  <2>1. step \in [1..n -> [Gathered -> Gathered]]
    BY <1>0, GathersType
  <2>. HIDE DEF step
  <2>2. PICK g \in [SUBSET (1..n) -> Gathered] : Folds(n, a, step, g)
    BY <1>0, <1>3, <2>1, FoldIsThere
  <2>3. ASSUME NEW s \in SUBSET (1..n), s # {}
        PROVE  step[Max(s)][g[s \ {Max(s)}]] = Gathers(g[s \ {Max(s)}], items[Max(s)])
    <3>1. Max(s) \in 1..n
      BY <1>0, <2>3, Largest
    <3>. QED  BY <3>1 DEF step
  <2>4. g = G(g)
    BY <2>2, <2>3 DEF Folds
  <2>. QED  BY <2>4
<1>2. fold = G(fold)
  <2>. HIDE DEF G
  <2>. QED  BY <1>1
<1>. HIDE DEF fold
<1>. DEFINE acc == [i \in 0..n |-> fold[1..i]]
<1>5. acc[0] = a
  BY <1>0, <1>2
<1>6. ASSUME NEW i \in 1..n PROVE acc[i] = Gathers(acc[i - 1], items[i])
  <2>1. fold[1..i] = Gathers(fold[(1..i) \ {Max(1..i)}], items[Max(1..i)])
    BY <1>0, <1>2, FirstPositions
  <2>2. fold[1..i] = Gathers(fold[1..(i - 1)], items[i])
    BY <1>0, <2>1, FirstPositions
  <2>3. acc[i] = fold[1..i] /\ acc[i - 1] = fold[1..(i - 1)]
    BY <1>0
  <2>. QED  BY <2>2, <2>3
<1>7. acc \in [0..n -> Gathered]
  <2>. DEFINE P == {i \in Nat : i \in 0..n => acc[i] \in Gathered}
  <2>. SUFFICES ASSUME NEW m \in 0..n PROVE acc[m] \in Gathered
    OBVIOUS
  <2>. HIDE DEF acc
  <2>1. 0 \in P /\ \A i \in 1..m : i - 1 \in P => i \in P
    BY <1>0, <1>3, <1>5, <1>6, GathersType
  <2>2. m \in P
    <3>. HIDE DEF P
    <3>1. m \in Nat
      BY <1>0
    <3>. QED  BY <2>1, <3>1, UpTo
  <2>. QED  BY <2>2 DEF P
<1>8. acc[n] = fold[1..n]
  BY <1>0
<1>. HIDE DEF acc
<1>9. Hoists(n, items, acc)
  BY <1>5, <1>6, <1>7 DEF Hoists, a
<1>. QED  BY <1>4, <1>8, <1>9 DEF n

-----------------------------------------------------------------------------
\* Counting what is in a list of parts.
LEMMA BodyAppends ==
    ASSUME NEW items \in Seq(Items), NEW item \in Items
    PROVE  /\ Body(items) \in Seq(Nat)
           /\ Body(Append(items, item)) = Body(items) \o item.parts
<1>. DEFINE n == Len(items)
            s == [i \in 1..n |-> items[i].parts]
            t == [i \in 1..(n + 1) |-> Append(items, item)[i].parts]
<1>1. /\ n \in Nat /\ Len(Append(items, item)) = n + 1
      /\ \A i \in 1..n : items[i] \in Items /\ Append(items, item)[i] = items[i]
      /\ Append(items, item)[n + 1] = item
  OBVIOUS
<1>2. s \in [1..n -> Seq(Nat)]
  BY <1>1 DEF Items
<1>3. t \in [1..(n + 1) -> Seq(Nat)] /\ t[n + 1] = item.parts
  <2>1. ASSUME NEW i \in 1..(n + 1) PROVE Append(items, item)[i] \in Items
    <3>1. i \in 1..n \/ i = n + 1
      BY <1>1
    <3>. QED  BY <1>1, <3>1
  <2>. QED  BY <1>1, <2>1 DEF Items
<1>4. \A i \in 1..n : s[i] = t[i]
  BY <1>1
<1>5. Body(items) = FlattenSeq(s) /\ Body(Append(items, item)) = FlattenSeq(t)
  BY <1>1 DEF Body
<1>. HIDE DEF s, t, n
<1>. QED  BY <1>1, <1>2, <1>3, <1>4, <1>5, FlattenAppends, ZenonT(60)

\* An id is in two sequences put together as often as in both.
LEMMA TimesAdd ==
    ASSUME NEW b \in Seq(Nat), NEW c \in Seq(Nat), NEW id
    PROVE  /\ Times(b, id) \in Nat
           /\ Times(b \o c, id) = Times(b, id) + Times(c, id)
<1>. DEFINE m == Len(b)
            n == Len(c)
            B == {k \in 1..m : b[k] = id}
            C == {k \in 1..n : c[k] = id}
            D == {k \in (m + 1)..(m + n) : (b \o c)[k] = id}
            f == [k \in C |-> m + k]
<1>1. m \in Nat /\ n \in Nat /\ DOMAIN b = 1..m /\ DOMAIN c = 1..n /\ DOMAIN (b \o c) = 1..(m + n)
  OBVIOUS
<1>2. /\ \A k \in 1..m : (b \o c)[k] = b[k]
      /\ \A k \in (m + 1)..(m + n) : (b \o c)[k] = c[k - m]
      /\ \A k \in 1..n : (b \o c)[m + k] = c[k]
  OBVIOUS
<1>3. {k \in DOMAIN (b \o c) : (b \o c)[k] = id} = B \union D /\ B \intersect D = {}
  <2>1. 1..(m + n) = (1..m) \union ((m + 1)..(m + n)) /\ (1..m) \intersect ((m + 1)..(m + n)) = {}
    BY <1>1
  <2>. QED  BY <1>1, <1>2, <2>1
<1>4. IsFiniteSet(B) /\ IsFiniteSet(C)
  <2>1. IsFiniteSet(1..m) /\ IsFiniteSet(1..n)
    BY <1>1, FS_Interval
  <2>2. B \in SUBSET (1..m) /\ C \in SUBSET (1..n)
    OBVIOUS
  <2>. HIDE DEF B, C
  <2>. QED  BY <2>1, <2>2, FS_Subset
<1>5. f \in Bijection(C, D)
  <2>1. ASSUME NEW k \in C PROVE f[k] \in D
    <3>1. k \in 1..n /\ c[k] = id /\ m + k \in (m + 1)..(m + n)
      BY <1>1
    <3>. QED  BY <1>2, <3>1
  <2>2. \A j, k \in C : f[j] = f[k] => j = k
    BY <1>1
  <2>3. ASSUME NEW k \in D PROVE \E j \in C : f[j] = k
    <3>1. k - m \in 1..n /\ c[k - m] = id /\ m + (k - m) = k
      BY <1>1, <1>2
    <3>2. k - m \in C
      BY <3>1
    <3>. QED  BY <3>1, <3>2
  <2>4. f \in [C -> D]
    BY <2>1
  <2>. HIDE DEF f, C, D
  <2>. QED  BY <2>2, <2>3, <2>4 DEF Bijection, Injection, Surjection, IsInjective
<1>. HIDE DEF B, C, D, f
<1>6. IsFiniteSet(D) /\ Cardinality(D) = Cardinality(C)
  BY <1>4, <1>5, FS_Bijection DEF ExistsBijection
<1>7. Cardinality(B) \in Nat /\ Cardinality(C) \in Nat
  BY <1>4, FS_CardinalityType
<1>8. Cardinality(B \union D) = Cardinality(B) + Cardinality(D)
  <2>1. Cardinality(B \union D) = Cardinality(B) + Cardinality(D) - Cardinality(B \intersect D)
    BY <1>4, <1>6, FS_Union
  <2>2. Cardinality(B \intersect D) = 0
    BY <1>3, FS_EmptySet
  <2>. QED  BY <1>6, <1>7, <2>1, <2>2
<1>9. Times(b, id) = Cardinality(B) /\ Times(c, id) = Cardinality(C)
  BY <1>1 DEF Times, B, C
<1>10. Times(b \o c, id) = Cardinality(B \union D)
  BY <1>3 DEF Times
<1>. QED  BY <1>6, <1>7, <1>8, <1>9, <1>10

\* An id is in a sequence of one once or never.
LEMMA TimesOne ==
    ASSUME NEW x, NEW id
    PROVE  Times(<<>>, id) = 0 /\ Times(<<x>>, id) = (IF x = id THEN 1 ELSE 0)
<1>1. {k \in DOMAIN <<>> : <<>>[k] = id} = {}
  OBVIOUS
<1>2. x = id => {k \in DOMAIN <<x>> : <<x>>[k] = id} = {1}
  OBVIOUS
<1>3. x # id => {k \in DOMAIN <<x>> : <<x>>[k] = id} = {}
  OBVIOUS
<1>. QED  BY <1>1, <1>2, <1>3, FS_EmptySet, FS_Singleton DEF Times

-----------------------------------------------------------------------------
IsNote(messages, id) == \E k \in DOMAIN messages : messages[k].kind = "note" /\ messages[k].id = id

\* Where the first i messages are, once they have been gathered: in the parts, or, if they
\* are notes, carried on.
Placed(messages, i, parts, carry) ==
    /\ parts \in Seq(Nat) /\ carry \in Seq(Nat)
    /\ \A k \in 1..i : Times(parts, messages[k].id) + Times(carry, messages[k].id)
                          = IF messages[k].kind = "both" THEN 2 ELSE 1
    /\ \A p \in DOMAIN carry : \E k \in 1..i : messages[k].kind = "note" /\ messages[k].id = carry[p]
    /\ \A p \in DOMAIN parts : \E k \in 1..i : messages[k].id = parts[p]
    /\ \A p, q \in DOMAIN parts :
          p < q /\ ~IsNote(messages, parts[p]) /\ ~IsNote(messages, parts[q]) => parts[p] <= parts[q]

\* Nothing is carried past a message of the user.
CarriesLate(messages, i, carry) ==
    carry # <<>> => \E k \in 1..i : /\ messages[k].kind = "note"
                                    /\ \A j \in k..i : messages[j].kind \notin {"user", "both"}

\* An id that is nowhere in a sequence is in it no time.
LEMMA TimesNone ==
    ASSUME NEW b \in Seq(Nat), NEW id, \A p \in DOMAIN b : b[p] # id
    PROVE  Times(b, id) = 0
<1>1. {k \in DOMAIN b : b[k] = id} = {}
  OBVIOUS
<1>. QED  BY <1>1, FS_EmptySet DEF Times

\* Message i is taken up: what was carried and the message are added or carried on.
TakesUp(messages, i, carry, added, left) ==
    LET id == messages[i].id
        many == IF messages[i].kind = "both" THEN 2 ELSE 1
    IN  /\ added \in Seq(Nat) /\ left \in Seq(Nat)
        /\ \A k : Times(added, k) + Times(left, k) = Times(carry, k) + (IF k = id THEN many ELSE 0)
        /\ \A p \in DOMAIN added : added[p] = id \/ \E q \in DOMAIN carry : added[p] = carry[q]
        /\ \A p \in DOMAIN left : \/ left[p] = id /\ messages[i].kind = "note"
                                  \/ \E q \in DOMAIN carry : left[p] = carry[q]

\* What is placed stays where it is, and what is added is the latest message, and notes.
LEMMA OneMorePlaced ==
    ASSUME NEW w \in Seq(KeptMessages), Ordered(w), NEW i \in 1..Len(w),
           NEW parts, NEW carry, Placed(w, i - 1, parts, carry),
           NEW added, NEW left, TakesUp(w, i, carry, added, left)
    PROVE  Placed(w, i, parts \o added, left)
<1>. DEFINE n == Len(parts)
            id == w[i].id
            all == parts \o added
            many == IF w[i].kind = "both" THEN 2 ELSE 1
<1>1. /\ \A k \in 1..Len(w) : w[k].id \in Nat
      /\ \A k \in 1..(i - 1) : k \in 1..Len(w) /\ k < i /\ w[k].id < id
      /\ id \in Nat /\ i - 1 \in Nat /\ i \in 1..i /\ i \in DOMAIN w
      /\ \A k \in 1..(i - 1) : k \in 1..i /\ k \in DOMAIN w
      /\ \A k \in 1..i : k = i \/ k \in 1..(i - 1)
  <2>1. \A k \in 1..Len(w) : w[k] \in KeptMessages
    OBVIOUS
  <2>2. \A k \in 1..(i - 1) : k \in 1..Len(w) /\ k < i
    OBVIOUS
  <2>3. DOMAIN w = 1..Len(w) /\ Len(w) \in Nat
    OBVIOUS
  <2>4. \A k \in 1..Len(w) : w[k].id \in Nat
    BY <2>1 DEF KeptMessages
  <2>5. \A k \in 1..(i - 1) : w[k].id < id
    BY <2>2, <2>3 DEF Ordered
  <2>6. i - 1 \in Nat /\ i \in 1..i
    OBVIOUS
  <2>7. \A k \in 1..(i - 1) : k \in 1..i
    OBVIOUS
  <2>8. \A k \in 1..i : k = i \/ k \in 1..(i - 1)
    OBVIOUS
  <2>. QED  BY <2>2, <2>3, <2>4, <2>5, <2>6, <2>7, <2>8
<1>2. /\ parts \in Seq(Nat) /\ carry \in Seq(Nat) /\ added \in Seq(Nat) /\ left \in Seq(Nat)
      /\ \A k : Times(added, k) + Times(left, k) = Times(carry, k) + (IF k = id THEN many ELSE 0)
      /\ \A p \in DOMAIN added : added[p] = id \/ \E q \in DOMAIN carry : added[p] = carry[q]
      /\ \A p \in DOMAIN left : \/ left[p] = id /\ w[i].kind = "note"
                                \/ \E q \in DOMAIN carry : left[p] = carry[q]
  BY DEF Placed, TakesUp
<1>3. many \in Nat
  OBVIOUS
<1>4. /\ \A p \in DOMAIN carry : \E k \in 1..(i - 1) : w[k].kind = "note" /\ w[k].id = carry[p]
      /\ \A p \in DOMAIN parts : \E k \in 1..(i - 1) : w[k].id = parts[p]
  BY DEF Placed
<1>. HIDE DEF id, many
<1>5. all \in Seq(Nat) /\ n \in Nat /\ DOMAIN parts = 1..n
  BY <1>2
<1>6. ASSUME NEW k
      PROVE  Times(all, k) + Times(left, k)
                = (Times(parts, k) + Times(carry, k)) + (IF k = id THEN many ELSE 0)
  <2>1. Times(all, k) = Times(parts, k) + Times(added, k)
    BY <1>2, TimesAdd
  <2>2. /\ Times(parts, k) \in Nat /\ Times(added, k) \in Nat /\ Times(left, k) \in Nat
        /\ Times(carry, k) \in Nat
    BY <1>2, TimesAdd
  <2>. HIDE DEF all
  <2>3. CASE k = id
    <3>1. Times(added, k) + Times(left, k) = Times(carry, k) + many
      BY <1>2, <2>3
    <3>2. (IF k = id THEN many ELSE 0) = many
      BY <2>3
    <3>3. PICK a, b, c, d : /\ a = Times(parts, k) /\ b = Times(added, k)
                            /\ c = Times(left, k) /\ d = Times(carry, k)
      OBVIOUS
    <3>4. a \in Nat /\ b \in Nat /\ c \in Nat /\ d \in Nat /\ b + c = d + many
      BY <2>2, <3>1, <3>3
    <3>5. (a + b) + c = (a + d) + many
      BY <1>3, <3>4
    <3>. QED  BY <2>1, <3>2, <3>3, <3>5
  <2>4. CASE k # id
    <3>1. Times(added, k) + Times(left, k) = Times(carry, k) + 0
      BY <1>2, <2>4
    <3>. QED  BY <2>1, <2>2, <2>4, <3>1
  <2>. QED  BY <2>3, <2>4
<1>7. Times(parts, id) = 0 /\ Times(carry, id) = 0
  <2>1. \A p \in DOMAIN parts : parts[p] # id
    BY <1>1, <1>4
  <2>2. \A p \in DOMAIN carry : carry[p] # id
    BY <1>1, <1>4
  <2>. QED  BY <1>2, <2>1, <2>2, TimesNone
<1>8. ASSUME NEW p \in DOMAIN all
      PROVE  \/ p \in DOMAIN parts /\ all[p] = parts[p]
             \/ p \notin DOMAIN parts /\ p - n \in DOMAIN added /\ all[p] = added[p - n]
  BY <1>2, SMTT(30)
<1>. HIDE DEF all, n
<1>9. ASSUME NEW k \in 1..i
      PROVE  Times(all, w[k].id) + Times(left, w[k].id) = IF w[k].kind = "both" THEN 2 ELSE 1
  <2>1. CASE k = i
    BY <1>6, <1>7, <2>1 DEF many, id
  <2>2. CASE k # i
    <3>1. k \in 1..(i - 1) /\ w[k].id # id
      BY <1>1, <2>2
    <3>2. Times(parts, w[k].id) + Times(carry, w[k].id) = IF w[k].kind = "both" THEN 2 ELSE 1
      BY <3>1 DEF Placed
    <3>. QED  BY <1>6, <3>1, <3>2
  <2>. QED  BY <2>1, <2>2
<1>10. ASSUME NEW p \in DOMAIN left
       PROVE  \E k \in 1..i : w[k].kind = "note" /\ w[k].id = left[p]
  <2>1. CASE left[p] = id /\ w[i].kind = "note"
    BY <1>1, <2>1 DEF id
  <2>2. CASE \E q \in DOMAIN carry : left[p] = carry[q]
    BY <1>1, <1>4, <2>2
  <2>. QED  BY <1>2, <2>1, <2>2
<1>11. ASSUME NEW p \in DOMAIN all, p \notin DOMAIN parts
       PROVE  \/ all[p] = id
              \/ IsNote(w, all[p]) /\ \E k \in 1..i : w[k].id = all[p]
  <2>1. all[p] = id \/ \E q \in DOMAIN carry : all[p] = carry[q]
    BY <1>2, <1>8, <1>11
  <2>2. CASE \E q \in DOMAIN carry : all[p] = carry[q]
    <3>1. PICK k \in 1..(i - 1) : w[k].kind = "note" /\ w[k].id = all[p]
      BY <1>4, <2>2
    <3>. QED  BY <1>1, <3>1 DEF IsNote
  <2>. QED  BY <2>1, <2>2
<1>12. ASSUME NEW p \in DOMAIN all
       PROVE  \E k \in 1..i : w[k].id = all[p]
  <2>1. CASE p \in DOMAIN parts
    BY <1>1, <1>4, <1>8, <2>1
  <2>2. CASE p \notin DOMAIN parts
    BY <1>1, <1>11, <2>2 DEF id
  <2>. QED  BY <2>1, <2>2
<1>13. ASSUME NEW p \in DOMAIN all, NEW q \in DOMAIN all, p < q,
              ~IsNote(w, all[p]), ~IsNote(w, all[q])
       PROVE  all[p] <= all[q]
  <2>1. CASE q \in DOMAIN parts
    <3>0. p \in Nat \ {0}
      BY <1>5
    <3>1. p \in DOMAIN parts
      BY <1>5, <1>13, <2>1, <3>0
    <3>2. all[p] = parts[p] /\ all[q] = parts[q]
      BY <1>8, <2>1, <3>1
    <3>. QED  BY <1>13, <2>1, <3>1, <3>2 DEF Placed
  <2>2. CASE q \notin DOMAIN parts
    <3>1. all[q] = id
      BY <1>11, <1>13, <2>2
    <3>2. PICK k \in 1..i : w[k].id = all[p]
      BY <1>12
    <3>. QED  BY <1>1, <3>1, <3>2 DEF id
  <2>. QED  BY <2>1, <2>2
<1>14. Placed(w, i, all, left)
  BY <1>2, <1>5, <1>9, <1>10, <1>12, <1>13 DEF Placed
<1>. QED  BY <1>14 DEF all

\* The ways a message is taken up.
LEMMA TakenUp ==
    ASSUME NEW w \in Seq(KeptMessages), NEW i \in 1..Len(w), NEW carry \in Seq(Nat), NEW one, one = <<w[i].id>>
    PROVE  /\ w[i].kind = "user" => TakesUp(w, i, carry, carry \o one, <<>>)
           /\ w[i].kind \in {"answer", "call", "result"} => TakesUp(w, i, carry, one, carry)
           /\ w[i].kind = "note" => TakesUp(w, i, carry, <<>>, carry \o one)
           /\ w[i].kind = "both" => TakesUp(w, i, carry, (carry \o one) \o one, <<>>)
<1>. DEFINE id == w[i].id
            none == <<>>
<1>1. id \in Nat
  <2>1. w[i] \in KeptMessages
    OBVIOUS
  <2>. QED  BY <2>1 DEF KeptMessages
<1>. HIDE DEF id
<1>2. /\ one \in Seq(Nat) /\ \A p \in DOMAIN one : one[p] = id
      /\ none \in Seq(Nat) /\ DOMAIN none = {}
  BY <1>1 DEF id
<1>3. \A k : Times(one, k) = (IF k = id THEN 1 ELSE 0) /\ Times(none, k) = 0
  <2>. TAKE k
  <2>1. Times(<<id>>, k) = (IF id = k THEN 1 ELSE 0) /\ Times(none, k) = 0
    BY TimesOne
  <2>. QED  BY <2>1 DEF id
<1>4. one = <<id>>
  BY DEF id
<1>. HIDE DEF none
<1>5. \A k : Times(carry, k) \in Nat
  BY TimesAdd
<1>6. /\ carry \o one \in Seq(Nat) /\ (carry \o one) \o one \in Seq(Nat)
      /\ \A k : Times(carry \o one, k) = Times(carry, k) + (IF k = id THEN 1 ELSE 0)
      /\ \A k : Times((carry \o one) \o one, k) = Times(carry, k) + (IF k = id THEN 2 ELSE 0)
  <2>1. carry \o one \in Seq(Nat) /\ (carry \o one) \o one \in Seq(Nat)
    BY <1>2
  <2>2. \A k : Times(carry \o one, k) = Times(carry, k) + Times(one, k)
    BY <1>2, TimesAdd, ZenonT(60)
  <2>. DEFINE two == carry \o one
  <2>3. two \in Seq(Nat) /\ \A k : Times(two, k) = Times(carry, k) + Times(one, k)
    BY <2>1, <2>2
  <2>. HIDE DEF two
  <2>4. \A k : Times(two \o one, k) = Times(two, k) + Times(one, k)
    BY <1>2, <2>3, TimesAdd
  <2>5. \A k : Times(two, k) = Times(carry, k) + (IF k = id THEN 1 ELSE 0)
    BY <1>3, <1>5, <2>3
  <2>6. \A k : Times(two \o one, k) = Times(carry, k) + (IF k = id THEN 2 ELSE 0)
    BY <1>3, <1>5, <2>4, <2>5, SMTT(30)
  <2>. QED  BY <2>1, <2>5, <2>6 DEF two
<1>7. \A p \in DOMAIN (carry \o one) :
         (carry \o one)[p] = id \/ \E q \in DOMAIN carry : (carry \o one)[p] = carry[q]
  <2>. TAKE p \in DOMAIN (carry \o one)
  <2>1. \/ p \in DOMAIN carry /\ (carry \o one)[p] = carry[p]
        \/ p - Len(carry) \in DOMAIN one /\ (carry \o one)[p] = one[p - Len(carry)]
    BY <1>2
  <2>. QED  BY <1>2, <2>1
<1>8. \A p \in DOMAIN ((carry \o one) \o one) :
         \/ ((carry \o one) \o one)[p] = id
         \/ \E q \in DOMAIN carry : ((carry \o one) \o one)[p] = carry[q]
  <2>. TAKE p \in DOMAIN ((carry \o one) \o one)
  <2>. DEFINE two == carry \o one
  <2>1. two \in Seq(Nat) /\ \A q \in DOMAIN two : two[q] = id \/ \E r \in DOMAIN carry : two[q] = carry[r]
    BY <1>6, <1>7
  <2>2. p \in DOMAIN (two \o one)
    OBVIOUS
  <2>. HIDE DEF two
  <2>3. \/ p \in DOMAIN two /\ (two \o one)[p] = two[p]
        \/ p - Len(two) \in DOMAIN one /\ (two \o one)[p] = one[p - Len(two)]
    BY <1>2, <2>1, <2>2
  <2>4. (two \o one)[p] = id \/ \E q \in DOMAIN carry : (two \o one)[p] = carry[q]
    BY <1>2, <2>1, <2>3
  <2>. QED  BY <2>4 DEF two
<1>9. ASSUME w[i].kind = "user" PROVE TakesUp(w, i, carry, carry \o one, none)
  <2>1. \A k : Times(carry \o one, k) + Times(none, k) = Times(carry, k) + (IF k = id THEN 1 ELSE 0)
    BY <1>3, <1>5, <1>6
  <2>. QED  BY <1>2, <1>6, <1>7, <1>9, <2>1 DEF TakesUp, id
<1>10. ASSUME w[i].kind \in {"answer", "call", "result"} PROVE TakesUp(w, i, carry, one, carry)
  <2>1. \A k : Times(one, k) + Times(carry, k) = Times(carry, k) + (IF k = id THEN 1 ELSE 0)
    BY <1>3, <1>5
  <2>2. \A p \in DOMAIN carry : \E q \in DOMAIN carry : carry[p] = carry[q]
    OBVIOUS
  <2>3. w[i].kind # "both"
    BY <1>10
  <2>. HIDE <1>10
  <2>. QED  BY <1>2, <2>1, <2>2, <2>3, Zenon DEF TakesUp, id
<1>11. ASSUME w[i].kind = "note" PROVE TakesUp(w, i, carry, none, carry \o one)
  <2>1. \A k : Times(none, k) + Times(carry \o one, k) = Times(carry, k) + (IF k = id THEN 1 ELSE 0)
    BY <1>3, <1>5, <1>6
  <2>. QED  BY <1>2, <1>6, <1>7, <1>11, <2>1 DEF TakesUp, id
<1>12. ASSUME w[i].kind = "both" PROVE TakesUp(w, i, carry, (carry \o one) \o one, none)
  <2>1. \A k : Times((carry \o one) \o one, k) + Times(none, k) = Times(carry, k) + (IF k = id THEN 2 ELSE 0)
    BY <1>3, <1>5, <1>6
  <2>. QED  BY <1>2, <1>6, <1>8, <1>12, <2>1 DEF TakesUp, id
<1>. QED  BY <1>9, <1>10, <1>11, <1>12 DEF none

\* What gathering an item does to the parts and to what is carried.
LEMMA GathersParts ==
    ASSUME NEW a \in Gathered, NEW item \in Items
    PROVE  LET b == Gathers(a, item)
           IN  /\ item.role = "user" => /\ Body(b.out) = Body(a.out) \o (a.carry \o item.parts)
                                        /\ b.carry = <<>>
               /\ item.role \in {"assistant", "tool"} => /\ Body(b.out) = Body(a.out) \o item.parts
                                                         /\ b.carry = a.carry
               /\ item.role = "system" => b.out = a.out /\ b.carry = a.carry \o item.parts
               /\ item.role \notin {"system", "user"} => b.out = Append(a.out, item)
               /\ item.role = "user" => b.out = Append(a.out, Item("user", a.carry \o item.parts))
<1>1. a = [out |-> a.out, carry |-> a.carry] /\ a.out \in Seq(Items) /\ a.carry \in Seq(Nat)
  BY DEF Gathered
<1>2. item.parts \in Seq(Nat)
  BY DEF Items
<1>3. a.carry \o item.parts \in Seq(Nat)
  BY <1>1, <1>2
<1>4. Item("user", a.carry \o item.parts) \in Items
  BY <1>3 DEF Item, Items
<1>5. Item("user", a.carry \o item.parts).parts = a.carry \o item.parts
  BY DEF Item
<1>6. CASE item.role = "system"
  <2>1. Gathers(a, item) = [a EXCEPT !.carry = a.carry \o item.parts]
    BY <1>6 DEF Gathers
  <2>2. Gathers(a, item) = [out |-> a.out, carry |-> a.carry \o item.parts]
    BY <1>1, <2>1
  <2>. DEFINE b == Gathers(a, item)
  <2>3. b.out = a.out /\ b.carry = a.carry \o item.parts
    <3>. DEFINE joined == a.carry \o item.parts
    <3>1. b = [out |-> a.out, carry |-> joined]
      BY <2>2
    <3>. HIDE DEF joined, b
    <3>2. b.out = a.out /\ b.carry = joined
      BY <3>1
    <3>. QED  BY <3>2 DEF joined
  <2>. HIDE DEF b
  <2>4. item.role # "user" /\ item.role \notin {"assistant", "tool"}
    BY <1>6
  <2>. QED  BY <1>6, <2>3, <2>4, Zenon DEF b
<1>7. CASE item.role = "user"
  <2>1. Gathers(a, item) = [out |-> Append(a.out, Item("user", a.carry \o item.parts)), carry |-> <<>>]
    BY <1>7 DEF Gathers
  <2>. DEFINE it == Item("user", a.carry \o item.parts)
  <2>2. it \in Items /\ it.parts = a.carry \o item.parts
    BY <1>4, <1>5
  <2>. HIDE DEF it
  <2>3. Body(Append(a.out, it)) = Body(a.out) \o it.parts
    BY <1>1, <2>2, BodyAppends
  <2>4. Gathers(a, item).out = Append(a.out, it) /\ Gathers(a, item).carry = <<>>
    BY <2>1 DEF it
  <2>. QED  BY <1>7, <2>2, <2>3, <2>4 DEF it
<1>8. CASE item.role \notin {"system", "user"}
  <2>1. Gathers(a, item) = [a EXCEPT !.out = Append(a.out, item)]
    BY <1>8 DEF Gathers
  <2>2. Gathers(a, item) = [out |-> Append(a.out, item), carry |-> a.carry]
    BY <1>1, <2>1
  <2>3. Body(Append(a.out, item)) = Body(a.out) \o item.parts
    BY <1>1, BodyAppends
  <2>. DEFINE b == Gathers(a, item)
  <2>4. b.out = Append(a.out, item) /\ b.carry = a.carry
    BY <2>2
  <2>. HIDE DEF b
  <2>5. item.role # "user" /\ item.role # "system"
    BY <1>8
  <2>. QED  BY <2>3, <2>4, <2>5, Zenon DEF b
<1>. QED  BY <1>6, <1>7, <1>8

-----------------------------------------------------------------------------
\* The items of a message, and what is gathered after them.
ItemsOf(m) == Convert(m)
After(m, a) ==
    IF m.kind = "both" THEN Gathers(Gathers(a, Item("user", <<m.id>>)), Item("tool", <<m.id>>))
    ELSE Gathers(a, ItemsOf(m)[1])

NoSystem(items) == \A k \in DOMAIN items : items[k].role # "system"

\* What a message of each kind is converted to.
LEMMA ItemsTypes ==
    ASSUME NEW m \in KeptMessages
    PROVE  /\ ItemsOf(m) \in Seq(Items)
           /\ m.kind = "user" => ItemsOf(m) = <<Item("user", <<m.id>>)>>
           /\ m.kind \in {"answer", "call"} => ItemsOf(m) = <<Item("assistant", <<m.id>>)>>
           /\ m.kind = "result" => ItemsOf(m) = <<Item("tool", <<m.id>>)>>
           /\ m.kind = "note" => ItemsOf(m) = <<Item("system", <<m.id>>)>>
           /\ m.kind = "both" => ItemsOf(m) = <<Item("user", <<m.id>>), Item("tool", <<m.id>>)>>
           /\ \A role \in {"user", "assistant", "tool", "system"} : Item(role, <<m.id>>) \in Items
<1>1. m.id \in Nat /\ m.kind \in WindowKinds
  BY DEF KeptMessages
<1>2. /\ m.kind = "user" => ItemsOf(m) = <<Item("user", <<m.id>>)>>
      /\ m.kind \in {"answer", "call"} => ItemsOf(m) = <<Item("assistant", <<m.id>>)>>
      /\ m.kind = "result" => ItemsOf(m) = <<Item("tool", <<m.id>>)>>
      /\ m.kind = "note" => ItemsOf(m) = <<Item("system", <<m.id>>)>>
      /\ m.kind = "both" => ItemsOf(m) = <<Item("user", <<m.id>>), Item("tool", <<m.id>>)>>
  BY DEF ItemsOf, Convert
<1>3. \A role \in {"user", "assistant", "tool", "system"} : Item(role, <<m.id>>) \in Items
  BY <1>1 DEF Item, Items
<1>4. ItemsOf(m) \in Seq(Items)
  <2>. DEFINE it(role) == Item(role, <<m.id>>)
  <2>1. it("user") \in Items /\ it("assistant") \in Items /\ it("tool") \in Items /\ it("system") \in Items
    BY <1>3
  <2>2. ItemsOf(m) \in {<<it("user")>>, <<it("assistant")>>, <<it("tool")>>, <<it("system")>>,
                        <<it("user"), it("tool")>>}
    BY <1>1, <1>2 DEF WindowKinds
  <2>. HIDE DEF it
  <2>3. /\ <<it("user")>> \in Seq(Items) /\ <<it("assistant")>> \in Seq(Items)
        /\ <<it("tool")>> \in Seq(Items) /\ <<it("system")>> \in Seq(Items)
    BY <2>1
  <2>4. <<it("user"), it("tool")>> \in Seq(Items)
    BY <2>1
  <2>. QED  BY <2>2, <2>3, <2>4, Zenon
<1>. QED  BY <1>2, <1>3, <1>4

\* Three sequences of ids can be put together in either order.
LEMMA InARow ==
    ASSUME NEW b \in Seq(Nat), NEW c \in Seq(Nat), NEW d \in Seq(Nat)
    PROVE  (b \o c) \o d = b \o (c \o d)
BY ConcatAssociative, SMTT(30)

\* One message of the window is gathered.
LEMMA MessageGathered ==
    ASSUME NEW w \in Seq(KeptMessages), Ordered(w), NEW i \in 1..Len(w), NEW a \in Gathered,
           Placed(w, i - 1, Body(a.out), a.carry),
           CarriesLate(w, i - 1, a.carry), NoSystem(a.out)
    PROVE  LET b == After(w[i], a)
           IN  /\ b \in Gathered
               /\ Placed(w, i, Body(b.out), b.carry)
               /\ CarriesLate(w, i, b.carry)
               /\ NoSystem(b.out)
<1>. DEFINE m == w[i]
            one == <<m.id>>
            parts == Body(a.out)
<1>1. m \in KeptMessages /\ m.id \in Nat /\ m.kind \in WindowKinds
  <2>1. m \in KeptMessages
    OBVIOUS
  <2>. QED  BY <2>1 DEF KeptMessages
<1>2. a.out \in Seq(Items) /\ a.carry \in Seq(Nat) /\ parts \in Seq(Nat) /\ one \in Seq(Nat)
  BY <1>1 DEF Gathered, Placed
<1>3. \A role \in {"user", "assistant", "tool", "system"} :
         /\ Item(role, one) \in Items /\ Item(role, one).role = role /\ Item(role, one).parts = one
  BY <1>1, ItemsTypes DEF Item
<1>4. /\ m.kind = "user" => TakesUp(w, i, a.carry, a.carry \o one, <<>>)
      /\ m.kind \in {"answer", "call", "result"} => TakesUp(w, i, a.carry, one, a.carry)
      /\ m.kind = "note" => TakesUp(w, i, a.carry, <<>>, a.carry \o one)
      /\ m.kind = "both" => TakesUp(w, i, a.carry, (a.carry \o one) \o one, <<>>)
  BY <1>2, TakenUp
<1>5. \A added, left : TakesUp(w, i, a.carry, added, left) => Placed(w, i, parts \o added, left)
  BY OneMorePlaced
<1>6. \A item \in Items : /\ item.role # "system" => NoSystem(Append(a.out, item))
  BY <1>2 DEF NoSystem
<1>7. i \in 1..i /\ \A k \in 1..(i - 1) : k \in 1..i /\ \A j \in k..i : j = i \/ j \in k..(i - 1)
  OBVIOUS
<1>8. CASE m.kind = "user"
  <2>. DEFINE item == Item("user", one)
              b == Gathers(a, item)
  <2>1. After(m, a) = b
    BY <1>1, <1>8, ItemsTypes DEF After
  <2>2. item \in Items /\ item.role = "user" /\ item.parts = one
    BY <1>3
  <2>. HIDE DEF item
  <2>3. b \in Gathered
    BY <2>2, GathersType
  <2>4. Body(b.out) = parts \o (a.carry \o one) /\ b.carry = <<>>
        /\ b.out = Append(a.out, Item("user", a.carry \o one))
    BY <2>2, GathersParts
  <2>. HIDE DEF b
  <2>5. Placed(w, i, Body(b.out), b.carry)
    BY <1>4, <1>5, <1>8, <2>4
  <2>6. CarriesLate(w, i, b.carry)
    BY <2>4 DEF CarriesLate
  <2>7. NoSystem(b.out)
    <3>1. Item("user", a.carry \o one) \in Items /\ Item("user", a.carry \o one).role = "user"
      BY <1>2 DEF Item, Items
    <3>. QED  BY <1>6, <2>4, <3>1
  <2>. QED  BY <2>1, <2>3, <2>5, <2>6, <2>7
<1>9. CASE m.kind \in {"answer", "call", "result"}
  <2>1. PICK item \in {Item("assistant", one), Item("tool", one)} : After(m, a) = Gathers(a, item)
    BY <1>1, <1>9, ItemsTypes DEF After
  <2>. DEFINE b == Gathers(a, item)
  <2>2. item \in Items /\ item.role \in {"assistant", "tool"} /\ item.parts = one
    BY <1>3
  <2>3. b \in Gathered
    BY <2>2, GathersType
  <2>4. Body(b.out) = parts \o one /\ b.carry = a.carry /\ b.out = Append(a.out, item)
    BY <2>2, GathersParts
  <2>. HIDE DEF b
  <2>5. Placed(w, i, Body(b.out), b.carry)
    BY <1>4, <1>5, <1>9, <2>4
  <2>6. CarriesLate(w, i, b.carry)
    BY <1>7, <1>9, <2>4 DEF CarriesLate
  <2>7. NoSystem(b.out)
    BY <1>6, <2>2, <2>4
  <2>. QED  BY <2>1, <2>3, <2>5, <2>6, <2>7 DEF b
<1>10. CASE m.kind = "note"
  <2>. DEFINE item == Item("system", one)
              b == Gathers(a, item)
  <2>1. After(m, a) = b
    BY <1>1, <1>10, ItemsTypes DEF After
  <2>2. item \in Items /\ item.role = "system" /\ item.parts = one
    BY <1>3
  <2>. HIDE DEF item
  <2>3. b \in Gathered
    BY <2>2, GathersType
  <2>4. b.out = a.out /\ b.carry = a.carry \o one
    BY <2>2, GathersParts
  <2>. HIDE DEF b
  <2>5. parts \o <<>> = parts
    BY <1>2
  <2>6. Placed(w, i, Body(b.out), b.carry)
    BY <1>4, <1>5, <1>10, <2>4, <2>5
  <2>7. CarriesLate(w, i, b.carry)
    <3>1. \A j \in i..i : j = i
      OBVIOUS
    <3>. QED  BY <1>7, <1>10, <3>1 DEF CarriesLate
  <2>. QED  BY <2>1, <2>3, <2>4, <2>6, <2>7
<1>11. CASE m.kind = "both"
  <2>. DEFINE first == Item("user", one)
              second == Item("tool", one)
              b == Gathers(a, first)
              c == Gathers(b, second)
  <2>1. After(m, a) = c
    BY <1>11 DEF After
  <2>2. /\ first \in Items /\ first.role = "user" /\ first.parts = one
        /\ second \in Items /\ second.role = "tool" /\ second.parts = one
    BY <1>3
  <2>. HIDE DEF first, second
  <2>3. b \in Gathered
    BY <2>2, GathersType
  <2>4. Body(b.out) = parts \o (a.carry \o one) /\ b.carry = <<>>
        /\ b.out = Append(a.out, Item("user", a.carry \o one))
    BY <2>2, GathersParts
  <2>. HIDE DEF b
  <2>5. c \in Gathered
    BY <2>2, <2>3, GathersType
  <2>6. Body(c.out) = Body(b.out) \o one /\ c.carry = <<>> /\ c.out = Append(b.out, second)
    BY <2>2, <2>3, <2>4, GathersParts
  <2>. HIDE DEF c
  <2>7. Body(c.out) = parts \o ((a.carry \o one) \o one)
    <3>. DEFINE two == a.carry \o one
    <3>1. two \in Seq(Nat)
      BY <1>2
    <3>2. (parts \o two) \o one = parts \o (two \o one)
      <4>. HIDE DEF one, parts, two
      <4>1. parts \in Seq(Nat) /\ one \in Seq(Nat)
        BY <1>2
      <4>. QED  BY <3>1, <4>1, InARow
    <3>3. Body(c.out) = (parts \o two) \o one
      BY <2>4, <2>6
    <3>. HIDE DEF two, one, parts
    <3>. QED  BY <3>2, <3>3 DEF two
  <2>8. Placed(w, i, Body(c.out), c.carry)
    BY <1>4, <1>5, <1>11, <2>6, <2>7
  <2>9. CarriesLate(w, i, c.carry)
    BY <2>6 DEF CarriesLate
  <2>10. NoSystem(c.out)
    <3>1. Item("user", a.carry \o one) \in Items /\ Item("user", a.carry \o one).role = "user"
      BY <1>2 DEF Item, Items
    <3>2. NoSystem(b.out) /\ b.out \in Seq(Items)
      BY <1>6, <2>3, <2>4, <3>1 DEF Gathered
    <3>. QED  BY <2>2, <2>6, <3>2 DEF NoSystem
  <2>. QED  BY <2>1, <2>5, <2>8, <2>9, <2>10
<1>. QED  BY <1>1, <1>8, <1>9, <1>10, <1>11 DEF WindowKinds

-----------------------------------------------------------------------------
\* The gathering of the items of a window, one message after the other.
NothingTaken == [out |-> <<>>, carry |-> <<>>]
HoistedWhole(a) == IF a.carry = <<>> THEN a.out ELSE Append(a.out, Item("user", a.carry))
ItemsIn(w) == FlattenSeq([i \in DOMAIN w |-> Convert(w[i])])

Gathering(w, took) ==
    /\ took \in [0..Len(w) -> Gathered]
    /\ took[0] = NothingTaken
    /\ \A i \in 1..Len(w) : took[i] = After(w[i], took[i - 1])

\* Where the second of two sequences of items is in the two put together.
LEMMA ItemsConcat ==
    ASSUME NEW s \in Seq(Items), NEW t \in Seq(Items)
    PROVE  /\ Len(s \o t) = Len(s) + Len(t)
           /\ \A x \in 1..Len(t) : (s \o t)[Len(s) + x] = t[x]
OBVIOUS

\* Converting and hoisting a window gathers it message by message.
LEMMA WindowGathers ==
    ASSUME NEW w \in Seq(KeptMessages)
    PROVE  \E took : Gathering(w, took) /\ Hoist(ItemsIn(w)) = HoistedWhole(took[Len(w)])
<1>. DEFINE n == Len(w)
            seqs == [i \in 1..n |-> Convert(w[i])]
<1>1. n \in Nat /\ DOMAIN w = 1..n /\ \A i \in 1..n : w[i] \in KeptMessages
  OBVIOUS
<1>2. seqs \in [1..n -> Seq(Items)] /\ \A i \in 1..n : seqs[i] = ItemsOf(w[i]) /\ seqs[i] \in Seq(Items)
  <2>1. \A i \in 1..n : Convert(w[i]) \in Seq(Items)
    BY <1>1, ItemsTypes DEF ItemsOf
  <2>. QED  BY <2>1 DEF ItemsOf
<1>3. ItemsIn(w) = FlattenSeq(seqs)
  BY <1>1 DEF ItemsIn
<1>. HIDE DEF n, seqs
<1>4. PICK flat : Flattens(n, Items, seqs, flat) /\ FlattenSeq(seqs) = flat[n]
  BY <1>1, <1>2, FlattenIsThere
<1>. DEFINE items == flat[n]
            at(i) == Len(flat[i])
<1>5. /\ \A i \in 0..n : flat[i] \in Seq(Items) /\ at(i) \in Nat
      /\ flat[0] = <<>> /\ \A i \in 1..n : flat[i] = flat[i - 1] \o ItemsOf(w[i])
  <2>1. \A i \in 0..n : flat[i] \in Seq(Items)
    BY <1>4 DEF Flattens
  <2>2. \A i \in 0..n : Len(flat[i]) \in Nat
    BY <2>1
  <2>. QED  BY <1>2, <1>4, <2>1, <2>2 DEF Flattens
<1>6. items \in Seq(Items) /\ Len(items) \in Nat
  BY <1>1, <1>5
<1>7. \A i \in 0..n : at(i) <= Len(items) /\ Alike(at(i), items, flat[i])
  BY <1>1, <1>2, <1>4, FlattenBegins
<1>8. at(0) = 0 /\ at(n) = Len(items)
  BY <1>5
<1>. HIDE DEF items
<1>9. PICK acc : Hoists(Len(items), items, acc) /\ Hoist(items) = HoistedWhole(acc[Len(items)])
  BY <1>6, HoistIsThere DEF HoistedWhole
<1>. DEFINE took == [i \in 0..n |-> acc[at(i)]]
<1>10. ASSUME NEW i \in 1..n PROVE took[i] = After(w[i], took[i - 1])
  <2>. DEFINE k == at(i - 1)
              m == w[i]
              added == ItemsOf(m)
  <2>1. i - 1 \in 0..n /\ i \in 0..n /\ m \in KeptMessages /\ k \in Nat
    BY <1>1, <1>5
  <2>2. /\ flat[i] = flat[i - 1] \o added /\ flat[i - 1] \in Seq(Items) /\ added \in Seq(Items)
        /\ Len(flat[i - 1]) = k
    BY <1>5, <2>1, ItemsTypes
  <2>3. took[i] = acc[at(i)] /\ took[i - 1] = acc[k]
    BY <2>1
  <2>4. at(i) <= Len(items) /\ Alike(at(i), items, flat[i]) /\ at(i) \in Nat
    BY <1>5, <1>7, <2>1
  <2>. HIDE DEF took
  <2>5. CASE m.kind = "both"
    <3>. DEFINE first == Item("user", <<m.id>>)
                second == Item("tool", <<m.id>>)
    <3>1. added = <<first, second>>
      BY <2>1, <2>5, ItemsTypes
    <3>. HIDE DEF first, second
    <3>2. at(i) = k + 2 /\ flat[i][k + 1] = first /\ flat[i][k + 2] = second
      <4>. DEFINE s == flat[i - 1]
      <4>1. s \in Seq(Items) /\ added \in Seq(Items) /\ flat[i] = s \o added /\ Len(s) = k
        BY <2>2
      <4>. HIDE DEF s, added
      <4>2. /\ Len(s \o added) = Len(s) + Len(added)
            /\ \A x \in 1..Len(added) : (s \o added)[Len(s) + x] = added[x]
        BY <4>1, ItemsConcat
      <4>3. Len(added) = 2 /\ added[1] = first /\ added[2] = second /\ 1 \in 1..2 /\ 2 \in 1..2
        BY <3>1
      <4>. QED  BY <4>1, <4>2, <4>3
    <3>. HIDE DEF k, added
    <3>. HIDE DEF at
    <3>3. /\ k + 1 \in 1..at(i) /\ k + 2 \in 1..at(i) /\ k + 1 \in 1..Len(items) /\ k + 2 \in 1..Len(items)
          /\ (k + 1) - 1 = k /\ (k + 2) - 1 = k + 1
      BY <1>6, <2>1, <2>4, <3>2
    <3>4. items[k + 1] = first /\ items[k + 2] = second
      BY <2>4, <3>2, <3>3 DEF Alike
    <3>5. acc[k + 1] = Gathers(acc[k], first) /\ acc[k + 2] = Gathers(acc[k + 1], second)
      BY <1>9, <3>3, <3>4 DEF Hoists
    <3>6. After(m, acc[k]) = Gathers(Gathers(acc[k], first), second)
      BY <2>5 DEF After, first, second
    <3>. HIDE DEF m
    <3>7. took[i] = After(m, took[i - 1])
      BY <2>3, <3>2, <3>5, <3>6
    <3>. QED  BY <3>7 DEF m
  <2>6. CASE m.kind # "both"
    <3>1. Len(added) = 1
      <4>1. m.kind \in WindowKinds
        BY <2>1 DEF KeptMessages
      <4>2. \E role \in {"user", "assistant", "tool", "system"} : added = <<Item(role, <<m.id>>)>>
        BY <2>1, <2>6, <4>1, ItemsTypes DEF WindowKinds
      <4>. QED  BY <4>2
    <3>. DEFINE first == added[1]
    <3>6. After(m, acc[k]) = Gathers(acc[k], first)
      BY <2>6 DEF After
    <3>2. at(i) = k + 1 /\ flat[i][k + 1] = first
      <4>. DEFINE s == flat[i - 1]
      <4>1. s \in Seq(Items) /\ added \in Seq(Items) /\ flat[i] = s \o added /\ Len(s) = k
        BY <2>2
      <4>. HIDE DEF s, added
      <4>2. /\ Len(s \o added) = Len(s) + Len(added)
            /\ \A x \in 1..Len(added) : (s \o added)[Len(s) + x] = added[x]
        BY <4>1, ItemsConcat
      <4>. QED  BY <3>1, <4>1, <4>2
    <3>. HIDE DEF k, added
    <3>. HIDE DEF at, first
    <3>3. k + 1 \in 1..at(i) /\ k + 1 \in 1..Len(items) /\ (k + 1) - 1 = k
      BY <1>6, <2>1, <2>4, <3>2
    <3>4. items[k + 1] = first
      BY <2>4, <3>2, <3>3 DEF Alike
    <3>5. acc[k + 1] = Gathers(acc[k], first)
      BY <1>9, <3>3, <3>4 DEF Hoists
    <3>. HIDE DEF m
    <3>7. took[i] = After(m, took[i - 1])
      BY <2>3, <3>2, <3>5, <3>6
    <3>. QED  BY <3>7 DEF m
  <2>. QED  BY <2>5, <2>6
<1>11. took \in [0..n -> Gathered] /\ took[0] = NothingTaken /\ took[n] = acc[Len(items)]
  <2>1. \A i \in 0..n : at(i) \in 0..Len(items)
    BY <1>5, <1>6, <1>7
  <2>2. 0 \in 0..n /\ n \in 0..n
    BY <1>1
  <2>. QED  BY <1>8, <1>9, <2>1, <2>2 DEF Hoists, NothingTaken
<1>. HIDE DEF took
<1>12. Gathering(w, took)
  BY <1>10, <1>11 DEF Gathering, n
<1>. QED  BY <1>3, <1>4, <1>9, <1>11, <1>12 DEF n, items

\* So after every message those before it are in their places.
LEMMA WindowPlaced ==
    ASSUME NEW w \in Seq(KeptMessages), Ordered(w), NEW took, Gathering(w, took), NEW i \in 0..Len(w)
    PROVE  /\ took[i] \in Gathered
           /\ Placed(w, i, Body(took[i].out), took[i].carry)
           /\ CarriesLate(w, i, took[i].carry)
           /\ NoSystem(took[i].out)
<1>. DEFINE n == Len(w)
            good(k) == /\ Placed(w, k, Body(took[k].out), took[k].carry)
                       /\ CarriesLate(w, k, took[k].carry)
                       /\ NoSystem(took[k].out)
            P == {k \in Nat : k <= n => good(k)}
<1>1. n \in Nat /\ \A k \in 0..n : took[k] \in Gathered
  BY DEF Gathering
<1>2. good(0)
  <2>1. took[0] = NothingTaken
    BY DEF Gathering
  <2>2. took[0].out = <<>> /\ took[0].carry = <<>>
    BY <2>1 DEF NothingTaken
  <2>3. Body(<<>>) = <<>>
    BY DEF Body, FlattenSeq
  <2>. DEFINE none == <<>>
  <2>4. none \in Seq(Nat) /\ DOMAIN none = {} /\ 1..0 = {}
    OBVIOUS
  <2>5. took[0].out = none /\ took[0].carry = none /\ Body(none) = none
    BY <2>2, <2>3
  <2>6. Placed(w, 0, none, none)
    <3>. HIDE DEF none
    <3>. QED  BY <2>4 DEF Placed
  <2>7. CarriesLate(w, 0, none) /\ NoSystem(none)
    BY <2>4 DEF CarriesLate, NoSystem
  <2>. HIDE DEF none
  <2>. QED  BY <2>5, <2>6, <2>7
<1>3. ASSUME NEW k \in 1..n, k - 1 \in P PROVE k \in P
  <2>1. k - 1 \in 0..n /\ k - 1 <= n /\ k \in Nat /\ took[k - 1] \in Gathered /\ k \in 1..Len(w)
    BY <1>1
  <2>2. good(k - 1)
    BY <1>3, <2>1
  <2>3. took[k] = After(w[k], took[k - 1])
    BY DEF Gathering
  <2>. DEFINE a == took[k - 1]
              b == took[k]
  <2>4. a \in Gathered /\ Placed(w, k - 1, Body(a.out), a.carry)
        /\ CarriesLate(w, k - 1, a.carry) /\ NoSystem(a.out) /\ b = After(w[k], a)
    BY <2>1, <2>2, <2>3
  <2>. HIDE DEF a, b
  <2>5. /\ Placed(w, k, Body(b.out), b.carry)
        /\ CarriesLate(w, k, b.carry)
        /\ NoSystem(b.out)
    BY <2>1, <2>4, MessageGathered
  <2>6. good(k)
    BY <2>5 DEF b
  <2>. HIDE DEF good
  <2>. QED  BY <2>1, <2>6
<1>4. i \in P
  <2>1. i \in Nat /\ \A k \in 1..i : k \in 1..n
    BY <1>1
  <2>2. 0 \in P
    BY <1>2
  <2>. HIDE DEF P
  <2>. QED  BY <1>3, <2>1, <2>2, UpTo
<1>. QED  BY <1>1, <1>4

-----------------------------------------------------------------------------
\* What is carried to the end is a last message of the user.
LEMMA FinishedParts ==
    ASSUME NEW a \in Gathered, NoSystem(a.out)
    PROVE  /\ HoistedWhole(a) \in Seq(Items)
           /\ Body(HoistedWhole(a)) = Body(a.out) \o a.carry
           /\ NoSystem(HoistedWhole(a))
<1>1. a.out \in Seq(Items) /\ a.carry \in Seq(Nat) /\ Body(a.out) \in Seq(Nat)
  <2>1. a.out \in Seq(Items) /\ a.carry \in Seq(Nat)
    BY DEF Gathered
  <2>2. \E item : item \in Items
    <3>1. Item("user", a.carry) \in Items
      BY <2>1 DEF Item, Items
    <3>. QED  BY <3>1
  <2>. QED  BY <2>1, <2>2, BodyAppends
<1>2. CASE a.carry = <<>>
  <2>1. HoistedWhole(a) = a.out
    BY <1>2 DEF HoistedWhole
  <2>2. Body(a.out) \o a.carry = Body(a.out)
    BY <1>1, <1>2
  <2>. QED  BY <1>1, <2>1, <2>2
<1>3. CASE a.carry # <<>>
  <2>. DEFINE it == Item("user", a.carry)
  <2>1. it \in Items /\ it.parts = a.carry /\ it.role = "user"
    BY <1>1 DEF Item, Items
  <2>2. HoistedWhole(a) = Append(a.out, it)
    BY <1>3 DEF HoistedWhole
  <2>. HIDE DEF it
  <2>3. Append(a.out, it) \in Seq(Items) /\ Body(Append(a.out, it)) = Body(a.out) \o it.parts
    <3>. DEFINE s == a.out
    <3>1. s \in Seq(Items)
      BY <1>1
    <3>. HIDE DEF s
    <3>2. it \in Items
      BY <2>1
    <3>3. Body(Append(s, it)) = Body(s) \o it.parts
      BY <3>1, <3>2, BodyAppends
    <3>4. Append(s, it) \in Seq(Items)
      BY <3>1, <3>2
    <3>. QED  BY <3>3, <3>4 DEF s
  <2>4. NoSystem(Append(a.out, it))
    BY <1>1, <2>1 DEF NoSystem
  <2>. QED  BY <2>1, <2>2, <2>3, <2>4
<1>. QED  BY <1>2, <1>3

\* The prompt of a window holds what was gathered from it.
LEMMA PayloadGathers ==
    ASSUME NEW w \in Seq(KeptMessages), Ordered(w)
    PROVE  \E took : LET a == took[Len(w)]
                         H == HoistedWhole(a)
                     IN  /\ Gathering(w, took)
                         /\ a \in Gathered
                         /\ H \in Seq(Items) /\ NoSystem(H)
                         /\ Body(H) = Body(a.out) \o a.carry
                         /\ Placed(w, Len(w), Body(a.out), a.carry)
                         /\ CarriesLate(w, Len(w), a.carry)
                         /\ Payload(w) = <<Head0(H)>> \o H
<1>1. PICK took : Gathering(w, took) /\ Hoist(ItemsIn(w)) = HoistedWhole(took[Len(w)])
  BY WindowGathers
<1>. DEFINE a == took[Len(w)]
            H == HoistedWhole(a)
<1>2. Len(w) \in 0..Len(w)
  OBVIOUS
<1>3. a \in Gathered /\ NoSystem(a.out)
      /\ Placed(w, Len(w), Body(a.out), a.carry) /\ CarriesLate(w, Len(w), a.carry)
  BY <1>1, <1>2, WindowPlaced
<1>4. Payload(w) = <<Head0(Hoist(ItemsIn(w)))>> \o Hoist(ItemsIn(w))
  BY DEF Payload, ItemsIn
<1>5. Payload(w) = <<Head0(H)>> \o H
  <2>. HIDE DEF a, H
  <2>. QED  BY <1>1, <1>4 DEF a, H
<1>6. H \in Seq(Items) /\ NoSystem(H) /\ Body(H) = Body(a.out) \o a.carry
  <2>. HIDE DEF a
  <2>. QED  BY <1>3, FinishedParts
<1>. QED  BY <1>1, <1>3, <1>5, <1>6

\* A prompt that is the payload of a window holds every message of it.
LEMMA PayloadIsWhole ==
    ASSUME window \in Seq(KeptMessages), Ordered(window), sent = Payload(window)
    PROVE  PromptIsWhole
<1>. DEFINE n == Len(window)
            body == FlattenSeq([i \in 1..(Len(sent) - 1) |-> sent[i + 1].parts])
            twice == {m.id : m \in {window[i] : i \in {j \in DOMAIN window : window[j].kind = "both"}}}
            notes == {window[i].id : i \in {j \in DOMAIN window : window[j].kind = "note"}}
<1>1. PICK took : LET a == took[n]
                      H == HoistedWhole(a)
                  IN  /\ a \in Gathered
                      /\ H \in Seq(Items) /\ NoSystem(H)
                      /\ Body(H) = Body(a.out) \o a.carry
                      /\ Placed(window, n, Body(a.out), a.carry)
                      /\ Payload(window) = <<Head0(H)>> \o H
  BY PayloadGathers
<1>. DEFINE H == HoistedWhole(took[n])
            parts == Body(took[n].out)
            carry == took[n].carry
            first == Head0(H)
<1>2. /\ H \in Seq(Items) /\ NoSystem(H) /\ Body(H) = parts \o carry
      /\ Placed(window, n, parts, carry) /\ sent = <<first>> \o H
  BY <1>1
<1>. HIDE DEF H, parts, carry, first
<1>3. /\ Len(H) \in Nat /\ Len(sent) = Len(H) + 1 /\ DOMAIN sent = 1..(Len(H) + 1)
      /\ \A i \in 1..Len(H) : sent[i + 1] = H[i] /\ DOMAIN H = 1..Len(H)
  BY <1>2
<1>4. body = parts \o carry
  <2>1. Len(sent) - 1 = Len(H)
    BY <1>3
  <2>2. [i \in 1..(Len(sent) - 1) |-> sent[i + 1].parts] = [i \in 1..Len(H) |-> H[i].parts]
    BY <1>3, <2>1
  <2>. QED  BY <1>2, <2>2 DEF Body
<1>. HIDE DEF body
<1>5. n \in Nat /\ DOMAIN window = 1..n /\ \A i \in 1..n : window[i].id \in Nat
  <2>1. \A i \in 1..n : window[i] \in KeptMessages
    OBVIOUS
  <2>. QED  BY <2>1 DEF KeptMessages
<1>6. \A i, j \in 1..n : window[i].id = window[j].id => i = j
  <2>. SUFFICES ASSUME NEW i \in 1..n, NEW j \in 1..n, window[i].id = window[j].id PROVE i = j
    OBVIOUS
  <2>1. ~(i < j) /\ ~(j < i)
    BY <1>5 DEF Ordered
  <2>. QED  BY <1>5, <2>1
<1>7. \A i \in 1..n : window[i].id \in twice <=> window[i].kind = "both"
  <2>. TAKE i \in 1..n
  <2>1. window[i].kind = "both" => window[i].id \in twice
    BY <1>5
  <2>2. ASSUME window[i].id \in twice PROVE window[i].kind = "both"
    <3>1. PICK j \in DOMAIN window : window[j].kind = "both" /\ window[j].id = window[i].id
      BY <2>2
    <3>. QED  BY <1>5, <1>6, <3>1
  <2>. QED  BY <2>1, <2>2
<1>8. \A x : x \in notes <=> IsNote(window, x)
  BY DEF IsNote
<1>9. parts \in Seq(Nat) /\ carry \in Seq(Nat)
  BY <1>2 DEF Placed
<1>10. ASSUME NEW i \in 1..n
       PROVE  Cardinality({k \in DOMAIN body : body[k] = window[i].id})
                 = IF window[i].id \in twice THEN 2 ELSE 1
  <2>1. Times(parts \o carry, window[i].id) = Times(parts, window[i].id) + Times(carry, window[i].id)
    BY <1>9, TimesAdd
  <2>2. Times(parts, window[i].id) + Times(carry, window[i].id) = IF window[i].kind = "both" THEN 2 ELSE 1
    BY <1>2 DEF Placed
  <2>. HIDE DEF twice
  <2>. QED  BY <1>4, <1>7, <2>1, <2>2 DEF Times
<1>11. ASSUME NEW i \in DOMAIN body, NEW j \in DOMAIN body,
              i < j, body[i] \notin notes, body[j] \notin notes
       PROVE  body[i] <= body[j]
  <2>0. body \in Seq(Nat) /\ i \in 1..Len(body) /\ j \in 1..Len(body)
    BY <1>4, <1>9
  <2>. HIDE DEF notes
  <2>1. ASSUME NEW k \in DOMAIN body, body[k] \notin notes
        PROVE  k \in DOMAIN parts /\ body[k] = parts[k]
    <3>1. \/ k \in DOMAIN parts /\ (parts \o carry)[k] = parts[k]
          \/ k - Len(parts) \in DOMAIN carry /\ (parts \o carry)[k] = carry[k - Len(parts)]
      BY <1>4, <1>9
    <3>2. \A p \in DOMAIN carry : carry[p] \in notes
      BY <1>2, <1>5, <1>8 DEF Placed, IsNote
    <3>. QED  BY <1>4, <2>1, <3>1, <3>2
  <2>2. i \in DOMAIN parts /\ j \in DOMAIN parts /\ body[i] = parts[i] /\ body[j] = parts[j]
    BY <1>11, <2>1
  <2>. QED  BY <1>2, <1>8, <1>11, <2>2 DEF Placed
<1>12. ASSUME NEW i \in DOMAIN sent, sent[i].role = "system" PROVE i = 1
  <2>. SUFFICES ASSUME i # 1 PROVE FALSE
    OBVIOUS
  <2>1. i - 1 \in 1..Len(H) /\ (i - 1) + 1 = i
    BY <1>3
  <2>2. sent[i] = H[i - 1]
    BY <1>3, <2>1
  <2>. QED  BY <1>2, <1>3, <1>12, <2>1, <2>2 DEF NoSystem
<1>. HIDE DEF twice, notes
<1>. QED  BY <1>5, <1>10, <1>11, <1>12 DEF PromptIsWhole, body, twice, notes

\* Before the first turn nothing is sent.
LEMMA NothingIsWhole ==
    ASSUME window = <<>>, sent = <<>>
    PROVE  PromptIsWhole
<1>1. Len(sent) = 0 /\ DOMAIN sent = {} /\ DOMAIN window = {} /\ 1..(0 - 1) = {}
  OBVIOUS
<1>. DEFINE s == [i \in 1..(Len(sent) - 1) |-> sent[i + 1].parts]
<1>2. s = <<>>
  BY <1>1
<1>3. FlattenSeq(<<>>) = <<>> /\ DOMAIN <<>> = {}
  BY DEF FlattenSeq
<1>4. FlattenSeq(s) = <<>>
  <2>. HIDE DEF s
  <2>. QED  BY <1>2, <1>3
<1>. QED  BY <1>1, <1>3, <1>4 DEF PromptIsWhole

-----------------------------------------------------------------------------
\* What bare mode keeps of the client's messages.
LEMMA StrippedIsKept ==
    ASSUME NEW messages \in Seq(Messages)
    PROVE  /\ StripAll(messages) \in Seq(KeptMessages)
           /\ Len(StripAll(messages)) = Len(messages)
           /\ \A i \in DOMAIN messages : StripAll(messages)[i] = Strip(messages[i])
           /\ Ordered(messages) => Ordered(StripAll(messages))
<1>1. ASSUME NEW m \in Messages PROVE Strip(m) \in KeptMessages /\ Strip(m).id = m.id
  <2>1. /\ m = [id |-> m.id, kind |-> m.kind, size |-> m.size, pair |-> m.pair]
        /\ m.id \in Nat /\ m.kind \in Kinds /\ m.size \in Nat /\ m.pair \in Nat
    BY DEF Messages
  <2>2. Cut(m.size) \in Nat
    BY <2>1, LimitsAssumption DEF Cut
  <2>3. CASE m.kind = "remote"
    <3>1. Strip(m) = [id |-> m.id, kind |-> "answer", size |-> m.size, pair |-> m.pair]
      BY <2>1, <2>3 DEF Strip, Results
    <3>. QED  BY <2>1, <3>1 DEF KeptMessages, WindowKinds
  <2>4. CASE m.kind = "fetched"
    <3>1. Strip(m) = [id |-> m.id, kind |-> "user", size |-> Cut(m.size), pair |-> m.pair]
      BY <2>1, <2>4 DEF Strip, Results
    <3>. QED  BY <2>1, <2>2, <3>1 DEF KeptMessages, WindowKinds
  <2>5. CASE m.kind \in {"result", "both"}
    <3>1. Strip(m) = [id |-> m.id, kind |-> m.kind, size |-> Cut(m.size), pair |-> m.pair]
      BY <2>1, <2>5 DEF Strip, Results
    <3>. QED  BY <2>1, <2>2, <2>5, <3>1 DEF KeptMessages, WindowKinds
  <2>6. CASE m.kind \in {"user", "answer", "call", "note"}
    <3>1. Strip(m) = m
      BY <2>6 DEF Strip, Results
    <3>. QED  BY <2>1, <2>6, <3>1 DEF KeptMessages, WindowKinds
  <2>. QED  BY <2>1, <2>3, <2>4, <2>5, <2>6 DEF Kinds
<1>2. Len(messages) \in Nat /\ DOMAIN messages = 1..Len(messages)
      /\ \A i \in 1..Len(messages) : messages[i] \in Messages
  OBVIOUS
<1>3. StripAll(messages) = [i \in 1..Len(messages) |-> Strip(messages[i])]
  BY <1>2 DEF StripAll
<1>4. \A i \in 1..Len(messages) : Strip(messages[i]) \in KeptMessages
  BY <1>1, <1>2
<1>5. StripAll(messages) \in Seq(KeptMessages) /\ Len(StripAll(messages)) = Len(messages)
      /\ DOMAIN StripAll(messages) = 1..Len(messages)
  BY <1>2, <1>3, <1>4
<1>6. \A i \in DOMAIN messages :
         StripAll(messages)[i] = Strip(messages[i]) /\ StripAll(messages)[i].id = messages[i].id
  BY <1>1, <1>2, <1>3
<1>7. Ordered(messages) => Ordered(StripAll(messages))
  BY <1>2, <1>5, <1>6 DEF Ordered
<1>. QED  BY <1>5, <1>6, <1>7

\* The end of a list of messages.
LEMMA EndIsKept ==
    ASSUME NEW w \in Seq(KeptMessages), NEW start \in DOMAIN w
    PROVE  /\ From(w, start) \in Seq(KeptMessages)
           /\ Len(From(w, start)) = Len(w) - start + 1
           /\ \A i \in 1..(Len(w) - start + 1) : From(w, start)[i] = w[start + i - 1]
           /\ Ordered(w) => Ordered(From(w, start))
<1>. DEFINE n == Len(w)
            e == From(w, start)
<1>1. n \in Nat /\ start \in 1..n /\ DOMAIN w = 1..n
  OBVIOUS
<1>2. e \in Seq(KeptMessages) /\ Len(e) = n - start + 1
      /\ \A i \in 1..(n - start + 1) : e[i] = w[start + i - 1]
  BY <1>1, SMTT(30) DEF From
<1>3. DOMAIN e = 1..(n - start + 1)
  BY <1>1, <1>2
<1>. HIDE DEF e
<1>4. Ordered(w) => Ordered(e)
  <2>. SUFFICES ASSUME Ordered(w), NEW i \in DOMAIN e, NEW j \in DOMAIN e, i < j
                PROVE  e[i].id < e[j].id
    BY DEF Ordered
  <2>1. start + i - 1 \in 1..n /\ start + j - 1 \in 1..n /\ start + i - 1 < start + j - 1
    BY <1>1, <1>3
  <2>. QED  BY <1>1, <1>2, <1>3, <2>1 DEF Ordered
<1>. QED  BY <1>2, <1>4 DEF e

\* No turn adds more messages than there are ids for.
LEMMA TurnsAreShort ==
    ASSUME NEW new \in FirstTurns \union LaterTurns
    PROVE  Len(new) \in 1..9
BY TurnsAssumption

\* Later messages have later ids, and what was sent is the payload of the window.
SentInv ==
    /\ Ordered(transcript)
    /\ \A i \in DOMAIN transcript : transcript[i].id <= 10 * count
    /\ window \in Seq(KeptMessages)
    /\ Ordered(window)
    /\ (window = <<>> /\ sent = <<>>) \/ sent = Payload(window)

\* What a turn adds has ids of its own.
LEMMA IdsGrow ==
    ASSUME TranscriptShaped, Ordered(transcript),
           \A i \in DOMAIN transcript : transcript[i].id <= 10 * count,
           NEW new \in FirstTurns \union LaterTurns
    PROVE  LET all == transcript \o Named(new)
           IN  /\ Ordered(all)
               /\ \A i \in DOMAIN all : all[i].id <= 10 * (count + 1)
<1>. DEFINE n == Len(transcript)
            added == Named(new)
            all == transcript \o added
            m == Len(new)
<1>1. m \in 1..9 /\ new \in Seq(Contents) /\ DOMAIN new = 1..m
  BY TurnsAreShort, TurnsAreOrdered
<1>2. count \in Nat /\ transcript \in Seq(Messages) /\ n \in Nat /\ DOMAIN transcript = 1..n
  BY DEF TranscriptShaped
<1>3. added = [i \in 1..m |-> [id |-> 10 * count + i, kind |-> new[i].kind, size |-> new[i].size,
                              pair |-> 10 * count + 1]]
  BY <1>1, Zenon DEF Named
<1>. HIDE DEF m
<1>4. Len(added) = m /\ \A i \in 1..m : added[i].id = 10 * count + i
  BY <1>1, <1>3
<1>5. added \in Seq(Messages)
  <2>1. \A i \in 1..m : new[i].kind \in Kinds /\ new[i].size \in Nat
    <3>1. \A i \in 1..m : new[i] \in Contents
      BY <1>1
    <3>. QED  BY <3>1 DEF Contents
  <2>2. m \in Nat /\ \A i \in 1..m : 10 * count + i \in Nat /\ 10 * count + 1 \in Nat
    BY <1>1, <1>2
  <2>3. \A i \in 1..m : added[i] \in Messages
    BY <1>3, <2>1, <2>2 DEF Messages
  <2>. QED  BY <1>3, <2>2, <2>3
<1>. HIDE DEF added
<1>6. /\ DOMAIN all = 1..(n + m)
      /\ \A i \in 1..n : all[i] = transcript[i]
      /\ \A i \in (n + 1)..(n + m) : all[i] = added[i - n]
  <2>1. m \in Nat /\ Len(added) = m
    BY <1>1, <1>4
  <2>. QED  BY <1>2, <1>5, <2>1
<1>. HIDE DEF all
<1>7. \A i \in 1..n : transcript[i].id \in Nat /\ transcript[i].id <= 10 * count
  <2>1. \A i \in 1..n : transcript[i] \in Messages
    BY <1>2
  <2>. QED  BY <1>2, <2>1 DEF Messages
<1>8. \A i \in (n + 1)..(n + m) : i - n \in 1..m /\ all[i].id = 10 * count + (i - n)
  BY <1>1, <1>2, <1>4, <1>6
<1>9. \A i \in 1..n : all[i].id \in Nat /\ all[i].id <= 10 * count
  BY <1>6, <1>7
<1>10. \A i \in DOMAIN all : i \in 1..n \/ i \in (n + 1)..(n + m)
  BY <1>1, <1>2, <1>6
<1>11. \A i \in DOMAIN all : all[i].id <= 10 * (count + 1)
  <2>. TAKE i \in DOMAIN all
  <2>1. CASE i \in 1..n
    BY <1>2, <1>9, <2>1
  <2>2. CASE i \in (n + 1)..(n + m)
    BY <1>1, <1>2, <1>8, <2>2
  <2>. QED  BY <1>10, <2>1, <2>2
<1>12. ASSUME NEW i \in DOMAIN all, NEW j \in DOMAIN all, i < j PROVE all[i].id < all[j].id
  <2>0. i \in Nat /\ j \in Nat
    BY <1>1, <1>2, <1>6
  <2>1. CASE j \in 1..n
    <3>1. i \in 1..n
      BY <1>2, <1>6, <1>12, <2>1
    <3>2. transcript[i].id < transcript[j].id
      BY <1>2, <1>12, <2>1, <3>1 DEF Ordered
    <3>. QED  BY <1>6, <2>1, <3>1, <3>2
  <2>2. CASE j \in (n + 1)..(n + m)
    <3>1. j - n \in 1..m /\ all[j].id = 10 * count + (j - n)
      BY <1>8, <2>2
    <3>2. CASE i \in 1..n
      BY <1>1, <1>2, <1>9, <3>1, <3>2
    <3>3. CASE i \in (n + 1)..(n + m)
      <4>1. i - n \in 1..m /\ all[i].id = 10 * count + (i - n)
        BY <1>8, <3>3
      <4>. QED  BY <1>1, <1>2, <1>12, <2>0, <3>1, <4>1
    <3>. QED  BY <1>10, <3>2, <3>3
  <2>. QED  BY <1>10, <2>1, <2>2
<1>13. Ordered(all)
  BY <1>12 DEF Ordered
<1>. QED  BY <1>11, <1>13 DEF all, added

\* A turn is sent the payload of its window.
LEMMA TurnKeepsSent ==
    ASSUME PromptInv, SentInv, NEW new \in FirstTurns \union LaterTurns, Turn(new)
    PROVE  SentInv'
<1>. DEFINE all == transcript \o Named(new)
            messages == StripAll(all)
            b == Bound(messages, boundary)
            kept == IF b.chosen = "overflow" THEN messages ELSE From(messages, b.start)
<1>1. all \in Seq(Messages) /\ all # <<>>
  BY TranscriptGrows DEF PromptInv
<1>2. Ordered(all) /\ \A i \in DOMAIN all : all[i].id <= 10 * (count + 1)
  BY IdsGrow DEF PromptInv, SentInv
<1>3. /\ transcript' = all /\ count' = count + 1 /\ recalls' = recalls
      /\ window' = kept /\ sent' = Payload(kept)
  BY DEF Turn
<1>. HIDE DEF all
<1>4. messages \in Seq(KeptMessages) /\ messages # <<>> /\ Ordered(messages)
  <2>1. messages \in Seq(KeptMessages) /\ Len(messages) = Len(all) /\ Ordered(messages)
    BY <1>1, <1>2, StrippedIsKept
  <2>2. Len(all) # 0
    BY <1>1
  <2>. HIDE DEF messages
  <2>. QED  BY <2>1, <2>2
<1>. HIDE DEF messages
<1>5. b.start \in DOMAIN messages
  BY <1>4, BoundBegins DEF PromptInv, TranscriptShaped
<1>. HIDE DEF b
<1>6. kept \in Seq(KeptMessages) /\ Ordered(kept)
  BY <1>4, <1>5, EndIsKept
<1>. HIDE DEF kept
<1>7. sent' = Payload(window)'
  BY <1>3 DEF Payload, Head0
<1>. QED  BY <1>2, <1>3, <1>6, <1>7 DEF SentInv, Ordered

\* What was sent is what the window converts to, in every behaviour.
LEMMA SentInvHolds == PromptSpec => []SentInv
<1>1. PromptInit => SentInv
  <2>1. PromptInit => /\ transcript = <<>> /\ count = 0 /\ window = <<>> /\ sent = <<>>
    BY DEF PromptInit
  <2>2. DOMAIN <<>> = {} /\ <<>> \in Seq(KeptMessages)
    OBVIOUS
  <2>3. Ordered(<<>>)
    BY <2>2 DEF Ordered
  <2>. QED  BY <2>1, <2>2, <2>3 DEF SentInv
<1>2. PromptInv /\ SentInv /\ [PromptNext]_promptVars => SentInv'
  <2>. SUFFICES ASSUME PromptInv, SentInv, [PromptNext]_promptVars PROVE SentInv'
    OBVIOUS
  <2>1. CASE Opens \/ Continues
    BY <2>1, TurnKeepsSent DEF Opens, Continues
  <2>2. ASSUME NEW k \in DOMAIN turns, Rewinds(k) PROVE SentInv'
    <3>1. /\ turns \in Seq(Nat) /\ transcript \in Seq(Messages) /\ turns[k] \in 0..Len(transcript)
          /\ Len(transcript) \in Nat /\ DOMAIN transcript = 1..Len(transcript)
      BY DEF PromptInv, TranscriptShaped
    <3>2. /\ transcript' = SubSeq(transcript, 1, turns[k])
          /\ UNCHANGED <<count, sent, window, recalls>>
      BY <2>2 DEF Rewinds
    <3>3. /\ DOMAIN transcript' = 1..turns[k]
          /\ \A i \in 1..turns[k] : transcript'[i] = transcript[i] /\ i \in DOMAIN transcript
      BY <3>1, <3>2
    <3>4. sent = Payload(window) => sent' = Payload(window)'
      BY <3>2, ZenonT(60) DEF Payload, Head0
    <3>5. Ordered(transcript)' /\ \A i \in DOMAIN transcript' : transcript'[i].id <= 10 * count'
      BY <3>2, <3>3, ZenonT(60) DEF SentInv, Ordered
    <3>6. Ordered(window)' /\ window' \in Seq(KeptMessages)
      BY <3>2, SMTT(30) DEF SentInv, Ordered
    <3>. QED  BY <3>2, <3>4, <3>5, <3>6 DEF SentInv
  <2>3. CASE Evicted \/ UNCHANGED promptVars
    <3>1. UNCHANGED <<transcript, count, sent, window, recalls>>
      BY <2>3 DEF Evicted, promptVars
    <3>. QED  BY <3>1, ZenonT(60) DEF SentInv, Ordered, Payload, Head0
  <2>. QED  BY <2>1, <2>2, <2>3 DEF PromptNext
<1>. QED  BY <1>1, <1>2, PromptInvHolds, PTL DEF PromptSpec

\* What a turn that goes local is sent is a prompt the model can follow (_to_openai_messages,
\* _hoist_system_messages, _first_safe_start): it holds every message of its window, once or,
\* with text beside a result, twice; in their order, the notes apart; with one system
\* message, the first; and no result without its call.  For every target, ceiling and limit,
\* and transcripts of any length.
THEOREM PromptStaysSound == PromptSpec => []PromptIsSound
<1>1. SentInv => PromptIsWhole
  BY PayloadIsWhole, NothingIsWhole DEF SentInv
<1>. QED  BY <1>1, SentInvHolds, PromptKeepsPairs, PTL DEF PromptIsSound

-----------------------------------------------------------------------------
\* A list that another begins with.
OpensWith(s, t) == Len(s) <= Len(t) /\ Alike(Len(s), s, t)

\* Beginning with a sequence is transitive, and outlives an item at the end.
LEMMA BeginsOn ==
    ASSUME NEW s \in Seq(Items), NEW t \in Seq(Items), NEW u \in Seq(Items), NEW item,
           OpensWith(s, t)
    PROVE  /\ OpensWith(t, u) => OpensWith(s, u)
           /\ OpensWith(s, s)
           /\ OpensWith(s, Append(t, item))
           /\ IsPrefix(s, t)
<1>1. Len(s) \in Nat /\ Len(t) \in Nat /\ Len(u) \in Nat /\ Len(s) <= Len(t)
      /\ \A i \in 1..Len(s) : s[i] = t[i]
  BY DEF OpensWith, Alike
<1>2. OpensWith(t, u) => OpensWith(s, u)
  BY <1>1 DEF OpensWith, Alike
<1>3. OpensWith(s, s)
  BY <1>1 DEF OpensWith, Alike
<1>4. OpensWith(s, Append(t, item))
  <2>1. Len(Append(t, item)) = Len(t) + 1 /\ \A i \in 1..Len(t) : Append(t, item)[i] = t[i]
    OBVIOUS
  <2>. QED  BY <1>1, <2>1 DEF OpensWith, Alike
<1>5. IsPrefix(s, t)
  <2>1. SubSeq(s, 1, Len(s)) = [i \in 1..Len(s) |-> s[i]] /\ SubSeq(t, 1, Len(s)) = [i \in 1..Len(s) |-> t[i]]
    BY <1>1
  <2>2. [i \in 1..Len(s) |-> s[i]] = [i \in 1..Len(s) |-> t[i]]
    BY <1>1
  <2>. QED  BY <1>1, <2>1, <2>2 DEF IsPrefix
<1>. QED  BY <1>2, <1>3, <1>4, <1>5

\* Gathering never touches what has been put out.
LEMMA GathersAdds ==
    ASSUME NEW a \in Gathered, NEW item \in Items
    PROVE  OpensWith(a.out, Gathers(a, item).out)
<1>. DEFINE b == Gathers(a, item)
<1>1. a.out \in Seq(Items)
  BY DEF Gathered
<1>2. b.out = a.out \/ \E x : b.out = Append(a.out, x)
  <2>1. /\ item.role = "system" => b.out = a.out
        /\ item.role = "user" => b.out = Append(a.out, Item("user", a.carry \o item.parts))
        /\ item.role \notin {"system", "user"} => b.out = Append(a.out, item)
    BY GathersParts
  <2>. HIDE DEF b
  <2>. QED  BY <2>1, Zenon
<1>. DEFINE s == a.out
<1>. HIDE DEF b, s
<1>3. s \in Seq(Items)
  BY <1>1 DEF s
<1>4. OpensWith(s, s)
  BY <1>3 DEF OpensWith, Alike
<1>5. \A x : OpensWith(s, Append(s, x))
  BY <1>3, <1>4, BeginsOn
<1>. QED  BY <1>2, <1>4, <1>5 DEF b, s

\* A message more only adds to what was gathered.
LEMMA AfterAdds ==
    ASSUME NEW a \in Gathered, NEW m \in KeptMessages
    PROVE  OpensWith(a.out, After(m, a).out)
<1>1. m.kind \in WindowKinds
  BY DEF KeptMessages
<1>2. Item("user", <<m.id>>) \in Items /\ Item("tool", <<m.id>>) \in Items
  BY ItemsTypes
<1>3. CASE m.kind = "both"
  <2>. DEFINE first == Item("user", <<m.id>>)
              second == Item("tool", <<m.id>>)
              b == Gathers(a, first)
              c == Gathers(b, second)
  <2>1. After(m, a) = c
    BY <1>3 DEF After
  <2>2. first \in Items /\ second \in Items
    BY <1>2
  <2>. HIDE DEF first, second
  <2>3. b \in Gathered /\ OpensWith(a.out, b.out)
    BY <2>2, GathersType, GathersAdds
  <2>. HIDE DEF b
  <2>4. c \in Gathered /\ OpensWith(b.out, c.out)
    BY <2>2, <2>3, GathersType, GathersAdds
  <2>. HIDE DEF c
  <2>5. a.out \in Seq(Items) /\ b.out \in Seq(Items) /\ c.out \in Seq(Items)
    BY <2>3, <2>4 DEF Gathered
  <2>. QED  BY <2>1, <2>3, <2>4, <2>5, BeginsOn
<1>4. CASE m.kind # "both"
  <2>1. ItemsOf(m)[1] \in Items
    <3>1. PICK role \in {"user", "assistant", "tool", "system"} : ItemsOf(m) = <<Item(role, <<m.id>>)>>
      BY <1>1, <1>4, ItemsTypes DEF WindowKinds
    <3>2. ItemsOf(m)[1] = Item(role, <<m.id>>)
      BY <3>1
    <3>. QED  BY <3>2, ItemsTypes
  <2>2. After(m, a) = Gathers(a, ItemsOf(m)[1])
    BY <1>4 DEF After
  <2>. QED  BY <2>1, <2>2, GathersAdds
<1>. QED  BY <1>3, <1>4

\* What was gathered of a prefix of a window stays at its beginning.
LEMMA GatheringAdds ==
    ASSUME NEW w \in Seq(KeptMessages), NEW took, Gathering(w, took), NEW i \in 0..Len(w)
    PROVE  OpensWith(took[i].out, took[Len(w)].out)
<1>. DEFINE n == Len(w)
            P == {j \in Nat : i + j <= n => OpensWith(took[i].out, took[i + j].out)}
<1>1. n \in Nat /\ (\A k \in 1..n : w[k] \in KeptMessages) /\ \A k \in 0..n : took[k].out \in Seq(Items)
  <2>1. \A k \in 0..n : took[k] \in Gathered
    BY DEF Gathering
  <2>2. \A a \in Gathered : a.out \in Seq(Items)
    BY DEF Gathered
  <2>. HIDE DEF n
  <2>3. \A k \in 0..n : took[k].out \in Seq(Items)
    BY <2>1, <2>2
  <2>. QED  BY <2>3 DEF n
<1>2. 0 \in P
  <2>. DEFINE s == took[i].out
  <2>1. s \in Seq(Items)
    BY <1>1
  <2>. HIDE DEF s
  <2>2. OpensWith(s, s)
    BY <2>1 DEF OpensWith, Alike
  <2>3. i + 0 = i
    BY <1>1
  <2>. QED  BY <2>2, <2>3 DEF s
<1>3. ASSUME NEW j \in 1..(n - i), j - 1 \in P PROVE j \in P
  <2>. DEFINE k == i + j
  <2>1. k \in 1..n /\ k - 1 \in 0..n /\ i + (j - 1) = k - 1 /\ i + (j - 1) <= n /\ j \in Nat
    BY <1>1
  <2>2. OpensWith(took[i].out, took[k - 1].out)
    BY <1>3, <2>1
  <2>. HIDE DEF k, P
  <2>3. took[k] = After(w[k], took[k - 1]) /\ took[k - 1] \in Gathered
    BY <2>1 DEF Gathering
  <2>4. OpensWith(took[k - 1].out, took[k].out)
    BY <1>1, <2>1, <2>3, AfterAdds
  <2>5. OpensWith(took[i].out, took[k].out)
    <3>. DEFINE x == took[i].out
                y == took[k - 1].out
                z == took[k].out
    <3>1. x \in Seq(Items) /\ y \in Seq(Items) /\ z \in Seq(Items)
      BY <1>1, <2>1
    <3>2. OpensWith(x, y) /\ OpensWith(y, z)
      BY <2>2, <2>4
    <3>. HIDE DEF x, y, z
    <3>3. OpensWith(x, z)
      BY <3>1, <3>2, BeginsOn
    <3>. QED  BY <3>3 DEF x, z
  <2>. QED  BY <2>1, <2>5 DEF k, P
<1>4. n - i \in P
  <2>1. n - i \in Nat
    BY <1>1
  <2>. HIDE DEF P
  <2>. QED  BY <1>2, <1>3, <2>1, UpTo
<1>5. i + (n - i) = n /\ n <= n
  BY <1>1
<1>. QED  BY <1>4, <1>5

\* What has begun alike is gathered alike.
LEMMA GatheredAlike ==
    ASSUME NEW w \in Seq(KeptMessages), NEW v \in Seq(KeptMessages), Len(w) <= Len(v), Alike(Len(w), w, v),
           NEW f, NEW g, Gathering(w, f), Gathering(v, g)
    PROVE  f[Len(w)] = g[Len(w)]
<1>. DEFINE n == Len(w)
            P == {i \in Nat : i <= n => f[i] = g[i]}
<1>1. n \in Nat /\ Len(v) \in Nat /\ n <= Len(v)
  OBVIOUS
<1>2. 0 \in P
  BY DEF Gathering
<1>3. ASSUME NEW i \in 1..n, i - 1 \in P PROVE i \in P
  <2>1. f[i - 1] = g[i - 1] /\ i \in 1..Len(v)
    BY <1>1, <1>3
  <2>2. f[i] = After(w[i], f[i - 1]) /\ g[i] = After(v[i], g[i - 1]) /\ w[i] = v[i]
    BY <2>1 DEF Gathering, Alike
  <2>3. f[i] = g[i]
    <3>. HIDE DEF P
    <3>. QED  BY <2>1, <2>2
  <2>. QED  BY <2>3
<1>4. n \in P
  <2>. HIDE DEF P
  <2>. QED  BY <1>1, <1>2, <1>3, UpTo
<1>. QED  BY <1>1, <1>4

\* A window with no note at its end, and one that goes on from it: the prompt goes on too.
LEMMA PromptGoesOn ==
    ASSUME NEW w \in Seq(KeptMessages), NEW v \in Seq(KeptMessages), Ordered(w), Ordered(v),
           Len(w) <= Len(v), Alike(Len(w), w, v),
           \A k \in DOMAIN w : w[k].kind = "note" =>
               \E j \in k..Len(w) : w[j].kind \in {"user", "both"}
    PROVE  IsPrefix(Tail(Payload(w)), Tail(Payload(v)))
<1>. DEFINE n == Len(w)
            m == Len(v)
<1>1. PICK f : LET a == f[n]
                   H == HoistedWhole(a)
               IN  /\ Gathering(w, f)
                   /\ a \in Gathered
                   /\ H \in Seq(Items)
                   /\ CarriesLate(w, n, a.carry)
                   /\ Payload(w) = <<Head0(H)>> \o H
  BY PayloadGathers
<1>2. PICK g : LET a == g[m]
                   H == HoistedWhole(a)
               IN  /\ Gathering(v, g)
                   /\ a \in Gathered
                   /\ H \in Seq(Items)
                   /\ Payload(v) = <<Head0(H)>> \o H
  BY PayloadGathers
<1>3. f[n] = g[n]
  BY <1>1, <1>2, GatheredAlike
<1>4. n \in 0..m /\ DOMAIN w = 1..n /\ n \in Nat
  OBVIOUS
<1>5. OpensWith(g[n].out, g[m].out)
  BY <1>2, <1>4, GatheringAdds
<1>6. f[n].carry = <<>>
  <2>. SUFFICES ASSUME f[n].carry # <<>> PROVE FALSE
    OBVIOUS
  <2>1. PICK k \in 1..n : /\ w[k].kind = "note"
                          /\ \A j \in k..n : w[j].kind \notin {"user", "both"}
    BY <1>1 DEF CarriesLate
  <2>. QED  BY <1>4, <2>1
<1>. DEFINE a == f[n]
            b == g[m]
<1>7. HoistedWhole(a) = a.out
  BY <1>6 DEF HoistedWhole
<1>. DEFINE s == HoistedWhole(a)
            t == HoistedWhole(b)
<1>8. s \in Seq(Items) /\ t \in Seq(Items) /\ b \in Gathered
  BY <1>1, <1>2
<1>9. Payload(w) = <<Head0(s)>> \o s /\ Payload(v) = <<Head0(t)>> \o t
  BY <1>1, <1>2
<1>10. OpensWith(s, b.out)
  BY <1>3, <1>5, <1>7
<1>. HIDE DEF a, b
<1>11. OpensWith(s, t)
  <2>1. b.out \in Seq(Items) /\ (t = b.out \/ t = Append(b.out, Item("user", b.carry)))
    BY <1>8 DEF HoistedWhole, Gathered
  <2>. HIDE DEF s, t
  <2>. DEFINE u == b.out
  <2>2. u \in Seq(Items) /\ OpensWith(s, u) /\ (t = u \/ t = Append(u, Item("user", b.carry)))
    BY <1>10, <2>1
  <2>. HIDE DEF u
  <2>3. \A x : OpensWith(s, Append(u, x))
    BY <1>8, <2>2, BeginsOn
  <2>. QED  BY <2>2, <2>3
<1>. HIDE DEF s, t
<1>12. \A x : Tail(<<x>> \o s) = s /\ Tail(<<x>> \o t) = t
  BY <1>8
<1>13. IsPrefix(s, t)
  BY <1>8, <1>11, BeginsOn
<1>. QED  BY <1>9, <1>12, <1>13

-----------------------------------------------------------------------------
\* While nothing is taken back: the window begins at the boundary, and a boundary that has
\* moved shows that the whole transcript did not fit.
FitsInv ==
    ~rewound /\ boundary # 0 =>
        /\ boundary \in DOMAIN transcript
        /\ chosen # "overflow" => window = From(StripAll(transcript), boundary)
        /\ boundary > 1 => Tokens(StripAll(transcript)) > Ceiling

\* What is sent is the whole, or begins at the remembered boundary or at a new one.
LEMMA BoundCases ==
    ASSUME NEW messages \in Seq(KeptMessages), messages # <<>>, NEW remembered \in Nat
    PROVE  LET b == Bound(messages, remembered)
               sticky == /\ 1 < remembered /\ remembered <= Len(messages)
                         /\ Tokens(From(messages, remembered)) <= Ceiling
           IN  /\ Tokens(messages) <= Ceiling => b = [start |-> 1, chosen |-> "whole"]
               /\ Tokens(messages) > Ceiling /\ sticky =>
                     b = [start |-> remembered, chosen |-> "stable"]
               /\ b.start > 1 => Tokens(messages) > Ceiling
<1>. DEFINE whole == Tokens(messages) <= Ceiling
            sticky == /\ 1 < remembered /\ remembered <= Len(messages)
                      /\ Tokens(From(messages, remembered)) <= Ceiling
<1>1. Tokens(messages) \in Nat /\ Ceiling \in Nat
  BY LimitsAssumption, TokensGrow DEF Alike
<1>2. whole => Bound(messages, remembered) = [start |-> 1, chosen |-> "whole"]
  <2>. SUFFICES ASSUME whole PROVE Bound(messages, remembered) = [start |-> 1, chosen |-> "whole"]
    OBVIOUS
  <2>1. Tokens(messages) <= Ceiling /\ ~(Tokens(messages) > Ceiling)
    BY <1>1
  <2>. QED  BY <2>1 DEF Bound
<1>3. ~whole => Tokens(messages) > Ceiling
  BY <1>1
<1>4. Tokens(messages) > Ceiling => ~whole
  BY <1>1
<1>5. ~whole /\ sticky => Bound(messages, remembered) = [start |-> remembered, chosen |-> "stable"]
  <2>. HIDE DEF whole
  <2>. QED  BY <1>3 DEF Bound, whole
<1>6. Bound(messages, remembered).start > 1 => ~whole
  <2>1. whole => Bound(messages, remembered).start = 1
    BY <1>2
  <2>. HIDE DEF whole
  <2>. QED  BY <2>1
<1>. QED  BY <1>2, <1>3, <1>4, <1>5, <1>6

\* A turn keeps what is known of the window the model has processed.
LEMMA TurnKeepsFits ==
    ASSUME PromptInv, NEW new \in FirstTurns \union LaterTurns, Turn(new)
    PROVE  FitsInv'
<1>. DEFINE all == transcript \o Named(new)
            messages == StripAll(all)
            b == Bound(messages, boundary)
<1>1. all \in Seq(Messages) /\ all # <<>> /\ boundary \in Nat
  BY TranscriptGrows DEF PromptInv, TranscriptShaped
<1>2. /\ transcript' = all /\ boundary' = b.start /\ chosen' = b.chosen
      /\ window' = IF b.chosen = "overflow" THEN messages ELSE From(messages, b.start)
      /\ StripAll(transcript') = messages
  BY DEF Turn
<1>. HIDE DEF all
<1>3. messages \in Seq(KeptMessages) /\ messages # <<>> /\ DOMAIN messages = DOMAIN all
  <2>1. messages \in Seq(KeptMessages) /\ Len(messages) = Len(all)
    BY <1>1, StrippedIsKept
  <2>2. Len(all) # 0
    BY <1>1
  <2>. HIDE DEF messages
  <2>. QED  BY <1>1, <2>1, <2>2
<1>. HIDE DEF messages
<1>4. b.start \in DOMAIN messages /\ (b.start > 1 => Tokens(messages) > Ceiling)
  BY <1>1, <1>3, BoundBegins, BoundCases
<1>. HIDE DEF b
<1>5. StripAll(transcript)' = StripAll(transcript')
  BY DEF StripAll
<1>. QED  BY <1>2, <1>3, <1>4, <1>5 DEF FitsInv

\* What is known of the window the model has processed, in every behaviour.
LEMMA FitsInvHolds == PromptSpec => []FitsInv
<1>1. PromptInit => FitsInv
  BY DEF PromptInit, FitsInv
<1>2. PromptInv /\ FitsInv /\ [PromptNext]_promptVars => FitsInv'
  <2>. SUFFICES ASSUME PromptInv, FitsInv, [PromptNext]_promptVars PROVE FitsInv'
    OBVIOUS
  <2>1. CASE Opens \/ Continues
    BY <2>1, TurnKeepsFits DEF Opens, Continues
  <2>2. CASE \E k \in DOMAIN turns : Rewinds(k)
    BY <2>2 DEF Rewinds, FitsInv
  <2>3. CASE Evicted
    BY <2>3 DEF Evicted, FitsInv
  <2>4. CASE UNCHANGED promptVars
    BY <2>4 DEF promptVars, FitsInv, StripAll
  <2>. QED  BY <2>1, <2>2, <2>3, <2>4 DEF PromptNext
<1>. QED  BY <1>1, <1>2, PromptInvHolds, PTL DEF PromptSpec

\* A turn whose old window fits with what is new begins where the last one began.
LEMMA TurnAppends ==
    ASSUME PromptInv, SentInv, FitsInv, NEW new \in FirstTurns \union LaterTurns, Turn(new),
           transcript # <<>>, ~rewound, boundary # 0, ~NoteAtEnd, chosen # "overflow",
           ~(Tokens(From(StripAll(transcript'), boundary)) > Ceiling)
    PROVE  IsPrefix(Tail(sent), Tail(sent'))
<1>. DEFINE all == transcript \o Named(new)
            messages == StripAll(all)
            old == StripAll(transcript)
            b == Bound(messages, boundary)
            n == Len(transcript)
<1>1. /\ all \in Seq(Messages) /\ all # <<>> /\ boundary \in Nat
      /\ Len(all) > n /\ n \in Nat /\ transcript \in Seq(Messages) /\ DOMAIN transcript = 1..n
      /\ \A i \in 1..n : all[i] = transcript[i]
  BY TranscriptGrows DEF PromptInv, TranscriptShaped
<1>2. /\ transcript' = all
      /\ sent' = Payload(IF b.chosen = "overflow" THEN messages ELSE From(messages, b.start))
      /\ StripAll(transcript') = messages
  BY DEF Turn
<1>3. Ordered(all) /\ Ordered(transcript)
  BY IdsGrow DEF PromptInv, SentInv
<1>. HIDE DEF all
<1>4. /\ messages \in Seq(KeptMessages) /\ messages # <<>> /\ Len(messages) = Len(all) /\ Ordered(messages)
      /\ old \in Seq(KeptMessages) /\ Len(old) = n /\ Ordered(old)
      /\ \A i \in 1..n : old[i] = messages[i]
  <2>1. /\ messages \in Seq(KeptMessages) /\ Len(messages) = Len(all) /\ Ordered(messages)
        /\ \A i \in DOMAIN all : messages[i] = Strip(all[i])
    BY <1>1, <1>3, StrippedIsKept
  <2>2. /\ old \in Seq(KeptMessages) /\ Len(old) = n /\ Ordered(old)
        /\ \A i \in DOMAIN transcript : old[i] = Strip(transcript[i])
    BY <1>1, <1>3, StrippedIsKept
  <2>3. Len(all) # 0 /\ \A i \in 1..n : i \in DOMAIN all
    BY <1>1
  <2>. HIDE DEF messages, old
  <2>4. messages # <<>>
    BY <2>1, <2>3
  <2>. QED  BY <1>1, <2>1, <2>2, <2>3, <2>4
<1>. HIDE DEF messages, old, n
<1>5. boundary \in 1..n /\ window = From(old, boundary)
      /\ (boundary > 1 => Tokens(old) > Ceiling)
  BY <1>1 DEF FitsInv, old
<1>6. /\ Tokens(old) \in Nat /\ Tokens(messages) \in Nat /\ Tokens(old) <= Tokens(messages)
      /\ Ceiling \in Nat
  <2>1. Len(old) <= Len(messages) /\ Alike(Len(old), old, messages)
    BY <1>1, <1>4 DEF Alike
  <2>. QED  BY <1>4, <2>1, TokensGrow, LimitsAssumption
<1>7. boundary \in DOMAIN messages /\ boundary \in DOMAIN old /\ boundary <= Len(messages)
  BY <1>1, <1>4, <1>5
<1>. DEFINE v == From(messages, boundary)
<1>8. v \in Seq(KeptMessages) /\ Ordered(v) /\ Len(v) = Len(messages) - boundary + 1
      /\ \A i \in 1..(Len(messages) - boundary + 1) : v[i] = messages[boundary + i - 1]
  BY <1>4, <1>7, EndIsKept
<1>9. Tokens(v) <= Ceiling
  <2>1. Tokens(v) \in Nat
    <3>. HIDE DEF v
    <3>1. Alike(Len(v), v, v) /\ Len(v) <= Len(v)
      BY <1>8 DEF Alike
    <3>. QED  BY <1>8, <3>1, TokensGrow
  <2>2. ~(Tokens(v) > Ceiling)
    BY <1>2
  <2>. HIDE DEF v
  <2>. QED  BY <1>6, <2>1, <2>2
<1>10. b.start = boundary /\ b.chosen # "overflow"
  <2>1. CASE Tokens(messages) <= Ceiling
    <3>1. b = [start |-> 1, chosen |-> "whole"]
      BY <1>1, <1>4, <2>1, BoundCases
    <3>2. boundary = 1
      <4>. HIDE DEF b
      <4>. QED  BY <1>1, <1>5, <1>6, <2>1
    <3>. HIDE DEF b
    <3>. QED  BY <3>1, <3>2
  <2>2. CASE ~(Tokens(messages) <= Ceiling)
    <3>1. Tokens(messages) > Ceiling
      BY <1>6, <2>2
    <3>2. boundary # 1
      <4>. SUFFICES ASSUME boundary = 1 PROVE FALSE
        OBVIOUS
      <4>1. v = messages
        BY <1>4 DEF From
      <4>. HIDE DEF v
      <4>. QED  BY <1>9, <2>2, <4>1
    <3>3. 1 < boundary
      BY <1>1, <1>5, <3>2
    <3>4. b = [start |-> boundary, chosen |-> "stable"]
      BY <1>1, <1>4, <1>7, <1>9, <3>1, <3>3, BoundCases
    <3>. HIDE DEF b
    <3>. QED  BY <3>4
  <2>. QED  BY <2>1, <2>2
<1>11. sent' = Payload(v)
  <2>. HIDE DEF b
  <2>. QED  BY <1>2, <1>10
<1>12. window \in Seq(KeptMessages) /\ Ordered(window) /\ Len(window) = n - boundary + 1
       /\ \A i \in 1..(n - boundary + 1) : window[i] = old[boundary + i - 1]
  BY <1>4, <1>5, <1>7, EndIsKept
<1>13. sent = Payload(window)
  <2>1. window # <<>>
    BY <1>1, <1>5, <1>12
  <2>. QED  BY <2>1 DEF SentInv
<1>. HIDE DEF v
<1>14. Len(window) <= Len(v) /\ Alike(Len(window), window, v)
  <2>1. \A i \in 1..(n - boundary + 1) :
           i \in 1..(Len(messages) - boundary + 1) /\ boundary + i - 1 \in 1..n
    BY <1>1, <1>4, <1>5
  <2>2. Len(window) <= Len(v)
    BY <1>1, <1>4, <1>5, <1>8, <1>12
  <2>3. ASSUME NEW i \in 1..Len(window) PROVE window[i] = v[i]
    <3>1. i \in 1..(n - boundary + 1)
      BY <1>12
    <3>2. v[i] = messages[boundary + i - 1] /\ window[i] = old[boundary + i - 1]
      BY <1>8, <1>12, <2>1, <3>1
    <3>3. old[boundary + i - 1] = messages[boundary + i - 1]
      BY <1>4, <2>1, <3>1
    <3>. QED  BY <3>2, <3>3
  <2>. QED  BY <2>2, <2>3 DEF Alike
<1>15. \A k \in DOMAIN window : window[k].kind = "note" =>
          \E j \in k..Len(window) : window[j].kind \in {"user", "both"}
  BY DEF NoteAtEnd
<1>. QED  BY <1>8, <1>11, <1>12, <1>13, <1>14, <1>15, PromptGoesOn

\* While the old window and what is new fit together, a turn only adds to the prompt that
\* the model has processed (working_set.bound keeps the boundary, _hoist_system_messages
\* never reaches back), unless turns were taken back, the boundary was forgotten, a note
\* closed the last turn or everything had to be sent: for every target, ceiling and limit.
THEOREM PromptOnlyGrows == PromptSpec => AppendsWhileItFits
<1>. DEFINE Keeps == \/ sent' = sent
                     \/ transcript = <<>> \/ rewound \/ boundary = 0
                     \/ NoteAtEnd \/ chosen = "overflow"
                     \/ Tokens(From(StripAll(transcript'), boundary)) > Ceiling
                     \/ IsPrefix(Tail(sent), Tail(sent'))
<1>1. PromptInv /\ SentInv /\ FitsInv /\ [PromptNext]_promptVars => [Keeps]_promptVars
  <2>. SUFFICES ASSUME PromptInv, SentInv, FitsInv, PromptNext PROVE Keeps
    OBVIOUS
  <2>1. CASE Opens \/ Continues
    <3>1. PICK new \in FirstTurns \union LaterTurns : Turn(new)
      BY <2>1 DEF Opens, Continues
    <3>. QED  BY <3>1, TurnAppends
  <2>2. CASE \E k \in DOMAIN turns : Rewinds(k)
    BY <2>2 DEF Rewinds
  <2>3. CASE Evicted
    BY <2>3 DEF Evicted
  <2>. QED  BY <2>1, <2>2, <2>3 DEF PromptNext
<1>. QED  BY <1>1, PromptInvHolds, SentInvHolds, FitsInvHolds, PTL DEF PromptSpec, AppendsWhileItFits

-----------------------------------------------------------------------------
(* A reply: what is known on its way, and of the client                        *)

BlockKinds == {"thinking", "text", "tool", "message"}
BlockEvents == [event : {"start", "delta", "stop", "end", "error"}, index : Nat,
                kind : BlockKinds, body : Seq(Symbols)]
CallBlocks == [call : Nat, index : Nat]
Dicts == [index : Nat, thinking : BOOLEAN, text : BOOLEAN, emitted : BOOLEAN,
          decision : {"none", "text", "buffer"}, buf : Seq(Symbols), carry : Seq(Symbols),
          thought : BOOLEAN, calls : Seq(CallBlocks), reasons : Nat, out : Seq(BlockEvents)]

\* Text is held back only while nothing has been shown, and only on a request with tools.
HeldBack(s) ==
    /\ s.text => ~toolMode \/ s.decision = "text"
    /\ ~toolMode \/ s.decision = "text" => s.buf = <<>>

\* The blocks the dict knows as open.
ToolBlocks(calls) == {<<calls[k].index, "tool">> : k \in DOMAIN calls}
OpenBlocks(s) ==
    ToolBlocks(s.calls)
        \union (IF s.thinking THEN {<<s.index, "thinking">>} ELSE {})
        \union (IF s.text THEN {<<s.index, "text">>} ELSE {})

\* The client has seen what the dict stands for.
InStep(c, s) ==
    /\ c.ok
    /\ ~(s.thinking /\ s.text)
    /\ c.seen = s.index + (IF s.thinking \/ s.text THEN 1 ELSE 0)
    /\ c.open = OpenBlocks(s)
    /\ \A k \in DOMAIN s.calls : s.calls[k].index < s.index
    /\ \A j, k \in DOMAIN s.calls : s.calls[j].index = s.calls[k].index => j = k

\* The last block that was opened is one of text.
TextIsLast(events) ==
    \E i \in DOMAIN events :
        /\ events[i].event = "start" /\ events[i].kind = "text"
        /\ \A k \in (i + 1)..Len(events) : events[k].event = "delta"

Apart(events, s) ==
    /\ ~ClientOf(events).ended
    /\ RelapsedIn(events) \/ (InStep(ClientOf(events), s) /\ (s.text => TextIsLast(events)))

CallIn(events) == \E i \in DOMAIN events : events[i].kind = "tool" /\ events[i].body = <<"j">>

\* Of a visible text, what is not shown is held back, and rightly so.
Says(events, s, shown) ==
    /\ TextOf(events) \o s.buf = shown
    /\ s.emitted <=> TextOf(events) # <<>>
    /\ ~toolMode => s.decision = "none"
    /\ toolMode /\ s.decision = "none" => TextOf(events) = <<>> /\ Stripped(shown) = <<>>
    /\ s.decision = "buffer" =>
          TextOf(events) = <<>> /\ Stripped(shown) # <<>> /\ Head(Stripped(shown)) \in {"j", "k"}
    /\ s.decision = "text" =>
          Stripped(shown) # <<>> /\ Head(Stripped(shown)) \notin {"j", "k"}
    /\ ~CallIn(events)

\* What a later chunk needs to know of the inline thoughts.
Carries(s, written) ==
    strip => /\ s.thought <=> CloserIn(written) > 0
             /\ ~s.thought => s.carry = Kept(written)

Reasoned == {i \in DOMAIN chunks : chunks[i].reasoning}

ReplyTyped ==
    /\ toolMode \in BOOLEAN /\ strip \in BOOLEAN
    /\ dict \in Dicts /\ dict.out = <<>>
    /\ wire \in Seq(BlockEvents) /\ chunks \in Seq(Pieces)

\* What the dict and the client have of a visible text.
Told(w, s) == w \o s.out
Shown(w, s, shown) ==
    /\ s \in Dicts /\ HeldBack(s)
    /\ Says(Told(w, s), s, shown)
    /\ Apart(Told(w, s), s)

UnderWay ==
    /\ Shown(wire, dict, Visible(Content))
    /\ Carries(dict, Content)
    /\ dict.reasons = Cardinality(Reasoned)
    /\ HasCalls <=> dict.calls # <<>> \/ Swallowed

ReplyInv ==
    /\ ReplyTyped
    /\ stream \in {"open", "ended", "broken"}
    /\ stream # "broken" /\ ~Finished => UnderWay
    /\ Client.ok \/ Relapsed
    /\ Finished => Client.ended \/ Swallowed
    /\ StreamedLikeWhole

-----------------------------------------------------------------------------
(* A reply: texts                                                              *)

Texts == Seq(Symbols)

\* Two texts are the same when they agree everywhere.
LEMMA EqualTexts ==
    ASSUME NEW s \in Texts, NEW t \in Texts, Len(s) = Len(t), \A i \in 1..Len(s) : s[i] = t[i]
    PROVE  s = t
BY SeqEqual DEF Texts

\* The beginning of a text, one symbol longer.
LEMMA OneMore ==
    ASSUME NEW t \in Texts, NEW i \in 1..Len(t)
    PROVE  /\ SubSeq(t, 1, i - 1) \in Texts /\ t[i] \in Symbols
           /\ SubSeq(t, 1, i) = Append(SubSeq(t, 1, i - 1), t[i])
BY DEF Texts

\* Induction over texts, for what a set holds.
LEMMA TextsGrow ==
    ASSUME NEW P, <<>> \in P, \A t \in Texts, x \in Symbols : t \in P => Append(t, x) \in P
    PROVE  \A t \in Texts : t \in P
<1>. TAKE t \in Texts
<1>. DEFINE N == {i \in Nat : i <= Len(t) => SubSeq(t, 1, i) \in P}
<1>1. Len(t) \in Nat /\ SubSeq(t, 1, 0) = <<>> /\ SubSeq(t, 1, Len(t)) = t
  BY DEF Texts
<1>2. 0 \in N
  BY <1>1
<1>3. ASSUME NEW i \in 1..Len(t), i - 1 \in N PROVE i \in N
  <2>1. i - 1 <= Len(t) /\ i \in Nat
    BY <1>1
  <2>2. SubSeq(t, 1, i - 1) \in P
    BY <1>3, <2>1
  <2>3. SubSeq(t, 1, i) \in P
    BY <2>2, OneMore
  <2>. QED  BY <2>1, <2>3
<1>4. Len(t) \in N
  <2>. HIDE DEF N
  <2>. QED  BY <1>1, <1>2, <1>3, UpTo
<1>5. SubSeq(t, 1, Len(t)) \in P
  BY <1>1, <1>4
<1>. QED  BY <1>1, <1>5, Zenon

\* The list of texts that Only flattens.
LEMMA OnlyAppends ==
    ASSUME NEW t \in Texts, NEW x \in Symbols, NEW kept
    PROVE  /\ Only(t, kept) \in Texts
           /\ Only(Append(t, x), kept) = Only(t, kept) \o (IF x \in kept THEN <<x>> ELSE <<>>)
<1>. DEFINE n == Len(t)
            one(y) == IF y \in kept THEN <<y>> ELSE <<>>
            s == [i \in 1..n |-> one(t[i])]
            u == [i \in 1..(n + 1) |-> one(Append(t, x)[i])]
<1>1. /\ n \in Nat /\ Len(Append(t, x)) = n + 1
      /\ DOMAIN t = 1..n /\ DOMAIN Append(t, x) = 1..(n + 1)
      /\ \A i \in 1..n : t[i] \in Symbols /\ Append(t, x)[i] = t[i]
      /\ Append(t, x)[n + 1] = x
  BY DEF Texts
<1>2. \A y \in Symbols : one(y) \in Seq(Symbols)
  OBVIOUS
<1>. HIDE DEF one, n
<1>3. s \in [1..n -> Seq(Symbols)]
  BY <1>1, <1>2
<1>4. u \in [1..(n + 1) -> Seq(Symbols)] /\ u[n + 1] = one(x)
  <2>1. ASSUME NEW i \in 1..(n + 1) PROVE Append(t, x)[i] \in Symbols
    <3>1. i \in 1..n \/ i = n + 1
      BY <1>1
    <3>. QED  BY <1>1, <3>1
  <2>2. n + 1 \in 1..(n + 1)
    BY <1>1
  <2>. QED  BY <1>1, <1>2, <2>1, <2>2
<1>5. \A i \in 1..n : s[i] = u[i]
  <2>1. \A i \in 1..n : i \in 1..(n + 1)
    BY <1>1
  <2>. QED  BY <1>1, <2>1
<1>6. Only(t, kept) = FlattenSeq(s) /\ Only(Append(t, x), kept) = FlattenSeq(u)
  BY <1>1 DEF Only, one
<1>. HIDE DEF s, u
<1>7. FlattenSeq(s) \in Seq(Symbols) /\ FlattenSeq(u) = FlattenSeq(s) \o u[n + 1]
  BY <1>1, <1>3, <1>4, <1>5, FlattenAppends
<1>. QED  BY <1>4, <1>6, <1>7 DEF Texts, one

\* Nothing is left of nothing.
LEMMA OnlyNothing == ASSUME NEW kept PROVE Only(<<>>, kept) = <<>>
<1>. DEFINE s == [i \in DOMAIN <<>> |-> IF <<>>[i] \in kept THEN <<(<<>>[i])>> ELSE <<>>]
<1>1. s \in [1..0 -> Seq(Symbols)] /\ Len(s) = 0
  OBVIOUS
<1>2. FlattenSeq(s) = <<>>
  BY <1>1 DEF FlattenSeq
<1>. QED  BY <1>2 DEF Only

\* What is left of two texts put together is what is left of each.
LEMMA OnlyOfConcat ==
    ASSUME NEW t \in Texts, NEW u \in Texts, NEW kept
    PROVE  Only(t \o u, kept) = Only(t, kept) \o Only(u, kept)
<1>. DEFINE P == {v \in Texts : Only(t \o v, kept) = Only(t, kept) \o Only(v, kept)}
<1>1. <<>> \in P
  <2>1. t \o <<>> = t /\ Only(t, kept) \o <<>> = Only(t, kept) /\ <<>> \in Texts
    <3>1. Only(t, kept) \in Texts
      BY OnlyAppends DEF Symbols
    <3>. QED  BY <3>1 DEF Texts
  <2>. QED  BY <2>1, OnlyNothing
<1>2. ASSUME NEW v \in Texts, NEW x \in Symbols, v \in P PROVE Append(v, x) \in P
  <2>. DEFINE one == IF x \in kept THEN <<x>> ELSE <<>>
  <2>1. t \o v \in Texts /\ t \o Append(v, x) = Append(t \o v, x) /\ Append(v, x) \in Texts
    BY DEF Texts
  <2>2. Only(Append(t \o v, x), kept) = Only(t \o v, kept) \o one
        /\ Only(Append(v, x), kept) = Only(v, kept) \o one
    BY <2>1, OnlyAppends
  <2>3. Only(t, kept) \in Texts /\ Only(v, kept) \in Texts
    <3>. HIDE DEF P, one
    <3>. QED  BY OnlyAppends, Zenon
  <2>4. one \in Texts
    BY DEF Texts
  <2>6. Only(t \o v, kept) = Only(t, kept) \o Only(v, kept)
    BY <1>2
  <2>. HIDE DEF one
  <2>5. (Only(t, kept) \o Only(v, kept)) \o one = Only(t, kept) \o (Only(v, kept) \o one)
    BY <2>3, <2>4, ConcatAssociative, SMTT(30) DEF Texts
  <2>. QED  BY <2>1, <2>2, <2>5, <2>6
<1>3. u \in P
  <2>. HIDE DEF P
  <2>. QED  BY <1>1, <1>2, TextsGrow
<1>. QED  BY <1>3

\* Nothing is left of a text without the symbols, everything of one with no others.
LEMMA OnlyNone ==
    ASSUME NEW t \in Texts, NEW kept, \A i \in 1..Len(t) : t[i] \notin kept
    PROVE  Only(t, kept) = <<>>
<1>. DEFINE P == {v \in Texts : (\A i \in 1..Len(v) : v[i] \notin kept) => Only(v, kept) = <<>>}
<1>1. <<>> \in P
  BY OnlyNothing DEF Texts
<1>2. ASSUME NEW v \in Texts, NEW x \in Symbols, v \in P PROVE Append(v, x) \in P
  <2>1. /\ Append(v, x) \in Texts /\ Len(v) \in Nat /\ Len(Append(v, x)) = Len(v) + 1
        /\ \A i \in 1..Len(v) : Append(v, x)[i] = v[i]
        /\ Append(v, x)[Len(v) + 1] = x
    BY DEF Texts
  <2>2. ASSUME \A i \in 1..Len(Append(v, x)) : Append(v, x)[i] \notin kept
        PROVE  Only(Append(v, x), kept) = <<>>
    <3>1. x \notin kept /\ \A i \in 1..Len(v) : v[i] \notin kept
      <4>1. Len(v) + 1 \in 1..Len(Append(v, x)) /\ \A i \in 1..Len(v) : i \in 1..Len(Append(v, x))
        BY <2>1
      <4>. QED  BY <2>1, <2>2, <4>1
    <3>2. Only(v, kept) = <<>>
      BY <1>2, <3>1
    <3>3. Only(Append(v, x), kept) = Only(v, kept) \o (IF x \in kept THEN <<x>> ELSE <<>>)
      BY OnlyAppends, Zenon
    <3>. QED  BY <3>1, <3>2, <3>3
  <2>. QED  BY <2>1, <2>2
<1>3. t \in P
  <2>. HIDE DEF P
  <2>. QED  BY <1>1, <1>2, TextsGrow
<1>. QED  BY <1>3

\* All is left of a text that has only what is kept.
LEMMA OnlyAll ==
    ASSUME NEW t \in Texts, NEW kept, \A i \in 1..Len(t) : t[i] \in kept
    PROVE  Only(t, kept) = t
<1>. DEFINE P == {v \in Texts : (\A i \in 1..Len(v) : v[i] \in kept) => Only(v, kept) = v}
<1>1. <<>> \in P
  BY OnlyNothing DEF Texts
<1>2. ASSUME NEW v \in Texts, NEW x \in Symbols, v \in P PROVE Append(v, x) \in P
  <2>1. /\ Append(v, x) \in Texts /\ Len(v) \in Nat /\ Len(Append(v, x)) = Len(v) + 1
        /\ \A i \in 1..Len(v) : Append(v, x)[i] = v[i]
        /\ Append(v, x)[Len(v) + 1] = x
        /\ Append(v, x) = v \o <<x>>
    BY DEF Texts
  <2>2. ASSUME \A i \in 1..Len(Append(v, x)) : Append(v, x)[i] \in kept
        PROVE  Only(Append(v, x), kept) = Append(v, x)
    <3>1. x \in kept /\ \A i \in 1..Len(v) : v[i] \in kept
      <4>1. Len(v) + 1 \in 1..Len(Append(v, x)) /\ \A i \in 1..Len(v) : i \in 1..Len(Append(v, x))
        BY <2>1
      <4>. QED  BY <2>1, <2>2, <4>1
    <3>2. Only(v, kept) = v
      BY <1>2, <3>1
    <3>3. Only(Append(v, x), kept) = Only(v, kept) \o (IF x \in kept THEN <<x>> ELSE <<>>)
      BY OnlyAppends, Zenon
    <3>. QED  BY <2>1, <3>1, <3>2, <3>3
  <2>. QED  BY <2>1, <2>2
<1>3. t \in P
  <2>. HIDE DEF P
  <2>. QED  BY <1>1, <1>2, TextsGrow
<1>. QED  BY <1>3

-----------------------------------------------------------------------------
\* Where a text begins when white space is left out.
BeginsAt(t, i) == i \in 1..Len(t) /\ t[i] # "s" /\ \A j \in 1..(i - 1) : t[j] = "s"

\* The minimum of a set of numbers is its least element.
LEMMA LeastOf ==
    ASSUME NEW I \in SUBSET Nat, I # {}
    PROVE  Min(I) \in I /\ \A i \in I : Min(I) <= i
<1>1. \E x \in I : \A y \in I : x <= y
  BY LeastNumber
<1>. QED  BY <1>1 DEF Min

\* A text without its leading spaces begins at its first other symbol.
LEMMA StrippedIs ==
    ASSUME NEW t \in Texts
    PROVE  /\ Stripped(t) \in Texts
           /\ \A i : BeginsAt(t, i) =>
                 /\ Stripped(t) = SubSeq(t, i, Len(t)) /\ Stripped(t) # <<>>
                 /\ Head(Stripped(t)) = t[i] /\ Tail(Stripped(t)) = SubSeq(t, i + 1, Len(t))
           /\ Stripped(t) # <<>> => \E i : BeginsAt(t, i)
           /\ Stripped(t) = <<>> => \A i \in 1..Len(t) : t[i] = "s"
<1>. DEFINE I == {i \in 1..Len(t) : t[i] # "s"}
<1>1. I \in SUBSET Nat /\ Len(t) \in Nat
  BY DEF Texts
<1>2. LStrip(t) = IF I # {} THEN Min(I) ELSE 0
  BY DEF LStrip, SelectInSeq
<1>3. CASE I = {}
  <2>1. Stripped(t) = <<>>
    BY <1>2, <1>3 DEF Stripped
  <2>2. \A i : ~BeginsAt(t, i)
    BY <1>3 DEF BeginsAt
  <2>. QED  BY <1>3, <2>1, <2>2 DEF Texts
<1>4. CASE I # {}
  <2>. DEFINE m == Min(I)
  <2>1. m \in I /\ \A i \in I : m <= i
    <3>. HIDE DEF I
    <3>. QED  BY <1>1, <1>4, LeastOf
  <2>2. Stripped(t) = SubSeq(t, m, Len(t))
    <3>1. m # 0
      BY <2>1
    <3>. QED  BY <1>2, <1>4, <3>1 DEF Stripped
  <2>. HIDE DEF m
  <2>3. BeginsAt(t, m)
    <3>1. ASSUME NEW j \in 1..(m - 1) PROVE t[j] = "s"
      <4>1. j \in 1..Len(t) /\ ~(m <= j)
        BY <1>1, <2>1
      <4>. QED  BY <2>1, <4>1
    <3>. QED  BY <2>1, <3>1 DEF BeginsAt
  <2>4. ASSUME NEW i, BeginsAt(t, i) PROVE i = m
    <3>1. i \in I
      BY <2>4 DEF BeginsAt
    <3>2. m \in I /\ m <= i /\ m \in Nat /\ i \in Nat
      BY <1>1, <2>1, <3>1
    <3>3. ~(m \in 1..(i - 1))
      BY <2>1, <2>4 DEF BeginsAt
    <3>. QED  BY <3>2, <3>3
  <2>5. SubSeq(t, m, Len(t)) \in Texts /\ SubSeq(t, m, Len(t)) # <<>>
        /\ Head(SubSeq(t, m, Len(t))) = t[m] /\ Tail(SubSeq(t, m, Len(t))) = SubSeq(t, m + 1, Len(t))
    <3>1. m \in 1..Len(t) /\ Len(t) \in m..Len(t)
      BY <1>1, <2>1
    <3>. HIDE DEF I
    <3>2. Head(SubSeq(t, m, Len(t))) = t[m] /\ Tail(SubSeq(t, m, Len(t))) = SubSeq(t, m + 1, Len(t))
      BY <3>1, HeadTailOfSubSeq DEF Texts
    <3>3. SubSeq(t, m, Len(t)) \in Texts /\ Len(SubSeq(t, m, Len(t))) # 0
      BY <3>1 DEF Texts
    <3>4. Len(<<>>) = 0
      OBVIOUS
    <3>. QED  BY <3>2, <3>3, <3>4, Zenon
  <2>. QED  BY <2>2, <2>3, <2>4, <2>5
<1>. QED  BY <1>3, <1>4
\* A text that has begun begins alike when more is written.
LEMMA StillBegins ==
    ASSUME NEW t \in Texts, NEW u \in Texts, Stripped(t) # <<>>
    PROVE  Stripped(t \o u) # <<>> /\ Head(Stripped(t \o u)) = Head(Stripped(t))
<1>1. PICK i : BeginsAt(t, i)
  BY StrippedIs
<1>2. t \o u \in Texts /\ (t \o u)[i] = t[i] /\ BeginsAt(t \o u, i)
  <2>1. Len(t) \in Nat /\ Len(u) \in Nat /\ Len(t \o u) = Len(t) + Len(u) /\ t \o u \in Texts
        /\ \A j \in 1..Len(t) : (t \o u)[j] = t[j]
    BY DEF Texts
  <2>2. i \in 1..Len(t) /\ i \in 1..Len(t \o u) /\ \A j \in 1..(i - 1) : j \in 1..Len(t)
    BY <1>1, <2>1 DEF BeginsAt
  <2>. QED  BY <1>1, <2>1, <2>2 DEF BeginsAt
<1>3. Head(Stripped(t)) = t[i]
  BY <1>1, StrippedIs
<1>4. Stripped(t \o u) # <<>> /\ Head(Stripped(t \o u)) = (t \o u)[i]
  BY <1>2, StrippedIs
<1>. QED  BY <1>2, <1>3, <1>4

\* Only white space: no words, and no call.
LEMMA OnlySpaces ==
    ASSUME NEW t \in Texts, Stripped(t) = <<>>
    PROVE  Words(t) = <<>> /\ Only(t, Symbols \ {"s"}) = <<>> /\ ~IsCall(t)
<1>1. \A i \in 1..Len(t) : t[i] = "s"
  BY StrippedIs
<1>2. Words(t) = <<>>
  <2>1. \A i \in 1..Len(t) : t[i] \notin {"w", "j", "k"}
    BY <1>1
  <2>. QED  BY <2>1, OnlyNone DEF Words
<1>3. Only(t, Symbols \ {"s"}) = <<>>
  <2>1. \A i \in 1..Len(t) : t[i] \notin Symbols \ {"s"}
    BY <1>1
  <2>. QED  BY <2>1, OnlyNone
<1>. QED  BY <1>2, <1>3 DEF IsCall

\* White space in front changes neither.
LEMMA SpacesInFront ==
    ASSUME NEW t \in Texts, NEW u \in Texts, Stripped(t) = <<>>
    PROVE  Words(t \o u) = Words(u) /\ (IsCall(t \o u) <=> IsCall(u))
<1>1. Only(u, {"w", "j", "k"}) \in Texts /\ Only(u, Symbols \ {"s"}) \in Texts
  BY OnlyAppends DEF Symbols
<1>2. Words(t \o u) = Words(t) \o Words(u)
      /\ Only(t \o u, Symbols \ {"s"}) = Only(t, Symbols \ {"s"}) \o Only(u, Symbols \ {"s"})
  BY OnlyOfConcat DEF Words
<1>3. <<>> \o Words(u) = Words(u)
      /\ <<>> \o Only(u, Symbols \ {"s"}) = Only(u, Symbols \ {"s"})
  BY <1>1, ConcatEmptySeq DEF Words, Texts
<1>. QED  BY <1>2, <1>3, OnlySpaces DEF IsCall

\* What is a call looks like one.
LEMMA CallsLookLikeIt ==
    ASSUME NEW t \in Texts, IsCall(t)
    PROVE  t # <<>> /\ Stripped(t) # <<>> /\ Head(Stripped(t)) = "j"
<1>1. Stripped(t) # <<>>
  BY OnlySpaces
<1>2. PICK i : BeginsAt(t, i)
  BY <1>1, StrippedIs
<1>. DEFINE K == Symbols \ {"s"}
            a == SubSeq(t, 1, i - 1)
            b == SubSeq(t, i + 1, Len(t))
<1>3. /\ i \in 1..Len(t) /\ t[i] \in K /\ Len(t) \in Nat
      /\ a \in Texts /\ b \in Texts /\ <<t[i]>> \in Texts
      /\ Len(a) = i - 1 /\ \A j \in 1..Len(a) : a[j] = "s"
  BY <1>2 DEF BeginsAt, Texts
<1>4. t = a \o (<<t[i]>> \o b)
  <2>1. SubSeq(t, i, Len(t)) = <<t[i]>> \o b
    BY <1>3, SubSeqRecursiveFirst DEF Texts
  <2>2. t = a \o SubSeq(t, i, Len(t))
    BY <1>3 DEF Texts
  <2>. QED  BY <2>1, <2>2, Zenon
<1>. HIDE DEF K, a, b
<1>5. Only(a, K) = <<>>
  <2>1. \A j \in 1..Len(a) : a[j] \notin K
    BY <1>3 DEF K
  <2>. QED  BY <1>3, <2>1, OnlyNone
<1>6. Only(<<t[i]>>, K) = <<t[i]>>
  <2>1. \A j \in 1..Len(<<t[i]>>) : <<t[i]>>[j] \in K
    BY <1>3
  <2>. QED  BY <1>3, <2>1, OnlyAll
<1>7. Only(b, K) \in Texts
  BY <1>3, OnlyAppends DEF Symbols
<1>8. Only(t, K) = Only(a, K) \o (Only(<<t[i]>>, K) \o Only(b, K))
  <2>1. <<t[i]>> \o b \in Texts
    BY <1>3 DEF Texts
  <2>2. Only(<<t[i]>> \o b, K) = Only(<<t[i]>>, K) \o Only(b, K)
    BY <1>3, OnlyOfConcat, ZenonT(60)
  <2>3. Only(a \o (<<t[i]>> \o b), K) = Only(a, K) \o Only(<<t[i]>> \o b, K)
    <3>. DEFINE c == <<t[i]>> \o b
    <3>1. c \in Texts /\ a \in Texts
      BY <1>3, <2>1
    <3>. HIDE DEF c
    <3>2. Only(a \o c, K) = Only(a, K) \o Only(c, K)
      BY <3>1, OnlyOfConcat
    <3>. QED  BY <3>2 DEF c
  <2>. QED  BY <1>4, <2>2, <2>3, Zenon
<1>9. <<"j">> = <<t[i]>> \o Only(b, K)
  <2>1. Only(t, K) = <<"j">>
    BY DEF IsCall, K
  <2>2. <<t[i]>> \o Only(b, K) \in Seq(Symbols)
    BY <1>3, <1>7 DEF Texts
  <2>3. <<>> \o (<<t[i]>> \o Only(b, K)) = <<t[i]>> \o Only(b, K)
    BY <2>2, ConcatEmptySeq
  <2>. QED  BY <1>5, <1>6, <1>8, <2>1, <2>3, Zenon
<1>10. t[i] = "j"
  <2>1. (<<t[i]>> \o Only(b, K))[1] = t[i]
    BY <1>3, <1>7 DEF Texts
  <2>2. <<"j">>[1] = "j"
    OBVIOUS
  <2>. QED  BY <1>9, <2>1, <2>2, Zenon
<1>11. t # <<>>
  BY <1>3
<1>. QED  BY <1>1, <1>2, <1>10, <1>11, StrippedIs

-----------------------------------------------------------------------------
\* The first closer of a text.
IsCloser(t, i) == i \in 1..(Len(t) - 1) /\ t[i] = "<" /\ t[i + 1] = ">"
ClosesAt(t, i) == IsCloser(t, i) /\ \A j \in 1..(i - 1) : ~IsCloser(t, j)

\* The place of the first </think> of a text, or 0.
LEMMA CloserIs ==
    ASSUME NEW t \in Texts
    PROVE  /\ CloserIn(t) \in 0..Len(t)
           /\ CloserIn(t) # 0 => ClosesAt(t, CloserIn(t))
           /\ CloserIn(t) = 0 => \A i : ~IsCloser(t, i)
           /\ \A i : ClosesAt(t, i) => CloserIn(t) = i
<1>. DEFINE I == {i \in 1..(Len(t) - 1) : t[i] = "<" /\ t[i + 1] = ">"}
<1>1. /\ I \in SUBSET Nat /\ Len(t) \in Nat
      /\ \A i : i \in I <=> IsCloser(t, i)
  BY DEF IsCloser, Texts
<1>2. CloserIn(t) = IF I = {} THEN 0 ELSE CHOOSE i \in I : \A j \in I : i <= j
  BY DEF CloserIn
<1>3. \A i : IsCloser(t, i) => i \in 1..Len(t)
  BY <1>1 DEF IsCloser
<1>. HIDE DEF I
<1>4. CASE I = {}
  <2>1. CloserIn(t) = 0 /\ \A i : ~IsCloser(t, i)
    BY <1>1, <1>2, <1>4
  <2>. QED  BY <1>1, <2>1 DEF ClosesAt
<1>5. CASE I # {}
  <2>1. \E i \in I : \A j \in I : i <= j
    BY <1>1, <1>5, LeastNumber
  <2>. DEFINE m == CloserIn(t)
  <2>2. m \in I /\ \A j \in I : m <= j
    BY <1>2, <1>5, <2>1
  <2>3. m \in 1..Len(t) /\ IsCloser(t, m)
    BY <1>1, <1>3, <2>2
  <2>. HIDE DEF m
  <2>4. \A j \in 1..(m - 1) : ~IsCloser(t, j)
    <3>1. \A j \in 1..(m - 1) : ~(m <= j)
      BY <2>3
    <3>. QED  BY <1>1, <2>2, <3>1
  <2>5. ASSUME NEW i, ClosesAt(t, i) PROVE m = i
    <3>1. i \in 1..Len(t) /\ m <= i
      BY <1>1, <1>3, <2>2, <2>5 DEF ClosesAt
    <3>2. ~(m \in 1..(i - 1))
      BY <2>3, <2>5 DEF ClosesAt
    <3>. QED  BY <2>3, <3>1, <3>2
  <2>6. m \in 0..Len(t) /\ m # 0
    BY <2>3
  <2>. QED  BY <2>3, <2>4, <2>5, <2>6 DEF m, ClosesAt
<1>. QED  BY <1>4, <1>5

\* b is what is left of t after k symbols, among which no closer begins.
Follows(t, b, k) ==
    /\ t \in Texts /\ b \in Texts /\ k \in Nat
    /\ Len(t) = k + Len(b)
    /\ \A j \in 1..Len(b) : t[k + j] = b[j]
    /\ \A j \in 1..k : ~IsCloser(t, j)

\* What follows the first closer.
Behind(t) == SubSeq(t, CloserIn(t) + 2, Len(t))

\* A text that follows another one that has no closer closes where the new text does.
LEMMA CloserFollows ==
    ASSUME NEW t, NEW b, NEW k, Follows(t, b, k)
    PROVE  /\ CloserIn(t) = (IF CloserIn(b) = 0 THEN 0 ELSE k + CloserIn(b))
           /\ CloserIn(b) # 0 => CloserIn(t) # 0 /\ Behind(t) = Behind(b)
<1>1. /\ t \in Texts /\ b \in Texts /\ k \in Nat /\ Len(t) = k + Len(b)
      /\ Len(t) \in Nat /\ Len(b) \in Nat
  BY DEF Follows, Texts
<1>2. ASSUME NEW j \in 1..Len(b) PROVE IsCloser(b, j) <=> IsCloser(t, k + j)
  <2>1. j \in 1..(Len(b) - 1) <=> k + j \in 1..(Len(t) - 1)
    BY <1>1
  <2>2. t[k + j] = b[j]
    BY DEF Follows
  <2>3. CASE j \in 1..(Len(b) - 1)
    <3>1. j + 1 \in 1..Len(b) /\ k + (j + 1) = (k + j) + 1
      BY <1>1, <2>3
    <3>2. t[(k + j) + 1] = b[j + 1]
      BY <3>1 DEF Follows
    <3>. QED  BY <2>1, <2>2, <2>3, <3>2 DEF IsCloser
  <2>4. CASE j \notin 1..(Len(b) - 1)
    BY <2>1, <2>4 DEF IsCloser
  <2>. QED  BY <2>3, <2>4
<1>3. CASE CloserIn(b) = 0
  <2>1. ASSUME NEW i, IsCloser(t, i) PROVE FALSE
    <3>1. i \in 1..Len(t)
      BY <1>1, <2>1 DEF IsCloser
    <3>2. CASE i <= k
      <4>1. i \in 1..k
        BY <1>1, <3>1, <3>2
      <4>. QED  BY <2>1, <4>1 DEF Follows
    <3>3. CASE ~(i <= k)
      <4>1. i - k \in 1..Len(b) /\ k + (i - k) = i
        BY <1>1, <3>1, <3>3
      <4>2. IsCloser(b, i - k)
        BY <1>2, <2>1, <4>1
      <4>. QED  BY <1>1, <1>3, <4>2, CloserIs
    <3>. QED  BY <3>2, <3>3
  <2>2. CloserIn(t) = 0
    BY <1>1, <2>1, CloserIs DEF ClosesAt
  <2>. QED  BY <1>3, <2>2
<1>4. CASE CloserIn(b) # 0
  <2>. DEFINE m == CloserIn(b)
  <2>1. ClosesAt(b, m) /\ m \in 1..Len(b) /\ m + 2 \in 3..(Len(b) + 1)
    <3>1. ClosesAt(b, m)
      BY <1>1, <1>4, CloserIs
    <3>. HIDE DEF m
    <3>. QED  BY <1>1, <3>1 DEF ClosesAt, IsCloser
  <2>. HIDE DEF m
  <2>2. ClosesAt(t, k + m)
    <3>1. IsCloser(t, k + m)
      BY <1>2, <2>1 DEF ClosesAt
    <3>2. ASSUME NEW i \in 1..((k + m) - 1) PROVE ~IsCloser(t, i)
      <4>1. CASE i <= k
        <5>1. i \in 1..k
          BY <1>1, <4>1
        <5>. QED  BY <5>1 DEF Follows
      <4>2. CASE ~(i <= k)
        <5>1. i - k \in 1..(m - 1) /\ i - k \in 1..Len(b) /\ k + (i - k) = i
          BY <1>1, <2>1, <4>2
        <5>2. ~IsCloser(b, i - k)
          BY <2>1, <5>1 DEF ClosesAt
        <5>. QED  BY <1>2, <5>1, <5>2
      <4>. QED  BY <4>1, <4>2
    <3>. QED  BY <3>1, <3>2 DEF ClosesAt
  <2>3. CloserIn(t) = k + m
    BY <1>1, <2>2, CloserIs
  <2>4. SubSeq(t, (k + m) + 2, Len(t)) = SubSeq(b, m + 2, Len(b))
    <3>. DEFINE u == SubSeq(t, (k + m) + 2, Len(t))
                v == SubSeq(b, m + 2, Len(b))
    <3>1. /\ u \in Texts /\ v \in Texts /\ Len(u) = Len(b) - (m + 1) /\ Len(v) = Len(b) - (m + 1)
      BY <1>1, <2>1 DEF Texts
    <3>2. ASSUME NEW j \in 1..(Len(b) - (m + 1)) PROVE u[j] = v[j]
      <4>1. u[j] = t[((k + m) + 2) + (j - 1)] /\ v[j] = b[(m + 2) + (j - 1)]
        BY <1>1, <2>1 DEF Texts
      <4>2. (m + 2) + (j - 1) \in 1..Len(b) /\ ((k + m) + 2) + (j - 1) = k + ((m + 2) + (j - 1))
        BY <1>1, <2>1
      <4>. HIDE DEF u, v
      <4>. QED  BY <4>1, <4>2 DEF Follows
    <3>. HIDE DEF u, v
    <3>3. u = v
      BY <3>1, <3>2, EqualTexts
    <3>. QED  BY <3>3 DEF u, v
  <2>5. k + m # 0
    BY <1>1, <2>1
  <2>6. Behind(t) = SubSeq(t, (k + m) + 2, Len(t)) /\ Behind(b) = SubSeq(b, m + 2, Len(b))
    BY <2>3 DEF Behind, m
  <2>. QED  BY <1>4, <2>3, <2>4, <2>5, <2>6 DEF m
<1>. QED  BY <1>3, <1>4

\* What the next chunk adds once the thoughts are over.
LEMMA WritesOn ==
    ASSUME NEW t \in Texts, NEW u \in Texts, CloserIn(t) # 0
    PROVE  CloserIn(t \o u) # 0 /\ Behind(t \o u) = Behind(t) \o u
<1>. DEFINE m == CloserIn(t)
            n == Len(t)
<1>1. /\ n \in Nat /\ Len(u) \in Nat /\ t \o u \in Texts /\ Len(t \o u) = n + Len(u)
      /\ \A i \in 1..n : (t \o u)[i] = t[i]
  BY DEF Texts
<1>2. ClosesAt(t, m) /\ m \in 1..(n - 1)
  <2>1. ClosesAt(t, m)
    BY CloserIs
  <2>. HIDE DEF m
  <2>. QED  BY <2>1 DEF ClosesAt, IsCloser
<1>. HIDE DEF m
<1>3. \A i \in 1..(n - 1) : IsCloser(t \o u, i) <=> IsCloser(t, i)
  <2>1. \A i \in 1..(n - 1) : i \in 1..n /\ i + 1 \in 1..n /\ i \in 1..(Len(t \o u) - 1)
    BY <1>1
  <2>. QED  BY <1>1, <2>1 DEF IsCloser
<1>4. ClosesAt(t \o u, m)
  <2>1. \A j \in 1..(m - 1) : j \in 1..(n - 1)
    BY <1>1, <1>2
  <2>. QED  BY <1>2, <1>3, <2>1 DEF ClosesAt
<1>5. CloserIn(t \o u) = m /\ m # 0
  BY <1>1, <1>2, <1>4, CloserIs
<1>6. SubSeq(t \o u, m + 2, Len(t \o u)) = SubSeq(t, m + 2, Len(t)) \o u
  <2>. DEFINE x == SubSeq(t \o u, m + 2, Len(t \o u))
              a == SubSeq(t, m + 2, Len(t))
              d == n - (m + 1)
  <2>1. /\ x \in Texts /\ a \in Texts /\ Len(a) = d /\ d \in Nat /\ Len(x) = d + Len(u)
        /\ \A j \in 1..(d + Len(u)) : x[j] = (t \o u)[(m + 2) + (j - 1)]
        /\ \A j \in 1..d : a[j] = t[(m + 2) + (j - 1)]
    BY <1>1, <1>2 DEF Texts
  <2>. HIDE DEF x, a, d
  <2>2. /\ a \o u \in Texts /\ Len(a \o u) = d + Len(u)
        /\ \A j \in 1..d : (a \o u)[j] = a[j]
        /\ \A j \in 1..Len(u) : (a \o u)[d + j] = u[j]
    <3>1. a \in Seq(Symbols) /\ u \in Seq(Symbols)
      BY <2>1 DEF Texts
    <3>2. /\ a \o u \in Seq(Symbols) /\ Len(a \o u) = Len(a) + Len(u)
          /\ \A j \in 1..Len(a) : (a \o u)[j] = a[j]
          /\ \A j \in 1..Len(u) : (a \o u)[Len(a) + j] = u[j]
      BY <3>1, ConcatOf
    <3>3. Len(a) = d
      BY <2>1
    <3>. QED  BY <3>2, <3>3 DEF Texts
  <2>3. ASSUME NEW j \in 1..(d + Len(u)) PROVE x[j] = (a \o u)[j]
    <3>1. CASE j <= d
      <4>1. j \in 1..d /\ (m + 2) + (j - 1) \in 1..n
        BY <1>1, <1>2, <2>1, <3>1 DEF d
      <4>. QED  BY <1>1, <2>1, <2>2, <4>1
    <3>2. CASE ~(j <= d)
      <4>1. j - d \in 1..Len(u) /\ (m + 2) + (j - 1) = n + (j - d) /\ d + (j - d) = j
        BY <1>1, <1>2, <2>1, <3>2 DEF d
      <4>2. (a \o u)[d + (j - d)] = u[j - d]
        BY <2>2, <4>1
      <4>3. (t \o u)[n + (j - d)] = u[j - d]
        BY <4>1 DEF Texts
      <4>. QED  BY <2>1, <4>1, <4>2, <4>3
    <3>. QED  BY <3>1, <3>2
  <2>4. x = a \o u
    BY <2>1, <2>2, <2>3, EqualTexts
  <2>. QED  BY <2>4 DEF x, a
<1>. QED  BY <1>5, <1>6 DEF Behind, m

\* The text in which Thinks looks for the closer.
Looked(carry, text) ==
    LET all == carry \o text
    IN  IF Stripped(all) # <<>> /\ Head(Stripped(all)) = "o" THEN Tail(Stripped(all)) ELSE all

\* What Thinks carries over: the beginning of a closer at the end of a text.
LEMMA KeptIs ==
    ASSUME NEW t \in Texts
    PROVE  /\ Kept(t) \in Texts
           /\ \/ Kept(t) = <<"<">> /\ Len(t) \in 1..Len(t) /\ t[Len(t)] = "<"
              \/ Kept(t) = <<>> /\ (Len(t) \in 1..Len(t) => t[Len(t)] # "<")
<1>1. <<"<">> \in Texts /\ <<>> \in Texts
  BY DEF Texts, Symbols
<1>2. Len(t) \in Nat /\ (t = <<>> <=> Len(t) = 0)
  BY DEF Texts
<1>3. Len(t) \in 1..Len(t) <=> t # <<>>
  BY <1>2
<1>. QED  BY <1>1, <1>3 DEF Kept, Last

\* It is what is left of all that was written, and the closer is not before it.
LEMMA LookedFollows ==
    ASSUME NEW t \in Texts, NEW u \in Texts, u # <<>>, CloserIn(t) = 0
    PROVE  /\ \E k : Follows(t \o u, Looked(Kept(t), u), k)
           /\ Kept(t \o u) = Kept(Looked(Kept(t), u))
<1>. DEFINE n == Len(t)
            all == Kept(t) \o u
            b == Looked(Kept(t), u)
<1>1. /\ n \in Nat /\ Len(u) \in Nat /\ Len(u) # 0
      /\ t \o u \in Texts /\ Len(t \o u) = n + Len(u)
      /\ \A i \in 1..n : (t \o u)[i] = t[i]
      /\ \A i \in 1..Len(u) : (t \o u)[n + i] = u[i]
  BY DEF Texts
<1>2. \A i : ~IsCloser(t, i)
  BY CloserIs
<1>3. ASSUME NEW i \in 1..(n - 1) PROVE ~IsCloser(t \o u, i)
  <2>1. i \in 1..n /\ i + 1 \in 1..n
    BY <1>1
  <2>. QED  BY <1>1, <1>2, <2>1 DEF IsCloser
<1>4. CASE Kept(t) = <<"<">>
  <2>1. n \in 1..n /\ t[n] = "<"
    BY <1>4, KeptIs
  <2>2. /\ all \in Texts /\ Len(all) = 1 + Len(u) /\ all[1] = "<"
        /\ \A i \in 1..Len(u) : all[1 + i] = u[i]
    <3>1. <<"<">> \in Texts /\ Len(<<"<">>) = 1 /\ <<"<">>[1] = "<"
      BY DEF Texts, Symbols
    <3>. QED  BY <1>1, <1>4, <3>1 DEF Texts
  <2>3. b = all
    <3>1. BeginsAt(all, 1)
      BY <1>1, <2>2 DEF BeginsAt
    <3>. HIDE DEF all
    <3>2. Stripped(all) # <<>> => Head(Stripped(all)) = "<"
      BY <2>2, <3>1, StrippedIs
    <3>. QED  BY <3>2 DEF Looked, all
  <2>. HIDE DEF all, b
  <2>4. Follows(t \o u, all, n - 1)
    <3>1. \A j \in 1..Len(all) : (t \o u)[(n - 1) + j] = all[j]
      <4>. TAKE j \in 1..Len(all)
      <4>1. CASE j = 1
        BY <1>1, <2>1, <2>2, <4>1
      <4>2. CASE j # 1
        <5>1. j - 1 \in 1..Len(u) /\ n + (j - 1) = (n - 1) + j /\ 1 + (j - 1) = j
          BY <1>1, <2>2, <4>2
        <5>. QED  BY <1>1, <2>2, <5>1
      <4>. QED  BY <4>1, <4>2
    <3>. QED  BY <1>1, <1>3, <2>1, <2>2, <3>1 DEF Follows
  <2>5. Kept(t \o u) = Kept(all)
    <3>1. (t \o u)[n + Len(u)] = all[1 + Len(u)]
      BY <1>1, <2>2
    <3>2. t \o u # <<>> /\ all # <<>>
      BY <1>1, <2>2
    <3>. QED  BY <1>1, <2>2, <3>1, <3>2 DEF Kept, Last
  <2>. QED  BY <2>3, <2>4, <2>5 DEF b
<1>5. CASE Kept(t) = <<>>
  <2>1. n \in 1..n => t[n] # "<"
    <3>1. <<"<">> # <<>>
      OBVIOUS
    <3>. QED  BY <1>5, <3>1, KeptIs
  <2>2. all = u
    BY <1>5 DEF Texts
  <2>3. ASSUME NEW i \in 1..n PROVE ~IsCloser(t \o u, i)
    <3>1. CASE i = n
      BY <1>1, <2>1, <3>1 DEF IsCloser
    <3>2. CASE i # n
      <4>1. i \in 1..(n - 1)
        BY <1>1, <3>2
      <4>. QED  BY <1>3, <4>1
    <3>. QED  BY <3>1, <3>2
  <2>4. CASE ~(Stripped(u) # <<>> /\ Head(Stripped(u)) = "o")
    <3>1. b = u
      BY <2>2, <2>4 DEF Looked
    <3>2. Follows(t \o u, u, n)
      BY <1>1, <2>3 DEF Follows
    <3>3. Kept(t \o u) = Kept(u)
      <4>1. (t \o u)[n + Len(u)] = u[Len(u)]
        BY <1>1
      <4>2. t \o u # <<>>
        BY <1>1
      <4>. QED  BY <1>1, <4>1, <4>2 DEF Kept, Last
    <3>. QED  BY <3>1, <3>2, <3>3 DEF b
  <2>5. CASE Stripped(u) # <<>> /\ Head(Stripped(u)) = "o"
    <3>1. PICK q : BeginsAt(u, q)
      BY <2>5, StrippedIs
    <3>2. u[q] = "o" /\ Tail(Stripped(u)) = SubSeq(u, q + 1, Len(u))
      BY <2>5, <3>1, StrippedIs
    <3>3. q \in 1..Len(u) /\ \A j \in 1..(q - 1) : u[j] = "s"
      BY <3>1 DEF BeginsAt
    <3>4. b = SubSeq(u, q + 1, Len(u))
      BY <2>2, <2>5, <3>2 DEF Looked
    <3>5. /\ b \in Texts /\ Len(b) = Len(u) - q
          /\ \A j \in 1..(Len(u) - q) : b[j] = u[q + j]
      <4>1. \A j \in 1..(Len(u) - q) : (q + 1) + (j - 1) = q + j
        BY <1>1, <3>3
      <4>. HIDE DEF b
      <4>. QED  BY <1>1, <3>3, <3>4, <4>1 DEF Texts
    <3>. HIDE DEF b, all
    <3>6. Follows(t \o u, b, n + q)
      <4>1. ASSUME NEW j \in 1..Len(b) PROVE (t \o u)[(n + q) + j] = b[j]
        <5>1. j \in 1..(Len(u) - q) /\ q + j \in 1..Len(u) /\ n + (q + j) = (n + q) + j
          BY <1>1, <3>3, <3>5
        <5>. QED  BY <1>1, <3>5, <5>1
      <4>2. ASSUME NEW j \in 1..(n + q) PROVE ~IsCloser(t \o u, j)
        <5>1. CASE j <= n
          <6>1. j \in 1..n
            BY <1>1, <5>1
          <6>. QED  BY <2>3, <6>1
        <5>2. CASE ~(j <= n)
          <6>0. j \in 1..(n + q) /\ q \in 1..Len(u)
            BY <3>3
          <6>4. j - n \in 1..q /\ n + (j - n) = j
            BY <1>1, <5>2, <6>0
          <6>3. \A r \in 1..q : r \in 1..Len(u) /\ (r = q \/ r \in 1..(q - 1))
            BY <1>1, <6>0
          <6>1. j - n \in 1..Len(u) /\ n + (j - n) = j /\ (j - n = q \/ j - n \in 1..(q - 1))
            BY <6>3, <6>4
          <6>2. u[j - n] # "<"
            BY <3>2, <3>3, <6>1
          <6>. QED  BY <1>1, <6>1, <6>2 DEF IsCloser
        <5>. QED  BY <5>1, <5>2
      <4>3. n + q \in Nat /\ Len(t \o u) = (n + q) + Len(b)
        BY <1>1, <3>3, <3>5
      <4>. QED  BY <1>1, <3>5, <4>1, <4>2, <4>3 DEF Follows
    <3>7. Kept(t \o u) = Kept(b)
      <4>0. t \o u # <<>> /\ (t \o u)[n + Len(u)] = u[Len(u)]
        BY <1>1
      <4>1. CASE q = Len(u)
        <5>1. b = <<>>
          BY <3>5, <4>1 DEF Texts
        <5>. QED  BY <1>1, <3>2, <4>0, <4>1, <5>1 DEF Kept, Last
      <4>2. CASE q # Len(u)
        <5>1. Len(u) - q \in 1..(Len(u) - q) /\ q + (Len(u) - q) = Len(u)
          BY <1>1, <3>3, <4>2
        <5>2. b[Len(b)] = u[Len(u)] /\ b # <<>>
          BY <3>5, <5>1
        <5>. QED  BY <1>1, <4>0, <5>2 DEF Kept, Last
      <4>. QED  BY <4>1, <4>2
    <3>. QED  BY <3>6, <3>7 DEF b
  <2>. QED  BY <2>4, <2>5
<1>. QED  BY <1>4, <1>5, KeptIs

-----------------------------------------------------------------------------
(* A reply: the answer, and the client                                         *)

\* What the request should show, as far as the two ways agree.
LEMMA AnswerIs ==
    ASSUME Content \in Texts
    PROVE  /\ ~strip => Answer = Content
           /\ strip /\ CloserIn(Content) # 0
                /\ ~(\E i \in DOMAIN Content :
                        Content[i] = "o" /\ Stripped(SubSeq(Content, 1, i - 1)) # <<>>)
              => /\ Words(Answer) = Words(Behind(Content))
                 /\ IsCall(Answer) <=> IsCall(Behind(Content))
<1>. DEFINE C == Content
            close == CloserIn(C)
            I == {i \in 1..Len(C) : C[i] = "o"}
            open == SelectInSeq(C, LAMBDA x : x = "o")
            after == SubSeq(C, close + 2, Len(C))
            cut == SubSeq(C, 1, open - 1)
<1>1. ~strip => Answer = Content
  BY DEF Answer
<1>2. ASSUME strip, close # 0,
             ~(\E i \in DOMAIN C : C[i] = "o" /\ Stripped(SubSeq(C, 1, i - 1)) # <<>>)
      PROVE  Words(Answer) = Words(after) /\ (IsCall(Answer) <=> IsCall(after))
  <2>1. open = IF I # {} THEN Min(I) ELSE 0
    BY DEF SelectInSeq
  <2>2. I \in SUBSET Nat /\ Len(C) \in Nat /\ DOMAIN C = 1..Len(C)
    BY DEF Texts
  <2>3. close \in 1..Len(C) /\ C[close] = "<"
    <3>1. ClosesAt(C, close) /\ close \in 0..Len(C)
      <4>1. C \in Texts
        OBVIOUS
      <4>. HIDE DEF C
      <4>. QED  BY <1>2, <4>1, CloserIs
    <3>. HIDE DEF close, C
    <3>. QED  BY <1>2, <2>2, <3>1 DEF ClosesAt, IsCloser
  <2>4. open = 0 \/ (open \in 1..Len(C) /\ C[open] = "o")
    <3>1. I # {} => Min(I) \in I
      <4>. HIDE DEF I
      <4>. QED  BY <2>2, LeastOf
    <3>. QED  BY <2>1, <3>1
  <2>. HIDE DEF open
  <2>5. open # close
    BY <2>2, <2>3, <2>4
  <2>6. after \in Texts /\ cut \in Texts
    BY <2>2, <2>3, <2>4 DEF Texts
  <2>7. Answer = CASE ~strip \/ (close = 0 /\ open = 0) -> C
                   [] strip /\ close > 0 /\ (open = 0 \/ close < open) -> after
                   [] strip /\ open > 0 /\ close = 0 -> cut
                   [] strip /\ open > 0 /\ open < close -> cut \o after
    BY DEF Answer, open
  <2>. HIDE DEF close, after, cut, C, I
  <2>8. CASE open = 0 \/ close < open
    <3>1. Answer = after
      BY <1>2, <2>2, <2>3, <2>4, <2>7, <2>8
    <3>. QED  BY <3>1
  <2>9. CASE open # 0 /\ open < close
    <3>1. Answer = cut \o after
      BY <1>2, <2>2, <2>3, <2>4, <2>7, <2>9
    <3>2. Stripped(cut) = <<>>
      BY <1>2, <2>2, <2>4, <2>9 DEF cut
    <3>. QED  BY <2>6, <3>1, <3>2, SpacesInFront
  <2>. QED  BY <2>2, <2>3, <2>4, <2>5, <2>8, <2>9
<1>. QED  BY <1>1, <1>2 DEF Behind

-----------------------------------------------------------------------------
(* The client and its events. *)

Clients == [open : SUBSET (Nat \X BlockKinds), seen : Nat, ok : BOOLEAN, ended : BOOLEAN]
NewClient == [open |-> {}, seen |-> 0, ok |-> TRUE, ended |-> FALSE]

\* What the client makes of an event of each kind.
LEMMA AppliesIs ==
    ASSUME NEW c \in Clients, NEW e \in BlockEvents
    PROVE  LET block == <<e.index, e.kind>>
               d == Applies(c, e)
           IN  /\ e.event = "start" =>
                      d = [open |-> c.open \union {block}, seen |-> e.index + 1,
                           ok |-> c.ok /\ c.seen = e.index, ended |-> c.ended]
               /\ e.event = "delta" =>
                      d = [open |-> c.open, seen |-> c.seen,
                           ok |-> c.ok /\ block \in c.open, ended |-> c.ended]
               /\ e.event = "stop" =>
                      d = [open |-> c.open \ {block}, seen |-> c.seen,
                           ok |-> c.ok /\ block \in c.open, ended |-> c.ended]
               /\ e.event = "end" =>
                      d = [open |-> c.open, seen |-> c.seen,
                           ok |-> c.ok /\ c.open = {}, ended |-> TRUE]
               /\ e.event = "error" => d = c
<1>1. c = [open |-> c.open, seen |-> c.seen, ok |-> c.ok, ended |-> c.ended]
  BY DEF Clients
<1>2. CASE e.event = "start"
  BY <1>1, <1>2 DEF Applies
<1>3. CASE e.event = "delta"
  BY <1>1, <1>3 DEF Applies
<1>4. CASE e.event = "stop"
  BY <1>1, <1>4 DEF Applies
<1>5. CASE e.event = "end"
  BY <1>1, <1>5 DEF Applies
<1>6. CASE e.event = "error"
  BY <1>1, <1>6 DEF Applies
<1>. QED  BY <1>2, <1>3, <1>4, <1>5, <1>6

\* A client stays a client, whatever it is told.
LEMMA AppliesType ==
    ASSUME NEW c \in Clients, NEW e \in BlockEvents
    PROVE  Applies(c, e) \in Clients
<1>. DEFINE block == <<e.index, e.kind>>
<1>1. /\ e.index \in Nat /\ block \in Nat \X BlockKinds
      /\ e.event \in {"start", "delta", "stop", "end", "error"}
      /\ c.open \in SUBSET (Nat \X BlockKinds) /\ c.seen \in Nat
      /\ c.ok \in BOOLEAN /\ c.ended \in BOOLEAN
  BY DEF Clients, BlockEvents
<1>. HIDE DEF block
<1>2. /\ c.open \union {block} \in SUBSET (Nat \X BlockKinds)
      /\ c.open \ {block} \in SUBSET (Nat \X BlockKinds)
      /\ e.index + 1 \in Nat
      /\ (c.ok /\ c.seen = e.index) \in BOOLEAN /\ (c.ok /\ block \in c.open) \in BOOLEAN
      /\ (c.ok /\ c.open = {}) \in BOOLEAN
  BY <1>1
<1>8. \A o \in SUBSET (Nat \X BlockKinds), n \in Nat, yes \in BOOLEAN, done \in BOOLEAN :
        [open |-> o, seen |-> n, ok |-> yes, ended |-> done] \in Clients
  BY DEF Clients
<1>3. CASE e.event = "start"
  <2>1. Applies(c, e) = [open |-> c.open \union {block}, seen |-> e.index + 1,
                         ok |-> c.ok /\ c.seen = e.index, ended |-> c.ended]
    BY <1>3, AppliesIs DEF block
  <2>2. TRUE \in BOOLEAN
    OBVIOUS
  <2>. QED  BY <1>1, <1>2, <1>8, <2>1, <2>2, ZenonT(60)
<1>4. CASE e.event = "delta"
  <2>1. Applies(c, e) = [open |-> c.open, seen |-> c.seen,
                         ok |-> c.ok /\ block \in c.open, ended |-> c.ended]
    BY <1>4, AppliesIs DEF block
  <2>2. TRUE \in BOOLEAN
    OBVIOUS
  <2>. QED  BY <1>1, <1>2, <1>8, <2>1, <2>2, ZenonT(60)
<1>5. CASE e.event = "stop"
  <2>1. Applies(c, e) = [open |-> c.open \ {block}, seen |-> c.seen,
                         ok |-> c.ok /\ block \in c.open, ended |-> c.ended]
    BY <1>5, AppliesIs DEF block
  <2>2. TRUE \in BOOLEAN
    OBVIOUS
  <2>. QED  BY <1>1, <1>2, <1>8, <2>1, <2>2, ZenonT(60)
<1>6. CASE e.event = "end"
  <2>1. Applies(c, e) = [open |-> c.open, seen |-> c.seen,
                         ok |-> c.ok /\ c.open = {}, ended |-> TRUE]
    BY <1>6, AppliesIs DEF block
  <2>2. TRUE \in BOOLEAN
    OBVIOUS
  <2>. QED  BY <1>1, <1>2, <1>8, <2>1, <2>2, Zenon
<1>7. CASE e.event = "error"
  BY <1>7, AppliesIs
<1>. QED  BY <1>1, <1>3, <1>4, <1>5, <1>6, <1>7

\* What a client has after an event of each kind.
LEMMA AppliesGives ==
    ASSUME NEW c \in Clients, NEW e \in BlockEvents
    PROVE  LET block == <<e.index, e.kind>>
               d == Applies(c, e)
           IN  /\ e.event = "start" =>
                      /\ d.open = c.open \union {block} /\ d.seen = e.index + 1
                      /\ d.ok <=> c.ok /\ c.seen = e.index
               /\ e.event = "delta" =>
                      /\ d.open = c.open /\ d.seen = c.seen
                      /\ d.ok <=> c.ok /\ block \in c.open
               /\ e.event = "stop" =>
                      /\ d.open = c.open \ {block} /\ d.seen = c.seen
                      /\ d.ok <=> c.ok /\ block \in c.open
               /\ e.event = "end" =>
                      /\ d.open = c.open /\ d.seen = c.seen
                      /\ d.ok <=> c.ok /\ c.open = {}
               /\ e.event = "error" => d = c
               /\ e.event = "end" => d.ended
               /\ e.event # "end" => d.ended = c.ended
<1>. DEFINE block == <<e.index, e.kind>>
            d == Applies(c, e)
<1>1. c.ok \in BOOLEAN /\ c.ended \in BOOLEAN /\ e.event \in {"start", "delta", "stop", "end", "error"}
  BY DEF Clients, BlockEvents
<1>2. CASE e.event = "start"
  <2>1. d = [open |-> c.open \union {block}, seen |-> e.index + 1,
             ok |-> c.ok /\ c.seen = e.index, ended |-> c.ended]
    BY <1>2, AppliesIs
  <2>. HIDE DEF d, block
  <2>2. d.open = c.open \union {block} /\ d.seen = e.index + 1
    BY <2>1
  <2>3. d.ok = (c.ok /\ c.seen = e.index) /\ d.ended = c.ended
    BY <2>1
  <2>. QED BY <1>2, <2>2, <2>3 DEF block, d
<1>3. CASE e.event = "delta"
  <2>1. d = [open |-> c.open, seen |-> c.seen,
             ok |-> c.ok /\ block \in c.open, ended |-> c.ended]
    BY <1>3, AppliesIs
  <2>. HIDE DEF d, block
  <2>2. d.open = c.open /\ d.seen = c.seen
    BY <2>1
  <2>3. d.ok = (c.ok /\ block \in c.open) /\ d.ended = c.ended
    BY <2>1
  <2>. QED BY <1>3, <2>2, <2>3 DEF block, d
<1>4. CASE e.event = "stop"
  <2>1. d = [open |-> c.open \ {block}, seen |-> c.seen,
             ok |-> c.ok /\ block \in c.open, ended |-> c.ended]
    BY <1>4, AppliesIs
  <2>. HIDE DEF d, block
  <2>2. d.open = c.open \ {block} /\ d.seen = c.seen
    BY <2>1
  <2>3. d.ok = (c.ok /\ block \in c.open) /\ d.ended = c.ended
    BY <2>1
  <2>. QED BY <1>4, <2>2, <2>3 DEF block, d
<1>5. CASE e.event = "end"
  <2>1. d = [open |-> c.open, seen |-> c.seen,
             ok |-> c.ok /\ c.open = {}, ended |-> TRUE]
    BY <1>5, AppliesIs
  <2>. HIDE DEF d, block
  <2>2. d.open = c.open /\ d.seen = c.seen
    BY <2>1
  <2>3. d.ok = (c.ok /\ c.open = {}) /\ d.ended = TRUE
    BY <2>1
  <2>. QED BY <1>5, <2>2, <2>3 DEF block, d
<1>6. CASE e.event = "error"
  BY <1>6, AppliesIs
<1>. QED  BY <1>1, <1>2, <1>3, <1>4, <1>5, <1>6

\* A client told that a block is opened.
LEMMA StartGives ==
    ASSUME NEW c \in Clients, NEW e \in BlockEvents, e.event = "start"
    PROVE  /\ Applies(c, e).open = c.open \union {<<e.index, e.kind>>}
           /\ Applies(c, e).seen = e.index + 1
           /\ Applies(c, e).ok <=> c.ok /\ c.seen = e.index
BY AppliesGives, ZenonT(60)

\* A client told of more of a block.
LEMMA DeltaGives ==
    ASSUME NEW c \in Clients, NEW e \in BlockEvents, e.event = "delta"
    PROVE  /\ Applies(c, e).open = c.open
           /\ Applies(c, e).seen = c.seen
           /\ Applies(c, e).ok <=> c.ok /\ <<e.index, e.kind>> \in c.open
BY AppliesGives

\* A client told that a block is closed.
LEMMA StopGives ==
    ASSUME NEW c \in Clients, NEW e \in BlockEvents, e.event = "stop"
    PROVE  /\ Applies(c, e).open = c.open \ {<<e.index, e.kind>>}
           /\ Applies(c, e).seen = c.seen
           /\ Applies(c, e).ok <=> c.ok /\ <<e.index, e.kind>> \in c.open
BY AppliesGives

\* The client, one event after the other.
Hears(n, events, c) ==
    /\ c \in [0..n -> Clients]
    /\ c[0] = NewClient
    /\ \A i \in 1..n : c[i] = Applies(c[i - 1], events[i])

\* The client after each of its events, as one function.
LEMMA ClientIsThere ==
    ASSUME NEW events \in Seq(BlockEvents)
    PROVE  \E c : Hears(Len(events), events, c) /\ ClientOf(events) = c[Len(events)]
<1>. DEFINE n == Len(events)
            G(g) == [s \in SUBSET (1..n) |-> IF s = {} THEN NewClient
                                             ELSE Applies(g[s \ {Max(s)}], events[Max(s)])]
            fold == CHOOSE g : g = G(g)
            step == [i \in 1..n |-> [x \in Clients |-> Applies(x, events[i])]]
<1>0. n \in Nat /\ DOMAIN events = 1..n /\ \A i \in 1..n : events[i] \in BlockEvents
  OBVIOUS
<1>4. ClientOf(events) = fold[1..n]
  BY <1>0 DEF ClientOf, FoldLeft, MapThenFoldSet, NewClient
<1>. HIDE DEF n
<1>3. NewClient \in Clients
  BY DEF Clients, NewClient
<1>1. \E g : g = G(g)
  <2>1. step \in [1..n -> [Clients -> Clients]]
    BY <1>0, AppliesType
  <2>. HIDE DEF step
  <2>2. PICK g \in [SUBSET (1..n) -> Clients] : Folds(n, NewClient, step, g)
    BY <1>0, <1>3, <2>1, FoldIsThere
  <2>3. ASSUME NEW s \in SUBSET (1..n), s # {}
        PROVE  step[Max(s)][g[s \ {Max(s)}]] = Applies(g[s \ {Max(s)}], events[Max(s)])
    <3>1. Max(s) \in 1..n
      BY <1>0, <2>3, Largest
    <3>. QED  BY <3>1 DEF step
  <2>4. g = G(g)
    BY <2>2, <2>3 DEF Folds
  <2>. QED  BY <2>4
<1>2. fold = G(fold)
  <2>. HIDE DEF G
  <2>. QED  BY <1>1
<1>. HIDE DEF fold
<1>. DEFINE c == [i \in 0..n |-> fold[1..i]]
<1>5. c[0] = NewClient
  BY <1>0, <1>2
<1>6. ASSUME NEW i \in 1..n PROVE c[i] = Applies(c[i - 1], events[i])
  <2>1. fold[1..i] = Applies(fold[(1..i) \ {Max(1..i)}], events[Max(1..i)])
    BY <1>0, <1>2, FirstPositions
  <2>2. fold[1..i] = Applies(fold[1..(i - 1)], events[i])
    BY <1>0, <2>1, FirstPositions
  <2>3. c[i] = fold[1..i] /\ c[i - 1] = fold[1..(i - 1)]
    BY <1>0
  <2>. QED  BY <2>2, <2>3
<1>7. c \in [0..n -> Clients]
  <2>. DEFINE P == {i \in Nat : i \in 0..n => c[i] \in Clients}
  <2>. SUFFICES ASSUME NEW m \in 0..n PROVE c[m] \in Clients
    OBVIOUS
  <2>. HIDE DEF c
  <2>1. 0 \in P /\ \A i \in 1..m : i - 1 \in P => i \in P
    BY <1>0, <1>3, <1>5, <1>6, AppliesType
  <2>2. m \in P
    <3>. HIDE DEF P
    <3>1. m \in Nat
      BY <1>0
    <3>. QED  BY <2>1, <3>1, UpTo
  <2>. QED  BY <2>2 DEF P
<1>8. c[n] = fold[1..n]
  BY <1>0
<1>. HIDE DEF c
<1>9. Hears(n, events, c)
  BY <1>5, <1>6, <1>7 DEF Hears
<1>. QED  BY <1>4, <1>8, <1>9 DEF n

\* The client after one event more.
LEMMA ClientHears ==
    ASSUME NEW events \in Seq(BlockEvents), NEW e \in BlockEvents
    PROVE  /\ ClientOf(events) \in Clients
           /\ ClientOf(Append(events, e)) = Applies(ClientOf(events), e)
<1>. DEFINE n == Len(events)
            more == Append(events, e)
<1>1. /\ n \in Nat /\ more \in Seq(BlockEvents) /\ Len(more) = n + 1 /\ more[n + 1] = e
      /\ \A i \in 1..n : more[i] = events[i]
  OBVIOUS
<1>. HIDE DEF more
<1>2. PICK c : Hears(n, events, c) /\ ClientOf(events) = c[n]
  BY ClientIsThere
<1>3. PICK d : Hears(n + 1, more, d) /\ ClientOf(more) = d[n + 1]
  BY <1>1, ClientIsThere
<1>. HIDE DEF n
<1>4. c[n] = d[n]
  <2>. DEFINE P == {i \in Nat : i <= n => c[i] = d[i]}
  <2>1. 0 \in P
    BY <1>1, <1>2, <1>3 DEF Hears
  <2>2. ASSUME NEW i \in 1..n, i - 1 \in P PROVE i \in P
    <3>1. c[i - 1] = d[i - 1] /\ i \in 1..(n + 1) /\ more[i] = events[i]
      BY <1>1, <2>2
    <3>2. c[i] = Applies(c[i - 1], events[i]) /\ d[i] = Applies(d[i - 1], more[i])
      BY <1>2, <1>3, <3>1 DEF Hears
    <3>3. c[i] = d[i]
      <4>. HIDE DEF P
      <4>. QED  BY <3>1, <3>2
    <3>. QED  BY <3>3
  <2>3. n \in P
    <3>. HIDE DEF P
    <3>. QED  BY <1>1, <2>1, <2>2, UpTo
  <2>. QED  BY <1>1, <2>3
<1>5. n + 1 \in 1..(n + 1) /\ (n + 1) - 1 = n /\ n \in 0..n
  BY <1>1
<1>6. d[n + 1] = Applies(d[n], e)
  BY <1>1, <1>3, <1>5 DEF Hears
<1>7. c[n] \in Clients
  BY <1>2, <1>5 DEF Hears
<1>. QED  BY <1>2, <1>3, <1>4, <1>6, <1>7 DEF more

\* The client before its first event.
LEMMA ClientAtFirst ==
    ClientOf(<<>>) = NewClient /\ ClientOf(<<>>) \in Clients
<1>1. <<>> \in Seq(BlockEvents) /\ Len(<<>>) = 0
  OBVIOUS
<1>2. PICK c : Hears(0, <<>>, c) /\ ClientOf(<<>>) = c[0]
  BY <1>1, ClientIsThere
<1>. QED  BY <1>2 DEF Hears

\* What an event says in text.
Said(e) == IF e.event = "delta" /\ e.kind = "text" THEN e.body ELSE <<>>

\* The text the client has after one event more.
LEMMA TextAppends ==
    ASSUME NEW events \in Seq(BlockEvents), NEW e \in BlockEvents
    PROVE  /\ TextOf(events) \in Texts
           /\ TextOf(Append(events, e)) = TextOf(events) \o Said(e)
<1>. DEFINE n == Len(events)
            s == [i \in 1..n |-> Said(events[i])]
            t == [i \in 1..(n + 1) |-> Said(Append(events, e)[i])]
<1>1. /\ n \in Nat /\ Len(Append(events, e)) = n + 1
      /\ DOMAIN events = 1..n /\ DOMAIN Append(events, e) = 1..(n + 1)
      /\ \A i \in 1..n : events[i] \in BlockEvents /\ Append(events, e)[i] = events[i]
      /\ Append(events, e)[n + 1] = e
  OBVIOUS
<1>0. ASSUME NEW x \in BlockEvents PROVE Said(x) \in Seq(Symbols)
  BY DEF Said, BlockEvents
<1>2. s \in [1..n -> Seq(Symbols)]
  BY <1>0, <1>1
<1>3. t \in [1..(n + 1) -> Seq(Symbols)] /\ t[n + 1] = Said(e)
  <2>1. ASSUME NEW i \in 1..(n + 1) PROVE Append(events, e)[i] \in BlockEvents
    <3>1. i \in 1..n \/ i = n + 1
      BY <1>1
    <3>. QED  BY <1>1, <3>1
  <2>. QED  BY <1>0, <1>1, <2>1
<1>4. \A i \in 1..n : s[i] = t[i]
  BY <1>1
<1>5. TextOf(events) = FlattenSeq(s) /\ TextOf(Append(events, e)) = FlattenSeq(t)
  BY <1>1 DEF TextOf, Said
<1>. HIDE DEF s, t, n
<1>. QED  BY <1>1, <1>2, <1>3, <1>4, <1>5, FlattenAppends, ZenonT(60) DEF Texts

-----------------------------------------------------------------------------
(* A reply: the dict and its blocks                                            *)

SameBlocks(t, s) == t.index = s.index /\ t.thinking = s.thinking /\ t.text = s.text /\ t.calls = s.calls
SameText(t, s) == t.emitted = s.emitted /\ t.decision = s.decision /\ t.buf = s.buf
SameThought(t, s) == t.carry = s.carry /\ t.thought = s.thought /\ t.reasons = s.reasons

\* The fields of the dict.
LEMMA DictIs ==
    ASSUME NEW s \in Dicts
    PROVE  /\ s.index \in Nat /\ s.thinking \in BOOLEAN /\ s.text \in BOOLEAN
           /\ s.emitted \in BOOLEAN /\ s.decision \in {"none", "text", "buffer"}
           /\ s.buf \in Texts /\ s.carry \in Texts /\ s.thought \in BOOLEAN
           /\ s.calls \in Seq(CallBlocks) /\ s.reasons \in Nat /\ s.out \in Seq(BlockEvents)
BY DEF Dicts, Texts

\* Telling an event leaves the rest of the dict alone.
LEMMA TellsIs ==
    ASSUME NEW s \in Dicts, NEW w \in Seq(BlockEvents), NEW event, NEW index, NEW kind, NEW body,
           [event |-> event, index |-> index, kind |-> kind, body |-> body] \in BlockEvents
    PROVE  LET t == Tells(s, event, index, kind, body)
               e == [event |-> event, index |-> index, kind |-> kind, body |-> body]
           IN  /\ t \in Dicts
               /\ SameBlocks(t, s) /\ SameText(t, s) /\ SameThought(t, s)
               /\ Told(w, s) \in Seq(BlockEvents)
               /\ Told(w, t) = Append(Told(w, s), e)
<1>. DEFINE e == [event |-> event, index |-> index, kind |-> kind, body |-> body]
            t == [s EXCEPT !.out = Append(s.out, e)]
<1>1. t = Tells(s, event, index, kind, body)
  BY DEF Tells
<1>2. s.out \in Seq(BlockEvents) /\ e \in BlockEvents
  BY DictIs
<1>. HIDE DEF e
<1>3. Append(s.out, e) \in Seq(BlockEvents)
  BY <1>2
<1>4. t \in Dicts
  BY <1>3 DEF Dicts
<1>5. SameBlocks(t, s) /\ SameText(t, s) /\ SameThought(t, s) /\ t.out = Append(s.out, e)
  BY DEF Dicts, SameBlocks, SameText, SameThought
<1>. HIDE DEF t
<1>6. Told(w, s) \in Seq(BlockEvents) /\ Told(w, t) = Append(Told(w, s), e)
  BY <1>2, <1>5 DEF Told
<1>. QED  BY <1>1, <1>4, <1>5, <1>6 DEF e

-----------------------------------------------------------------------------
(* What an event more means for what was said before. *)

\* Where the events are after one event more.
LEMMA EventAppends ==
    ASSUME NEW events \in Seq(BlockEvents), NEW e \in BlockEvents
    PROVE  LET more == Append(events, e)
           IN  /\ more \in Seq(BlockEvents) /\ Len(more) = Len(events) + 1 /\ Len(events) \in Nat
               /\ DOMAIN events = 1..Len(events) /\ DOMAIN more = 1..(Len(events) + 1)
               /\ \A i \in 1..Len(events) : more[i] = events[i]
               /\ more[Len(events) + 1] = e
OBVIOUS

\* A relapse stays one.
LEMMA RelapseStays ==
    ASSUME NEW events \in Seq(BlockEvents), NEW e \in BlockEvents, RelapsedIn(events)
    PROVE  RelapsedIn(Append(events, e))
<1>. DEFINE n == Len(events)
            more == Append(events, e)
<1>1. /\ n \in Nat /\ DOMAIN events = 1..n /\ DOMAIN more = 1..(n + 1)
      /\ \A i \in 1..n : more[i] = events[i]
  BY EventAppends
<1>. HIDE DEF n, more
<1>2. PICK i, j \in 1..n :
        /\ i < j
        /\ events[i].event = "start" /\ events[i].kind = "text"
        /\ events[j].event = "start" /\ events[j].kind = "thinking"
        /\ \A k \in (i + 1)..(j - 1) : events[k].event = "delta"
  BY <1>1 DEF RelapsedIn
<1>3. i \in 1..(n + 1) /\ j \in 1..(n + 1) /\ \A k \in (i + 1)..(j - 1) : k \in 1..n
  BY <1>1
<1>4. RelapsedIn(more)
  BY <1>1, <1>2, <1>3, SMTT(30) DEF RelapsedIn
<1>. QED  BY <1>4 DEF more

\* A thinking block opened while text is open is a relapse.
LEMMA RelapsesNow ==
    ASSUME NEW events \in Seq(BlockEvents), NEW e \in BlockEvents, TextIsLast(events),
           e.event = "start", e.kind = "thinking"
    PROVE  RelapsedIn(Append(events, e))
<1>. DEFINE n == Len(events)
            more == Append(events, e)
<1>1. /\ n \in Nat /\ DOMAIN events = 1..n /\ DOMAIN more = 1..(n + 1)
      /\ \A i \in 1..n : more[i] = events[i]
      /\ more[n + 1] = e
  BY EventAppends
<1>2. PICK i \in 1..n :
        /\ events[i].event = "start" /\ events[i].kind = "text"
        /\ \A k \in (i + 1)..n : events[k].event = "delta"
  BY <1>1 DEF TextIsLast
<1>. HIDE DEF n, more
<1>3. i \in 1..(n + 1) /\ n + 1 \in 1..(n + 1) /\ i < n + 1 /\ (n + 1) - 1 = n
      /\ \A k \in (i + 1)..n : k \in 1..n
  BY <1>1
<1>4. RelapsedIn(more)
  BY <1>1, <1>2, <1>3 DEF RelapsedIn
<1>. QED  BY <1>4 DEF more

\* The text block is the last one opened, until another is.
LEMMA TextStaysLast ==
    ASSUME NEW events \in Seq(BlockEvents), NEW e \in BlockEvents
    PROVE  /\ e.event = "start" /\ e.kind = "text" => TextIsLast(Append(events, e))
           /\ TextIsLast(events) /\ e.event = "delta" => TextIsLast(Append(events, e))
<1>. DEFINE n == Len(events)
            more == Append(events, e)
<1>1. /\ n \in Nat /\ DOMAIN events = 1..n /\ DOMAIN more = 1..(n + 1) /\ Len(more) = n + 1
      /\ \A i \in 1..n : more[i] = events[i]
      /\ more[n + 1] = e
  BY EventAppends
<1>2. ASSUME e.event = "start", e.kind = "text" PROVE TextIsLast(more)
  <2>. HIDE DEF n, more
  <2>1. n + 1 \in 1..(n + 1) /\ \A k \in ((n + 1) + 1)..(n + 1) : FALSE
    BY <1>1
  <2>. QED  BY <1>1, <1>2, <2>1 DEF TextIsLast
<1>3. ASSUME TextIsLast(events), e.event = "delta" PROVE TextIsLast(more)
  <2>1. PICK i \in 1..n :
          /\ events[i].event = "start" /\ events[i].kind = "text"
          /\ \A k \in (i + 1)..n : events[k].event = "delta"
    BY <1>1, <1>3 DEF TextIsLast
  <2>. HIDE DEF n, more
  <2>2. ASSUME NEW k \in (i + 1)..(n + 1) PROVE more[k].event = "delta"
    <3>1. k = n + 1 \/ (k \in (i + 1)..n /\ k \in 1..n)
      BY <1>1
    <3>. QED  BY <1>1, <1>3, <2>1, <3>1
  <2>3. i \in 1..(n + 1)
    BY <1>1
  <2>. QED  BY <1>1, <2>1, <2>2, <2>3 DEF TextIsLast
<1>. QED  BY <1>2, <1>3

\* Whether a call in the text was shown, after one event more.
LEMMA CallAppends ==
    ASSUME NEW events \in Seq(BlockEvents), NEW e \in BlockEvents
    PROVE  CallIn(Append(events, e)) <=> CallIn(events) \/ (e.kind = "tool" /\ e.body = <<"j">>)
<1>. DEFINE n == Len(events)
            more == Append(events, e)
<1>1. /\ n \in Nat /\ DOMAIN events = 1..n /\ DOMAIN more = 1..(n + 1)
      /\ \A i \in 1..n : more[i] = events[i]
      /\ more[n + 1] = e
  BY EventAppends
<1>. HIDE DEF n, more
<1>2. n + 1 \in 1..(n + 1) /\ \A i \in 1..(n + 1) : i \in 1..n \/ i = n + 1
  BY <1>1
<1>3. CallIn(more) <=> CallIn(events) \/ (e.kind = "tool" /\ e.body = <<"j">>)
  BY <1>1, <1>2 DEF CallIn
<1>. QED  BY <1>3 DEF more

-----------------------------------------------------------------------------
(* What an event more means for the blocks. *)

Event(event, index, kind, body) == [event |-> event, index |-> index, kind |-> kind, body |-> body]

\* An event has the fields it is given.
LEMMA EventIs ==
    ASSUME NEW event \in {"start", "delta", "stop", "end", "error"}, NEW index \in Nat,
           NEW kind \in BlockKinds, NEW body \in Texts
    PROVE  LET e == Event(event, index, kind, body)
           IN  /\ e \in BlockEvents
               /\ e.event = event /\ e.index = index /\ e.kind = kind /\ e.body = body
BY DEF Event, BlockEvents, Texts

\* A dict with these blocks.
Blocks(s, index, thinking, text, calls) ==
    /\ s \in Dicts
    /\ s.index = index /\ s.thinking = thinking /\ s.text = text /\ s.calls = calls

\* It is enough to look at a client that could follow so far.
LEMMA ApartAfter ==
    ASSUME NEW events \in Seq(BlockEvents), NEW e \in BlockEvents, NEW s, NEW t,
           Apart(events, s), e.event # "end",
           ~RelapsedIn(events) =>
               \/ RelapsedIn(Append(events, e))
               \/ /\ InStep(Applies(ClientOf(events), e), t)
                  /\ t.text => TextIsLast(Append(events, e))
    PROVE  Apart(Append(events, e), t)
<1>. DEFINE c == ClientOf(events)
            d == ClientOf(Append(events, e))
<1>1. c \in Clients /\ d = Applies(c, e)
  BY ClientHears
<1>2. ~c.ended
  BY DEF Apart
<1>3. ~d.ended
  <2>1. e.event \in {"start", "delta", "stop", "error"}
    BY DEF BlockEvents
  <2>. HIDE DEF c, d
  <2>. QED  BY <1>1, <1>2, <2>1, AppliesGives
<1>4. RelapsedIn(events) => RelapsedIn(Append(events, e))
  BY RelapseStays
<1>. QED  BY <1>1, <1>3, <1>4, Zenon DEF Apart

\* A client in step with the dict, field by field.
LEMMA InStepIs ==
    ASSUME NEW c \in Clients, NEW s \in Dicts
    PROVE  /\ InStep(c, s) <=>
                  /\ c.ok
                  /\ ~(s.thinking /\ s.text)
                  /\ c.seen = s.index + (IF s.thinking \/ s.text THEN 1 ELSE 0)
                  /\ c.open = OpenBlocks(s)
                  /\ \A k \in 1..Len(s.calls) : s.calls[k].index < s.index
                  /\ \A j, k \in 1..Len(s.calls) : s.calls[j].index = s.calls[k].index => j = k
           /\ \A i : <<i, "thinking">> \notin ToolBlocks(s.calls) /\ <<i, "text">> \notin ToolBlocks(s.calls)
           /\ \A i : <<i, "tool">> \in ToolBlocks(s.calls) <=> \E k \in 1..Len(s.calls) : s.calls[k].index = i
<1>1. DOMAIN s.calls = 1..Len(s.calls)
  BY DictIs
<1>2. InStep(c, s) <=>
        /\ c.ok
        /\ ~(s.thinking /\ s.text)
        /\ c.seen = s.index + (IF s.thinking \/ s.text THEN 1 ELSE 0)
        /\ c.open = OpenBlocks(s)
        /\ \A k \in 1..Len(s.calls) : s.calls[k].index < s.index
        /\ \A j, k \in 1..Len(s.calls) : s.calls[j].index = s.calls[k].index => j = k
  BY <1>1 DEF InStep
<1>. QED  BY <1>1, <1>2 DEF ToolBlocks

\* The structured calls of a dict.
LEMMA CallsAre ==
    ASSUME NEW s \in Dicts
    PROVE  /\ Len(s.calls) \in Nat
           /\ \A k \in 1..Len(s.calls) : s.calls[k].index \in Nat /\ s.calls[k].call \in Nat
<1>1. s.calls \in Seq(CallBlocks)
  BY DictIs
<1>2. \A k \in 1..Len(s.calls) : s.calls[k] \in CallBlocks
  BY <1>1
<1>. QED  BY <1>1, <1>2 DEF CallBlocks

\* A client in step stays so when the thinking block is opened,
LEMMA ThinkingOpens ==
    ASSUME NEW c \in Clients, NEW s \in Dicts, InStep(c, s), ~s.thinking, ~s.text,
           NEW e \in BlockEvents, e.event = "start", e.index = s.index, e.kind = "thinking",
           NEW t, Blocks(t, s.index, TRUE, FALSE, s.calls)
    PROVE  InStep(Applies(c, e), t)
<1>. DEFINE d == Applies(c, e)
<1>1. d \in Clients /\ t \in Dicts /\ s.index \in Nat
  BY AppliesType, DictIs DEF Blocks
<1>2. /\ d.open = c.open \union {<<s.index, "thinking">>} /\ d.seen = s.index + 1
      /\ d.ok <=> c.ok /\ c.seen = s.index
  BY StartGives
<1>. HIDE DEF d
<1>3. /\ t.index = s.index /\ t.thinking = TRUE /\ t.text = FALSE /\ t.calls = s.calls
  BY DEF Blocks
<1>4. d.open = OpenBlocks(t)
  BY <1>2, <1>3, InStepIs DEF OpenBlocks
<1>. QED  BY <1>1, <1>2, <1>3, <1>4, InStepIs DEF d

\* A delta of an open block.
LEMMA DeltaStays ==
    ASSUME NEW c \in Clients, NEW s \in Dicts, InStep(c, s),
           NEW e \in BlockEvents, e.event = "delta", <<e.index, e.kind>> \in OpenBlocks(s),
           NEW t \in Dicts, SameBlocks(t, s)
    PROVE  InStep(Applies(c, e), t)
<1>. DEFINE d == Applies(c, e)
<1>1. d \in Clients
  BY AppliesType
<1>2. /\ d.open = c.open /\ d.seen = c.seen
      /\ d.ok <=> c.ok /\ <<e.index, e.kind>> \in c.open
  BY DeltaGives
<1>. HIDE DEF d
<1>3. c.open = OpenBlocks(s) /\ OpenBlocks(t) = OpenBlocks(s)
  BY InStepIs DEF OpenBlocks, SameBlocks
<1>. QED  BY <1>1, <1>2, <1>3, InStepIs DEF d, SameBlocks

\* when it is closed,
LEMMA ThinkingCloses ==
    ASSUME NEW c \in Clients, NEW s \in Dicts, InStep(c, s), s.thinking,
           NEW e \in BlockEvents, e.event = "stop", e.index = s.index, e.kind = "thinking",
           NEW t, Blocks(t, s.index + 1, FALSE, s.text, s.calls)
    PROVE  InStep(Applies(c, e), t) /\ ~s.text
<1>. DEFINE d == Applies(c, e)
<1>1. d \in Clients /\ t \in Dicts /\ s.index \in Nat /\ s.calls \in Seq(CallBlocks)
  BY AppliesType, DictIs DEF Blocks
<1>2. /\ d.open = c.open \ {<<s.index, "thinking">>} /\ d.seen = c.seen
      /\ d.ok <=> c.ok /\ <<s.index, "thinking">> \in c.open
  BY StopGives
<1>. HIDE DEF d
<1>3. /\ t.index = s.index + 1 /\ t.thinking = FALSE /\ t.text = s.text /\ t.calls = s.calls
      /\ ~s.text
  BY InStepIs DEF Blocks
<1>4. c.open = ToolBlocks(s.calls) \union {<<s.index, "thinking">>}
  BY <1>3, InStepIs DEF OpenBlocks
<1>9. <<s.index, "thinking">> \notin ToolBlocks(s.calls)
  BY InStepIs
<1>5. d.open = OpenBlocks(t)
  BY <1>2, <1>3, <1>4, <1>9 DEF OpenBlocks
<1>6. \A k \in 1..Len(s.calls) : s.calls[k].index \in Nat
  BY CallsAre
<1>10. \A k \in 1..Len(s.calls) : s.calls[k].index < s.index
  BY InStepIs
<1>7. \A k \in 1..Len(s.calls) : s.calls[k].index < s.index + 1
  BY <1>1, <1>6, <1>10
<1>8. d.ok /\ d.seen = s.index + 1
  BY <1>2, <1>3, <1>4, InStepIs
<1>. QED  BY <1>1, <1>3, <1>5, <1>7, <1>8, InStepIs DEF d

\* when the text block is opened,
LEMMA TextOpens ==
    ASSUME NEW c \in Clients, NEW s \in Dicts, InStep(c, s), ~s.thinking, ~s.text,
           NEW e \in BlockEvents, e.event = "start", e.index = s.index, e.kind = "text",
           NEW t, Blocks(t, s.index, FALSE, TRUE, s.calls)
    PROVE  InStep(Applies(c, e), t)
<1>. DEFINE d == Applies(c, e)
<1>1. d \in Clients /\ t \in Dicts /\ s.index \in Nat
  BY AppliesType, DictIs DEF Blocks
<1>2. /\ d.open = c.open \union {<<s.index, "text">>} /\ d.seen = s.index + 1
      /\ d.ok <=> c.ok /\ c.seen = s.index
  BY StartGives
<1>. HIDE DEF d
<1>3. /\ t.index = s.index /\ t.thinking = FALSE /\ t.text = TRUE /\ t.calls = s.calls
  BY DEF Blocks
<1>4. d.open = OpenBlocks(t)
  BY <1>2, <1>3, InStepIs DEF OpenBlocks
<1>. QED  BY <1>1, <1>2, <1>3, <1>4, InStepIs, SMTT(30) DEF d

\* when it is closed,
LEMMA TextCloses ==
    ASSUME NEW c \in Clients, NEW s \in Dicts, InStep(c, s), s.text,
           NEW e \in BlockEvents, e.event = "stop", e.index = s.index, e.kind = "text",
           NEW t, Blocks(t, s.index + 1, FALSE, FALSE, s.calls)
    PROVE  InStep(Applies(c, e), t)
<1>. DEFINE d == Applies(c, e)
<1>1. d \in Clients /\ t \in Dicts /\ s.index \in Nat /\ s.calls \in Seq(CallBlocks)
  BY AppliesType, DictIs DEF Blocks
<1>2. /\ d.open = c.open \ {<<s.index, "text">>} /\ d.seen = c.seen
      /\ d.ok <=> c.ok /\ <<s.index, "text">> \in c.open
  BY StopGives
<1>. HIDE DEF d
<1>3. /\ t.index = s.index + 1 /\ t.thinking = FALSE /\ t.text = FALSE /\ t.calls = s.calls
      /\ ~s.thinking
  BY InStepIs DEF Blocks
<1>4. c.open = ToolBlocks(s.calls) \union {<<s.index, "text">>}
  BY <1>3, InStepIs DEF OpenBlocks
<1>9. <<s.index, "text">> \notin ToolBlocks(s.calls)
  BY InStepIs
<1>5. d.open = OpenBlocks(t)
  BY <1>2, <1>3, <1>4, <1>9 DEF OpenBlocks
<1>6. \A k \in 1..Len(s.calls) : s.calls[k].index \in Nat
  BY CallsAre
<1>10. \A k \in 1..Len(s.calls) : s.calls[k].index < s.index
  BY InStepIs
<1>7. \A k \in 1..Len(s.calls) : s.calls[k].index < s.index + 1
  BY <1>1, <1>6, <1>10
<1>8. d.ok /\ d.seen = s.index + 1
  BY <1>2, <1>3, <1>4, InStepIs
<1>. QED  BY <1>1, <1>3, <1>5, <1>7, <1>8, InStepIs, SMTT(30) DEF d

\* and when the block of a structured call is opened.
LEMMA ToolOpens ==
    ASSUME NEW c \in Clients, NEW s \in Dicts, InStep(c, s), ~s.thinking, ~s.text, NEW i \in Nat,
           NEW e \in BlockEvents, e.event = "start", e.index = s.index, e.kind = "tool",
           NEW t, Blocks(t, s.index + 1, FALSE, FALSE, Append(s.calls, [call |-> i, index |-> s.index]))
    PROVE  InStep(Applies(c, e), t)
<1>. DEFINE d == Applies(c, e)
            n == Len(s.calls)
            call == [call |-> i, index |-> s.index]
<1>1. d \in Clients /\ t \in Dicts /\ s.index \in Nat /\ s.calls \in Seq(CallBlocks) /\ n \in Nat
  BY AppliesType, DictIs DEF Blocks
<1>2. /\ d.open = c.open \union {<<s.index, "tool">>} /\ d.seen = s.index + 1
      /\ d.ok <=> c.ok /\ c.seen = s.index
  BY StartGives
<1>. HIDE DEF d
<1>3. /\ t.index = s.index + 1 /\ t.thinking = FALSE /\ t.text = FALSE /\ t.calls = Append(s.calls, call)
  BY DEF Blocks
<1>4. /\ Len(t.calls) = n + 1 /\ t.calls[n + 1].index = s.index
      /\ \A k \in 1..n : t.calls[k] = s.calls[k]
      /\ DOMAIN t.calls = 1..(n + 1) /\ DOMAIN s.calls = 1..n
  <2>1. call \in CallBlocks /\ call.index = s.index
    BY <1>1 DEF CallBlocks
  <2>. HIDE DEF call
  <2>. QED  BY <1>1, <1>3, <2>1
<1>. HIDE DEF n
<1>5. n + 1 \in 1..(n + 1) /\ \A k \in 1..(n + 1) : k \in 1..n \/ k = n + 1
  BY <1>1
<1>6. ToolBlocks(t.calls) = ToolBlocks(s.calls) \union {<<s.index, "tool">>}
  <2>1. \A k \in 1..n : k \in 1..(n + 1)
    BY <1>1
  <2>2. ASSUME NEW b PROVE b \in ToolBlocks(t.calls) <=> b \in ToolBlocks(s.calls) \union {<<s.index, "tool">>}
    BY <1>4, <1>5, <2>1 DEF ToolBlocks
  <2>. QED  BY <2>2
<1>7. d.open = OpenBlocks(t)
  BY <1>2, <1>3, <1>6, InStepIs DEF OpenBlocks
<1>8. \A k \in 1..n : s.calls[k].index \in Nat /\ s.calls[k].index < s.index
  <2>1. \A k \in 1..Len(s.calls) : s.calls[k].index \in Nat
    BY CallsAre
  <2>2. \A k \in 1..Len(s.calls) : s.calls[k].index < s.index
    BY InStepIs
  <2>. QED  BY <2>1, <2>2 DEF n
<1>9. ASSUME NEW k \in 1..(n + 1) PROVE t.calls[k].index < s.index + 1
  <2>1. CASE k = n + 1
    BY <1>1, <1>4, <2>1
  <2>2. CASE k \in 1..n
    <3>1. t.calls[k].index \in Nat /\ t.calls[k].index < s.index
      BY <1>4, <1>8, <2>2
    <3>. QED  BY <1>1, <3>1
  <2>. QED  BY <1>5, <2>1, <2>2
<1>10. ASSUME NEW j \in 1..(n + 1), NEW k \in 1..(n + 1), t.calls[j].index = t.calls[k].index PROVE j = k
  <2>1. \A m \in 1..n : t.calls[m].index # s.index
    BY <1>1, <1>4, <1>8, SMTT(30)
  <2>3. \A x, y \in 1..n : s.calls[x].index = s.calls[y].index => x = y
    BY InStepIs DEF n
  <2>2. \A x, y \in 1..n : t.calls[x].index = t.calls[y].index => x = y
    BY <1>4, <2>3
  <2>. QED  BY <1>4, <1>5, <1>10, <2>1, <2>2
<1>11. d.ok /\ d.seen = s.index + 1
  BY <1>1, <1>2, InStepIs
<1>12. Len(t.calls) = n + 1 /\ ~(t.thinking \/ t.text) /\ t.index = s.index + 1
  BY <1>3, <1>4
<1>13. /\ \A k \in 1..Len(t.calls) : t.calls[k].index < t.index
       /\ \A j, k \in 1..Len(t.calls) : t.calls[j].index = t.calls[k].index => j = k
  BY <1>9, <1>10, <1>12
<1>14. d.seen = t.index + (IF t.thinking \/ t.text THEN 1 ELSE 0) /\ ~(t.thinking /\ t.text)
  BY <1>1, <1>11, <1>12
<1>. QED  BY <1>1, <1>7, <1>11, <1>13, <1>14, InStepIs DEF d

-----------------------------------------------------------------------------
(* A reply: telling                                                            *)

\* The client is told a text, and of no call that was written as text.
Adds(w, t, s, body) ==
    /\ TextOf(Told(w, t)) = TextOf(Told(w, s)) \o body
    /\ CallIn(Told(w, t)) <=> CallIn(Told(w, s))

\* What has been told is a sequence of events, with a text and a client.
LEMMA ToldIs ==
    ASSUME NEW w \in Seq(BlockEvents), NEW s \in Dicts
    PROVE  /\ Told(w, s) \in Seq(BlockEvents) /\ TextOf(Told(w, s)) \in Texts
           /\ ClientOf(Told(w, s)) \in Clients
<1>1. s.out \in Seq(BlockEvents)
  BY DictIs
<1>2. Told(w, s) \in Seq(BlockEvents)
  BY <1>1 DEF Told
<1>3. Event("end", 0, "message", <<>>) \in BlockEvents
  <2>1. "message" \in BlockKinds /\ <<>> \in Texts /\ 0 \in Nat
    BY DEF BlockKinds, Texts
  <2>. QED  BY <2>1, EventIs
<1>. QED  BY <1>2, <1>3, TextAppends, ClientHears

\* No step adds nothing.
LEMMA AddsNothing ==
    ASSUME NEW w \in Seq(BlockEvents), NEW s \in Dicts
    PROVE  Adds(w, s, s, <<>>)
BY ToldIs, ConcatEmptySeq DEF Adds, Texts

\* What two steps add, one after the other.
LEMMA AddsTwice ==
    ASSUME NEW w \in Seq(BlockEvents), NEW s \in Dicts, NEW t, NEW u, NEW a \in Texts, NEW b \in Texts,
           Adds(w, t, s, a), Adds(w, u, t, b)
    PROVE  Adds(w, u, s, a \o b)
<1>1. TextOf(Told(w, s)) \in Texts
  BY ToldIs
<1>2. (TextOf(Told(w, s)) \o a) \o b = TextOf(Told(w, s)) \o (a \o b)
  BY <1>1, ConcatAssociative DEF Texts
<1>. QED  BY <1>2, Zenon DEF Adds

\* A step that adds no text, and one that does.
LEMMA AddsThen ==
    ASSUME NEW w \in Seq(BlockEvents), NEW s \in Dicts, NEW t, NEW u, NEW b \in Texts,
           Adds(w, t, s, <<>>), Adds(w, u, t, b)
    PROVE  Adds(w, u, s, b)
<1>1. <<>> \in Texts /\ <<>> \o b = b
  BY ConcatEmptySeq DEF Texts
<1>2. Adds(w, u, s, <<>> \o b)
  BY <1>1, AddsTwice
<1>. QED  BY <1>1, <1>2

\* r is the dict with its fields changed, e what is told then.
Tells1(w, s, r, t, e) ==
    /\ r \in Dicts /\ r.out = s.out
    /\ e \in BlockEvents
    /\ t = Tells(r, e.event, e.index, e.kind, e.body)

\* Telling one event adds what it says.
LEMMA Telling ==
    ASSUME NEW w \in Seq(BlockEvents), NEW s \in Dicts, NEW r, NEW t, NEW e, Tells1(w, s, r, t, e)
    PROVE  /\ t \in Dicts /\ SameBlocks(t, r) /\ SameText(t, r) /\ SameThought(t, r)
           /\ Told(w, t) = Append(Told(w, s), e)
           /\ ~(e.kind = "tool" /\ e.body = <<"j">>) => Adds(w, t, s, Said(e))
<1>1. r \in Dicts /\ r.out = s.out /\ e \in BlockEvents
  BY DEF Tells1
<1>2. e = [event |-> e.event, index |-> e.index, kind |-> e.kind, body |-> e.body]
  BY <1>1 DEF BlockEvents
<1>3. /\ t \in Dicts /\ SameBlocks(t, r) /\ SameText(t, r) /\ SameThought(t, r)
      /\ Told(w, t) = Append(Told(w, r), e)
  <2>1. t = Tells(r, e.event, e.index, e.kind, e.body)
    BY DEF Tells1
  <2>. QED  BY <1>1, <1>2, <2>1, TellsIs
<1>4. Told(w, r) = Told(w, s)
  BY <1>1 DEF Told
<1>5. Told(w, s) \in Seq(BlockEvents)
  BY ToldIs
<1>6. TextOf(Told(w, t)) = TextOf(Told(w, s)) \o Said(e)
      /\ (CallIn(Told(w, t)) <=> CallIn(Told(w, s)) \/ (e.kind = "tool" /\ e.body = <<"j">>))
  <2>. DEFINE E == Told(w, s)
  <2>1. E \in Seq(BlockEvents) /\ Told(w, t) = Append(E, e)
    BY <1>3, <1>4, <1>5
  <2>. HIDE DEF E
  <2>2. /\ TextOf(Append(E, e)) = TextOf(E) \o Said(e)
        /\ CallIn(Append(E, e)) <=> CallIn(E) \/ (e.kind = "tool" /\ e.body = <<"j">>)
    BY <1>1, <2>1, TextAppends, CallAppends
  <2>. QED  BY <2>1, <2>2, Zenon DEF E
<1>. QED  BY <1>3, <1>4, <1>6, Zenon DEF Adds

\* What the dict says of the blocks.
LEMMA BlocksIs ==
    ASSUME NEW r \in Dicts, NEW t \in Dicts, SameBlocks(t, r), NEW index, NEW thinking, NEW text, NEW calls
    PROVE  Blocks(r, index, thinking, text, calls) <=> Blocks(t, index, thinking, text, calls)
BY DEF Blocks, SameBlocks

Silent(w, t, s) == SameText(t, s) /\ SameThought(t, s) /\ Adds(w, t, s, <<>>)

\* Two steps that show nothing, one after the other.
LEMMA SilentTwice ==
    ASSUME NEW w \in Seq(BlockEvents), NEW s \in Dicts, NEW t, NEW u, Silent(w, t, s), Silent(w, u, t)
    PROVE  Silent(w, u, s)
<1>1. Adds(w, u, s, <<>>)
  <2>1. <<>> \in Texts /\ Adds(w, t, s, <<>>) /\ Adds(w, u, t, <<>>)
    BY DEF Silent, Texts
  <2>. QED  BY <2>1, AddsThen
<1>. QED  BY <1>1 DEF Silent, SameText, SameThought

-----------------------------------------------------------------------------
\* Opening the thinking block shows no text and keeps the blocks apart.
LEMMA OpensThinking ==
    ASSUME NEW w \in Seq(BlockEvents), NEW s \in Dicts, ~s.thinking
    PROVE  LET t == OpensBlock([s EXCEPT !.thinking = TRUE], "thinking")
           IN  /\ Blocks(t, s.index, TRUE, s.text, s.calls) /\ Silent(w, t, s)
               /\ Apart(Told(w, s), s) => Apart(Told(w, t), t)
<1>. DEFINE r == [s EXCEPT !.thinking = TRUE]
            t == OpensBlock(r, "thinking")
            e == Event("start", s.index, "thinking", <<>>)
<1>1. /\ e \in BlockEvents /\ e.event = "start" /\ e.index = s.index
      /\ e.kind = "thinking" /\ e.body = <<>>
  <2>1. s.index \in Nat /\ "thinking" \in BlockKinds /\ <<>> \in Texts
    BY DictIs DEF BlockKinds, Texts
  <2>. QED  BY <2>1, EventIs
<1>2. /\ r \in Dicts /\ r.out = s.out /\ r.index = s.index /\ r.thinking = TRUE
      /\ r.text = s.text /\ r.calls = s.calls /\ SameText(r, s) /\ SameThought(r, s)
  BY DEF Dicts, SameText, SameThought
<1>. HIDE DEF e, r
<1>3. Tells1(w, s, r, t, e)
  BY <1>1, <1>2 DEF Tells1, OpensBlock
<1>. HIDE DEF t
<1>4. /\ t \in Dicts /\ SameBlocks(t, r) /\ SameText(t, r) /\ SameThought(t, r)
      /\ Told(w, t) = Append(Told(w, s), e) /\ Adds(w, t, s, <<>>)
  <2>1. Said(e) = <<>>
    BY <1>1 DEF Said
  <2>2. ~(e.kind = "tool" /\ e.body = <<"j">>)
    BY <1>1
  <2>. QED  BY <1>3, <2>1, <2>2, Telling
<1>5. Blocks(t, s.index, TRUE, s.text, s.calls) /\ Silent(w, t, s)
  BY <1>2, <1>4 DEF Blocks, SameBlocks, Silent, SameText, SameThought
<1>6. ASSUME Apart(Told(w, s), s) PROVE Apart(Told(w, t), t)
  <2>. DEFINE E == Told(w, s)
  <2>1. E \in Seq(BlockEvents) /\ ClientOf(E) \in Clients
    BY ToldIs
  <2>2. t.text = s.text
    BY <1>5 DEF Blocks
  <2>. HIDE DEF E
  <2>3. ASSUME ~RelapsedIn(E), s.text PROVE RelapsedIn(Append(E, e))
    <3>1. TextIsLast(E)
      BY <1>6, <2>3 DEF Apart, E
    <3>. QED  BY <1>1, <2>1, <3>1, RelapsesNow
  <2>4. ASSUME ~RelapsedIn(E), ~s.text PROVE InStep(Applies(ClientOf(E), e), t)
    <3>1. InStep(ClientOf(E), s)
      BY <1>6, <2>4 DEF Apart, E
    <3>2. s.text = FALSE
      BY <2>4, DictIs
    <3>3. Blocks(t, s.index, TRUE, FALSE, s.calls)
      BY <1>5, <3>2
    <3>. QED  BY <1>1, <2>1, <2>4, <3>1, <3>3, ThinkingOpens
  <2>5. e.event # "end" /\ Apart(E, s)
    BY <1>1, <1>6 DEF E
  <2>6. Apart(Append(E, e), t)
    BY <1>1, <2>1, <2>2, <2>3, <2>4, <2>5, ApartAfter
  <2>. QED  BY <1>4, <2>6 DEF E
<1>. QED  BY <1>5, <1>6 DEF r, t

\* More of the thinking block shows no text and keeps the blocks apart.
LEMMA TellsThinking ==
    ASSUME NEW w \in Seq(BlockEvents), NEW s \in Dicts, s.thinking, NEW body \in Texts
    PROVE  LET t == Tells(s, "delta", s.index, "thinking", body)
           IN  /\ t \in Dicts /\ SameBlocks(t, s) /\ Silent(w, t, s)
               /\ Apart(Told(w, s), s) => Apart(Told(w, t), t)
<1>. DEFINE t == Tells(s, "delta", s.index, "thinking", body)
            e == Event("delta", s.index, "thinking", body)
<1>1. /\ e \in BlockEvents /\ e.event = "delta" /\ e.index = s.index
      /\ e.kind = "thinking" /\ e.body = body
  <2>1. s.index \in Nat /\ "thinking" \in BlockKinds
    BY DictIs DEF BlockKinds
  <2>. QED  BY <2>1, EventIs
<1>. HIDE DEF e
<1>3. Tells1(w, s, s, t, e)
  BY <1>1 DEF Tells1
<1>. HIDE DEF t
<1>4. /\ t \in Dicts /\ SameBlocks(t, s) /\ SameText(t, s) /\ SameThought(t, s)
      /\ Told(w, t) = Append(Told(w, s), e) /\ Adds(w, t, s, <<>>)
  <2>1. Said(e) = <<>>
    BY <1>1 DEF Said
  <2>2. ~(e.kind = "tool" /\ e.body = <<"j">>)
    BY <1>1
  <2>. QED  BY <1>3, <2>1, <2>2, Telling
<1>6. ASSUME Apart(Told(w, s), s) PROVE Apart(Told(w, t), t)
  <2>. DEFINE E == Told(w, s)
  <2>1. E \in Seq(BlockEvents) /\ ClientOf(E) \in Clients
    BY ToldIs
  <2>2. t.text = s.text
    BY <1>4 DEF SameBlocks
  <2>. HIDE DEF E
  <2>4. ASSUME ~RelapsedIn(E)
        PROVE  InStep(Applies(ClientOf(E), e), t) /\ (t.text => TextIsLast(Append(E, e)))
    <3>1. InStep(ClientOf(E), s) /\ (s.text => TextIsLast(E))
      BY <1>6, <2>4 DEF Apart, E
    <3>2. <<e.index, e.kind>> \in OpenBlocks(s)
      BY <1>1 DEF OpenBlocks
    <3>3. InStep(Applies(ClientOf(E), e), t)
      BY <1>1, <1>4, <2>1, <3>1, <3>2, DeltaStays
    <3>. QED  BY <1>1, <2>1, <2>2, <3>1, <3>3, TextStaysLast
  <2>5. e.event # "end" /\ Apart(E, s)
    BY <1>1, <1>6 DEF E
  <2>6. Apart(Append(E, e), t)
    BY <1>1, <2>1, <2>4, <2>5, ApartAfter
  <2>. QED  BY <1>4, <2>6 DEF E
<1>. QED  BY <1>4, <1>6 DEF t, Silent

\* _thinking_deltas, opened or not.
LEMMA ThinkingDeltaIs ==
    ASSUME NEW w \in Seq(BlockEvents), NEW s \in Dicts, NEW body \in Texts
    PROVE  LET t == ThinkingDelta(s, body)
           IN  /\ Blocks(t, s.index, TRUE, s.text, s.calls) /\ Silent(w, t, s)
               /\ Apart(Told(w, s), s) => Apart(Told(w, t), t)
<1>. DEFINE r == IF s.thinking THEN s ELSE OpensBlock([s EXCEPT !.thinking = TRUE], "thinking")
            t == Tells(r, "delta", r.index, "thinking", body)
<1>1. /\ Blocks(r, s.index, TRUE, s.text, s.calls) /\ Silent(w, r, s)
      /\ Apart(Told(w, s), s) => Apart(Told(w, r), r)
  <2>1. CASE s.thinking
    <3>1. r = s /\ s.thinking = TRUE
      BY <2>1, DictIs
    <3>2. Silent(w, s, s)
      BY AddsNothing DEF Silent, SameText, SameThought
    <3>. HIDE DEF r
    <3>. QED  BY <3>1, <3>2 DEF Blocks
  <2>2. CASE ~s.thinking
    <3>1. r = OpensBlock([s EXCEPT !.thinking = TRUE], "thinking")
      BY <2>2
    <3>. HIDE DEF r
    <3>. QED  BY <2>2, <3>1, OpensThinking
  <2>. QED  BY <2>1, <2>2
<1>2. ThinkingDelta(s, body) = t
  BY DEF ThinkingDelta
<1>. HIDE DEF r
<1>3. r \in Dicts /\ r.thinking
  BY <1>1 DEF Blocks
<1>4. /\ t \in Dicts /\ SameBlocks(t, r) /\ Silent(w, t, r)
      /\ Apart(Told(w, r), r) => Apart(Told(w, t), t)
  BY <1>3, TellsThinking
<1>. HIDE DEF t
<1>5. Silent(w, t, s)
  BY <1>1, <1>4, SilentTwice
<1>6. Blocks(t, s.index, TRUE, s.text, s.calls)
  BY <1>1, <1>3, <1>4, BlocksIs
<1>. QED  BY <1>1, <1>2, <1>4, <1>5, <1>6

\* _close_thinking_block, open or not.
LEMMA CloseThinkingIs ==
    ASSUME NEW w \in Seq(BlockEvents), NEW s \in Dicts
    PROVE  LET t == CloseThinking(s)
           IN  /\ t \in Dicts /\ t.thinking = FALSE /\ t.text = s.text /\ t.calls = s.calls
               /\ Silent(w, t, s)
               /\ Apart(Told(w, s), s) => Apart(Told(w, t), t)
<1>. DEFINE r == [s EXCEPT !.thinking = FALSE, !.index = s.index + 1]
            t == Tells(r, "stop", s.index, "thinking", <<>>)
            e == Event("stop", s.index, "thinking", <<>>)
<1>0. CASE ~s.thinking
  <2>1. CloseThinking(s) = s /\ s.thinking = FALSE
    BY <1>0, DictIs DEF CloseThinking
  <2>2. Silent(w, s, s)
    BY AddsNothing DEF Silent, SameText, SameThought
  <2>. QED  BY <2>1, <2>2
<1>a. CASE s.thinking
  <2>0. CloseThinking(s) = t
    BY <1>a DEF CloseThinking
  <2>1. /\ e \in BlockEvents /\ e.event = "stop" /\ e.index = s.index
        /\ e.kind = "thinking" /\ e.body = <<>>
    <3>1. s.index \in Nat /\ "thinking" \in BlockKinds /\ <<>> \in Texts
      BY DictIs DEF BlockKinds, Texts
    <3>. QED  BY <3>1, EventIs
  <2>2. /\ r \in Dicts /\ r.out = s.out /\ r.index = s.index + 1 /\ r.thinking = FALSE
        /\ r.text = s.text /\ r.calls = s.calls /\ SameText(r, s) /\ SameThought(r, s)
    <3>1. s.index + 1 \in Nat
      BY DictIs
    <3>. HIDE DEF t, e
    <3>. QED  BY <3>1 DEF Dicts, SameText, SameThought
  <2>. HIDE DEF e, r
  <2>3. Tells1(w, s, r, t, e)
    BY <2>1, <2>2 DEF Tells1
  <2>. HIDE DEF t
  <2>4. /\ t \in Dicts /\ SameBlocks(t, r) /\ SameText(t, r) /\ SameThought(t, r)
        /\ Told(w, t) = Append(Told(w, s), e) /\ Adds(w, t, s, <<>>)
    <3>1. Said(e) = <<>>
      BY <2>1 DEF Said
    <3>2. ~(e.kind = "tool" /\ e.body = <<"j">>)
      BY <2>1
    <3>. QED  BY <2>3, <3>1, <3>2, Telling
  <2>5. Blocks(t, s.index + 1, FALSE, s.text, s.calls) /\ Silent(w, t, s)
    BY <2>2, <2>4 DEF Blocks, SameBlocks, Silent, SameText, SameThought
  <2>6. ASSUME Apart(Told(w, s), s) PROVE Apart(Told(w, t), t)
    <3>. DEFINE E == Told(w, s)
    <3>1. E \in Seq(BlockEvents) /\ ClientOf(E) \in Clients
      BY ToldIs
    <3>2. t.text = s.text
      BY <2>5 DEF Blocks
    <3>. HIDE DEF E
    <3>4. ASSUME ~RelapsedIn(E)
          PROVE  InStep(Applies(ClientOf(E), e), t) /\ (t.text => TextIsLast(Append(E, e)))
      <4>1. InStep(ClientOf(E), s)
        BY <2>6, <3>4 DEF Apart, E
      <4>2. InStep(Applies(ClientOf(E), e), t) /\ ~s.text
        BY <1>a, <2>1, <2>5, <3>1, <4>1, ThinkingCloses
      <4>. QED  BY <3>2, <4>2
    <3>5. e.event # "end" /\ Apart(E, s)
      BY <2>1, <2>6 DEF E
    <3>6. Apart(Append(E, e), t)
      BY <2>1, <3>1, <3>4, <3>5, ApartAfter
    <3>. QED  BY <2>4, <3>6 DEF E
  <2>. QED  BY <2>0, <2>5, <2>6 DEF Blocks
<1>. QED  BY <1>0, <1>a

-----------------------------------------------------------------------------
(* A reply: text                                                               *)

\* Opening the text block shows no text yet and keeps the blocks apart.
LEMMA OpensText ==
    ASSUME NEW w \in Seq(BlockEvents), NEW s \in Dicts, ~s.thinking, ~s.text
    PROVE  LET t == OpensBlock([s EXCEPT !.text = TRUE], "text")
           IN  /\ Blocks(t, s.index, FALSE, TRUE, s.calls) /\ Silent(w, t, s)
               /\ Apart(Told(w, s), s) => Apart(Told(w, t), t)
<1>. DEFINE r == [s EXCEPT !.text = TRUE]
            t == OpensBlock(r, "text")
            e == Event("start", s.index, "text", <<>>)
<1>1. /\ e \in BlockEvents /\ e.event = "start" /\ e.index = s.index
      /\ e.kind = "text" /\ e.body = <<>>
  <2>1. s.index \in Nat /\ "text" \in BlockKinds /\ <<>> \in Texts
    BY DictIs DEF BlockKinds, Texts
  <2>. QED  BY <2>1, EventIs
<1>2. /\ r \in Dicts /\ r.out = s.out /\ r.index = s.index /\ r.text = TRUE
      /\ r.thinking = FALSE /\ r.calls = s.calls /\ SameText(r, s) /\ SameThought(r, s)
  <2>1. s.thinking = FALSE
    BY DictIs
  <2>. HIDE DEF t, e
  <2>. QED  BY <2>1 DEF Dicts, SameText, SameThought
<1>. HIDE DEF e, r
<1>3. Tells1(w, s, r, t, e)
  BY <1>1, <1>2 DEF Tells1, OpensBlock
<1>. HIDE DEF t
<1>4. /\ t \in Dicts /\ SameBlocks(t, r) /\ SameText(t, r) /\ SameThought(t, r)
      /\ Told(w, t) = Append(Told(w, s), e) /\ Adds(w, t, s, <<>>)
  <2>1. Said(e) = <<>>
    BY <1>1 DEF Said
  <2>2. ~(e.kind = "tool" /\ e.body = <<"j">>)
    BY <1>1
  <2>. QED  BY <1>3, <2>1, <2>2, Telling
<1>5. Blocks(t, s.index, FALSE, TRUE, s.calls) /\ Silent(w, t, s)
  BY <1>2, <1>4 DEF Blocks, SameBlocks, Silent, SameText, SameThought
<1>6. ASSUME Apart(Told(w, s), s) PROVE Apart(Told(w, t), t)
  <2>. DEFINE E == Told(w, s)
  <2>1. E \in Seq(BlockEvents) /\ ClientOf(E) \in Clients
    BY ToldIs
  <2>. HIDE DEF E
  <2>4. ASSUME ~RelapsedIn(E)
        PROVE  InStep(Applies(ClientOf(E), e), t) /\ TextIsLast(Append(E, e))
    <3>1. InStep(ClientOf(E), s)
      BY <1>6, <2>4 DEF Apart, E
    <3>2. InStep(Applies(ClientOf(E), e), t)
      BY <1>1, <1>5, <2>1, <3>1, TextOpens
    <3>. QED  BY <1>1, <2>1, <3>2, TextStaysLast
  <2>5. e.event # "end" /\ Apart(E, s)
    BY <1>1, <1>6 DEF E
  <2>6. Apart(Append(E, e), t)
    BY <1>1, <2>1, <2>4, <2>5, ApartAfter
  <2>. QED  BY <1>4, <2>6 DEF E
<1>. QED  BY <1>5, <1>6 DEF r, t

\* More of the text block shows that text and keeps the blocks apart.
LEMMA TellsText ==
    ASSUME NEW w \in Seq(BlockEvents), NEW s \in Dicts, s.text, NEW body \in Texts
    PROVE  LET t == Tells([s EXCEPT !.emitted = TRUE], "delta", s.index, "text", body)
           IN  /\ t \in Dicts /\ SameBlocks(t, s) /\ t.emitted = TRUE
               /\ t.decision = s.decision /\ t.buf = s.buf /\ SameThought(t, s)
               /\ Adds(w, t, s, body)
               /\ Apart(Told(w, s), s) => Apart(Told(w, t), t)
<1>. DEFINE r == [s EXCEPT !.emitted = TRUE]
            t == Tells(r, "delta", s.index, "text", body)
            e == Event("delta", s.index, "text", body)
<1>1. /\ e \in BlockEvents /\ e.event = "delta" /\ e.index = s.index
      /\ e.kind = "text" /\ e.body = body
  <2>1. s.index \in Nat /\ "text" \in BlockKinds
    BY DictIs DEF BlockKinds
  <2>. QED  BY <2>1, EventIs
<1>2. /\ r \in Dicts /\ r.out = s.out /\ SameBlocks(r, s) /\ r.emitted = TRUE
      /\ r.decision = s.decision /\ r.buf = s.buf /\ SameThought(r, s)
  <2>. HIDE DEF t, e
  <2>. QED  BY DEF Dicts, SameBlocks, SameThought
<1>. HIDE DEF e, r
<1>3. Tells1(w, s, r, t, e)
  BY <1>1, <1>2 DEF Tells1
<1>. HIDE DEF t
<1>4. /\ t \in Dicts /\ SameBlocks(t, r) /\ SameText(t, r) /\ SameThought(t, r)
      /\ Told(w, t) = Append(Told(w, s), e) /\ Adds(w, t, s, body)
  <2>1. Said(e) = body
    BY <1>1 DEF Said
  <2>2. ~(e.kind = "tool" /\ e.body = <<"j">>)
    BY <1>1
  <2>. QED  BY <1>3, <2>1, <2>2, Telling
<1>5. /\ SameBlocks(t, s) /\ t.emitted = TRUE /\ t.decision = s.decision /\ t.buf = s.buf
      /\ SameThought(t, s)
  BY <1>2, <1>4 DEF SameBlocks, SameText, SameThought
<1>6. ASSUME Apart(Told(w, s), s) PROVE Apart(Told(w, t), t)
  <2>. DEFINE E == Told(w, s)
  <2>1. E \in Seq(BlockEvents) /\ ClientOf(E) \in Clients
    BY ToldIs
  <2>. HIDE DEF E
  <2>4. ASSUME ~RelapsedIn(E)
        PROVE  InStep(Applies(ClientOf(E), e), t) /\ TextIsLast(Append(E, e))
    <3>1. InStep(ClientOf(E), s) /\ TextIsLast(E)
      BY <1>6, <2>4 DEF Apart, E
    <3>2. <<e.index, e.kind>> \in OpenBlocks(s)
      BY <1>1 DEF OpenBlocks
    <3>3. InStep(Applies(ClientOf(E), e), t)
      BY <1>1, <1>4, <1>5, <2>1, <3>1, <3>2, DeltaStays
    <3>. QED  BY <1>1, <2>1, <3>1, <3>3, TextStaysLast
  <2>5. e.event # "end" /\ Apart(E, s)
    BY <1>1, <1>6 DEF E
  <2>6. Apart(Append(E, e), t)
    BY <1>1, <2>1, <2>4, <2>5, ApartAfter
  <2>. QED  BY <1>4, <2>6 DEF E
<1>. QED  BY <1>4, <1>5, <1>6 DEF r, t

\* What a text delta does to the dict and the client.
Emitted(w, t, s, body) ==
    /\ t \in Dicts /\ t.thinking = FALSE /\ t.calls = s.calls
    /\ t.text = (s.text \/ body # <<>>)
    /\ t.emitted = (s.emitted \/ body # <<>>)
    /\ t.decision = s.decision /\ t.buf = s.buf /\ SameThought(t, s)
    /\ Adds(w, t, s, body)
    /\ Apart(Told(w, s), s) => Apart(Told(w, t), t)

\* _emit_text_delta shows its text, whether the block was open or not.
LEMMA EmitTextIs ==
    ASSUME NEW w \in Seq(BlockEvents), NEW s \in Dicts, ~s.thinking, NEW body \in Texts
    PROVE  Emitted(w, EmitText(s, body), s, body)
<1>. DEFINE r == IF s.text THEN s ELSE OpensBlock([s EXCEPT !.text = TRUE], "text")
            t == Tells([r EXCEPT !.emitted = TRUE], "delta", r.index, "text", body)
<1>0. s.thinking = FALSE /\ s.text \in BOOLEAN /\ s.emitted \in BOOLEAN
  BY DictIs
<1>a. CASE body = <<>>
  <2>1. EmitText(s, body) = s
    BY <1>a DEF EmitText
  <2>2. s.text = (s.text \/ body # <<>>) /\ s.emitted = (s.emitted \/ body # <<>>)
    BY <1>0, <1>a
  <2>. QED  BY <1>0, <1>a, <2>1, <2>2, AddsNothing DEF Emitted, SameThought
<1>b. CASE body # <<>>
  <2>1. /\ r \in Dicts /\ r.thinking = FALSE /\ r.text = TRUE /\ r.calls = s.calls /\ Silent(w, r, s)
        /\ Apart(Told(w, s), s) => Apart(Told(w, r), r)
    <3>1. CASE s.text
      <4>1. r = s /\ s.text = TRUE
        BY <1>0, <3>1
      <4>2. Silent(w, s, s)
        BY AddsNothing DEF Silent, SameText, SameThought
      <4>. HIDE DEF r
      <4>. QED  BY <1>0, <4>1, <4>2
    <3>2. CASE ~s.text
      <4>1. r = OpensBlock([s EXCEPT !.text = TRUE], "text")
        BY <3>2
      <4>. HIDE DEF r
      <4>2. Blocks(r, s.index, FALSE, TRUE, s.calls) /\ Silent(w, r, s)
            /\ (Apart(Told(w, s), s) => Apart(Told(w, r), r))
        BY <3>2, <4>1, OpensText
      <4>. QED  BY <4>2 DEF Blocks
    <3>. QED  BY <3>1, <3>2
  <2>2. EmitText(s, body) = t
    BY <1>b DEF EmitText
  <2>. HIDE DEF r
  <2>3. /\ t \in Dicts /\ SameBlocks(t, r) /\ t.emitted = TRUE
        /\ t.decision = r.decision /\ t.buf = r.buf /\ SameThought(t, r)
        /\ Adds(w, t, r, body)
        /\ Apart(Told(w, r), r) => Apart(Told(w, t), t)
    BY <2>1, TellsText
  <2>. HIDE DEF t
  <2>4. Adds(w, t, s, body)
    BY <2>1, <2>3, AddsThen DEF Silent
  <2>5. t.text = (s.text \/ body # <<>>) /\ t.emitted = (s.emitted \/ body # <<>>)
    BY <1>b, <2>1, <2>3 DEF SameBlocks
  <2>6. t.thinking = FALSE /\ t.calls = s.calls
    BY <2>1, <2>3 DEF SameBlocks
  <2>7. t.decision = s.decision /\ t.buf = s.buf /\ SameThought(t, s)
    BY <2>1, <2>3 DEF Silent, SameText, SameThought
  <2>8. Emitted(w, t, s, body)
    BY <2>1, <2>3, <2>4, <2>5, <2>6, <2>7 DEF Emitted
  <2>. QED  BY <2>2, <2>8
<1>. QED  BY <1>a, <1>b

\* Closing the text block keeps the blocks apart.
LEMMA ClosesText ==
    ASSUME NEW w \in Seq(BlockEvents), NEW s \in Dicts, s.text, ~s.thinking
    PROVE  LET t == Tells([s EXCEPT !.text = FALSE, !.index = @ + 1], "stop", s.index, "text", <<>>)
           IN  /\ Blocks(t, s.index + 1, FALSE, FALSE, s.calls) /\ Silent(w, t, s)
               /\ Apart(Told(w, s), s) => Apart(Told(w, t), t)
<1>. DEFINE r == [s EXCEPT !.text = FALSE, !.index = s.index + 1]
            t == Tells(r, "stop", s.index, "text", <<>>)
            e == Event("stop", s.index, "text", <<>>)
<1>1. /\ e \in BlockEvents /\ e.event = "stop" /\ e.index = s.index
      /\ e.kind = "text" /\ e.body = <<>>
  <2>1. s.index \in Nat /\ "text" \in BlockKinds /\ <<>> \in Texts
    BY DictIs DEF BlockKinds, Texts
  <2>. QED  BY <2>1, EventIs
<1>2. /\ r \in Dicts /\ r.out = s.out /\ r.index = s.index + 1 /\ r.text = FALSE
      /\ r.thinking = FALSE /\ r.calls = s.calls /\ SameText(r, s) /\ SameThought(r, s)
  <2>1. s.index + 1 \in Nat /\ s.thinking = FALSE
    BY DictIs
  <2>. HIDE DEF t, e
  <2>. QED  BY <2>1 DEF Dicts, SameText, SameThought
<1>7. t = Tells([s EXCEPT !.text = FALSE, !.index = @ + 1], "stop", s.index, "text", <<>>)
  OBVIOUS
<1>. HIDE DEF e, r
<1>3. Tells1(w, s, r, t, e)
  BY <1>1, <1>2 DEF Tells1
<1>. HIDE DEF t
<1>4. /\ t \in Dicts /\ SameBlocks(t, r) /\ SameText(t, r) /\ SameThought(t, r)
      /\ Told(w, t) = Append(Told(w, s), e) /\ Adds(w, t, s, <<>>)
  <2>1. Said(e) = <<>>
    BY <1>1 DEF Said
  <2>2. ~(e.kind = "tool" /\ e.body = <<"j">>)
    BY <1>1
  <2>. QED  BY <1>3, <2>1, <2>2, Telling
<1>5. Blocks(t, s.index + 1, FALSE, FALSE, s.calls) /\ Silent(w, t, s)
  BY <1>2, <1>4 DEF Blocks, SameBlocks, Silent, SameText, SameThought
<1>6. ASSUME Apart(Told(w, s), s) PROVE Apart(Told(w, t), t)
  <2>. DEFINE E == Told(w, s)
  <2>1. E \in Seq(BlockEvents) /\ ClientOf(E) \in Clients
    BY ToldIs
  <2>. HIDE DEF E
  <2>4. ASSUME ~RelapsedIn(E)
        PROVE  InStep(Applies(ClientOf(E), e), t) /\ (t.text => TextIsLast(Append(E, e)))
    <3>1. InStep(ClientOf(E), s)
      BY <1>6, <2>4 DEF Apart, E
    <3>2. InStep(Applies(ClientOf(E), e), t)
      BY <1>1, <1>5, <2>1, <3>1, TextCloses
    <3>. QED  BY <1>5, <3>2 DEF Blocks
  <2>5. e.event # "end" /\ Apart(E, s)
    BY <1>1, <1>6 DEF E
  <2>6. Apart(Append(E, e), t)
    BY <1>1, <2>1, <2>4, <2>5, ApartAfter
  <2>. QED  BY <1>4, <2>6 DEF E
<1>. QED  BY <1>5, <1>6, <1>7

-----------------------------------------------------------------------------
\* Opening the block of a structured call keeps the blocks apart.
LEMMA OpensCall ==
    ASSUME NEW w \in Seq(BlockEvents), NEW s \in Dicts, ~s.thinking, ~s.text, NEW i \in Nat
    PROVE  LET call == [call |-> i, index |-> s.index]
               t == Tells([s EXCEPT !.calls = Append(@, call), !.index = @ + 1],
                          "start", s.index, "tool", <<>>)
           IN  /\ Blocks(t, s.index + 1, FALSE, FALSE, Append(s.calls, call)) /\ Silent(w, t, s)
               /\ Apart(Told(w, s), s) => Apart(Told(w, t), t)
<1>. DEFINE call == [call |-> i, index |-> s.index]
            calls == Append(s.calls, call)
            r == [s EXCEPT !.calls = calls, !.index = s.index + 1]
            t == Tells(r, "start", s.index, "tool", <<>>)
            e == Event("start", s.index, "tool", <<>>)
<1>1. /\ e \in BlockEvents /\ e.event = "start" /\ e.index = s.index
      /\ e.kind = "tool" /\ e.body = <<>>
  <2>1. s.index \in Nat /\ "tool" \in BlockKinds /\ <<>> \in Texts
    BY DictIs DEF BlockKinds, Texts
  <2>. QED  BY <2>1, EventIs
<1>2. /\ r \in Dicts /\ r.out = s.out /\ r.index = s.index + 1 /\ r.text = FALSE
      /\ r.thinking = FALSE /\ r.calls = calls /\ SameText(r, s) /\ SameThought(r, s)
  <2>1. s.index + 1 \in Nat /\ s.thinking = FALSE /\ s.text = FALSE
    BY DictIs
  <2>2. calls \in Seq(CallBlocks)
    <3>1. call \in CallBlocks /\ s.calls \in Seq(CallBlocks)
      BY DictIs DEF CallBlocks
    <3>. HIDE DEF call
    <3>. QED  BY <3>1
  <2>. HIDE DEF t, e, calls
  <2>. QED  BY <2>1, <2>2 DEF Dicts, SameText, SameThought
<1>7. t = Tells([s EXCEPT !.calls = Append(@, call), !.index = @ + 1], "start", s.index, "tool", <<>>)
  OBVIOUS
<1>. HIDE DEF e, r
<1>3. Tells1(w, s, r, t, e)
  BY <1>1, <1>2 DEF Tells1
<1>. HIDE DEF t, calls
<1>4. /\ t \in Dicts /\ SameBlocks(t, r) /\ SameText(t, r) /\ SameThought(t, r)
      /\ Told(w, t) = Append(Told(w, s), e) /\ Adds(w, t, s, <<>>)
  <2>1. Said(e) = <<>>
    BY <1>1 DEF Said
  <2>2. ~(e.kind = "tool" /\ e.body = <<"j">>)
    <3>1. <<"j">> # <<>>
      OBVIOUS
    <3>. QED  BY <1>1, <3>1
  <2>. QED  BY <1>3, <2>1, <2>2, Telling
<1>5. Blocks(t, s.index + 1, FALSE, FALSE, calls) /\ Silent(w, t, s)
  BY <1>2, <1>4 DEF Blocks, SameBlocks, Silent, SameText, SameThought
<1>6. ASSUME Apart(Told(w, s), s) PROVE Apart(Told(w, t), t)
  <2>. DEFINE E == Told(w, s)
  <2>1. E \in Seq(BlockEvents) /\ ClientOf(E) \in Clients
    BY ToldIs
  <2>. HIDE DEF E
  <2>4. ASSUME ~RelapsedIn(E)
        PROVE  InStep(Applies(ClientOf(E), e), t) /\ (t.text => TextIsLast(Append(E, e)))
    <3>1. InStep(ClientOf(E), s)
      BY <1>6, <2>4 DEF Apart, E
    <3>2. InStep(Applies(ClientOf(E), e), t)
      BY <1>1, <1>5, <2>1, <3>1, ToolOpens DEF calls
    <3>. QED  BY <1>5, <3>2 DEF Blocks
  <2>5. e.event # "end" /\ Apart(E, s)
    BY <1>1, <1>6 DEF E
  <2>6. Apart(Append(E, e), t)
    BY <1>1, <2>1, <2>4, <2>5, ApartAfter
  <2>. QED  BY <1>4, <2>6 DEF E
<1>. QED  BY <1>5, <1>6, <1>7 DEF calls

\* More of a structured call goes into its open block.
LEMMA TellsCall ==
    ASSUME NEW w \in Seq(BlockEvents), NEW s \in Dicts, NEW k \in 1..Len(s.calls)
    PROVE  LET t == Tells(s, "delta", s.calls[k].index, "tool", <<>>)
           IN  /\ t \in Dicts /\ SameBlocks(t, s) /\ Silent(w, t, s)
               /\ Apart(Told(w, s), s) => Apart(Told(w, t), t)
<1>. DEFINE i == s.calls[k].index
            t == Tells(s, "delta", i, "tool", <<>>)
            e == Event("delta", i, "tool", <<>>)
<1>1. /\ e \in BlockEvents /\ e.event = "delta" /\ e.index = i
      /\ e.kind = "tool" /\ e.body = <<>>
  <2>1. i \in Nat /\ "tool" \in BlockKinds /\ <<>> \in Texts
    BY CallsAre DEF BlockKinds, Texts
  <2>. HIDE DEF i
  <2>. QED  BY <2>1, EventIs
<1>. HIDE DEF e
<1>3. Tells1(w, s, s, t, e)
  BY <1>1 DEF Tells1
<1>. HIDE DEF t
<1>4. /\ t \in Dicts /\ SameBlocks(t, s) /\ SameText(t, s) /\ SameThought(t, s)
      /\ Told(w, t) = Append(Told(w, s), e) /\ Adds(w, t, s, <<>>)
  <2>1. Said(e) = <<>>
    BY <1>1 DEF Said
  <2>2. ~(e.kind = "tool" /\ e.body = <<"j">>)
    <3>1. <<"j">> # <<>>
      OBVIOUS
    <3>. QED  BY <1>1, <3>1
  <2>. QED  BY <1>3, <2>1, <2>2, Telling
<1>6. ASSUME Apart(Told(w, s), s) PROVE Apart(Told(w, t), t)
  <2>. DEFINE E == Told(w, s)
  <2>1. E \in Seq(BlockEvents) /\ ClientOf(E) \in Clients
    BY ToldIs
  <2>2. t.text = s.text
    BY <1>4 DEF SameBlocks
  <2>. HIDE DEF E
  <2>4. ASSUME ~RelapsedIn(E)
        PROVE  InStep(Applies(ClientOf(E), e), t) /\ (t.text => TextIsLast(Append(E, e)))
    <3>1. InStep(ClientOf(E), s) /\ (s.text => TextIsLast(E))
      BY <1>6, <2>4 DEF Apart, E
    <3>2. <<e.index, e.kind>> \in OpenBlocks(s)
      <4>1. <<i, "tool">> \in ToolBlocks(s.calls)
        BY <2>1, InStepIs
      <4>. QED  BY <1>1, <4>1 DEF OpenBlocks
    <3>3. InStep(Applies(ClientOf(E), e), t)
      BY <1>1, <1>4, <2>1, <3>1, <3>2, DeltaStays
    <3>. QED  BY <1>1, <2>1, <2>2, <3>1, <3>3, TextStaysLast
  <2>5. e.event # "end" /\ Apart(E, s)
    BY <1>1, <1>6 DEF E
  <2>6. Apart(Append(E, e), t)
    BY <1>1, <2>1, <2>4, <2>5, ApartAfter
  <2>. QED  BY <1>4, <2>6 DEF E
<1>. QED  BY <1>4, <1>6 DEF t, Silent

-----------------------------------------------------------------------------
(* A reply: calls                                                              *)

\* What deltas of tool calls do to the dict and the client.
Called(w, t, s) ==
    /\ t \in Dicts
    /\ t.text => s.text
    /\ Silent(w, t, s)
    /\ Apart(Told(w, s), s) => Apart(Told(w, t), t)

\* Two structured calls, one after the other.
LEMMA CalledTwice ==
    ASSUME NEW w \in Seq(BlockEvents), NEW s \in Dicts, NEW t, NEW u, Called(w, t, s), Called(w, u, t)
    PROVE  Called(w, u, s)
<1>1. Silent(w, u, s)
  BY SilentTwice DEF Called
<1>. QED  BY <1>1 DEF Called

\* A piece of a structured call closes what is open and goes into the call's block.
LEMMA CallIs ==
    ASSUME NEW w \in Seq(BlockEvents), NEW s \in Dicts, NEW i \in Nat
    PROVE  Called(w, Call(s, i), s) /\ Call(s, i).calls # <<>>
<1>. DEFINE t == CloseThinking(s)
            u == IF t.text
                 THEN Tells([t EXCEPT !.text = FALSE, !.index = @ + 1], "stop", t.index, "text", <<>>)
                 ELSE t
            opened == Tells([u EXCEPT !.calls = Append(@, [call |-> i, index |-> u.index]),
                                      !.index = @ + 1], "start", u.index, "tool", <<>>)
            known == \E k \in DOMAIN t.calls : t.calls[k].call = i
            v == IF known THEN t ELSE opened
            at == (CHOOSE k \in DOMAIN v.calls : v.calls[k].call = i)
            x == Tells(v, "delta", v.calls[at].index, "tool", <<>>)
<1>1. Call(s, i) = x
  BY DEF Call
<1>2. t \in Dicts /\ t.thinking = FALSE /\ t.text = s.text /\ Called(w, t, s)
  <2>. HIDE DEF t
  <2>. QED  BY CloseThinkingIs DEF t, Called
<1>. HIDE DEF t
<1>3. u \in Dicts /\ u.thinking = FALSE /\ u.text = FALSE /\ Called(w, u, t)
  <2>1. CASE t.text
    <3>1. u = Tells([t EXCEPT !.text = FALSE, !.index = @ + 1], "stop", t.index, "text", <<>>)
      BY <2>1
    <3>. HIDE DEF u
    <3>2. /\ Blocks(u, t.index + 1, FALSE, FALSE, t.calls) /\ Silent(w, u, t)
          /\ Apart(Told(w, t), t) => Apart(Told(w, u), u)
      BY <1>2, <2>1, <3>1, ClosesText
    <3>. QED  BY <3>2 DEF Blocks, Called
  <2>2. CASE ~t.text
    <3>1. u = t /\ t.text = FALSE
      BY <1>2, <2>2, DictIs
    <3>2. Silent(w, t, t)
      BY <1>2, AddsNothing DEF Silent, SameText, SameThought
    <3>. HIDE DEF u
    <3>. QED  BY <1>2, <3>1, <3>2 DEF Called
  <2>. QED  BY <2>1, <2>2
<1>. HIDE DEF u
<1>4. opened \in Dicts /\ Called(w, opened, u)
      /\ opened.calls = Append(u.calls, [call |-> i, index |-> u.index])
  <2>1. /\ Blocks(opened, u.index + 1, FALSE, FALSE, Append(u.calls, [call |-> i, index |-> u.index]))
        /\ Silent(w, opened, u)
        /\ Apart(Told(w, u), u) => Apart(Told(w, opened), opened)
    BY <1>3, OpensCall
  <2>. HIDE DEF opened
  <2>. QED  BY <2>1 DEF Blocks, Called
<1>5. opened.calls # <<>> /\ \E k \in 1..Len(opened.calls) : opened.calls[k].call = i
  <2>. DEFINE call == [call |-> i, index |-> u.index]
              n == Len(u.calls)
  <2>1. call.call = i /\ call \in CallBlocks /\ u.calls \in Seq(CallBlocks)
    BY <1>3, DictIs DEF CallBlocks
  <2>2. opened.calls = Append(u.calls, call)
    BY <1>4
  <2>. HIDE DEF opened, call
  <2>3. n + 1 \in 1..Len(opened.calls) /\ opened.calls[n + 1] = call /\ opened.calls # <<>>
    BY <2>1, <2>2
  <2>. QED  BY <2>1, <2>3
<1>. HIDE DEF opened
<1>6. v \in Dicts /\ Called(w, v, s) /\ \E k \in 1..Len(v.calls) : v.calls[k].call = i
  <2>1. CASE known
    <3>1. DOMAIN t.calls = 1..Len(t.calls)
      BY <1>2, DictIs
    <3>2. v = t
      BY <2>1
    <3>. QED  BY <1>2, <2>1, <3>1, <3>2
  <2>2. CASE ~known
    <3>1. v = opened
      BY <2>2
    <3>. HIDE DEF v, known
    <3>. QED  BY <1>2, <1>3, <1>4, <1>5, <3>1, CalledTwice
  <2>. QED  BY <2>1, <2>2
<1>. HIDE DEF v
<1>7. at \in 1..Len(v.calls)
  <2>1. DOMAIN v.calls = 1..Len(v.calls)
    BY <1>6, DictIs
  <2>. QED  BY <1>6, <2>1
<1>. HIDE DEF at
<1>8. /\ x \in Dicts /\ SameBlocks(x, v) /\ Silent(w, x, v)
      /\ Apart(Told(w, v), v) => Apart(Told(w, x), x)
  BY <1>6, <1>7, TellsCall
<1>. HIDE DEF x
<1>9. Called(w, x, s)
  <2>1. Called(w, x, v)
    BY <1>8 DEF Called, SameBlocks
  <2>. QED  BY <1>6, <2>1, CalledTwice
<1>10. x.calls # <<>>
  <2>1. v.calls \in Seq(CallBlocks) /\ Len(v.calls) # 0
    BY <1>6, <1>7, DictIs
  <2>2. v.calls # <<>>
    BY <2>1
  <2>. QED  BY <1>8, <2>2 DEF SameBlocks
<1>. QED  BY <1>1, <1>9, <1>10

\* The deltas of a chunk, one after the other.
CallsThrough(n, s, ids, acc) ==
    /\ acc \in [0..n -> Dicts]
    /\ acc[0] = s
    /\ \A i \in 1..n : acc[i] = Call(acc[i - 1], ids[i])

\* The dict after each of a chunk's calls, as one function.
LEMMA CallsAreThere ==
    ASSUME NEW s \in Dicts, NEW ids \in Seq(Nat)
    PROVE  \E acc : CallsThrough(Len(ids), s, ids, acc) /\ FoldLeft(Call, s, ids) = acc[Len(ids)]
<1>. DEFINE n == Len(ids)
            G(g) == [u \in SUBSET (1..n) |-> IF u = {} THEN s ELSE Call(g[u \ {Max(u)}], ids[Max(u)])]
            fold == CHOOSE g : g = G(g)
            step == [i \in 1..n |-> [x \in Dicts |-> Call(x, ids[i])]]
<1>0. n \in Nat /\ DOMAIN ids = 1..n /\ \A i \in 1..n : ids[i] \in Nat
  OBVIOUS
<1>4. FoldLeft(Call, s, ids) = fold[1..n]
  BY <1>0 DEF FoldLeft, MapThenFoldSet
<1>. HIDE DEF n
<1>3. \A x \in Dicts, i \in 1..n : Call(x, ids[i]) \in Dicts
  <2>1. <<>> \in Seq(BlockEvents)
    OBVIOUS
  <2>. QED  BY <1>0, <2>1, CallIs DEF Called
<1>1. \E g : g = G(g)
  <2>1. step \in [1..n -> [Dicts -> Dicts]]
    BY <1>3
  <2>. HIDE DEF step
  <2>2. PICK g \in [SUBSET (1..n) -> Dicts] : Folds(n, s, step, g)
    BY <1>0, <2>1, FoldIsThere
  <2>3. ASSUME NEW u \in SUBSET (1..n), u # {}
        PROVE  step[Max(u)][g[u \ {Max(u)}]] = Call(g[u \ {Max(u)}], ids[Max(u)])
    <3>1. Max(u) \in 1..n
      BY <1>0, <2>3, Largest
    <3>. QED  BY <3>1 DEF step
  <2>4. g = G(g)
    BY <2>2, <2>3 DEF Folds
  <2>. QED  BY <2>4
<1>2. fold = G(fold)
  <2>. HIDE DEF G
  <2>. QED  BY <1>1
<1>. HIDE DEF fold
<1>. DEFINE acc == [i \in 0..n |-> fold[1..i]]
<1>5. acc[0] = s
  BY <1>0, <1>2
<1>6. ASSUME NEW i \in 1..n PROVE acc[i] = Call(acc[i - 1], ids[i])
  <2>1. fold[1..i] = Call(fold[(1..i) \ {Max(1..i)}], ids[Max(1..i)])
    BY <1>0, <1>2, FirstPositions
  <2>2. fold[1..i] = Call(fold[1..(i - 1)], ids[i])
    BY <1>0, <2>1, FirstPositions
  <2>3. acc[i] = fold[1..i] /\ acc[i - 1] = fold[1..(i - 1)]
    BY <1>0
  <2>. QED  BY <2>2, <2>3
<1>7. acc \in [0..n -> Dicts]
  <2>. DEFINE P == {i \in Nat : i \in 0..n => acc[i] \in Dicts}
  <2>. SUFFICES ASSUME NEW m \in 0..n PROVE acc[m] \in Dicts
    OBVIOUS
  <2>. HIDE DEF acc
  <2>1. 0 \in P /\ \A i \in 1..m : i - 1 \in P => i \in P
    BY <1>0, <1>3, <1>5, <1>6
  <2>2. m \in P
    <3>. HIDE DEF P
    <3>1. m \in Nat
      BY <1>0
    <3>. QED  BY <2>1, <3>1, UpTo
  <2>. QED  BY <2>2 DEF P
<1>8. acc[n] = fold[1..n]
  BY <1>0
<1>. HIDE DEF acc
<1>9. CallsThrough(n, s, ids, acc)
  BY <1>5, <1>6, <1>7 DEF CallsThrough
<1>. QED  BY <1>4, <1>8, <1>9 DEF n

\* All the calls of a chunk.
LEMMA AllCalled ==
    ASSUME NEW w \in Seq(BlockEvents), NEW s \in Dicts, NEW ids \in Seq(Nat)
    PROVE  LET t == FoldLeft(Call, s, ids)
           IN  Called(w, t, s) /\ (t.calls = <<>> <=> s.calls = <<>> /\ ids = <<>>)
<1>. DEFINE n == Len(ids)
<1>1. PICK acc : CallsThrough(n, s, ids, acc) /\ FoldLeft(Call, s, ids) = acc[n]
  BY CallsAreThere
<1>2. n \in Nat /\ (n = 0 <=> ids = <<>>) /\ \A i \in 1..n : ids[i] \in Nat
  OBVIOUS
<1>. HIDE DEF n
<1>. DEFINE none(i) == acc[i].calls = <<>> <=> (s.calls = <<>> /\ i = 0)
            P == {i \in Nat : i <= n => (Called(w, acc[i], s) /\ none(i))}
<1>3. 0 \in P
  <2>1. Silent(w, s, s)
    BY AddsNothing DEF Silent, SameText, SameThought
  <2>. QED  BY <1>1, <2>1 DEF CallsThrough, Called
<1>4. ASSUME NEW i \in 1..n, i - 1 \in P PROVE i \in P
  <2>1. i - 1 \in 0..n /\ acc[i - 1] \in Dicts /\ acc[i] = Call(acc[i - 1], ids[i])
    BY <1>1, <1>2 DEF CallsThrough
  <2>2. Called(w, acc[i - 1], s)
    BY <1>4, <2>1
  <2>3. Called(w, acc[i], acc[i - 1]) /\ acc[i].calls # <<>>
    BY <1>2, <2>1, CallIs
  <2>4. Called(w, acc[i], s)
    BY <2>1, <2>2, <2>3, CalledTwice
  <2>. QED  BY <2>3, <2>4
<1>5. n \in P
  <2>. HIDE DEF P
  <2>. QED  BY <1>2, <1>3, <1>4, UpTo
<1>. QED  BY <1>1, <1>2, <1>5

-----------------------------------------------------------------------------
(* A reply: the text that was held back                                        *)

\* Only the end of the message ends it.
LEMMA NotEnded ==
    ASSUME NEW events \in Seq(BlockEvents), NEW e \in BlockEvents, e.event # "end",
           ~ClientOf(events).ended
    PROVE  ~ClientOf(Append(events, e)).ended
<1>1. ClientOf(events) \in Clients /\ ClientOf(Append(events, e)) = Applies(ClientOf(events), e)
  BY ClientHears
<1>. QED  BY <1>1, AppliesGives

\* Text that was held back and is a call: its block is opened, told and closed.
LEMMA ResolvesCall ==
    ASSUME NEW w \in Seq(BlockEvents), NEW s \in Dicts, s.thinking = FALSE, s.text = FALSE,
           s.buf # <<>>, IsCall(s.buf)
    PROVE  LET t == Resolves(s)
           IN  /\ t \in Dicts /\ t.thinking = FALSE /\ t.calls = s.calls
               /\ t.emitted = s.emitted /\ t.reasons = s.reasons
               /\ TextOf(Told(w, t)) = TextOf(Told(w, s)) /\ CallIn(Told(w, t))
               /\ Apart(Told(w, s), s) => Apart(Told(w, t), t)
<1>. DEFINE r == [s EXCEPT !.index = s.index + 1, !.buf = <<>>]
            t1 == Tells(r, "start", s.index, "tool", <<>>)
            t2 == Tells(t1, "delta", s.index, "tool", <<"j">>)
            t3 == Tells(t2, "stop", s.index, "tool", <<>>)
            e1 == Event("start", s.index, "tool", <<>>)
            e2 == Event("delta", s.index, "tool", <<"j">>)
            e3 == Event("stop", s.index, "tool", <<>>)
            i == s.index
            b == <<i, "tool">>
<1>1. Resolves(s) = t3
  BY DEF Resolves
<1>2. i \in Nat /\ "tool" \in BlockKinds /\ <<>> \in Texts /\ <<"j">> \in Texts /\ <<"j">> # <<>>
  BY DictIs DEF BlockKinds, Texts, Symbols
<1>3. /\ e1 \in BlockEvents /\ e1.event = "start" /\ e1.index = i /\ e1.kind = "tool" /\ e1.body = <<>>
      /\ e2 \in BlockEvents /\ e2.event = "delta" /\ e2.index = i /\ e2.kind = "tool" /\ e2.body = <<"j">>
      /\ e3 \in BlockEvents /\ e3.event = "stop" /\ e3.index = i /\ e3.kind = "tool" /\ e3.body = <<>>
  <2>. HIDE DEF i
  <2>. QED  BY <1>2, EventIs DEF i
<1>4. /\ r \in Dicts /\ r.out = s.out /\ r.index = i + 1 /\ r.text = FALSE /\ r.thinking = FALSE
      /\ r.calls = s.calls /\ r.emitted = s.emitted /\ r.reasons = s.reasons
  <2>1. i + 1 \in Nat /\ <<>> \in Seq(Symbols)
    BY <1>2
  <2>. HIDE DEF t1, t2, t3, e1, e2, e3
  <2>. QED  BY <2>1 DEF Dicts
<1>. HIDE DEF r, e1, e2, e3
<1>5. Tells1(w, s, r, t1, e1)
  BY <1>3, <1>4 DEF Tells1
<1>. HIDE DEF t1
<1>6. /\ t1 \in Dicts /\ SameBlocks(t1, r) /\ SameText(t1, r) /\ SameThought(t1, r)
      /\ Told(w, t1) = Append(Told(w, s), e1)
  BY <1>5, Telling
<1>7. Tells1(w, t1, t1, t2, e2)
  BY <1>3, <1>6 DEF Tells1
<1>. HIDE DEF t2
<1>8. /\ t2 \in Dicts /\ SameBlocks(t2, t1) /\ SameText(t2, t1) /\ SameThought(t2, t1)
      /\ Told(w, t2) = Append(Told(w, t1), e2)
  BY <1>6, <1>7, Telling
<1>9. Tells1(w, t2, t2, t3, e3)
  BY <1>3, <1>8 DEF Tells1
<1>. HIDE DEF t3
<1>10. /\ t3 \in Dicts /\ SameBlocks(t3, t2) /\ SameText(t3, t2) /\ SameThought(t3, t2)
       /\ Told(w, t3) = Append(Told(w, t2), e3)
  BY <1>8, <1>9, Telling
<1>11. /\ Blocks(t3, i + 1, FALSE, FALSE, s.calls)
       /\ t3.emitted = s.emitted /\ t3.reasons = s.reasons
  BY <1>4, <1>6, <1>8, <1>10 DEF SameBlocks, SameText, SameThought, Blocks
<1>. DEFINE E0 == Told(w, s)
            E1 == Told(w, t1)
            E2 == Told(w, t2)
            E3 == Told(w, t3)
<1>12. /\ E0 \in Seq(BlockEvents) /\ E1 \in Seq(BlockEvents) /\ E2 \in Seq(BlockEvents)
       /\ E1 = Append(E0, e1) /\ E2 = Append(E1, e2) /\ E3 = Append(E2, e3)
  BY <1>6, <1>8, <1>10, ToldIs
<1>. HIDE DEF E0, E1, E2, E3
<1>13. TextOf(E3) = TextOf(E0) /\ CallIn(E3)
  <2>1. Said(e1) = <<>> /\ Said(e2) = <<>> /\ Said(e3) = <<>>
    BY <1>3 DEF Said
  <2>2. TextOf(E1) = TextOf(E0) \o <<>> /\ TextOf(E0) \in Texts
    BY <1>3, <1>12, <2>1, TextAppends
  <2>3. TextOf(E2) = TextOf(E1) \o <<>> /\ TextOf(E1) \in Texts
    BY <1>3, <1>12, <2>1, TextAppends
  <2>4. TextOf(E3) = TextOf(E2) \o <<>> /\ TextOf(E2) \in Texts
    BY <1>3, <1>12, <2>1, TextAppends
  <2>5. CallIn(E2)
    BY <1>3, <1>12, CallAppends
  <2>6. CallIn(E3)
    BY <1>3, <1>12, <2>5, CallAppends
  <2>7. \A x \in Texts : x \o <<>> = x
    BY ConcatEmptySeq DEF Texts
  <2>. QED  BY <2>2, <2>3, <2>4, <2>6, <2>7
<1>14. ASSUME Apart(E0, s) PROVE Apart(E3, t3)
  <2>1. ~ClientOf(E3).ended
    <3>1. ~ClientOf(E0).ended
      BY <1>14 DEF Apart
    <3>2. ~ClientOf(E1).ended
      BY <1>3, <1>12, <3>1, NotEnded
    <3>3. ~ClientOf(E2).ended
      BY <1>3, <1>12, <3>2, NotEnded
    <3>. QED  BY <1>3, <1>12, <3>3, NotEnded
  <2>2. ASSUME RelapsedIn(E0) PROVE RelapsedIn(E3)
    <3>1. RelapsedIn(E1)
      BY <1>3, <1>12, <2>2, RelapseStays
    <3>2. RelapsedIn(E2)
      BY <1>3, <1>12, <3>1, RelapseStays
    <3>. QED  BY <1>3, <1>12, <3>2, RelapseStays
  <2>3. ASSUME InStep(ClientOf(E0), s) PROVE InStep(ClientOf(E3), t3)
    <3>. DEFINE c0 == ClientOf(E0)
                c1 == Applies(c0, e1)
                c2 == Applies(c1, e2)
                c3 == Applies(c2, e3)
    <3>1. c0 \in Clients /\ c1 \in Clients /\ c2 \in Clients /\ c3 \in Clients
      <4>1. c0 \in Clients
        BY <1>12, <1>3, ClientHears
      <4>. HIDE DEF c0
      <4>2. c1 \in Clients
        BY <1>3, <4>1, AppliesType
      <4>. HIDE DEF c1
      <4>3. c2 \in Clients
        BY <1>3, <4>2, AppliesType
      <4>. HIDE DEF c2
      <4>. QED  BY <1>3, <4>1, <4>2, <4>3, AppliesType
    <3>2. ClientOf(E3) = c3
      <4>1. ClientOf(E1) = c1
        BY <1>3, <1>12, ClientHears
      <4>2. ClientOf(E2) = c2
        BY <1>3, <1>12, <4>1, ClientHears
      <4>. QED  BY <1>3, <1>12, <4>2, ClientHears
    <3>3. /\ c0.ok /\ c0.seen = i /\ c0.open = OpenBlocks(s)
          /\ \A k \in 1..Len(s.calls) : s.calls[k].index < s.index
          /\ \A j, k \in 1..Len(s.calls) : s.calls[j].index = s.calls[k].index => j = k
      <4>1. c0 \in Clients /\ InStep(c0, s)
        BY <2>3, <3>1
      <4>. HIDE DEF c0
      <4>. QED  BY <1>2, <4>1, InStepIs
    <3>. HIDE DEF c0
    <3>4. c1.open = c0.open \union {b} /\ c1.seen = i + 1 /\ c1.ok
      BY <1>3, <3>1, <3>3, StartGives
    <3>. HIDE DEF c1
    <3>5. c2.open = c1.open /\ c2.seen = c1.seen /\ c2.ok
      <4>1. <<e2.index, e2.kind>> \in c1.open
        BY <1>3, <3>4
      <4>. QED  BY <1>3, <3>1, <3>4, <4>1, DeltaGives
    <3>. HIDE DEF c2
    <3>6. c3.open = c2.open \ {b} /\ c3.seen = c2.seen /\ c3.ok
      <4>1. <<e3.index, e3.kind>> = b /\ b \in c2.open
        BY <1>3, <3>4, <3>5
      <4>. QED  BY <1>3, <3>1, <3>5, <4>1, StopGives
    <3>. HIDE DEF c3
    <3>7. OpenBlocks(s) = ToolBlocks(s.calls) /\ OpenBlocks(t3) = ToolBlocks(s.calls)
      BY <1>11 DEF OpenBlocks, Blocks
    <3>8. b \notin ToolBlocks(s.calls)
      <4>1. \A k \in 1..Len(s.calls) : s.calls[k].index # i
        BY <1>2, <3>3, CallsAre
      <4>. HIDE DEF i
      <4>. QED  BY <3>1, <4>1, InStepIs
    <3>9. c3.open = OpenBlocks(t3) /\ c3.seen = i + 1
      BY <3>3, <3>4, <3>5, <3>6, <3>7, <3>8
    <3>10. \A k \in 1..Len(s.calls) : s.calls[k].index < i + 1
      BY <1>2, <3>3, CallsAre
    <3>11. /\ t3.index = i + 1 /\ t3.thinking = FALSE /\ t3.text = FALSE /\ t3.calls = s.calls
           /\ t3 \in Dicts
      BY <1>11 DEF Blocks
    <3>12. InStep(c3, t3)
      <4>1. c3.seen = t3.index + (IF t3.thinking \/ t3.text THEN 1 ELSE 0)
        BY <1>2, <3>9, <3>11
      <4>2. ~(t3.thinking /\ t3.text) /\ c3.ok /\ c3.open = OpenBlocks(t3)
        BY <3>6, <3>9, <3>11
      <4>3. /\ \A k \in 1..Len(t3.calls) : t3.calls[k].index < t3.index
            /\ \A j, k \in 1..Len(t3.calls) : t3.calls[j].index = t3.calls[k].index => j = k
        <5>. HIDE DEF i
        <5>. QED  BY <3>3, <3>10, <3>11
      <4>. QED  BY <3>1, <3>11, <4>1, <4>2, <4>3, InStepIs
    <3>. QED  BY <3>2, <3>12
  <2>4. ~t3.text
    BY <1>11 DEF Blocks
  <2>. QED  BY <1>14, <2>1, <2>2, <2>3, <2>4 DEF Apart
<1>15. t3 \in Dicts /\ t3.thinking = FALSE /\ t3.calls = s.calls
  BY <1>11 DEF Blocks
<1>. QED  BY <1>1, <1>11, <1>13, <1>14, <1>15 DEF E0, E3

\* Held text that is no call is shown as it is.
LEMMA ResolvesText ==
    ASSUME NEW w \in Seq(BlockEvents), NEW s \in Dicts, s.thinking = FALSE,
           ~(s.buf # <<>> /\ IsCall(s.buf))
    PROVE  LET t == Resolves(s)
           IN  /\ t \in Dicts /\ t.thinking = FALSE /\ t.calls = s.calls
               /\ t.emitted = (s.emitted \/ s.buf # <<>>) /\ t.reasons = s.reasons
               /\ Adds(w, t, s, s.buf)
               /\ Apart(Told(w, s), s) => Apart(Told(w, t), t)
<1>1. CASE s.buf = <<>>
  <2>1. Resolves(s) = s
    BY <1>1 DEF Resolves
  <2>2. Adds(w, s, s, s.buf)
    BY <1>1, AddsNothing
  <2>3. s.emitted = (s.emitted \/ s.buf # <<>>)
    BY <1>1, DictIs
  <2>. QED  BY <2>1, <2>2, <2>3
<1>2. CASE s.buf # <<>>
  <2>. DEFINE e == EmitText(s, s.buf)
              t == [e EXCEPT !.buf = <<>>]
  <2>1. Resolves(s) = t
    BY <1>2 DEF Resolves
  <2>2. Emitted(w, e, s, s.buf)
    <3>1. s.buf \in Texts /\ ~s.thinking
      BY DictIs
    <3>. QED  BY <3>1, EmitTextIs
  <2>. HIDE DEF e
  <2>3. e \in Dicts
    BY <2>2 DEF Emitted
  <2>4. /\ t \in Dicts /\ t.out = e.out /\ SameBlocks(t, e) /\ t.emitted = e.emitted
        /\ t.reasons = e.reasons
    <3>1. <<>> \in Seq(Symbols)
      OBVIOUS
    <3>. QED  BY <2>3, <3>1 DEF Dicts, SameBlocks
  <2>. HIDE DEF t
  <2>5. Told(w, t) = Told(w, e)
    BY <2>4 DEF Told
  <2>6. Adds(w, t, s, s.buf)
    BY <2>2, <2>5 DEF Emitted, Adds
  <2>7. Apart(Told(w, e), e) => Apart(Told(w, t), t)
    BY <2>4, <2>5 DEF Apart, InStep, OpenBlocks, SameBlocks
  <2>. QED  BY <2>1, <2>2, <2>4, <2>6, <2>7 DEF Emitted, SameBlocks, SameThought
<1>. QED  BY <1>1, <1>2

-----------------------------------------------------------------------------
(* A reply: closing the blocks                                                 *)

\* A block is closed at the end of the message; the dict is not told.
StopIn(w, t, s, index, kind) ==
    /\ t \in Dicts /\ Adds(w, t, s, <<>>)
    /\ RelapsedIn(Told(w, s)) => RelapsedIn(Told(w, t))
    /\ ClientOf(Told(w, s)).ok /\ <<index, kind>> \in ClientOf(Told(w, s)).open =>
          /\ ClientOf(Told(w, t)).ok
          /\ ClientOf(Told(w, t)).open = ClientOf(Told(w, s)).open \ {<<index, kind>>}

\* A block that is closed is open no more.
LEMMA StopTold ==
    ASSUME NEW w \in Seq(BlockEvents), NEW s \in Dicts, NEW index \in Nat, NEW kind \in BlockKinds
    PROVE  StopIn(w, Tells(s, "stop", index, kind, <<>>), s, index, kind)
<1>. DEFINE t == Tells(s, "stop", index, kind, <<>>)
            e == Event("stop", index, kind, <<>>)
            E == Told(w, s)
<1>1. /\ e \in BlockEvents /\ e.event = "stop" /\ e.index = index
      /\ e.kind = kind /\ e.body = <<>>
  <2>1. <<>> \in Texts
    BY DEF Texts
  <2>. QED  BY <2>1, EventIs
<1>. HIDE DEF e
<1>2. Tells1(w, s, s, t, e)
  BY <1>1 DEF Tells1
<1>. HIDE DEF t
<1>3. t \in Dicts /\ Told(w, t) = Append(E, e) /\ Adds(w, t, s, <<>>) /\ E \in Seq(BlockEvents)
  <2>1. Said(e) = <<>>
    BY <1>1 DEF Said
  <2>2. <<>> # <<"j">>
    OBVIOUS
  <2>3. ~(e.kind = "tool" /\ e.body = <<"j">>)
    BY <1>1, <2>2
  <2>4. E \in Seq(BlockEvents)
    BY ToldIs
  <2>. HIDE DEF E
  <2>5. t \in Dicts /\ Told(w, t) = Append(Told(w, s), e) /\ Adds(w, t, s, Said(e))
    BY <1>2, <2>3, Telling
  <2>. QED  BY <2>1, <2>4, <2>5 DEF E
<1>. HIDE DEF E
<1>4. RelapsedIn(E) => RelapsedIn(Append(E, e))
  BY <1>1, <1>3, RelapseStays
<1>5. ClientOf(E) \in Clients /\ ClientOf(Append(E, e)) = Applies(ClientOf(E), e)
  BY <1>1, <1>3, ClientHears
<1>6. ASSUME ClientOf(E).ok, <<index, kind>> \in ClientOf(E).open
      PROVE  /\ ClientOf(Append(E, e)).ok
             /\ ClientOf(Append(E, e)).open = ClientOf(E).open \ {<<index, kind>>}
  <2>1. <<e.index, e.kind>> = <<index, kind>>
    BY <1>1
  <2>. QED  BY <1>1, <1>5, <1>6, <2>1, StopGives
<1>7. StopIn(w, t, s, index, kind)
  BY <1>3, <1>4, <1>6 DEF StopIn, E
<1>. QED  BY <1>7 DEF t

\* The calls are closed one after the other.
StopsThrough(n, s, calls, acc) ==
    /\ acc \in [0..n -> Dicts]
    /\ acc[0] = s
    /\ \A i \in 1..n : acc[i] = StopsCall(acc[i - 1], calls[i])

\* The dict after each structured call that is closed, as one function.
LEMMA StopsAreThere ==
    ASSUME NEW s \in Dicts, NEW calls \in Seq(CallBlocks)
    PROVE  \E acc : StopsThrough(Len(calls), s, calls, acc)
                    /\ FoldLeft(StopsCall, s, calls) = acc[Len(calls)]
<1>. DEFINE n == Len(calls)
            G(g) == [u \in SUBSET (1..n) |-> IF u = {} THEN s ELSE StopsCall(g[u \ {Max(u)}], calls[Max(u)])]
            fold == CHOOSE g : g = G(g)
            step == [i \in 1..n |-> [x \in Dicts |-> StopsCall(x, calls[i])]]
<1>0. n \in Nat /\ DOMAIN calls = 1..n /\ \A i \in 1..n : calls[i] \in CallBlocks
  OBVIOUS
<1>4. FoldLeft(StopsCall, s, calls) = fold[1..n]
  BY <1>0 DEF FoldLeft, MapThenFoldSet
<1>. HIDE DEF n
<1>3. \A x \in Dicts, i \in 1..n : StopsCall(x, calls[i]) \in Dicts
  <2>1. <<>> \in Seq(BlockEvents) /\ "tool" \in BlockKinds
    BY DEF BlockKinds
  <2>2. \A i \in 1..n : calls[i].index \in Nat
    BY <1>0 DEF CallBlocks
  <2>. QED  BY <2>1, <2>2, StopTold DEF StopIn, StopsCall
<1>1. \E g : g = G(g)
  <2>1. step \in [1..n -> [Dicts -> Dicts]]
    BY <1>3
  <2>. HIDE DEF step
  <2>2. PICK g \in [SUBSET (1..n) -> Dicts] : Folds(n, s, step, g)
    BY <1>0, <2>1, FoldIsThere
  <2>3. ASSUME NEW u \in SUBSET (1..n), u # {}
        PROVE  step[Max(u)][g[u \ {Max(u)}]] = StopsCall(g[u \ {Max(u)}], calls[Max(u)])
    <3>1. Max(u) \in 1..n
      BY <1>0, <2>3, Largest
    <3>. QED  BY <3>1 DEF step
  <2>4. g = G(g)
    BY <2>2, <2>3 DEF Folds
  <2>. QED  BY <2>4
<1>2. fold = G(fold)
  <2>. HIDE DEF G
  <2>. QED  BY <1>1
<1>. HIDE DEF fold
<1>. DEFINE acc == [i \in 0..n |-> fold[1..i]]
<1>5. acc[0] = s
  BY <1>0, <1>2
<1>6. ASSUME NEW i \in 1..n PROVE acc[i] = StopsCall(acc[i - 1], calls[i])
  <2>1. fold[1..i] = StopsCall(fold[(1..i) \ {Max(1..i)}], calls[Max(1..i)])
    BY <1>0, <1>2, FirstPositions
  <2>2. fold[1..i] = StopsCall(fold[1..(i - 1)], calls[i])
    BY <1>0, <2>1, FirstPositions
  <2>3. acc[i] = fold[1..i] /\ acc[i - 1] = fold[1..(i - 1)]
    BY <1>0
  <2>. QED  BY <2>2, <2>3
<1>7. acc \in [0..n -> Dicts]
  <2>. DEFINE P == {i \in Nat : i \in 0..n => acc[i] \in Dicts}
  <2>. SUFFICES ASSUME NEW m \in 0..n PROVE acc[m] \in Dicts
    OBVIOUS
  <2>. HIDE DEF acc
  <2>1. 0 \in P /\ \A i \in 1..m : i - 1 \in P => i \in P
    BY <1>0, <1>3, <1>5, <1>6
  <2>2. m \in P
    <3>. HIDE DEF P
    <3>1. m \in Nat
      BY <1>0
    <3>. QED  BY <2>1, <3>1, UpTo
  <2>. QED  BY <2>2 DEF P
<1>8. acc[n] = fold[1..n]
  BY <1>0
<1>. HIDE DEF acc
<1>9. StopsThrough(n, s, calls, acc)
  BY <1>5, <1>6, <1>7 DEF StopsThrough
<1>. QED  BY <1>4, <1>8, <1>9 DEF n

\* Of the calls, the blocks that are still open after the first of them are closed.
RestOf(calls, i) == {<<calls[k].index, "tool">> : k \in (i + 1)..Len(calls)}

\* What the client has been told so far, when all are closed but some.
AllBut(events, blocks) ==
    RelapsedIn(events) \/ (ClientOf(events).ok /\ ClientOf(events).open = blocks)

\* Closing all structured calls leaves no tool block open.
LEMMA AllStopped ==
    ASSUME NEW w \in Seq(BlockEvents), NEW s \in Dicts,
           \/ RelapsedIn(Told(w, s))
           \/ \A j, k \in 1..Len(s.calls) : s.calls[j].index = s.calls[k].index => j = k,
           AllBut(Told(w, s), ToolBlocks(s.calls))
    PROVE  LET t == FoldLeft(StopsCall, s, s.calls)
           IN  t \in Dicts /\ Adds(w, t, s, <<>>) /\ AllBut(Told(w, t), {})
<1>. DEFINE calls == s.calls
            n == Len(calls)
<1>1. calls \in Seq(CallBlocks) /\ DOMAIN calls = 1..n /\ n \in Nat
      /\ \A i \in 1..n : calls[i].index \in Nat
  <2>1. calls \in Seq(CallBlocks)
    BY DictIs
  <2>. HIDE DEF calls
  <2>2. \A i \in 1..n : calls[i] \in CallBlocks
    BY <2>1
  <2>. QED  BY <2>1, <2>2 DEF CallBlocks
<1>a. \/ RelapsedIn(Told(w, s))
      \/ \A j, k \in 1..n : calls[j].index = calls[k].index => j = k
  OBVIOUS
<1>b. AllBut(Told(w, s), RestOf(calls, 0))
  <2>1. RestOf(calls, 0) = ToolBlocks(calls)
    BY <1>1 DEF RestOf, ToolBlocks
  <2>. QED  BY <2>1
<1>c. RestOf(calls, n) = {}
  BY <1>1 DEF RestOf
<1>2. PICK acc : StopsThrough(n, s, calls, acc) /\ FoldLeft(StopsCall, s, calls) = acc[n]
  BY <1>1, StopsAreThere
<1>. HIDE DEF calls, n
<1>. DEFINE P == {i \in Nat : i <= n => /\ Adds(w, acc[i], s, <<>>)
                                        /\ RelapsedIn(Told(w, s)) => RelapsedIn(Told(w, acc[i]))
                                        /\ AllBut(Told(w, acc[i]), RestOf(calls, i))}
<1>3. 0 \in P
  BY <1>b, <1>2, AddsNothing DEF StopsThrough
<1>4. ASSUME NEW i \in 1..n, i - 1 \in P PROVE i \in P
  <2>. DEFINE b == <<calls[i].index, "tool">>
              x == acc[i - 1]
              y == acc[i]
  <2>1. i - 1 \in 0..n /\ i - 1 <= n /\ x \in Dicts /\ y = Tells(x, "stop", calls[i].index, "tool", <<>>)
    <3>1. i - 1 \in 0..n /\ i - 1 <= n
      BY <1>1
    <3>. HIDE DEF P
    <3>2. acc[i] = StopsCall(acc[i - 1], calls[i]) /\ acc[i - 1] \in Dicts
      BY <1>2, <3>1 DEF StopsThrough
    <3>. QED  BY <3>1, <3>2 DEF StopsCall
  <2>2. Adds(w, x, s, <<>>) /\ (RelapsedIn(Told(w, s)) => RelapsedIn(Told(w, x))) /\ AllBut(Told(w, x), RestOf(calls, i - 1))
    BY <1>4, <2>1
  <2>. HIDE DEF x, y
  <2>3. StopIn(w, y, x, calls[i].index, "tool")
    BY <1>1, <2>1, StopTold DEF BlockKinds
  <2>4. y \in Dicts /\ Adds(w, y, s, <<>>)
    <3>1. <<>> \in Texts /\ Adds(w, y, x, <<>>)
      BY <2>3 DEF StopIn, Texts
    <3>. QED  BY <2>2, <2>3, <3>1, AddsThen DEF StopIn
  <2>5. ASSUME ~RelapsedIn(Told(w, s))
        PROVE  b \in RestOf(calls, i - 1) /\ RestOf(calls, i - 1) \ {b} = RestOf(calls, i)
    <3>1. \A k : k \in ((i - 1) + 1)..Len(calls) <=> k = i \/ k \in (i + 1)..Len(calls)
      BY <1>1 DEF n
    <3>2. \A k \in (i + 1)..Len(calls) : k \in 1..n /\ k # i
      BY <1>1 DEF n
    <3>3. \A k \in (i + 1)..Len(calls) : <<calls[k].index, "tool">> # b
      BY <1>a, <2>5, <3>2
    <3>. HIDE DEF b
    <3>4. \A z : z \in RestOf(calls, i - 1) <=> z = b \/ z \in RestOf(calls, i)
      BY <3>1 DEF RestOf, b
    <3>5. b \notin RestOf(calls, i)
      BY <3>3 DEF RestOf
    <3>. QED  BY <3>4, <3>5
  <2>6. AllBut(Told(w, y), RestOf(calls, i)) /\ (RelapsedIn(Told(w, s)) => RelapsedIn(Told(w, y)))
    BY <2>2, <2>3, <2>5 DEF AllBut, StopIn
  <2>. QED  BY <2>4, <2>6 DEF y
<1>5. n \in P
  <2>. HIDE DEF P
  <2>. QED  BY <1>1, <1>3, <1>4, UpTo
<1>6. acc[n] \in Dicts /\ Adds(w, acc[n], s, <<>>) /\ AllBut(Told(w, acc[n]), RestOf(calls, n))
  BY <1>1, <1>2, <1>5 DEF StopsThrough
<1>. QED  BY <1>2, <1>6, <1>c DEF calls

\* The message ends, with every block closed.
Concluded(w, t, s) ==
    /\ t \in Dicts /\ Adds(w, t, s, <<>>)
    /\ ClientOf(Told(w, t)).ended
    /\ ClientOf(Told(w, t)).ok \/ RelapsedIn(Told(w, t))

ReplyConcluded(u) ==
    LET v == IF u.text THEN Tells(u, "stop", u.index, "text", <<>>) ELSE u
    IN  Tells(FoldLeft(StopsCall, v, v.calls), "end", 0, "message", <<>>)

\* The end, told when no block is open, ends the reply.
LEMMA EndTold ==
    ASSUME NEW w \in Seq(BlockEvents), NEW s \in Dicts, AllBut(Told(w, s), {})
    PROVE  Concluded(w, Tells(s, "end", 0, "message", <<>>), s)
<1>. DEFINE t == Tells(s, "end", 0, "message", <<>>)
            e == Event("end", 0, "message", <<>>)
            E == Told(w, s)
<1>1. /\ e \in BlockEvents /\ e.event = "end" /\ e.index = 0
      /\ e.kind = "message" /\ e.body = <<>>
  <2>1. <<>> \in Texts /\ "message" \in BlockKinds /\ 0 \in Nat
    BY DEF Texts, BlockKinds
  <2>. QED  BY <2>1, EventIs
<1>. HIDE DEF e
<1>2. Tells1(w, s, s, t, e)
  BY <1>1 DEF Tells1
<1>. HIDE DEF t
<1>3. t \in Dicts /\ Told(w, t) = Append(E, e) /\ Adds(w, t, s, <<>>) /\ E \in Seq(BlockEvents)
  <2>1. Said(e) = <<>>
    BY <1>1 DEF Said
  <2>3. ~(e.kind = "tool" /\ e.body = <<"j">>)
    BY <1>1
  <2>4. E \in Seq(BlockEvents)
    BY ToldIs
  <2>. HIDE DEF E
  <2>5. t \in Dicts /\ Told(w, t) = Append(Told(w, s), e) /\ Adds(w, t, s, Said(e))
    BY <1>2, <2>3, Telling
  <2>. QED  BY <2>1, <2>4, <2>5 DEF E
<1>0. AllBut(E, {})
  OBVIOUS
<1>. HIDE DEF E
<1>4. RelapsedIn(E) => RelapsedIn(Append(E, e))
  BY <1>1, <1>3, RelapseStays
<1>5. ClientOf(E) \in Clients /\ ClientOf(Append(E, e)) = Applies(ClientOf(E), e)
  BY <1>1, <1>3, ClientHears
<1>6. Applies(ClientOf(E), e).ended /\ (Applies(ClientOf(E), e).ok <=> ClientOf(E).ok /\ ClientOf(E).open = {})
  BY <1>1, <1>5, AppliesGives
<1>7. Concluded(w, t, s)
  BY <1>0, <1>3, <1>4, <1>5, <1>6 DEF Concluded, AllBut
<1>. QED  BY <1>7 DEF t

\* The end of a message closes what is open, then ends.
LEMMA ConcludesIs ==
    ASSUME NEW w \in Seq(BlockEvents), NEW u \in Dicts, u.thinking = FALSE, Apart(Told(w, u), u)
    PROVE  Concluded(w, ReplyConcluded(u), u)
<1>. DEFINE E == Told(w, u)
            v == IF u.text THEN Tells(u, "stop", u.index, "text", <<>>) ELSE u
            closed == FoldLeft(StopsCall, v, v.calls)
<1>1. E \in Seq(BlockEvents) /\ ClientOf(E) \in Clients
  BY ToldIs
<1>2. Apart(E, u)
  OBVIOUS
<1>3. u.index \in Nat /\ u.text \in BOOLEAN
  BY DictIs
<1>4. /\ v \in Dicts /\ v.calls = u.calls /\ Adds(w, v, u, <<>>)
      /\ AllBut(Told(w, v), ToolBlocks(u.calls))
      /\ RelapsedIn(E) => RelapsedIn(Told(w, v))
  <2>1. CASE u.text
    <3>. DEFINE x == Tells(u, "stop", u.index, "text", <<>>)
                b == <<u.index, "text">>
    <3>1. StopIn(w, x, u, u.index, "text")
      BY <1>3, StopTold DEF BlockKinds
    <3>2. x.calls = u.calls
      BY DEF Tells, Dicts
    <3>3. v = x
      BY <2>1
    <3>. HIDE DEF x, E, v
    <3>4. ASSUME InStep(ClientOf(E), u)
          PROVE  /\ ClientOf(E).ok /\ b \in ClientOf(E).open
                 /\ ClientOf(E).open \ {b} = ToolBlocks(u.calls)
      <4>1. ClientOf(E).ok /\ ClientOf(E).open = OpenBlocks(u)
        BY <3>4 DEF InStep
      <4>2. OpenBlocks(u) = ToolBlocks(u.calls) \union {b}
        BY <2>1 DEF OpenBlocks
      <4>3. b \notin ToolBlocks(u.calls)
        BY <1>1, InStepIs
      <4>. HIDE DEF b
      <4>. QED  BY <4>1, <4>2, <4>3
    <3>. HIDE DEF b
    <3>5. AllBut(Told(w, x), ToolBlocks(u.calls))
      BY <1>2, <3>1, <3>4 DEF Apart, AllBut, StopIn, E, b
    <3>. QED  BY <3>1, <3>2, <3>3, <3>5 DEF StopIn, E
  <2>2. CASE ~u.text
    <3>1. v = u
      BY <2>2
    <3>. HIDE DEF v
    <3>2. OpenBlocks(u) = ToolBlocks(u.calls)
      BY <2>2 DEF OpenBlocks
    <3>3. AllBut(E, ToolBlocks(u.calls))
      BY <1>2, <3>2 DEF Apart, AllBut, InStep
    <3>. QED  BY <3>1, <3>3, AddsNothing DEF E
  <2>. QED  BY <2>1, <2>2
<1>. HIDE DEF v
<1>5. \/ RelapsedIn(Told(w, v))
      \/ \A j, k \in 1..Len(v.calls) : v.calls[j].index = v.calls[k].index => j = k
  <2>1. CASE InStep(ClientOf(E), u)
    <3>1. \A j, k \in 1..Len(u.calls) : u.calls[j].index = u.calls[k].index => j = k
      <4>. HIDE DEF E
      <4>. QED  BY <1>1, <2>1, InStepIs
    <3>. QED  BY <1>4, <3>1
  <2>2. CASE RelapsedIn(E)
    BY <1>4, <2>2
  <2>. HIDE DEF E
  <2>. QED  BY <1>2, <2>1, <2>2 DEF Apart
<1>6. closed \in Dicts /\ Adds(w, closed, v, <<>>) /\ AllBut(Told(w, closed), {})
  <2>. HIDE DEF E
  <2>1. AllBut(Told(w, v), ToolBlocks(v.calls))
    BY <1>4
  <2>. QED  BY <1>4, <1>5, <2>1, AllStopped
<1>. HIDE DEF closed
<1>. DEFINE x == Tells(closed, "end", 0, "message", <<>>)
<1>7. Concluded(w, x, closed)
  BY <1>6, EndTold
<1>8. ReplyConcluded(u) = x
  BY DEF ReplyConcluded, v, closed
<1>. HIDE DEF x
<1>9. Adds(w, x, u, <<>>)
  <2>. HIDE DEF E
  <2>0. <<>> \in Texts
    BY DEF Texts
  <2>1. Adds(w, closed, u, <<>>)
    BY <1>4, <1>6, <2>0, AddsThen
  <2>. QED  BY <1>7, <2>0, <2>1, AddsThen DEF Concluded
<1>. QED  BY <1>7, <1>8, <1>9 DEF Concluded

-----------------------------------------------------------------------------
(* A reply: the end of a message                                               *)

\* The reasoning that is promoted.
Promoted(n) == [k \in 1..n |-> "w"]

\* Reasoning that is promoted is a text, and empty only when there was none.
LEMMA PromotedIs ==
    ASSUME NEW n \in Nat
    PROVE  Promoted(n) \in Texts /\ (Promoted(n) = <<>> <=> n = 0)
<1>1. "w" \in Symbols
  BY DEF Symbols
<1>2. Promoted(n) \in Texts /\ Len(Promoted(n)) = n
  BY <1>1 DEF Promoted, Texts
<1>. HIDE DEF Promoted
<1>. QED  BY <1>2 DEF Texts

\* What the end of the message shows beside the text that was held back.
Extra(s) ==
    IF ~s.emitted /\ s.buf = <<>> /\ s.calls = <<>> /\ s.reasons > 0 THEN Promoted(s.reasons) ELSE <<>>

\* What the safety net adds at the end is a text.
LEMMA ExtraIs == ASSUME NEW s \in Dicts PROVE Extra(s) \in Texts
BY PromotedIs, DictIs DEF Extra, Texts

\* The end of a message without a call in its text.
LEMMA FinishesText ==
    ASSUME NEW w \in Seq(BlockEvents), NEW s \in Dicts, HeldBack(s), Apart(Told(w, s), s),
           ~(s.buf # <<>> /\ IsCall(s.buf))
    PROVE  LET t == FinishesReply(s)
               E == Told(w, t)
           IN  /\ t \in Dicts /\ ClientOf(E).ended /\ (ClientOf(E).ok \/ RelapsedIn(E))
               /\ (CallIn(E) <=> CallIn(Told(w, s)))
               /\ TextOf(E) = (TextOf(Told(w, s)) \o s.buf) \o Extra(s)
<1>. DEFINE t == CloseThinking(s)
            r == Resolves(t)
            u == Promotes(r, t.buf # <<>> /\ IsCall(t.buf))
            x == ReplyConcluded(u)
<1>1. FinishesReply(s) = x
  BY DEF FinishesReply, ReplyConcluded
<1>2. /\ t \in Dicts /\ t.thinking = FALSE /\ t.text = s.text /\ t.calls = s.calls
      /\ Silent(w, t, s) /\ Apart(Told(w, t), t)
  BY CloseThinkingIs
<1>. HIDE DEF t
<1>3. t.buf = s.buf /\ t.emitted = s.emitted /\ t.reasons = s.reasons /\ Adds(w, t, s, <<>>)
      /\ s.buf \in Texts
  BY <1>2, DictIs DEF Silent, SameText, SameThought
<1>4. /\ r \in Dicts /\ r.thinking = FALSE /\ r.calls = s.calls
      /\ r.emitted = (s.emitted \/ s.buf # <<>>) /\ r.reasons = s.reasons
      /\ Adds(w, r, t, s.buf) /\ Apart(Told(w, r), r)
  BY <1>2, <1>3, ResolvesText
<1>. HIDE DEF r
<1>5. Adds(w, r, s, s.buf)
  BY <1>3, <1>4, AddsThen
<1>6. u \in Dicts /\ u.thinking = FALSE /\ Adds(w, u, r, Extra(s)) /\ Apart(Told(w, u), u)
  <2>. DEFINE p == ~r.emitted /\ r.calls = <<>> /\ r.reasons > 0
  <2>1. ~(t.buf # <<>> /\ IsCall(t.buf))
    BY <1>3
  <2>2. u = IF p THEN EmitText(r, Promoted(r.reasons)) ELSE r
    BY <2>1 DEF Promotes, Promoted
  <2>3. Extra(s) = IF p THEN Promoted(r.reasons) ELSE <<>>
    BY <1>4 DEF Extra
  <2>. HIDE DEF p, u
  <2>4. CASE p
    <3>1. r.reasons \in Nat
      BY <1>4, DictIs
    <3>2. Emitted(w, u, r, Extra(s))
      BY <1>4, <2>2, <2>3, <2>4, <3>1, PromotedIs, EmitTextIs
    <3>. QED  BY <1>4, <3>2 DEF Emitted
  <2>5. CASE ~p
    BY <1>4, <2>2, <2>3, <2>5, AddsNothing
  <2>. QED  BY <2>4, <2>5
<1>. HIDE DEF u
<1>7. Concluded(w, x, u)
  BY <1>6, ConcludesIs
<1>. HIDE DEF x
<1>8. Extra(s) \in Texts
  BY ExtraIs
<1>9. /\ TextOf(Told(w, r)) = TextOf(Told(w, s)) \o s.buf
      /\ TextOf(Told(w, u)) = TextOf(Told(w, r)) \o Extra(s)
      /\ TextOf(Told(w, x)) = TextOf(Told(w, u)) \o <<>>
      /\ TextOf(Told(w, u)) \in Texts
      /\ CallIn(Told(w, x)) <=> CallIn(Told(w, s))
  <2>1. TextOf(Told(w, u)) \in Texts
    BY <1>6, ToldIs
  <2>. QED  BY <1>5, <1>6, <1>7, <2>1, Zenon DEF Adds, Concluded
<1>10. TextOf(Told(w, u)) \o <<>> = TextOf(Told(w, u))
  BY <1>9, ConcatEmptySeq DEF Texts
<1>. QED  BY <1>1, <1>7, <1>9, <1>10 DEF Concluded

\* The end of a message with a call in its text.
LEMMA FinishesCall ==
    ASSUME NEW w \in Seq(BlockEvents), NEW s \in Dicts, HeldBack(s), Apart(Told(w, s), s),
           s.buf # <<>> /\ IsCall(s.buf)
    PROVE  LET t == FinishesReply(s)
               E == Told(w, t)
           IN  /\ t \in Dicts /\ ClientOf(E).ended /\ (ClientOf(E).ok \/ RelapsedIn(E))
               /\ CallIn(E) /\ TextOf(E) = TextOf(Told(w, s))
<1>. DEFINE t == CloseThinking(s)
            r == Resolves(t)
            u == Promotes(r, t.buf # <<>> /\ IsCall(t.buf))
            x == ReplyConcluded(u)
<1>1. FinishesReply(s) = x
  BY DEF FinishesReply, ReplyConcluded
<1>2. /\ t \in Dicts /\ t.thinking = FALSE /\ t.text = s.text /\ t.calls = s.calls
      /\ Silent(w, t, s) /\ Apart(Told(w, t), t)
  BY CloseThinkingIs
<1>. HIDE DEF t
<1>3. t.buf = s.buf /\ Adds(w, t, s, <<>>) /\ t.text = FALSE
  <2>1. s.text = FALSE
    BY DictIs DEF HeldBack
  <2>. QED  BY <1>2, <2>1 DEF Silent, SameText
<1>4. /\ r \in Dicts /\ r.thinking = FALSE
      /\ TextOf(Told(w, r)) = TextOf(Told(w, t)) /\ CallIn(Told(w, r))
      /\ Apart(Told(w, r), r)
  BY <1>2, <1>3, ResolvesCall
<1>. HIDE DEF r
<1>5. u = r
  BY <1>3 DEF Promotes
<1>. HIDE DEF u
<1>6. Concluded(w, x, r)
  BY <1>4, <1>5, ConcludesIs
<1>. HIDE DEF x
<1>7. TextOf(Told(w, x)) = TextOf(Told(w, s)) /\ CallIn(Told(w, x))
  <2>1. TextOf(Told(w, s)) \in Texts /\ TextOf(Told(w, r)) \in Texts
    BY <1>4, ToldIs
  <2>2. \A y \in Texts : y \o <<>> = y
    BY ConcatEmptySeq DEF Texts
  <2>3. /\ TextOf(Told(w, t)) = TextOf(Told(w, s)) \o <<>>
        /\ TextOf(Told(w, x)) = TextOf(Told(w, r)) \o <<>>
        /\ CallIn(Told(w, x)) <=> CallIn(Told(w, r))
    BY <1>3, <1>6, Zenon DEF Adds, Concluded
  <2>. QED  BY <1>4, <2>1, <2>2, <2>3
<1>. QED  BY <1>1, <1>6, <1>7 DEF Concluded

-----------------------------------------------------------------------------
(* A reply: visible text                                                       *)

\* Nothing is told while text is held back.
Holding(w, t, s, decision, buf) ==
    /\ t \in Dicts /\ SameBlocks(t, s) /\ SameThought(t, s)
    /\ t.emitted = s.emitted /\ t.decision = decision /\ t.buf = buf
    /\ Told(w, t) = Told(w, s)
    /\ Apart(Told(w, s), s) => Apart(Told(w, t), t)

\* Holding text back, or deciding what it is, tells nothing.
LEMMA Holds ==
    ASSUME NEW w \in Seq(BlockEvents), NEW s \in Dicts,
           NEW decision \in {"none", "text", "buffer"}, NEW buf \in Texts,
           NEW t, t = [s EXCEPT !.decision = decision, !.buf = buf]
    PROVE  Holding(w, t, s, decision, buf)
<1>1. /\ t \in Dicts /\ SameBlocks(t, s) /\ SameThought(t, s) /\ t.out = s.out
      /\ t.emitted = s.emitted /\ t.decision = decision /\ t.buf = buf
  BY DEF Dicts, Texts, SameBlocks, SameThought
<1>2. Told(w, t) = Told(w, s)
  BY <1>1 DEF Told
<1>3. Apart(Told(w, s), s) => Apart(Told(w, t), t)
  BY <1>1, <1>2 DEF Apart, InStep, OpenBlocks, SameBlocks
<1>. QED  BY <1>1, <1>2, <1>3 DEF Holding

\* A step that shows nothing leaves what is known of the text.
LEMMA NotShown ==
    ASSUME NEW w \in Seq(BlockEvents), NEW s, NEW t, NEW shown, Shown(w, s, shown),
           t \in Dicts, t.text => s.text, Silent(w, t, s), Apart(Told(w, t), t)
    PROVE  Shown(w, t, shown)
<1>1. s \in Dicts /\ HeldBack(s) /\ Says(Told(w, s), s, shown)
  BY DEF Shown
<1>2. TextOf(Told(w, t)) = TextOf(Told(w, s)) /\ (CallIn(Told(w, t)) <=> CallIn(Told(w, s)))
  <2>1. TextOf(Told(w, s)) \in Texts
    BY <1>1, ToldIs
  <2>2. TextOf(Told(w, s)) \o <<>> = TextOf(Told(w, s))
    BY <2>1, ConcatEmptySeq DEF Texts
  <2>. QED  BY <2>2, Zenon DEF Silent, Adds
<1>3. t.emitted = s.emitted /\ t.decision = s.decision /\ t.buf = s.buf
  BY DEF Silent, SameText
<1>4. HeldBack(t)
  BY <1>1, <1>3 DEF HeldBack
<1>5. Says(Told(w, t), t, shown)
  BY <1>1, <1>2, <1>3 DEF Says
<1>. QED  BY <1>4, <1>5 DEF Shown

\* Three texts can be put together in either order.
LEMMA Associates ==
    ASSUME NEW a \in Texts, NEW b \in Texts, NEW c \in Texts
    PROVE  (a \o b) \o c = a \o (b \o c)
BY ConcatAssociative DEF Texts

\* A text with something behind it is not empty.
LEMMA Nonempty ==
    ASSUME NEW t \in Texts, NEW u \in Texts, u # <<>>
    PROVE  t \o u \in Texts /\ t \o u # <<>>
<1>1. Len(t) \in Nat /\ Len(u) \in Nat /\ Len(u) # 0
  BY DEF Texts
<1>2. Len(t \o u) = Len(t) + Len(u) /\ t \o u \in Texts
  BY DEF Texts
<1>3. Len(t \o u) # 0
  BY <1>1, <1>2
<1>. QED  BY <1>2, <1>3

\* Visible text is shown, or held while it may be a call.
LEMMA ShowsIs ==
    ASSUME NEW w \in Seq(BlockEvents), NEW s, NEW shown \in Texts, Shown(w, s, shown),
           NEW text \in Texts
    PROVE  LET t == Shows(s, text)
           IN  Shown(w, t, shown \o text) /\ t.calls = s.calls /\ SameThought(t, s)
<1>. DEFINE t == CloseThinking(s)
            E == Told(w, s)
            more == shown \o text
<1>0. s \in Dicts /\ Says(E, s, shown) /\ HeldBack(s) /\ Apart(Told(w, s), s)
  BY DEF Shown
<1>1. /\ t \in Dicts /\ t.thinking = FALSE /\ t.text = s.text /\ t.calls = s.calls
      /\ Silent(w, t, s) /\ Apart(Told(w, t), t)
  BY <1>0, CloseThinkingIs
<1>. HIDE DEF t
<1>2. Shown(w, t, shown)
  BY <1>1, NotShown
<1>3. Says(Told(w, t), t, shown) /\ HeldBack(t) /\ SameThought(t, s)
  BY <1>1, <1>2 DEF Shown, Silent
<1>. DEFINE T == TextOf(Told(w, t))
<1>4. /\ T \in Texts /\ T \o t.buf = shown /\ t.buf \in Texts
      /\ t.emitted <=> T # <<>>
      /\ ~toolMode => t.decision = "none"
      /\ toolMode /\ t.decision = "none" => T = <<>> /\ Stripped(shown) = <<>>
      /\ t.decision = "buffer" =>
            T = <<>> /\ Stripped(shown) # <<>> /\ Head(Stripped(shown)) \in {"j", "k"}
      /\ t.decision = "text" =>
            Stripped(shown) # <<>> /\ Head(Stripped(shown)) \notin {"j", "k"}
      /\ ~CallIn(Told(w, t))
      /\ t.decision \in {"none", "text", "buffer"}
  <2>1. T \in Texts /\ t.buf \in Texts /\ t.decision \in {"none", "text", "buffer"}
    BY <1>1, ToldIs, DictIs
  <2>. QED  BY <2>1, <1>3 DEF Says
<1>5. /\ t.text => ~toolMode \/ t.decision = "text"
      /\ ~toolMode \/ t.decision = "text" => t.buf = <<>>
  BY <1>3 DEF HeldBack
<1>6. more \in Texts /\ (text # <<>> => more # <<>>)
  BY Nonempty DEF Texts
<1>7. Stripped(shown) # <<>> => Stripped(more) # <<>> /\ Head(Stripped(more)) = Head(Stripped(shown))
  BY StillBegins
<1>. HIDE DEF more
<1>a. CASE text = <<>>
  <2>1. Shows(s, text) = s
    BY <1>a DEF Shows
  <2>2. more = shown
    BY <1>a, ConcatEmptySeq DEF more, Texts
  <2>. QED  BY <2>1, <2>2 DEF more, SameThought
<1>b. CASE text # <<>> /\ (~toolMode \/ t.decision = "text")
  <2>. DEFINE u == EmitText(t, text)
  <2>1. Shows(s, text) = u
    BY <1>b DEF Shows, t
  <2>2. Emitted(w, u, t, text)
    BY <1>1, EmitTextIs
  <2>. HIDE DEF u
  <2>3. /\ u \in Dicts /\ u.calls = t.calls /\ SameThought(u, t) /\ Apart(Told(w, u), u)
        /\ u.emitted = TRUE /\ u.decision = t.decision /\ u.buf = <<>>
        /\ TextOf(Told(w, u)) = T \o text /\ ~CallIn(Told(w, u))
    BY <1>b, <1>1, <1>4, <1>5, <2>2 DEF Emitted, Adds
  <2>4. TextOf(Told(w, u)) = more /\ TextOf(Told(w, u)) # <<>> /\ TextOf(Told(w, u)) \o <<>> = more
    <3>1. T = shown
      BY <1>b, <1>4, <1>5, ConcatEmptySeq, ZenonT(60) DEF Texts
    <3>2. TextOf(Told(w, u)) = more
      BY <2>3, <3>1 DEF more
    <3>3. more \o <<>> = more
      BY <1>6, ConcatEmptySeq DEF Texts
    <3>. QED  BY <1>6, <1>b, <3>2, <3>3
  <2>5. HeldBack(u)
    BY <1>b, <2>3 DEF HeldBack
  <2>6. Says(Told(w, u), u, more)
    BY <1>b, <1>4, <1>7, <2>3, <2>4 DEF Says
  <2>. QED  BY <1>1, <1>3, <2>1, <2>3, <2>5, <2>6 DEF Shown, SameThought, more
<1>c. CASE text # <<>> /\ toolMode /\ t.decision = "buffer"
  <2>. DEFINE u == [t EXCEPT !.buf = @ \o text]
  <2>1. Shows(s, text) = u
    BY <1>c DEF Shows, t
  <2>2. u = [t EXCEPT !.decision = "buffer", !.buf = t.buf \o text] /\ t.buf \o text \in Texts
    <3>1. t.buf \o text \in Texts
      BY <1>4 DEF Texts
    <3>2. u = [t EXCEPT !.decision = "buffer", !.buf = t.buf \o text]
      BY <1>c, <1>1 DEF Dicts
    <3>. QED  BY <3>1, <3>2
  <2>. HIDE DEF u
  <2>3. /\ u \in Dicts /\ SameBlocks(u, t) /\ SameThought(u, t) /\ u.emitted = t.emitted
        /\ u.decision = "buffer" /\ u.buf = t.buf \o text /\ Told(w, u) = Told(w, t)
        /\ Apart(Told(w, u), u)
    <3>1. Holding(w, u, t, "buffer", t.buf \o text)
      BY <1>1, <2>2, Holds
    <3>. QED  BY <1>1, <3>1 DEF Holding
  <2>4. T \o (t.buf \o text) = more
    <3>1. (T \o t.buf) \o text = T \o (t.buf \o text)
      BY <1>4, Associates, ZenonT(60)
    <3>. QED  BY <3>1, <1>4 DEF more
  <2>5. HeldBack(u)
    BY <1>c, <1>5, <2>3 DEF HeldBack, SameBlocks
  <2>6. Says(Told(w, u), u, more)
    BY <1>c, <1>4, <1>7, <2>3, <2>4 DEF Says
  <2>. QED  BY <1>1, <1>3, <2>1, <2>3, <2>5, <2>6 DEF Shown, SameThought, SameBlocks, more
<1>d. CASE text # <<>> /\ toolMode /\ t.decision = "none"
  <2>. DEFINE held == [t EXCEPT !.buf = @ \o text]
              buf == t.buf \o text
  <2>0. T = <<>> /\ t.buf = shown /\ buf = more /\ held.buf = more
    <3>1. T = <<>>
      BY <1>d, <1>4
    <3>2. t.buf = shown
      BY <1>4, <3>1, ConcatEmptySeq DEF Texts
    <3>3. buf = more
      BY <3>2 DEF more
    <3>. QED  BY <1>1, <3>1, <3>2, <3>3 DEF Dicts
  <2>1. CASE Stripped(more) = <<>>
    <3>1. Shows(s, text) = held
      BY <1>d, <2>0, <2>1 DEF Shows, t
    <3>2. held = [t EXCEPT !.decision = "none", !.buf = more]
      BY <1>d, <1>1, <2>0 DEF Dicts
    <3>. HIDE DEF held
    <3>3. /\ held \in Dicts /\ SameBlocks(held, t) /\ SameThought(held, t) /\ held.emitted = t.emitted
          /\ held.decision = "none" /\ held.buf = more /\ Told(w, held) = Told(w, t)
          /\ Apart(Told(w, held), held)
      <4>1. Holding(w, held, t, "none", more)
        BY <1>1, <1>6, <3>2, Holds
      <4>. QED  BY <1>1, <4>1 DEF Holding
    <3>4. HeldBack(held)
      BY <1>d, <1>5, <3>3 DEF HeldBack, SameBlocks
    <3>5. <<>> \o more = more
      BY <1>6, ConcatEmptySeq DEF Texts
    <3>6. Says(Told(w, held), held, more)
      BY <1>d, <1>4, <2>0, <2>1, <3>3, <3>5 DEF Says
    <3>. QED  BY <1>1, <1>3, <3>1, <3>3, <3>4, <3>6 DEF Shown, SameThought, SameBlocks, more
  <2>2. CASE Stripped(more) # <<>> /\ Head(Stripped(more)) \in {"j", "k"}
    <3>. DEFINE u == [held EXCEPT !.decision = "buffer"]
    <3>1. Shows(s, text) = u
      BY <1>d, <2>0, <2>2 DEF Shows, t, LooksLikeCall
    <3>2. u = [t EXCEPT !.decision = "buffer", !.buf = more]
      BY <1>d, <1>1, <2>0 DEF Dicts
    <3>. HIDE DEF u
    <3>3. /\ u \in Dicts /\ SameBlocks(u, t) /\ SameThought(u, t) /\ u.emitted = t.emitted
          /\ u.decision = "buffer" /\ u.buf = more /\ Told(w, u) = Told(w, t)
          /\ Apart(Told(w, u), u)
      <4>1. Holding(w, u, t, "buffer", more)
        BY <1>1, <1>6, <3>2, Holds
      <4>. QED  BY <1>1, <4>1 DEF Holding
    <3>4. HeldBack(u)
      BY <1>d, <1>5, <3>3 DEF HeldBack, SameBlocks
    <3>5. <<>> \o more = more
      BY <1>6, ConcatEmptySeq DEF Texts
    <3>6. Says(Told(w, u), u, more)
      BY <1>d, <1>4, <2>0, <2>2, <3>3, <3>5 DEF Says
    <3>. QED  BY <1>1, <1>3, <3>1, <3>3, <3>4, <3>6 DEF Shown, SameThought, SameBlocks, more
  <2>3. CASE Stripped(more) # <<>> /\ Head(Stripped(more)) \notin {"j", "k"}
    <3>. DEFINE v == [t EXCEPT !.decision = "text", !.buf = <<>>]
                u == EmitText(v, more)
    <3>1. Shows(s, text) = u
      BY <1>d, <2>0, <2>3 DEF Shows, t, LooksLikeCall
    <3>2. /\ v \in Dicts /\ SameBlocks(v, t) /\ SameThought(v, t) /\ v.emitted = t.emitted
          /\ v.decision = "text" /\ v.buf = <<>> /\ Told(w, v) = Told(w, t)
          /\ Apart(Told(w, v), v)
      <4>1. <<>> \in Texts
        BY DEF Texts
      <4>2. v = [t EXCEPT !.decision = "text", !.buf = <<>>]
        OBVIOUS
      <4>. HIDE DEF v
      <4>3. Holding(w, v, t, "text", <<>>)
        BY <1>1, <4>1, <4>2, Holds
      <4>. QED  BY <1>1, <4>3 DEF Holding
    <3>. HIDE DEF v
    <3>3. Emitted(w, u, v, more)
      <4>1. ~v.thinking
        BY <1>1, <3>2 DEF SameBlocks
      <4>. QED  BY <1>6, <3>2, <4>1, EmitTextIs
    <3>. HIDE DEF u
    <3>4. /\ u \in Dicts /\ u.calls = t.calls /\ SameThought(u, t) /\ Apart(Told(w, u), u)
          /\ u.emitted = TRUE /\ u.decision = "text" /\ u.buf = <<>>
          /\ TextOf(Told(w, u)) = T \o more /\ ~CallIn(Told(w, u))
      BY <1>d, <1>4, <1>6, <3>2, <3>3 DEF Emitted, Adds, SameBlocks, SameThought
    <3>5. <<>> \o more = more /\ more \o <<>> = more
      BY <1>6, ConcatEmptySeq DEF Texts
    <3>6. HeldBack(u)
      BY <3>4 DEF HeldBack
    <3>7. Says(Told(w, u), u, more)
      BY <1>d, <1>6, <2>0, <2>3, <3>4, <3>5 DEF Says
    <3>. QED  BY <1>1, <1>3, <3>1, <3>4, <3>6, <3>7 DEF Shown, SameThought, more
  <2>. QED  BY <2>1, <2>2, <2>3
<1>. QED  BY <1>4, <1>a, <1>b, <1>c, <1>d

-----------------------------------------------------------------------------
(* A reply: thoughts                                                           *)

\* What is known of the thoughts changes; the client is told nothing.
LEMMA Remembers ==
    ASSUME NEW w \in Seq(BlockEvents), NEW s, NEW shown, Shown(w, s, shown),
           NEW t \in Dicts, SameBlocks(t, s), SameText(t, s), t.out = s.out
    PROVE  Shown(w, t, shown)
<1>1. Told(w, t) = Told(w, s)
  BY DEF Told
<1>. QED
  BY <1>1 DEF Shown, HeldBack, Says, Apart, InStep, OpenBlocks, SameBlocks, SameText

\* A thought shows no text.
LEMMA ThoughtShown ==
    ASSUME NEW w \in Seq(BlockEvents), NEW s, NEW shown, Shown(w, s, shown), NEW body \in Texts
    PROVE  LET t == ThinkingDelta(s, body)
           IN  Shown(w, t, shown) /\ t.calls = s.calls /\ SameThought(t, s)
<1>. DEFINE t == ThinkingDelta(s, body)
<1>0. s \in Dicts /\ Apart(Told(w, s), s)
  BY DEF Shown
<1>1. /\ Blocks(t, s.index, TRUE, s.text, s.calls) /\ Silent(w, t, s)
      /\ Apart(Told(w, t), t)
  BY <1>0, ThinkingDeltaIs
<1>. HIDE DEF t
<1>2. t \in Dicts /\ t.text = s.text /\ t.calls = s.calls
  BY <1>1 DEF Blocks
<1>3. Shown(w, t, shown)
  BY <1>1, <1>2, NotShown
<1>. QED  BY <1>1, <1>2, <1>3 DEF Silent, t

\* The end of a thought shows no text.
LEMMA ThoughtClosed ==
    ASSUME NEW w \in Seq(BlockEvents), NEW s, NEW shown, Shown(w, s, shown)
    PROVE  LET t == CloseThinking(s)
           IN  Shown(w, t, shown) /\ t.calls = s.calls /\ SameThought(t, s)
<1>. DEFINE t == CloseThinking(s)
<1>0. s \in Dicts /\ Apart(Told(w, s), s)
  BY DEF Shown
<1>1. /\ t \in Dicts /\ t.text = s.text /\ t.calls = s.calls /\ Silent(w, t, s)
      /\ Apart(Told(w, t), t)
  BY <1>0, CloseThinkingIs
<1>. HIDE DEF t
<1>3. Shown(w, t, shown)
  BY <1>1, NotShown
<1>. QED  BY <1>1, <1>3 DEF Silent, t

\* A chunk's reasoning shows no text, and is counted.
LEMMA ReasonsIs ==
    ASSUME NEW w \in Seq(BlockEvents), NEW s, NEW shown, Shown(w, s, shown), NEW chunk \in Pieces
    PROVE  LET t == TakesReasoning(s, chunk)
           IN  /\ Shown(w, t, shown) /\ t.calls = s.calls
               /\ t.carry = s.carry /\ t.thought = s.thought
               /\ t.reasons = s.reasons + (IF chunk.reasoning THEN 1 ELSE 0)
<1>0. s \in Dicts /\ s.reasons \in Nat
  BY DictIs DEF Shown
<1>1. CASE chunk.reasoning
  <2>. DEFINE r == [s EXCEPT !.reasons = @ + 1]
              t == ThinkingDelta(r, <<"w">>)
  <2>1. TakesReasoning(s, chunk) = t
    BY <1>1 DEF TakesReasoning
  <2>2. /\ r \in Dicts /\ SameBlocks(r, s) /\ SameText(r, s) /\ r.out = s.out
        /\ r.carry = s.carry /\ r.thought = s.thought /\ r.reasons = s.reasons + 1
    <3>1. s.reasons + 1 \in Nat
      BY <1>0
    <3>. HIDE DEF t
    <3>. QED  BY <1>0, <3>1 DEF Dicts, SameBlocks, SameText
  <2>3. <<"w">> \in Texts
    BY DEF Texts, Symbols
  <2>. HIDE DEF r
  <2>4. Shown(w, r, shown)
    BY <2>2, Remembers
  <2>5. Shown(w, t, shown) /\ t.calls = r.calls /\ SameThought(t, r)
    BY <2>3, <2>4, ThoughtShown
  <2>. HIDE DEF t
  <2>. QED  BY <1>1, <2>1, <2>2, <2>5 DEF SameThought, SameBlocks
<1>2. CASE ~chunk.reasoning
  <2>1. TakesReasoning(s, chunk) = s
    BY <1>2 DEF TakesReasoning
  <2>. QED  BY <1>0, <1>2, <2>1
<1>. QED  BY <1>1, <1>2

\* What a text delta does while the inline thoughts go on.
ThoughtOn(w, th, s, written) ==
    /\ Shown(w, th.state, <<>>) /\ th.state.calls = s.calls /\ th.state.reasons = s.reasons
    /\ th.text \in Texts
    /\ th.done <=> CloserIn(written) = 0
    /\ ~th.done => Behind(written) = th.text
    /\ th.state.thought <=> CloserIn(written) # 0
    /\ ~th.state.thought => th.state.carry = Kept(written)

\* A part of a text is a text.
LEMMA PartsOf ==
    ASSUME NEW t \in Texts, NEW i \in Nat, NEW j \in Nat, i <= j, j <= Len(t)
    PROVE  SubSeq(t, i + 1, j) \in Texts
<1>1. Len(t) \in Nat /\ \A k \in 1..Len(t) : t[k] \in Symbols
  BY DEF Texts
<1>. QED  BY <1>1 DEF Texts

\* What is carried over is not longer than the text.
LEMMA KeptAtMost ==
    ASSUME NEW t \in Texts
    PROVE  Kept(t) \in Texts /\ Len(Kept(t)) \in Nat /\ Len(Kept(t)) <= Len(t)
<1>1. Kept(t) \in Texts /\ Len(t) \in Nat
  BY KeptIs DEF Texts
<1>2. CASE Kept(t) = <<"<">> /\ Len(t) \in 1..Len(t)
  <2>1. Len(<<"<">>) = 1 /\ Len(t) >= 1
    BY <1>1, <1>2
  <2>. QED  BY <1>1, <1>2, <2>1
<1>3. CASE Kept(t) = <<>>
  <2>1. Len(<<>>) = 0
    OBVIOUS
  <2>. QED  BY <1>1, <1>3, <2>1
<1>. QED  BY <1>2, <1>3, KeptIs

\* Inline thoughts: until the closer nothing is shown, and then all that is behind it.
LEMMA ThinksIs ==
    ASSUME NEW w \in Seq(BlockEvents), NEW s, Shown(w, s, <<>>),
           NEW written \in Texts, CloserIn(written) = 0, s.carry = Kept(written),
           s.thought = FALSE, NEW text \in Texts, text # <<>>
    PROVE  ThoughtOn(w, Thinks(s, text), s, written \o text)
<1>. DEFINE buf == Looked(s.carry, text)
            at == CloserIn(buf)
            before == SubSeq(buf, 1, at - 1)
            shown == SubSeq(buf, 1, Len(buf) - Len(Kept(buf)))
            t == [s EXCEPT !.carry = <<>>]
            d == [t EXCEPT !.thought = TRUE]
            f == IF Stripped(before) = <<>> THEN d ELSE ThinkingDelta(d, before)
            g == [t EXCEPT !.carry = Kept(buf)]
            h == IF shown = <<>> THEN g ELSE ThinkingDelta(g, shown)
            th == Thinks(s, text)
            all == written \o text
<1>0. s \in Dicts
  BY DEF Shown
<1>1. th = IF at > 0
           THEN [state |-> CloseThinking(f), text |-> SubSeq(buf, at + 2, Len(buf)), done |-> FALSE]
           ELSE [state |-> h, text |-> <<>>, done |-> TRUE]
  BY DEF Thinks, Looked
<1>2. /\ buf \in Texts /\ at \in 0..Len(buf) /\ Len(buf) \in Nat
      /\ CloserIn(all) = 0 <=> at = 0
      /\ at # 0 => Behind(all) = Behind(buf)
      /\ Kept(all) = Kept(buf)
  <2>. HIDE DEF buf, all
  <2>1. PICK k : Follows(all, buf, k)
    BY LookedFollows DEF buf, all
  <2>2. Kept(all) = Kept(buf)
    BY LookedFollows DEF buf, all
  <2>3. buf \in Texts /\ k \in Nat /\ Len(buf) \in Nat
    BY <2>1 DEF Follows, Texts
  <2>4. at \in 0..Len(buf)
    BY <2>3, CloserIs
  <2>5. /\ CloserIn(all) = (IF at = 0 THEN 0 ELSE k + at)
        /\ at # 0 => CloserIn(all) # 0 /\ Behind(all) = Behind(buf)
    BY <2>1, CloserFollows
  <2>. QED  BY <2>2, <2>3, <2>4, <2>5
<1>. HIDE DEF buf, all
<1>3. at # 0 => ClosesAt(buf, at)
  BY <1>2, CloserIs
<1>4. Kept(buf) \in Texts /\ Len(Kept(buf)) \in Nat /\ Len(Kept(buf)) <= Len(buf)
  BY <1>2, KeptAtMost
<1>5. t \in Dicts /\ d \in Dicts /\ g \in Dicts
      /\ SameBlocks(d, s) /\ SameText(d, s) /\ d.out = s.out /\ d.reasons = s.reasons /\ d.thought = TRUE
      /\ SameBlocks(g, s) /\ SameText(g, s) /\ g.out = s.out /\ g.reasons = s.reasons
      /\ g.thought = FALSE /\ g.carry = Kept(buf)
  <2>1. <<>> \in Seq(Symbols) /\ Kept(buf) \in Seq(Symbols)
    BY <1>4 DEF Texts
  <2>2. t \in Dicts /\ SameBlocks(t, s) /\ SameText(t, s) /\ t.out = s.out /\ t.reasons = s.reasons
        /\ t.thought = FALSE
    BY <1>0, <2>1 DEF Dicts, SameBlocks, SameText
  <2>. HIDE DEF t
  <2>3. d \in Dicts /\ SameBlocks(d, t) /\ SameText(d, t) /\ d.out = t.out /\ d.reasons = t.reasons /\ d.thought = TRUE
    BY <2>2 DEF Dicts, SameBlocks, SameText
  <2>4. g \in Dicts /\ SameBlocks(g, t) /\ SameText(g, t) /\ g.out = t.out /\ g.reasons = t.reasons
        /\ g.thought = FALSE /\ g.carry = Kept(buf)
    BY <2>1, <2>2 DEF Dicts, SameBlocks, SameText
  <2>. HIDE DEF d, g
  <2>. QED  BY <2>2, <2>3, <2>4 DEF SameBlocks, SameText
<1>. HIDE DEF t, d, g
<1>6. Shown(w, d, <<>>) /\ Shown(w, g, <<>>)
  BY <1>5, Remembers
<1>a. CASE at > 0
  <2>1. before \in Texts
    <3>1. at - 1 \in Nat /\ at - 1 <= Len(buf)
      BY <1>2, <1>a
    <3>2. SubSeq(buf, 0 + 1, at - 1) \in Texts
      BY <1>2, <3>1, PartsOf
    <3>. QED  BY <3>2
  <2>. HIDE DEF before
  <2>2. Shown(w, f, <<>>) /\ f.calls = d.calls /\ SameThought(f, d)
    <3>1. CASE Stripped(before) = <<>>
      BY <1>6, <3>1 DEF SameThought
    <3>2. CASE Stripped(before) # <<>>
      <4>1. f = ThinkingDelta(d, before)
        BY <3>2
      <4>. HIDE DEF f
      <4>. QED  BY <1>6, <2>1, <4>1, ThoughtShown
    <3>. QED  BY <3>1, <3>2
  <2>. HIDE DEF f
  <2>. DEFINE x == CloseThinking(f)
  <2>3. Shown(w, x, <<>>) /\ x.calls = f.calls /\ SameThought(x, f)
    BY <2>2, ThoughtClosed
  <2>. HIDE DEF x
  <2>4. th.state = x /\ th.text = Behind(buf) /\ th.done = FALSE
    <3>1. th = [state |-> x, text |-> SubSeq(buf, at + 2, Len(buf)), done |-> FALSE]
      BY <1>1, <1>a DEF x
    <3>2. SubSeq(buf, at + 2, Len(buf)) = Behind(buf)
      BY DEF Behind
    <3>. HIDE DEF th, at
    <3>. QED  BY <3>1, <3>2
  <2>5. Behind(buf) \in Texts
    <3>1. at + 1 \in Nat /\ at + 1 <= Len(buf) /\ at + 2 = (at + 1) + 1 /\ Len(buf) <= Len(buf)
      BY <1>2, <1>3, <1>a DEF ClosesAt, IsCloser
    <3>2. SubSeq(buf, (at + 1) + 1, Len(buf)) \in Texts
      BY <1>2, <3>1, PartsOf
    <3>. QED  BY <3>1, <3>2 DEF Behind
  <2>6. at # 0
    BY <1>2, <1>a
  <2>. HIDE DEF th, at
  <2>7. x.calls = s.calls /\ x.reasons = s.reasons /\ x.thought = TRUE
    BY <1>5, <2>2, <2>3 DEF SameThought, SameBlocks
  <2>. QED  BY <1>2, <2>3, <2>4, <2>5, <2>6, <2>7 DEF ThoughtOn, th, all
<1>b. CASE ~(at > 0)
  <2>1. shown \in Texts
    <3>. DEFINE m == Len(buf) - Len(Kept(buf))
    <3>1. m \in Nat /\ m <= Len(buf)
      BY <1>2, <1>4
    <3>. HIDE DEF m
    <3>2. SubSeq(buf, 0 + 1, m) \in Texts
      BY <1>2, <3>1, PartsOf
    <3>. QED  BY <3>2 DEF m
  <2>. HIDE DEF shown
  <2>2. Shown(w, h, <<>>) /\ h.calls = g.calls /\ SameThought(h, g)
    <3>1. CASE shown = <<>>
      BY <1>6, <3>1 DEF SameThought
    <3>2. CASE shown # <<>>
      <4>1. h = ThinkingDelta(g, shown)
        BY <3>2
      <4>. HIDE DEF h
      <4>. QED  BY <1>6, <2>1, <4>1, ThoughtShown
    <3>. QED  BY <3>1, <3>2
  <2>. HIDE DEF h
  <2>4. th.state = h /\ th.text = <<>> /\ th.done = TRUE
    BY <1>1, <1>b
  <2>5. at = 0 /\ <<>> \in Texts
    BY <1>2, <1>b DEF Texts
  <2>. HIDE DEF th, at
  <2>6. h.calls = s.calls /\ h.reasons = s.reasons /\ h.thought = FALSE /\ h.carry = Kept(buf)
    BY <1>5, <2>2 DEF SameThought, SameBlocks
  <2>. QED  BY <1>2, <2>2, <2>4, <2>5, <2>6 DEF ThoughtOn, th, all
<1>. QED  BY <1>a, <1>b

-----------------------------------------------------------------------------
(* A reply: a chunk                                                            *)

\* The inline thoughts go on to the end of the chunk.
Swallows(chunk, written) == strip /\ chunk.content # <<>> /\ CloserIn(written) = 0

\* What a chunk does before its finish_reason is looked at.
Opened(s, chunk) ==
    LET r == TakesReasoning(s, chunk)
        th == IF strip /\ ~r.thought /\ chunk.content # <<>>
              THEN Thinks(r, chunk.content)
              ELSE [state |-> r, text |-> chunk.content, done |-> FALSE]
    IN  IF th.done THEN th.state ELSE FoldLeft(Call, Shows(th.state, th.text), chunk.calls)

ToldOn(w, t, s, chunk, written) ==
    /\ Shown(w, t, Visible(written)) /\ Carries(t, written)
    /\ t.reasons = s.reasons + (IF chunk.reasoning THEN 1 ELSE 0)
    /\ t.calls = <<>> <=> s.calls = <<>> /\ (chunk.calls = <<>> \/ Swallows(chunk, written))
    /\ Translate(s, chunk) =
          IF chunk.finish /\ ~Swallows(chunk, written) THEN FinishesReply(t) ELSE t

ThoughtTo(w, th, s, written) ==
    /\ Shown(w, th.state, <<>>) /\ Carries(th.state, written)
    /\ th.state.calls = s.calls /\ th.state.reasons = s.reasons
    /\ th.text \in Texts
    /\ ~th.done => Visible(written) = th.text
    /\ th.done => Visible(written) = <<>>
    /\ th.done <=> CloserIn(written) = 0

\* The same, said of all that the model wrote so far.
LEMMA ThoughtOnIs ==
    ASSUME NEW w \in Seq(BlockEvents), NEW s, NEW written \in Texts, NEW th,
           strip, ThoughtOn(w, th, s, written)
    PROVE  ThoughtTo(w, th, s, written)
<1>1. CloserIn(written) \in Nat
  <2>1. CloserIn(written) \in 0..Len(written) /\ Len(written) \in Nat
    BY CloserIs DEF Texts
  <2>. QED  BY <2>1
<1>2. CloserIn(written) # 0 <=> CloserIn(written) > 0
  BY <1>1
<1>3. CloserIn(written) = 0 => Visible(written) = <<>>
  BY DEF Visible
<1>4. CloserIn(written) # 0 => Visible(written) = Behind(written)
  BY DEF Visible, Behind
<1>5. Carries(th.state, written)
  BY <1>2 DEF ThoughtOn, Carries
<1>. QED  BY <1>3, <1>4, <1>5 DEF ThoughtOn, ThoughtTo

\* Text and tool calls of a chunk, from where its thoughts end.
Rests(w, t, s, shown, ids) ==
    /\ Shown(w, t, shown) /\ SameThought(t, s)
    /\ t.calls = <<>> <=> s.calls = <<>> /\ ids = <<>>

\* The text and the calls of a chunk, once inline thoughts are over.
LEMMA OpensRest ==
    ASSUME NEW w \in Seq(BlockEvents), NEW s, NEW shown \in Texts, Shown(w, s, shown),
           NEW text \in Texts, NEW ids \in Seq(Nat)
    PROVE  Rests(w, FoldLeft(Call, Shows(s, text), ids), s, shown \o text, ids)
<1>. DEFINE x == Shows(s, text)
            t == FoldLeft(Call, x, ids)
            more == shown \o text
<1>1. Shown(w, x, more) /\ x.calls = s.calls /\ SameThought(x, s)
  BY ShowsIs
<1>. HIDE DEF x, more
<1>2. x \in Dicts /\ Apart(Told(w, x), x)
  BY <1>1 DEF Shown
<1>3. Called(w, t, x) /\ (t.calls = <<>> <=> x.calls = <<>> /\ ids = <<>>)
  BY <1>2, AllCalled
<1>. HIDE DEF t
<1>4. Shown(w, t, more)
  BY <1>1, <1>2, <1>3, NotShown DEF Called
<1>5. SameThought(t, s) /\ (t.calls = <<>> <=> s.calls = <<>> /\ ids = <<>>)
  BY <1>1, <1>3 DEF Called, Silent, SameThought
<1>. QED  BY <1>4, <1>5 DEF Rests, more, t, x

\* A chunk up to its end shows what its content adds to the visible text.
LEMMA OpenedIs ==
    ASSUME NEW w \in Seq(BlockEvents), NEW s, NEW written \in Texts,
           Shown(w, s, Visible(written)), Carries(s, written), NEW chunk \in Pieces
    PROVE  ToldOn(w, Opened(s, chunk), s, chunk, written \o chunk.content)
<1>. DEFINE r == TakesReasoning(s, chunk)
            th == IF strip /\ ~r.thought /\ chunk.content # <<>>
                  THEN Thinks(r, chunk.content)
                  ELSE [state |-> r, text |-> chunk.content, done |-> FALSE]
            all == written \o chunk.content
            y == Opened(s, chunk)
            V == Visible(written)
<1>0. chunk.content \in Texts /\ chunk.calls \in Seq(Nat) /\ all \in Texts
      /\ (chunk.content = <<>> => all = written)
  <2>1. chunk.content \in Texts /\ chunk.calls \in Seq(Nat)
    BY DEF Pieces, Texts
  <2>2. all \in Texts
    BY <2>1 DEF Texts
  <2>3. written \o <<>> = written
    BY ConcatEmptySeq DEF Texts
  <2>. QED  BY <2>1, <2>2, <2>3
<1>1. y = IF th.done THEN th.state ELSE FoldLeft(Call, Shows(th.state, th.text), chunk.calls)
  BY DEF Opened
<1>t. Translate(s, chunk) = IF th.done THEN y ELSE IF chunk.finish THEN FinishesReply(y) ELSE y
  <2>1. Translate(s, chunk) =
            IF th.done THEN th.state
            ELSE IF chunk.finish THEN FinishesReply(FoldLeft(Call, Shows(th.state, th.text), chunk.calls))
                 ELSE FoldLeft(Call, Shows(th.state, th.text), chunk.calls)
    BY DEF Translate
  <2>. HIDE DEF th, y
  <2>. QED  BY <1>1, <2>1
<1>2. /\ Shown(w, r, V) /\ r.calls = s.calls /\ r.carry = s.carry /\ r.thought = s.thought
      /\ r.reasons = s.reasons + (IF chunk.reasoning THEN 1 ELSE 0)
  BY ReasonsIs
<1>3. r.thought \in BOOLEAN
  BY <1>2, DictIs DEF Shown
<1>. HIDE DEF r, y, V
<1>4. strip => /\ r.thought <=> CloserIn(written) # 0
               /\ ~r.thought => r.carry = Kept(written)
  <2>1. CloserIn(written) \in Nat
    <3>1. CloserIn(written) \in 0..Len(written) /\ Len(written) \in Nat
      BY CloserIs DEF Texts
    <3>. QED  BY <3>1
  <2>2. CloserIn(written) > 0 <=> CloserIn(written) # 0
    BY <2>1
  <2>. QED  BY <1>2, <2>2 DEF Carries
<1>5. V \in Texts /\ (strip /\ ~r.thought => V = <<>>)
  <2>1. V = IF ~strip THEN written ELSE IF CloserIn(written) = 0 THEN <<>> ELSE Behind(written)
    BY DEF V, Visible, Behind
  <2>2. CloserIn(written) # 0 => Behind(written) \in Texts
    <3>1. ASSUME CloserIn(written) # 0 PROVE Behind(written) \in Texts
      <4>. DEFINE at == CloserIn(written)
      <4>1. ClosesAt(written, at) /\ Len(written) \in Nat
        BY <3>1, CloserIs DEF Texts
      <4>. HIDE DEF at
      <4>2. at + 1 \in Nat /\ at + 1 <= Len(written) /\ at + 2 = (at + 1) + 1 /\ Len(written) <= Len(written)
        BY <4>1 DEF ClosesAt, IsCloser
      <4>3. SubSeq(written, (at + 1) + 1, Len(written)) \in Texts
        BY <4>1, <4>2, PartsOf
      <4>. QED  BY <4>2, <4>3 DEF Behind, at
    <3>. QED  BY <3>1
  <2>3. <<>> \in Texts
    BY DEF Texts
  <2>. QED  BY <1>4, <2>1, <2>2, <2>3
<1>. HIDE DEF all
<1>a. CASE strip /\ ~r.thought /\ chunk.content # <<>>
  <2>1. th = Thinks(r, chunk.content)
    BY <1>a
  <2>2. ThoughtOn(w, th, r, all)
    <3>1. Shown(w, r, <<>>) /\ CloserIn(written) = 0 /\ r.carry = Kept(written) /\ r.thought = FALSE
      BY <1>a, <1>2, <1>3, <1>4, <1>5
    <3>. HIDE DEF th
    <3>. QED  BY <1>0, <1>a, <2>1, <3>1, ThinksIs DEF all
  <2>. HIDE DEF th
  <2>3. /\ Shown(w, th.state, <<>>) /\ Carries(th.state, all)
        /\ th.state.calls = r.calls /\ th.state.reasons = r.reasons
        /\ th.text \in Texts
        /\ ~th.done => Visible(all) = th.text
        /\ th.done => Visible(all) = <<>>
        /\ th.done <=> CloserIn(all) = 0
    <3>1. strip /\ all \in Texts
      BY <1>0, <1>a, Zenon
    <3>2. ThoughtTo(w, th, r, all)
      BY <2>2, <3>1, ThoughtOnIs
    <3>. QED  BY <3>2 DEF ThoughtTo
  <2>4. th.done <=> Swallows(chunk, all)
    BY <1>a, <2>3 DEF Swallows
  <2>5. CASE th.done
    <3>1. y = th.state
      BY <1>1, <2>5
    <3>. QED  BY <1>t, <1>2, <2>3, <2>4, <2>5, <3>1 DEF ToldOn, y, all
  <2>6. CASE ~th.done
    <3>1. y = FoldLeft(Call, Shows(th.state, th.text), chunk.calls)
      BY <1>1, <2>6
    <3>2. <<>> \in Texts /\ <<>> \o th.text = th.text
      BY <2>3, ConcatEmptySeq DEF Texts
    <3>3. /\ Shown(w, y, <<>> \o th.text) /\ SameThought(y, th.state)
          /\ y.calls = <<>> <=> th.state.calls = <<>> /\ chunk.calls = <<>>
      <4>1. Rests(w, y, th.state, <<>> \o th.text, chunk.calls)
        BY <1>0, <2>3, <3>1, <3>2, OpensRest
      <4>. QED  BY <4>1 DEF Rests
    <3>4. Carries(y, all)
      BY <2>3, <3>3 DEF Carries, SameThought
    <3>. QED  BY <1>t, <1>2, <2>3, <2>4, <2>6, <3>2, <3>3, <3>4 DEF ToldOn, y, all, SameThought
  <2>. QED  BY <2>5, <2>6
<1>b. CASE ~(strip /\ ~r.thought /\ chunk.content # <<>>)
  <2>1. th.state = r /\ th.text = chunk.content /\ th.done = FALSE
    BY <1>b
  <2>2. y = FoldLeft(Call, Shows(r, chunk.content), chunk.calls)
    BY <1>1, <2>1
  <2>. HIDE DEF th
  <2>3. /\ Shown(w, y, V \o chunk.content) /\ SameThought(y, r)
        /\ y.calls = <<>> <=> r.calls = <<>> /\ chunk.calls = <<>>
    <3>1. Rests(w, y, r, V \o chunk.content, chunk.calls)
      BY <1>0, <1>2, <1>5, <2>2, OpensRest
    <3>. QED  BY <3>1 DEF Rests
  <2>4. Visible(all) = V \o chunk.content /\ Carries(y, all) /\ ~Swallows(chunk, all)
    <3>1. CASE ~strip
      BY <3>1 DEF Visible, V, all, Carries, Swallows
    <3>2. CASE strip /\ r.thought
      <4>1. CloserIn(written) # 0
        BY <1>4, <3>2
      <4>2. CloserIn(all) # 0 /\ Behind(all) = Behind(written) \o chunk.content
        BY <1>0, <4>1, WritesOn DEF all
      <4>3. Visible(all) = Behind(all) /\ V = Behind(written)
        BY <3>2, <4>1, <4>2 DEF Visible, V, Behind
      <4>4. CloserIn(all) > 0
        <5>1. CloserIn(all) \in 0..Len(all) /\ Len(all) \in Nat
          BY <1>0, CloserIs DEF Texts
        <5>. QED  BY <4>2, <5>1
      <4>5. Carries(y, all)
        BY <2>3, <3>2, <4>4 DEF Carries, SameThought
      <4>. QED  BY <4>2, <4>3, <4>5 DEF Swallows
    <3>3. CASE strip /\ ~r.thought /\ chunk.content = <<>>
      <4>1. V \o <<>> = V
        BY <1>5, ConcatEmptySeq DEF Texts
      <4>2. Carries(r, written)
        BY <1>2 DEF Carries
      <4>. QED  BY <1>0, <2>3, <3>3, <4>1, <4>2 DEF V, Carries, Swallows, SameThought
    <3>. QED  BY <1>b, <3>1, <3>2, <3>3
  <2>. QED  BY <1>t, <1>2, <2>1, <2>3, <2>4 DEF ToldOn, y, all, SameThought
<1>. QED  BY <1>a, <1>b

-----------------------------------------------------------------------------
(* A reply: what has been received                                             *)

\* What the model wrote, with a chunk more.
LEMMA ContentAppends ==
    ASSUME NEW some \in Seq(Pieces), NEW chunk \in Pieces
    PROVE  /\ ContentOf(some) \in Texts
           /\ ContentOf(Append(some, chunk)) = ContentOf(some) \o chunk.content
<1>. DEFINE n == Len(some)
            s == [i \in 1..n |-> some[i].content]
            more == Append(some, chunk)
            t == [i \in 1..(n + 1) |-> more[i].content]
<1>1. n \in Nat /\ DOMAIN some = 1..n /\ \A i \in 1..n : some[i] \in Pieces
  OBVIOUS
<1>2. /\ DOMAIN more = 1..(n + 1) /\ more[n + 1] = chunk
      /\ \A i \in 1..n : more[i] = some[i]
  OBVIOUS
<1>3. ContentOf(some) = FlattenSeq(s) /\ ContentOf(more) = FlattenSeq(t)
  BY <1>1, <1>2 DEF ContentOf
<1>. HIDE DEF more, n
<1>4. \A p \in Pieces : p.content \in Seq(Symbols)
  BY DEF Pieces
<1>5. s \in [1..n -> Seq(Symbols)]
  BY <1>1, <1>4
<1>6. \A i \in 1..(n + 1) : i \in 1..n \/ i = n + 1
  BY <1>1
<1>7. t \in [1..(n + 1) -> Seq(Symbols)]
  <2>1. \A i \in 1..(n + 1) : more[i] \in Pieces
    BY <1>1, <1>2, <1>6
  <2>. QED  BY <1>4, <2>1
<1>8. \A i \in 1..n : s[i] = t[i]
  BY <1>1, <1>2
<1>9. t[n + 1] = chunk.content
  BY <1>1, <1>2
<1>. HIDE DEF s, t
<1>10. FlattenSeq(s) \in Seq(Symbols) /\ FlattenSeq(t) = FlattenSeq(s) \o t[n + 1]
  BY <1>1, <1>5, <1>7, <1>8, FlattenAppends
<1>. QED  BY <1>3, <1>9, <1>10 DEF more, Texts

\* What the model wrote before its first chunk.
LEMMA ContentAtFirst == ContentOf(<<>>) = <<>>
<1>. DEFINE s == [i \in DOMAIN <<>> |-> <<>>[i].content]
<1>1. s \in [1..0 -> Seq(Symbols)] /\ Len(s) = 0
  OBVIOUS
<1>2. FlattenSeq(s) = <<>>
  BY <1>1 DEF FlattenSeq
<1>. QED  BY <1>2 DEF ContentOf

\* What was received before stays where it was.
LEMMA ChunkAppends ==
    ASSUME NEW some \in Seq(Pieces), NEW chunk \in Pieces
    PROVE  LET more == Append(some, chunk)
               n == Len(some)
           IN  /\ n \in Nat /\ DOMAIN some = 1..n /\ DOMAIN more = 1..n \union {n + 1}
               /\ n + 1 \notin 1..n
               /\ more \in Seq(Pieces) /\ more[n + 1] = chunk /\ SubSeq(more, 1, n + 1) = more
               /\ \A i \in 1..n : more[i] = some[i] /\ SubSeq(more, 1, i) = SubSeq(some, 1, i)
<1>. DEFINE more == Append(some, chunk)
            n == Len(some)
<1>1. n \in Nat /\ DOMAIN some = 1..n /\ n + 1 \notin 1..n
  OBVIOUS
<1>2. /\ more \in Seq(Pieces) /\ Len(more) = n + 1 /\ DOMAIN more = 1..(n + 1)
      /\ more[n + 1] = chunk
      /\ \A i \in 1..n : more[i] = some[i]
  OBVIOUS
<1>3. 1..(n + 1) = 1..n \union {n + 1}
  <2>. HIDE DEF n
  <2>. QED  BY <1>1
<1>. HIDE DEF more, n
<1>4. SubSeq(more, 1, n + 1) = more
  BY <1>1, <1>2
<1>5. ASSUME NEW i \in 1..n PROVE SubSeq(more, 1, i) = SubSeq(some, 1, i)
  BY <1>1, <1>2
<1>. QED  BY <1>1, <1>2, <1>3, <1>4, <1>5 DEF more, n

\* What is known of the chunks received, with one more.
LEMMA Received ==
    ASSUME chunks \in Seq(Pieces), NEW chunk \in Pieces, chunks' = Append(chunks, chunk),
           strip' = strip
    PROVE  /\ chunks' \in Seq(Pieces)
           /\ Content \in Texts /\ Content' \in Texts /\ Content' = Content \o chunk.content
           /\ HasCalls' <=> HasCalls \/ chunk.calls # <<>>
           /\ HasReasoning' <=> HasReasoning \/ chunk.reasoning
           /\ Finished' <=> Finished \/ chunk.finish
           /\ Swallowed' <=>
                  Swallowed \/ (Swallows(chunk, Content') /\ (chunk.finish \/ chunk.calls # <<>>))
<1>. DEFINE n == Len(chunks)
            more == Append(chunks, chunk)
<1>1. /\ n \in Nat /\ DOMAIN chunks = 1..n /\ DOMAIN more = 1..n \union {n + 1}
      /\ more \in Seq(Pieces) /\ more[n + 1] = chunk /\ SubSeq(more, 1, n + 1) = more
      /\ \A i \in 1..n : more[i] = chunks[i] /\ SubSeq(more, 1, i) = SubSeq(chunks, 1, i)
  BY ChunkAppends
<1>. HIDE DEF n
<1>2. Content' = ContentOf(more) /\ ContentOf(more) = Content \o chunk.content /\ Content \in Texts
  <2>1. Content' = ContentOf(more)
    BY DEF Content, ContentOf
  <2>. QED  BY <2>1, ContentAppends DEF Content
<1>3. Content' \in Texts
  <2>1. chunk.content \in Texts
    BY DEF Pieces, Texts
  <2>. QED  BY <1>2, <2>1 DEF Texts
<1>. HIDE DEF more
<1>4. chunks' = more
  BY DEF more
<1>5. HasCalls' <=> HasCalls \/ chunk.calls # <<>>
  BY <1>1, <1>4 DEF HasCalls
<1>6. HasReasoning' <=> HasReasoning \/ chunk.reasoning
  BY <1>1, <1>4 DEF HasReasoning
<1>7. Finished' <=> Finished \/ chunk.finish
  BY <1>1, <1>4 DEF Finished
<1>8. Swallowed' <=>
          Swallowed \/ (Swallows(chunk, Content') /\ (chunk.finish \/ chunk.calls # <<>>))
  <2>. DEFINE Sw(c, i) == /\ strip
                          /\ c[i].content # <<>>
                          /\ c[i].finish \/ c[i].calls # <<>>
                          /\ CloserIn(ContentOf(SubSeq(c, 1, i))) = 0
  <2>1. Swallowed <=> \E i \in 1..n : Sw(chunks, i)
    BY <1>1 DEF Swallowed
  <2>2. Swallowed' <=> \E i \in 1..n \union {n + 1} : Sw(more, i)
    BY <1>1, <1>4 DEF Swallowed
  <2>3. \A i \in 1..n : Sw(more, i) <=> Sw(chunks, i)
    BY <1>1
  <2>4. Sw(more, n + 1) <=> Swallows(chunk, Content') /\ (chunk.finish \/ chunk.calls # <<>>)
    BY <1>1, <1>2 DEF Swallows
  <2>. HIDE DEF Sw
  <2>. QED  BY <2>1, <2>2, <2>3, <2>4
<1>. QED  BY <1>1, <1>2, <1>3, <1>4, <1>5, <1>6, <1>7, <1>8

\* How many chunks held reasoning.
LEMMA ReasonedIs ==
    ASSUME chunks \in Seq(Pieces)
    PROVE  /\ IsFiniteSet(Reasoned) /\ Cardinality(Reasoned) \in Nat
           /\ HasReasoning <=> Cardinality(Reasoned) # 0
<1>1. Len(chunks) \in Nat /\ DOMAIN chunks = 1..Len(chunks)
  OBVIOUS
<1>2. IsFiniteSet(1..Len(chunks))
  BY <1>1, FS_Interval
<1>3. IsFiniteSet(Reasoned)
  <2>1. Reasoned \subseteq 1..Len(chunks)
    BY <1>1 DEF Reasoned
  <2>. QED  BY <1>2, <2>1, FS_Subset
<1>4. HasReasoning <=> Reasoned # {}
  BY DEF HasReasoning, Reasoned
<1>5. Cardinality(Reasoned) = 0 <=> Reasoned = {}
  BY <1>3, FS_EmptySet
<1>. QED  BY <1>3, <1>4, <1>5, FS_CardinalityType

\* The chunks with reasoning, with one more.
LEMMA ReasonedGrows ==
    ASSUME chunks \in Seq(Pieces), NEW chunk \in Pieces, chunks' = Append(chunks, chunk)
    PROVE  Cardinality(Reasoned') = Cardinality(Reasoned) + (IF chunk.reasoning THEN 1 ELSE 0)
<1>. DEFINE n == Len(chunks)
            more == Append(chunks, chunk)
            R == {i \in DOMAIN more : more[i].reasoning}
<1>1. /\ n \in Nat /\ DOMAIN chunks = 1..n /\ DOMAIN more = 1..n \union {n + 1}
      /\ n + 1 \notin 1..n /\ more[n + 1] = chunk
      /\ \A i \in 1..n : more[i] = chunks[i]
  BY ChunkAppends
<1>2. Reasoned' = R
  BY DEF Reasoned
<1>. HIDE DEF n, more
<1>3. IsFiniteSet(Reasoned) /\ Cardinality(Reasoned) \in Nat
  BY ReasonedIs
<1>4. n + 1 \notin Reasoned
  BY <1>1 DEF Reasoned
<1>5. CASE chunk.reasoning
  <2>1. R = Reasoned \union {n + 1}
    BY <1>1, <1>5 DEF Reasoned
  <2>2. Cardinality(R) = Cardinality(Reasoned) + 1
    BY <1>3, <1>4, <2>1, FS_AddElement
  <2>. QED  BY <1>2, <1>5, <2>2
<1>6. CASE ~chunk.reasoning
  <2>1. R = Reasoned
    BY <1>1, <1>6 DEF Reasoned
  <2>2. (IF chunk.reasoning THEN 1 ELSE 0) = 0
    BY <1>6
  <2>. HIDE DEF R
  <2>. QED  BY <1>2, <1>3, <2>1, <2>2
<1>. QED  BY <1>5, <1>6

-----------------------------------------------------------------------------
(* A reply: the end                                                            *)

\* The reply has ended with its last chunk, of which y was the dict.
EndsWell ==
    /\ chunks \in Seq(Pieces)
    /\ \E w \in Seq(BlockEvents), y \in Dicts :
          /\ Shown(w, y, Visible(Content))
          /\ y.reasons = Cardinality(Reasoned)
          /\ ~Swallowed => (HasCalls <=> y.calls # <<>>)
          /\ wire = Told(w, FinishesReply(y))

\* What the model wrote is a text, and so is what is visible of it.
LEMMA ContentIs ==
    ASSUME chunks \in Seq(Pieces)
    PROVE  Content \in Texts /\ Visible(Content) \in Texts
<1>1. [reasoning |-> FALSE, content |-> <<>>, calls |-> <<>>, finish |-> FALSE] \in Pieces
  BY DEF Pieces
<1>2. Content \in Texts
  BY <1>1, ContentAppends DEF Content
<1>3. ASSUME CloserIn(Content) # 0 PROVE Behind(Content) \in Texts
  <2>. DEFINE at == CloserIn(Content)
  <2>1. ClosesAt(Content, at) /\ Len(Content) \in Nat
    BY <1>2, <1>3, CloserIs DEF Texts
  <2>. HIDE DEF at
  <2>2. at + 1 \in Nat /\ at + 1 <= Len(Content) /\ at + 2 = (at + 1) + 1 /\ Len(Content) <= Len(Content)
    BY <2>1 DEF ClosesAt, IsCloser
  <2>3. SubSeq(Content, (at + 1) + 1, Len(Content)) \in Texts
    BY <1>2, <2>1, <2>2, PartsOf
  <2>. QED  BY <2>2, <2>3 DEF Behind, at
<1>4. <<>> \in Texts
  BY DEF Texts
<1>. QED  BY <1>2, <1>3, <1>4 DEF Visible, Behind

\* The answer that is compared with, in the terms of what is visible.
WholeIs(V) ==
    /\ Words(Answer) = Words(V) /\ (IsCall(Answer) <=> IsCall(V))
    /\ Answer = <<>> <=> V = <<>>
    /\ ~Swallowed
    /\ ~(HasCalls /\ IsCall(V))

Comparable ==
    LET silent == CloserIn(Content) = 0 \/ Words(Answer) = <<>>
        inner == \E i \in DOMAIN Content :
                     Content[i] = "o" /\ Stripped(SubSeq(Content, 1, i - 1)) # <<>>
    IN  ~(strip /\ (silent \/ inner \/ Swallowed)) /\ ~(HasCalls /\ IsCall(Answer))

\* In one piece the output shows its visible text, where the two can be compared.
LEMMA WholeVisible ==
    ASSUME chunks \in Seq(Pieces), Comparable
    PROVE  WholeIs(Visible(Content))
<1>. DEFINE inner == \E i \in DOMAIN Content :
                         Content[i] = "o" /\ Stripped(SubSeq(Content, 1, i - 1)) # <<>>
<1>1. Content \in Texts
  BY ContentIs
<1>2. CASE ~strip
  <2>1. Answer = Content
    BY <1>1, <1>2, AnswerIs
  <2>2. Visible(Content) = Content
    BY <1>2 DEF Visible
  <2>3. ~Swallowed
    BY <1>2 DEF Swallowed
  <2>. QED  BY <2>1, <2>2, <2>3 DEF WholeIs, Comparable
<1>3. CASE strip
  <2>1. CloserIn(Content) # 0 /\ Words(Answer) # <<>> /\ ~inner /\ ~Swallowed
        /\ ~(HasCalls /\ IsCall(Answer))
    <3>1. Comparable
      OBVIOUS
    <3>. QED  BY <1>3, <3>1 DEF Comparable
  <2>2. Words(Answer) = Words(Behind(Content)) /\ (IsCall(Answer) <=> IsCall(Behind(Content)))
    BY <1>1, <1>3, <2>1, AnswerIs
  <2>3. Visible(Content) = Behind(Content)
    BY <1>3, <2>1 DEF Visible, Behind
  <2>4. Words(<<>>) = <<>>
    BY OnlyNothing DEF Words
  <2>5. Answer # <<>> /\ Behind(Content) # <<>>
    BY <2>1, <2>2, <2>4
  <2>. QED  BY <2>1, <2>2, <2>3, <2>5 DEF WholeIs
<1>. QED  BY <1>2, <1>3

\* A reply that ends well has shown what the same output shows in one piece.
LEMMA EndsRight ==
    EndsWell => StreamedLikeWhole /\ Client.ended /\ (Client.ok \/ Relapsed)
<1>. SUFFICES ASSUME EndsWell PROVE StreamedLikeWhole /\ Client.ended /\ (Client.ok \/ Relapsed)
  OBVIOUS
<1>. DEFINE V == Visible(Content)
<1>1. chunks \in Seq(Pieces)
  BY DEF EndsWell
<1>2. PICK w \in Seq(BlockEvents), y \in Dicts :
          /\ Shown(w, y, V)
          /\ y.reasons = Cardinality(Reasoned)
          /\ ~Swallowed => (HasCalls <=> y.calls # <<>>)
          /\ wire = Told(w, FinishesReply(y))
  BY DEF EndsWell
<1>3. V \in Texts
  BY <1>1, ContentIs
<1>. HIDE DEF V
<1>. DEFINE E == Told(w, y)
            T == TextOf(E)
<1>4. /\ y \in Dicts /\ HeldBack(y) /\ Apart(Told(w, y), y) /\ T \in Texts /\ y.buf \in Texts
      /\ T \o y.buf = V
      /\ y.emitted <=> T # <<>>
      /\ ~toolMode => y.decision = "none"
      /\ toolMode /\ y.decision = "none" => T = <<>> /\ Stripped(V) = <<>>
      /\ y.decision = "buffer" =>
            T = <<>> /\ Stripped(V) # <<>> /\ Head(Stripped(V)) \in {"j", "k"}
      /\ y.decision = "text" =>
            Stripped(V) # <<>> /\ Head(Stripped(V)) \notin {"j", "k"}
      /\ ~CallIn(E)
      /\ y.decision \in {"none", "text", "buffer"}
  <2>1. y \in Dicts /\ HeldBack(y) /\ Says(E, y, V) /\ Apart(Told(w, y), y)
    BY <1>2 DEF Shown
  <2>2. T \in Texts /\ y.buf \in Texts /\ y.decision \in {"none", "text", "buffer"}
    BY <2>1, ToldIs, DictIs
  <2>. HIDE DEF E
  <2>. QED  BY <2>1, <2>2 DEF Says, E
<1>5. ShownWords = Words(TextOf(wire)) /\ CallShown = CallIn(wire) /\ Client = ClientOf(wire)
      /\ Relapsed = RelapsedIn(wire)
  BY DEF ShownWords, CallShown, CallIn, Client, Relapsed
<1>a. CASE y.buf # <<>> /\ IsCall(y.buf)
  <2>1. /\ ClientOf(wire).ended /\ (ClientOf(wire).ok \/ RelapsedIn(wire))
        /\ CallIn(wire) /\ TextOf(wire) = T
    BY <1>2, <1>4, <1>a, FinishesCall
  <2>2. toolMode /\ y.decision # "text"
    BY <1>4, <1>a DEF HeldBack
  <2>3. T = <<>> /\ V = y.buf
    <3>1. T = <<>>
      BY <1>4, <2>2
    <3>2. <<>> \o y.buf = y.buf
      BY <1>4, ConcatEmptySeq DEF Texts
    <3>. QED  BY <1>4, <3>1, <3>2
  <2>. HIDE DEF T
  <2>4. ASSUME Comparable PROVE ShownWords = WholeWords /\ CallShown = WholeIsCall
    <3>1. WholeIs(V)
      BY <1>1, <2>4, WholeVisible DEF V
    <3>2. IsCall(Answer) /\ ~HasCalls
      BY <1>a, <2>3, <3>1 DEF WholeIs
    <3>3. WholeIsCall = TRUE
      BY <2>2, <3>2 DEF WholeIsCall
    <3>4. WholeWords = <<>>
      BY <3>3 DEF WholeWords
    <3>5. Words(<<>>) = <<>>
      BY OnlyNothing DEF Words
    <3>6. CallShown = TRUE
      BY <1>5, <2>1 DEF CallIn
    <3>. QED  BY <1>5, <2>1, <2>3, <3>3, <3>4, <3>5, <3>6
  <2>. QED  BY <1>5, <2>1, <2>4 DEF StreamedLikeWhole, Comparable
<1>b. CASE ~(y.buf # <<>> /\ IsCall(y.buf))
  <2>. DEFINE x == Extra(y)
  <2>1. /\ ClientOf(wire).ended /\ (ClientOf(wire).ok \/ RelapsedIn(wire))
        /\ ~CallIn(wire) /\ TextOf(wire) = (T \o y.buf) \o x
    BY <1>2, <1>4, <1>b, FinishesText
  <2>2. x = IF V = <<>> /\ y.calls = <<>> /\ y.reasons > 0 THEN Promoted(y.reasons) ELSE <<>>
    <3>1. ~y.emitted /\ y.buf = <<>> <=> V = <<>>
      <4>. HIDE DEF T
      <4>1. CASE y.buf = <<>>
        <5>1. T \o <<>> = T
          BY <1>4, ConcatEmptySeq DEF Texts
        <5>. QED  BY <1>4, <4>1, <5>1
      <4>2. CASE y.buf # <<>>
        <5>1. T \o y.buf # <<>>
          BY <1>4, <4>2, Nonempty
        <5>. QED  BY <1>4, <4>2, <5>1
      <4>. QED  BY <4>1, <4>2
    <3>. QED  BY <3>1 DEF Extra
  <2>. HIDE DEF x, T
  <2>3. TextOf(wire) = V \o x
    BY <1>4, <2>1
  <2>4. ASSUME Comparable PROVE ShownWords = WholeWords /\ CallShown = WholeIsCall
    <3>1. WholeIs(V)
      BY <1>1, <2>4, WholeVisible DEF V
    <3>2. HasCalls <=> y.calls # <<>>
      BY <1>2, <3>1 DEF WholeIs
    <3>3. ~(toolMode /\ ~HasCalls /\ IsCall(V))
      <4>. SUFFICES ASSUME toolMode, IsCall(V) PROVE FALSE
        OBVIOUS
      <4>1. V # <<>> /\ Stripped(V) # <<>> /\ Head(Stripped(V)) = "j"
        BY <1>3, CallsLookLikeIt
      <4>2. y.decision = "buffer" /\ T = <<>>
        BY <1>4, <4>1
      <4>3. <<>> \o y.buf = y.buf
        BY <1>4, ConcatEmptySeq DEF Texts
      <4>4. y.buf = V
        BY <1>4, <4>2, <4>3
      <4>. QED  BY <1>b, <4>1, <4>4
    <3>4. WholeIsCall = FALSE
      BY <3>1, <3>3 DEF WholeIsCall, WholeIs
    <3>5. CallShown = FALSE
      BY <1>5, <2>1 DEF CallIn
    <3>6. /\ y.reasons \in Nat
          /\ HasReasoning <=> y.reasons > 0
      <4>1. y.reasons \in Nat
        BY <1>4, DictIs
      <4>. QED  BY <1>1, <1>2, <4>1, ReasonedIs
    <3>7. WholeWords = IF V = <<>> /\ y.reasons > 0 /\ y.calls = <<>>
                       THEN Promoted(y.reasons) ELSE Words(V)
      BY <1>2, <3>1, <3>2, <3>4, <3>6 DEF WholeWords, WholeIs, Promoted, Reasoned
    <3>8. CASE V = <<>> /\ y.reasons > 0 /\ y.calls = <<>>
      <4>. DEFINE p == Promoted(y.reasons)
      <4>1. p \in Texts
        BY <3>6, PromotedIs
      <4>2. x = p /\ WholeWords = p
        BY <2>2, <3>7, <3>8
      <4>3. \A i \in 1..Len(p) : p[i] \in {"w", "j", "k"}
        BY <3>6 DEF Promoted
      <4>. HIDE DEF p
      <4>4. <<>> \o p = p
        BY <4>1, ConcatEmptySeq DEF Texts
      <4>5. Words(p) = p
        BY <4>1, <4>3, OnlyAll DEF Words
      <4>. QED  BY <1>5, <2>3, <3>4, <3>5, <3>8, <4>2, <4>4, <4>5
    <3>9. CASE ~(V = <<>> /\ y.reasons > 0 /\ y.calls = <<>>)
      <4>1. x = <<>> /\ WholeWords = Words(V)
        BY <2>2, <3>7, <3>9
      <4>2. V \o <<>> = V
        BY <1>3, ConcatEmptySeq DEF Texts
      <4>. QED  BY <1>5, <2>3, <3>4, <3>5, <4>1, <4>2
    <3>. QED  BY <3>8, <3>9
  <2>. QED  BY <1>5, <2>1, <2>4 DEF StreamedLikeWhole, Comparable
<1>. QED  BY <1>a, <1>b

-----------------------------------------------------------------------------
(* A reply: the steps                                                          *)

\* What was told is on the wire; the dict starts the next chunk with nothing to tell.
LEMMA Sent ==
    ASSUME NEW w \in Seq(BlockEvents), NEW y, NEW shown, Shown(w, y, shown)
    PROVE  LET z == [y EXCEPT !.out = <<>>]
           IN  /\ z \in Dicts /\ z.out = <<>> /\ Told(w, y) \in Seq(BlockEvents)
               /\ Shown(Told(w, y), z, shown)
               /\ z.calls = y.calls /\ SameThought(z, y)
<1>. DEFINE z == [y EXCEPT !.out = <<>>]
            E == Told(w, y)
<1>1. y \in Dicts /\ HeldBack(y) /\ Says(E, y, shown) /\ Apart(E, y)
  BY DEF Shown
<1>2. E \in Seq(BlockEvents)
  BY <1>1, ToldIs
<1>. HIDE DEF E
<1>3. z \in Dicts /\ SameBlocks(z, y) /\ SameText(z, y) /\ SameThought(z, y) /\ z.out = <<>>
  <2>1. <<>> \in Seq(BlockEvents)
    OBVIOUS
  <2>. QED  BY <1>1, <2>1 DEF Dicts, SameBlocks, SameText, SameThought
<1>. HIDE DEF z
<1>4. Told(E, z) = E
  BY <1>2, <1>3, ConcatEmptySeq DEF Told
<1>5. HeldBack(z) /\ Says(E, z, shown) /\ Apart(E, z)
  BY <1>1, <1>3 DEF HeldBack, Says, Apart, InStep, OpenBlocks, SameBlocks, SameText
<1>6. Shown(E, z, shown)
  BY <1>3, <1>4, <1>5 DEF Shown
<1>. QED  BY <1>2, <1>3, <1>6 DEF z, E, SameBlocks

\* A client that was not told of the end has not seen it, and can follow.
LEMMA UnderWayIs ==
    ASSUME NEW w \in Seq(BlockEvents), NEW y, NEW shown, Shown(w, y, shown)
    PROVE  /\ ~ClientOf(Told(w, y)).ended
           /\ ClientOf(Told(w, y)).ok \/ RelapsedIn(Told(w, y))
BY DEF Shown, Apart, InStep

\* A chunk keeps the invariant.
LEMMA ReceivesIs ==
    ASSUME ReplyInv, NEW chunk \in Deltas, Receives(chunk)
    PROVE  ReplyInv'
<1>1. /\ ReplyTyped /\ UnderWay /\ ~Finished /\ stream = "open" /\ stream' = stream
      /\ toolMode' = toolMode /\ strip' = strip /\ chunks' = Append(chunks, chunk)
  BY DEF ReplyInv, Receives
<1>2. chunk \in Pieces
  BY DeltasAssumption
<1>3. PICK w : w = wire
  OBVIOUS
<1>4. PICK s : s = dict
  OBVIOUS
<1>5. PICK y : y = Opened(s, chunk)
  OBVIOUS
<1>6. PICK t : t = Translate(s, chunk)
  OBVIOUS
<1>7. dict' = [t EXCEPT !.out = <<>>] /\ wire' = Told(w, t)
  BY <1>3, <1>4, <1>6 DEF Receives, Told
<1>8. w \in Seq(BlockEvents) /\ s.out = <<>> /\ chunks \in Seq(Pieces)
      /\ toolMode' \in BOOLEAN /\ strip' \in BOOLEAN
  BY <1>1, <1>3, <1>4 DEF ReplyTyped
<1>9. /\ chunks' \in Seq(Pieces)
      /\ Content \in Texts /\ Content' \in Texts /\ Content' = Content \o chunk.content
      /\ HasCalls' <=> HasCalls \/ chunk.calls # <<>>
      /\ Finished' <=> Finished \/ chunk.finish
      /\ Swallowed' <=>
             Swallowed \/ (Swallows(chunk, Content') /\ (chunk.finish \/ chunk.calls # <<>>))
  BY <1>1, <1>2, <1>8, Received
<1>10. /\ Shown(w, s, Visible(Content)) /\ Carries(s, Content)
       /\ s.reasons = Cardinality(Reasoned)
       /\ HasCalls <=> s.calls # <<>> \/ Swallowed
  BY <1>1, <1>3, <1>4 DEF UnderWay
<1>11. Cardinality(Reasoned') = Cardinality(Reasoned) + (IF chunk.reasoning THEN 1 ELSE 0)
  BY <1>1, <1>2, <1>8, ReasonedGrows
<1>. DEFINE N == Content'
            V == Visible(N)
<1>12. ToldOn(w, y, s, chunk, N)
  <2>1. ToldOn(w, Opened(s, chunk), s, chunk, Content \o chunk.content)
    BY <1>2, <1>8, <1>9, <1>10, OpenedIs
  <2>. QED  BY <1>5, <1>9, <2>1
<1>13. /\ Shown(w, y, V) /\ Carries(y, N) /\ y.reasons = Cardinality(Reasoned')
       /\ y.calls = <<>> <=> s.calls = <<>> /\ (chunk.calls = <<>> \/ Swallows(chunk, N))
       /\ t = IF chunk.finish /\ ~Swallows(chunk, N) THEN FinishesReply(y) ELSE y
  BY <1>6, <1>10, <1>11, <1>12 DEF ToldOn
<1>14. y \in Dicts /\ HeldBack(y) /\ Apart(Told(w, y), y)
  BY <1>13 DEF Shown
<1>15. PICK v : v = V
  OBVIOUS
<1>16. Visible(Content)' = v
  BY <1>1, <1>15 DEF Visible
<1>17. \A e, z : Shown(e, z, v)' <=> Shown(e, z, v)
  BY <1>1 DEF Shown, HeldBack, Says
<1>a. CASE chunk.finish /\ ~Swallows(chunk, N)
  <2>1. t = FinishesReply(y)
    BY <1>13, <1>a
  <2>2. t \in Dicts
    <3>1. CASE y.buf # <<>> /\ IsCall(y.buf)
      BY <1>8, <1>14, <2>1, <3>1, FinishesCall
    <3>2. CASE ~(y.buf # <<>> /\ IsCall(y.buf))
      BY <1>8, <1>14, <2>1, <3>2, FinishesText
    <3>. QED  BY <3>1, <3>2
  <2>3. ReplyTyped'
    <3>1. Told(w, t) \in Seq(BlockEvents)
      BY <1>8, <2>2, ToldIs
    <3>2. dict' \in Dicts /\ dict'.out = <<>>
      <4>1. <<>> \in Seq(BlockEvents)
        OBVIOUS
      <4>. QED  BY <1>7, <2>2, <4>1 DEF Dicts
    <3>. QED  BY <1>7, <1>8, <1>9, <3>1, <3>2 DEF ReplyTyped
  <2>4. EndsWell'
    <3>1. ~Swallowed' => (HasCalls' <=> y.calls # <<>>)
      BY <1>9, <1>10, <1>13, <1>a
    <3>2. Shown(w, y, Visible(Content))'
      BY <1>13, <1>15, <1>16, <1>17
    <3>3. wire' = Told(w, FinishesReply(y))
      BY <1>7, <2>1
    <3>. QED  BY <1>8, <1>9, <1>13, <1>14, <3>1, <3>2, <3>3 DEF EndsWell
  <2>5. EndsWell' => StreamedLikeWhole' /\ Client.ended' /\ (Client.ok' \/ Relapsed')
    BY EndsRight, PTL
  <2>6. Finished'
    BY <1>9, <1>a
  <2>. QED  BY <1>1, <2>3, <2>4, <2>5, <2>6 DEF ReplyInv
<1>b. CASE ~(chunk.finish /\ ~Swallows(chunk, N))
  <2>1. t = y
    BY <1>13, <1>b
  <2>2. PICK z : z = [y EXCEPT !.out = <<>>]
    OBVIOUS
  <2>3. PICK e : e = Told(w, y)
    OBVIOUS
  <2>4. /\ z \in Dicts /\ z.out = <<>> /\ e \in Seq(BlockEvents) /\ Shown(e, z, v)
        /\ z.calls = y.calls /\ SameThought(z, y)
    BY <1>8, <1>13, <1>15, <2>2, <2>3, Sent
  <2>5. dict' = z /\ wire' = e
    BY <1>7, <2>1, <2>2, <2>3
  <2>6. ReplyTyped'
    BY <1>8, <1>9, <2>4, <2>5 DEF ReplyTyped
  <2>7. ~Client.ended' /\ (Client.ok' \/ Relapsed')
    <3>1. ~ClientOf(e).ended /\ (ClientOf(e).ok \/ RelapsedIn(e))
      BY <1>8, <1>13, <2>3, UnderWayIs
    <3>2. Client' = ClientOf(e) /\ Relapsed' = RelapsedIn(e)
      BY <2>5 DEF Client, ClientOf, Relapsed, RelapsedIn
    <3>. QED  BY <3>1, <3>2
  <2>8. ~Finished' => UnderWay'
    <3>. SUFFICES ASSUME ~Finished' PROVE UnderWay'
      OBVIOUS
    <3>1. Shown(wire, dict, Visible(Content))'
      BY <1>16, <1>17, <2>4, <2>5
    <3>2. Carries(dict, Content)'
      BY <1>1, <1>13, <2>4, <2>5 DEF Carries, SameThought
    <3>3. dict'.reasons = Cardinality(Reasoned')
      BY <1>13, <2>4, <2>5 DEF SameThought
    <3>4. HasCalls' <=> dict'.calls # <<>> \/ Swallowed'
      BY <1>9, <1>10, <1>13, <2>4, <2>5
    <3>. QED  BY <3>1, <3>2, <3>3, <3>4 DEF UnderWay
  <2>9. Finished' => Swallowed'
    BY <1>1, <1>9, <1>b
  <2>10. StreamedLikeWhole'
    BY <2>7 DEF StreamedLikeWhole
  <2>. QED  BY <1>1, <2>6, <2>7, <2>8, <2>9, <2>10 DEF ReplyInv
<1>. QED  BY <1>a, <1>b

\* What was received is what it was, whatever the client is told.
LEMMA HistoryStays ==
    ASSUME UNCHANGED <<toolMode, strip, chunks>>
    PROVE  /\ Content' = Content /\ Reasoned' = Reasoned
           /\ (HasCalls' <=> HasCalls) /\ (Finished' <=> Finished) /\ (Swallowed' <=> Swallowed)
           /\ WholeIsCall' = WholeIsCall /\ WholeWords' = WholeWords
           /\ (Comparable' <=> Comparable)
<1>1. /\ Content' = Content /\ (HasCalls' <=> HasCalls) /\ (HasReasoning' <=> HasReasoning)
      /\ (Finished' <=> Finished) /\ toolMode' = toolMode /\ strip' = strip /\ Reasoned' = Reasoned
  BY DEF Content, ContentOf, HasCalls, HasReasoning, Finished, Reasoned
<1>2. Swallowed' <=> Swallowed
  BY DEF Swallowed
<1>3. Answer' = Answer
  BY DEF Answer, Content, ContentOf, SelectInSeq
<1>4. WholeIsCall' = WholeIsCall
  BY <1>1, <1>3 DEF WholeIsCall
<1>5. WholeWords' = WholeWords
  <2>1. WholeWords = IF WholeIsCall THEN <<>>
                     ELSE IF Answer = <<>> /\ HasReasoning /\ ~HasCalls
                     THEN [k \in 1..Cardinality(Reasoned) |-> "w"] ELSE Words(Answer)
    BY DEF WholeWords, Reasoned
  <2>2. WholeWords' = IF WholeIsCall' THEN <<>>
                      ELSE IF Answer' = <<>> /\ HasReasoning' /\ ~HasCalls'
                      THEN [k \in 1..Cardinality(Reasoned') |-> "w"] ELSE Words(Answer')
    BY DEF WholeWords, Reasoned
  <2>. QED  BY <1>1, <1>3, <1>4, <2>1, <2>2
<1>6. Comparable' <=> Comparable
  BY <1>1, <1>2, <1>3 DEF Comparable
<1>. QED  BY <1>1, <1>2, <1>4, <1>5, <1>6

\* While what was received stays, and the client has what it had, it is as it was.
LEMMA LikeWholeStays ==
    ASSUME UNCHANGED <<toolMode, strip, chunks>>, StreamedLikeWhole,
           Client' = Client, ShownWords' = ShownWords, CallShown' <=> CallShown
    PROVE  StreamedLikeWhole'
<1>1. Client.ended /\ Comparable => ShownWords = WholeWords /\ CallShown = WholeIsCall
  BY DEF StreamedLikeWhole, Comparable
<1>2. CallShown' = CallShown
  BY DEF CallShown
<1>3. Client'.ended /\ Comparable' => ShownWords' = WholeWords' /\ CallShown' = WholeIsCall'
  BY <1>1, <1>2, HistoryStays
<1>. QED  BY <1>3 DEF StreamedLikeWhole, Comparable

\* A stream that breaks keeps it: the client is told of an error.
LEMMA BreaksIs == ASSUME ReplyInv, Breaks PROVE ReplyInv'
<1>. DEFINE e == Event("error", 0, "message", <<>>)
<1>1. e \in BlockEvents /\ e.event = "error" /\ e.kind = "message"
  <2>1. <<>> \in Texts /\ "message" \in BlockKinds /\ 0 \in Nat
    BY DEF Texts, BlockKinds
  <2>. QED  BY <2>1, EventIs
<1>2. /\ wire' = Append(wire, e) /\ stream' = "broken"
      /\ UNCHANGED <<toolMode, strip, dict, chunks>>
  BY DEF Breaks, Event
<1>. HIDE DEF e
<1>3. ReplyTyped /\ wire \in Seq(BlockEvents)
  BY DEF ReplyInv, ReplyTyped
<1>4. PICK w : w = wire
  OBVIOUS
<1>5. PICK x : x = Append(w, e)
  OBVIOUS
<1>6. /\ ClientOf(x) = ClientOf(w) /\ TextOf(x) = TextOf(w) /\ (CallIn(x) <=> CallIn(w))
      /\ RelapsedIn(w) => RelapsedIn(x)
  <2>1. ClientOf(w) \in Clients /\ ClientOf(x) = Applies(ClientOf(w), e)
    BY <1>1, <1>3, <1>4, <1>5, ClientHears
  <2>2. Applies(ClientOf(w), e) = ClientOf(w)
    BY <1>1, <2>1, AppliesGives
  <2>3. Said(e) = <<>>
    BY <1>1 DEF Said
  <2>4. TextOf(w) \in Texts /\ TextOf(x) = TextOf(w) \o <<>>
    BY <1>1, <1>3, <1>4, <1>5, <2>3, TextAppends
  <2>5. TextOf(w) \o <<>> = TextOf(w)
    BY <2>4, ConcatEmptySeq DEF Texts
  <2>6. CallIn(x) <=> CallIn(w)
    BY <1>1, <1>3, <1>4, <1>5, CallAppends
  <2>7. RelapsedIn(w) => RelapsedIn(x)
    BY <1>1, <1>3, <1>4, <1>5, RelapseStays
  <2>. QED  BY <2>1, <2>2, <2>4, <2>5, <2>6, <2>7
<1>7. wire' = x /\ wire = w
  BY <1>2, <1>4, <1>5
<1>8. /\ Client' = Client /\ (Relapsed => Relapsed')
      /\ ShownWords' = ShownWords /\ (CallShown' <=> CallShown)
  <2>1. Client' = ClientOf(x) /\ Client = ClientOf(w)
    BY <1>7 DEF Client, ClientOf
  <2>2. (Relapsed' <=> RelapsedIn(x)) /\ (Relapsed <=> RelapsedIn(w))
    BY <1>7 DEF Relapsed, RelapsedIn
  <2>3. ShownWords' = Words(TextOf(x)) /\ ShownWords = Words(TextOf(w))
    BY <1>7 DEF ShownWords, TextOf
  <2>4. (CallShown' <=> CallIn(x)) /\ (CallShown <=> CallIn(w))
    BY <1>7 DEF CallShown, CallIn
  <2>. QED  BY <1>6, <2>1, <2>2, <2>3, <2>4
<1>9. x \in Seq(BlockEvents)
  BY <1>1, <1>3, <1>4, <1>5
<1>10. ReplyTyped'
  BY <1>2, <1>3, <1>7, <1>9 DEF ReplyTyped
<1>11. (Finished' <=> Finished) /\ (Swallowed' <=> Swallowed)
  BY <1>2, HistoryStays
<1>12. StreamedLikeWhole'
  BY <1>2, <1>8, LikeWholeStays DEF ReplyInv
<1>. QED  BY <1>2, <1>8, <1>10, <1>11, <1>12 DEF ReplyInv

\* A reply begins with it.
LEMMA ReplyBegins == ReplyInit => ReplyInv
<1>. SUFFICES ASSUME ReplyInit PROVE ReplyInv
  OBVIOUS
<1>1. /\ toolMode \in BOOLEAN /\ strip \in BOOLEAN /\ dict = NewDict /\ wire = <<>> /\ chunks = <<>>
      /\ stream = "open"
  BY DEF ReplyInit
<1>2. NewDict \in Dicts /\ NewDict.out = <<>>
  <2>1. <<>> \in Seq(Symbols) /\ <<>> \in Seq(CallBlocks) /\ <<>> \in Seq(BlockEvents)
    OBVIOUS
  <2>. QED  BY <2>1 DEF NewDict, Dicts
<1>3. ReplyTyped
  BY <1>1, <1>2 DEF ReplyTyped
<1>4. Content = <<>> /\ Visible(Content) = <<>>
  <2>1. Content = <<>>
    BY <1>1, ContentAtFirst DEF Content
  <2>2. CloserIn(<<>>) = 0
    <3>1. <<>> \in Texts /\ Len(<<>>) = 0
      BY DEF Texts
    <3>2. CloserIn(<<>>) \in 0..0
      BY <3>1, CloserIs
    <3>. QED  BY <3>2
  <2>. QED  BY <2>1, <2>2 DEF Visible
<1>5. ~Finished /\ ~HasCalls /\ ~HasReasoning /\ ~Swallowed
  BY <1>1 DEF Finished, HasCalls, HasReasoning, Swallowed
<1>6. Client = NewClient /\ ~Client.ended /\ Client.ok
  BY <1>1, ClientAtFirst DEF Client, NewClient
<1>7. TextOf(<<>>) = <<>> /\ ~CallIn(<<>>)
  <2>. DEFINE s == [i \in DOMAIN <<>> |->
                       IF <<>>[i].event = "delta" /\ <<>>[i].kind = "text" THEN <<>>[i].body ELSE <<>>]
  <2>1. s \in [1..0 -> Seq(Symbols)] /\ Len(s) = 0
    OBVIOUS
  <2>2. FlattenSeq(s) = <<>>
    BY <2>1 DEF FlattenSeq
  <2>3. TextOf(<<>>) = <<>>
    BY <2>2 DEF TextOf
  <2>. QED  BY <2>3 DEF CallIn
<1>8. UnderWay
  <2>1. Told(<<>>, NewDict) = <<>>
    BY <1>2 DEF Told
  <2>2. HeldBack(NewDict)
    BY DEF HeldBack, NewDict
  <2>3. Says(<<>>, NewDict, <<>>)
    <3>1. Stripped(<<>>) = <<>>
      <4>1. <<>> \in Texts /\ Len(<<>>) = 0
        BY DEF Texts
      <4>. QED  BY <4>1, StrippedIs DEF BeginsAt
    <3>2. <<>> \o <<>> = <<>>
      OBVIOUS
    <3>. QED  BY <1>7, <3>1, <3>2 DEF Says, NewDict
  <2>4. Apart(<<>>, NewDict)
    <3>1. OpenBlocks(NewDict) = {}
      BY DEF OpenBlocks, NewDict, ToolBlocks
    <3>2. InStep(NewClient, NewDict)
      BY <3>1 DEF InStep, NewClient, NewDict
    <3>3. NewClient.ended = FALSE /\ NewDict.text = FALSE
      BY DEF NewClient, NewDict
    <3>. QED  BY <3>2, <3>3, ClientAtFirst DEF Apart
  <2>5. Carries(NewDict, <<>>)
    <3>1. CloserIn(<<>>) = 0 /\ Kept(<<>>) = <<>>
      <4>1. <<>> \in Texts /\ Len(<<>>) = 0
        BY DEF Texts
      <4>2. CloserIn(<<>>) \in 0..0
        BY <4>1, CloserIs
      <4>. QED  BY <4>2 DEF Kept
    <3>. QED  BY <3>1 DEF Carries, NewDict
  <2>6. Cardinality(Reasoned) = 0 /\ NewDict.reasons = 0 /\ NewDict.calls = <<>>
    BY <1>1, <1>3, <1>5, ReasonedIs DEF ReplyTyped, NewDict
  <2>. QED  BY <1>1, <1>2, <1>4, <1>5, <2>1, <2>2, <2>3, <2>4, <2>5, <2>6 DEF UnderWay, Shown
<1>. QED  BY <1>1, <1>3, <1>5, <1>6, <1>8 DEF ReplyInv, StreamedLikeWhole

\* Every step of the specification keeps what is known of the reply.
LEMMA ReplySteps == ReplyInv /\ [ReplyNext]_replyVars => ReplyInv'
<1>. SUFFICES ASSUME ReplyInv, [ReplyNext]_replyVars PROVE ReplyInv'
  OBVIOUS
<1>1. ASSUME NEW chunk \in Deltas, Receives(chunk) PROVE ReplyInv'
  BY <1>1, ReceivesIs
<1>2. CASE Breaks
  BY <1>2, BreaksIs
<1>3. ASSUME UNCHANGED <<toolMode, strip, dict, wire, chunks>>,
             stream' = stream \/ (stream = "open" /\ stream' = "ended")
      PROVE  ReplyInv'
  <2>1. ReplyTyped' /\ (Client.ok \/ Relapsed)'
    BY <1>3 DEF ReplyInv, ReplyTyped, Client, ClientOf, Relapsed, RelapsedIn
  <2>2. (Finished' <=> Finished) /\ Content' = Content /\ (HasCalls' <=> HasCalls) /\ Reasoned' = Reasoned
    BY <1>3 DEF Finished, Content, ContentOf, HasCalls, Reasoned
  <2>3. Swallowed' <=> Swallowed
    BY <1>3 DEF Swallowed
  <2>4. StreamedLikeWhole'
    <3>1. Client' = Client /\ ShownWords' = ShownWords /\ (CallShown' <=> CallShown)
      BY <1>3 DEF Client, ClientOf, ShownWords, TextOf, CallShown
    <3>. QED  BY <1>3, <3>1, LikeWholeStays DEF ReplyInv
  <2>5. ASSUME stream' # "broken", ~Finished' PROVE UnderWay'
    <3>1. UnderWay
      BY <1>3, <2>2, <2>5 DEF ReplyInv
    <3>. QED  BY <1>3, <2>2, <2>3, <3>1 DEF UnderWay, Shown, HeldBack, Says, Carries, Visible
  <2>. QED  BY <1>3, <2>1, <2>2, <2>3, <2>4, <2>5 DEF ReplyInv, Client, ClientOf
<1>4. CASE ReplyEnds
  BY <1>3, <1>4 DEF ReplyEnds
<1>5. CASE UNCHANGED replyVars
  BY <1>3, <1>5 DEF replyVars
<1>. QED  BY <1>1, <1>2, <1>4, <1>5 DEF ReplyNext

\* A reply that ends before the model has finished misses what is still held back.
LEMMA CutShortIs ==
    ASSUME ReplyInv, stream = "ended", ~Finished
    PROVE  ~Client.ended /\ ShownWords \o Words(dict.buf) = Words(Visible(Content))
<1>1. ReplyTyped /\ UnderWay
  BY DEF ReplyInv
<1>2. PICK w : w = wire
  OBVIOUS
<1>3. PICK s : s = dict
  OBVIOUS
<1>4. PICK v : v = Visible(Content)
  OBVIOUS
<1>5. w \in Seq(BlockEvents) /\ s.out = <<>> /\ s \in Dicts
  BY <1>1, <1>2, <1>3 DEF ReplyTyped
<1>6. Told(w, s) = w
  BY <1>5 DEF Told
<1>7. Shown(w, s, v)
  BY <1>1, <1>2, <1>3, <1>4 DEF UnderWay
<1>8. ~ClientOf(w).ended /\ TextOf(w) \o s.buf = v
  BY <1>6, <1>7 DEF Shown, Apart, Says
<1>9. TextOf(w) \in Texts /\ s.buf \in Texts
  <2>1. s.buf \in Texts
    BY <1>5 DEF Dicts, Texts
  <2>. QED  BY <1>5, <1>6, <2>1, ToldIs
<1>10. Words(v) = Words(TextOf(w)) \o Words(s.buf)
  BY <1>8, <1>9, OnlyOfConcat DEF Words
<1>11. Client = ClientOf(w) /\ ShownWords = Words(TextOf(w))
  BY <1>2 DEF Client, ClientOf, ShownWords, TextOf
<1>. QED  BY <1>3, <1>4, <1>8, <1>10, <1>11

\* Unless reasoning comes after text, the client can follow the stream of a reply; and it
\* has in the end what the same output shows in one piece, however the model's server cut
\* it into chunks (translate.py, stream_openai_to_anthropic, against
\* nim_response_to_anthropic).  A reply that ends before the model has finished has no end
\* for the client either, and misses no more than the text that was still held back.
THEOREM ReplyStaysFaithful == ReplySpec => []ReplyIsFaithful
<1>1. ReplyInv => ReplyIsFaithful
  <2>. SUFFICES ASSUME ReplyInv PROVE ReplyIsFaithful
    OBVIOUS
  <2>1. CutShortMissesTheHeld
    BY CutShortIs DEF CutShortMissesTheHeld
  <2>2. BlocksKeepApart
    BY CutShortIs DEF ReplyInv, BlocksKeepApart
  <2>. QED  BY <2>1, <2>2 DEF ReplyInv, ReplyIsFaithful
<1>. QED  BY <1>1, ReplyBegins, ReplySteps, PTL DEF ReplySpec

=============================================================================
