------------------------ MODULE BinaryLiteralsProofs ------------------------
(***************************************************************************)
(* Proofs about rewriteBinaryLiterals: what the scan of a statement keeps, *)
(* and that the bytes a dump writes are the bytes the rewriting reads.     *)
(***************************************************************************)
EXTENDS BinaryLiterals, SequenceTheorems, WellFoundedInduction, TLAPS

-----------------------------------------------------------------------------
(* Recursive functions over positions *)

LEMMA LeastElement ==
  ASSUME NEW T, T \subseteq Nat, T # {}
  PROVE  \E x \in T : \A y \in T : x <= y
<1>1. PICK x \in T : \A y \in T : ~(<< y, x >> \in OpToRel(<, Nat))
  BY NatLessThanWellFounded, WFMin
<1>2. ASSUME NEW y \in T PROVE x <= y
  <2>1. ~(y < x)
    BY <1>1 DEF OpToRel
  <2> QED BY <2>1
<1> QED BY <1>2

\* A set that holds zero and with a number the next holds every number.
LEMMA CountingUp ==
  ASSUME NEW n \in Nat, NEW T, 0 \in T, \A m \in 0..(n - 1) : m \in T => m + 1 \in T
  PROVE  n \in T
<1> DEFINE Out == {m \in 0..n : m \notin T}
<1>1. SUFFICES ASSUME Out # {} PROVE FALSE
  OBVIOUS
<1>2. Out \subseteq Nat
  OBVIOUS
<1> HIDE DEF Out
<1>3. PICK m \in Out : \A k \in Out : m <= k
  BY <1>1, <1>2, LeastElement
<1> USE DEF Out
<1>4. m # 0 /\ m - 1 \in 0..(n - 1) /\ m - 1 \in 0..n
  BY <1>3
<1>5. m - 1 \in T
  BY <1>3, <1>4
<1> QED BY <1>3, <1>4, <1>5

\* A function whose value at a position is its value at a later one, or known,
\* exists.
Jumps(M, D, Stop, base, next) ==
  {f \in [1..M -> D] :
     \A p \in 1..M : f[p] = IF p \in Stop THEN base[p] ELSE f[next[p]]}

LEMMA JumpsExist ==
  ASSUME NEW M \in Nat, NEW D, NEW Stop, NEW base \in [1..M -> D], NEW next,
         \A p \in 1..M : p \notin Stop => next[p] \in (p + 1)..M
  PROVE  Jumps(M, D, Stop, base, next) # {}
<1> DEFINE From(m) == {f \in [(M + 1 - m)..M -> D] :
                          \A p \in (M + 1 - m)..M :
                            f[p] = IF p \in Stop THEN base[p] ELSE f[next[p]]}
           T == {m \in Nat : From(m) # {}}
<1>1. 0 \in T
  <2>1. (M + 1 - 0)..M = {}
    OBVIOUS
  <2>2. [p \in {} |-> {}] \in From(0)
    BY <2>1
  <2> QED BY <2>2
<1>2. ASSUME NEW m \in 0..(M - 1), m \in T PROVE m + 1 \in T
  <2>1. PICK f \in [(M + 1 - m)..M -> D] : \A p \in (M + 1 - m)..M :
               f[p] = IF p \in Stop THEN base[p] ELSE f[next[p]]
    BY <1>2
  <2> DEFINE q == M - m
             g == [p \in q..M |-> IF p # q THEN f[p]
                                  ELSE IF q \in Stop THEN base[q] ELSE f[next[q]]]
  <2>2. q \in 1..M /\ M + 1 - m = q + 1 /\ M + 1 - (m + 1) = q /\ m + 1 \in Nat
    OBVIOUS
  <2>3. q \notin Stop => next[q] \in (q + 1)..M /\ f[next[q]] \in D
    BY <2>1, <2>2
  <2>4. g \in [q..M -> D]
    <3>1. ASSUME NEW p \in q..M PROVE g[p] \in D
      <4>1. CASE p = q
        BY <2>2, <2>3, <4>1
      <4>2. CASE p # q
        <5>1. p \in (M + 1 - m)..M
          BY <2>2, <4>2
        <5> QED BY <2>1, <4>2, <5>1
      <4> QED BY <4>1, <4>2
    <3> QED BY <3>1
  <2>5. ASSUME NEW p \in q..M
        PROVE  g[p] = IF p \in Stop THEN base[p] ELSE g[next[p]]
    <3>1. p \in 1..M
      BY <2>2
    <3>2. p \notin Stop => next[p] \in (p + 1)..M
      BY <3>1
    <3>3. p \notin Stop => next[p] \in q..M /\ next[p] # q
      BY <2>2, <3>2
    <3>4. p \notin Stop => g[next[p]] = f[next[p]]
      BY <3>3
    <3>5. CASE p = q
      BY <3>4, <3>5
    <3>6. CASE p # q
      <4>1. p \in (M + 1 - m)..M
        BY <2>2, <3>6
      <4> QED BY <2>1, <3>4, <3>6, <4>1
    <3> QED BY <3>5, <3>6
  <2> HIDE DEF g
  <2>6. g \in From(m + 1)
    BY <2>2, <2>4, <2>5
  <2> HIDE DEF From
  <2> QED BY <2>2, <2>6
<1>3. \A m \in 0..(M - 1) : m \in T => m + 1 \in T
  BY <1>2
<1> HIDE DEF T
<1>4. M \in T
  BY <1>1, <1>3, CountingUp
<1>5. M + 1 - M = 1
  OBVIOUS
<1>6. From(M) # {}
  BY <1>4 DEF T
<1> QED BY <1>5, <1>6 DEF Jumps

\* The same of one that puts something in front of its value there.
Gatherers(M, S, Stop, head, next) ==
  {f \in [1..M -> Seq(S)] :
     \A p \in 1..M : f[p] = IF p \in Stop THEN << >> ELSE head[p] \o f[next[p]]}

LEMMA GatherersExist ==
  ASSUME NEW M \in Nat, NEW S, NEW Stop, NEW head \in [1..M -> Seq(S)], NEW next,
         \A p \in 1..M : p \notin Stop => next[p] \in (p + 1)..M
  PROVE  Gatherers(M, S, Stop, head, next) # {}
<1> DEFINE From(m) == {f \in [(M + 1 - m)..M -> Seq(S)] :
                          \A p \in (M + 1 - m)..M :
                            f[p] = IF p \in Stop THEN << >> ELSE head[p] \o f[next[p]]}
           T == {m \in Nat : From(m) # {}}
<1>1. 0 \in T
  <2>1. (M + 1 - 0)..M = {}
    OBVIOUS
  <2>2. [p \in {} |-> {}] \in From(0)
    BY <2>1
  <2> QED BY <2>2
<1>2. ASSUME NEW m \in 0..(M - 1), m \in T PROVE m + 1 \in T
  <2>1. PICK f \in [(M + 1 - m)..M -> Seq(S)] : \A p \in (M + 1 - m)..M :
               f[p] = IF p \in Stop THEN << >> ELSE head[p] \o f[next[p]]
    BY <1>2
  <2> DEFINE q == M - m
             g == [p \in q..M |-> IF p # q THEN f[p]
                                  ELSE IF q \in Stop THEN << >> ELSE head[q] \o f[next[q]]]
  <2>2. q \in 1..M /\ M + 1 - m = q + 1 /\ M + 1 - (m + 1) = q /\ m + 1 \in Nat
    OBVIOUS
  <2>3. q \notin Stop => next[q] \in (q + 1)..M /\ f[next[q]] \in Seq(S)
    BY <2>1, <2>2
  <2>4. g \in [q..M -> Seq(S)]
    <3>1. ASSUME NEW p \in q..M PROVE g[p] \in Seq(S)
      <4>1. CASE p = q
        BY <2>2, <2>3, <4>1
      <4>2. CASE p # q
        <5>1. p \in (M + 1 - m)..M
          BY <2>2, <4>2
        <5> QED BY <2>1, <4>2, <5>1
      <4> QED BY <4>1, <4>2
    <3> QED BY <3>1
  <2>5. ASSUME NEW p \in q..M
        PROVE  g[p] = IF p \in Stop THEN << >> ELSE head[p] \o g[next[p]]
    <3>1. p \in 1..M
      BY <2>2
    <3>2. p \notin Stop => next[p] \in (p + 1)..M
      BY <3>1
    <3>3. p \notin Stop => next[p] \in q..M /\ next[p] # q
      BY <2>2, <3>2
    <3>4. p \notin Stop => g[next[p]] = f[next[p]]
      BY <3>3
    <3>5. CASE p = q
      BY <3>4, <3>5
    <3>6. CASE p # q
      <4>1. p \in (M + 1 - m)..M
        BY <2>2, <3>6
      <4> QED BY <2>1, <3>4, <3>6, <4>1
    <3> QED BY <3>5, <3>6
  <2> HIDE DEF g
  <2>6. g \in From(m + 1)
    BY <2>2, <2>4, <2>5
  <2> HIDE DEF From
  <2> QED BY <2>2, <2>6
<1>3. \A m \in 0..(M - 1) : m \in T => m + 1 \in T
  BY <1>2
<1> HIDE DEF T
<1>4. M \in T
  BY <1>1, <1>3, CountingUp
<1>5. M + 1 - M = 1
  OBVIOUS
<1>6. From(M) # {}
  BY <1>4 DEF T
<1> QED BY <1>5, <1>6 DEF Gatherers

\* Behind which place of s each of n sequences stands, one behind the other.
Places(n, ss, s) ==
  {at \in [1..(n + 1) -> Nat] :
     /\ at[1] = 0 /\ at[n + 1] = Len(s)
     /\ \A k \in 1..n :
          /\ at[k + 1] = at[k] + Len(ss[k])
          /\ \A i \in 1..Len(ss[k]) : at[k] + i \in 1..Len(s) /\ s[at[k] + i] = ss[k][i]}

\* The members of a flattened sequence stand in it one behind the other.
LEMMA FlattenedPlaces ==
  ASSUME NEW S, NEW n \in Nat, NEW ss \in [1..n -> Seq(S)]
  PROVE  FlattenSeq(ss) \in Seq(S) /\ Places(n, ss, FlattenSeq(ss)) # {}
<1> DEFINE Joined(f, m) == f = [i \in 1..m |-> IF i = 1 THEN ss[i] ELSE f[i - 1] \o ss[i]]
           Whole(f, m) == f[m] \in Seq(S) /\ Places(m, ss, f[m]) # {}
<1>1. ss \in Seq(Seq(S)) /\ Len(ss) = n
  BY SeqDef
<1>2. CASE n = 0
  <2>1. FlattenSeq(ss) = ss /\ ss = << >>
    BY <1>1, <1>2 DEF FlattenSeq
  <2> DEFINE at == [k \in 1..(n + 1) |-> 0]
  <2>2. at \in [1..(n + 1) -> Nat] /\ at[1] = 0 /\ at[n + 1] = Len(ss)
    BY <1>2, <2>1
  <2> HIDE DEF at
  <2>3. at \in Places(n, ss, ss)
    BY <1>2, <2>1, <2>2 DEF Places
  <2> QED BY <2>1, <2>3
<1>3. CASE n # 0
  <2>1. \E f : Joined(f, n)
    <3> DEFINE T == {m \in Nat : \E f : Joined(f, m)}
    <3>1. 0 \in T
      <4>1. Joined([i \in 1..0 |-> ss[i]], 0)
        OBVIOUS
      <4> QED BY <4>1
    <3>2. ASSUME NEW m \in 0..(n - 1), m \in T PROVE m + 1 \in T
      <4>1. PICK f : Joined(f, m)
        BY <3>2
      <4>2. \A i \in 1..m : f[i] = IF i = 1 THEN ss[i] ELSE f[i - 1] \o ss[i]
        BY <4>1
      <4> DEFINE g == [i \in 1..(m + 1) |-> IF i <= m THEN f[i]
                          ELSE IF m = 0 THEN ss[1] ELSE f[m] \o ss[m + 1]]
      <4>3. ASSUME NEW i \in 1..(m + 1)
            PROVE  g[i] = IF i = 1 THEN ss[i] ELSE g[i - 1] \o ss[i]
        <5>1. CASE i <= m
          <6>1. g[i] = f[i] /\ i \in 1..m
            BY <5>1
          <6>2. i # 1 => g[i - 1] = f[i - 1]
            BY <5>1
          <6> QED BY <4>2, <6>1, <6>2
        <5>2. CASE i = m + 1 /\ m = 0
          BY <5>2
        <5>3. CASE i = m + 1 /\ m # 0
          <6>0. ~(i <= m) /\ i - 1 \in 1..(m + 1) /\ i - 1 <= m /\ i - 1 = m
            BY <5>3
          <6>1. g[i] = f[m] \o ss[m + 1] /\ g[i - 1] = f[m]
            BY <5>3, <6>0
          <6> QED BY <5>3, <6>1
        <5> QED BY <5>1, <5>2, <5>3
      <4>4. g = [i \in 1..(m + 1) |-> g[i]]
        OBVIOUS
      <4> HIDE DEF g
      <4>5. Joined(g, m + 1)
        BY <4>3, <4>4
      <4>6. m + 1 \in Nat
        OBVIOUS
      <4> HIDE DEF Joined
      <4> QED BY <4>5, <4>6
    <3>3. \A m \in 0..(n - 1) : m \in T => m + 1 \in T
      BY <3>2
    <3> HIDE DEF T
    <3>4. n \in T
      BY <3>1, <3>3, CountingUp
    <3> QED BY <3>4 DEF T
  <2> DEFINE f == CHOOSE f : Joined(f, n)
  <2>2. Joined(f, n)
    BY <2>1
  <2>3. FlattenSeq(ss) = f[n]
    BY <1>1, <1>3 DEF FlattenSeq
  <2> HIDE DEF f
  <2>d. \A i \in 1..n : f[i] = IF i = 1 THEN ss[i] ELSE f[i - 1] \o ss[i]
    BY <2>2
  <2> DEFINE T == {m \in Nat : m # 0 => Whole(f, m)}
  <2>4. 0 \in T
    OBVIOUS
  <2>5. ASSUME NEW m \in 0..(n - 1), m \in T PROVE m + 1 \in T
    <3> DEFINE t == ss[m + 1]
               s == IF m = 0 THEN << >> ELSE f[m]
    <3>1. t \in Seq(S) /\ Len(t) \in Nat /\ m + 1 \in 1..n
      BY LenProperties
    <3>2. s \in Seq(S) /\ Len(s) \in Nat /\ Places(m, ss, s) # {}
      <4>1. CASE m = 0
        <5> DEFINE at == [k \in 1..(m + 1) |-> 0]
        <5>1. at \in [1..(m + 1) -> Nat] /\ at[1] = 0 /\ at[m + 1] = Len(<< >>)
          BY <4>1
        <5> HIDE DEF at
        <5>2. at \in Places(m, ss, << >>)
          BY <4>1, <5>1 DEF Places
        <5> QED BY <4>1, <5>2
      <4>2. CASE m # 0
        BY <2>5, <4>2, LenProperties
      <4> QED BY <4>1, <4>2
    <3>3. f[m + 1] = s \o t
      <4>1. CASE m = 0
        BY <3>1, <4>1, <2>d, ConcatEmptySeq
      <4>2. CASE m # 0
        <5>1. m + 1 \in 1..n /\ m + 1 # 1 /\ (m + 1) - 1 = m
          BY <4>2
        <5> QED BY <2>d, <4>2, <5>1
      <4> QED BY <4>1, <4>2
    <3> HIDE DEF s
    <3>4. /\ s \o t \in Seq(S) /\ Len(s \o t) = Len(s) + Len(t)
          /\ \A j \in 1..(Len(s) + Len(t)) :
               (s \o t)[j] = IF j <= Len(s) THEN s[j] ELSE t[j - Len(s)]
      BY <3>1, <3>2, ConcatProperties
    <3>5. PICK at \in [1..(m + 1) -> Nat] :
            /\ at[1] = 0 /\ at[m + 1] = Len(s)
            /\ \A k \in 1..m :
                 /\ at[k + 1] = at[k] + Len(ss[k])
                 /\ \A i \in 1..Len(ss[k]) :
                      at[k] + i \in 1..Len(s) /\ s[at[k] + i] = ss[k][i]
      BY <3>2 DEF Places
    <3> DEFINE bt == [k \in 1..(m + 2) |-> IF k = m + 2 THEN Len(s) + Len(t) ELSE at[k]]
    <3>6. bt \in [1..(m + 2) -> Nat] /\ bt[1] = 0 /\ bt[m + 2] = Len(s \o t)
      BY <3>1, <3>2, <3>4, <3>5
    <3>7. ASSUME NEW k \in 1..(m + 1)
          PROVE  /\ bt[k + 1] = bt[k] + Len(ss[k])
                 /\ \A i \in 1..Len(ss[k]) :
                      bt[k] + i \in 1..Len(s \o t) /\ (s \o t)[bt[k] + i] = ss[k][i]
      <4>1. CASE k = m + 1
        <5>1. bt[k] = Len(s) /\ bt[k + 1] = Len(s) + Len(t)
          BY <3>5, <4>1
        <5> HIDE DEF bt
        <5>2. ASSUME NEW i \in 1..Len(t)
              PROVE  Len(s) + i \in 1..Len(s \o t) /\ (s \o t)[Len(s) + i] = t[i]
          BY <3>1, <3>2, <3>4
        <5> QED BY <4>1, <5>1, <5>2
      <4>2. CASE k # m + 1
        <5>1. k \in 1..m /\ bt[k] = at[k] /\ bt[k + 1] = at[k + 1]
          BY <4>2
        <5> HIDE DEF bt
        <5>2. ASSUME NEW i \in 1..Len(ss[k])
              PROVE  at[k] + i \in 1..Len(s \o t) /\ (s \o t)[at[k] + i] = ss[k][i]
          <6>1. at[k] + i \in 1..Len(s) /\ s[at[k] + i] = ss[k][i]
            BY <3>5, <5>1
          <6> HIDE DEF t
          <6> QED BY <3>1, <3>2, <3>4, <6>1
        <5> QED BY <3>5, <5>1, <5>2
      <4> QED BY <4>1, <4>2
    <3> HIDE DEF bt
    <3>8. bt \in Places(m + 1, ss, s \o t)
      <4>1. (m + 1) + 1 = m + 2
        OBVIOUS
      <4>2. /\ bt \in [1..((m + 1) + 1) -> Nat]
            /\ bt[1] = 0 /\ bt[(m + 1) + 1] = Len(s \o t)
        BY <3>6, <4>1
      <4> QED BY <3>7, <4>2 DEF Places
    <3>9. Whole(f, m + 1)
      BY <3>3, <3>4, <3>8
    <3>10. m + 1 \in Nat
      OBVIOUS
    <3> HIDE DEF Whole
    <3> QED BY <3>9, <3>10
  <2>6. \A m \in 0..(n - 1) : m \in T => m + 1 \in T
    BY <2>5
  <2> HIDE DEF T
  <2>7. n \in T
    BY <2>4, <2>6, CountingUp
  <2> HIDE DEF Whole
  <2>8. Whole(f, n)
    BY <1>3, <2>7 DEF T
  <2> QED BY <2>3, <2>8 DEF Whole
<1> QED BY <1>2, <1>3

-----------------------------------------------------------------------------
(* The end of a quoted string *)

\* skipQuoted jumps from byte to byte, over an escape and a doubled quote at
\* once.
LEMMA QuotedJumps ==
  ASSUME Len(statement) \in Nat, NEW quote, NEW backslashEscapes \in BOOLEAN
  PROVE  \E scan :
           /\ \A i : skipQuoted(i, quote, backslashEscapes) = scan[i + 1]
           /\ \A p \in 1..(end + 1) : scan[p] =
                IF p >= end THEN end
                ELSE IF backslashEscapes /\ ByteAt(p) = "\\" THEN scan[p + 2]
                ELSE IF ByteAt(p) # quote THEN scan[p + 1]
                ELSE IF ByteAt(p + 1) = quote THEN scan[p + 2]
                ELSE p + 1
<1> DEFINE Escape(p) == backslashEscapes /\ ByteAt(p) = "\\"
           Closes(p) == ~Escape(p) /\ ByteAt(p) = quote /\ ByteAt(p + 1) # quote
           Body(f) == [p \in 1..(end + 1) |->
                         IF p >= end THEN end
                         ELSE IF backslashEscapes /\ ByteAt(p) = "\\" THEN f[p + 2]
                         ELSE IF ByteAt(p) # quote THEN f[p + 1]
                         ELSE IF ByteAt(p + 1) = quote THEN f[p + 2]
                         ELSE p + 1]
           M == end + 1
           Stop == {p \in 1..M : p >= end \/ Closes(p)}
           base == [p \in 1..M |-> IF p >= end THEN end ELSE p + 1]
           next == [p \in 1..M |-> IF ~Escape(p) /\ ByteAt(p) # quote THEN p + 1 ELSE p + 2]
<1>1. end \in Nat /\ M \in Nat /\ base \in [1..M -> Nat]
  BY DEF end
<1> HIDE DEF Escape, Closes
<1>2. \A p \in 1..M : p \notin Stop => next[p] \in (p + 1)..M
  BY <1>1
<1>3. PICK g : /\ g = [p \in 1..M |-> g[p]]
               /\ \A p \in 1..M : g[p] = IF p \in Stop THEN base[p] ELSE g[next[p]]
  <2> HIDE DEF M, Stop, base, next
  <2>1. Jumps(M, Nat, Stop, base, next) # {}
    BY <1>1, <1>2, JumpsExist
  <2>2. PICK g : g \in Jumps(M, Nat, Stop, base, next)
    BY <2>1
  <2>3. g = [p \in 1..M |-> g[p]]
    BY <2>2 DEF Jumps
  <2>4. \A p \in 1..M : g[p] = IF p \in Stop THEN base[p] ELSE g[next[p]]
    BY <2>2 DEF Jumps
  <2> QED BY <2>3, <2>4
<1>4. ASSUME NEW p \in 1..M
      PROVE  g[p] = IF p >= end THEN end
                    ELSE IF backslashEscapes /\ ByteAt(p) = "\\" THEN g[p + 2]
                    ELSE IF ByteAt(p) # quote THEN g[p + 1]
                    ELSE IF ByteAt(p + 1) = quote THEN g[p + 2]
                    ELSE p + 1
  <2>1. g[p] = IF p \in Stop THEN base[p] ELSE g[next[p]]
    BY <1>3
  <2>2. CASE p >= end
    BY <2>1, <2>2
  <2>3. CASE ~(p >= end) /\ Escape(p)
    BY <2>1, <2>3 DEF Escape, Closes
  <2>4. CASE ~(p >= end) /\ ~Escape(p)
    BY <2>1, <2>4 DEF Escape, Closes
  <2> QED BY <2>2, <2>3, <2>4
<1>5. g = Body(g)
  BY <1>3, <1>4
<1> DEFINE scan == CHOOSE f : f = Body(f)
<1>6. scan = Body(scan)
  BY <1>5
<1>7. \A i : skipQuoted(i, quote, backslashEscapes) = scan[i + 1]
  BY DEF skipQuoted
<1> HIDE DEF scan
<1>8. \A p \in 1..(end + 1) : scan[p] =
        IF p >= end THEN end
        ELSE IF backslashEscapes /\ ByteAt(p) = "\\" THEN scan[p + 2]
        ELSE IF ByteAt(p) # quote THEN scan[p + 1]
        ELSE IF ByteAt(p + 1) = quote THEN scan[p + 2]
        ELSE p + 1
  BY <1>6
<1> QED BY <1>7, <1>8

\* The end found is behind the opening quote, and behind a closing one unless
\* the statement ends without any.
LEMMA QuotedEndsAhead ==
  ASSUME Len(statement) \in Nat, NEW quote, NEW backslashEscapes \in BOOLEAN,
         NEW i \in 1..(end - 1)
  PROVE  LET e == skipQuoted(i, quote, backslashEscapes)
         IN  e \in (i + 1)..end /\ (e < end => ByteAt(e - 1) = quote)
<1>1. end \in Nat
  BY DEF end
<1>2. PICK scan :
        /\ \A x : skipQuoted(x, quote, backslashEscapes) = scan[x + 1]
        /\ \A p \in 1..(end + 1) : scan[p] =
             IF p >= end THEN end
             ELSE IF backslashEscapes /\ ByteAt(p) = "\\" THEN scan[p + 2]
             ELSE IF ByteAt(p) # quote THEN scan[p + 1]
             ELSE IF ByteAt(p + 1) = quote THEN scan[p + 2]
             ELSE p + 1
  BY QuotedJumps
<1> DEFINE Ahead(p) == /\ scan[p] \in 1..end /\ (p <= end => scan[p] >= p)
                       /\ p >= end => scan[p] = end
                       /\ scan[p] < end => ByteAt(scan[p] - 1) = quote
           T == {m \in Nat : \A p \in (end + 1 - m)..(end + 1) : p >= 1 => Ahead(p)}
<1>3. 0 \in T
  BY <1>1, <1>2
<1>4. ASSUME NEW m \in 0..end, m \in T PROVE m + 1 \in T
  <2> DEFINE q == end - m
  <2>1. \A p \in (q + 1)..(end + 1) : p >= 1 => Ahead(p)
    BY <1>1, <1>4
  <2>2. q >= 1 => Ahead(q)
    <3>1. SUFFICES ASSUME q >= 1 PROVE Ahead(q)
      OBVIOUS
    <3>2. q \in 1..(end + 1) /\ q <= end
      BY <1>1, <3>1
    <3>3. CASE q >= end
      BY <1>1, <1>2, <3>2, <3>3
    <3>4. CASE q < end
      <4>1. Ahead(q + 1) /\ Ahead(q + 2)
        BY <1>1, <2>1, <3>1, <3>4
      <4>2. \/ scan[q] = q + 1 /\ ByteAt(q) = quote
            \/ scan[q] = scan[q + 1]
            \/ scan[q] = scan[q + 2]
        BY <1>1, <1>2, <3>2, <3>4
      <4> HIDE DEF q
      <4>3. CASE scan[q] = q + 1 /\ ByteAt(q) = quote
        <5>1. scan[q] \in 1..end /\ scan[q] >= q /\ ~(q >= end) /\ scan[q] - 1 = q
          BY <1>1, <3>1, <3>2, <3>4, <4>3
        <5> QED BY <4>3, <5>1
      <4>4. CASE scan[q] = scan[q + 1]
        BY <1>1, <3>1, <3>2, <3>4, <4>1, <4>4
      <4>5. CASE scan[q] = scan[q + 2]
        BY <1>1, <3>1, <3>2, <3>4, <4>1, <4>5
      <4> QED BY <4>2, <4>3, <4>4, <4>5
    <3> QED BY <1>1, <3>3, <3>4
  <2>3. \A p \in q..(end + 1) : p >= 1 => Ahead(p)
    <3>1. \A p \in q..(end + 1) : p = q \/ p \in (q + 1)..(end + 1)
      BY <1>1
    <3> HIDE DEF Ahead, q
    <3> QED BY <2>1, <2>2, <3>1
  <2>4. end + 1 - (m + 1) = q /\ m + 1 \in Nat
    BY <1>1
  <2> HIDE DEF Ahead, q
  <2> QED BY <2>3, <2>4
<1> HIDE DEF T
<1>5. \A m \in 0..((end + 1) - 1) : m \in T => m + 1 \in T
  <2>1. (end + 1) - 1 = end
    BY <1>1
  <2> QED BY <1>4, <2>1
<1>6. end + 1 \in T
  BY <1>1, <1>3, <1>5, CountingUp
<1>7. i + 1 \in (end + 1 - (end + 1))..(end + 1) /\ i + 1 >= 1 /\ i + 1 <= end
  BY <1>1
<1>8. Ahead(i + 1)
  BY <1>6, <1>7 DEF T
<1>9. skipQuoted(i, quote, backslashEscapes) = scan[i + 1]
  BY <1>2
<1>10. /\ scan[i + 1] \in (i + 1)..end
       /\ scan[i + 1] < end => ByteAt(scan[i + 1] - 1) = quote
  BY <1>1, <1>7, <1>8
<1> HIDE DEF Ahead
<1> QED BY <1>9, <1>10

-----------------------------------------------------------------------------
(* What a dump escapes is what the rewriting unescapes *)

\* What quoteMysqlBytes puts between the quotes.
Escaped(value) == FlattenSeq([i \in DOMAIN value |-> STRING_ESCAPES(value[i])])

LEMMA EscapeOfByte ==
  ASSUME NEW S, {"\\", "n"} \subseteq S, NEW b \in S, NEW e, e = STRING_ESCAPES(b)
  PROVE  /\ e \in Seq(S)
         /\ \/ Len(e) = 1 /\ e[1] = b /\ b \notin {"'", "\\"}
            \/ Len(e) = 2 /\ e[1] = "\\" /\ UNESCAPE(e[2]) = b
<1>1. CASE b \in {"'", "\"", "\\"}
  <2>1. e = << "\\", b >> /\ b # "n"
    BY <1>1 DEF STRING_ESCAPES
  <2> QED BY <2>1 DEF UNESCAPE
<1>2. CASE b = "\n"
  <2>1. e = << "\\", "n" >>
    BY <1>2 DEF STRING_ESCAPES
  <2>2. UNESCAPE("n") = b
    BY <1>2 DEF UNESCAPE
  <2>3. e \in Seq(S)
    BY <2>1
  <2> QED BY <2>1, <2>2, <2>3
<1>3. CASE b \notin {"'", "\"", "\\", "\n"}
  <2>1. e = << b >>
    BY <1>3 DEF STRING_ESCAPES
  <2>2. b \notin {"'", "\\"}
    BY <1>3
  <2>3. e \in Seq(S)
    BY <2>1
  <2> QED BY <2>1, <2>2, <2>3
<1> QED BY <1>1, <1>2, <1>3

\* A byte of the value is one byte there, or two of which the first is a
\* backslash.
EscapedAt(at, value, text) ==
  LET n == Len(value)
  IN  /\ at \in [1..(n + 1) -> Nat] /\ at[1] = 0 /\ at[n + 1] = Len(text)
      /\ \A k \in 1..n :
           \/ /\ at[k + 1] = at[k] + 1 /\ at[k + 1] <= Len(text)
              /\ text[at[k] + 1] = value[k] /\ value[k] \notin {"'", "\\"}
           \/ /\ at[k + 1] = at[k] + 2 /\ at[k + 1] <= Len(text)
              /\ text[at[k] + 1] = "\\" /\ UNESCAPE(text[at[k] + 2]) = value[k]

LEMMA EscapedPlaces ==
  ASSUME NEW S, {"\\", "n"} \subseteq S, NEW value \in Seq(S),
         NEW text, text = Escaped(value)
  PROVE  text \in Seq(S) /\ \E at : EscapedAt(at, value, text)
<1> DEFINE n == Len(value)
           ss == [i \in 1..n |-> STRING_ESCAPES(value[i])]
<1>1. n \in Nat /\ DOMAIN value = 1..n /\ \A k \in 1..n : value[k] \in S
  BY LenProperties, ElementOfSeq
<1>2. ss \in [1..n -> Seq(S)]
  <2>1. ASSUME NEW k \in 1..n PROVE STRING_ESCAPES(value[k]) \in Seq(S)
    BY <1>1, EscapeOfByte
  <2> QED BY <2>1
<1>3. text = FlattenSeq(ss)
  BY <1>1 DEF Escaped
<1>4. ASSUME NEW k \in 1..n
      PROVE  \/ /\ Len(ss[k]) = 1 /\ ss[k][1] = value[k] /\ value[k] \notin {"'", "\\"}
             \/ Len(ss[k]) = 2 /\ ss[k][1] = "\\" /\ UNESCAPE(ss[k][2]) = value[k]
  <2>1. ss[k] = STRING_ESCAPES(value[k])
    OBVIOUS
  <2> HIDE DEF ss
  <2> QED BY <1>1, <2>1, EscapeOfByte
<1> HIDE DEF ss
<1>5. FlattenSeq(ss) \in Seq(S)
  BY <1>1, <1>2, FlattenedPlaces
<1>6. PICK at \in [1..(n + 1) -> Nat] :
        /\ at[1] = 0 /\ at[n + 1] = Len(text)
        /\ \A k \in 1..n :
             /\ at[k + 1] = at[k] + Len(ss[k])
             /\ \A i \in 1..Len(ss[k]) :
                  at[k] + i \in 1..Len(text) /\ text[at[k] + i] = ss[k][i]
  <2>1. Places(n, ss, text) # {}
    BY <1>1, <1>2, <1>3, FlattenedPlaces
  <2> QED BY <2>1 DEF Places
<1>7. ASSUME NEW k \in 1..n
      PROVE  \/ /\ at[k + 1] = at[k] + 1 /\ at[k + 1] <= Len(text)
                /\ text[at[k] + 1] = value[k] /\ value[k] \notin {"'", "\\"}
             \/ /\ at[k + 1] = at[k] + 2 /\ at[k + 1] <= Len(text)
                /\ text[at[k] + 1] = "\\" /\ UNESCAPE(text[at[k] + 2]) = value[k]
  <2>1. /\ at[k + 1] = at[k] + Len(ss[k]) /\ at[k] \in Nat
        /\ \A i \in 1..Len(ss[k]) : at[k] + i \in 1..Len(text) /\ text[at[k] + i] = ss[k][i]
    BY <1>1, <1>6
  <2>2. CASE /\ Len(ss[k]) = 1 /\ ss[k][1] = value[k] /\ value[k] \notin {"'", "\\"}
    BY <2>1, <2>2
  <2>3. CASE Len(ss[k]) = 2 /\ ss[k][1] = "\\" /\ UNESCAPE(ss[k][2]) = value[k]
    BY <2>1, <2>3
  <2> QED BY <1>4, <2>2, <2>3
<1>8. text \in Seq(S)
  BY <1>3, <1>5
<1>9. EscapedAt(at, value, text)
  BY <1>6, <1>7 DEF EscapedAt
<1> QED BY <1>8, <1>9

\* unescape reads a content from left to right, an escape and a doubled quote
\* at once.
Unescapes(from, content) ==
  LET n == Len(content)
  IN  /\ unescape(content) = from[1]
      /\ \A p \in 1..(n + 2) : from[p] =
           IF p > n THEN << >>
           ELSE IF content[p] = "\\" /\ p < n
                THEN << UNESCAPE(content[p + 1]) >> \o from[p + 2]
           ELSE IF content[p] = "'" /\ p < n /\ content[p + 1] = "'"
                THEN << "'" >> \o from[p + 2]
           ELSE << content[p] >> \o from[p + 1]

LEMMA UnescapeGathers ==
  ASSUME NEW S, {"\n", "'"} \subseteq S, NEW content \in Seq(S)
  PROVE  \E from : Unescapes(from, content)
<1> DEFINE n == Len(content)
           M == n + 2
           Escape(p) == content[p] = "\\" /\ p < n
           Double(p) == content[p] = "'" /\ p < n /\ content[p + 1] = "'"
           Body(f) == [p \in 1..(n + 2) |->
                IF p > n THEN << >>
                ELSE IF content[p] = "\\" /\ p < n
                     THEN << UNESCAPE(content[p + 1]) >> \o f[p + 2]
                ELSE IF content[p] = "'" /\ p < n /\ content[p + 1] = "'"
                     THEN << "'" >> \o f[p + 2]
                ELSE << content[p] >> \o f[p + 1]]
           Stop == {p \in 1..M : p > n}
           head == [p \in 1..M |-> IF p > n THEN << >>
                                   ELSE IF Escape(p) THEN << UNESCAPE(content[p + 1]) >>
                                   ELSE << content[p] >>]
           next == [p \in 1..M |-> IF Escape(p) \/ Double(p) THEN p + 2 ELSE p + 1]
<1>1. n \in Nat /\ M \in Nat /\ DOMAIN content = 1..n /\ \A p \in 1..n : content[p] \in S
  BY LenProperties, ElementOfSeq
<1>2. head \in [1..M -> Seq(S)]
  <2>1. ASSUME NEW p \in 1..M PROVE head[p] \in Seq(S)
    <3>1. CASE p > n
      BY <3>1
    <3>2. CASE p <= n /\ Escape(p)
      <4>1. content[p + 1] \in S
        BY <1>1, <3>2
      <4>2. UNESCAPE(content[p + 1]) \in S
        BY <4>1 DEF UNESCAPE
      <4> QED BY <1>1, <3>2, <4>2
    <3>3. CASE p <= n /\ ~Escape(p)
      <4>1. content[p] \in S /\ head[p] = << content[p] >>
        BY <1>1, <3>3
      <4> HIDE DEF head
      <4> QED BY <4>1
    <3> QED BY <1>1, <3>1, <3>2, <3>3
  <2> HIDE DEF Escape
  <2> QED BY <2>1
<1> HIDE DEF Escape, Double
<1>3. \A p \in 1..M : p \notin Stop => next[p] \in (p + 1)..M
  BY <1>1
<1>4. PICK g : /\ g = [p \in 1..M |-> g[p]]
               /\ \A p \in 1..M : g[p] = IF p \in Stop THEN << >> ELSE head[p] \o g[next[p]]
  <2> HIDE DEF M, Stop, head, next
  <2>1. Gatherers(M, S, Stop, head, next) # {}
    BY <1>1, <1>2, <1>3, GatherersExist
  <2>2. PICK g : g \in Gatherers(M, S, Stop, head, next)
    BY <2>1
  <2>3. g = [p \in 1..M |-> g[p]]
    BY <2>2 DEF Gatherers
  <2>4. \A p \in 1..M : g[p] = IF p \in Stop THEN << >> ELSE head[p] \o g[next[p]]
    BY <2>2 DEF Gatherers
  <2> QED BY <2>3, <2>4
<1>5. ASSUME NEW p \in 1..M
      PROVE  g[p] = IF p > n THEN << >>
                    ELSE IF content[p] = "\\" /\ p < n
                         THEN << UNESCAPE(content[p + 1]) >> \o g[p + 2]
                    ELSE IF content[p] = "'" /\ p < n /\ content[p + 1] = "'"
                         THEN << "'" >> \o g[p + 2]
                    ELSE << content[p] >> \o g[p + 1]
  <2>1. g[p] = IF p \in Stop THEN << >> ELSE head[p] \o g[next[p]]
    BY <1>4
  <2>2. CASE p > n
    BY <2>1, <2>2
  <2>3. CASE ~(p > n) /\ Escape(p)
    <3>1. head[p] = << UNESCAPE(content[p + 1]) >> /\ next[p] = p + 2 /\ p \notin Stop
      BY <2>3
    <3> HIDE DEF head, next, Stop
    <3> QED BY <2>1, <2>3, <3>1 DEF Escape
  <2>4. CASE ~(p > n) /\ ~Escape(p) /\ Double(p)
    <3>1. head[p] = << content[p] >> /\ next[p] = p + 2 /\ p \notin Stop
      BY <2>4
    <3> HIDE DEF head, next, Stop
    <3> QED BY <2>1, <2>4, <3>1 DEF Escape, Double
  <2>5. CASE ~(p > n) /\ ~Escape(p) /\ ~Double(p)
    <3>1. head[p] = << content[p] >> /\ next[p] = p + 1 /\ p \notin Stop
      BY <2>5
    <3> HIDE DEF head, next, Stop
    <3> QED BY <2>1, <2>5, <3>1 DEF Escape, Double
  <2> QED BY <2>2, <2>3, <2>4, <2>5
<1>6. g = Body(g)
  BY <1>4, <1>5
<1> DEFINE from == CHOOSE f : f = Body(f)
<1>7. from = Body(from)
  BY <1>6
<1>8. unescape(content) = from[1]
  BY DEF unescape
<1> HIDE DEF from
<1>9. \A p \in 1..(n + 2) : from[p] =
        IF p > n THEN << >>
        ELSE IF content[p] = "\\" /\ p < n
             THEN << UNESCAPE(content[p + 1]) >> \o from[p + 2]
        ELSE IF content[p] = "'" /\ p < n /\ content[p + 1] = "'"
             THEN << "'" >> \o from[p + 2]
        ELSE << content[p] >> \o from[p + 1]
  BY <1>7
<1>10. Unescapes(from, content)
  BY <1>8, <1>9 DEF Unescapes
<1> QED BY <1>10

LEMMA LenOfFunction ==
  ASSUME NEW S, NEW n \in Nat, NEW s \in [1..n -> S]
  PROVE  s \in Seq(S) /\ Len(s) = n
BY SeqDef

\* The bytes of a value from k on.
Rest(value, k) == [i \in 1..(Len(value) + 1 - k) |-> value[k + i - 1]]

LEMMA RestOfValue ==
  ASSUME NEW S, NEW value \in Seq(S)
  PROVE  /\ Rest(value, 1) = value /\ Rest(value, Len(value) + 1) = << >>
         /\ \A k \in 1..Len(value) : << value[k] >> \o Rest(value, k + 1) = Rest(value, k)
<1> DEFINE n == Len(value)
<1>1. n \in Nat /\ value = [i \in 1..n |-> value[i]] /\ \A i \in 1..n : value[i] \in S
  BY LenProperties, ElementOfSeq
<1>2. Rest(value, 1) = value
  BY <1>1 DEF Rest
<1>3. Rest(value, n + 1) = << >>
  <2>1. n + 1 - (n + 1) = 0
    BY <1>1
  <2> QED BY <2>1 DEF Rest
<1>4. ASSUME NEW k \in 1..n
      PROVE  << value[k] >> \o Rest(value, k + 1) = Rest(value, k)
  <2> DEFINE a == << value[k] >>
             b == Rest(value, k + 1)
             c == Rest(value, k)
  <2>1. a \in Seq(S) /\ Len(a) = 1 /\ a[1] = value[k]
    BY <1>1
  <2>2. b \in [1..(n - k) -> S] /\ \A i \in 1..(n - k) : b[i] = value[k + i]
    BY <1>1 DEF Rest
  <2>3. c \in [1..(n - k + 1) -> S] /\ \A i \in 1..(n - k + 1) : c[i] = value[k + i - 1]
    BY <1>1 DEF Rest
  <2>4. n - k \in Nat /\ n - k + 1 \in Nat /\ n - k + 1 = 1 + (n - k)
    BY <1>1
  <2> HIDE DEF a, b, c
  <2>5. b \in Seq(S) /\ Len(b) = n - k /\ c \in Seq(S) /\ Len(c) = n - k + 1
    BY <2>2, <2>3, <2>4, LenOfFunction
  <2>6. /\ a \o b \in Seq(S) /\ Len(a \o b) = Len(a) + Len(b)
        /\ \A i \in 1..(Len(a) + Len(b)) :
             (a \o b)[i] = IF i <= Len(a) THEN a[i] ELSE b[i - Len(a)]
    BY <2>1, <2>5, ConcatProperties
  <2>7. ASSUME NEW i \in 1..(n - k + 1) PROVE (a \o b)[i] = c[i]
    <3>1. CASE i = 1
      <4>1. 1 \in 1..(Len(a) + Len(b)) /\ 1 <= Len(a) /\ 1 \in 1..(n - k + 1) /\ k + 1 - 1 = k
        BY <1>1, <2>1, <2>4, <2>5
      <4> QED BY <2>1, <2>3, <2>6, <3>1, <4>1
    <3>2. CASE i # 1
      <4>1. /\ i - 1 \in 1..(n - k) /\ ~(i <= 1) /\ k + (i - 1) = k + i - 1
            /\ i \in 1..(Len(a) + Len(b))
        BY <1>1, <2>1, <2>4, <2>5, <3>2
      <4> QED BY <2>1, <2>2, <2>3, <2>6, <4>1
    <3> QED BY <3>1, <3>2
  <2>8. a \o b = c
    BY <2>1, <2>4, <2>5, <2>6, <2>7, SeqEqual
  <2> QED BY <2>8 DEF a, b, c
<1> QED BY <1>2, <1>3, <1>4

\* What the rewriting reads in a literal that the dump wrote is what the dump
\* wrote in it, for values of any length.
THEOREM EscapesAreUndone ==
  ASSUME NEW S, {"\\", "n", "\n", "'"} \subseteq S, NEW value \in Seq(S)
  PROVE  unescape(Escaped(value)) = value
<1> DEFINE n == Len(value)
           text == Escaped(value)
           m == Len(text)
<1>1. text \in Seq(S) /\ n \in Nat /\ m \in Nat
  BY EscapedPlaces, LenProperties
<1>2. PICK at : EscapedAt(at, value, text)
  BY EscapedPlaces
<1>3. PICK from : Unescapes(from, text)
  BY <1>1, UnescapeGathers
<1>a. /\ at \in [1..(n + 1) -> Nat] /\ at[1] = 0 /\ at[n + 1] = m
      /\ \A k \in 1..n :
           \/ /\ at[k + 1] = at[k] + 1 /\ at[k + 1] <= m
              /\ text[at[k] + 1] = value[k] /\ value[k] \notin {"'", "\\"}
           \/ /\ at[k + 1] = at[k] + 2 /\ at[k + 1] <= m
              /\ text[at[k] + 1] = "\\" /\ UNESCAPE(text[at[k] + 2]) = value[k]
  BY <1>2 DEF EscapedAt
<1>f. /\ unescape(text) = from[1]
      /\ \A p \in 1..(m + 2) : from[p] =
           IF p > m THEN << >>
           ELSE IF text[p] = "\\" /\ p < m THEN << UNESCAPE(text[p + 1]) >> \o from[p + 2]
           ELSE IF text[p] = "'" /\ p < m /\ text[p + 1] = "'" THEN << "'" >> \o from[p + 2]
           ELSE << text[p] >> \o from[p + 1]
  BY <1>3 DEF Unescapes
<1>r. /\ Rest(value, 1) = value /\ Rest(value, n + 1) = << >>
      /\ \A k \in 1..n : << value[k] >> \o Rest(value, k + 1) = Rest(value, k)
  BY RestOfValue
<1> HIDE DEF n, text, m
<1> DEFINE T == {j \in Nat : j <= n => from[at[n + 1 - j] + 1] = Rest(value, n + 1 - j)}
<1>4. 0 \in T
  <2>1. n + 1 - 0 = n + 1 /\ m + 1 \in 1..(m + 2) /\ m + 1 > m
    BY <1>1
  <2>2. from[m + 1] = << >>
    BY <1>f, <2>1
  <2> QED BY <1>a, <1>r, <2>1, <2>2
<1>5. ASSUME NEW j \in 0..(n - 1), j \in T PROVE j + 1 \in T
  <2> DEFINE k == n - j
  <2>1. k \in 1..n /\ n + 1 - j = k + 1 /\ n + 1 - (j + 1) = k /\ j + 1 \in Nat /\ j <= n
    BY <1>1
  <2> HIDE DEF k
  <2>2. from[at[k + 1] + 1] = Rest(value, k + 1)
    BY <1>5, <2>1
  <2>3. at[k] \in Nat /\ at[k + 1] \in Nat
    BY <1>1, <1>a, <2>1
  <2>4. from[at[k] + 1] = << value[k] >> \o from[at[k + 1] + 1]
    <3> DEFINE p == at[k] + 1
    <3>1. CASE /\ at[k + 1] = at[k] + 1 /\ at[k + 1] <= m
               /\ text[at[k] + 1] = value[k] /\ value[k] \notin {"'", "\\"}
      <4>1. p \in 1..(m + 2) /\ ~(p > m) /\ p + 1 = at[k + 1] + 1
        BY <1>1, <2>3, <3>1
      <4>2. text[p] = value[k] /\ text[p] # "'" /\ text[p] # "\\"
        BY <3>1
      <4> HIDE DEF p
      <4>3. from[p] = << value[k] >> \o from[p + 1]
        BY <1>f, <4>1, <4>2
      <4> QED BY <4>1, <4>3 DEF p
    <3>2. CASE /\ at[k + 1] = at[k] + 2 /\ at[k + 1] <= m
               /\ text[at[k] + 1] = "\\" /\ UNESCAPE(text[at[k] + 2]) = value[k]
      <4>0. at[k + 1] = at[k] + 2 /\ at[k + 1] <= m
        BY <3>2
      <4>1. p \in 1..(m + 2) /\ ~(p > m) /\ p < m /\ p + 1 = at[k] + 2 /\ p + 2 = at[k + 1] + 1
        BY <1>1, <2>3, <4>0
      <4>2. text[p] = "\\" /\ UNESCAPE(text[p + 1]) = value[k]
        BY <3>2, <4>1
      <4> HIDE DEF p
      <4>3. from[p] = << value[k] >> \o from[p + 2]
        BY <1>f, <4>1, <4>2
      <4> QED BY <4>1, <4>3 DEF p
    <3> QED BY <1>a, <2>1, <3>1, <3>2
  <2>5. from[at[k] + 1] = Rest(value, k)
    BY <1>r, <2>1, <2>2, <2>4
  <2> QED BY <2>1, <2>5
<1>6. \A j \in 0..(n - 1) : j \in T => j + 1 \in T
  BY <1>5
<1> HIDE DEF T
<1>7. n \in T
  BY <1>1, <1>4, <1>6, CountingUp
<1>8. from[at[1] + 1] = Rest(value, 1)
  <2>1. n + 1 - n = 1 /\ n <= n
    BY <1>1
  <2> QED BY <1>7, <2>1 DEF T
<1>9. from[1] = value
  BY <1>a, <1>r, <1>8
<1> QED BY <1>f, <1>9 DEF text

\* The scan finds the quote that the dump put behind the value, and no other.
LEMMA ClosingQuote ==
  ASSUME Len(statement) \in Nat,
         NEW S, {"\\", "n"} \subseteq S, NEW value \in Seq(S), NEW text, text = Escaped(value),
         NEW i \in Nat \ {0}, i + Len(text) + 1 < end,
         \A j \in 1..Len(text) : ByteAt(i + j) = text[j],
         ByteAt(i + Len(text) + 1) = "'", ByteAt(i + Len(text) + 2) # "'"
  PROVE  skipQuoted(i, "'", TRUE) = i + Len(text) + 2
<1> DEFINE n == Len(value)
           m == Len(text)
           closing == i + m + 1
<1>1. n \in Nat /\ m \in Nat /\ end \in Nat
  BY EscapedPlaces, LenProperties DEF end
<1>2. PICK at : EscapedAt(at, value, text)
  BY EscapedPlaces
<1>3. /\ at \in [1..(n + 1) -> Nat] /\ at[1] = 0 /\ at[n + 1] = m
      /\ \A k \in 1..n :
           \/ /\ at[k + 1] = at[k] + 1 /\ at[k + 1] <= m
              /\ text[at[k] + 1] = value[k] /\ value[k] \notin {"'", "\\"}
           \/ /\ at[k + 1] = at[k] + 2 /\ at[k + 1] <= m
              /\ text[at[k] + 1] = "\\" /\ UNESCAPE(text[at[k] + 2]) = value[k]
  BY <1>2 DEF EscapedAt
<1>4. PICK scan :
        /\ \A x : skipQuoted(x, "'", TRUE) = scan[x + 1]
        /\ \A p \in 1..(end + 1) : scan[p] =
             IF p >= end THEN end
             ELSE IF TRUE /\ ByteAt(p) = "\\" THEN scan[p + 2]
             ELSE IF ByteAt(p) # "'" THEN scan[p + 1]
             ELSE IF ByteAt(p + 1) = "'" THEN scan[p + 2]
             ELSE p + 1
  BY QuotedJumps
<1>5. /\ closing \in 1..(end + 1) /\ ~(closing >= end)
      /\ ByteAt(closing) = "'" /\ ByteAt(closing + 1) # "'"
  <2>1. closing + 1 = i + Len(text) + 2
    BY <1>1
  <2> QED BY <1>1, <2>1
<1>6. \A j \in 1..m : ByteAt(i + j) = text[j] /\ i + j \in 1..(end + 1) /\ ~(i + j >= end)
  BY <1>1
<1> HIDE DEF n, m
<1> DEFINE T == {j \in Nat : j <= n => scan[i + at[n + 1 - j] + 1] = closing + 1}
<1>7. 0 \in T
  <2>1. n + 1 - 0 = n + 1 /\ i + at[n + 1] + 1 = closing
    BY <1>1, <1>3
  <2> HIDE DEF closing
  <2>2. scan[closing] = closing + 1
    BY <1>4, <1>5
  <2> QED BY <2>1, <2>2
<1> HIDE DEF closing
<1>8. ASSUME NEW j \in 0..(n - 1), j \in T PROVE j + 1 \in T
  <2> DEFINE k == n - j
  <2>1. k \in 1..n /\ n + 1 - j = k + 1 /\ n + 1 - (j + 1) = k /\ j + 1 \in Nat /\ j <= n
    BY <1>1
  <2> HIDE DEF k
  <2>2. scan[i + at[k + 1] + 1] = closing + 1
    BY <1>8, <2>1
  <2>3. at[k] \in Nat /\ at[k + 1] \in Nat
    BY <1>1, <1>3, <2>1
  <2> DEFINE p == i + at[k] + 1
  <2>4. scan[p] = scan[i + at[k + 1] + 1]
    <3>1. CASE /\ at[k + 1] = at[k] + 1 /\ at[k + 1] <= m
               /\ text[at[k] + 1] = value[k] /\ value[k] \notin {"'", "\\"}
      <4>0. at[k + 1] = at[k] + 1 /\ at[k + 1] <= m
        BY <3>1
      <4>1. at[k] + 1 \in 1..m /\ p = i + (at[k] + 1) /\ p + 1 = i + at[k + 1] + 1
        BY <1>1, <2>3, <4>0
      <4>2. /\ ByteAt(p) = text[at[k] + 1] /\ p \in 1..(end + 1) /\ ~(p >= end)
        BY <1>6, <4>1
      <4>3. ByteAt(p) # "'" /\ ByteAt(p) # "\\"
        BY <3>1, <4>2
      <4> HIDE DEF p
      <4>4. scan[p] = scan[p + 1]
        BY <1>4, <4>2, <4>3
      <4> QED BY <4>1, <4>4
    <3>2. CASE /\ at[k + 1] = at[k] + 2 /\ at[k + 1] <= m
               /\ text[at[k] + 1] = "\\" /\ UNESCAPE(text[at[k] + 2]) = value[k]
      <4>0. at[k + 1] = at[k] + 2 /\ at[k + 1] <= m
        BY <3>2
      <4>1. at[k] + 1 \in 1..m /\ p = i + (at[k] + 1) /\ p + 2 = i + at[k + 1] + 1
        <5>1. at[k] + 1 \in 1..m
          BY <1>1, <2>3, <4>0
        <5>2. p = i + (at[k] + 1)
          BY <2>3
        <5>3. p + 2 = i + (at[k] + 2) + 1
          BY <2>3
        <5> QED BY <4>0, <5>1, <5>2, <5>3
      <4>2. /\ ByteAt(p) = text[at[k] + 1] /\ p \in 1..(end + 1) /\ ~(p >= end)
        BY <1>6, <4>1
      <4>3. ByteAt(p) = "\\"
        BY <3>2, <4>2
      <4> HIDE DEF p
      <4>4. scan[p] = scan[p + 2]
        BY <1>4, <4>2, <4>3
      <4> QED BY <4>1, <4>4
    <3> QED BY <1>3, <2>1, <3>1, <3>2
  <2> QED BY <2>1, <2>2, <2>4
<1>9. \A j \in 0..(n - 1) : j \in T => j + 1 \in T
  BY <1>8
<1> HIDE DEF T
<1>10. n \in T
  BY <1>1, <1>7, <1>9, CountingUp
<1>11. scan[i + at[1] + 1] = closing + 1
  <2>1. n + 1 - n = 1 /\ n <= n
    BY <1>1
  <2> QED BY <1>10, <2>1 DEF T
<1>12. i + at[1] + 1 = i + 1 /\ closing + 1 = i + Len(text) + 2
  BY <1>1, <1>3 DEF closing, m
<1> QED BY <1>4, <1>11, <1>12

-----------------------------------------------------------------------------
(* The literal a dump wrote, in its statement *)

LEMMA BlankIsNoWord == Space # "_binary" /\ Space # "'"
BY Zenon DEF Space

\* The introducer of a literal is found when nothing of a word precedes it.
LEMMA IntroducerFound ==
  ASSUME NEW i \in Nat, i > 2, statement[i - 1] = Space, statement[i - 2] = "_binary",
         i > 3 => statement[i - 3] \notin WordByte
  PROVE  findBinaryIntroducer(i) = i - 2
<1> DEFINE Starts(b, e, R) == (\A k \in b..(e - 1) : statement[k] \in R)
                              /\ (b = 1 \/ statement[b - 1] \notin R)
<1>0. \A e, R : RunStart(e, R) = CHOOSE b \in 1..e : Starts(b, e, R)
  BY DEF RunStart
<1>1. RunStart(i, {Space}) = i - 1
  <2>1. i - 1 \in 1..i /\ Starts(i - 1, i, {Space})
    BY BlankIsNoWord
  <2>2. ASSUME NEW b \in 1..i, Starts(b, i, {Space}) PROVE b = i - 1
    <3>1. b # i
      BY <2>2
    <3>2. ~(b < i - 1)
      <4>1. SUFFICES ASSUME b < i - 1 PROVE FALSE
        OBVIOUS
      <4>2. i - 2 \in b..(i - 1)
        BY <4>1
      <4> QED BY <2>2, <4>2, BlankIsNoWord
    <3> QED BY <3>1, <3>2
  <2> HIDE DEF Starts
  <2> QED BY <1>0, <2>1, <2>2
<1>2. RunStart(i - 1, WordByte) = i - 2
  <2>1. i - 2 \in 1..(i - 1) /\ Starts(i - 2, i - 1, WordByte)
    BY DEF WordByte
  <2>2. ASSUME NEW b \in 1..(i - 1), Starts(b, i - 1, WordByte) PROVE b = i - 2
    <3>1. b # i - 1
      <4>1. SUFFICES ASSUME b = i - 1 PROVE FALSE
        OBVIOUS
      <4>2. b - 1 = i - 2 /\ b # 1
        BY <4>1
      <4> QED BY <2>2, <4>2 DEF WordByte
    <3>2. ~(b < i - 2)
      <4>1. SUFFICES ASSUME b < i - 2 PROVE FALSE
        OBVIOUS
      <4>2. i - 3 \in b..((i - 1) - 1) /\ i > 3
        BY <4>1
      <4> QED BY <2>2, <4>2
    <3> QED BY <3>1, <3>2
  <2> HIDE DEF Starts
  <2> QED BY <1>0, <2>1, <2>2
<1> HIDE DEF Starts
<1> DEFINE word == Slice(i - 2, i - 1)
<1>3. /\ word \in Seq({"_binary"}) /\ Len(word) = 1 /\ word[1] = "_binary"
  <2>1. (i - 1) - 1 = i - 2 /\ i - 2 \in Int /\ i - 2 <= i - 2 /\ (i - 2) - (i - 2) + 1 = 1
        /\ (i - 2) + 1 - 1 = i - 2
    OBVIOUS
  <2>2. \A j \in (i - 2)..(i - 2) : statement[j] \in {"_binary"}
    OBVIOUS
  <2>3. /\ SubSeq(statement, i - 2, i - 2) \in Seq({"_binary"})
        /\ Len(SubSeq(statement, i - 2, i - 2)) = 1
        /\ SubSeq(statement, i - 2, i - 2)[1] = statement[i - 2]
    BY <2>1, <2>2, SubSeqProperties
  <2> QED BY <2>1, <2>3 DEF Slice
<1>4. word # << >> /\ Range(Tail(word)) = {}
  <2> HIDE DEF word
  <2>1. word # << >>
    <3>1. Len(word) = 1
      BY <1>3
    <3> QED BY <3>1
  <2>2. Tail(word) = << >>
    <3> DEFINE R == {"_binary"}
    <3>1. word \in Seq(R) /\ Len(word) = 1
      BY <1>3
    <3> HIDE DEF R
    <3>2. Tail(word) \in Seq(R) /\ Len(Tail(word)) = 0
      BY <2>1, <3>1, HeadTailProperties
    <3> QED BY <3>2, EmptySeq
  <2> QED BY <2>1, <2>2 DEF Range
<1>5. findBinaryIntroducer(i) =
        IF word # << >> /\ word[1] = "_binary" /\ Range(Tail(word)) \subseteq PlainWordByte
        THEN i - 2 ELSE i
  BY <1>1, <1>2 DEF findBinaryIntroducer
<1> QED BY <1>3, <1>4, <1>5

\* The bytes the theorem is about, whatever others there are.
Alphabet(S) == {"\\", "n", "\n", "'", "_binary", Space} \subseteq S

\* c is a and then b, by what is where.
IsJoined(S, a, b, c) ==
  /\ c \in Seq(S) /\ Len(a) \in Nat /\ Len(b) \in Nat
  /\ Len(c) = Len(a) + Len(b)
  /\ \A j \in 1..Len(a) : c[j] = a[j]
  /\ \A j \in 1..Len(b) : c[Len(a) + j] = b[j]

LEMMA Joined ==
  ASSUME NEW S, NEW a \in Seq(S), NEW b \in Seq(S)
  PROVE  IsJoined(S, a, b, a \o b)
<1> DEFINE c == a \o b
<1>1. Len(a) \in Nat /\ Len(b) \in Nat
  OBVIOUS
<1>2. /\ c \in Seq(S) /\ Len(c) = Len(a) + Len(b)
      /\ \A j \in 1..(Len(a) + Len(b)) : c[j] = IF j <= Len(a) THEN a[j] ELSE b[j - Len(a)]
  BY ConcatProperties
<1> HIDE DEF c
<1>3. ASSUME NEW j \in 1..Len(a) PROVE c[j] = a[j]
  <2>1. j \in 1..(Len(a) + Len(b)) /\ j <= Len(a)
    BY <1>1
  <2> QED BY <1>2, <2>1
<1>4. ASSUME NEW j \in 1..Len(b) PROVE c[Len(a) + j] = b[j]
  <2>1. /\ Len(a) + j \in 1..(Len(a) + Len(b)) /\ ~(Len(a) + j <= Len(a))
        /\ (Len(a) + j) - Len(a) = j
    BY <1>1
  <2> QED BY <1>2, <2>1
<1>5. IsJoined(S, a, b, c)
  BY <1>1, <1>2, <1>3, <1>4 DEF IsJoined
<1> QED BY <1>5 DEF c

\* What is where in s, a raw literal with text between its quotes after before.
RawLiteralIn(s, S, before, text, after) ==
  /\ s \in Seq(S) /\ Len(s) = Len(before) + Len(text) + 4 + Len(after)
  /\ \A j \in 1..Len(before) : s[j] = before[j]
  /\ s[Len(before) + 1] = "_binary" /\ s[Len(before) + 2] = Space
  /\ s[Len(before) + 3] = "'"
  /\ \A j \in 1..Len(text) : s[Len(before) + 3 + j] = text[j]
  /\ s[Len(before) + Len(text) + 4] = "'"
  /\ \A j \in 1..Len(after) : s[Len(before) + Len(text) + 4 + j] = after[j]

LEMMA RawLiteralLayout ==
  ASSUME NEW S, Alphabet(S), NEW value \in Seq(S), NEW before \in Seq(S), NEW after \in Seq(S)
  PROVE  /\ Escaped(value) \in Seq(S)
         /\ Len(renderBytes(value, FALSE)) = Len(Escaped(value)) + 4
         /\ RawLiteralIn(before \o renderBytes(value, FALSE) \o after, S,
                         before, Escaped(value), after)
<1> DEFINE text == Escaped(value)
           q1 == << "'" >> \o text
           q2 == q1 \o << "'" >>
           r  == << "_binary", Space >> \o q2
           u  == before \o r
           s  == u \o after
<1>0. {"\\", "n"} \subseteq S /\ "'" \in S /\ "_binary" \in S /\ Space \in S
  BY DEF Alphabet
<1>1. text \in Seq(S) /\ Len(text) \in Nat /\ Len(before) \in Nat /\ Len(after) \in Nat
  BY <1>0, EscapedPlaces, LenProperties
<1> HIDE DEF text
<1>2. << "'" >> \in Seq(S) /\ << "_binary", Space >> \in Seq(S)
  BY <1>0
<1>3. /\ q1 \in Seq(S) /\ Len(q1) = 1 + Len(text) /\ q1[1] = "'"
      /\ \A j \in 1..Len(text) : q1[1 + j] = text[j]
  BY <1>1, <1>2, ConcatProperties
<1> HIDE DEF q1
<1>4. /\ q2 \in Seq(S) /\ Len(q2) = 2 + Len(text) /\ q2[2 + Len(text)] = "'"
      /\ \A j \in 1..(1 + Len(text)) : q2[j] = q1[j]
  BY <1>1, <1>2, <1>3, ConcatProperties
<1> HIDE DEF q2
<1>5. /\ r \in Seq(S) /\ Len(r) = 4 + Len(text) /\ r[1] = "_binary" /\ r[2] = Space
      /\ \A j \in 1..(2 + Len(text)) : r[2 + j] = q2[j]
  BY <1>1, <1>2, <1>4, ConcatProperties
<1>6. r = renderBytes(value, FALSE)
  BY DEF renderBytes, quoteMysqlBytes, Escaped, q1, q2, text
<1> HIDE DEF r
<1>n. Len(text) \in Nat /\ Len(before) \in Nat /\ Len(after) \in Nat
  BY <1>1
<1>l. r \in Seq(S) /\ Len(r) = 4 + Len(text) /\ Len(r) \in Nat
  BY <1>n, <1>5
<1>7. /\ u \in Seq(S) /\ Len(u) = Len(before) + Len(r)
      /\ \A j \in 1..Len(before) : u[j] = before[j]
      /\ \A j \in 1..Len(r) : u[Len(before) + j] = r[j]
  <2>1. IsJoined(S, before, r, u)
    BY <1>l, Joined
  <2> QED BY <2>1 DEF IsJoined
<1>u. Len(u) \in Nat
  BY <1>7, LenProperties
<1> HIDE DEF u
<1>8. /\ s \in Seq(S) /\ Len(s) = Len(u) + Len(after)
      /\ \A j \in 1..Len(u) : s[j] = u[j]
      /\ \A j \in 1..Len(after) : s[Len(u) + j] = after[j]
  <2>1. IsJoined(S, u, after, s)
    BY <1>7, Joined
  <2> QED BY <2>1 DEF IsJoined
<1>s. s = before \o renderBytes(value, FALSE) \o after
  BY <1>6 DEF u
<1> HIDE DEF s
<1>9. \A j \in 1..(4 + Len(text)) : s[Len(before) + j] = r[j]
  <2>1. ASSUME NEW j \in 1..(4 + Len(text)) PROVE Len(before) + j \in 1..Len(u) /\ j \in 1..Len(r)
    BY <1>n, <1>l, <1>7
  <2> QED BY <1>7, <1>8, <2>1
<1>10. /\ s[Len(before) + 1] = "_binary" /\ s[Len(before) + 2] = Space
       /\ s[Len(before) + 3] = "'"
  <2>1. /\ 1 \in 1..(4 + Len(text)) /\ 2 \in 1..(4 + Len(text)) /\ 3 \in 1..(4 + Len(text))
        /\ 1 \in 1..(2 + Len(text)) /\ 1 \in 1..(1 + Len(text)) /\ 3 = 2 + 1
    BY <1>n
  <2>2. r[3] = "'"
    BY <1>3, <1>4, <1>5, <2>1
  <2> QED BY <1>5, <1>9, <2>1, <2>2
<1>11. ASSUME NEW j \in 1..Len(text) PROVE s[Len(before) + 3 + j] = text[j]
  <2>1. /\ 3 + j \in 1..(4 + Len(text)) /\ 1 + j \in 1..(2 + Len(text))
        /\ 1 + j \in 1..(1 + Len(text)) /\ 2 + (1 + j) = 3 + j
        /\ Len(before) + (3 + j) = Len(before) + 3 + j
    BY <1>n
  <2>2. r[3 + j] = q2[1 + j] /\ q2[1 + j] = q1[1 + j]
    BY <1>4, <1>5, <2>1
  <2> QED BY <1>3, <1>9, <2>1, <2>2
<1>12. s[Len(before) + Len(text) + 4] = "'"
  <2>1. /\ 4 + Len(text) \in 1..(4 + Len(text)) /\ 2 + Len(text) \in 1..(2 + Len(text))
        /\ 2 + (2 + Len(text)) = 4 + Len(text)
        /\ Len(before) + (4 + Len(text)) = Len(before) + Len(text) + 4
    BY <1>n
  <2>2. r[4 + Len(text)] = "'"
    BY <1>4, <1>5, <2>1
  <2> QED BY <1>9, <2>1, <2>2
<1>13. /\ Len(s) = Len(before) + Len(text) + 4 + Len(after)
       /\ Len(u) = Len(before) + Len(text) + 4
  <2>1. Len(u) = Len(before) + Len(text) + 4
    BY <1>n, <1>l, <1>7
  <2> QED BY <1>8, <2>1
<1>14. \A j \in 1..Len(before) : j \in 1..Len(u)
  BY <1>n, <1>l, <1>7
<1>15. \A j \in 1..Len(before) : s[j] = before[j]
  BY <1>7, <1>8, <1>14
<1>16. Len(renderBytes(value, FALSE)) = Len(text) + 4
  <2>1. Len(r) = Len(text) + 4
    BY <1>n, <1>l
  <2> QED BY <1>6, <2>1
<1>17. RawLiteralIn(s, S, before, text, after)
  BY <1>8, <1>10, <1>11, <1>12, <1>13, <1>15 DEF RawLiteralIn
<1> QED BY <1>1, <1>16, <1>17, <1>s DEF text

\* The literal that a dump writes for the bytes of a column, of any length, is
\* replaced as a whole by the form the dump would have written with hexBlob,
\* introducer included; what stands in front of it and behind it is not
\* touched.  The byte in front is none of a word, the one behind no quote.
DumpedInto(S, value, before, after) ==
  /\ statement = before \o renderBytes(value, FALSE) \o after
  /\ before # << >> => before[Len(before)] \notin WordByte
  /\ after # << >> => after[1] # "'"
  /\ "end" \notin S

THEOREM DumpedBytesBecomeHexadecimal ==
  ASSUME NEW S, Alphabet(S), NEW value \in Seq(S), NEW before \in Seq(S), NEW after \in Seq(S),
         DumpedInto(S, value, before, after), index = Len(before) + 3, RewriteLiteral
  PROVE  /\ out' = out \o Slice(copiedFrom, Len(before) + 1) \o renderBytes(value, TRUE)
         /\ copiedFrom' = Len(before) + Len(renderBytes(value, FALSE)) + 1
         /\ index' = copiedFrom'
<1> DEFINE text == Escaped(value)
           l == Len(before)
           m == Len(text)
<1>0. /\ {"\\", "n"} \subseteq S /\ {"\\", "n", "\n", "'"} \subseteq S
      /\ {"\n", "'"} \subseteq S
  BY DEF Alphabet
<1>1. /\ text \in Seq(S) /\ m \in Nat /\ l \in Nat /\ Len(after) \in Nat
      /\ statement \in Seq(S) /\ Len(statement) = l + m + 4 + Len(after)
      /\ \A j \in 1..l : statement[j] = before[j]
      /\ statement[l + 1] = "_binary" /\ statement[l + 2] = Space /\ statement[l + 3] = "'"
      /\ \A j \in 1..m : statement[l + 3 + j] = text[j]
      /\ statement[l + m + 4] = "'"
      /\ \A j \in 1..Len(after) : statement[l + m + 4 + j] = after[j]
      /\ Len(renderBytes(value, FALSE)) = m + 4
  <2>1. /\ text \in Seq(S) /\ Len(renderBytes(value, FALSE)) = m + 4
        /\ RawLiteralIn(before \o renderBytes(value, FALSE) \o after, S, before, text, after)
    BY RawLiteralLayout
  <2>2. RawLiteralIn(statement, S, before, text, after)
    BY <2>1 DEF DumpedInto
  <2> HIDE DEF text
  <2>3. m \in Nat /\ l \in Nat /\ Len(after) \in Nat
    BY <2>1, LenProperties
  <2> QED BY <2>1, <2>2, <2>3 DEF RawLiteralIn
<1> HIDE DEF text, m, l
<1>i. index = l + 3
  BY DEF l
<1>n. m \in Nat /\ l \in Nat /\ Len(after) \in Nat /\ index \in Nat
  BY <1>1, <1>i
<1>2. findBinaryIntroducer(index) = l + 1
  <2>1. index \in Nat /\ index > 2 /\ index - 1 = l + 2 /\ index - 2 = l + 1
    BY <1>n, <1>i
  <2>2. index > 3 => statement[index - 3] \notin WordByte
    <3>1. SUFFICES ASSUME index > 3 PROVE statement[index - 3] \notin WordByte
      OBVIOUS
    <3>2. l \in 1..l /\ index - 3 = l /\ l # 0
      BY <1>n, <1>i, <3>1
    <3>3. before # << >>
      BY <3>2 DEF l
    <3> QED BY <1>1, <3>2, <3>3 DEF l, DumpedInto
  <2> QED BY <1>1, <2>1, <2>2, IntroducerFound
<1>3. LiteralEnd = index + m + 2
  <2>1. Len(statement) \in Nat /\ end = l + m + 5 + Len(after)
    <3>1. Len(statement) = l + m + 4 + Len(after)
      BY <1>1
    <3>2. Len(statement) \in Nat /\ Len(statement) + 1 = l + m + 5 + Len(after)
      BY <1>n, <3>1
    <3> QED BY <3>2 DEF end
  <2>2. index \in Nat \ {0} /\ index + m + 1 < end
    BY <1>n, <1>i, <2>1
  <2>3. \A j \in 1..m : ByteAt(index + j) = text[j]
    <3>1. ASSUME NEW j \in 1..m PROVE index + j = l + 3 + j /\ index + j < end
      BY <1>n, <1>i, <2>1
    <3> QED BY <1>1, <3>1 DEF ByteAt
  <2>4. ByteAt(index + m + 1) = "'"
    <3>1. index + m + 1 = l + m + 4
      BY <1>n, <1>i
    <3> QED BY <1>1, <2>2, <3>1 DEF ByteAt
  <2>5. ByteAt(index + m + 2) # "'"
    <3>1. CASE Len(after) = 0
      <4>1. ~(index + m + 2 < end)
        BY <1>n, <1>i, <2>1, <3>1
      <4> QED BY <4>1 DEF ByteAt
    <3>2. CASE Len(after) # 0
      <4>1. index + m + 2 = l + m + 4 + 1 /\ index + m + 2 < end /\ 1 \in 1..Len(after)
        BY <1>n, <1>i, <2>1, <3>2
      <4>2. after # << >>
        BY <3>2
      <4> QED BY <1>1, <4>1, <4>2 DEF ByteAt, DumpedInto
    <3> QED BY <3>1, <3>2
  <2>6. "end" \notin S
    BY DEF DumpedInto
  <2> QED BY <1>0, <2>1, <2>2, <2>3, <2>4, <2>5, <2>6, ClosingQuote DEF LiteralEnd, text, m
<1>4. Content = text
  <2>1. Content = SubSeq(statement, index + 1, index + m)
    <3>1. (index + m + 2) - 1 - 1 = index + m
      BY <1>n, <1>i
    <3> QED BY <1>3, <3>1 DEF Content, Slice
  <2> DEFINE f == index + 1
             g == index + m
             c == SubSeq(statement, f, g)
  <2>2. f \in Int /\ g \in Int /\ g - f + 1 = m /\ (f <= g <=> 1 <= m)
        /\ \A j \in f..g : j \in 1..Len(statement)
    <3>1. Len(statement) = l + m + 4 + Len(after)
      BY <1>1
    <3> QED BY <1>n, <1>i, <3>1
  <2>i. \A j \in 1..m : f + j - 1 = l + 3 + j
    BY <1>n, <1>i
  <2> HIDE DEF f, g
  <2>3. \A j \in f..g : statement[j] \in S
    BY <1>1, <2>2, ElementOfSeq
  <2>4. /\ c \in Seq(S)
        /\ Len(c) = IF f <= g THEN g - f + 1 ELSE 0
        /\ \A j \in 1..(g - f + 1) : c[j] = statement[f + j - 1]
    BY <2>2, <2>3, SubSeqProperties
  <2> HIDE DEF c
  <2>5. Len(c) = m
    BY <1>n, <2>2, <2>4
  <2>6. ASSUME NEW j \in 1..m PROVE c[j] = text[j]
    <3>1. c[j] = statement[f + j - 1] /\ f + j - 1 = l + 3 + j
      BY <2>2, <2>4, <2>i
    <3>2. statement[l + 3 + j] = text[j]
      BY <1>1
    <3> QED BY <3>1, <3>2
  <2>7. c = text
    BY <1>1, <2>4, <2>5, <2>6, SeqEqual DEF m
  <2> QED BY <2>1, <2>7 DEF c, f, g
<1>5. unescape(Content) = value
  BY <1>0, <1>4, EscapesAreUndone DEF text
<1>6. toHexLiteral(value) = renderBytes(value, TRUE)
  BY DEF renderBytes
<1>7. /\ out' = out \o Slice(copiedFrom, l + 1) \o toHexLiteral(value)
      /\ copiedFrom' = index + m + 2 /\ index' = index + m + 2
  BY <1>2, <1>3, <1>5 DEF RewriteLiteral
<1>8. index + m + 2 = l + (m + 4) + 1
  BY <1>n, <1>i
<1> QED BY <1>1, <1>6, <1>7, <1>8 DEF l
-----------------------------------------------------------------------------
(* The scan, turn by turn *)

\* Where the scan is, what is copied, and what lies right before what is not:
\* the quote of the literal rewritten last.
ScanInv ==
  /\ statement \in Statements
  /\ index \in 1..end /\ copiedFrom \in 1..index /\ rewrittenLiterals \in Nat
  /\ copiedFrom = 1 \/ copiedFrom = end \/ ByteAt(copiedFrom - 1) = "'"
  /\ phase \in {"called", "scanning"} /\ rewrittenLiterals = 0 => copiedFrom = 1 /\ out = << >>
  /\ phase = "sent" /\ rewrittenLiterals = 0 => out = statement

\* Every turn of the loop but the last moves on and stays in the statement, so
\* that the scan ends whatever the statement holds: an open quote, an open
\* comment, a backslash at its very end (the for loop of rewriteBinaryLiterals).
MovesOn == phase = "scanning" /\ phase' = "scanning" => index' \in (index + 1)..end

\* The introducer a literal takes with it begins behind what is copied already:
\* no byte is sent twice, not even of two literals side by side.
CopiesOnce == RewriteLiteral => findBinaryIntroducer(index) \in copiedFrom..index

\* A statement is changed only by rewriting a literal.
SentAsItIs == phase = "sent" /\ rewrittenLiterals = 0 => out = statement

LEMMA StatementLength ==
  ASSUME statement \in Statements
  PROVE  /\ Len(statement) \in Nat /\ end \in Nat \ {0}
         /\ \E S : statement \in Seq(S)
<1> DEFINE S == SourceBytes \cup { "0x" } \cup Digits
<1>1. statement \in Seq(S)
  BY StatementsAssumption
<1> HIDE DEF S
<1> QED BY <1>1 DEF end

\* Among the positions from i to the end there is a first one in T, or the end.
LEMMA FirstPosition ==
  ASSUME end \in Nat, NEW i \in 1..end, NEW T
  PROVE  \E p \in i..end : (p = end \/ p \in T) /\ \A k \in i..(p - 1) : k \notin T
<1> DEFINE C == {p \in i..end : p = end \/ p \in T}
<1>1. C \subseteq Nat /\ end \in C
  OBVIOUS
<1>2. PICK p \in C : \A k \in C : p <= k
  BY <1>1, LeastElement
<1>3. ASSUME NEW k \in i..(p - 1) PROVE k \notin T
  <2>1. k \in i..end /\ ~(p <= k)
    BY <1>2
  <2> QED BY <1>2, <2>1
<1> QED BY <1>2, <1>3

LEMMA LineEndsAhead ==
  ASSUME end \in Nat, NEW i \in 1..(end - 1)
  PROVE  skipToEndOfLine(i) \in (i + 1)..end
<1> DEFINE T == {p \in Nat : ByteAt(p) = "\n"}
           e == CHOOSE p \in i..end : (p = end \/ ByteAt(p) = "\n")
                                      /\ \A k \in i..(p - 1) : ~(ByteAt(k) = "\n")
<1>1. \E p \in i..end : (p = end \/ ByteAt(p) = "\n")
                          /\ \A k \in i..(p - 1) : ~(ByteAt(k) = "\n")
  <2>1. i \in 1..end
    OBVIOUS
  <2> HIDE DEF T
  <2>2. PICK p \in i..end : (p = end \/ p \in T) /\ \A k \in i..(p - 1) : k \notin T
    BY <2>1, FirstPosition
  <2>3. \A k \in i..end : k \in T <=> ByteAt(k) = "\n"
    BY DEF T
  <2>4. \A k \in i..(p - 1) : k \in i..end
    OBVIOUS
  <2> QED BY <2>2, <2>3, <2>4
<1>2. e \in i..end
  BY <1>1
<1>3. skipToEndOfLine(i) = AtMostEnd(e + 1)
  BY DEF skipToEndOfLine, FirstFrom
<1> HIDE DEF e
<1> QED BY <1>2, <1>3 DEF AtMostEnd

LEMMA CommentEndsAhead ==
  ASSUME end \in Nat, NEW i \in 1..(end - 2)
  PROVE  skipBlockComment(i) \in (i + 1)..end
<1> DEFINE Closes(p) == ByteAt(p) = "*" /\ ByteAt(p + 1) = "/"
           T == {p \in Nat : Closes(p)}
           e == CHOOSE p \in (i + 2)..end : (p = end \/ Closes(p))
                                            /\ \A k \in (i + 2)..(p - 1) : ~Closes(k)
<1>1. \E p \in (i + 2)..end : (p = end \/ Closes(p))
                               /\ \A k \in (i + 2)..(p - 1) : ~Closes(k)
  <2>1. i + 2 \in 1..end
    OBVIOUS
  <2> HIDE DEF T, Closes
  <2>2. PICK p \in (i + 2)..end : (p = end \/ p \in T) /\ \A k \in (i + 2)..(p - 1) : k \notin T
    BY <2>1, FirstPosition
  <2>3. \A k \in (i + 2)..end : k \in T <=> Closes(k)
    BY DEF T
  <2>4. \A k \in (i + 2)..(p - 1) : k \in (i + 2)..end
    OBVIOUS
  <2> QED BY <2>2, <2>3, <2>4
<1>2. e \in (i + 2)..end
  BY <1>1
<1>3. skipBlockComment(i) = AtMostEnd(e + 2)
  BY DEF skipBlockComment, FirstFrom
<1> HIDE DEF e
<1> QED BY <1>2, <1>3 DEF AtMostEnd

\* A run in front of e begins where its bytes do.
LEMMA RunStarts ==
  ASSUME NEW e \in Nat \ {0}, NEW B
  PROVE  LET b == RunStart(e, B)
         IN  b \in 1..e /\ \A k \in b..(e - 1) : statement[k] \in B
<1> DEFINE Starts(b) == (\A k \in b..(e - 1) : statement[k] \in B)
                        /\ (b = 1 \/ statement[b - 1] \notin B)
           C == {b \in 1..e : \A k \in b..(e - 1) : statement[k] \in B}
<1>1. C \subseteq Nat /\ e \in C
  OBVIOUS
<1>2. PICK b \in C : \A d \in C : b <= d
  BY <1>1, LeastElement
<1>3. b = 1 \/ statement[b - 1] \notin B
  <2>1. SUFFICES ASSUME b # 1, statement[b - 1] \in B PROVE FALSE
    OBVIOUS
  <2>2. b - 1 \in 1..e /\ ~(b <= b - 1)
    BY <1>2, <2>1
  <2>3. \A k \in (b - 1)..(e - 1) : k = b - 1 \/ k \in b..(e - 1)
    BY <1>2
  <2>4. \A k \in (b - 1)..(e - 1) : statement[k] \in B
    BY <1>2, <2>1, <2>3
  <2> QED BY <1>2, <2>2, <2>4
<1>4. b \in 1..e /\ Starts(b)
  BY <1>2, <1>3
<1>5. RunStart(e, B) = CHOOSE d \in 1..e : Starts(d)
  BY DEF RunStart
<1> HIDE DEF Starts
<1>6. RunStart(e, B) \in 1..e /\ Starts(RunStart(e, B))
  BY <1>4, <1>5
<1> QED BY <1>6 DEF Starts
\* A quote is neither the blank nor a byte of the word in front of a literal.
LEMMA QuoteIsNoWord == "'" # Space /\ "'" \notin WordByte
<1>1. \A c \in SourceBytes : HexPair[c] # "'"
  BY DEF HexPair, SourceBytes, Lead, Trail
<1>2. "'" \notin Digits
  BY <1>1 DEF Digits
<1> QED BY <1>2, BlankIsNoWord DEF WordByte, PlainWordByte, Letters

LEMMA IntroducerBegins ==
  ASSUME ScanInv, index < end
  PROVE  findBinaryIntroducer(index) \in copiedFrom..index
<1> DEFINE w == RunStart(index, {Space})
           b == RunStart(w, WordByte)
<1>1. index \in Nat \ {0} /\ copiedFrom \in 1..index /\ end \in Nat
  BY StatementLength DEF ScanInv
<1>2. w \in 1..index /\ \A k \in w..(index - 1) : statement[k] \in {Space}
  BY <1>1, RunStarts
<1> HIDE DEF w
<1>3. w \in Nat \ {0}
  BY <1>1, <1>2
<1>4. b \in 1..w /\ \A k \in b..(w - 1) : statement[k] \in WordByte
  BY <1>3, RunStarts
<1> HIDE DEF b
<1>5. b >= copiedFrom
  <2>1. SUFFICES ASSUME b < copiedFrom PROVE FALSE
    BY <1>1, <1>4
  <2>2. /\ copiedFrom # 1 /\ copiedFrom # end /\ copiedFrom - 1 < end
        /\ (copiedFrom - 1 \in b..(w - 1) \/ copiedFrom - 1 \in w..(index - 1))
    BY <1>1, <1>2, <1>4, <2>1
  <2>3. statement[copiedFrom - 1] = "'"
    BY <2>2 DEF ScanInv, ByteAt
  <2> QED BY <1>2, <1>4, <2>2, <2>3, QuoteIsNoWord
<1>6. findBinaryIntroducer(index) \in {b, index}
  <2>1. \A c : (IF c THEN b ELSE index) \in {b, index}
    OBVIOUS
  <2> QED BY DEF findBinaryIntroducer, b, w
<1> QED BY <1>1, <1>2, <1>4, <1>5, <1>6

\* Whatever a turn of the loop finds, it moves on.
LEMMA TurnMovesOn ==
  ASSUME ScanInv, Next, phase = "scanning", phase' = "scanning"
  PROVE  index' \in (index + 1)..end
<1>1. end \in Nat /\ index \in 1..end /\ Len(statement) \in Nat
  BY StatementLength DEF ScanInv
<1>2. index < end
  BY <1>1 DEF Next, PassThrough, SkipLineComment, SkipComment, SkipName, SkipDoubleQuoted,
              SkipLiteral, RewriteLiteral, SkipByte, Finish, Scanning
<1>3. index \in 1..(end - 1)
  BY <1>1, <1>2
<1>4. CASE SkipLineComment
  BY <1>1, <1>3, <1>4, LineEndsAhead DEF SkipLineComment, SkipTo
<1>5. CASE SkipComment
  <2>1. index + 1 < end
    <3>1. ByteAt(index + 1) = "*"
      BY <1>5 DEF SkipComment, OpensComment
    <3> QED BY <1>1, <3>1 DEF ByteAt
  <2>2. index \in 1..(end - 2) /\ index + 2 \in (index + 1)..end
    BY <1>1, <1>3, <2>1
  <2>3. skipBlockComment(index) \in (index + 1)..end
    BY <1>1, <2>2, CommentEndsAhead
  <2> QED BY <1>5, <2>2, <2>3 DEF SkipComment, SkipTo
<1>6. CASE SkipName
  BY <1>1, <1>3, <1>6, QuotedEndsAhead DEF SkipName, SkipTo
<1>7. CASE SkipDoubleQuoted
  BY <1>1, <1>3, <1>7, QuotedEndsAhead DEF SkipDoubleQuoted, SkipTo
<1>8. LiteralEnd \in (index + 1)..end
  BY <1>1, <1>3, QuotedEndsAhead DEF LiteralEnd
<1>9. CASE SkipLiteral
  BY <1>8, <1>9 DEF SkipLiteral, SkipTo
<1>10. CASE RewriteLiteral
  BY <1>8, <1>10 DEF RewriteLiteral
<1>11. CASE SkipByte
  <2>1. index' = index + 1
    BY <1>11 DEF SkipByte, SkipTo
  <2> QED BY <1>1, <1>3, <2>1
<1>12. CASE PassThrough
  BY <1>12 DEF PassThrough
<1>13. CASE Finish
  BY <1>13 DEF Finish
<1> QED BY <1>4, <1>5, <1>6, <1>7, <1>9, <1>10, <1>11, <1>12, <1>13 DEF Next

LEMMA ScanInvHolds == Spec => []ScanInv
<1>1. Init => ScanInv
  <2>1. SUFFICES ASSUME Init PROVE ScanInv
    OBVIOUS
  <2>2. statement \in Statements
    BY <2>1 DEF Init
  <2>3. end \in Nat \ {0}
    BY <2>2, StatementLength
  <2>4. 1 \in 1..end /\ 1 \in 1..1
    BY <2>3
  <2>5. index = 1 /\ copiedFrom = 1 /\ out = << >> /\ rewrittenLiterals = 0 /\ phase = "called"
    BY <2>1 DEF Init
  <2> QED BY <2>2, <2>4, <2>5 DEF ScanInv
<1>2. ScanInv /\ [Next]_vars => ScanInv'
  <2>1. SUFFICES ASSUME ScanInv, [Next]_vars PROVE ScanInv'
    OBVIOUS
  <2>2. CASE UNCHANGED vars
    BY <2>1, <2>2 DEF ScanInv, vars, end, ByteAt
  <2>3. CASE Next
    <3>1. end \in Nat \ {0} /\ Len(statement) \in Nat
      BY <2>1, StatementLength DEF ScanInv
    <3>2. statement' = statement /\ end' = end
      BY <2>3 DEF Next, PassThrough, SkipLineComment, SkipComment, SkipName, SkipDoubleQuoted,
                  SkipLiteral, RewriteLiteral, SkipByte, Finish, SkipTo, end
    <3>3. \A i : ByteAt(i)' = ByteAt(i)
      BY <3>2 DEF ByteAt
    <3>4. CASE PassThrough
      BY <2>1, <3>2, <3>4 DEF ScanInv, PassThrough, end, ByteAt
    <3>5. CASE Finish
      <4>1. SUFFICES ASSUME phase' = "sent", rewrittenLiterals = 0 PROVE out' = statement
        <5>1. /\ index' = index /\ copiedFrom' = copiedFrom /\ phase' \in {"sent", "failed"}
              /\ rewrittenLiterals' = rewrittenLiterals
          BY <3>5 DEF Finish
        <5>2. phase' \notin {"called", "scanning"}
          BY <5>1
        <5> QED BY <2>1, <3>2, <3>3, <4>1, <5>1, <5>2 DEF ScanInv
      <4>2. out' = << >> \o SubSeq(statement, 1, Len(statement))
        <5>1. end - 1 = Len(statement)
          BY <3>1 DEF end
        <5>2. copiedFrom = 1 /\ out = << >>
          BY <2>1, <3>5, <4>1 DEF ScanInv, Finish
        <5> QED BY <3>5, <5>1, <5>2 DEF Finish, Slice
      <4>3. PICK S : statement \in Seq(S)
        BY <2>1, StatementLength DEF ScanInv
      <4>4. SubSeq(statement, 1, Len(statement)) = statement
        BY <4>3, SubSeqFull
      <4> QED BY <4>2, <4>3, <4>4, ConcatEmptySeq
    <3>6. CASE phase = "scanning" /\ phase' = "scanning" /\ index' \in (index + 1)..end
               /\ UNCHANGED << copiedFrom, out, rewrittenLiterals >>
      <4>1. copiedFrom' \in 1..index'
        BY <2>1, <3>1, <3>6 DEF ScanInv
      <4> QED BY <2>1, <3>1, <3>2, <3>3, <3>6, <4>1 DEF ScanInv, ByteAt
    <3>7. CASE RewriteLiteral
      <4>1. index \in 1..(end - 1)
        BY <2>1, <3>1, <3>7 DEF ScanInv, RewriteLiteral, Scanning
      <4>2. LiteralEnd \in (index + 1)..end /\ (LiteralEnd < end => ByteAt(LiteralEnd - 1) = "'")
        BY <3>1, <4>1, QuotedEndsAhead DEF LiteralEnd
      <4>3. /\ index' \in 1..end /\ copiedFrom' \in 1..index'
            /\ copiedFrom' = end \/ ByteAt(copiedFrom' - 1) = "'"
        BY <3>1, <3>7, <4>1, <4>2 DEF RewriteLiteral
      <4>4. rewrittenLiterals' \in Nat /\ rewrittenLiterals' # 0 /\ phase' # "sent"
        BY <2>1, <3>7 DEF ScanInv, RewriteLiteral, Scanning
      <4> QED BY <2>1, <3>2, <3>3, <4>3, <4>4 DEF ScanInv, ByteAt
    <3>8. \/ PassThrough \/ Finish \/ RewriteLiteral
          \/ phase = "scanning" /\ phase' = "scanning"
             /\ UNCHANGED << copiedFrom, out, rewrittenLiterals >>
      BY <2>3 DEF Next, SkipLineComment, SkipComment, SkipName, SkipDoubleQuoted,
                  SkipLiteral, SkipByte, Scanning, SkipTo
    <3> QED BY <2>1, <2>3, <3>4, <3>5, <3>6, <3>7, <3>8, TurnMovesOn
  <2> QED BY <2>1, <2>2, <2>3
<1> QED BY <1>1, <1>2, PTL DEF Spec

\* A statement that is sent with no literal rewritten is sent as it is.
THEOREM UntouchedIsSentAsItIs == Spec => []SentAsItIs
<1>1. ScanInv => SentAsItIs
  BY DEF ScanInv, SentAsItIs
<1> QED BY <1>1, ScanInvHolds, PTL

\* The scan of a statement of any length moves on with every turn.
THEOREM ScanMovesOn == Spec => [][MovesOn]_vars
<1>1. ScanInv /\ [Next]_vars => [MovesOn]_vars
  BY TurnMovesOn DEF MovesOn
<1> QED BY <1>1, ScanInvHolds, PTL DEF Spec

\* No byte of a statement is copied twice.
THEOREM NothingIsCopiedTwice == Spec => [][CopiesOnce]_vars
<1>1. ScanInv => CopiesOnce
  BY IntroducerBegins DEF CopiesOnce, RewriteLiteral, Scanning
<1> QED BY <1>1, ScanInvHolds, PTL DEF Spec
=============================================================================
