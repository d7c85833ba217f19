------------------------ MODULE StdioSessionProofs ------------------------
(***************************************************************************)
(* The credit, the answers and the orderly end of a connection, for any    *)
(* number of streams, any limits and any sizes of controls and blobs.      *)
(***************************************************************************)
EXTENDS StdioSession, FiniteSetTheorems, TLAPS

----------------------------------------------------------------------------
(* Sums                                                                    *)

LEMMA StreamFinite ==
  ASSUME NEW S, S \subseteq Stream
  PROVE  IsFiniteSet(S) /\ Cardinality(S) \in Nat
<1>1. IsFiniteSet(Stream)
  BY FS_Interval, StreamAssumption DEF Stream
<1> QED
  BY <1>1, FS_Subset, FS_CardinalityType

\* What the f[s] of the streams of S count.
Items(f, S) == UNION {{s} \X (1 .. f[s]) : s \in S}

LEMMA ItemsFinite ==
  ASSUME NEW f \in [Stream -> Nat], NEW S, S \subseteq Stream
  PROVE  /\ IsFiniteSet(Items(f, S)) /\ SumOf(f, S) = Cardinality(Items(f, S))
         /\ SumOf(f, S) \in Nat
<1> DEFINE of == [s \in S |-> {s} \X (1 .. f[s])]
           all == {{s} \X (1 .. f[s]) : s \in S}
<1>1. of \in Surjection(S, all)
  BY DEF Surjection
<1>2. IsFiniteSet(all)
  BY <1>1, StreamFinite, FS_Surjection
<1>3. ASSUME NEW T \in all PROVE IsFiniteSet(T)
  <2>1. PICK s \in S : T = {s} \X (1 .. f[s])
    OBVIOUS
  <2>2. IsFiniteSet({s}) /\ IsFiniteSet(1 .. f[s])
    <3>1. f[s] \in Int /\ 1 \in Int
      OBVIOUS
    <3> QED
      BY <3>1, FS_Singleton, FS_Interval
  <2>3. IsFiniteSet({s} \X (1 .. f[s]))
    BY <2>2, FS_Product, Zenon
  <2> QED
    BY <2>1, <2>3
<1>4. IsFiniteSet(UNION all)
  BY <1>2, <1>3, FS_UNION
<1> QED
  BY <1>4, FS_CardinalityType DEF Items, SumOf

LEMMA SumSingle ==
  ASSUME NEW f \in [Stream -> Nat], NEW s \in Stream
  PROVE  SumOf(f, {s}) = f[s]
<1>1. Items(f, {s}) = {s} \X (1 .. f[s])
  BY DEF Items
<1>2. IsFiniteSet({s}) /\ Cardinality({s}) = 1
  BY FS_Singleton
<1>3. IsFiniteSet(1 .. f[s]) /\ Cardinality(1 .. f[s]) = f[s]
  BY FS_Interval
<1>4. Cardinality({s} \X (1 .. f[s])) = Cardinality({s}) * Cardinality(1 .. f[s])
  BY <1>2, <1>3, FS_Product, Zenon
<1>5. SumOf(f, {s}) = Cardinality(Items(f, {s}))
  BY ItemsFinite
<1>6. SumOf(f, {s}) = 1 * f[s]
  BY <1>1, <1>2, <1>3, <1>4, <1>5, Zenon
<1>7. f[s] \in Nat
  OBVIOUS
<1> QED
  BY <1>6, <1>7

\* A set and a part of it.
LEMMA SumDifference ==
  ASSUME NEW f \in [Stream -> Nat], NEW S, S \subseteq Stream, NEW T, T \subseteq S
  PROVE  /\ SumOf(f, S) = SumOf(f, S \ T) + SumOf(f, T)
         /\ Cardinality(S) = Cardinality(S \ T) + Cardinality(T)
<1>1. Items(f, S) = Items(f, S \ T) \cup Items(f, T)
  BY DEF Items
<1>2. Items(f, S \ T) \cap Items(f, T) = {}
  BY DEF Items
<1>3. IsFiniteSet(Items(f, S \ T)) /\ IsFiniteSet(Items(f, T))
      /\ SumOf(f, S \ T) \in Nat /\ SumOf(f, T) \in Nat
  BY ItemsFinite
<1>4. Cardinality(Items(f, S)) = Cardinality(Items(f, S \ T)) + Cardinality(Items(f, T)) - 0
  <2>1. PICK A : A = Items(f, S \ T)
    OBVIOUS
  <2>2. PICK B : B = Items(f, T)
    OBVIOUS
  <2>3. Cardinality(A \cup B) = Cardinality(A) + Cardinality(B) - Cardinality(A \cap B)
    BY <1>3, <2>1, <2>2, FS_Union
  <2> QED
    BY <1>1, <1>2, <2>1, <2>2, <2>3, FS_EmptySet
<1>5. SumOf(f, S) = SumOf(f, S \ T) + SumOf(f, T)
  BY <1>3, <1>4, ItemsFinite
<1>6. /\ S = (S \ T) \cup T /\ (S \ T) \cap T = {}
      /\ IsFiniteSet(S \ T) /\ IsFiniteSet(T)
      /\ Cardinality(S \ T) \in Nat /\ Cardinality(T) \in Nat
  BY StreamFinite
<1>7. Cardinality(S) = Cardinality(S \ T) + Cardinality(T) - 0
  BY <1>6, FS_Union, FS_EmptySet
<1> QED
  BY <1>5, <1>6, <1>7

LEMMA SumEmpty ==
  ASSUME NEW f \in [Stream -> Nat]
  PROVE  SumOf(f, {}) = 0 /\ Cardinality({}) = 0
<1>1. Items(f, {}) = {}
  BY DEF Items
<1> QED
  BY <1>1, ItemsFinite, FS_EmptySet

\* One stream more, one stream less.
LEMMA SumAdd ==
  ASSUME NEW f \in [Stream -> Nat], NEW S, S \subseteq Stream, NEW s \in Stream, s \notin S
  PROVE  /\ SumOf(f, S \cup {s}) = SumOf(f, S) + f[s] /\ SumOf(f, S) \in Nat
         /\ Cardinality(S \cup {s}) = Cardinality(S) + 1 /\ Cardinality(S) \in Nat
<1>1. (S \cup {s}) \ {s} = S /\ {s} \subseteq S \cup {s} /\ S \cup {s} \subseteq Stream
  OBVIOUS
<1>2. Cardinality({s}) = 1
  BY FS_Singleton
<1> QED
  BY <1>1, <1>2, SumDifference, SumSingle, ItemsFinite, StreamFinite

LEMMA SumRemove ==
  ASSUME NEW f \in [Stream -> Nat], NEW S, S \subseteq Stream, NEW s \in S
  PROVE  /\ SumOf(f, S \ {s}) = SumOf(f, S) - f[s] /\ SumOf(f, S) \in Nat
         /\ SumOf(f, S) >= f[s]
         /\ Cardinality(S \ {s}) = Cardinality(S) - 1 /\ Cardinality(S) \in Nat \ {0}
<1>1. {s} \subseteq S /\ S \ {s} \subseteq Stream /\ s \in Stream
  OBVIOUS
<1>2. Cardinality({s}) = 1
  BY FS_Singleton
<1> QED
  BY <1>1, <1>2, SumDifference, SumSingle, ItemsFinite, StreamFinite

----------------------------------------------------------------------------
(* The queue                                                               *)

LEMMA StreamsAreNumbers == \A s \in Stream : s \in Int /\ s > 0 /\ s <= MaxStream
BY StreamAssumption DEF Stream

LEMMA LeastNatural ==
  ASSUME NEW T, T \subseteq Nat, T # {}
  PROVE  \E n \in T : \A m \in T : n <= m
<1>1. PICK R : R = OpToRel(<, Nat)
  OBVIOUS
<1>2. IsWellFoundedOn(R, Nat)
  BY <1>1, NatLessThanWellFounded
<1>3. PICK n \in T : \A m \in T : ~(<<m, n>> \in R)
  BY <1>2, WFMin
<1>4. \A m, k \in Nat : m < k => <<m, k>> \in R
  BY <1>1, Zenon DEF OpToRel
<1>5. ASSUME NEW m \in T PROVE n <= m
  <2>1. ~(m < n)
    BY <1>3, <1>4
  <2> QED
    BY <2>1
<1> QED
  BY <1>5

\* One step of Without.
Kept(q, S, r, i) == IF q[i] \in S THEN r ELSE Append(r, q[i])

\* The function that Without chooses exists: a least length without one would
\* have a predecessor that has one.
LEMMA FilterExists ==
  ASSUME NEW q, NEW S, NEW len \in Nat
  PROVE  \E g : g = [i \in 0 .. len |-> IF i = 0 THEN <<>> ELSE Kept(q, S, g[i - 1], i)]
<1> DEFINE Solves(n, g) ==
             g = [i \in 0 .. n |-> IF i = 0 THEN <<>> ELSE Kept(q, S, g[i - 1], i)]
           Failing == {n \in Nat : ~\E g : Solves(n, g)}
<1>1. Failing = {}
  <2> SUFFICES ASSUME Failing # {} PROVE FALSE
    OBVIOUS
  <2>1. PICK n \in Failing : \A m \in Failing : n <= m
    <3>1. Failing \subseteq Nat
      OBVIOUS
    <3> HIDE DEF Failing
    <3> QED
      BY <3>1, LeastNatural
  <2>2. CASE n = 0
    <3> DEFINE g == [i \in 0 .. 0 |-> <<>>]
    <3>1. g = [i \in 0 .. n |-> IF i = 0 THEN <<>> ELSE Kept(q, S, g[i - 1], i)]
      BY <2>2
    <3> QED
      BY <3>1
  <2>3. CASE n # 0
    <3>0. n \in Nat
      OBVIOUS
    <3>1. n \in Nat /\ n - 1 \in Nat /\ n - 1 \notin Failing
      <4> HIDE DEF Failing
      <4> QED
        BY <2>1, <2>3, <3>0
    <3>2. PICK g : Solves(n - 1, g)
      BY <3>1
    <3> DEFINE h == [i \in 0 .. n |-> IF i = n THEN Kept(q, S, g[n - 1], n) ELSE g[i]]
    <3>3. \A i \in 0 .. n - 1 :
            g[i] = IF i = 0 THEN <<>> ELSE Kept(q, S, g[i - 1], i)
      <4> DEFINE body(i) == IF i = 0 THEN <<>> ELSE Kept(q, S, g[i - 1], i)
      <4>1. g = [i \in 0 .. n - 1 |-> body(i)]
        BY <3>2
      <4> HIDE DEF body
      <4>2. \A i \in 0 .. n - 1 : g[i] = body(i)
        BY <4>1
      <4> QED
        BY <4>2 DEF body
    <3>4. \A i \in 0 .. n - 1 : h[i] = g[i]
      BY <3>1
    <3>5. h[n] = Kept(q, S, g[n - 1], n)
      BY <3>1
    <3>6. \A i \in 0 .. n : h[i] = IF i = 0 THEN <<>> ELSE Kept(q, S, h[i - 1], i)
      <4> SUFFICES ASSUME NEW i \in 0 .. n
                   PROVE  h[i] = IF i = 0 THEN <<>> ELSE Kept(q, S, h[i - 1], i)
        OBVIOUS
      <4> HIDE DEF h
      <4>1. CASE i = n
        BY <2>3, <3>1, <3>4, <3>5, <4>1
      <4>2. CASE i = 0
        BY <2>3, <3>1, <3>3, <3>4, <4>2
      <4>3. CASE i # n /\ i # 0
        <5>1. i \in 0 .. n - 1 /\ i - 1 \in 0 .. n - 1
          BY <3>1, <4>3
        <5>2. g[i] = Kept(q, S, g[i - 1], i)
          BY <3>3, <4>3, <5>1
        <5> QED
          BY <3>4, <4>3, <5>1, <5>2
      <4> QED
        BY <4>1, <4>2, <4>3
    <3>7. h = [i \in 0 .. n |-> h[i]]
      OBVIOUS
    <3> HIDE DEF h
    <3>8. Solves(n, h)
      BY <3>6, <3>7
    <3> QED
      BY <2>1, <3>1, <3>8
  <2> QED
    BY <2>2, <2>3
<1> QED
  BY <1>1

\* The queue holds the streams in the order of their identifiers, which is that
\* of their arrival.
Increasing(q) == \A i, j \in 1 .. Len(q) : i < j => q[i] < q[j]
Members(q) == {q[i] : i \in 1 .. Len(q)}

LEMMA AppendQueue ==
  ASSUME NEW q \in Seq(Stream), NEW s \in Stream, Increasing(q), \A t \in Members(q) : t < s
  PROVE  /\ Append(q, s) \in Seq(Stream) /\ Increasing(Append(q, s))
         /\ Members(Append(q, s)) = Members(q) \cup {s}
<1> DEFINE r == Append(q, s)
<1>1. /\ r \in Seq(Stream) /\ Len(r) = Len(q) + 1 /\ Len(q) \in Nat /\ r[Len(q) + 1] = s
      /\ \A i \in 1 .. Len(q) : r[i] = q[i]
  OBVIOUS
<1> HIDE DEF r
<1>2. Increasing(r)
  <2> SUFFICES ASSUME NEW i \in 1 .. Len(r), NEW j \in 1 .. Len(r), i < j
               PROVE  r[i] < r[j]
    BY DEF Increasing
  <2>1. i \in 1 .. Len(q) /\ r[i] = q[i]
    BY <1>1
  <2>2. CASE j = Len(q) + 1
    BY <1>1, <2>1, <2>2 DEF Members
  <2>3. CASE j \in 1 .. Len(q)
    BY <1>1, <2>1, <2>3 DEF Increasing
  <2> QED
    BY <1>1, <2>2, <2>3
<1>3. Members(r) = Members(q) \cup {s}
  <2>1. Members(r) \subseteq Members(q) \cup {s}
    BY <1>1 DEF Members
  <2>2. s \in Members(r)
    BY <1>1 DEF Members
  <2>3. Members(q) \subseteq Members(r)
    BY <1>1 DEF Members
  <2> QED
    BY <2>1, <2>2, <2>3
<1> QED
  BY <1>1, <1>2, <1>3 DEF r

LEMMA TailQueue ==
  ASSUME NEW q \in Seq(Stream), q # <<>>, Increasing(q)
  PROVE  /\ Tail(q) \in Seq(Stream) /\ Increasing(Tail(q))
         /\ Members(Tail(q)) = Members(q) \ {Head(q)}
         /\ Head(q) \in Members(q) /\ Head(q) \in Stream
         /\ \A t \in Members(q) : Head(q) <= t
<1> DEFINE r == Tail(q)
<1>1. /\ r \in Seq(Stream) /\ Len(r) = Len(q) - 1 /\ Len(q) \in Nat \ {0} /\ Head(q) = q[1]
      /\ \A i \in 1 .. Len(q) - 1 : r[i] = q[i + 1]
      /\ \A i \in 1 .. Len(q) : q[i] \in Stream
  OBVIOUS
<1> HIDE DEF r
<1>2. Increasing(r)
  BY <1>1 DEF Increasing
<1>3. \A i \in 2 .. Len(q) : q[1] < q[i]
  BY <1>1 DEF Increasing
<1>4. \A t \in Members(q) : Head(q) <= t
  <2> SUFFICES ASSUME NEW i \in 1 .. Len(q) PROVE q[1] <= q[i]
    BY <1>1 DEF Members
  <2>1. q[1] \in Int /\ q[i] \in Int
    BY <1>1, StreamsAreNumbers
  <2>2. i = 1 \/ i \in 2 .. Len(q)
    BY <1>1
  <2> QED
    BY <1>3, <2>1, <2>2
<1>5. Members(r) = Members(q) \ {Head(q)}
  <2>1. ASSUME NEW t \in Members(r) PROVE t \in Members(q) \ {Head(q)}
    <3>1. PICK i \in 1 .. Len(r) : t = r[i]
      BY DEF Members
    <3>2. t = q[i + 1] /\ i + 1 \in 2 .. Len(q)
      BY <1>1, <3>1
    <3>3. q[1] < q[i + 1] /\ q[1] \in Int /\ i + 1 \in 1 .. Len(q)
      BY <1>1, <1>3, <3>2, StreamsAreNumbers
    <3> QED
      BY <1>1, <3>2, <3>3 DEF Members
  <2>2. ASSUME NEW t \in Members(q) \ {Head(q)} PROVE t \in Members(r)
    <3>1. PICK i \in 1 .. Len(q) : t = q[i]
      BY DEF Members
    <3>2. i - 1 \in 1 .. Len(r) /\ r[i - 1] = q[i]
      BY <1>1, <3>1
    <3> QED
      BY <3>1, <3>2 DEF Members
  <2> QED
    BY <2>1, <2>2
<1>6. Head(q) \in Members(q)
  BY <1>1 DEF Members
<1> QED
  BY <1>1, <1>2, <1>4, <1>5, <1>6 DEF r

\* Without is a filter.
LEMMA WithoutQueue ==
  ASSUME NEW q \in Seq(Stream), Increasing(q), NEW S
  PROVE  /\ Without(q, S) \in Seq(Stream) /\ Increasing(Without(q, S))
         /\ Members(Without(q, S)) = Members(q) \ S
<1> DEFINE Solves(g) ==
             g = [i \in 0 .. Len(q) |-> IF i = 0 THEN <<>> ELSE Kept(q, S, g[i - 1], i)]
           from == CHOOSE g : Solves(g)
<1>1. Without(q, S) = from[Len(q)]
  BY DEF Without, Kept
<1>2. Len(q) \in Nat /\ \A i \in 1 .. Len(q) : q[i] \in Stream
  OBVIOUS
<1>3. Solves(from)
  BY <1>2, FilterExists
<1> HIDE DEF from
<1>4. from[0] = <<>> /\ \A i \in 1 .. Len(q) : from[i] = Kept(q, S, from[i - 1], i)
  <2> DEFINE body(i) == IF i = 0 THEN <<>> ELSE Kept(q, S, from[i - 1], i)
  <2>1. from = [i \in 0 .. Len(q) |-> body(i)]
    BY <1>3
  <2> HIDE DEF body
  <2>2. \A i \in 0 .. Len(q) : from[i] = body(i)
    BY <2>1
  <2> QED
    BY <1>2, <2>2 DEF body
<1> HIDE DEF Solves
<1> DEFINE Good(i) == /\ from[i] \in Seq(Stream) /\ Increasing(from[i])
                      /\ Members(from[i]) = {q[j] : j \in 1 .. i} \ S
           Bad == {i \in 0 .. Len(q) : ~Good(i)}
<1>5. Bad = {}
  <2> SUFFICES ASSUME Bad # {} PROVE FALSE
    OBVIOUS
  <2>1. PICK n \in Bad : \A m \in Bad : n <= m
    <3>1. Bad \subseteq Nat
      BY <1>2
    <3> HIDE DEF Bad
    <3> QED
      BY <3>1, LeastNatural
  <2>2. n \in 0 .. Len(q) /\ ~Good(n)
    OBVIOUS
  <2>3. CASE n = 0
    <3>1. from[n] = <<>> /\ <<>> \in Seq(Stream) /\ Increasing(<<>>) /\ Members(<<>>) = {}
      BY <1>4, <2>3 DEF Increasing, Members
    <3> QED
      BY <2>2, <2>3, <3>1
  <2>4. CASE n # 0
    <3>1. n - 1 \in 0 .. Len(q) /\ n \in 1 .. Len(q)
      BY <1>2, <2>2, <2>4
    <3>2. n - 1 \notin Bad
      <4> HIDE DEF Bad
      <4> QED
        BY <2>1, <3>1
    <3>3. Good(n - 1)
      BY <3>1, <3>2
    <3>4. PICK r : r = from[n - 1]
      OBVIOUS
    <3>5. /\ r \in Seq(Stream) /\ Increasing(r) /\ q[n] \in Stream
          /\ Members(r) = {q[j] : j \in 1 .. n - 1} \ S
      BY <1>2, <3>1, <3>3, <3>4
    <3>6. from[n] = IF q[n] \in S THEN r ELSE Append(r, q[n])
      BY <1>4, <3>1, <3>4 DEF Kept
    <3>7. {q[j] : j \in 1 .. n} = {q[j] : j \in 1 .. n - 1} \cup {q[n]}
      <4>1. 1 .. n = (1 .. n - 1) \cup {n}
        BY <3>1
      <4> QED
        BY <4>1
    <3>8. CASE q[n] \in S
      BY <2>2, <3>5, <3>6, <3>7, <3>8
    <3>9. CASE q[n] \notin S
      <4>1. \A t \in Members(r) : t < q[n]
        BY <3>1, <3>5 DEF Increasing
      <4>2. Append(r, q[n]) \in Seq(Stream) /\ Increasing(Append(r, q[n]))
            /\ Members(Append(r, q[n])) = Members(r) \cup {q[n]}
        BY <3>5, <4>1, AppendQueue
      <4> QED
        BY <2>2, <3>5, <3>6, <3>7, <3>9, <4>2
    <3> QED
      BY <3>8, <3>9
  <2> QED
    BY <2>3, <2>4
<1>6. Good(Len(q))
  <2>1. Len(q) \in 0 .. Len(q) /\ Len(q) \notin Bad
    <3> HIDE DEF Bad
    <3> QED
      BY <1>2, <1>5
  <2> QED
    BY <2>1
<1> QED
  BY <1>1, <1>6 DEF Members

\* The queue has as many entries as streams.
Distinct(q) == \A i, j \in 1 .. Len(q) : q[i] = q[j] => i = j

LEMMA DistinctLength ==
  ASSUME NEW q \in Seq(Stream), Distinct(q)
  PROVE  Len(q) = Cardinality(Members(q))
<1>1. Len(q) \in Nat
  OBVIOUS
<1>2. q \in Bijection(1 .. Len(q), Members(q))
  <2>1. q \in [1 .. Len(q) -> Members(q)]
    BY DEF Members
  <2>2. \A t \in Members(q) : \E i \in 1 .. Len(q) : q[i] = t
    BY DEF Members
  <2> QED
    BY <2>1, <2>2 DEF Distinct, Bijection, Injection, Surjection, IsInjective
<1>3. ExistsBijection(1 .. Len(q), Members(q))
  BY <1>2 DEF ExistsBijection
<1> QED
  BY <1>1, <1>3, FS_CountingElements

LEMMA QueueLength ==
  ASSUME NEW q \in Seq(Stream), Increasing(q)
  PROVE  Len(q) = Cardinality(Members(q))
<1>1. \A i \in 1 .. Len(q) : q[i] \in Stream
  OBVIOUS
<1>2. ASSUME NEW i \in 1 .. Len(q), NEW j \in 1 .. Len(q), q[i] = q[j], i # j
      PROVE  FALSE
  <2>1. q[i] \in Int /\ q[j] \in Int
    BY <1>1, StreamsAreNumbers
  <2>2. i < j \/ j < i
    BY <1>2
  <2> QED
    BY <1>2, <2>1, <2>2 DEF Increasing
<1>3. Distinct(q)
  BY <1>2 DEF Distinct
<1> QED
  BY <1>3, DistinctLength

----------------------------------------------------------------------------
(* Credit                                                                  *)

Waiting == {"queued", "uploading"}
Busy == {"uploading", "dispatching"}
InPhases(ph, P) == {s \in Stream : ph[s] \in P}
CreditType == [queue : Seq(Stream), uploader : Stream \cup {NoStream}, active : Nat, reserved : Nat]

\* A credit c counts the streams in the phases ph.
Balanced(c, ph) ==
  /\ c \in CreditType /\ ph \in [Stream -> Phase]
  /\ c.active = Cardinality(InPhases(ph, Busy))
  /\ c.reserved = SumOf(BlobBytes, InPhases(ph, Busy))
  /\ \A s \in Stream : c.uploader = s <=> ph[s] = "uploading"
  /\ Increasing(c.queue) /\ Members(c.queue) = InPhases(ph, {"queued"})
Limits(c) == c.active <= MaxConcurrentDispatch /\ c.reserved <= MaxReservedBlobBytes

LEMMA Moved ==
  ASSUME NEW ph \in [Stream -> Phase], NEW s \in Stream, NEW x \in Phase,
         NEW moved, moved = [ph EXCEPT ![s] = x]
  PROVE  /\ moved \in [Stream -> Phase] /\ moved[s] = x
         /\ \A t \in Stream \ {s} : moved[t] = ph[t]
OBVIOUS

LEMMA AdmitKeeps ==
  ASSUME NEW c, NEW ph, Balanced(c, ph), Limits(c), CanAdmit(c)
  PROVE  LET s == NextUploader(c)
             next == [queue |-> Tail(c.queue), uploader |-> s, active |-> c.active + 1,
                      reserved |-> c.reserved + BlobBytes[s]]
             moved == [ph EXCEPT ![s] = "uploading"] IN
         /\ Balanced(next, moved) /\ Limits(next) /\ next.uploader # NoStream
         /\ s \in Stream /\ ph[s] = "queued"
<1> DEFINE s == NextUploader(c)
           next == [queue |-> Tail(c.queue), uploader |-> s, active |-> c.active + 1,
                    reserved |-> c.reserved + BlobBytes[s]]
           moved == [ph EXCEPT ![s] = "uploading"]
<1>1. /\ c \in CreditType /\ ph \in [Stream -> Phase] /\ c.queue \in Seq(Stream)
      /\ c.active \in Nat /\ c.reserved \in Nat
      /\ c.active = Cardinality(InPhases(ph, Busy))
      /\ c.reserved = SumOf(BlobBytes, InPhases(ph, Busy))
      /\ \A t \in Stream : c.uploader = t <=> ph[t] = "uploading"
      /\ Increasing(c.queue) /\ Members(c.queue) = InPhases(ph, {"queued"})
  BY DEF Balanced, CreditType
<1>2. /\ c.queue # <<>> /\ c.uploader = NoStream /\ c.active < MaxConcurrentDispatch
      /\ c.reserved + BlobBytes[s] <= MaxReservedBlobBytes /\ s = Head(c.queue)
  BY DEF CanAdmit, NextUploader
<1> HIDE DEF s
<1>3. /\ s \in Stream /\ Tail(c.queue) \in Seq(Stream) /\ Increasing(Tail(c.queue))
      /\ Members(Tail(c.queue)) = InPhases(ph, {"queued"}) \ {s} /\ ph[s] = "queued"
  BY <1>1, <1>2, TailQueue DEF InPhases
<1>4. /\ moved \in [Stream -> Phase] /\ moved[s] = "uploading"
      /\ \A t \in Stream \ {s} : moved[t] = ph[t]
      /\ InPhases(moved, Busy) = InPhases(ph, Busy) \cup {s}
      /\ InPhases(moved, {"queued"}) = InPhases(ph, {"queued"}) \ {s}
  <2>1. /\ "uploading" \in Phase /\ "uploading" \in Busy /\ "uploading" \notin {"queued"}
        /\ moved = [ph EXCEPT ![s] = "uploading"]
    BY DEF Phase, Busy
  <2> HIDE DEF moved
  <2>2. /\ moved \in [Stream -> Phase] /\ moved[s] = "uploading"
        /\ \A t \in Stream \ {s} : moved[t] = ph[t]
    BY <1>1, <1>3, <2>1, Moved
  <2>3. InPhases(moved, Busy) = InPhases(ph, Busy) \cup {s}
    BY <1>3, <2>1, <2>2 DEF InPhases
  <2>4. InPhases(moved, {"queued"}) = InPhases(ph, {"queued"}) \ {s}
    BY <1>3, <2>1, <2>2 DEF InPhases
  <2> QED
    BY <2>2, <2>3, <2>4
<1> HIDE DEF moved
<1>5. /\ SumOf(BlobBytes, InPhases(moved, Busy)) = c.reserved + BlobBytes[s]
      /\ Cardinality(InPhases(moved, Busy)) = c.active + 1
      /\ BlobBytes[s] \in Nat
  <2>1. PICK S : S = InPhases(ph, Busy)
    OBVIOUS
  <2>2. s \in Stream /\ s \notin S /\ S \subseteq Stream
    BY <1>3, <2>1 DEF InPhases, Busy
  <2>3. SumOf(BlobBytes, S \cup {s}) = SumOf(BlobBytes, S) + BlobBytes[s]
        /\ Cardinality(S \cup {s}) = Cardinality(S) + 1
    <3>1. BlobBytes \in [Stream -> Nat]
      BY StreamAssumption
    <3>2. PICK t : t = s
      OBVIOUS
    <3>3. t \in Stream /\ t \notin S /\ S \subseteq Stream
      BY <2>2, <3>2
    <3>4. SumOf(BlobBytes, S \cup {t}) = SumOf(BlobBytes, S) + BlobBytes[t]
          /\ Cardinality(S \cup {t}) = Cardinality(S) + 1
      BY <3>1, <3>3, SumAdd
    <3> QED
      BY <3>2, <3>4
  <2> QED
    BY <1>1, <1>3, <1>4, <2>1, <2>3, StreamAssumption
<1>6. s # NoStream
  BY <1>3, StreamAssumption
<1>7. next \in CreditType
  BY <1>1, <1>3, <1>5 DEF CreditType
<1>8. \A t \in Stream : next.uploader = t <=> moved[t] = "uploading"
  BY <1>1, <1>2, <1>3, <1>4, StreamAssumption
<1>9. Balanced(next, moved)
  BY <1>3, <1>4, <1>5, <1>7, <1>8 DEF Balanced
<1>10. Limits(next)
  BY <1>1, <1>2, <1>5, LimitAssumption DEF Limits
<1> QED
  BY <1>3, <1>6, <1>9, <1>10 DEF moved, s

\* admit keeps the balance, and gives what it can give.
LEMMA SettleKeeps ==
  ASSUME NEW c, NEW ph, Balanced(c, ph), Limits(c), Settle(c, ph)
  PROVE  /\ Balanced(credit', phase') /\ Limits(credit') /\ ~CanAdmit(credit')
         /\ \A s \in Stream : phase'[s] = ph[s] \/ (ph[s] = "queued" /\ phase'[s] = "uploading")
<1>1. CASE CanAdmit(c)
  <2>1. PICK s : s = NextUploader(c)
    OBVIOUS
  <2>2. /\ credit' = [queue |-> Tail(c.queue), uploader |-> s, active |-> c.active + 1,
                      reserved |-> c.reserved + BlobBytes[s]]
        /\ phase' = [ph EXCEPT ![s] = "uploading"]
    BY <1>1, <2>1 DEF Settle
  <2>3. /\ Balanced(credit', phase') /\ Limits(credit') /\ credit'.uploader # NoStream
        /\ s \in Stream /\ ph[s] = "queued"
    BY <1>1, <2>1, <2>2, AdmitKeeps
  <2>4. ph \in [Stream -> Phase]
    BY DEF Balanced
  <2> QED
    BY <2>2, <2>3, <2>4 DEF CanAdmit
<1>2. CASE ~CanAdmit(c)
  BY <1>2 DEF Settle
<1> QED
  BY <1>1, <1>2

\* A stream that ends gives back what it held.
LEMMA FreedKeeps ==
  ASSUME NEW c, Balanced(c, phase), Limits(c), NEW s \in Stream, Live(s)
  PROVE  Balanced(Freed(c, s), [phase EXCEPT ![s] = "terminal"]) /\ Limits(Freed(c, s))
<1> DEFINE moved == [phase EXCEPT ![s] = "terminal"]
           next == Freed(c, s)
<1>1. /\ c \in CreditType /\ phase \in [Stream -> Phase] /\ c.queue \in Seq(Stream)
      /\ c.active \in Nat /\ c.reserved \in Nat /\ c.uploader \in Stream \cup {NoStream}
      /\ c.active = Cardinality(InPhases(phase, Busy))
      /\ c.reserved = SumOf(BlobBytes, InPhases(phase, Busy))
      /\ \A t \in Stream : c.uploader = t <=> phase[t] = "uploading"
      /\ Increasing(c.queue) /\ Members(c.queue) = InPhases(phase, {"queued"})
  BY DEF Balanced, CreditType
<1>2. /\ moved \in [Stream -> Phase] /\ moved[s] = "terminal"
      /\ \A t \in Stream \ {s} : moved[t] = phase[t]
      /\ InPhases(moved, Busy) = InPhases(phase, Busy) \ {s}
      /\ InPhases(moved, {"queued"}) = InPhases(phase, {"queued"}) \ {s}
  <2>1. /\ "terminal" \in Phase /\ "terminal" \notin Busy /\ "terminal" \notin {"queued"}
        /\ moved = [phase EXCEPT ![s] = "terminal"]
    BY DEF Phase, Busy
  <2> HIDE DEF moved
  <2>2. /\ moved \in [Stream -> Phase] /\ moved[s] = "terminal"
        /\ \A t \in Stream \ {s} : moved[t] = phase[t]
    BY <1>1, <2>1, Moved
  <2>3. InPhases(moved, Busy) = InPhases(phase, Busy) \ {s}
    BY <2>1, <2>2 DEF InPhases
  <2>4. InPhases(moved, {"queued"}) = InPhases(phase, {"queued"}) \ {s}
    BY <2>1, <2>2 DEF InPhases
  <2> QED
    BY <2>2, <2>3, <2>4
<1> HIDE DEF moved
<1>3. CASE phase[s] = "queued"
  <2>1. PICK q : q = Without(c.queue, {s})
    OBVIOUS
  <2>2. next = [c EXCEPT !.queue = q]
    BY <1>3, <2>1 DEF Freed
  <2>3. q \in Seq(Stream) /\ Increasing(q) /\ Members(q) = InPhases(moved, {"queued"})
    <3>1. PICK w : w = c.queue
      OBVIOUS
    <3>2. w \in Seq(Stream) /\ Increasing(w) /\ q = Without(w, {s})
      BY <1>1, <2>1, <3>1
    <3>3. q \in Seq(Stream) /\ Increasing(q) /\ Members(q) = Members(w) \ {s}
      BY <3>2, WithoutQueue
    <3> QED
      BY <1>1, <1>2, <3>1, <3>3
  <2> HIDE DEF next
  <2>4. /\ next \in CreditType /\ next.queue = q /\ next.uploader = c.uploader
        /\ next.active = c.active /\ next.reserved = c.reserved
    BY <1>1, <2>2, <2>3 DEF CreditType
  <2>5. InPhases(moved, Busy) = InPhases(phase, Busy)
    BY <1>2, <1>3 DEF InPhases, Busy
  <2>6. \A t \in Stream : next.uploader = t <=> moved[t] = "uploading"
    BY <1>1, <1>2, <1>3, <2>4
  <2>7. Balanced(next, moved)
    BY <1>1, <1>2, <2>3, <2>4, <2>5, <2>6 DEF Balanced
  <2>8. Limits(next)
    BY <2>4 DEF Limits
  <2> QED
    BY <2>7, <2>8 DEF moved, next
<1>4. CASE phase[s] # "queued"
  <2>1. PICK up : up = IF c.uploader = s THEN NoStream ELSE c.uploader
    OBVIOUS
  <2>2. next = [c EXCEPT !.uploader = up, !.active = c.active - 1,
                         !.reserved = c.reserved - BlobBytes[s]]
    BY <1>4, <2>1 DEF Freed
  <2>3. s \in InPhases(phase, Busy) /\ InPhases(phase, Busy) \subseteq Stream
    BY <1>4 DEF InPhases, Busy, Live
  <2>4. /\ SumOf(BlobBytes, InPhases(moved, Busy)) = c.reserved - BlobBytes[s]
        /\ Cardinality(InPhases(moved, Busy)) = c.active - 1
        /\ c.active - 1 \in Nat /\ c.reserved - BlobBytes[s] \in Nat /\ BlobBytes[s] \in Nat
    <3>1. PICK S : S = InPhases(phase, Busy)
      OBVIOUS
    <3>2. s \in S /\ S \subseteq Stream
      BY <2>3, <3>1
    <3>3. /\ SumOf(BlobBytes, S \ {s}) = SumOf(BlobBytes, S) - BlobBytes[s]
          /\ SumOf(BlobBytes, S) >= BlobBytes[s]
          /\ Cardinality(S \ {s}) = Cardinality(S) - 1 /\ Cardinality(S) \in Nat \ {0}
      BY <3>2, SumRemove, StreamAssumption
    <3> QED
      BY <1>1, <1>2, <3>1, <3>3, StreamAssumption
  <2>5. up \in Stream \cup {NoStream}
    BY <1>1, <2>1
  <2> HIDE DEF next
  <2>6. /\ next \in CreditType /\ next.queue = c.queue /\ next.uploader = up
        /\ next.active = c.active - 1 /\ next.reserved = c.reserved - BlobBytes[s]
    BY <1>1, <2>2, <2>4, <2>5 DEF CreditType
  <2>7. \A t \in Stream : up = t <=> moved[t] = "uploading"
    BY <1>1, <1>2, <2>1, StreamAssumption
  <2>8. InPhases(moved, {"queued"}) = InPhases(phase, {"queued"})
    BY <1>2, <1>4 DEF InPhases
  <2>9. Balanced(next, moved)
    BY <1>1, <1>2, <2>4, <2>6, <2>7, <2>8 DEF Balanced
  <2>10. Limits(next)
    BY <1>1, <2>4, <2>6, LimitAssumption DEF Limits
  <2> QED
    BY <2>9, <2>10 DEF moved, next
<1> QED
  BY <1>3, <1>4

\* An accepted control joins the queue.
LEMMA EnqueueKeeps ==
  ASSUME NEW c, NEW ph, Balanced(c, ph), Limits(c), NEW s \in Stream, ph[s] = "none",
         \A t \in Stream : ph[t] # "none" => t < s
  PROVE  /\ Balanced([c EXCEPT !.queue = Append(@, s)], [ph EXCEPT ![s] = "queued"])
         /\ Limits([c EXCEPT !.queue = Append(@, s)])
<1> DEFINE moved == [ph EXCEPT ![s] = "queued"]
           next == [c EXCEPT !.queue = Append(@, s)]
<1>1. /\ c \in CreditType /\ ph \in [Stream -> Phase] /\ c.queue \in Seq(Stream)
      /\ c.active = Cardinality(InPhases(ph, Busy))
      /\ c.reserved = SumOf(BlobBytes, InPhases(ph, Busy))
      /\ \A t \in Stream : c.uploader = t <=> ph[t] = "uploading"
      /\ Increasing(c.queue) /\ Members(c.queue) = InPhases(ph, {"queued"})
  BY DEF Balanced, CreditType
<1>2. PICK w : w = c.queue
  OBVIOUS
<1>3. w \in Seq(Stream) /\ Increasing(w) /\ \A t \in Members(w) : t < s
  BY <1>1, <1>2 DEF InPhases
<1>4. /\ Append(w, s) \in Seq(Stream) /\ Increasing(Append(w, s))
      /\ Members(Append(w, s)) = Members(w) \cup {s}
  BY <1>3, AppendQueue
<1>5. /\ moved \in [Stream -> Phase] /\ moved[s] = "queued"
      /\ \A t \in Stream \ {s} : moved[t] = ph[t]
  BY <1>1 DEF Phase
<1>6. PICK q : q = Append(w, s)
  OBVIOUS
<1>7. next = [c EXCEPT !.queue = q]
  BY <1>2, <1>6
<1> HIDE DEF moved, next
<1>8. /\ next \in CreditType /\ next.queue = q /\ next.uploader = c.uploader
      /\ next.active = c.active /\ next.reserved = c.reserved
  BY <1>1, <1>4, <1>6, <1>7 DEF CreditType
<1>9. /\ InPhases(moved, Busy) = InPhases(ph, Busy)
      /\ InPhases(moved, {"queued"}) = InPhases(ph, {"queued"}) \cup {s}
  BY <1>5 DEF InPhases, Busy
<1>10. \A t \in Stream : next.uploader = t <=> moved[t] = "uploading"
  BY <1>1, <1>5, <1>8
<1>11. Balanced(next, moved)
  BY <1>1, <1>2, <1>4, <1>5, <1>6, <1>8, <1>9, <1>10 DEF Balanced
<1>12. Limits(next)
  BY <1>8 DEF Limits
<1> QED
  BY <1>11, <1>12 DEF moved, next

\* A sealed upload keeps its slot.
LEMMA SealKeeps ==
  ASSUME NEW c, NEW ph, Balanced(c, ph), Limits(c), NEW s \in Stream, c.uploader = s
  PROVE  /\ Balanced([c EXCEPT !.uploader = NoStream], [ph EXCEPT ![s] = "dispatching"])
         /\ Limits([c EXCEPT !.uploader = NoStream]) /\ ph[s] = "uploading"
<1> DEFINE moved == [ph EXCEPT ![s] = "dispatching"]
           next == [c EXCEPT !.uploader = NoStream]
<1>1. /\ c \in CreditType /\ ph \in [Stream -> Phase]
      /\ c.active = Cardinality(InPhases(ph, Busy))
      /\ c.reserved = SumOf(BlobBytes, InPhases(ph, Busy))
      /\ \A t \in Stream : c.uploader = t <=> ph[t] = "uploading"
      /\ Increasing(c.queue) /\ Members(c.queue) = InPhases(ph, {"queued"})
  BY DEF Balanced
<1>2. /\ moved \in [Stream -> Phase] /\ moved[s] = "dispatching"
      /\ \A t \in Stream \ {s} : moved[t] = ph[t]
  BY <1>1 DEF Phase
<1>3. /\ next \in CreditType /\ next.queue = c.queue /\ next.uploader = NoStream
      /\ next.active = c.active /\ next.reserved = c.reserved
  BY <1>1 DEF CreditType
<1> HIDE DEF moved, next
<1>4. ph[s] = "uploading"
  BY <1>1
<1>5. /\ InPhases(moved, Busy) = InPhases(ph, Busy)
      /\ InPhases(moved, {"queued"}) = InPhases(ph, {"queued"})
  BY <1>2, <1>4 DEF InPhases, Busy
<1>6. \A t \in Stream : next.uploader = t <=> moved[t] = "uploading"
  BY <1>1, <1>2, <1>3, StreamAssumption
<1>7. Balanced(next, moved)
  BY <1>1, <1>2, <1>3, <1>5, <1>6 DEF Balanced
<1>8. Limits(next)
  BY <1>3 DEF Limits
<1> QED
  BY <1>4, <1>7, <1>8 DEF moved, next

\* Streams that wait are dropped together; q is what is left of the queue.
Dropped(c, S, q) ==
  LET up == c.uploader \in S IN
  [queue |-> q, uploader |-> IF up THEN NoStream ELSE c.uploader,
   active |-> IF up THEN c.active - 1 ELSE c.active,
   reserved |-> IF up THEN c.reserved - BlobBytes[c.uploader] ELSE c.reserved]

LEMMA DroppedKeeps ==
  ASSUME NEW c, NEW ph, Balanced(c, ph), Limits(c), NEW S, S \subseteq InPhases(ph, Waiting),
         NEW q \in Seq(Stream), Increasing(q), Members(q) = Members(c.queue) \ S
  PROVE  LET moved == [s \in Stream |-> IF s \in S THEN "terminal" ELSE ph[s]] IN
         Balanced(Dropped(c, S, q), moved) /\ Limits(Dropped(c, S, q))
<1> DEFINE moved == [s \in Stream |-> IF s \in S THEN "terminal" ELSE ph[s]]
           next == Dropped(c, S, q)
<1>1. /\ c \in CreditType /\ ph \in [Stream -> Phase]
      /\ c.active \in Nat /\ c.reserved \in Nat /\ c.uploader \in Stream \cup {NoStream}
      /\ c.active = Cardinality(InPhases(ph, Busy))
      /\ c.reserved = SumOf(BlobBytes, InPhases(ph, Busy))
      /\ \A t \in Stream : c.uploader = t <=> ph[t] = "uploading"
      /\ Members(c.queue) = InPhases(ph, {"queued"})
  BY DEF Balanced, CreditType
<1>2. /\ moved \in [Stream -> Phase]
      /\ \A t \in Stream : moved[t] = IF t \in S THEN "terminal" ELSE ph[t]
  BY <1>1 DEF Phase
<1> HIDE DEF moved
<1>3. InPhases(moved, {"queued"}) = InPhases(ph, {"queued"}) \ S
  BY <1>2 DEF InPhases
<1>4. PICK s : s = c.uploader
  OBVIOUS
<1>5. CASE s \in S
  <2>1. s \in Stream /\ ph[s] = "uploading"
    BY <1>1, <1>4, <1>5 DEF InPhases
  <2>2. InPhases(moved, Busy) = InPhases(ph, Busy) \ {s}
    <3>1. \A t \in S : ph[t] \in Waiting /\ t \in Stream
      BY DEF InPhases
    <3>2. \A t \in Stream : ph[t] = "uploading" <=> t = s
      BY <1>1, <1>4
    <3> QED
      BY <1>2, <1>5, <3>1, <3>2 DEF InPhases, Busy, Waiting
  <2>3. PICK T : T = InPhases(ph, Busy)
    OBVIOUS
  <2>4. s \in T /\ T \subseteq Stream
    BY <2>1, <2>3 DEF InPhases, Busy
  <2>5. /\ SumOf(BlobBytes, T \ {s}) = SumOf(BlobBytes, T) - BlobBytes[s]
        /\ SumOf(BlobBytes, T) >= BlobBytes[s]
        /\ Cardinality(T \ {s}) = Cardinality(T) - 1 /\ Cardinality(T) \in Nat \ {0}
    <3>1. BlobBytes \in [Stream -> Nat]
      BY StreamAssumption
    <3> QED
      BY <2>4, <3>1, SumRemove
  <2>6. BlobBytes[s] \in Nat
    BY <2>1, StreamAssumption
  <2>7. /\ SumOf(BlobBytes, InPhases(moved, Busy)) = c.reserved - BlobBytes[s]
        /\ Cardinality(InPhases(moved, Busy)) = c.active - 1
        /\ c.active - 1 \in Nat /\ c.reserved - BlobBytes[s] \in Nat
    BY <1>1, <2>2, <2>3, <2>5, <2>6
  <2>8. next = [queue |-> q, uploader |-> NoStream, active |-> c.active - 1,
                reserved |-> c.reserved - BlobBytes[s]]
    BY <1>4, <1>5 DEF Dropped
  <2> HIDE DEF next
  <2>9. /\ next \in CreditType /\ next.queue = q /\ next.uploader = NoStream
        /\ next.active = c.active - 1 /\ next.reserved = c.reserved - BlobBytes[s]
    BY <2>7, <2>8 DEF CreditType
  <2>10. \A t \in Stream : next.uploader = t <=> moved[t] = "uploading"
    BY <1>1, <1>2, <1>4, <1>5, <2>9, StreamAssumption
  <2>11. Balanced(next, moved)
    BY <1>1, <1>2, <1>3, <2>7, <2>9, <2>10 DEF Balanced
  <2>12. Limits(next)
    BY <1>1, <2>6, <2>7, <2>9, LimitAssumption DEF Limits
  <2> QED
    BY <2>11, <2>12 DEF moved, next
<1>6. CASE s \notin S
  <2>1. InPhases(moved, Busy) = InPhases(ph, Busy)
    <3>1. \A t \in S : ph[t] = "queued"
      BY <1>1, <1>4, <1>6 DEF InPhases, Waiting
    <3> QED
      BY <1>2, <3>1 DEF InPhases, Busy
  <2>2. next = [queue |-> q, uploader |-> s, active |-> c.active, reserved |-> c.reserved]
    BY <1>4, <1>6 DEF Dropped
  <2> HIDE DEF next
  <2>3. /\ next \in CreditType /\ next.queue = q /\ next.uploader = s
        /\ next.active = c.active /\ next.reserved = c.reserved
    BY <1>1, <1>4, <2>2 DEF CreditType
  <2>4. \A t \in Stream : next.uploader = t <=> moved[t] = "uploading"
    BY <1>1, <1>2, <1>4, <1>6, <2>3
  <2>5. Balanced(next, moved)
    BY <1>1, <1>2, <1>3, <2>1, <2>3, <2>4 DEF Balanced
  <2>6. Limits(next)
    BY <2>3 DEF Limits
  <2> QED
    BY <2>5, <2>6 DEF moved, next
<1> QED
  BY <1>5, <1>6

----------------------------------------------------------------------------
(* Controls                                                                *)

LivePhases == {"queued", "uploading", "dispatching"}
\* What controls and controlSum should be.
Controls(ph) == [count |-> Cardinality(InPhases(ph, LivePhases)),
              bytes |-> SumOf(ControlBytes, InPhases(ph, LivePhases))]

LEMMA StreamsInPhases == Streams = InPhases(phase, LivePhases)
BY DEF Streams, Live, InPhases, LivePhases

LEMMA ReleaseKeeps ==
  ASSUME NEW ph, pending = Controls(ph), NEW S, S \subseteq InPhases(ph, LivePhases), Release(S),
         NEW moved, InPhases(moved, LivePhases) = InPhases(ph, LivePhases) \ S
  PROVE  pending' = Controls(moved) /\ pending'.count <= pending.count /\ pending'.bytes <= pending.bytes
<1>1. PICK T : T = InPhases(ph, LivePhases)
  OBVIOUS
<1>2. T \subseteq Stream /\ S \subseteq T
  BY <1>1 DEF InPhases
<1>3. ControlBytes \in [Stream -> Nat]
  BY StreamAssumption
<1>4. /\ SumOf(ControlBytes, T) = SumOf(ControlBytes, T \ S) + SumOf(ControlBytes, S)
      /\ Cardinality(T) = Cardinality(T \ S) + Cardinality(S)
  BY <1>2, <1>3, SumDifference
<1>5. /\ SumOf(ControlBytes, T \ S) \in Nat /\ SumOf(ControlBytes, S) \in Nat
      /\ Cardinality(T \ S) \in Nat /\ Cardinality(S) \in Nat
  <2>1. T \ S \subseteq Stream /\ S \subseteq Stream
    BY <1>2
  <2> QED
    BY <1>3, <2>1, ItemsFinite, StreamFinite
<1>6. /\ pending.count = Cardinality(T) /\ pending.bytes = SumOf(ControlBytes, T)
      /\ pending' = [count |-> pending.count - Cardinality(S),
                     bytes |-> pending.bytes - SumOf(ControlBytes, S)]
      /\ Controls(moved) = [count |-> Cardinality(T \ S), bytes |-> SumOf(ControlBytes, T \ S)]
  BY <1>1 DEF Controls, Release
<1> QED
  BY <1>4, <1>5, <1>6

----------------------------------------------------------------------------
(* The inductive invariant                                                 *)

Torn == conn \in {"aborting", "stopped", "failed"}

Types ==
  /\ conn \in Conn /\ negotiated \in BOOLEAN /\ highWater \in 0 .. MaxStream
  /\ winner \in [Stream -> Winner] /\ output \subseteq Stream
  /\ exec \in [Stream -> {"idle", "running", "published", "returned"}]
  /\ suppressed \subseteq Stream
  /\ answers \in [Stream -> Seq(Answer)] /\ fatal \in 0 .. MaxFatal

\* Credit and controls are those of the phases, and no credit is left over.
CreditInv ==
  /\ Balanced(credit, phase) /\ Limits(credit)
  /\ pending = Controls(phase)
  /\ pending.count <= MaxActiveStreams /\ pending.bytes <= MaxPendingControlBytes
AdmitInv == conn = "open" => ~CanAdmit(credit)

\* How the phase, the arbiter, the output set, the goroutine, the suppression
\* and the answers of one stream go together.
Fits(ph, w, out, e, sup, ans, torn) ==
  /\ ph \in {"none", "queued", "uploading"} => w = "undecided" /\ e = "idle" /\ ~out /\ ~sup
  /\ ph \in {"queued", "uploading", "dispatching"} => ans = <<>>
  /\ ph = "dispatching" => e # "idle"
  /\ ph = "terminal" => e \in {"idle", "returned"}
  /\ e = "published" <=> w = "committed"
  /\ out => w \in {"committed", "execution"}
  /\ w = "execution" => e = "returned"
  /\ e = "returned" => w \in {"execution", "cancellation", "transport"} \/ sup
  /\ sup => torn
  /\ ph = "terminal" => ans = <<Bundle(w, out)>> \/ (ans = <<>> /\ torn)
LifeInv ==
  \A s \in Stream : Fits(phase[s], winner[s], s \in output, exec[s], s \in suppressed,
                         answers[s], Torn)

\* The identifiers above the high water mark are new.
FreshInv == \A s \in Stream : s > highWater => phase[s] = "none" /\ answers[s] = <<>>

\* The results channel holds the dispatches that have returned, once each.
Returned(ph, ex) == {s \in Stream : ph[s] = "dispatching" /\ ex[s] = "returned"}
ResultsInv ==
  /\ results \in Seq(Stream) /\ Distinct(results)
  /\ Members(results) = Returned(phase, exec)

\* A connection that drains has no stream that waits; one that is over, none.
ConnInv ==
  /\ conn \notin {"open", "failed"} => InPhases(phase, Waiting) = {}
  /\ conn \in {"ended", "stopped"} => InPhases(phase, LivePhases) = {}

StdioInv ==
  Types /\ CreditInv /\ AdmitInv /\ LifeInv /\ FreshInv /\ ResultsInv /\ ConnInv

LEMMA StdioInit == Init => StdioInv
<1> SUFFICES ASSUME Init PROVE StdioInv
  OBVIOUS
<1>1. \A s \in Stream : s > 0
  BY StreamsAreNumbers
<1>2. Types
  <2>1. answers \in [Stream -> Seq(Answer)] /\ winner \in [Stream -> Winner]
        /\ exec \in [Stream -> {"idle", "running", "published", "returned"}]
    BY DEF Init, Winner
  <2>2. conn \in Conn /\ highWater \in 0 .. MaxStream /\ fatal \in 0 .. MaxFatal
    BY StreamAssumption, LimitAssumption DEF Init, Conn
  <2> QED
    BY <2>1, <2>2 DEF Init, Types
<1>3. \A P : "none" \notin P => InPhases(phase, P) = {}
  BY DEF Init, InPhases
<1>4. /\ InPhases(phase, Busy) = {} /\ InPhases(phase, {"queued"}) = {}
      /\ InPhases(phase, LivePhases) = {} /\ InPhases(phase, Waiting) = {}
  BY <1>3 DEF Busy, LivePhases, Waiting
<1>5. /\ SumOf(BlobBytes, {}) = 0 /\ SumOf(ControlBytes, {}) = 0 /\ Cardinality({}) = 0
  <2>1. BlobBytes \in [Stream -> Nat] /\ ControlBytes \in [Stream -> Nat]
    BY StreamAssumption
  <2> QED
    BY <2>1, SumEmpty
<1>6. Balanced(credit, phase) /\ Limits(credit)
  <2>1. /\ credit = [queue |-> <<>>, uploader |-> NoStream, active |-> 0, reserved |-> 0]
        /\ phase = [s \in Stream |-> "none"]
    BY DEF Init
  <2>2. Increasing(<<>>) /\ Members(<<>>) = {} /\ <<>> \in Seq(Stream)
    <3>1. Len(<<>>) = 0
      OBVIOUS
    <3> QED
      BY <3>1 DEF Increasing, Members
  <2>3. credit \in CreditType /\ phase \in [Stream -> Phase]
    BY <2>1, <2>2 DEF CreditType, Phase
  <2>4. \A s \in Stream : NoStream # s
    BY StreamAssumption
  <2>5. /\ credit.queue = <<>> /\ credit.uploader = NoStream
        /\ credit.active = 0 /\ credit.reserved = 0
    BY <2>1
  <2>6. \A s \in Stream : credit.uploader = s <=> phase[s] = "uploading"
    BY <2>1, <2>4, <2>5
  <2>7. Limits(credit)
    BY <2>5, LimitAssumption DEF Limits
  <2> QED
    BY <1>4, <1>5, <2>2, <2>3, <2>5, <2>6, <2>7 DEF Balanced
<1>7. CreditInv
  <2>1. pending = [count |-> 0, bytes |-> 0] /\ Controls(phase) = [count |-> 0, bytes |-> 0]
    BY <1>4, <1>5 DEF Controls, Init
  <2> QED
    BY <1>6, <2>1, LimitAssumption DEF CreditInv
<1>8. AdmitInv
  BY DEF AdmitInv, CanAdmit, Init
<1>9. LifeInv
  BY DEF LifeInv, Fits, Init
<1>10. FreshInv
  BY DEF FreshInv, Init
<1>11. ResultsInv
  <2>1. Members(<<>>) = {} /\ Distinct(<<>>) /\ <<>> \in Seq(Stream)
    <3>1. \A i \in 1 .. Len(<<>>) : FALSE
      OBVIOUS
    <3>2. <<>> \in Seq(Stream)
      OBVIOUS
    <3> QED
      BY <3>1, <3>2 DEF Distinct, Members
  <2>2. Returned(phase, exec) = {}
    BY DEF Returned, Init
  <2>3. results = <<>>
    BY DEF Init
  <2> QED
    BY <2>1, <2>2, <2>3 DEF ResultsInv
<1>12. ConnInv
  BY <1>4 DEF ConnInv
<1> QED
  BY <1>2, <1>7, <1>8, <1>9, <1>10, <1>11, <1>12 DEF StdioInv

----------------------------------------------------------------------------
(* What the steps keep                                                     *)

LEMMA FitsPromoted ==
  ASSUME NEW ph, NEW w, NEW out \in BOOLEAN, NEW e, NEW sup \in BOOLEAN, NEW ans,
         NEW torn \in BOOLEAN, NEW later \in BOOLEAN, NEW next,
         Fits(ph, w, out, e, sup, ans, torn), torn => later,
         next = ph \/ (ph = "queued" /\ next = "uploading")
  PROVE  Fits(next, w, out, e, sup, ans, later)
BY DEF Fits

LEMMA AppendTyped ==
  ASSUME NEW A, NEW q \in Seq(A), NEW a \in A
  PROVE  Append(q, a) \in Seq(A)
OBVIOUS

\* The loop answers an identifier that never becomes a stream.
LEMMA AnsweredKeeps ==
  ASSUME StdioInv, NEW s \in Stream, AnswerControl(s) \/ Handshake(s)
  PROVE  StdioInv'
<1>1. /\ conn = "open" /\ s > highWater /\ highWater' = s
      /\ UNCHANGED <<conn, phase, credit, pending, winner, exec, results, output,
                     suppressed, fatal>>
      /\ negotiated' \in BOOLEAN
      /\ \E kind \in {"terminal", "error"} :
           answers' = [answers EXCEPT ![s] = Append(@, Bundle(kind, FALSE))]
  BY DEF AnswerControl, Handshake, Write, dispatchVars, StdioInv, Types
<1>2. Types /\ CreditInv /\ AdmitInv /\ LifeInv /\ FreshInv /\ ResultsInv /\ ConnInv
  BY DEF StdioInv
<1>3. PICK kind \in {"terminal", "error"} :
        answers' = [answers EXCEPT ![s] = Append(@, Bundle(kind, FALSE))]
  BY <1>1
<1>4. /\ phase[s] = "none" /\ highWater \in Int /\ s \in 0 .. MaxStream
      /\ answers \in [Stream -> Seq(Answer)]
  BY <1>1, <1>2, StreamsAreNumbers, StreamAssumption DEF FreshInv, Types
<1>5. Types'
  <2>1. Append(answers[s], Bundle(kind, FALSE)) \in Seq(Answer)
    <3>1. Bundle(kind, FALSE) \in Answer
      BY DEF Bundle, Answer
    <3>2. answers[s] \in Seq(Answer)
      BY <1>4
    <3> QED
      BY <3>1, <3>2, AppendTyped
  <2>2. answers' \in [Stream -> Seq(Answer)]
    BY <1>3, <1>4, <2>1
  <2> QED
    BY <1>1, <1>2, <1>4, <2>2 DEF Types
<1>6. CreditInv' /\ AdmitInv' /\ ResultsInv' /\ ConnInv'
  BY <1>1, <1>2 DEF CreditInv, Balanced, Limits, InPhases, Controls, AdmitInv, CanAdmit,
                    ResultsInv, Returned, ConnInv
<1>7. \A t \in Stream \ {s} : answers'[t] = answers[t]
  BY <1>3, <1>4
<1>8. LifeInv'
  <2> SUFFICES ASSUME NEW t \in Stream
               PROVE  Fits(phase[t], winner[t], t \in output, exec[t], t \in suppressed,
                           answers'[t], Torn)
    BY <1>1 DEF LifeInv, Torn
  <2>1. Fits(phase[t], winner[t], t \in output, exec[t], t \in suppressed, answers[t], Torn)
    BY <1>2 DEF LifeInv
  <2>2. CASE t = s
    BY <1>4, <2>1, <2>2 DEF Fits
  <2>3. CASE t # s
    BY <1>7, <2>1, <2>3
  <2> QED
    BY <2>2, <2>3
<1>9. FreshInv'
  <2> SUFFICES ASSUME NEW t \in Stream, t > s PROVE phase[t] = "none" /\ answers'[t] = <<>>
    BY <1>1 DEF FreshInv
  <2>1. t # s /\ t > highWater
    BY <1>1, <1>4, StreamsAreNumbers
  <2> QED
    BY <1>2, <1>7, <2>1 DEF FreshInv
<1> QED
  BY <1>5, <1>6, <1>8, <1>9 DEF StdioInv

LEMMA PublishKeeps ==
  ASSUME StdioInv, NEW s \in Stream, Publish(s)
  PROVE  StdioInv'
<1>1. /\ exec[s] = "running" /\ winner[s] = "undecided"
      /\ winner' = [winner EXCEPT ![s] = "committed"]
      /\ output' = output \cup {s} /\ exec' = [exec EXCEPT ![s] = "published"]
      /\ UNCHANGED <<conn, negotiated, highWater, phase, credit, pending, results,
                     suppressed, answers, fatal>>
  BY DEF Publish, Claim, Undecided
<1>2. Types /\ CreditInv /\ AdmitInv /\ LifeInv /\ FreshInv /\ ResultsInv /\ ConnInv
  BY DEF StdioInv
<1>3. /\ winner' \in [Stream -> Winner] /\ winner'[s] = "committed"
      /\ \A t \in Stream \ {s} : winner'[t] = winner[t]
  BY <1>1, <1>2 DEF Types, Winner
<1>4. /\ exec' \in [Stream -> {"idle", "running", "published", "returned"}]
      /\ exec'[s] = "published" /\ \A t \in Stream \ {s} : exec'[t] = exec[t]
  BY <1>1, <1>2 DEF Types
<1>5. Types'
  BY <1>1, <1>2, <1>3, <1>4 DEF Types
<1>6. CreditInv' /\ AdmitInv' /\ ConnInv' /\ FreshInv'
  BY <1>1, <1>2 DEF CreditInv, Balanced, Limits, InPhases, Controls, AdmitInv, CanAdmit,
                    ConnInv, FreshInv
<1>7. ResultsInv'
  <2>1. Returned(phase, exec') = Returned(phase, exec)
    BY <1>1, <1>4 DEF Returned
  <2> QED
    BY <1>1, <1>2, <2>1 DEF ResultsInv, Returned
<1>8. LifeInv'
  <2> SUFFICES ASSUME NEW t \in Stream
               PROVE  Fits(phase[t], winner'[t], t \in output', exec'[t], t \in suppressed,
                           answers[t], Torn)
    BY <1>1 DEF LifeInv, Torn
  <2>1. Fits(phase[t], winner[t], t \in output, exec[t], t \in suppressed, answers[t], Torn)
    BY <1>2 DEF LifeInv
  <2>2. CASE t = s
    <3>1. phase[s] = "dispatching"
      BY <1>1, <2>1, <2>2, <1>2 DEF Fits, CreditInv, Balanced, Phase
    <3> QED
      BY <1>1, <1>3, <1>4, <2>1, <2>2, <3>1 DEF Fits
  <2>3. CASE t # s
    BY <1>1, <1>3, <1>4, <2>1, <2>3
  <2> QED
    BY <2>2, <2>3
<1> QED
  BY <1>5, <1>6, <1>7, <1>8 DEF StdioInv

\* A result more, a result less.
LEMMA AppendResult ==
  ASSUME NEW q \in Seq(Stream), NEW s \in Stream, Distinct(q), s \notin Members(q)
  PROVE  /\ Append(q, s) \in Seq(Stream) /\ Distinct(Append(q, s))
         /\ Members(Append(q, s)) = Members(q) \cup {s}
<1> DEFINE r == Append(q, s)
<1>1. /\ r \in Seq(Stream) /\ Len(r) = Len(q) + 1 /\ Len(q) \in Nat /\ r[Len(q) + 1] = s
      /\ \A i \in 1 .. Len(q) : r[i] = q[i]
  OBVIOUS
<1> HIDE DEF r
<1>2. \A i \in 1 .. Len(q) : q[i] # s
  BY DEF Members
<1>3. \A i \in 1 .. Len(r) : i = Len(q) + 1 \/ i \in 1 .. Len(q)
  BY <1>1
<1>4. Distinct(r)
  BY <1>1, <1>2, <1>3 DEF Distinct
<1>5. Members(r) = Members(q) \cup {s}
  <2>1. \A i \in 1 .. Len(q) : i \in 1 .. Len(r)
    BY <1>1
  <2>2. Len(q) + 1 \in 1 .. Len(r)
    BY <1>1
  <2> QED
    BY <1>1, <1>3, <2>1, <2>2 DEF Members
<1> QED
  BY <1>1, <1>4, <1>5 DEF r

LEMMA TailResult ==
  ASSUME NEW q \in Seq(Stream), q # <<>>, Distinct(q)
  PROVE  /\ Tail(q) \in Seq(Stream) /\ Distinct(Tail(q))
         /\ Members(Tail(q)) = Members(q) \ {Head(q)} /\ Head(q) \in Members(q)
<1> DEFINE r == Tail(q)
<1>1. /\ r \in Seq(Stream) /\ Len(r) = Len(q) - 1 /\ Len(q) \in Nat \ {0} /\ Head(q) = q[1]
      /\ \A i \in 1 .. Len(q) - 1 : r[i] = q[i + 1]
  OBVIOUS
<1> HIDE DEF r
<1>2. 1 \in 1 .. Len(q) /\ \A i \in 1 .. Len(r) : i + 1 \in 1 .. Len(q) /\ i + 1 # 1 /\ i \in Int
  BY <1>1
<1>3. \A i \in 1 .. Len(r) : r[i] = q[i + 1]
  BY <1>1
<1>4. Distinct(r)
  BY <1>2, <1>3 DEF Distinct
<1>5. \A i \in 1 .. Len(q) : i = 1 \/ (i - 1 \in 1 .. Len(r) /\ (i - 1) + 1 = i)
  BY <1>1
<1>6. Members(r) = Members(q) \ {q[1]}
  <2>1. \A i \in 1 .. Len(r) : r[i] # q[1]
    BY <1>2, <1>3 DEF Distinct
  <2>2. Members(r) \subseteq Members(q) \ {q[1]}
    BY <1>2, <1>3, <2>1 DEF Members
  <2>3. ASSUME NEW i \in 1 .. Len(q), q[i] # q[1] PROVE q[i] \in Members(r)
    <3>1. i - 1 \in 1 .. Len(r) /\ r[i - 1] = q[(i - 1) + 1]
      BY <1>3, <1>5, <2>3
    <3> QED
      BY <1>5, <2>3, <3>1 DEF Members
  <2> QED
    BY <2>2, <2>3 DEF Members
<1> QED
  BY <1>1, <1>2, <1>4, <1>6 DEF r, Members

LEMMA ReturnKeeps ==
  ASSUME StdioInv, NEW s \in Stream, Return(s)
  PROVE  StdioInv'
<1>1. /\ exec[s] \in {"running", "published"}
      /\ exec' = [exec EXCEPT ![s] = "returned"] /\ results' = Append(results, s)
      /\ UNCHANGED <<conn, negotiated, highWater, phase, credit, pending, output,
                     suppressed, answers, fatal>>
      /\ \/ winner' = [winner EXCEPT ![s] =
                         IF @ \in {"undecided", "committed"} THEN "execution" ELSE @]
         \/ /\ exec[s] = "running" /\ winner' = winner
            /\ winner[s] \in {"cancellation", "transport"} \/ s \in suppressed
  BY DEF Return, ClaimExecution, Aborted
<1>2. Types /\ CreditInv /\ AdmitInv /\ LifeInv /\ FreshInv /\ ResultsInv /\ ConnInv
  BY DEF StdioInv
<1>3. /\ winner' \in [Stream -> Winner] /\ winner[s] \in Winner
      /\ \A t \in Stream \ {s} : winner'[t] = winner[t]
      /\ \/ winner[s] \in {"undecided", "committed"} /\ winner'[s] = "execution"
         \/ winner[s] \notin {"undecided", "committed"} /\ winner'[s] = winner[s]
         \/ exec[s] = "running" /\ s \in suppressed /\ winner'[s] = winner[s]
  BY <1>1, <1>2 DEF Types, Winner
<1>4. /\ exec' \in [Stream -> {"idle", "running", "published", "returned"}]
      /\ exec'[s] = "returned" /\ \A t \in Stream \ {s} : exec'[t] = exec[t]
  BY <1>1, <1>2 DEF Types
<1>5. Types'
  BY <1>1, <1>2, <1>3, <1>4 DEF Types
<1>6. CreditInv' /\ AdmitInv' /\ ConnInv' /\ FreshInv'
  BY <1>1, <1>2 DEF CreditInv, Balanced, Limits, InPhases, Controls, AdmitInv, CanAdmit,
                    ConnInv, FreshInv
<1>7. Fits(phase[s], winner[s], s \in output, exec[s], s \in suppressed, answers[s], Torn)
  BY <1>2 DEF LifeInv
<1>8. phase[s] = "dispatching"
  BY <1>1, <1>2, <1>7 DEF Fits, CreditInv, Balanced, Phase
<1>9. ResultsInv'
  <2>1. Returned(phase, exec') = Returned(phase, exec) \cup {s}
    BY <1>4, <1>8 DEF Returned
  <2>2. s \notin Members(results) /\ results \in Seq(Stream) /\ Distinct(results)
    BY <1>1, <1>2 DEF ResultsInv, Returned
  <2>3. /\ Append(results, s) \in Seq(Stream) /\ Distinct(Append(results, s))
        /\ Members(Append(results, s)) = Members(results) \cup {s}
    BY <2>2, AppendResult
  <2>4. Returned(phase, exec)' = Returned(phase, exec')
    BY <1>1 DEF Returned
  <2>5. /\ results' \in Seq(Stream) /\ Distinct(results')
        /\ Members(results') = Returned(phase, exec')
    BY <1>1, <1>2, <2>1, <2>3 DEF ResultsInv
  <2> QED
    BY <2>4, <2>5 DEF ResultsInv, Distinct, Members
<1>10. LifeInv'
  <2> SUFFICES ASSUME NEW t \in Stream
               PROVE  Fits(phase[t], winner'[t], t \in output, exec'[t], t \in suppressed,
                           answers[t], Torn)
    BY <1>1 DEF LifeInv, Torn
  <2>1. Fits(phase[t], winner[t], t \in output, exec[t], t \in suppressed, answers[t], Torn)
    BY <1>2 DEF LifeInv
  <2>2. CASE t = s
    BY <1>1, <1>3, <1>4, <1>7, <1>8, <2>2 DEF Fits, Winner
  <2>3. CASE t # s
    BY <1>3, <1>4, <2>1, <2>3
  <2> QED
    BY <2>2, <2>3
<1> QED
  BY <1>5, <1>6, <1>9, <1>10 DEF StdioInv

\* The phases after admit: one stream of the queue may have been given credit.
Promoted(ph) ==
  \A t \in Stream : phase'[t] = ph[t] \/ (ph[t] = "queued" /\ phase'[t] = "uploading")

LEMMA AcceptKeeps ==
  ASSUME StdioInv, NEW s \in Stream, AcceptOperation(s)
  PROVE  StdioInv'
<1>1. /\ conn = "open" /\ s > highWater /\ highWater' = s /\ ~OverLimit(s)
      /\ pending' = [count |-> pending.count + 1, bytes |-> pending.bytes + ControlBytes[s]]
      /\ Settle([credit EXCEPT !.queue = Append(@, s)], [phase EXCEPT ![s] = "queued"])
      /\ UNCHANGED <<conn, negotiated, winner, exec, results, output, suppressed,
                     answers, fatal>>
  BY DEF AcceptOperation, dispatchVars
<1>2. Types /\ CreditInv /\ AdmitInv /\ LifeInv /\ FreshInv /\ ResultsInv /\ ConnInv
  BY DEF StdioInv
<1>3. PICK c : c = credit
  OBVIOUS
<1>4. PICK ph : ph = phase
  OBVIOUS
<1>5. /\ Balanced(c, ph) /\ Limits(c) /\ ph \in [Stream -> Phase] /\ ph[s] = "none"
      /\ \A t \in Stream : ph[t] # "none" => t < s
  <2>1. highWater \in Int
    BY <1>2, StreamAssumption DEF Types
  <2>2. \A t \in Stream : ph[t] # "none" => t <= highWater
    BY <1>2, <1>4, <2>1, StreamsAreNumbers DEF FreshInv
  <2> QED
    BY <1>1, <1>2, <1>3, <1>4, <2>1, <2>2, StreamsAreNumbers DEF CreditInv, Balanced, FreshInv
<1>6. PICK d : d = [c EXCEPT !.queue = Append(@, s)]
  OBVIOUS
<1>7. PICK qh : qh = [ph EXCEPT ![s] = "queued"]
  OBVIOUS
<1>8. Balanced(d, qh) /\ Limits(d)
  BY <1>5, <1>6, <1>7, EnqueueKeeps
<1>9. Settle(d, qh)
  BY <1>1, <1>3, <1>4, <1>6, <1>7
<1>10. /\ Balanced(credit', phase') /\ Limits(credit') /\ ~CanAdmit(credit')
       /\ Promoted(qh)
  BY <1>8, <1>9, SettleKeeps DEF Promoted
<1>11. qh[s] = "queued" /\ \A t \in Stream \ {s} : qh[t] = ph[t]
  BY <1>5, <1>7
<1>12. phase'[s] \in {"queued", "uploading"}
  BY <1>10, <1>11 DEF Promoted
<1>13. \A t \in Stream \ {s} : phase'[t] = phase[t]
                               \/ (phase[t] = "queued" /\ phase'[t] = "uploading")
  BY <1>4, <1>10, <1>11 DEF Promoted
<1>14. Types'
  BY <1>1, <1>2, StreamsAreNumbers, StreamAssumption DEF Types
<1>15. CreditInv'
  <2>1. PICK S : S = InPhases(phase, LivePhases)
    OBVIOUS
  <2>2. S \subseteq Stream /\ s \notin S
    BY <1>4, <1>5, <2>1 DEF InPhases, LivePhases
  <2>3. InPhases(phase', LivePhases) = S \cup {s}
    BY <1>12, <1>13, <2>1 DEF InPhases, LivePhases
  <2>4. ControlBytes \in [Stream -> Nat]
    BY StreamAssumption
  <2>5. /\ SumOf(ControlBytes, S \cup {s}) = SumOf(ControlBytes, S) + ControlBytes[s]
        /\ Cardinality(S \cup {s}) = Cardinality(S) + 1
        /\ SumOf(ControlBytes, S) \in Nat /\ Cardinality(S) \in Nat
    BY <2>2, <2>4, SumAdd
  <2>6. pending = [count |-> Cardinality(S), bytes |-> SumOf(ControlBytes, S)]
    BY <1>2, <2>1 DEF CreditInv, Controls
  <2>7. /\ pending' = [count |-> Cardinality(S \cup {s}), bytes |-> SumOf(ControlBytes, S \cup {s})]
        /\ pending'.count = pending.count + 1 /\ pending.count \in Nat
        /\ pending'.bytes = pending.bytes + ControlBytes[s]
    BY <1>1, <2>5, <2>6
  <2>8. pending' = Controls(phase')
    BY <2>3, <2>7 DEF Controls
  <2>9. pending'.count <= MaxActiveStreams /\ pending'.bytes <= MaxPendingControlBytes
    <3>1. /\ ~(pending.count >= MaxActiveStreams)
          /\ ~(pending.bytes + ControlBytes[s] > MaxPendingControlBytes)
      BY <1>1 DEF OverLimit
    <3>2. pending.bytes \in Nat /\ ControlBytes[s] \in Nat
      BY <2>4, <2>5, <2>6
    <3> QED
      BY <2>7, <3>1, <3>2, LimitAssumption
  <2> QED
    BY <1>10, <2>8, <2>9 DEF CreditInv, Balanced, Limits, Controls, InPhases
<1>16. AdmitInv'
  BY <1>10 DEF AdmitInv, CanAdmit
<1>17. LifeInv'
  <2> SUFFICES ASSUME NEW t \in Stream
               PROVE  Fits(phase'[t], winner[t], t \in output, exec[t], t \in suppressed,
                           answers[t], Torn)
    BY <1>1 DEF LifeInv, Torn
  <2>1. Fits(phase[t], winner[t], t \in output, exec[t], t \in suppressed, answers[t], Torn)
    BY <1>2 DEF LifeInv
  <2>2. CASE t = s
    <3>1. phase[s] = "none" /\ answers[s] = <<>>
      BY <1>1, <1>2 DEF FreshInv
    <3> QED
      BY <1>12, <2>1, <2>2, <3>1 DEF Fits
  <2>3. CASE t # s
    BY <1>13, <2>1, <2>3 DEF Fits
  <2> QED
    BY <2>2, <2>3
<1>18. FreshInv'
  <2> SUFFICES ASSUME NEW t \in Stream, t > s PROVE phase'[t] = "none" /\ answers[t] = <<>>
    BY <1>1 DEF FreshInv
  <2>1. t # s /\ t > highWater
    BY <1>1, <1>2, StreamsAreNumbers, StreamAssumption DEF Types
  <2> QED
    BY <1>2, <1>13, <2>1 DEF FreshInv
<1>19. ResultsInv'
  <2>1. Returned(phase', exec') = Returned(phase, exec)
    BY <1>1, <1>4, <1>5, <1>12, <1>13 DEF Returned
  <2> QED
    BY <1>1, <1>2, <2>1 DEF ResultsInv, Returned
<1>20. ConnInv'
  BY <1>1 DEF ConnInv
<1> QED
  BY <1>14, <1>15, <1>16, <1>17, <1>18, <1>19, <1>20 DEF StdioInv

LEMMA SealStepKeeps ==
  ASSUME StdioInv, NEW s \in Stream, Seal(s)
  PROVE  StdioInv'
<1>1. /\ conn = "open" /\ credit.uploader = s /\ exec' = [exec EXCEPT ![s] = "running"]
      /\ Settle([credit EXCEPT !.uploader = NoStream], [phase EXCEPT ![s] = "dispatching"])
      /\ UNCHANGED <<conn, negotiated, highWater, pending, winner, output, results,
                     suppressed, answers, fatal>>
  BY DEF Seal
<1>2. Types /\ CreditInv /\ AdmitInv /\ LifeInv /\ FreshInv /\ ResultsInv /\ ConnInv
  BY DEF StdioInv
<1>3. PICK c : c = credit
  OBVIOUS
<1>4. PICK ph : ph = phase
  OBVIOUS
<1>5. Balanced(c, ph) /\ Limits(c) /\ ph \in [Stream -> Phase] /\ c.uploader = s
  BY <1>1, <1>2, <1>3, <1>4 DEF CreditInv, Balanced
<1>6. PICK d : d = [c EXCEPT !.uploader = NoStream]
  OBVIOUS
<1>7. PICK qh : qh = [ph EXCEPT ![s] = "dispatching"]
  OBVIOUS
<1>8. Balanced(d, qh) /\ Limits(d) /\ ph[s] = "uploading"
  BY <1>5, <1>6, <1>7, SealKeeps
<1>9. Settle(d, qh)
  BY <1>1, <1>3, <1>4, <1>6, <1>7
<1>10. /\ Balanced(credit', phase') /\ Limits(credit') /\ ~CanAdmit(credit')
       /\ Promoted(qh)
  BY <1>8, <1>9, SettleKeeps DEF Promoted
<1>11. qh[s] = "dispatching" /\ \A t \in Stream \ {s} : qh[t] = ph[t]
  BY <1>5, <1>7
<1>12. phase'[s] = "dispatching"
  BY <1>10, <1>11 DEF Promoted
<1>13. \A t \in Stream \ {s} : phase'[t] = phase[t]
                               \/ (phase[t] = "queued" /\ phase'[t] = "uploading")
  BY <1>4, <1>10, <1>11 DEF Promoted
<1>14. /\ exec' \in [Stream -> {"idle", "running", "published", "returned"}]
       /\ exec'[s] = "running" /\ \A t \in Stream \ {s} : exec'[t] = exec[t]
  BY <1>1, <1>2 DEF Types
<1>15. Types'
  BY <1>1, <1>2, <1>14 DEF Types
<1>16. CreditInv'
  <2>1. InPhases(phase', LivePhases) = InPhases(phase, LivePhases)
    BY <1>4, <1>8, <1>12, <1>13 DEF InPhases, LivePhases
  <2>2. Controls(phase') = Controls(phase)
    BY <2>1 DEF Controls
  <2> QED
    BY <1>1, <1>2, <1>10, <2>2 DEF CreditInv, Balanced, Limits, Controls, InPhases
<1>17. AdmitInv'
  BY <1>10 DEF AdmitInv, CanAdmit
<1>18. LifeInv'
  <2> SUFFICES ASSUME NEW t \in Stream
               PROVE  Fits(phase'[t], winner[t], t \in output, exec'[t], t \in suppressed,
                           answers[t], Torn)
    BY <1>1 DEF LifeInv, Torn
  <2>1. Fits(phase[t], winner[t], t \in output, exec[t], t \in suppressed, answers[t], Torn)
    BY <1>2 DEF LifeInv
  <2>2. CASE t = s
    BY <1>4, <1>8, <1>12, <1>14, <2>1, <2>2 DEF Fits
  <2>3. CASE t # s
    BY <1>13, <1>14, <2>1, <2>3 DEF Fits
  <2> QED
    BY <2>2, <2>3
<1>19. FreshInv'
  <2> SUFFICES ASSUME NEW t \in Stream, t > highWater
               PROVE phase'[t] = "none" /\ answers[t] = <<>>
    BY <1>1 DEF FreshInv
  <2>1. phase[t] = "none" /\ t # s
    BY <1>2, <1>4, <1>8 DEF FreshInv
  <2> QED
    BY <1>2, <1>13, <2>1 DEF FreshInv
<1>20. ResultsInv'
  <2>1. exec[s] = "idle"
    BY <1>2, <1>4, <1>8 DEF LifeInv, Fits
  <2>2. Returned(phase', exec') = Returned(phase, exec)
    BY <1>12, <1>13, <1>14, <2>1 DEF Returned
  <2> QED
    BY <1>1, <1>2, <2>2 DEF ResultsInv, Returned
<1>21. ConnInv'
  BY <1>1 DEF ConnInv
<1> QED
  BY <1>15, <1>16, <1>17, <1>18, <1>19, <1>20, <1>21 DEF StdioInv

LEMMA ControlsType ==
  ASSUME NEW ph
  PROVE  Controls(ph).count \in Nat /\ Controls(ph).bytes \in Nat
<1>1. PICK T : T = InPhases(ph, LivePhases)
  OBVIOUS
<1>2. T \subseteq Stream /\ ControlBytes \in [Stream -> Nat]
  BY <1>1, StreamAssumption DEF InPhases
<1>3. Cardinality(T) \in Nat /\ SumOf(ControlBytes, T) \in Nat
  BY <1>2, StreamFinite, ItemsFinite
<1> QED
  BY <1>1, <1>3 DEF Controls

LEMMA AppendEmpty ==
  ASSUME NEW b
  PROVE  Append(<<>>, b) = <<b>>
OBVIOUS

LEMMA SingleTyped ==
  ASSUME NEW A, NEW a \in A
  PROVE  <<a>> \in Seq(A)
OBVIOUS

LEMMA EndKeeps ==
  ASSUME StdioInv, NEW s \in Stream, NEW kind \in {"cancellation", "transport"},
         conn = "open", Live(s), End(s, kind),
         UNCHANGED <<conn, negotiated, highWater, dispatchVars, suppressed, fatal>>
  PROVE  StdioInv'
<1>1. /\ winner[s] = "undecided" /\ winner' = [winner EXCEPT ![s] = kind]
      /\ UNCHANGED <<conn, negotiated, highWater, exec, results, output, suppressed, fatal>>
  BY DEF End, Claim, Undecided, dispatchVars
<1>2. Types /\ CreditInv /\ AdmitInv /\ LifeInv /\ FreshInv /\ ResultsInv /\ ConnInv
  BY DEF StdioInv
<1>3. /\ winner' \in [Stream -> Winner] /\ winner'[s] = kind
      /\ \A t \in Stream \ {s} : winner'[t] = winner[t]
  BY <1>1, <1>2 DEF Types, Winner
<1>4. Fits(phase[s], winner[s], s \in output, exec[s], s \in suppressed, answers[s], Torn)
  BY <1>2 DEF LifeInv
<1>5. CASE phase[s] = "dispatching"
  <2>1. UNCHANGED <<credit, phase, pending, answers>>
    BY <1>5 DEF End
  <2>2. Types'
    BY <1>1, <1>2, <1>3, <2>1 DEF Types
  <2>3. CreditInv' /\ AdmitInv' /\ ConnInv' /\ FreshInv' /\ ResultsInv'
    BY <1>1, <1>2, <2>1 DEF CreditInv, Balanced, Limits, InPhases, Controls, AdmitInv,
                            CanAdmit, ConnInv, FreshInv, ResultsInv, Returned
  <2>4. LifeInv'
    <3> SUFFICES ASSUME NEW t \in Stream
                 PROVE  Fits(phase[t], winner'[t], t \in output, exec[t], t \in suppressed,
                             answers[t], Torn)
      BY <1>1, <2>1 DEF LifeInv, Torn
    <3>1. Fits(phase[t], winner[t], t \in output, exec[t], t \in suppressed, answers[t], Torn)
      BY <1>2 DEF LifeInv
    <3>2. CASE t = s
      BY <1>1, <1>3, <1>4, <1>5, <3>2 DEF Fits
    <3>3. CASE t # s
      BY <1>3, <3>1, <3>3
    <3> QED
      BY <3>2, <3>3
  <2> QED
    BY <2>2, <2>3, <2>4 DEF StdioInv
<1>6. CASE phase[s] # "dispatching"
  <2>1. /\ Settle(Freed(credit, s), [phase EXCEPT ![s] = "terminal"]) /\ Release({s})
        /\ answers' = [answers EXCEPT ![s] = Append(@, Bundle(kind, FALSE))]
    BY <1>6 DEF End, Write
  <2>2. /\ phase[s] \in Waiting /\ s \notin output /\ answers[s] = <<>> /\ exec[s] = "idle"
        /\ s \notin suppressed
    BY <1>4, <1>6 DEF Fits, Live, Waiting
  <2>3. PICK c : c = credit
    OBVIOUS
  <2>4. Balanced(c, phase) /\ Limits(c) /\ phase \in [Stream -> Phase]
    BY <1>2, <2>3 DEF CreditInv, Balanced
  <2>5. /\ Balanced(Freed(c, s), [phase EXCEPT ![s] = "terminal"]) /\ Limits(Freed(c, s))
    BY <2>4, FreedKeeps
  <2>6. PICK d : d = Freed(c, s)
    OBVIOUS
  <2>7. PICK th : th = [phase EXCEPT ![s] = "terminal"]
    OBVIOUS
  <2>8. Balanced(d, th) /\ Limits(d) /\ Settle(d, th)
    BY <2>1, <2>3, <2>5, <2>6, <2>7
  <2>9. /\ Balanced(credit', phase') /\ Limits(credit') /\ ~CanAdmit(credit')
        /\ Promoted(th)
    BY <2>8, SettleKeeps DEF Promoted
  <2>10. th[s] = "terminal" /\ \A t \in Stream \ {s} : th[t] = phase[t]
    BY <2>4, <2>7
  <2>11. /\ phase'[s] = "terminal"
         /\ \A t \in Stream \ {s} : phase'[t] = phase[t]
                                    \/ (phase[t] = "queued" /\ phase'[t] = "uploading")
    BY <2>9, <2>10 DEF Promoted
  <2>12. /\ answers' \in [Stream -> Seq(Answer)] /\ answers'[s] = <<Bundle(kind, FALSE)>>
         /\ \A t \in Stream \ {s} : answers'[t] = answers[t]
    <3>1. Bundle(kind, FALSE) \in Answer
      BY DEF Bundle, Answer
    <3>2. PICK b : b = Bundle(kind, FALSE)
      OBVIOUS
    <3>3. answers \in [Stream -> Seq(Answer)] /\ <<b>> \in Seq(Answer)
      BY <1>2, <3>1, <3>2, SingleTyped DEF Types
    <3>4. answers' = [answers EXCEPT ![s] = <<b>>]
      BY <2>1, <2>2, <3>2, <3>3, AppendEmpty
    <3> QED
      BY <3>2, <3>3, <3>4
  <2>13. Types'
    BY <1>1, <1>2, <1>3, <2>12 DEF Types
  <2>14. CreditInv'
    <3>1. PICK ph : ph = phase
      OBVIOUS
    <3>2. PICK moved : moved = phase'
      OBVIOUS
    <3>3. /\ {s} \subseteq InPhases(ph, LivePhases)
          /\ InPhases(moved, LivePhases) = InPhases(ph, LivePhases) \ {s}
      BY <2>2, <2>11, <3>1, <3>2 DEF InPhases, LivePhases, Waiting
    <3>4. pending = Controls(ph)
      BY <1>2, <3>1 DEF CreditInv
    <3>5. pending' = Controls(moved) /\ pending'.count <= pending.count /\ pending'.bytes <= pending.bytes
      BY <2>1, <3>3, <3>4, ReleaseKeeps
    <3>6. pending'.count \in Nat /\ pending'.bytes \in Nat /\ pending.count \in Nat /\ pending.bytes \in Nat
      BY <3>4, <3>5, ControlsType
    <3>7. pending'.count <= MaxActiveStreams /\ pending'.bytes <= MaxPendingControlBytes
      BY <1>2, <3>5, <3>6, LimitAssumption DEF CreditInv
    <3> QED
      BY <2>9, <3>2, <3>5, <3>7 DEF CreditInv, Balanced, Limits, Controls, InPhases
  <2>15. AdmitInv'
    BY <2>9 DEF AdmitInv, CanAdmit
  <2>16. LifeInv'
    <3> SUFFICES ASSUME NEW t \in Stream
                 PROVE  Fits(phase'[t], winner'[t], t \in output, exec[t], t \in suppressed,
                             answers'[t], Torn)
      BY <1>1 DEF LifeInv, Torn
    <3>1. Fits(phase[t], winner[t], t \in output, exec[t], t \in suppressed, answers[t], Torn)
      BY <1>2 DEF LifeInv
    <3>2. CASE t = s
      <4>1. Bundle(kind, s \in output) = Bundle(kind, FALSE)
        <5>1. (s \in output) = FALSE
          BY <2>2
        <5> QED
          BY <5>1
      <4> QED
        BY <1>3, <2>2, <2>11, <2>12, <3>2, <4>1 DEF Fits
    <3>3. CASE t # s
      BY <1>3, <2>11, <2>12, <3>1, <3>3 DEF Fits
    <3> QED
      BY <3>2, <3>3
  <2>17. FreshInv'
    <3> SUFFICES ASSUME NEW t \in Stream, t > highWater
                 PROVE  phase'[t] = "none" /\ answers'[t] = <<>>
      BY <1>1 DEF FreshInv
    <3>1. phase[t] = "none" /\ t # s
      BY <1>2, <2>2 DEF FreshInv, Waiting
    <3> QED
      BY <1>2, <2>11, <2>12, <3>1 DEF FreshInv
  <2>18. ResultsInv'
    <3>1. Returned(phase', exec') = Returned(phase, exec)
      BY <1>1, <2>2, <2>11 DEF Returned, Waiting
    <3> QED
      BY <1>1, <1>2, <3>1 DEF ResultsInv, Returned
  <2>19. ConnInv'
    BY <1>1 DEF ConnInv
  <2> QED
    BY <2>13, <2>14, <2>15, <2>16, <2>17, <2>18, <2>19 DEF StdioInv
<1> QED
  BY <1>5, <1>6

LEMMA FinishKeeps ==
  ASSUME StdioInv, FinishDispatch
  PROVE  StdioInv'
<1>1. PICK s : s = Head(results)
  OBVIOUS
<1>2. Types /\ CreditInv /\ AdmitInv /\ LifeInv /\ FreshInv /\ ResultsInv /\ ConnInv
  BY DEF StdioInv
<1>3. /\ results # <<>> /\ results' = Tail(results) /\ results \in Seq(Stream)
      /\ Distinct(results) /\ Members(results) = Returned(phase, exec)
  BY <1>2 DEF FinishDispatch, ResultsInv
<1>4. /\ Tail(results) \in Seq(Stream) /\ Distinct(Tail(results))
      /\ Members(Tail(results)) = Members(results) \ {s} /\ s \in Members(results)
  BY <1>1, <1>3, TailResult
<1>5. s \in Stream /\ phase[s] = "dispatching" /\ exec[s] = "returned"
  BY <1>3, <1>4 DEF Returned
<1>6. Fits(phase[s], winner[s], s \in output, exec[s], s \in suppressed, answers[s], Torn)
  BY <1>2, <1>5 DEF LifeInv
<1>7. /\ s \in suppressed \/ winner[s] \in {"execution", "cancellation", "transport"}
      /\ answers[s] = <<>>
  BY <1>5, <1>6 DEF Fits
<1>8. /\ conn \in {"open", "draining", "aborting"} /\ conn' = conn /\ Release({s})
      /\ UNCHANGED <<negotiated, highWater, winner, output, exec, suppressed, fatal>>
      /\ IF s \notin suppressed
         THEN answers' = [answers EXCEPT ![s] =
                            Append(@, Bundle(winner[s], winner[s] = "execution" /\ s \in output))]
         ELSE answers' = answers
      /\ IF conn = "open" THEN Settle(Freed(credit, s), [phase EXCEPT ![s] = "terminal"])
         ELSE credit' = Freed(credit, s) /\ phase' = [phase EXCEPT ![s] = "terminal"]
  BY <1>1, <1>7 DEF FinishDispatch, Write
<1>9. PICK c : c = credit
  OBVIOUS
<1>10. Balanced(c, phase) /\ Limits(c) /\ phase \in [Stream -> Phase]
  BY <1>2, <1>9 DEF CreditInv, Balanced
<1>11. Balanced(Freed(c, s), [phase EXCEPT ![s] = "terminal"]) /\ Limits(Freed(c, s))
  BY <1>5, <1>10, FreedKeeps DEF Live
<1>12. PICK d : d = Freed(c, s)
  OBVIOUS
<1>13. PICK th : th = [phase EXCEPT ![s] = "terminal"]
  OBVIOUS
<1>14. /\ Balanced(d, th) /\ Limits(d)
       /\ IF conn = "open" THEN Settle(d, th) ELSE credit' = d /\ phase' = th
  BY <1>8, <1>9, <1>11, <1>12, <1>13
<1>15. /\ Balanced(credit', phase') /\ Limits(credit') /\ (conn = "open" => ~CanAdmit(credit'))
       /\ Promoted(th) /\ (conn # "open" => phase' = th)
  <2>1. CASE conn = "open"
    BY <1>14, <2>1, SettleKeeps DEF Promoted
  <2>2. CASE conn # "open"
    BY <1>14, <2>2 DEF Promoted
  <2> QED
    BY <2>1, <2>2
<1>16. th[s] = "terminal" /\ \A t \in Stream \ {s} : th[t] = phase[t]
  BY <1>5, <1>10, <1>13
<1>17. /\ phase'[s] = "terminal"
       /\ \A t \in Stream \ {s} : phase'[t] = phase[t]
                                  \/ (phase[t] = "queued" /\ phase'[t] = "uploading")
       /\ conn # "open" => \A t \in Stream \ {s} : phase'[t] = phase[t]
  BY <1>5, <1>15, <1>16 DEF Promoted
<1>18. PICK out : out = (winner[s] = "execution" /\ s \in output)
  OBVIOUS
<1>19. PICK b : b = Bundle(winner[s], out)
  OBVIOUS
<1>20. /\ answers' \in [Stream -> Seq(Answer)]
       /\ \A t \in Stream \ {s} : answers'[t] = answers[t]
       /\ s \in suppressed => answers'[s] = <<>>
       /\ s \notin suppressed => answers'[s] = <<b>>
  <2>1. answers \in [Stream -> Seq(Answer)]
    BY <1>2 DEF Types
  <2>2. CASE s \in suppressed
    BY <1>7, <1>8, <2>1, <2>2
  <2>3. CASE s \notin suppressed
    <3>1. b \in Answer
      <4>1. winner[s] \in {"execution", "cancellation", "transport"} /\ out \in BOOLEAN
        BY <1>7, <1>18, <2>3
      <4> QED
        BY <1>19, <4>1 DEF Bundle, Answer
    <3>2. answers' = [answers EXCEPT ![s] = <<b>>]
      BY <1>7, <1>8, <1>18, <1>19, <2>3, AppendEmpty
    <3>3. <<b>> \in Seq(Answer)
      BY <3>1, SingleTyped
    <3> QED
      BY <1>5, <2>1, <2>3, <3>2, <3>3
  <2> QED
    BY <2>2, <2>3
<1>21. Types'
  BY <1>2, <1>8, <1>20 DEF Types
<1>22. CreditInv'
  <2>1. PICK ph : ph = phase
    OBVIOUS
  <2>2. PICK moved : moved = phase'
    OBVIOUS
  <2>3. /\ {s} \subseteq InPhases(ph, LivePhases)
        /\ InPhases(moved, LivePhases) = InPhases(ph, LivePhases) \ {s}
    BY <1>5, <1>17, <2>1, <2>2 DEF InPhases, LivePhases
  <2>4. pending = Controls(ph)
    BY <1>2, <2>1 DEF CreditInv
  <2>5. pending' = Controls(moved) /\ pending'.count <= pending.count /\ pending'.bytes <= pending.bytes
    BY <1>8, <2>3, <2>4, ReleaseKeeps
  <2>6. pending'.count \in Nat /\ pending'.bytes \in Nat /\ pending.count \in Nat /\ pending.bytes \in Nat
    BY <2>4, <2>5, ControlsType
  <2>7. pending'.count <= MaxActiveStreams /\ pending'.bytes <= MaxPendingControlBytes
    BY <1>2, <2>5, <2>6, LimitAssumption DEF CreditInv
  <2> QED
    BY <1>15, <2>2, <2>5, <2>7 DEF CreditInv, Balanced, Limits, Controls, InPhases
<1>23. AdmitInv'
  BY <1>8, <1>15 DEF AdmitInv, CanAdmit
<1>24. LifeInv'
  <2> SUFFICES ASSUME NEW t \in Stream
               PROVE  Fits(phase'[t], winner[t], t \in output, exec[t], t \in suppressed,
                           answers'[t], Torn)
    BY <1>8 DEF LifeInv, Torn
  <2>1. Fits(phase[t], winner[t], t \in output, exec[t], t \in suppressed, answers[t], Torn)
    BY <1>2 DEF LifeInv
  <2>2. CASE t = s
    <3>1. s \notin suppressed => Bundle(winner[s], s \in output) = b
      <4> SUFFICES ASSUME s \notin suppressed PROVE Bundle(winner[s], s \in output) = b
        OBVIOUS
      <4>1. s \in output => winner[s] \in {"committed", "execution"}
        BY <1>6 DEF Fits
      <4>2. winner[s] # "committed"
        BY <1>7
      <4>3. (s \in output) <=> (winner[s] = "execution" /\ s \in output)
        BY <4>1, <4>2
      <4>4. (s \in output) = (winner[s] = "execution" /\ s \in output)
        BY <4>3
      <4> QED
        BY <1>18, <1>19, <4>4
    <3> QED
      BY <1>5, <1>6, <1>17, <1>20, <2>2, <3>1 DEF Fits
  <2>3. CASE t # s
    BY <1>17, <1>20, <2>1, <2>3 DEF Fits
  <2> QED
    BY <2>2, <2>3
<1>25. FreshInv'
  <2> SUFFICES ASSUME NEW t \in Stream, t > highWater
               PROVE  phase'[t] = "none" /\ answers'[t] = <<>>
    BY <1>8 DEF FreshInv
  <2>1. phase[t] = "none" /\ t # s
    BY <1>2, <1>5 DEF FreshInv
  <2> QED
    BY <1>2, <1>17, <1>20, <2>1 DEF FreshInv
<1>26. ResultsInv'
  <2>1. Returned(phase', exec') = Returned(phase, exec) \ {s}
    BY <1>8, <1>17 DEF Returned
  <2>2. /\ results' \in Seq(Stream) /\ Distinct(results')
        /\ Members(results') = Returned(phase', exec')
    BY <1>3, <1>4, <2>1
  <2> QED
    BY <2>2 DEF ResultsInv, Distinct, Members, Returned
<1>27. ConnInv'
  <2>1. CASE conn = "open"
    BY <1>8, <2>1 DEF ConnInv
  <2>2. CASE conn # "open"
    <3>1. InPhases(phase, Waiting) = {}
      BY <1>2, <1>8, <2>2 DEF ConnInv
    <3>2. InPhases(phase', Waiting) = {}
      BY <1>17, <2>2, <3>1 DEF InPhases, Waiting
    <3> QED
      BY <1>8, <3>2 DEF ConnInv, InPhases
  <2> QED
    BY <2>1, <2>2
<1> QED
  BY <1>21, <1>22, <1>23, <1>24, <1>25, <1>26, <1>27 DEF StdioInv

\* The waiting streams S are cancelled together; said is what has been written.
Drops(S, said) ==
  /\ conn' = IF S = Unsealed THEN "draining" ELSE "failed"
  /\ winner' = [s \in Stream |-> IF s \in S THEN "cancellation" ELSE winner[s]]
  /\ phase' = [s \in Stream |-> IF s \in S THEN "terminal" ELSE phase[s]]
  /\ answers' = [s \in Stream |->
       IF s \in S THEN Append(said[s], Bundle("cancellation", FALSE)) ELSE said[s]]
  /\ Release(S)
  /\ credit' = Dropped(credit, S, Without(credit.queue, S))

LEMMA UnsealedWait == Unsealed = InPhases(phase, Waiting)
BY DEF Unsealed, Streams, Live, InPhases, Waiting

LEMMA DropsKeep ==
  ASSUME StdioInv, conn = "open", NEW S, S \subseteq Unsealed, NEW said, Drops(S, said),
         said \in [Stream -> Seq(Answer)],
         \A t \in Stream : phase[t] # "none" => said[t] = answers[t],
         \A t \in Stream : t > highWater' => said[t] = <<>>,
         highWater' \in 0 .. MaxStream, highWater' >= highWater, negotiated' \in BOOLEAN,
         UNCHANGED <<exec, results, output, suppressed, fatal>>
  PROVE  StdioInv'
<1>1. Types /\ CreditInv /\ AdmitInv /\ LifeInv /\ FreshInv /\ ResultsInv /\ ConnInv
  BY DEF StdioInv
<1>2. conn' \in {"draining", "failed"} /\ (conn' = "draining" => S = Unsealed)
  BY DEF Drops
<1>3. S \subseteq InPhases(phase, Waiting)
  BY UnsealedWait
<1>4. /\ \A t \in S : phase'[t] = "terminal" /\ winner'[t] = "cancellation"
      /\ \A t \in Stream \ S : phase'[t] = phase[t] /\ winner'[t] = winner[t]
      /\ winner' \in [Stream -> Winner]
  BY <1>1, <1>3 DEF Drops, Types, Winner, InPhases
<1>5. \A t \in S : t \in Stream /\ phase[t] \in Waiting
  BY <1>3 DEF InPhases
<1>6. /\ answers' \in [Stream -> Seq(Answer)]
      /\ \A t \in S : answers'[t] = <<Bundle("cancellation", FALSE)>>
      /\ \A t \in Stream \ S : answers'[t] = said[t]
  <2>1. PICK b : b = Bundle("cancellation", FALSE)
    OBVIOUS
  <2>2. b \in Answer
    BY <2>1 DEF Bundle, Answer
  <2>3. answers' = [s \in Stream |-> IF s \in S THEN Append(said[s], b) ELSE said[s]]
    BY <2>1 DEF Drops
  <2>4. \A t \in S : said[t] = <<>>
    BY <1>1, <1>5 DEF LifeInv, Fits, Waiting
  <2>5. <<b>> \in Seq(Answer) /\ Append(<<>>, b) = <<b>>
    BY <2>2, SingleTyped, AppendEmpty
  <2>6. /\ \A t \in S : answers'[t] = <<b>>
        /\ \A t \in Stream \ S : answers'[t] = said[t]
    BY <1>5, <2>3, <2>4, <2>5
  <2>7. ASSUME NEW t \in Stream
        PROVE (IF t \in S THEN Append(said[t], b) ELSE said[t]) \in Seq(Answer)
    BY <2>4, <2>5
  <2>8. answers' \in [Stream -> Seq(Answer)]
    BY <2>3, <2>7
  <2> QED
    BY <2>1, <2>6, <2>8
<1>7. Types'
  BY <1>1, <1>2, <1>4, <1>6 DEF Types, Conn
<1>8. CreditInv'
  <2>1. PICK c : c = credit
    OBVIOUS
  <2>2. PICK ph : ph = phase
    OBVIOUS
  <2>3. /\ Balanced(c, ph) /\ Limits(c) /\ S \subseteq InPhases(ph, Waiting)
        /\ pending = Controls(ph)
    BY <1>1, <1>3, <2>1, <2>2 DEF CreditInv
  <2>4. PICK q : q = Without(c.queue, S)
    OBVIOUS
  <2>5. q \in Seq(Stream) /\ Increasing(q) /\ Members(q) = Members(c.queue) \ S
    BY <2>3, <2>4, WithoutQueue DEF Balanced, CreditType
  <2>6. PICK moved : moved = [s \in Stream |-> IF s \in S THEN "terminal" ELSE ph[s]]
    OBVIOUS
  <2>7. Balanced(Dropped(c, S, q), moved) /\ Limits(Dropped(c, S, q))
    <3>1. PICK r \in Seq(Stream) : r = q
      BY <2>5
    <3>2. /\ Balanced(c, ph) /\ Limits(c) /\ S \subseteq InPhases(ph, Waiting)
          /\ Increasing(r) /\ Members(r) = Members(c.queue) \ S
      BY <2>3, <2>5, <3>1
    <3>3. /\ Balanced(Dropped(c, S, r), [s \in Stream |-> IF s \in S THEN "terminal" ELSE ph[s]])
          /\ Limits(Dropped(c, S, r))
      BY ONLY <3>2, DroppedKeeps, r \in Seq(Stream)
    <3> QED
      BY <2>6, <3>1, <3>3
  <2>8. credit' = Dropped(c, S, q) /\ phase' = moved
    BY <2>1, <2>2, <2>4, <2>6 DEF Drops
  <2>9. PICK d : d = Dropped(c, S, q)
    OBVIOUS
  <2>10. /\ S \subseteq InPhases(ph, LivePhases)
         /\ InPhases(moved, LivePhases) = InPhases(ph, LivePhases) \ S
    BY <1>4, <1>5, <2>2, <2>8 DEF InPhases, LivePhases, Waiting
  <2>11. pending' = Controls(moved) /\ pending'.count <= pending.count /\ pending'.bytes <= pending.bytes
    BY <2>3, <2>10, ReleaseKeeps DEF Drops
  <2>12. pending'.count \in Nat /\ pending'.bytes \in Nat /\ pending.count \in Nat /\ pending.bytes \in Nat
    BY <2>3, <2>11, ControlsType
  <2>13. pending'.count <= MaxActiveStreams /\ pending'.bytes <= MaxPendingControlBytes
    BY <1>1, <2>11, <2>12, LimitAssumption DEF CreditInv
  <2>14. Balanced(d, moved) /\ Limits(d) /\ credit' = d
    BY <2>7, <2>8, <2>9
  <2> QED
    BY <2>8, <2>11, <2>13, <2>14 DEF CreditInv, Balanced, Limits, Controls, InPhases
<1>9. AdmitInv'
  BY <1>2 DEF AdmitInv
<1>10. LifeInv'
  <2> SUFFICES ASSUME NEW t \in Stream
               PROVE  Fits(phase'[t], winner'[t], t \in output, exec[t], t \in suppressed,
                           answers'[t], Torn')
    BY DEF LifeInv
  <2>1. Fits(phase[t], winner[t], t \in output, exec[t], t \in suppressed, answers[t], Torn)
    BY <1>1 DEF LifeInv
  <2>2. Torn' \in BOOLEAN /\ ~Torn
    BY DEF Torn
  <2>3. CASE t \in S
    <3>1. /\ t \notin output /\ exec[t] = "idle" /\ t \notin suppressed
      BY <1>5, <2>1, <2>3 DEF Fits, Waiting
    <3>2. (t \in output) = FALSE
      BY <3>1
    <3>3. Bundle("cancellation", t \in output) = Bundle("cancellation", FALSE)
      BY <3>2
    <3> QED
      BY <1>4, <1>6, <2>2, <2>3, <3>1, <3>3 DEF Fits
  <2>4. CASE t \notin S
    <3>1. phase'[t] = phase[t] /\ winner'[t] = winner[t] /\ answers'[t] = said[t]
      BY <1>4, <1>6, <2>4
    <3>2. phase[t] # "none" => answers'[t] = answers[t]
      BY <3>1
    <3> QED
      BY <2>1, <2>2, <3>1, <3>2 DEF Fits
  <2> QED
    BY <2>3, <2>4
<1>11. FreshInv'
  <2> SUFFICES ASSUME NEW t \in Stream, t > highWater'
               PROVE  phase'[t] = "none" /\ answers'[t] = <<>>
    BY DEF FreshInv
  <2>1. t > highWater
    BY <1>1, StreamsAreNumbers, StreamAssumption DEF Types
  <2>2. phase[t] = "none" /\ said[t] = <<>> /\ t \notin S
    BY <1>1, <1>5, <2>1 DEF FreshInv, Waiting
  <2> QED
    BY <1>4, <1>6, <2>2
<1>12. ResultsInv'
  <2>1. Returned(phase', exec') = Returned(phase, exec)
    BY <1>4, <1>5 DEF Returned, Waiting
  <2> QED
    BY <1>1, <2>1 DEF ResultsInv, Returned
<1>13. ConnInv'
  <2>1. ASSUME conn' = "draining" PROVE InPhases(phase', Waiting) = {}
    <3>1. S = InPhases(phase, Waiting)
      BY <1>2, <2>1, UnsealedWait
    <3>2. \A t \in Stream : t \in S <=> phase[t] \in Waiting
      BY <3>1 DEF InPhases
    <3> QED
      BY <1>4, <3>2 DEF InPhases, Waiting
  <2> QED
    BY <1>2, <2>1 DEF ConnInv, InPhases
<1> QED
  BY <1>7, <1>8, <1>9, <1>10, <1>11, <1>12, <1>13 DEF StdioInv

LEMMA DrainDrops ==
  ASSUME NEW isNegotiated, NEW said, DrainFrom(isNegotiated, said)
  PROVE  \E S : S \subseteq Unsealed /\ Drops(S, said)
BY DEF DrainFrom, Drops, Dropped

LEMMA CloseKeeps ==
  ASSUME StdioInv, Close
  PROVE  StdioInv'
<1>1. PICK said : said = answers
  OBVIOUS
<1>2. /\ conn = "open" /\ DrainFrom(TRUE, said)
      /\ UNCHANGED <<negotiated, highWater, exec, results, output, suppressed, fatal>>
  BY <1>1 DEF Close, DrainFrom, dispatchVars
<1>3. PICK S : S \subseteq Unsealed /\ Drops(S, said)
  BY <1>2, DrainDrops
<1>4. /\ highWater' \in 0 .. MaxStream /\ highWater' >= highWater /\ negotiated' \in BOOLEAN
      /\ said \in [Stream -> Seq(Answer)]
  BY <1>1, <1>2, StreamAssumption DEF StdioInv, Types
<1>5. \A t \in Stream : t > highWater' => said[t] = <<>>
  BY <1>1, <1>2 DEF StdioInv, FreshInv
<1> QED
  BY <1>1, <1>2, <1>3, <1>4, <1>5, DropsKeep

LEMMA SecondHandshakeKeeps ==
  ASSUME StdioInv, NEW s \in Stream, SecondHandshake(s)
  PROVE  StdioInv'
<1>1. PICK said : said = [answers EXCEPT ![s] = Append(@, Bundle("terminal", FALSE))]
  OBVIOUS
<1>2. /\ conn = "open" /\ s > highWater /\ highWater' = s /\ negotiated' = FALSE
      /\ DrainFrom(FALSE, said)
      /\ UNCHANGED <<exec, results, output, suppressed, fatal>>
  <2>1. /\ conn = "open" /\ s > highWater /\ highWater' = s /\ negotiated' = FALSE
        /\ DrainFrom(FALSE, [answers EXCEPT ![s] = Append(@, Bundle("terminal", FALSE))])
        /\ UNCHANGED <<exec, results, output, suppressed, fatal>>
    BY DEF SecondHandshake, dispatchVars
  <2>2. DrainFrom(FALSE, said)
    BY <1>1, <2>1
  <2> QED
    BY <2>1, <2>2
<1>3. PICK S : S \subseteq Unsealed /\ Drops(S, said)
  BY <1>2, DrainDrops
<1>4. highWater \in Int /\ answers \in [Stream -> Seq(Answer)] /\ phase[s] = "none"
  <2>1. Types /\ FreshInv
    BY DEF StdioInv
  <2> QED
    BY <1>2, <2>1, StreamsAreNumbers, StreamAssumption DEF Types, FreshInv
<1>5. highWater' \in 0 .. MaxStream /\ highWater' >= highWater /\ negotiated' \in BOOLEAN
  <2>1. s \in Int /\ s > 0 /\ s <= MaxStream /\ MaxStream \in Int
    BY StreamsAreNumbers, StreamAssumption
  <2>2. s \in 0 .. MaxStream /\ s >= highWater
    BY <1>2, <1>4, <2>1
  <2> QED
    BY <1>2, <2>2
<1>6. /\ said \in [Stream -> Seq(Answer)]
      /\ \A t \in Stream \ {s} : said[t] = answers[t]
  <2>1. Bundle("terminal", FALSE) \in Answer /\ answers[s] \in Seq(Answer)
    BY <1>4 DEF Bundle, Answer
  <2>2. Append(answers[s], Bundle("terminal", FALSE)) \in Seq(Answer)
    BY <2>1, AppendTyped
  <2> QED
    BY <1>1, <1>4, <2>2
<1>7. \A t \in Stream : phase[t] # "none" => said[t] = answers[t]
  BY <1>4, <1>6
<1>8. \A t \in Stream : t > highWater' => said[t] = <<>>
  <2> SUFFICES ASSUME NEW t \in Stream, t > s PROVE said[t] = <<>>
    BY <1>2
  <2>1. t # s /\ t > highWater
    BY <1>2, <1>4, StreamsAreNumbers
  <2> QED
    BY <1>6, <2>1 DEF StdioInv, FreshInv
<1> QED
  BY <1>2, <1>3, <1>5, <1>6, <1>7, <1>8, DropsKeep

LEMMA AbortKeeps ==
  ASSUME StdioInv, conn = "open", AbortAll, conn' \in {"aborting", "failed"},
         fatal' \in 0 .. MaxFatal,
         UNCHANGED <<negotiated, highWater, winner, exec, results, output, answers>>
  PROVE  StdioInv'
<1>1. Types /\ CreditInv /\ AdmitInv /\ LifeInv /\ FreshInv /\ ResultsInv /\ ConnInv
  BY DEF StdioInv
<1>2. PICK S : S = Unsealed
  OBVIOUS
<1>3. \A t \in Stream : t \in S <=> phase[t] \in Waiting
  BY <1>2, UnsealedWait DEF InPhases
<1>4. S \subseteq Stream
  BY <1>2 DEF Unsealed, Streams
<1>5. /\ suppressed' = suppressed \cup Streams /\ Release(S)
      /\ phase' = [s \in Stream |-> IF s \in S THEN "terminal" ELSE phase[s]]
  BY <1>2 DEF AbortAll
<1>6. /\ \A t \in S : phase'[t] = "terminal"
      /\ \A t \in Stream \ S : phase'[t] = phase[t]
  BY <1>4, <1>5
<1>7. /\ suppressed' \subseteq Stream
      /\ \A t \in Stream : t \in suppressed' <=> t \in suppressed \/ phase[t] \in LivePhases
  BY <1>1, <1>5 DEF Types, Streams, Live, LivePhases
<1>8. Types'
  BY <1>1, <1>7 DEF Types, Conn
<1>9. CreditInv'
  <2>1. PICK c : c = credit
    OBVIOUS
  <2>2. PICK ph : ph = phase
    OBVIOUS
  <2>3. /\ Balanced(c, ph) /\ Limits(c) /\ S \subseteq InPhases(ph, Waiting)
        /\ pending = Controls(ph)
    BY <1>1, <1>3, <1>4, <2>1, <2>2 DEF CreditInv, InPhases
  <2>4. PICK q : q = <<>>
    OBVIOUS
  <2>5. q \in Seq(Stream) /\ Increasing(q) /\ Members(q) = Members(c.queue) \ S
    <3>1. Members(c.queue) \subseteq S
      BY <1>3, <2>2, <2>3 DEF Balanced, InPhases, Waiting
    <3>2. q \in Seq(Stream) /\ \A i \in 1 .. Len(q) : FALSE
      BY <2>4
    <3>3. Increasing(q) /\ Members(q) = {}
      BY <3>2 DEF Increasing, Members
    <3> QED
      BY <3>1, <3>2, <3>3
  <2>6. PICK moved : moved = [s \in Stream |-> IF s \in S THEN "terminal" ELSE ph[s]]
    OBVIOUS
  <2>7. Balanced(Dropped(c, S, q), moved) /\ Limits(Dropped(c, S, q))
    BY <2>3, <2>5, <2>6, DroppedKeeps
  <2>8. c.uploader \in S <=> c.uploader # NoStream
    <3>1. /\ c.uploader \in Stream \cup {NoStream} /\ NoStream \notin Stream
          /\ \A t \in Stream : c.uploader = t <=> ph[t] = "uploading"
      BY <2>3, StreamAssumption DEF Balanced, CreditType
    <3> QED
      BY <1>3, <1>4, <2>2, <3>1 DEF Waiting
  <2>9. credit' = [queue |-> <<>>, uploader |-> NoStream,
                   active |-> IF c.uploader # NoStream THEN c.active - 1 ELSE c.active,
                   reserved |-> IF c.uploader # NoStream
                                THEN c.reserved - BlobBytes[c.uploader] ELSE c.reserved]
    BY <2>1 DEF AbortAll
  <2>10. credit' = Dropped(c, S, q) /\ phase' = moved
    <3>1. credit' = Dropped(c, S, q)
      BY <2>4, <2>8, <2>9 DEF Dropped
    <3> QED
      BY <1>5, <2>2, <2>6, <3>1
  <2>11. PICK d : d = Dropped(c, S, q)
    OBVIOUS
  <2>12. /\ S \subseteq InPhases(ph, LivePhases)
         /\ InPhases(moved, LivePhases) = InPhases(ph, LivePhases) \ S
    BY <1>3, <1>4, <1>6, <2>2, <2>10 DEF InPhases, LivePhases, Waiting
  <2>13. pending' = Controls(moved) /\ pending'.count <= pending.count /\ pending'.bytes <= pending.bytes
    BY <1>5, <2>3, <2>12, ReleaseKeeps
  <2>14. pending'.count \in Nat /\ pending'.bytes \in Nat /\ pending.count \in Nat /\ pending.bytes \in Nat
    BY <2>3, <2>13, ControlsType
  <2>15. pending'.count <= MaxActiveStreams /\ pending'.bytes <= MaxPendingControlBytes
    BY <1>1, <2>13, <2>14, LimitAssumption DEF CreditInv
  <2>16. Balanced(d, moved) /\ Limits(d) /\ credit' = d
    BY <2>7, <2>10, <2>11
  <2> QED
    BY <2>10, <2>13, <2>15, <2>16 DEF CreditInv, Balanced, Limits, Controls, InPhases
<1>10. AdmitInv'
  BY DEF AdmitInv
<1>11. LifeInv'
  <2> SUFFICES ASSUME NEW t \in Stream
               PROVE  Fits(phase'[t], winner[t], t \in output, exec[t], t \in suppressed',
                           answers[t], TRUE)
    BY DEF LifeInv, Torn
  <2>1. Fits(phase[t], winner[t], t \in output, exec[t], t \in suppressed, answers[t], Torn)
    BY <1>1 DEF LifeInv
  <2>2. CASE t \in S
    BY <1>3, <1>6, <1>7, <2>1, <2>2 DEF Fits, Waiting
  <2>3. CASE t \notin S
    <3>1. phase'[t] = phase[t] /\ phase[t] \notin Waiting
      BY <1>3, <1>6, <2>3
    <3> QED
      BY <1>7, <2>1, <3>1 DEF Fits, Waiting, LivePhases
  <2> QED
    BY <2>2, <2>3
<1>12. FreshInv'
  <2> SUFFICES ASSUME NEW t \in Stream, t > highWater
               PROVE  phase'[t] = "none" /\ answers[t] = <<>>
    BY DEF FreshInv
  <2>1. phase[t] = "none" /\ answers[t] = <<>> /\ t \notin S
    BY <1>1, <1>3 DEF FreshInv, Waiting
  <2> QED
    BY <1>6, <2>1
<1>13. ResultsInv'
  <2>1. Returned(phase', exec') = Returned(phase, exec)
    BY <1>3, <1>6 DEF Returned, Waiting
  <2> QED
    BY <1>1, <2>1 DEF ResultsInv, Returned
<1>14. ConnInv'
  <2>1. InPhases(phase', Waiting) = {}
    BY <1>3, <1>6 DEF InPhases, Waiting
  <2> QED
    BY <2>1 DEF ConnInv, InPhases
<1> QED
  BY <1>8, <1>9, <1>10, <1>11, <1>12, <1>13, <1>14 DEF StdioInv

LEMMA DrainDoneKeeps ==
  ASSUME StdioInv, DrainDone
  PROVE  StdioInv'
<1>1. Types /\ CreditInv /\ AdmitInv /\ LifeInv /\ FreshInv /\ ResultsInv /\ ConnInv
  BY DEF StdioInv
<1>2. /\ conn \in {"draining", "aborting"} /\ credit.active = 0
      /\ conn' = IF conn = "draining" THEN "ended" ELSE "stopped"
      /\ UNCHANGED <<negotiated, highWater, phase, credit, pending, winner, exec, results,
                     output, suppressed, answers, fatal>>
  BY DEF DrainDone, dispatchVars
<1>3. InPhases(phase, LivePhases) = {}
  <2>1. PICK T : T = InPhases(phase, Busy)
    OBVIOUS
  <2>2. Cardinality(T) = 0 /\ T \subseteq Stream
    BY <1>1, <1>2, <2>1 DEF CreditInv, Balanced, InPhases
  <2>3. T = {}
    BY <2>2, StreamFinite, FS_EmptySet
  <2>4. InPhases(phase, Waiting) = {}
    BY <1>1, <1>2 DEF ConnInv
  <2> QED
    BY <2>1, <2>3, <2>4 DEF InPhases, Busy, Waiting, LivePhases
<1>4. InPhases(phase, Waiting) = {}
  BY <1>1, <1>2 DEF ConnInv
<1>5. Types'
  BY <1>1, <1>2 DEF Types, Conn
<1>6. CreditInv' /\ AdmitInv' /\ FreshInv' /\ ResultsInv'
  BY <1>1, <1>2 DEF CreditInv, Balanced, Limits, InPhases, Controls, AdmitInv, CanAdmit,
                    FreshInv, ResultsInv, Returned
<1>7. LifeInv'
  <2>1. Torn' <=> Torn
    BY <1>2 DEF Torn
  <2> QED
    BY <1>1, <1>2, <2>1 DEF LifeInv, Fits
<1>8. ConnInv'
  BY <1>2, <1>3, <1>4 DEF ConnInv, InPhases
<1> QED
  BY <1>5, <1>6, <1>7, <1>8 DEF StdioInv

LEMMA StdioStep == StdioInv /\ [Next]_vars => StdioInv'
<1> SUFFICES ASSUME StdioInv, [Next]_vars PROVE StdioInv'
  OBVIOUS
<1>1. CASE UNCHANGED vars
  BY <1>1 DEF vars, StdioInv, Types, CreditInv, Balanced, Limits, InPhases, Controls, AdmitInv,
              CanAdmit, LifeInv, Torn, FreshInv, ResultsInv, Returned, ConnInv
<1>2. ASSUME NEW s \in Stream, AnswerControl(s) \/ Handshake(s) PROVE StdioInv'
  BY <1>2, AnsweredKeeps
<1>3. ASSUME NEW s \in Stream, AcceptOperation(s) PROVE StdioInv'
  BY <1>3, AcceptKeeps
<1>4. ASSUME NEW s \in Stream, Seal(s) PROVE StdioInv'
  BY <1>4, SealStepKeeps
<1>5. ASSUME NEW s \in Stream, Publish(s) PROVE StdioInv'
  BY <1>5, PublishKeeps
<1>6. ASSUME NEW s \in Stream, Return(s) PROVE StdioInv'
  BY <1>6, ReturnKeeps
<1>7. ASSUME NEW s \in Stream, Cancel(s) PROVE StdioInv'
  BY <1>7, EndKeeps DEF Cancel
<1>8. ASSUME NEW s \in Stream, FailStream(s) PROVE StdioInv'
  BY <1>8, EndKeeps DEF FailStream
<1>9. ASSUME NEW s \in Stream, SecondHandshake(s) PROVE StdioInv'
  BY <1>9, SecondHandshakeKeeps
<1>10. CASE FinishDispatch
  BY <1>10, FinishKeeps
<1>11. CASE Close
  BY <1>11, CloseKeeps
<1>12. CASE RootCancelled
  <2>1. fatal' \in 0 .. MaxFatal
    BY <1>12 DEF RootCancelled, StdioInv, Types
  <2> QED
    BY <1>12, <2>1, AbortKeeps DEF RootCancelled, dispatchVars
<1>13. CASE Fatal
  <2>1. fatal' \in 0 .. MaxFatal
    BY <1>13, LimitAssumption DEF Fatal, StdioInv, Types
  <2> QED
    BY <1>13, <2>1, AbortKeeps DEF Fatal, dispatchVars
<1>14. CASE DrainDone
  BY <1>14, DrainDoneKeeps
<1> QED
  BY <1>1, <1>2, <1>3, <1>4, <1>5, <1>6, <1>7, <1>8, <1>9, <1>10, <1>11, <1>12, <1>13, <1>14
  DEF Next

LEMMA StdioAlways == Spec => []StdioInv
<1>1. Init => StdioInv
  BY StdioInit
<1>2. StdioInv /\ [Next]_vars => StdioInv'
  BY StdioStep
<1> QED
  BY <1>1, <1>2, PTL DEF Spec

----------------------------------------------------------------------------
(* Theorems                                                                *)

\* Every variable of the session keeps its type, the counters that the code
\* subtracts from never leave the natural numbers.
THEOREM SessionTypes == Spec => []TypeOK
<1>1. StdioInv => TypeOK
  BY ControlsType
  DEF StdioInv, Types, CreditInv, Balanced, CreditType, ResultsInv, TypeOK, Controls
<1> QED
  BY <1>1, StdioAlways, PTL

\* acceptOperation, admit, releaseStream, drain and abortAll keep the counters of
\* the session equal to those of its streams, and within the limits.
THEOREM CreditIsBalanced == Spec => []CreditBalance
<1>1. ASSUME StdioInv PROVE CreditBalance
  <2>1. Types /\ CreditInv /\ ResultsInv
    BY <1>1 DEF StdioInv
  <2>2. /\ Holding = InPhases(phase, Busy) /\ Queued = InPhases(phase, {"queued"})
        /\ Streams = InPhases(phase, LivePhases)
    BY StreamsInPhases DEF Holding, Queued, InPhases, Busy
  <2>3. PICK q : q = credit.queue
    OBVIOUS
  <2>4. q \in Seq(Stream) /\ Increasing(q) /\ Members(q) = Queued
    BY <2>1, <2>2, <2>3 DEF CreditInv, Balanced, CreditType
  <2>5. Len(q) = Cardinality(Queued)
    BY <2>4, QueueLength
  <2>6. \A i \in DOMAIN q : q[i] \in Queued
    BY <2>4 DEF Members
  <2>7. Len(results) <= MaxConcurrentDispatch
    <3>1. PICK r : r = results
      OBVIOUS
    <3>2. PICK R : R = Members(r)
      OBVIOUS
    <3>3. PICK H : H = InPhases(phase, Busy)
      OBVIOUS
    <3>4. r \in Seq(Stream) /\ Distinct(r) /\ R \subseteq H /\ H \subseteq Stream
      BY <2>1, <3>1, <3>2, <3>3 DEF ResultsInv, Returned, InPhases, Busy
    <3>5. Len(r) = Cardinality(R)
      BY <3>2, <3>4, DistinctLength
    <3>6. IsFiniteSet(H) /\ Cardinality(H) \in Nat /\ Cardinality(R) \in Nat
      BY <3>4, StreamFinite
    <3>7. Cardinality(R) <= Cardinality(H)
      BY <3>4, <3>6, FS_Subset
    <3>8. Cardinality(H) <= MaxConcurrentDispatch
      BY <2>1, <3>3 DEF CreditInv, Balanced, Limits
    <3> QED
      BY <3>1, <3>5, <3>6, <3>7, <3>8, LimitAssumption
  <2>8. pending = [count |-> Cardinality(Streams), bytes |-> SumOf(ControlBytes, Streams)]
    BY <2>1, <2>2 DEF CreditInv, Controls
  <2>9. /\ credit.active = Cardinality(Holding) /\ credit.reserved = SumOf(BlobBytes, Holding)
        /\ \A s \in Stream : credit.uploader = s <=> phase[s] = "uploading"
        /\ credit.active <= MaxConcurrentDispatch /\ credit.reserved <= MaxReservedBlobBytes
        /\ pending.count <= MaxActiveStreams /\ pending.bytes <= MaxPendingControlBytes
    BY <2>1, <2>2 DEF CreditInv, Balanced, Limits
  <2> QED
    BY <2>3, <2>5, <2>6, <2>7, <2>8, <2>9 DEF CreditBalance
<1> QED
  BY <1>1, StdioAlways, PTL

\* Every handler that gives credit back has called admit before the loop waits
\* again: credit lies idle only while nothing could use it.
THEOREM CreditIsPassedOn == Spec => []NoIdleCredit
<1>1. ASSUME StdioInv, conn = "open", Queued # {}
      PROVE  \/ \E s \in Stream : phase[s] = "uploading"
             \/ Cardinality(Holding) = MaxConcurrentDispatch
             \/ \E s \in Queued : /\ \A t \in Queued : s <= t
                                  /\ SumOf(BlobBytes, Holding) + BlobBytes[s]
                                       > MaxReservedBlobBytes
  <2>1. CreditInv /\ ~CanAdmit(credit)
    BY <1>1 DEF StdioInv, AdmitInv
  <2>2. Holding = InPhases(phase, Busy) /\ Queued = InPhases(phase, {"queued"})
    BY DEF Holding, Queued, InPhases, Busy
  <2>3. PICK q : q = credit.queue
    OBVIOUS
  <2>4. q \in Seq(Stream) /\ Increasing(q) /\ Members(q) = Queued
    BY <2>1, <2>2, <2>3 DEF CreditInv, Balanced, CreditType
  <2>5. q # <<>>
    <3>1. Members(<<>>) = {}
      <4>1. \A i \in 1 .. Len(<<>>) : FALSE
        OBVIOUS
      <4> QED
        BY <4>1 DEF Members
    <3> QED
      BY <1>1, <2>4, <3>1
  <2>6. Head(q) \in Queued /\ \A t \in Queued : Head(q) <= t
    BY <2>4, <2>5, TailQueue
  <2>7. /\ credit.active = Cardinality(Holding) /\ credit.reserved = SumOf(BlobBytes, Holding)
        /\ \A s \in Stream : credit.uploader = s <=> phase[s] = "uploading"
        /\ credit.active <= MaxConcurrentDispatch /\ credit.active \in Nat
        /\ credit.reserved \in Nat /\ credit.uploader \in Stream \cup {NoStream}
    BY <2>1, <2>2 DEF CreditInv, Balanced, Limits, CreditType
  <2>8. \/ credit.uploader # NoStream
        \/ ~(credit.active < MaxConcurrentDispatch)
        \/ ~(credit.reserved + BlobBytes[Head(q)] <= MaxReservedBlobBytes)
    BY <2>1, <2>3, <2>5 DEF CanAdmit
  <2>9. CASE credit.uploader # NoStream
    BY <2>7, <2>9
  <2>10. CASE ~(credit.active < MaxConcurrentDispatch)
    BY <2>7, <2>10, LimitAssumption
  <2>11. CASE ~(credit.reserved + BlobBytes[Head(q)] <= MaxReservedBlobBytes)
    <3>1. BlobBytes[Head(q)] \in Nat
      <4>1. Head(q) \in Stream
        BY <2>6 DEF Queued
      <4> QED
        BY <4>1, StreamAssumption
    <3>2. SumOf(BlobBytes, Holding) + BlobBytes[Head(q)] > MaxReservedBlobBytes
      BY <2>7, <2>11, <3>1, LimitAssumption
    <3> QED
      BY <2>6, <3>2
  <2> QED
    BY <2>8, <2>9, <2>10, <2>11
<1>2. StdioInv => NoIdleCredit
  BY <1>1 DEF NoIdleCredit
<1> QED
  BY <1>2, StdioAlways, PTL

\* cancelStream, failCorrelatedStream, the sink and finishDispatch race for the
\* arbiter of a stream: it is answered once, with what decided it, and its output
\* goes out exactly when the sink committed it.
THEOREM OneAnswerEach == Spec => []AnswerIsWinner
<1>1. ASSUME StdioInv, NEW s \in Accepted, answers[s] # <<>>
      PROVE  answers[s] = <<Bundle(winner[s], s \in output)>>
  <2>1. /\ s \in Stream /\ phase[s] # "none" /\ phase[s] \in Phase
        /\ Fits(phase[s], winner[s], s \in output, exec[s], s \in suppressed, answers[s], Torn)
    BY <1>1 DEF Accepted, StdioInv, LifeInv, CreditInv, Balanced
  <2> QED
    BY <1>1, <2>1 DEF Fits, Phase
<1>2. StdioInv => AnswerIsWinner
  BY <1>1 DEF AnswerIsWinner
<1> QED
  BY <1>2, StdioAlways, PTL

\* drain(true) leaves nothing behind: every operation that was accepted has been
\* answered and every counter is back at zero.
THEOREM DrainLeavesNothing == Spec => []OrderlyEnd
<1>1. ASSUME StdioInv, conn = "ended" PROVE OrderlyEnd
  <2>1. /\ CreditInv /\ LifeInv /\ InPhases(phase, LivePhases) = {}
    BY <1>1 DEF StdioInv, ConnInv
  <2>2. \A s \in Stream : phase[s] \in {"none", "terminal"}
    BY <2>1 DEF InPhases, LivePhases, CreditInv, Balanced, Phase
  <2>3. ASSUME NEW s \in Accepted PROVE phase[s] = "terminal" /\ Len(answers[s]) = 1
    <3>1. /\ s \in Stream /\ phase[s] = "terminal" /\ ~Torn
          /\ Fits(phase[s], winner[s], s \in output, exec[s], s \in suppressed, answers[s], Torn)
      BY <1>1, <2>1, <2>2 DEF Accepted, LifeInv, Torn
    <3>2. answers[s] = <<Bundle(winner[s], s \in output)>>
      BY <3>1 DEF Fits
    <3> QED
      BY <3>1, <3>2
  <2>4. InPhases(phase, Busy) = {} /\ InPhases(phase, {"queued"}) = {}
    BY <2>2 DEF InPhases, Busy
  <2>5. /\ SumOf(BlobBytes, {}) = 0 /\ SumOf(ControlBytes, {}) = 0 /\ Cardinality({}) = 0
    <3>1. BlobBytes \in [Stream -> Nat] /\ ControlBytes \in [Stream -> Nat]
      BY StreamAssumption
    <3> QED
      BY <3>1, SumEmpty
  <2>6. pending = [count |-> 0, bytes |-> 0]
    BY <2>1, <2>5 DEF CreditInv, Controls
  <2>7. /\ credit \in CreditType /\ credit.active = 0 /\ credit.reserved = 0
        /\ Increasing(credit.queue) /\ Members(credit.queue) = {}
        /\ credit.uploader = NoStream
    BY <2>1, <2>2, <2>4, <2>5 DEF CreditInv, Balanced, CreditType
  <2>8. credit.queue = <<>>
    <3>1. PICK q : q = credit.queue
      OBVIOUS
    <3>2. q \in Seq(Stream) /\ Len(q) = 0
      BY <2>5, <2>7, <3>1, QueueLength DEF CreditType
    <3> QED
      BY <3>1, <3>2
  <2>9. credit = [queue |-> <<>>, uploader |-> NoStream, active |-> 0, reserved |-> 0]
    BY <2>7, <2>8 DEF CreditType
  <2> QED
    BY <2>3, <2>6, <2>9 DEF OrderlyEnd
<1>2. StdioInv => OrderlyEnd
  BY <1>1 DEF OrderlyEnd
<1> QED
  BY <1>2, StdioAlways, PTL
=============================================================================
