---------------------------- MODULE QueueLemmas -----------------------------
(***************************************************************************)
(* What the three ways a waiter list changes do to the set of operations   *)
(* in it, Range(s), and to the fact that nobody is in it twice,            *)
(* IsInjective(s).  The proofs about the primitives use these facts and no *)
(* others about sequences.                                                 *)
(***************************************************************************)
EXTENDS Integers, Sequences, SequencesExt, SequenceTheorems, FiniteSetTheorems, TLAPS

(* The empty queue.                                                        *)
LEMMA EmptyQueue ==
  ASSUME NEW S
  PROVE  << >> \in Seq(S) /\ Range(<< >>) = {} /\ IsInjective(<< >>)
BY DEF Range, IsInjective

(* A queue somebody is in is not empty, and its entries are in S.          *)
LEMMA QueueElements ==
  ASSUME NEW S, NEW s \in Seq(S)
  PROVE  /\ Range(s) \subseteq S
         /\ Range(s) = {} <=> s = << >>
         /\ \A c : Contains(s, c) <=> c \in Range(s)
<1>1. DOMAIN s = 1 .. Len(s) /\ Len(s) \in Nat /\ \A i \in 1 .. Len(s) : s[i] \in S
  OBVIOUS
<1>2. Range(s) \subseteq S
  BY <1>1 DEF Range
<1>3. Range(s) = {} <=> s = << >>
  <2>1. s # << >> => 1 \in DOMAIN s
    BY <1>1
  <2> QED BY <2>1 DEF Range
<1>4. \A c : Contains(s, c) <=> c \in Range(s)
  BY <1>1 DEF Range, Contains
<1> QED BY <1>2, <1>3, <1>4

(* link_before the root: c joins at the back.                              *)
LEMMA JoinQueue ==
  ASSUME NEW S, NEW s \in Seq(S), NEW c \in S
  PROVE  /\ Append(s, c) \in Seq(S)
         /\ Range(Append(s, c)) = Range(s) \cup {c}
         /\ IsInjective(s) /\ c \notin Range(s) => IsInjective(Append(s, c))
<1> DEFINE t == Append(s, c)
<1>1. /\ t \in Seq(S) /\ Len(t) = Len(s) + 1 /\ Len(s) \in Nat
      /\ t[Len(s) + 1] = c /\ \A i \in 1 .. Len(s) : t[i] = s[i]
  OBVIOUS
<1>2. DOMAIN s = 1 .. Len(s) /\ DOMAIN t = 1 .. Len(s) + 1
  BY <1>1
<1> HIDE DEF t
<1>3. Range(t) = Range(s) \cup {c}
  <2>1. Range(t) \subseteq Range(s) \cup {c}
    BY <1>1, <1>2 DEF Range
  <2>2. Range(s) \cup {c} \subseteq Range(t)
    BY <1>1, <1>2 DEF Range
  <2> QED BY <2>1, <2>2
<1>4. IsInjective(s) /\ c \notin Range(s) => IsInjective(t)
  BY <1>1, <1>2 DEF Range, IsInjective
<1> QED
  BY <1>1, <1>3, <1>4 DEF t

(* The operation at the front is unlinked.                                 *)
LEMMA LeaveFront ==
  ASSUME NEW S, NEW s \in Seq(S), s # << >>
  PROVE  /\ Head(s) \in S /\ Head(s) \in Range(s) /\ Tail(s) \in Seq(S)
         /\ IsInjective(s) => /\ Range(Tail(s)) = Range(s) \ {Head(s)}
                              /\ IsInjective(Tail(s))
<1> DEFINE t == Tail(s)
<1>1. /\ t \in Seq(S) /\ Len(t) = Len(s) - 1 /\ Len(s) \in Nat /\ Len(s) > 0
      /\ Head(s) = s[1] /\ Head(s) \in S /\ \A i \in 1 .. Len(s) - 1 : t[i] = s[i + 1]
  OBVIOUS
<1>2. DOMAIN s = 1 .. Len(s) /\ DOMAIN t = 1 .. Len(s) - 1
  BY <1>1
<1>3. Head(s) \in Range(s)
  BY <1>1, <1>2 DEF Range
<1> HIDE DEF t
<1>4. ASSUME IsInjective(s) PROVE Range(t) = Range(s) \ {Head(s)} /\ IsInjective(t)
  <2>1. Range(t) \subseteq Range(s) \ {Head(s)}
    BY <1>1, <1>2, <1>4 DEF Range, IsInjective
  <2>2. ASSUME NEW i \in DOMAIN s, s[i] # Head(s) PROVE s[i] \in Range(t)
    <3>1. i - 1 \in DOMAIN t /\ t[i - 1] = s[i]
      BY <1>1, <1>2, <2>2
    <3> QED BY <3>1 DEF Range
  <2>3. Range(s) \ {Head(s)} \subseteq Range(t)
    BY <2>2 DEF Range
  <2>4. IsInjective(t)
    BY <1>1, <1>2, <1>4 DEF IsInjective
  <2> QED BY <2>1, <2>3, <2>4
<1> QED
  BY <1>1, <1>3, <1>4 DEF t

(* An entry leaves from the middle: the queue is one shorter and those     *)
(* behind it move up.                                                      *)
LEMMA RemoveAtProps ==
  ASSUME NEW S, NEW s \in Seq(S), NEW i \in 1 .. Len(s)
  PROVE  /\ RemoveAt(s, i) \in Seq(S)
         /\ Len(RemoveAt(s, i)) = Len(s) - 1
         /\ \A j \in 1 .. Len(s) - 1 :
              RemoveAt(s, i)[j] = IF j < i THEN s[j] ELSE s[j + 1]
<1> DEFINE a == SubSeq(s, 1, i - 1)
           b == SubSeq(s, i + 1, Len(s))
<1>1. a \in Seq(S) /\ Len(a) = i - 1 /\ \A j \in 1 .. i - 1 : a[j] = s[j]
  OBVIOUS
<1>2. b \in Seq(S) /\ Len(b) = Len(s) - i /\ \A j \in 1 .. Len(s) - i : b[j] = s[i + j]
  OBVIOUS
<1> HIDE DEF a, b
<1>3. a \o b \in Seq(S)
  BY <1>1, <1>2, ConcatProperties
<1>4. Len(a \o b) = Len(s) - 1
  <2>1. Len(a \o b) = Len(a) + Len(b)
    BY <1>1, <1>2, ConcatProperties
  <2>2. Len(s) \in Nat
    OBVIOUS
  <2> QED
    BY <2>1, <2>2, <1>1, <1>2
<1>5. \A j \in 1 .. Len(s) - 1 : (a \o b)[j] = IF j < i THEN s[j] ELSE s[j + 1]
  <2>1. SUFFICES ASSUME NEW j \in 1 .. Len(s) - 1
                 PROVE  (a \o b)[j] = IF j < i THEN s[j] ELSE s[j + 1]
    OBVIOUS
  <2>2. (a \o b)[j] = IF j <= Len(a) THEN a[j] ELSE b[j - Len(a)]
    BY <1>1, <1>2, <1>4, ConcatProperties
  <2>3. CASE j < i
    BY <2>2, <2>3, <1>1
  <2>4. CASE j >= i
    <3>1. /\ j - Len(a) = j - i + 1 /\ j - i + 1 \in 1 .. Len(s) - i
          /\ i + (j - i + 1) = j + 1 /\ ~ (j <= Len(a)) /\ ~ (j < i)
      BY <2>4, <1>1
    <3>2. b[j - i + 1] = s[i + (j - i + 1)]
      BY <3>1, <1>2
    <3> QED BY <3>1, <3>2, <2>2
  <2>5. j < i \/ j >= i
    OBVIOUS
  <2> QED BY <2>3, <2>4, <2>5
<1> QED
  BY <1>3, <1>4, <1>5 DEF RemoveAt, a, b

(* A cancelled operation is unlinked wherever it is.                       *)
LEMMA LeaveQueue ==
  ASSUME NEW S, NEW s \in Seq(S), NEW k \in DOMAIN s
  PROVE  /\ RemoveAt(s, k) \in Seq(S)
         /\ IsInjective(s) => /\ Range(RemoveAt(s, k)) = Range(s) \ {s[k]}
                              /\ IsInjective(RemoveAt(s, k))
<1> DEFINE t == RemoveAt(s, k)
<1>1. Len(s) \in Nat /\ k \in 1 .. Len(s) /\ DOMAIN s = 1 .. Len(s)
  OBVIOUS
<1>2. /\ t \in Seq(S) /\ Len(t) = Len(s) - 1
      /\ \A j \in 1 .. Len(s) - 1 : t[j] = IF j < k THEN s[j] ELSE s[j + 1]
  BY <1>1, RemoveAtProps
<1> HIDE DEF t
<1>3. DOMAIN t = 1 .. Len(s) - 1
  BY <1>2
<1>4. ASSUME IsInjective(s) PROVE Range(t) = Range(s) \ {s[k]} /\ IsInjective(t)
  <2>1. ASSUME NEW j \in 1 .. Len(s) - 1 PROVE t[j] \in Range(s) \ {s[k]}
    <3>1. PICK m \in 1 .. Len(s) : m # k /\ t[j] = s[m]
      BY <1>1, <1>2
    <3> QED BY <1>1, <1>4, <3>1 DEF Range, IsInjective
  <2>2. Range(t) \subseteq Range(s) \ {s[k]}
    BY <2>1, <1>3 DEF Range
  <2>3. ASSUME NEW m \in 1 .. Len(s), m # k PROVE s[m] \in Range(t)
    <3>1. CASE m < k
      <4>1. m \in 1 .. Len(s) - 1 /\ t[m] = s[m]
        BY <3>1, <1>1, <1>2
      <4> QED BY <4>1, <1>3 DEF Range
    <3>2. CASE m > k
      <4>1. m - 1 \in 1 .. Len(s) - 1 /\ t[m - 1] = s[m]
        BY <3>2, <1>1, <1>2
      <4> QED BY <4>1, <1>3 DEF Range
    <3> QED BY <1>1, <2>3, <3>1, <3>2
  <2>4. Range(s) \ {s[k]} \subseteq Range(t)
    BY <2>3, <1>1 DEF Range
  <2>5. IsInjective(t)
    <3> DEFINE at(j) == IF j < k THEN j ELSE j + 1
    <3>1. \A j \in 1 .. Len(s) - 1 : at(j) \in 1 .. Len(s) /\ t[j] = s[at(j)]
      BY <1>1, <1>2
    <3>2. \A i, j \in 1 .. Len(s) - 1 : at(i) = at(j) => i = j
      BY <1>1
    <3> HIDE DEF at
    <3> QED BY <1>1, <1>3, <1>4, <3>1, <3>2 DEF IsInjective
  <2> QED BY <2>2, <2>4, <2>5
<1> QED
  BY <1>2, <1>4 DEF t

(* A queue nobody is in twice is as long as it has members.                *)
LEMMA QueueLength ==
  ASSUME NEW S, NEW s \in Seq(S), IsInjective(s)
  PROVE  IsFiniteSet(Range(s)) /\ Cardinality(Range(s)) = Len(s)
<1>1. DOMAIN s = 1 .. Len(s) /\ Len(s) \in Nat /\ s \in [1 .. Len(s) -> Range(s)]
  BY DEF Range
<1>2. s \in Injection(1 .. Len(s), Range(s))
  BY <1>1 DEF Injection
<1>3. s \in Surjection(1 .. Len(s), Range(s))
  BY <1>1 DEF Surjection, Range
<1>4. ExistsBijection(1 .. Len(s), Range(s))
  BY <1>2, <1>3 DEF ExistsBijection, Bijection
<1> QED BY <1>1, <1>4, FS_CountingElements, FS_NatBijection

(* The same for an operation that is named and not counted: if it is in    *)
(* the queue it leaves, and if not nothing happens.                        *)
LEMMA RemoveFirstProps ==
  ASSUME NEW S, NEW s \in Seq(S), IsInjective(s), NEW c
  PROVE  /\ \A k \in DOMAIN s : s[k] = c => RemoveFirst(s, c) = RemoveAt(s, k)
         /\ RemoveFirst(s, c) \in Seq(S) /\ IsInjective(RemoveFirst(s, c))
         /\ Range(RemoveFirst(s, c)) = Range(s) \ {c}
<1>1. DOMAIN s = 1 .. Len(s) /\ Len(s) \in Nat
  OBVIOUS
<1>2. ASSUME NEW k \in DOMAIN s, s[k] = c PROVE RemoveFirst(s, c) = RemoveAt(s, k)
  <2> DEFINE I == {i \in 1 .. Len(s) : s[i] = c}
  <2>1. I = {k}
    BY <1>1, <1>2 DEF IsInjective
  <2>2. SelectInSeq(s, LAMBDA v : v = c) = IF I # {} THEN Min(I) ELSE 0
    BY DEF SelectInSeq
  <2> HIDE DEF I
  <2>3. Min(I) = k
    <3>1. k \in Int /\ k <= k
      BY <1>1
    <3> QED BY <2>1, <3>1 DEF Min
  <2>4. SelectInSeq(s, LAMBDA v : v = c) = k
    BY <2>1, <2>2, <2>3
  <2> QED BY <1>1, <1>2, <2>4 DEF RemoveFirst
<1>3. CASE \E k \in DOMAIN s : s[k] = c
  BY <1>2, <1>3, LeaveQueue
<1>4. CASE ~ \E k \in DOMAIN s : s[k] = c
  <2>1. RemoveFirst(s, c) = s
    BY <1>1, <1>4 DEF RemoveFirst
  <2>2. c \notin Range(s)
    BY <1>4 DEF Range
  <2> QED BY <1>2, <2>1, <2>2
<1> QED BY <1>2, <1>3, <1>4

(* One queue after the other, as shutdown() takes them.                    *)
LEMMA ConcatQueues ==
  ASSUME NEW S, NEW s \in Seq(S), NEW t \in Seq(S)
  PROVE  /\ s \o t \in Seq(S)
         /\ Range(s \o t) = Range(s) \cup Range(t)
         /\ IsInjective(s) /\ IsInjective(t) /\ Range(s) \cap Range(t) = {}
              => IsInjective(s \o t)
<1> DEFINE u == s \o t
<1>1. /\ u \in Seq(S) /\ Len(u) = Len(s) + Len(t)
      /\ \A i \in 1 .. Len(s) + Len(t) : u[i] = IF i <= Len(s) THEN s[i] ELSE t[i - Len(s)]
  BY ConcatProperties
<1>2. /\ DOMAIN s = 1 .. Len(s) /\ DOMAIN t = 1 .. Len(t) /\ DOMAIN u = 1 .. Len(s) + Len(t)
      /\ Len(s) \in Nat /\ Len(t) \in Nat
  BY <1>1
<1> HIDE DEF u
<1>3. \A i \in DOMAIN s : i \in DOMAIN u /\ u[i] = s[i]
  BY <1>1, <1>2
<1>4. \A i \in DOMAIN t : Len(s) + i \in DOMAIN u /\ u[Len(s) + i] = t[i]
  <2>1. ASSUME NEW i \in DOMAIN t PROVE Len(s) + i \in DOMAIN u /\ u[Len(s) + i] = t[i]
    <3>1. Len(s) + i \in 1 .. Len(s) + Len(t) /\ ~ (Len(s) + i <= Len(s))
          /\ (Len(s) + i) - Len(s) = i
      BY <1>2
    <3> QED BY <1>1, <1>2, <3>1
  <2> QED BY <2>1
<1>5. \A i \in DOMAIN u : \/ i \in DOMAIN s /\ u[i] = s[i]
                          \/ i - Len(s) \in DOMAIN t /\ u[i] = t[i - Len(s)] /\ i \notin DOMAIN s
  BY <1>1, <1>2
<1>6. Range(u) = Range(s) \cup Range(t)
  <2>1. Range(u) \subseteq Range(s) \cup Range(t)
    BY <1>5 DEF Range
  <2>2. Range(s) \cup Range(t) \subseteq Range(u)
    BY <1>3, <1>4 DEF Range
  <2> QED BY <2>1, <2>2
<1>7. ASSUME IsInjective(s), IsInjective(t), Range(s) \cap Range(t) = {} PROVE IsInjective(u)
  <2>1. ASSUME NEW i \in DOMAIN u, NEW j \in DOMAIN u, u[i] = u[j] PROVE i = j
    <3>1. CASE i \in DOMAIN s /\ j \in DOMAIN s
      BY <1>3, <1>7, <2>1, <3>1 DEF IsInjective
    <3>2. CASE i \notin DOMAIN s /\ j \notin DOMAIN s
      <4>1. i - Len(s) = j - Len(s)
        BY <1>5, <1>7, <2>1, <3>2 DEF IsInjective
      <4> QED BY <1>2, <4>1
    <3>3. CASE i \in DOMAIN s /\ j \notin DOMAIN s
      <4>1. u[i] \in Range(s) /\ u[j] \in Range(t)
        BY <1>3, <1>5, <3>3 DEF Range
      <4> QED BY <1>7, <2>1, <4>1
    <3>4. CASE i \notin DOMAIN s /\ j \in DOMAIN s
      <4>1. u[i] \in Range(t) /\ u[j] \in Range(s)
        BY <1>3, <1>5, <3>4 DEF Range
      <4> QED BY <1>7, <2>1, <4>1
    <3> QED BY <3>1, <3>2, <3>3, <3>4
  <2> QED BY <2>1 DEF IsInjective
<1> QED
  BY <1>1, <1>6, <1>7 DEF u
=============================================================================
