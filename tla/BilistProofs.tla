---------------------------- MODULE BilistProofs ----------------------------
(***************************************************************************)
(* The pointers of the waiter lists implement FIFO queues after any        *)
(* sequence of calls, for any number of holders and operations; and the    *)
(* ring of a service, which is made of the same nodes, survives the walk   *)
(* of its shutdown().                                                      *)
(***************************************************************************)
EXTENDS Service, ArriveList, QueueLemmas, WellFoundedInduction

(* The nodes on the way around the ring of root h with the operations s:   *)
(* h itself is the node before the first and the one after the last.       *)
At(s, h, i) == IF i \in 1 .. Len(s) THEN s[i] ELSE h

(* The pointers n and p of the ring, in both directions.                   *)
IsRing(n, p, h, s) ==
  \A i \in 0 .. Len(s) : /\ n[At(s, h, i)] = At(s, h, i + 1)
                         /\ p[At(s, h, i + 1)] = At(s, h, i)

(* Nobody is in the queues q twice.                                        *)
NoneTwice(q) ==
  \A h, k \in Holders : \A i \in 1 .. Len(q[h]), j \in 1 .. Len(q[k]) :
    q[h][i] = q[k][j] => h = k /\ i = j

InSome(q) == UNION {Range(q[h]) : h \in Holders}

(* The pointers n and p form, for the roots L, the rings of the queues q.  *)
Rings(n, p, L, q) ==
  /\ n \in [Node -> Node] /\ p \in [Node -> Node] /\ L \subseteq Holders
  /\ q \in [Holders -> Seq(Ops)]
  /\ \A h \in Holders \ L : q[h] = << >>
  /\ \A h \in L : IsRing(n, p, h, q[h])
  /\ NoneTwice(q)

(* The pointers of the nodes S are the same in n, p and in n2, p2.         *)
Agree(n, p, n2, p2, S) == \A a \in S : n2[a] = n[a] /\ p2[a] = p[a]

(* o is the i-th in the queue of h.                                        *)
Nth(q, h, i, o) == i \in 1 .. Len(q[h]) /\ q[h][i] = o

(* The queues after a step of WaitQueues.                                  *)
Without(q, h, i) == [q EXCEPT ![h] = RemoveAt(@, i)]
With(q, h, o) == [q EXCEPT ![h] = Append(@, o)]
TakenOver(q, to, from) == [q EXCEPT ![to] = q[from], ![from] = << >>]

(* n2 and p2 are n and p after unlink of o, link_before(h) of o, and the   *)
(* move constructor.                                                       *)
Unlinked(o, n, p, n2, p2) ==
  /\ n2 = [n EXCEPT ![p[o]] = n[o]]
  /\ p2 = [p EXCEPT ![n[o]] = p[o]]

LinkedBefore(o, h, n, p, n2, p2) ==
  /\ n2 = [n EXCEPT ![o] = h, ![p[h]] = o]
  /\ p2 = [p EXCEPT ![o] = p[h], ![h] = o]

Moved(to, from, n, p, n2, p2) ==
  IF n[from] = from
  THEN n2 = [n EXCEPT ![to] = to] /\ p2 = [p EXCEPT ![to] = to]
  ELSE /\ n2 = [n EXCEPT ![from] = from, ![to] = n[from], ![p[from]] = to]
       /\ p2 = [p EXCEPT ![from] = from, ![to] = p[from], ![n[from]] = to]

-----------------------------------------------------------------------------
(* Around a ring no node comes twice.                                      *)
LEMMA RingNodes ==
  ASSUME NEW h \in Holders, NEW s \in Seq(Ops),
         \A i, j \in 1 .. Len(s) : s[i] = s[j] => i = j
  PROVE  /\ Len(s) \in Nat /\ DOMAIN s = 1 .. Len(s)
         /\ At(s, h, 0) = h /\ At(s, h, Len(s) + 1) = h
         /\ \A i \in 1 .. Len(s) : At(s, h, i) = s[i] /\ s[i] \in Ops /\ s[i] # h
         /\ \A i, j \in 0 .. Len(s) : At(s, h, i) = At(s, h, j) => i = j
         /\ \A i, j \in 1 .. Len(s) + 1 : At(s, h, i) = At(s, h, j) => i = j
         /\ \A i \in 0 .. Len(s) + 1 : At(s, h, i) \in Node /\ At(s, h, i) \in {h} \cup Range(s)
<1>1. Len(s) \in Nat /\ DOMAIN s = 1 .. Len(s)
  OBVIOUS
<1>2. \A i \in 1 .. Len(s) : At(s, h, i) = s[i] /\ s[i] \in Ops /\ s[i] # h /\ s[i] \in Range(s)
  BY <1>1, DisjointNodes DEF At, Range
<1>3. At(s, h, 0) = h /\ At(s, h, Len(s) + 1) = h
  BY <1>1 DEF At
<1>4. \A i, j \in 0 .. Len(s) : At(s, h, i) = At(s, h, j) => i = j
  BY <1>1, <1>2, <1>3
<1>5. \A i, j \in 1 .. Len(s) + 1 : At(s, h, i) = At(s, h, j) => i = j
  BY <1>1, <1>2, <1>3
<1>6. \A i \in 0 .. Len(s) + 1 : At(s, h, i) \in Node /\ At(s, h, i) \in {h} \cup Range(s)
  BY <1>1, <1>2, <1>3 DEF Node
<1> QED BY <1>1, <1>2, <1>3, <1>4, <1>5, <1>6

(* A ring whose pointers nobody writes stays.                              *)
LEMMA RingFrame ==
  ASSUME NEW n, NEW p, NEW n2, NEW p2, NEW h \in Holders, NEW s \in Seq(Ops), IsRing(n, p, h, s),
         \A k \in {h} \cup Range(s) : n2[k] = n[k] /\ p2[k] = p[k]
  PROVE  IsRing(n2, p2, h, s)
<1>1. DOMAIN s = 1 .. Len(s) /\ Len(s) \in Nat
  OBVIOUS
<1>2. \A i \in 0 .. Len(s) + 1 : At(s, h, i) \in {h} \cup Range(s)
  BY <1>1 DEF At, Range
<1>3. \A i \in 0 .. Len(s) : At(s, h, i) \in {h} \cup Range(s) /\ At(s, h, i + 1) \in {h} \cup Range(s)
  BY <1>1, <1>2
<1> QED BY <1>3 DEF IsRing

(* The ring of a root alone.                                               *)
LEMMA EmptyRing ==
  ASSUME NEW n, NEW p, NEW h
  PROVE  IsRing(n, p, h, << >>) <=> n[h] = h /\ p[h] = h
<1>1. Len(<< >>) = 0 /\ At(<< >>, h, 0) = h /\ At(<< >>, h, 0 + 1) = h
  BY DEF At
<1> QED BY <1>1 DEF IsRing

(* unlink of the i-th operation: its neighbours become neighbours.         *)
LEMMA UnlinkRing ==
  ASSUME NEW n \in [Node -> Node], NEW p \in [Node -> Node], NEW n2, NEW p2,
         NEW h \in Holders, NEW s \in Seq(Ops), IsRing(n, p, h, s),
         \A i, j \in 1 .. Len(s) : s[i] = s[j] => i = j,
         NEW i \in 1 .. Len(s), Unlinked(s[i], n, p, n2, p2)
  PROVE  IsRing(n2, p2, h, RemoveAt(s, i))
<1> DEFINE t == RemoveAt(s, i)
<1>1. /\ Len(s) \in Nat /\ At(s, h, 0) = h /\ At(s, h, Len(s) + 1) = h
      /\ \A k \in 1 .. Len(s) : At(s, h, k) = s[k]
      /\ \A k, l \in 0 .. Len(s) : At(s, h, k) = At(s, h, l) => k = l
      /\ \A k, l \in 1 .. Len(s) + 1 : At(s, h, k) = At(s, h, l) => k = l
      /\ \A k \in 0 .. Len(s) + 1 : At(s, h, k) \in Node
  BY RingNodes
<1>2. /\ t \in Seq(Ops) /\ Len(t) = Len(s) - 1
      /\ \A k \in 1 .. Len(s) - 1 : t[k] = IF k < i THEN s[k] ELSE s[k + 1]
  BY RemoveAtProps
<1> HIDE DEF t
<1>3. \A k \in 0 .. Len(s) : At(t, h, k) = IF k < i THEN At(s, h, k) ELSE At(s, h, k + 1)
  <2> SUFFICES ASSUME NEW k \in 0 .. Len(s)
               PROVE  At(t, h, k) = IF k < i THEN At(s, h, k) ELSE At(s, h, k + 1)
    OBVIOUS
  <2>1. CASE k = 0
    BY <1>1, <1>2, <2>1 DEF At
  <2>2. CASE k = Len(s)
    BY <1>1, <1>2, <2>2 DEF At
  <2>3. CASE k \in 1 .. Len(s) - 1
    BY <1>1, <1>2, <2>3 DEF At
  <2> QED BY <1>1, <2>1, <2>2, <2>3
<1>4. /\ i - 1 \in 0 .. Len(s) /\ i + 1 \in 1 .. Len(s) + 1 /\ i \in 0 .. Len(s) /\ i \in Int
      /\ (i - 1) + 1 = i
  BY <1>1
<1>5. n[s[i]] = At(s, h, i + 1) /\ p[s[i]] = At(s, h, i - 1)
  BY <1>1, <1>4 DEF IsRing
<1>6. /\ n2 = [n EXCEPT ![At(s, h, i - 1)] = At(s, h, i + 1)]
      /\ p2 = [p EXCEPT ![At(s, h, i + 1)] = At(s, h, i - 1)]
      /\ n \in [Node -> Node] /\ p \in [Node -> Node]
  BY <1>5 DEF Unlinked
<1>7. /\ n2[At(s, h, i - 1)] = At(s, h, i + 1)
      /\ p2[At(s, h, i + 1)] = At(s, h, i - 1)
  BY <1>1, <1>4, <1>6
<1>8. ASSUME NEW k \in 0 .. Len(s), k # i - 1 PROVE n2[At(s, h, k)] = At(s, h, k + 1)
  BY <1>1, <1>4, <1>6, <1>8 DEF IsRing
<1>9. ASSUME NEW k \in 0 .. Len(s), k # i PROVE p2[At(s, h, k + 1)] = At(s, h, k)
  <2>1. k + 1 \in 1 .. Len(s) + 1 /\ k + 1 # i + 1
    BY <1>1, <1>4, <1>9
  <2>2. At(s, h, k + 1) # At(s, h, i + 1)
    BY <1>1, <1>4, <2>1
  <2>3. p2[At(s, h, k + 1)] = p[At(s, h, k + 1)]
    BY <1>1, <1>6, <2>1, <2>2
  <2> QED BY <2>3 DEF IsRing
<1>10. ASSUME NEW k \in 0 .. Len(t)
       PROVE  n2[At(t, h, k)] = At(t, h, k + 1) /\ p2[At(t, h, k + 1)] = At(t, h, k)
  <2>1. k \in 0 .. Len(s) /\ k + 1 \in 0 .. Len(s) /\ k \in Int /\ (k + 1) + 1 = k + 2
    BY <1>1, <1>2, <1>10
  <2>2. CASE k = i - 1
    <3>1. At(t, h, k) = At(s, h, i - 1) /\ At(t, h, k + 1) = At(s, h, i + 1)
      BY <1>3, <1>4, <2>1, <2>2
    <3> QED BY <1>7, <3>1
  <2>3. CASE k < i - 1
    <3>1. At(t, h, k) = At(s, h, k) /\ At(t, h, k + 1) = At(s, h, k + 1)
      BY <1>3, <1>4, <2>1, <2>3
    <3> QED BY <1>4, <1>8, <1>9, <2>1, <2>3, <3>1
  <2>4. CASE k > i - 1
    <3>1. /\ At(t, h, k) = At(s, h, k + 1) /\ At(t, h, k + 1) = At(s, h, (k + 1) + 1)
          /\ k + 1 # i /\ k + 1 # i - 1
      BY <1>3, <1>4, <2>1, <2>4
    <3> QED BY <1>8, <1>9, <2>1, <3>1
  <2> QED BY <1>4, <2>1, <2>2, <2>3, <2>4
<1>11. IsRing(n2, p2, h, t)
  BY <1>10 DEF IsRing
<1> QED BY <1>11 DEF t

(* link_before the root: the operation o goes between the last one and h.  *)
LEMMA LinkRing ==
  ASSUME NEW n \in [Node -> Node], NEW p \in [Node -> Node], NEW n2, NEW p2,
         NEW h \in Holders, NEW s \in Seq(Ops), IsRing(n, p, h, s),
         \A i, j \in 1 .. Len(s) : s[i] = s[j] => i = j,
         NEW o \in Ops, o \notin Range(s), LinkedBefore(o, h, n, p, n2, p2)
  PROVE  IsRing(n2, p2, h, Append(s, o))
<1> DEFINE t == Append(s, o)
<1>1. /\ Len(s) \in Nat /\ At(s, h, 0) = h /\ At(s, h, Len(s) + 1) = h
      /\ \A k \in 1 .. Len(s) : At(s, h, k) = s[k]
      /\ \A k, l \in 0 .. Len(s) : At(s, h, k) = At(s, h, l) => k = l
      /\ \A k, l \in 1 .. Len(s) + 1 : At(s, h, k) = At(s, h, l) => k = l
      /\ \A k \in 0 .. Len(s) + 1 : At(s, h, k) \in Node /\ At(s, h, k) \in {h} \cup Range(s)
  BY RingNodes
<1>2. /\ t \in Seq(Ops) /\ Len(t) = Len(s) + 1
      /\ \A k \in 1 .. Len(s) : t[k] = s[k]
      /\ t[Len(s) + 1] = o
  OBVIOUS
<1> HIDE DEF t
<1>3. /\ \A k \in 0 .. Len(s) : At(t, h, k) = At(s, h, k)
      /\ At(t, h, Len(s) + 1) = o /\ At(t, h, (Len(s) + 1) + 1) = h
  BY <1>1, <1>2 DEF At
<1>4. o # h /\ o \in Node /\ h \in Node /\ \A k \in 0 .. Len(s) + 1 : At(s, h, k) # o
  BY <1>1, DisjointNodes DEF Node
<1>5. p[h] = At(s, h, Len(s))
  <2>1. Len(s) \in 0 .. Len(s)
    BY <1>1
  <2> QED BY <1>1, <2>1 DEF IsRing
<1>6. /\ n2 = [n EXCEPT ![o] = h, ![At(s, h, Len(s))] = o]
      /\ p2 = [p EXCEPT ![o] = At(s, h, Len(s)), ![h] = o]
      /\ n \in [Node -> Node] /\ p \in [Node -> Node]
  BY <1>5 DEF LinkedBefore
<1>7. /\ Len(s) \in 0 .. Len(s) /\ Len(s) + 1 \in 1 .. Len(s) + 1
      /\ At(s, h, Len(s)) \in Node /\ At(s, h, Len(s)) # o
  BY <1>1, <1>4
<1>8. /\ n2[o] = h /\ n2[At(s, h, Len(s))] = o
      /\ p2[o] = At(s, h, Len(s)) /\ p2[h] = o
  BY <1>4, <1>6, <1>7
<1>9. ASSUME NEW k \in 0 .. Len(s), k # Len(s)
      PROVE  n2[At(s, h, k)] = At(s, h, k + 1) /\ p2[At(s, h, k + 1)] = At(s, h, k)
  <2>1. /\ k + 1 \in 1 .. Len(s) + 1 /\ k + 1 # Len(s) + 1 /\ k + 1 \in 0 .. Len(s) + 1
        /\ k \in 0 .. Len(s) + 1
    BY <1>1, <1>9
  <2>2. At(s, h, k) # At(s, h, Len(s)) /\ At(s, h, k + 1) # h
    BY <1>1, <1>7, <1>9, <2>1
  <2>3. /\ At(s, h, k) \in Node /\ At(s, h, k) # o
        /\ At(s, h, k + 1) \in Node /\ At(s, h, k + 1) # o
    BY <1>1, <1>4, <2>1
  <2>4. n2[At(s, h, k)] = n[At(s, h, k)] /\ p2[At(s, h, k + 1)] = p[At(s, h, k + 1)]
    BY <1>6, <2>2, <2>3
  <2> QED BY <2>4 DEF IsRing
<1>10. ASSUME NEW k \in 0 .. Len(t)
       PROVE  n2[At(t, h, k)] = At(t, h, k + 1) /\ p2[At(t, h, k + 1)] = At(t, h, k)
  <2>1. CASE k = Len(s) + 1
    BY <1>3, <1>8, <2>1
  <2>2. CASE k = Len(s)
    BY <1>3, <1>7, <1>8, <2>2
  <2>3. CASE k \in 0 .. Len(s) /\ k # Len(s)
    <3>1. k + 1 \in 0 .. Len(s)
      BY <1>1, <2>3
    <3> QED BY <1>3, <1>9, <2>3, <3>1
  <2>4. k = Len(s) + 1 \/ k \in 0 .. Len(s)
    BY <1>1, <1>2
  <2> QED BY <2>1, <2>2, <2>3, <2>4
<1>11. IsRing(n2, p2, h, t)
  BY <1>10 DEF IsRing
<1> QED BY <1>11 DEF t

(* A place before the last one.                                            *)
LEMMA NextPlace ==
  ASSUME NEW N \in Nat, NEW k \in 1 .. N, k # N
  PROVE  k + 1 \in 1 .. N /\ k \in 0 .. N /\ k + 1 # 1
OBVIOUS

(* The move constructor of a list that is not empty: the same operations   *)
(* around a new root, and the old root alone.                              *)
LEMMA MoveRing ==
  ASSUME NEW n \in [Node -> Node], NEW p \in [Node -> Node], NEW n2, NEW p2,
         NEW from \in Holders, NEW to \in Holders, to # from,
         NEW s \in Seq(Ops), s # << >>, IsRing(n, p, from, s),
         \A i, j \in 1 .. Len(s) : s[i] = s[j] => i = j,
         Moved(to, from, n, p, n2, p2)
  PROVE  /\ IsRing(n2, p2, to, s) /\ IsRing(n2, p2, from, << >>)
         /\ Agree(n, p, n2, p2, Node \ ({from, to} \cup Range(s)))
<1>1. /\ Len(s) \in Nat /\ Len(s) # 0 /\ DOMAIN s = 1 .. Len(s)
      /\ At(s, from, 0) = from /\ At(s, from, Len(s) + 1) = from
      /\ \A k \in 1 .. Len(s) : At(s, from, k) = s[k] /\ s[k] \in Ops /\ s[k] # from
  BY RingNodes
<1>2. /\ At(s, to, 0) = to /\ At(s, to, Len(s) + 1) = to
      /\ \A k \in 1 .. Len(s) : At(s, to, k) = s[k] /\ s[k] # to
  BY RingNodes
<1>3. /\ 1 \in 1 .. Len(s) /\ Len(s) \in 1 .. Len(s) /\ 0 \in 0 .. Len(s) /\ Len(s) \in 0 .. Len(s)
      /\ 0 + 1 = 1
  BY <1>1
<1>4. n[from] = s[1] /\ p[from] = s[Len(s)]
  <2>1. n[At(s, from, 0)] = At(s, from, 0 + 1)
    BY <1>3 DEF IsRing
  <2>2. p[At(s, from, Len(s) + 1)] = At(s, from, Len(s))
    BY <1>3 DEF IsRing
  <2> QED BY <1>1, <1>3, <2>1, <2>2
<1>5. /\ n2 = [n EXCEPT ![from] = from, ![to] = s[1], ![s[Len(s)]] = to]
      /\ p2 = [p EXCEPT ![from] = from, ![to] = s[Len(s)], ![s[1]] = to]
      /\ n \in [Node -> Node] /\ p \in [Node -> Node]
  BY <1>1, <1>3, <1>4 DEF Moved
<1>6. /\ from \in Node /\ to \in Node /\ \A k \in 1 .. Len(s) : s[k] \in Node
  BY <1>1 DEF Node
<1>7. /\ n2[from] = from /\ p2[from] = from
      /\ n2[to] = s[1] /\ n2[s[Len(s)]] = to
      /\ p2[to] = s[Len(s)] /\ p2[s[1]] = to
  BY <1>1, <1>2, <1>3, <1>5, <1>6
<1>8. ASSUME NEW k \in 1 .. Len(s), k # Len(s)
      PROVE  n2[s[k]] = s[k + 1] /\ p2[s[k + 1]] = s[k]
  <2>1. k + 1 \in 1 .. Len(s) /\ k \in 0 .. Len(s) /\ k + 1 # 1
    BY <1>1, <1>8, NextPlace
  <2>2. s[k] # s[Len(s)] /\ s[k + 1] # s[1]
    BY <1>3, <1>8, <2>1
  <2>3. n[s[k]] = s[k + 1] /\ p[s[k + 1]] = s[k]
    BY <1>1, <2>1 DEF IsRing
  <2>4. n2[s[k]] = n[s[k]]
    BY <1>1, <1>2, <1>5, <1>6, <2>2
  <2>5. p2[s[k + 1]] = p[s[k + 1]]
    BY <1>1, <1>2, <1>5, <1>6, <2>1, <2>2
  <2> QED BY <2>3, <2>4, <2>5
<1>9. ASSUME NEW k \in 0 .. Len(s)
      PROVE  n2[At(s, to, k)] = At(s, to, k + 1) /\ p2[At(s, to, k + 1)] = At(s, to, k)
  <2>1. CASE k = 0
    BY <1>2, <1>3, <1>7, <2>1
  <2>2. CASE k = Len(s)
    BY <1>2, <1>3, <1>7, <2>2
  <2>3. CASE k \in 1 .. Len(s) /\ k # Len(s)
    <3>1. k + 1 \in 1 .. Len(s)
      BY <1>1, <2>3, NextPlace
    <3>2. At(s, to, k) = s[k] /\ At(s, to, k + 1) = s[k + 1]
      BY <1>2, <2>3, <3>1
    <3>3. n2[s[k]] = s[k + 1] /\ p2[s[k + 1]] = s[k]
      BY <1>8, <2>3
    <3> QED BY <3>2, <3>3
  <2>4. k = 0 \/ k \in 1 .. Len(s)
    BY <1>1
  <2> QED BY <2>1, <2>2, <2>3, <2>4
<1>10. IsRing(n2, p2, to, s)
  BY <1>9 DEF IsRing
<1>11. IsRing(n2, p2, from, << >>)
  BY <1>7, EmptyRing
<1>12. s[1] \in Range(s) /\ s[Len(s)] \in Range(s)
  BY <1>1, <1>3 DEF Range
<1>13. ASSUME NEW k \in Node, k \notin {from, to} \cup Range(s)
       PROVE  n2[k] = n[k] /\ p2[k] = p[k]
  BY <1>5, <1>12, <1>13
<1> QED BY <1>10, <1>11, <1>13 DEF Agree

-----------------------------------------------------------------------------
(* What rings say about one root, and about two.                           *)
LEMMA RingFacts ==
  ASSUME NEW n, NEW p, NEW L, NEW q, Rings(n, p, L, q), NEW h \in L
  PROVE  /\ h \in Holders /\ h \in Node /\ q[h] \in Seq(Ops) /\ IsRing(n, p, h, q[h])
         /\ \A i, j \in 1 .. Len(q[h]) : q[h][i] = q[h][j] => i = j
         /\ Range(q[h]) \subseteq InSome(q) /\ Range(q[h]) \subseteq Ops
         /\ {h} \cup Range(q[h]) \subseteq Node
<1>1. h \in Holders /\ h \in Node /\ q[h] \in Seq(Ops) /\ IsRing(n, p, h, q[h])
  BY DEF Rings, Node
<1>2. \A i, j \in 1 .. Len(q[h]) : q[h][i] = q[h][j] => i = j
  BY <1>1 DEF Rings, NoneTwice
<1>3. Range(q[h]) \subseteq InSome(q)
  BY <1>1 DEF InSome
<1>4. Range(q[h]) \subseteq Ops
  BY <1>1, QueueElements
<1>5. {h} \cup Range(q[h]) \subseteq Node
  BY <1>1, <1>4 DEF Node
<1> QED BY <1>1, <1>2, <1>3, <1>4, <1>5

LEMMA RingsApart ==
  ASSUME NEW n, NEW p, NEW L, NEW q, Rings(n, p, L, q), NEW h \in Holders, NEW k \in Holders, k # h
  PROVE  ({k} \cup Range(q[k])) \cap ({h} \cup Range(q[h])) = {}
<1>1. q[h] \in Seq(Ops) /\ q[k] \in Seq(Ops)
  BY DEF Rings
<1>2. /\ DOMAIN q[k] = 1 .. Len(q[k]) /\ DOMAIN q[h] = 1 .. Len(q[h])
      /\ Range(q[k]) \subseteq Ops /\ Range(q[h]) \subseteq Ops
  BY <1>1, QueueElements
<1>3. Range(q[k]) \cap Range(q[h]) = {}
  BY <1>2 DEF Rings, NoneTwice, Range
<1> QED BY <1>2, <1>3, DisjointNodes

(* An operation in a queue has a place in the ring of a root.              *)
LEMMA OpPlace ==
  ASSUME NEW n, NEW p, NEW L, NEW q, Rings(n, p, L, q), NEW o \in InSome(q)
  PROVE  \E h \in L : \E i : Nth(q, h, i, o)
<1>1. PICK h \in Holders : o \in Range(q[h])
  BY DEF InSome
<1>2. q[h] \in Seq(Ops) /\ q[h] # << >>
  BY <1>1, EmptyQueue DEF Rings
<1>3. h \in L
  BY <1>2 DEF Rings
<1>4. PICK i \in DOMAIN q[h] : q[h][i] = o
  BY <1>1 DEF Range
<1>5. Nth(q, h, i, o)
  BY <1>2, <1>4 DEF Nth
<1> QED BY <1>3, <1>5

(* The neighbours of an operation, and the front of a queue.               *)
LEMMA Neighbours ==
  ASSUME NEW n, NEW p, NEW L, NEW q, Rings(n, p, L, q), NEW h \in L,
         NEW i, NEW o, Nth(q, h, i, o)
  PROVE  /\ n[o] \in {h} \cup Range(q[h]) /\ p[o] \in {h} \cup Range(q[h])
         /\ p[n[o]] = o /\ n[p[o]] = o /\ o \in Range(q[h]) /\ o \in Ops
<1>1. PICK s \in Seq(Ops) : s = q[h]
  BY RingFacts
<1>2. /\ h \in Holders /\ IsRing(n, p, h, s) /\ \A k, l \in 1 .. Len(s) : s[k] = s[l] => k = l
      /\ i \in 1 .. Len(s) /\ o = s[i] /\ DOMAIN s = 1 .. Len(s)
  BY <1>1, RingFacts DEF Nth
<1>3. /\ \A k \in 0 .. Len(s) + 1 : At(s, h, k) \in {h} \cup Range(s)
      /\ At(s, h, i) = o /\ Len(s) \in Nat /\ o \in Ops
  BY <1>2, RingNodes
<1>4. /\ i \in 0 .. Len(s) /\ i - 1 \in 0 .. Len(s) /\ (i - 1) + 1 = i
      /\ i + 1 \in 0 .. Len(s) + 1 /\ i - 1 \in 0 .. Len(s) + 1
  BY <1>2, <1>3
<1>5. n[o] = At(s, h, i + 1) /\ p[At(s, h, i + 1)] = o
  BY <1>2, <1>3, <1>4 DEF IsRing
<1>6. p[o] = At(s, h, i - 1) /\ n[At(s, h, i - 1)] = o
  BY <1>2, <1>3, <1>4 DEF IsRing
<1>7. o \in Range(s)
  BY <1>2 DEF Range
<1> QED BY <1>1, <1>3, <1>4, <1>5, <1>6, <1>7

LEMMA RootPointers ==
  ASSUME NEW n, NEW p, NEW L, NEW q, Rings(n, p, L, q), NEW h \in L
  PROVE  /\ n[h] \in {h} \cup Range(q[h]) /\ p[h] \in {h} \cup Range(q[h])
         /\ p[n[h]] = h /\ n[p[h]] = h
         /\ q[h] = << >> <=> n[h] = h
         /\ q[h] # << >> => Nth(q, h, 1, n[h])
<1>1. PICK s \in Seq(Ops) : s = q[h]
  BY RingFacts
<1>2. h \in Holders /\ IsRing(n, p, h, s) /\ \A k, l \in 1 .. Len(s) : s[k] = s[l] => k = l
  BY <1>1, RingFacts
<1>3. /\ Len(s) \in Nat /\ At(s, h, 0) = h /\ At(s, h, Len(s) + 1) = h
      /\ \A k \in 1 .. Len(s) : At(s, h, k) = s[k] /\ s[k] # h
      /\ \A k \in 0 .. Len(s) + 1 : At(s, h, k) \in {h} \cup Range(s)
  BY <1>2, RingNodes
<1>4. /\ 0 \in 0 .. Len(s) /\ Len(s) \in 0 .. Len(s) /\ 0 + 1 \in 0 .. Len(s) + 1
      /\ Len(s) \in 0 .. Len(s) + 1 /\ 0 + 1 = 1
  BY <1>3
<1>5. n[h] = At(s, h, 0 + 1) /\ p[At(s, h, 0 + 1)] = h
  BY <1>2, <1>3, <1>4 DEF IsRing
<1>6. p[h] = At(s, h, Len(s)) /\ n[At(s, h, Len(s))] = h
  BY <1>2, <1>3, <1>4 DEF IsRing
<1>7. s = << >> => n[h] = h
  BY <1>2, EmptyRing
<1>8. ASSUME s # << >> PROVE 1 \in 1 .. Len(s) /\ n[h] = s[1] /\ n[h] # h
  <2>1. 1 \in 1 .. Len(s)
    BY <1>3, <1>8
  <2> QED BY <1>3, <1>4, <1>5, <2>1
<1> QED BY <1>1, <1>3, <1>4, <1>5, <1>6, <1>7, <1>8 DEF Nth

(* q becomes r, in which only the queues of the roots H changed.           *)
Changes(H, n, p, L, q, n2, p2, L2, r) ==
  /\ n2 \in [Node -> Node] /\ p2 \in [Node -> Node] /\ r \in [Holders -> Seq(Ops)]
  /\ L2 \subseteq Holders /\ L2 \subseteq L \cup H
  /\ \A k \in Holders \ H : r[k] = q[k]
  /\ \A k \in L \ H : Agree(n, p, n2, p2, {k} \cup Range(q[k]))
  /\ \A k \in Holders \ L2 : r[k] = << >>
  /\ \A k \in H \cap L2 : IsRing(n2, p2, k, r[k])
  /\ NoneTwice(r)

LEMMA NewRings ==
  ASSUME NEW n, NEW p, NEW L, NEW q, Rings(n, p, L, q),
         NEW H, NEW n2, NEW p2, NEW L2, NEW r, Changes(H, n, p, L, q, n2, p2, L2, r)
  PROVE  Rings(n2, p2, L2, r)
<1>1. ASSUME NEW k \in L2 PROVE IsRing(n2, p2, k, r[k])
  <2>1. CASE k \in H
    BY <1>1, <2>1 DEF Changes
  <2>2. CASE k \notin H
    <3>1. k \in L /\ k \in Holders /\ r[k] = q[k] /\ q[k] \in Seq(Ops) /\ IsRing(n, p, k, q[k])
      BY <1>1, <2>2, RingFacts DEF Changes
    <3>2. \A a \in {k} \cup Range(q[k]) : n2[a] = n[a] /\ p2[a] = p[a]
      BY <2>2, <3>1 DEF Agree, Changes
    <3>3. IsRing(n2, p2, k, q[k])
      BY <3>1, <3>2, RingFrame
    <3> QED BY <3>1, <3>3
  <2> QED BY <2>1, <2>2
<1> QED BY <1>1 DEF Rings, Changes

(* Nodes in no ring may be written.                                        *)
LEMMA OtherNodes ==
  ASSUME NEW n, NEW p, NEW L, NEW q, Rings(n, p, L, q),
         NEW n2 \in [Node -> Node], NEW p2 \in [Node -> Node],
         Agree(n, p, n2, p2, L \cup InSome(q))
  PROVE  Rings(n2, p2, L, q)
<1>1. L \in SUBSET Holders /\ q \in [Holders -> Seq(Ops)] /\ NoneTwice(q)
      /\ \A k \in Holders \ L : q[k] = << >>
  BY DEF Rings
<1>2. ASSUME NEW k \in L PROVE Agree(n, p, n2, p2, {k} \cup Range(q[k]))
  <2>1. Range(q[k]) \subseteq InSome(q)
    BY RingFacts
  <2> QED BY <2>1 DEF Agree
<1>3. PICK H \in SUBSET Holders : H = {}
  OBVIOUS
<1>4. \A k \in H \cap L : IsRing(n2, p2, k, q[k])
  BY <1>3
<1>5. \A k \in L \ H : Agree(n, p, n2, p2, {k} \cup Range(q[k]))
  BY <1>2
<1>6. Changes(H, n, p, L, q, n2, p2, L, q)
  BY <1>1, <1>4, <1>5 DEF Changes
<1> QED BY <1>6, NewRings

(* unlink: the operation leaves its queue and no other changes.            *)
LEMMA UnlinkRings ==
  ASSUME NEW n, NEW p, NEW L, NEW q, Rings(n, p, L, q), NEW h \in L,
         NEW i, NEW o, Nth(q, h, i, o), NEW n2, NEW p2, Unlinked(o, n, p, n2, p2)
  PROVE  /\ Rings(n2, p2, L, Without(q, h, i))
         /\ InSome(Without(q, h, i)) = InSome(q) \ {o}
         /\ \A k \in Holders : Range(Without(q, h, i)[k]) = Range(q[k]) \ {o}
<1>1. PICK s \in Seq(Ops) : s = q[h]
  BY RingFacts
<1>2. /\ h \in Holders /\ IsRing(n, p, h, s) /\ \A k, l \in 1 .. Len(s) : s[k] = s[l] => k = l
      /\ i \in 1 .. Len(s) /\ i \in DOMAIN s /\ DOMAIN s = 1 .. Len(s) /\ Len(s) \in Nat
      /\ {h} \cup Range(s) \subseteq Node /\ o = s[i]
  BY <1>1, RingFacts DEF Nth
<1>3. /\ q \in [Holders -> Seq(Ops)] /\ L \in SUBSET Holders
      /\ n \in [Node -> Node] /\ p \in [Node -> Node] /\ o = s[i]
  BY <1>2 DEF Rings
<1>4. PICK t \in Seq(Ops) : t = RemoveAt(s, i)
  BY <1>2, LeaveQueue
<1>5. /\ IsRing(n2, p2, h, t) /\ Len(t) = Len(s) - 1
      /\ \A k \in 1 .. Len(s) - 1 : t[k] = IF k < i THEN s[k] ELSE s[k + 1]
      /\ Range(t) = Range(s) \ {o}
  <2>1. IsRing(n2, p2, h, t)
    BY <1>2, <1>3, <1>4, UnlinkRing
  <2>2. Len(t) = Len(s) - 1 /\ \A k \in 1 .. Len(s) - 1 : t[k] = IF k < i THEN s[k] ELSE s[k + 1]
    BY <1>2, <1>4, RemoveAtProps
  <2>3. IsInjective(s)
    BY <1>2 DEF IsInjective
  <2>4. Range(RemoveAt(s, i)) = Range(s) \ {s[i]}
    BY <1>2, <2>3, LeaveQueue
  <2> QED BY <1>3, <1>4, <2>1, <2>2, <2>4
<1>6. PICK r \in [Holders -> Seq(Ops)] : r = [q EXCEPT ![h] = t]
  BY <1>3
<1>7. r[h] = t /\ \A k \in Holders \ {h} : r[k] = q[k]
  BY <1>2, <1>3, <1>6
<1>8. n[o] \in {h} \cup Range(s) /\ p[o] \in {h} \cup Range(s)
  BY <1>1, Neighbours
<1>9. n2 \in [Node -> Node] /\ p2 \in [Node -> Node]
  BY <1>2, <1>3, <1>8 DEF Unlinked
<1>10. ASSUME NEW k \in L \ {h} PROVE Agree(n, p, n2, p2, {k} \cup Range(q[k]))
  <2>1. k \in Holders \ {h} /\ {k} \cup Range(q[k]) \subseteq Node
    BY <1>10, RingFacts
  <2>2. ({k} \cup Range(q[k])) \cap ({h} \cup Range(s)) = {}
    BY <1>1, <1>2, <2>1, RingsApart
  <2> QED BY <1>3, <1>8, <2>1, <2>2 DEF Agree, Unlinked
<1>11. NoneTwice(r)
  <2> DEFINE at(k, j) == IF k # h \/ j < i THEN j ELSE j + 1
  <2>1. ASSUME NEW k \in Holders, NEW j \in 1 .. Len(r[k])
        PROVE  at(k, j) \in 1 .. Len(q[k]) /\ r[k][j] = q[k][at(k, j)]
    <3>1. CASE k = h
      BY <1>1, <1>2, <1>5, <1>7, <2>1, <3>1
    <3>2. CASE k # h
      BY <1>7, <2>1, <3>2
    <3> QED BY <3>1, <3>2
  <2>2. \A k \in Holders : \A j, l \in 1 .. Len(r[k]) : at(k, j) = at(k, l) => j = l
    BY <1>2
  <2> HIDE DEF at
  <2>3. ASSUME NEW k \in Holders, NEW l \in Holders,
               NEW j \in 1 .. Len(r[k]), NEW m \in 1 .. Len(r[l]), r[k][j] = r[l][m]
        PROVE  k = l /\ j = m
    <3>1. /\ at(k, j) \in 1 .. Len(q[k]) /\ at(l, m) \in 1 .. Len(q[l])
          /\ q[k][at(k, j)] = q[l][at(l, m)]
      BY <2>1, <2>3
    <3>2. k = l /\ at(k, j) = at(l, m)
      BY <3>1 DEF Rings, NoneTwice
    <3> QED BY <2>2, <3>2
  <2> QED BY <2>3 DEF NoneTwice
<1>12. \A k \in Holders : Range(r[k]) = Range(q[k]) \ {o}
  <2>1. o \in Range(s)
    BY <1>2, <1>3 DEF Range
  <2>2. ASSUME NEW k \in Holders \ {h} PROVE o \notin Range(q[k])
    <3>1. ({k} \cup Range(q[k])) \cap ({h} \cup Range(q[h])) = {}
      BY <1>2, RingsApart
    <3> QED BY <1>1, <2>1, <3>1
  <2>3. Range(r[h]) = Range(q[h]) \ {o}
    BY <1>1, <1>5, <1>7
  <2>4. ASSUME NEW k \in Holders \ {h} PROVE Range(r[k]) = Range(q[k]) \ {o}
    <3>1. r[k] = q[k] /\ o \notin Range(q[k])
      BY <1>7, <2>2
    <3> QED BY <3>1
  <2> QED BY <2>3, <2>4
<1>13. InSome(r) = InSome(q) \ {o}
  BY <1>12 DEF InSome
<1>14. \A k \in Holders \ L : r[k] = << >>
  BY <1>7 DEF Rings
<1>15. Rings(n2, p2, L, r)
  <2>1. PICK H \in SUBSET Holders : H = {h}
    BY <1>2
  <2>2. \A k \in Holders \ H : r[k] = q[k]
    BY <1>7, <2>1
  <2>3. \A k \in L \ H : Agree(n, p, n2, p2, {k} \cup Range(q[k]))
    BY <1>10, <2>1
  <2>4. \A k \in H \cap L : IsRing(n2, p2, k, r[k])
    BY <1>5, <1>7, <2>1
  <2>5. Changes(H, n, p, L, q, n2, p2, L, r)
    BY <1>3, <1>9, <1>11, <1>14, <2>2, <2>3, <2>4 DEF Changes
  <2> QED BY <2>5, NewRings
<1>16. r = Without(q, h, i)
  BY <1>1, <1>4, <1>6 DEF Without
<1> QED BY <1>12, <1>13, <1>15, <1>16

(* link_before a root: the operation is now last in its queue.             *)
LEMMA LinkRings ==
  ASSUME NEW n, NEW p, NEW L, NEW q, Rings(n, p, L, q), NEW h \in L,
         NEW o \in Ops, o \notin InSome(q), NEW n2, NEW p2,
         LinkedBefore(o, h, n, p, n2, p2)
  PROVE  /\ Rings(n2, p2, L, With(q, h, o))
         /\ InSome(With(q, h, o)) = InSome(q) \cup {o}
         /\ \A k \in Holders : Range(With(q, h, o)[k]) =
                                 IF k = h THEN Range(q[k]) \cup {o} ELSE Range(q[k])
<1>1. PICK s \in Seq(Ops) : s = q[h]
  BY RingFacts
<1>2. /\ h \in Holders /\ IsRing(n, p, h, s) /\ \A k, l \in 1 .. Len(s) : s[k] = s[l] => k = l
      /\ DOMAIN s = 1 .. Len(s) /\ Len(s) \in Nat
      /\ Range(s) \subseteq InSome(q) /\ {h} \cup Range(s) \subseteq Node
  BY <1>1, RingFacts
<1>3. /\ q \in [Holders -> Seq(Ops)] /\ L \in SUBSET Holders
      /\ n \in [Node -> Node] /\ p \in [Node -> Node] /\ o \in Node /\ o \notin Holders
  BY DisjointNodes DEF Rings, Node
<1>4. PICK t \in Seq(Ops) : t = Append(s, o)
  BY JoinQueue
<1>5. /\ IsRing(n2, p2, h, t) /\ Len(t) = Len(s) + 1 /\ t[Len(s) + 1] = o
      /\ \A k \in 1 .. Len(s) : t[k] = s[k]
      /\ Range(t) = Range(s) \cup {o}
  <2>1. IsRing(n2, p2, h, t)
    BY <1>2, <1>3, <1>4, LinkRing
  <2>2. Len(t) = Len(s) + 1 /\ t[Len(s) + 1] = o /\ \A k \in 1 .. Len(s) : t[k] = s[k]
    BY <1>2, <1>4
  <2> QED BY <1>4, <2>1, <2>2, JoinQueue
<1>6. PICK r \in [Holders -> Seq(Ops)] : r = [q EXCEPT ![h] = t]
  BY <1>3
<1>7. r[h] = t /\ \A k \in Holders \ {h} : r[k] = q[k]
  BY <1>2, <1>3, <1>6
<1>8. p[h] \in {h} \cup Range(s)
  BY <1>1, RootPointers
<1>9. n2 \in [Node -> Node] /\ p2 \in [Node -> Node]
  BY <1>2, <1>3, <1>8 DEF LinkedBefore
<1>10. ASSUME NEW k \in L \ {h} PROVE Agree(n, p, n2, p2, {k} \cup Range(q[k]))
  <2>1. k \in Holders \ {h} /\ {k} \cup Range(q[k]) \subseteq Node /\ Range(q[k]) \subseteq InSome(q)
    BY <1>10, RingFacts
  <2>2. ({k} \cup Range(q[k])) \cap ({h} \cup Range(s)) = {}
    BY <1>1, <1>2, <2>1, RingsApart
  <2>3. \A a \in {k} \cup Range(q[k]) : a \in Node /\ a # o /\ a # h /\ a # p[h]
    BY <1>3, <1>8, <2>1, <2>2
  <2> QED BY <1>3, <2>3 DEF Agree, LinkedBefore
<1>11. NoneTwice(r)
  <2>1. \A k \in Holders : \A j \in 1 .. Len(q[k]) : q[k][j] # o
    <3>1. ASSUME NEW k \in Holders, NEW j \in 1 .. Len(q[k]) PROVE q[k][j] # o
      <4>1. q[k] \in Seq(Ops)
        BY <1>3
      <4>2. q[k][j] \in Range(q[k])
        BY <4>1 DEF Range
      <4> QED BY <4>2 DEF InSome
    <3> QED BY <3>1
  <2>2. \A k \in Holders : \A j \in 1 .. Len(r[k]) :
          \/ k = h /\ j = Len(s) + 1 /\ r[k][j] = o
          \/ j \in 1 .. Len(q[k]) /\ r[k][j] = q[k][j]
    BY <1>1, <1>2, <1>5, <1>7
  <2>3. ASSUME NEW k \in Holders, NEW l \in Holders,
               NEW j \in 1 .. Len(r[k]), NEW m \in 1 .. Len(r[l]), r[k][j] = r[l][m]
        PROVE  k = l /\ j = m
    <3>1. CASE r[k][j] = o
      <4>1. k = h /\ j = Len(s) + 1
        BY <2>1, <2>2, <2>3, <3>1
      <4>2. r[l][m] = o
        BY <2>3, <3>1
      <4>3. l = h /\ m = Len(s) + 1
        BY <2>1, <2>2, <4>2
      <4> QED BY <4>1, <4>3
    <3>2. CASE r[k][j] # o
      <4>1. /\ j \in 1 .. Len(q[k]) /\ m \in 1 .. Len(q[l])
            /\ q[k][j] = q[l][m]
        BY <2>2, <2>3, <3>2
      <4> QED BY <4>1 DEF Rings, NoneTwice
    <3> QED BY <3>1, <3>2
  <2> QED BY <2>3 DEF NoneTwice
<1>12. \A k \in Holders : Range(r[k]) = IF k = h THEN Range(q[k]) \cup {o} ELSE Range(q[k])
  BY <1>1, <1>5, <1>7
<1>13. InSome(r) = InSome(q) \cup {o}
  <2>1. InSome(r) \subseteq InSome(q) \cup {o}
    BY <1>12 DEF InSome
  <2>2. InSome(q) \subseteq InSome(r)
    BY <1>12 DEF InSome
  <2>3. o \in InSome(r)
    <3>1. o \in Range(r[h])
      BY <1>2, <1>12
    <3> QED BY <1>2, <3>1 DEF InSome
  <2> QED BY <2>1, <2>2, <2>3
<1>14. \A k \in Holders \ L : r[k] = << >>
  BY <1>7 DEF Rings
<1>15. Rings(n2, p2, L, r)
  <2>1. PICK H \in SUBSET Holders : H = {h}
    BY <1>2
  <2>2. \A k \in Holders \ H : r[k] = q[k]
    BY <1>7, <2>1
  <2>3. \A k \in L \ H : Agree(n, p, n2, p2, {k} \cup Range(q[k]))
    BY <1>10, <2>1
  <2>4. \A k \in H \cap L : IsRing(n2, p2, k, r[k])
    BY <1>5, <1>7, <2>1
  <2>5. Changes(H, n, p, L, q, n2, p2, L, r)
    BY <1>3, <1>9, <1>11, <1>14, <2>2, <2>3, <2>4 DEF Changes
  <2> QED BY <2>5, NewRings
<1>16. r = With(q, h, o)
  BY <1>1, <1>4, <1>6 DEF With
<1> QED BY <1>12, <1>13, <1>15, <1>16

(* The move constructor: to, which has no ring, takes over the queue.      *)
LEMMA MoveRings ==
  ASSUME NEW n, NEW p, NEW L, NEW q, Rings(n, p, L, q), NEW from \in L, NEW to \in Holders \ L,
         NEW n2, NEW p2, Moved(to, from, n, p, n2, p2)
  PROVE  /\ to # from /\ q[to] = << >>
         /\ Rings(n2, p2, L \cup {to}, TakenOver(q, to, from))
         /\ InSome(TakenOver(q, to, from)) = InSome(q)
<1>1. /\ to # from /\ q[to] = << >> /\ to \in Holders /\ to \in Node
      /\ q \in [Holders -> Seq(Ops)] /\ L \in SUBSET Holders
      /\ n \in [Node -> Node] /\ p \in [Node -> Node]
  BY DEF Rings, Node
<1>2. PICK s \in Seq(Ops) : s = q[from]
  BY RingFacts
<1>3. /\ IsRing(n, p, from, s) /\ \A k, l \in 1 .. Len(s) : s[k] = s[l] => k = l
      /\ from \in Holders /\ from \in Node /\ {from} \cup Range(s) \subseteq Node
  BY <1>2, RingFacts
<1>4. /\ IsRing(n2, p2, to, s) /\ IsRing(n2, p2, from, << >>)
      /\ Agree(n, p, n2, p2, Node \ ({from, to} \cup Range(s)))
      /\ n2 \in [Node -> Node] /\ p2 \in [Node -> Node]
  <2>1. CASE s = << >>
    <3>1. n[from] = from /\ p[from] = from
      BY <1>3, <2>1, EmptyRing
    <3>2. n2 = [n EXCEPT ![to] = to] /\ p2 = [p EXCEPT ![to] = to]
      BY <3>1 DEF Moved
    <3>3. /\ n2[to] = to /\ p2[to] = to /\ n2[from] = from /\ p2[from] = from
          /\ \A k \in Node : k # to => n2[k] = n[k] /\ p2[k] = p[k]
          /\ n2 \in [Node -> Node] /\ p2 \in [Node -> Node]
      BY <1>1, <1>3, <3>1, <3>2
    <3>4. IsRing(n2, p2, to, << >>) /\ IsRing(n2, p2, from, << >>)
      BY <3>3, EmptyRing
    <3> QED BY <2>1, <3>3, <3>4 DEF Agree
  <2>2. CASE s # << >>
    <3>1. n[from] # from /\ n[from] \in Node /\ p[from] \in Node
      BY <1>1, <1>2, <1>3, <2>2, RootPointers
    <3>2. /\ n2 = [n EXCEPT ![from] = from, ![to] = n[from], ![p[from]] = to]
          /\ p2 = [p EXCEPT ![from] = from, ![to] = p[from], ![n[from]] = to]
      BY <3>1 DEF Moved
    <3>3. n2 \in [Node -> Node] /\ p2 \in [Node -> Node]
      BY <1>1, <1>3, <3>1, <3>2
    <3>4. /\ IsRing(n2, p2, to, s) /\ IsRing(n2, p2, from, << >>)
          /\ Agree(n, p, n2, p2, Node \ ({from, to} \cup Range(s)))
      BY <1>1, <1>3, <2>2, MoveRing
    <3> QED BY <3>3, <3>4
  <2> QED BY <2>1, <2>2
<1>5. PICK r \in [Holders -> Seq(Ops)] : r = TakenOver(q, to, from)
  BY <1>1 DEF TakenOver
<1>6. r[to] = s /\ r[from] = << >> /\ \A k \in Holders \ {to, from} : r[k] = q[k]
  BY <1>1, <1>2, <1>3, <1>5 DEF TakenOver
<1>7. ASSUME NEW k \in L \ {to, from} PROVE Agree(n, p, n2, p2, {k} \cup Range(q[k]))
  <2>1. k \in Holders \ {from} /\ k # to /\ {k} \cup Range(q[k]) \subseteq Node /\ Range(q[k]) \subseteq Ops
    BY <1>7, RingFacts
  <2>2. ({k} \cup Range(q[k])) \cap ({from} \cup Range(s)) = {}
    BY <1>2, <1>3, <2>1, RingsApart
  <2>3. \A a \in {k} \cup Range(q[k]) : a \in Node \ ({from, to} \cup Range(s))
    BY <1>1, <2>1, <2>2, DisjointNodes
  <2> QED BY <1>4, <2>3 DEF Agree
<1>8. NoneTwice(r)
  <2> DEFINE was(k) == IF k = to THEN from ELSE k
  <2>1. Len(<< >>) = 0
    OBVIOUS
  <2>2. \A k \in Holders : \A j \in 1 .. Len(r[k]) :
          was(k) \in Holders /\ k # from /\ r[k] = q[was(k)]
    BY <1>2, <1>3, <1>6, <2>1
  <2>3. ASSUME NEW k \in Holders, NEW l \in Holders,
               NEW j \in 1 .. Len(r[k]), NEW m \in 1 .. Len(r[l]), r[k][j] = r[l][m]
        PROVE  k = l /\ j = m
    <3>1. /\ k # from /\ l # from /\ was(k) \in Holders /\ was(l) \in Holders
          /\ r[k] = q[was(k)] /\ r[l] = q[was(l)]
      BY <2>2, <2>3
    <3>2. was(k) = was(l) /\ j = m
      BY <2>3, <3>1 DEF Rings, NoneTwice
    <3> QED BY <3>1, <3>2
  <2> QED BY <2>3 DEF NoneTwice
<1>9. InSome(r) = InSome(q)
  <2>1. Range(<< >>) = {}
    BY EmptyQueue
  <2>2. ASSUME NEW o \in InSome(r) PROVE o \in InSome(q)
    <3>1. PICK k \in Holders : o \in Range(r[k])
      BY DEF InSome
    <3>2. \E l \in Holders : Range(r[k]) \subseteq Range(q[l])
      BY <1>2, <1>3, <1>6, <2>1
    <3> QED BY <3>1, <3>2 DEF InSome
  <2>3. ASSUME NEW o \in InSome(q) PROVE o \in InSome(r)
    <3>1. PICK k \in Holders : o \in Range(q[k])
      BY DEF InSome
    <3>2. \E l \in Holders : Range(q[k]) \subseteq Range(r[l])
      BY <1>1, <1>2, <1>6, <2>1
    <3> QED BY <3>1, <3>2 DEF InSome
  <2> QED BY <2>2, <2>3
<1>10. \A k \in Holders \ (L \cup {to}) : r[k] = << >>
  BY <1>3, <1>6 DEF Rings
<1>11. Rings(n2, p2, L \cup {to}, r)
  <2>1. PICK H : H = {to, from}
    OBVIOUS
  <2>2. /\ \A k \in Holders \ H : r[k] = q[k]
        /\ \A k \in L \ H : Agree(n, p, n2, p2, {k} \cup Range(q[k]))
    BY <1>6, <1>7, <2>1
  <2>3. \A k \in H \cap (L \cup {to}) : IsRing(n2, p2, k, r[k])
    BY <1>4, <1>6, <2>1
  <2>4. L \cup {to} \subseteq Holders /\ L \cup {to} \subseteq L \cup H
    BY <1>1, <2>1
  <2>5. Changes(H, n, p, L, q, n2, p2, L \cup {to}, r)
    BY <1>4, <1>8, <1>10, <2>2, <2>3, <2>4 DEF Changes
  <2> QED BY <2>5, NewRings
<1> QED BY <1>1, <1>5, <1>9, <1>11

(* A root alone comes or goes.                                             *)
LEMMA NewRoot ==
  ASSUME NEW n, NEW p, NEW L, NEW q, Rings(n, p, L, q), NEW h \in Holders \ L, NEW n2, NEW p2,
         n2 = [n EXCEPT ![h] = h], p2 = [p EXCEPT ![h] = h]
  PROVE  Rings(n2, p2, L \cup {h}, q)
<1>1. /\ n \in [Node -> Node] /\ p \in [Node -> Node] /\ L \subseteq Holders /\ h \in Node
      /\ q \in [Holders -> Seq(Ops)] /\ q[h] = << >> /\ NoneTwice(q)
      /\ \A k \in Holders \ (L \cup {h}) : q[k] = << >>
  BY DEF Rings, Node
<1>2. n2 \in [Node -> Node] /\ p2 \in [Node -> Node] /\ n2[h] = h /\ p2[h] = h
  BY <1>1
<1>3. IsRing(n2, p2, h, q[h])
  <2>1. IsRing(n2, p2, h, << >>)
    BY <1>2, EmptyRing
  <2> QED BY <1>1, <2>1
<1>4. PICK H \in SUBSET Holders : H = {h}
  OBVIOUS
<1>5. ASSUME NEW k \in L \ H PROVE Agree(n, p, n2, p2, {k} \cup Range(q[k]))
  <2>1. k \in Holders /\ {k} \cup Range(q[k]) \subseteq Node /\ Range(q[k]) \subseteq Ops
    BY <1>5, RingFacts
  <2>2. \A a \in {k} \cup Range(q[k]) : a \in Node /\ a # h
    BY <1>4, <1>5, <2>1, DisjointNodes
  <2> QED BY <1>1, <2>2 DEF Agree
<1>6. \A k \in H \cap (L \cup {h}) : IsRing(n2, p2, k, q[k])
  BY <1>3, <1>4
<1>7. L \cup {h} \subseteq Holders /\ L \cup {h} \subseteq L \cup H
  BY <1>1, <1>4
<1>8. Changes(H, n, p, L, q, n2, p2, L \cup {h}, q)
  BY <1>1, <1>2, <1>5, <1>6, <1>7 DEF Changes
<1> QED BY <1>8, NewRings

LEMMA RootGone ==
  ASSUME NEW n, NEW p, NEW L, NEW q, Rings(n, p, L, q), NEW h \in L, n[h] = h
  PROVE  Rings(n, p, L \ {h}, q)
<1>1. q[h] = << >>
  BY RootPointers
<1> QED BY <1>1 DEF Rings

-----------------------------------------------------------------------------
(* The lists of Bilist.  The pointers represent the queues q; this is the  *)
(* inductive invariant.  WellLinked and FrontIsOperation are not           *)
(* inductive, since they leave open which nodes share a ring.              *)
Represents(q) == Rings(next_, prev_, live, q) /\ linked = InSome(q)

IInv == TypeOK /\ \E q : Represents(q)

LEMMA RingsAreLinked == IInv => WellLinked
<1> SUFFICES ASSUME IInv, NEW a \in Active
             PROVE  /\ next_[a] \in Active /\ prev_[a] \in Active
                    /\ prev_[next_[a]] = a /\ next_[prev_[a]] = a
  BY DEF WellLinked
<1>1. PICK q : Rings(next_, prev_, live, q) /\ linked = InSome(q)
  BY DEF IInv, Represents
<1>2. PICK h \in live : /\ next_[a] \in {h} \cup Range(q[h]) /\ prev_[a] \in {h} \cup Range(q[h])
                        /\ prev_[next_[a]] = a /\ next_[prev_[a]] = a
  <2>1. CASE a \in live
    BY <1>1, <2>1, RootPointers
  <2>2. CASE a \in linked
    <3>1. PICK h \in live : \E i : Nth(q, h, i, a)
      BY <1>1, <2>2, OpPlace
    <3> QED BY <1>1, <3>1, Neighbours
  <2> QED BY <2>1, <2>2 DEF Active
<1>3. Range(q[h]) \subseteq linked
  BY <1>1, RingFacts
<1> QED BY <1>2, <1>3 DEF Active

LEMMA RingsHaveFronts == IInv => FrontIsOperation
<1> SUFFICES ASSUME IInv, NEW h \in live, next_[h] # h PROVE next_[h] \in linked
  BY DEF FrontIsOperation
<1>1. PICK q : Rings(next_, prev_, live, q) /\ linked = InSome(q)
  BY DEF IInv, Represents
<1>2. next_[h] \in {h} \cup Range(q[h])
  BY <1>1, RootPointers
<1>3. Range(q[h]) \subseteq linked
  BY <1>1, RingFacts
<1> QED BY <1>2, <1>3

(* The queues q become r by a step of WaitQueues, or stay.                 *)
QueueStep(q, r) ==
  \/ r = q
  \/ \E o \in Ops, h \in Holders :
       o \notin InSome(q) /\ r = With(q, h, o)
  \/ \E h \in Holders : \E i \in DOMAIN q[h] : r = Without(q, h, i)
  \/ \E to, from \in Holders :
       to # from /\ q[to] = << >> /\ r = TakenOver(q, to, from)

(* Every member function is a step of the queues it represents.            *)
LEMMA RepStep ==
  ASSUME TypeOK, NEW q, Represents(q), [Next]_vars
  PROVE  \E r : Represents(r)' /\ QueueStep(q, r)
<1>0. Rings(next_, prev_, live, q) /\ linked = InSome(q)
  BY DEF Represents
<1>1. ASSUME NEW h \in Holders, Construct(h) PROVE \E r : Represents(r)' /\ QueueStep(q, r)
  <2>1. /\ h \in Holders \ live /\ live' = live \cup {h} /\ linked' = linked
        /\ next_' = [next_ EXCEPT ![h] = h] /\ prev_' = [prev_ EXCEPT ![h] = h]
    BY <1>1 DEF Construct
  <2>2. Rings(next_', prev_', live', q)
    BY <1>0, <2>1, NewRoot
  <2> QED BY <1>0, <2>1, <2>2 DEF Represents, QueueStep
<1>2. ASSUME NEW h \in live, NEW i, NEW o, Nth(q, h, i, o),
             UnlinkPtrs(o), linked' = linked \ {o}, live' = live
      PROVE  \E r : Represents(r)' /\ QueueStep(q, r)
  <2>1. Unlinked(o, next_, prev_, next_', prev_')
    BY <1>2 DEF UnlinkPtrs, Unlinked
  <2>2. PICK r : r = Without(q, h, i)
    OBVIOUS
  <2>3. Rings(next_', prev_', live, r) /\ InSome(r) = InSome(q) \ {o}
    BY <1>0, <1>2, <2>1, <2>2, UnlinkRings
  <2>4. h \in Holders /\ q[h] \in Seq(Ops)
    BY <1>0, RingFacts
  <2>5. i \in DOMAIN q[h]
    BY <1>2, <2>4 DEF Nth
  <2>6. QueueStep(q, r)
    BY <2>2, <2>4, <2>5 DEF QueueStep
  <2>7. Represents(r)'
    BY <1>0, <1>2, <2>3 DEF Represents
  <2> QED BY <2>6, <2>7
<1>3. ASSUME NEW h \in Holders, CompleteFront(h) PROVE \E r : Represents(r)' /\ QueueStep(q, r)
  <2>1. /\ h \in live /\ next_[h] # h /\ linked' = linked \ {next_[h]}
        /\ UnlinkPtrs(next_[h]) /\ live' = live
    BY <1>3 DEF CompleteFront
  <2>2. Nth(q, h, 1, next_[h])
    BY <1>0, <2>1, RootPointers
  <2> QED BY <1>2, <2>1, <2>2
<1>4. ASSUME NEW h \in Holders, Destruct(h) PROVE \E r : Represents(r)' /\ QueueStep(q, r)
  <2>1. /\ h \in live /\ next_[h] = h /\ live' = live \ {h}
        /\ next_' = next_ /\ prev_' = prev_ /\ linked' = linked
    BY <1>4 DEF Destruct
  <2>2. Rings(next_, prev_, live \ {h}, q)
    BY <1>0, <2>1, RootGone
  <2> QED BY <1>0, <2>1, <2>2 DEF Represents, QueueStep
<1>5. ASSUME NEW o \in Ops, Unlink(o) PROVE \E r : Represents(r)' /\ QueueStep(q, r)
  <2>1. o \in InSome(q) /\ linked' = linked \ {o} /\ UnlinkPtrs(o) /\ live' = live
    BY <1>0, <1>5 DEF Unlink
  <2>2. PICK h \in live : \E i : Nth(q, h, i, o)
    BY <1>0, <2>1, OpPlace
  <2> QED BY <1>2, <2>1, <2>2
<1>6. ASSUME NEW o \in Ops, NEW h \in Holders, AddWaiter(o, h)
      PROVE  \E r : Represents(r)' /\ QueueStep(q, r)
  <2>1. /\ h \in live /\ o \notin InSome(q) /\ linked' = linked \cup {o}
        /\ LinkedBefore(o, h, next_, prev_, next_', prev_') /\ live' = live
    BY <1>0, <1>6 DEF AddWaiter, LinkBeforePtrs, LinkedBefore
  <2>2. PICK r : r = With(q, h, o)
    OBVIOUS
  <2>3. Rings(next_', prev_', live, r) /\ InSome(r) = InSome(q) \cup {o}
    BY <1>0, <2>1, <2>2, LinkRings
  <2>4. QueueStep(q, r)
    BY <2>1, <2>2 DEF QueueStep
  <2>5. Represents(r)'
    BY <1>0, <2>1, <2>3 DEF Represents
  <2> QED BY <2>4, <2>5
<1>7. CASE UNCHANGED vars
  <2>1. next_' = next_ /\ prev_' = prev_ /\ live' = live /\ linked' = linked
    BY <1>7 DEF vars
  <2>2. Represents(q)'
    BY <1>0, <2>1 DEF Represents
  <2> QED BY <2>2 DEF QueueStep
<1>8. ASSUME NEW to \in Holders, NEW from \in Holders, MoveConstruct(to, from)
      PROVE  \E r : Represents(r)' /\ QueueStep(q, r)
  <2>1. /\ from \in live /\ to \in Holders \ live /\ live' = live \cup {to} /\ linked' = linked
        /\ Moved(to, from, next_, prev_, next_', prev_')
    BY <1>8 DEF MoveConstruct, MovePtrs, Moved
  <2>2. PICK r : r = TakenOver(q, to, from)
    OBVIOUS
  <2>3. /\ to # from /\ q[to] = << >>
        /\ Rings(next_', prev_', live \cup {to}, r) /\ InSome(r) = InSome(q)
    BY <1>0, <2>1, <2>2, MoveRings
  <2>4. QueueStep(q, r)
    BY <2>2, <2>3 DEF QueueStep
  <2>5. Represents(r)'
    BY <1>0, <2>1, <2>3 DEF Represents
  <2> QED BY <2>4, <2>5
<1> QED
  BY <1>1, <1>3, <1>4, <1>5, <1>6, <1>7, <1>8 DEF Next

LEMMA InvStep == IInv /\ [Next]_vars => IInv'
<1> SUFFICES ASSUME IInv, [Next]_vars PROVE IInv'
  OBVIOUS
<1>1. PICK q : Represents(q)
  BY DEF IInv
<1>2. TypeOK
  BY DEF IInv
<1>3. PICK r : Represents(r)'
  BY <1>1, <1>2, RepStep
<1>4. TypeOK'
  <2>1. /\ next_' \in [Node -> Node] /\ prev_' \in [Node -> Node] /\ live' \subseteq Holders
        /\ linked' = InSome(r) /\ r \in [Holders -> Seq(Ops)]
    BY <1>3 DEF Represents, Rings
  <2>2. \A h \in Holders : Range(r[h]) \subseteq Ops
    BY <2>1, QueueElements
  <2>3. InSome(r) \subseteq Ops
    BY <2>2 DEF InSome
  <2> QED BY <2>1, <2>3 DEF TypeOK
<1> QED BY <1>3, <1>4 DEF IInv

(* Before the first holder is constructed nothing is linked.               *)
LEMMA InvInit == Init => IInv /\ Represents([h \in Holders |-> << >>])
<1> SUFFICES ASSUME Init PROVE IInv /\ Represents([h \in Holders |-> << >>])
  OBVIOUS
<1>1. TypeOK
  BY DEF Init, TypeOK, Node
<1> DEFINE q == [h \in Holders |-> << >>]
<1>2. q \in [Holders -> Seq(Ops)] /\ \A h \in Holders : q[h] = << >> /\ Len(q[h]) = 0
  OBVIOUS
<1> HIDE DEF q
<1>3. InSome(q) = {}
  BY <1>2, EmptyQueue DEF InSome
<1>4. NoneTwice(q)
  BY <1>2 DEF NoneTwice
<1>5. Represents(q)
  BY <1>1, <1>2, <1>3, <1>4 DEF Represents, Rings, Init, TypeOK
<1> QED BY <1>1, <1>5 DEF IInv, q

(* The inductive invariant holds in every state of every behaviour.        *)
LEMMA Invariance == Spec => []IInv
<1> QED BY InvInit, InvStep, PTL DEF Spec

-----------------------------------------------------------------------------
(* Reading the queues back.  Facts about all numbers are proved from the   *)
(* least one they fail for.                                                *)
LEMMA LeastNumber ==
  ASSUME NEW T \in SUBSET Nat, T # {}
  PROVE  \E x \in T : \A y \in T : x <= y
<1>1. \E x \in T : \A y \in T : ~ (<<y, x>> \in OpToRel(<, Nat))
  BY NatLessThanWellFounded, WFMin
<1>2. PICK x \in T : \A y \in T : ~ (<<y, x>> \in OpToRel(<, Nat))
  BY <1>1
<1>3. \A y \in T : ~ (y < x)
  BY <1>2 DEF OpToRel
<1> QED BY <1>3

(* The recursion of Walk has one solution.                                 *)
SolvesWalk(v, h, N) ==
  v = [i \in 0 .. N |->
        IF i = 0 THEN next_[h] ELSE IF v[i - 1] = h THEN h ELSE next_[v[i - 1]]]

LEMMA WalkIs ==
  ASSUME NEW h, NEW N \in Nat, N = Cardinality(Node), NEW v, SolvesWalk(v, h, N)
  PROVE  Walk(h) = v
<1> USE DEF SolvesWalk
<1> DEFINE Solves(p) ==
             p = [i \in 0 .. Cardinality(Node) |->
                   IF i = 0 THEN next_[h] ELSE IF p[i - 1] = h THEN h ELSE next_[p[i - 1]]]
<1>1. Walk(h) = CHOOSE p : Solves(p)
  BY DEF Walk
<1>2. Solves(v)
  OBVIOUS
<1>3. Solves(CHOOSE p : Solves(p))
  <2> HIDE DEF Solves
  <2> QED BY <1>2, Zenon
<1>4. Solves(Walk(h))
  <2> HIDE DEF Solves
  <2> QED BY <1>1, <1>3
<1> DEFINE u == Walk(h)
<1>5. u = [i \in 0 .. N |->
            IF i = 0 THEN next_[h] ELSE IF u[i - 1] = h THEN h ELSE next_[u[i - 1]]]
  BY <1>4
<1> HIDE DEF u, Solves
<1> DEFINE D == {i \in 0 .. N : u[i] # v[i]}
<1>6. D = {}
  <2> SUFFICES ASSUME D # {} PROVE FALSE
    OBVIOUS
  <2>1. D \in SUBSET Nat
    OBVIOUS
  <2>2. PICK i \in D : \A j \in D : i <= j
    <3> HIDE DEF D
    <3> QED BY <2>1, LeastNumber
  <2>3. i # 0
    BY <1>5, <2>2
  <2>4. i - 1 \in 0 .. N /\ u[i - 1] = v[i - 1] /\ i \in 0 .. N /\ u[i] # v[i]
    BY <2>2, <2>3
  <2>5. u[i] = IF u[i - 1] = h THEN h ELSE next_[u[i - 1]]
    BY <1>5, <2>3, <2>4
  <2>6. v[i] = IF v[i - 1] = h THEN h ELSE next_[v[i - 1]]
    BY <2>3, <2>4
  <2> QED BY <2>4, <2>5, <2>6
<1>7. u = v
  <2>1. u = [i \in 0 .. N |-> u[i]] /\ v = [i \in 0 .. N |-> v[i]]
    BY <1>5
  <2>2. \A i \in 0 .. N : u[i] = v[i]
    BY <1>6
  <2> QED BY <2>1, <2>2
<1> QED BY <1>7 DEF u

(* Around a ring that is no longer than there are nodes the loop of size() *)
(* meets its operations, in order, and then stays at the root.             *)
LEMMA WalkRing ==
  ASSUME NEW N \in Nat, N = Cardinality(Node), NEW h \in Holders, NEW s \in Seq(Ops),
         IsRing(next_, prev_, h, s), \A i, j \in 1 .. Len(s) : s[i] = s[j] => i = j, Len(s) <= N
  PROVE  /\ Walk(h) = [i \in 0 .. N |-> At(s, h, i + 1)]
         /\ size(h) = Len(s)
<1>1. /\ Len(s) \in Nat /\ At(s, h, 0) = h /\ At(s, h, Len(s) + 1) = h
      /\ \A k \in 1 .. Len(s) : At(s, h, k) = s[k] /\ s[k] # h
  BY RingNodes
<1>2. \A i \in Nat : i > Len(s) => At(s, h, i) = h
  BY <1>1 DEF At
<1>3. PICK v : v = [i \in 0 .. N |-> At(s, h, i + 1)]
  OBVIOUS
<1>4. ASSUME NEW i \in 0 .. N
      PROVE  v[i] = IF i = 0 THEN next_[h] ELSE IF v[i - 1] = h THEN h ELSE next_[v[i - 1]]
  <2>1. v[i] = At(s, h, i + 1) /\ i + 1 \in Nat /\ i \in Nat
    BY <1>3
  <2>2. CASE i = 0
    <3>1. 0 \in 0 .. Len(s)
      BY <1>1
    <3>2. next_[At(s, h, 0)] = At(s, h, 0 + 1)
      BY <3>1 DEF IsRing
    <3> QED BY <1>1, <2>1, <2>2, <3>2
  <2>3. CASE i # 0
    <3>1. i - 1 \in 0 .. N /\ (i - 1) + 1 = i
      BY <2>1, <2>3
    <3>2. v[i - 1] = At(s, h, i)
      BY <1>3, <3>1
    <3>3. CASE i <= Len(s)
      <4>1. i \in 1 .. Len(s) /\ i \in 0 .. Len(s)
        BY <1>1, <2>1, <2>3, <3>3
      <4>2. At(s, h, i) # h
        BY <1>1, <4>1
      <4>3. next_[At(s, h, i)] = At(s, h, i + 1)
        BY <4>1 DEF IsRing
      <4> QED BY <2>1, <2>3, <3>2, <4>2, <4>3
    <3>4. CASE i > Len(s)
      <4>1. At(s, h, i) = h /\ At(s, h, i + 1) = h
        BY <1>1, <1>2, <2>1, <3>4
      <4> QED BY <2>1, <2>3, <3>2, <4>1
    <3> QED BY <1>1, <2>1, <3>3, <3>4
  <2> QED BY <2>2, <2>3
<1>5. SolvesWalk(v, h, N)
  <2>1. v = [i \in 0 .. N |-> v[i]]
    BY <1>3
  <2> QED BY <1>4, <2>1 DEF SolvesWalk
<1>6. Walk(h) = v
  BY <1>5, WalkIs
<1>7. {i \in DOMAIN v : v[i] # h} = 0 .. Len(s) - 1
  <2>1. DOMAIN v = 0 .. N /\ \A i \in 0 .. N : v[i] = At(s, h, i + 1)
    BY <1>3
  <2>2. ASSUME NEW i \in 0 .. N PROVE v[i] # h <=> i \in 0 .. Len(s) - 1
    <3>1. CASE i + 1 \in 1 .. Len(s)
      BY <1>1, <2>1, <3>1
    <3>2. CASE i + 1 > Len(s)
      BY <1>1, <1>2, <2>1, <3>2
    <3> QED BY <1>1, <3>1, <3>2
  <2>3. 0 .. Len(s) - 1 \subseteq 0 .. N
    BY <1>1
  <2> QED BY <2>1, <2>2, <2>3
<1>8. Cardinality(0 .. Len(s) - 1) = Len(s)
  <2>1. 0 \in Int /\ Len(s) - 1 \in Int
    BY <1>1
  <2>2. Cardinality(0 .. Len(s) - 1) =
          IF 0 > Len(s) - 1 THEN 0 ELSE (Len(s) - 1) - 0 + 1
    BY <2>1, FS_Interval
  <2> QED BY <1>1, <2>2
<1>9. size(h) = Len(s)
  BY <1>6, <1>7, <1>8 DEF size
<1> QED BY <1>3, <1>6, <1>9

(* The queues a state represents are the ones read off its pointers.       *)
ContentsRepresented ==
  \A q : TypeOK /\ Represents(q) => q = [h \in Holders |-> Contents(h)]

LEMMA ContentsAre ==
  ASSUME IsFiniteSet(Node)
  PROVE  ContentsRepresented
<1> SUFFICES ASSUME TypeOK, NEW q, Represents(q)
             PROVE  q = [h \in Holders |-> Contents(h)]
  BY DEF ContentsRepresented
<1>1. q \in [Holders -> Seq(Ops)]
  BY DEF Represents, Rings
<1>2. ASSUME NEW h \in Holders PROVE q[h] = Contents(h)
  <2>1. CASE h \notin live
    BY <2>1 DEF Represents, Rings, Contents
  <2>2. CASE h \in live
    <3>1. PICK s \in Seq(Ops) : s = q[h]
      BY <1>1
    <3>2. /\ IsRing(next_, prev_, h, s) /\ \A i, j \in 1 .. Len(s) : s[i] = s[j] => i = j
          /\ Len(s) \in Nat /\ DOMAIN s = 1 .. Len(s)
      BY <2>2, <3>1, RingFacts DEF Represents
    <3>3. PICK N \in Nat : N = Cardinality(Node)
      BY FS_CardinalityType
    <3>4. Len(s) <= N
      <4>1. IsInjective(s)
        BY <3>2 DEF IsInjective
      <4>2. Cardinality(Range(s)) = Len(s)
        BY <4>1, QueueLength
      <4>3. Range(s) \subseteq Node
        BY QueueElements DEF Node
      <4> QED BY <3>3, <4>2, <4>3, FS_Subset
    <3>5. Walk(h) = [i \in 0 .. N |-> At(s, h, i + 1)] /\ size(h) = Len(s)
      BY <3>2, <3>3, <3>4, WalkRing
    <3>6. \A i \in 1 .. Len(s) : Walk(h)[i - 1] = s[i]
      <4>1. ASSUME NEW i \in 1 .. Len(s) PROVE Walk(h)[i - 1] = s[i]
        <5>1. i - 1 \in 0 .. N /\ (i - 1) + 1 = i
          BY <3>2, <3>4
        <5> QED BY <3>5, <5>1 DEF At
      <4> QED BY <4>1
    <3>7. s = [i \in 1 .. Len(s) |-> Walk(h)[i - 1]]
      <4>1. s = [i \in 1 .. Len(s) |-> s[i]]
        BY <3>2
      <4> QED BY <3>6, <4>1
    <3> QED BY <2>2, <3>1, <3>5, <3>7 DEF Contents
  <2> QED BY <2>1, <2>2
<1>3. q = [h \in Holders |-> q[h]]
  BY <1>1
<1> QED BY <1>2, <1>3

(* The operations in a queue are in the contents of its holder.            *)
LEMMA RepNoOrphan ==
  ASSUME IsFiniteSet(Node)
  PROVE  IInv => NoOrphan
<1> SUFFICES ASSUME IInv, NEW o \in linked
             PROVE  \E h \in live : \E i \in 1 .. Len(Contents(h)) : Contents(h)[i] = o
  BY DEF NoOrphan
<1>1. PICK q : Represents(q)
  BY DEF IInv
<1>2. PICK h \in live : \E i : Nth(q, h, i, o)
  BY <1>1, OpPlace DEF Represents
<1>3. PICK i \in 1 .. Len(q[h]) : q[h][i] = o
  BY <1>2 DEF Nth
<1>4. q = [k \in Holders |-> Contents(k)]
  BY <1>1, ContentsAre DEF ContentsRepresented, IInv
<1>5. q[h] = Contents(h)
  BY <1>4 DEF IInv, TypeOK
<1> QED BY <1>3, <1>5

(* The queues that are read off the pointers make steps of WaitQueues.     *)
LEMMA QueueRefinement ==
  ASSUME IsFiniteSet(Node)
  PROVE  IInv /\ IInv' /\ [Next]_vars => [Abstract!Next]_([h \in Holders |-> Contents(h)])
<1> SUFFICES ASSUME IInv, IInv', [Next]_vars
             PROVE  [Abstract!Next]_([h \in Holders |-> Contents(h)])
  OBVIOUS
<1> DEFINE c == [h \in Holders |-> Contents(h)]
<1>1. PICK q : Represents(q)
  BY DEF IInv
<1>2. TypeOK /\ TypeOK'
  BY DEF IInv
<1>3. PICK r : Represents(r)' /\ QueueStep(q, r)
  BY <1>1, <1>2, RepStep
<1>4. c = q
  BY <1>1, <1>2, ContentsAre DEF ContentsRepresented
<1>5. c' = r
  <2>1. ContentsRepresented'
    BY ContentsAre, PTL
  <2> QED BY <1>2, <1>3, <2>1 DEF ContentsRepresented
<1>6. q \in [Holders -> Seq(Ops)]
  BY <1>1 DEF Represents, Rings
<1>7. Abstract!Waiting \subseteq InSome(q)
  <2>1. Abstract!Waiting = {o \in Ops : \E h \in Holders : \E i \in 1 .. Len(c[h]) : c[h][i] = o}
    BY DEF Abstract!Waiting, Contains, Abstract!Contains
  <2> QED BY <1>4, <1>6, <2>1 DEF InSome, Range
<1> HIDE DEF c
<1>8. ASSUME NEW o \in Ops, NEW h \in Holders,
             o \notin InSome(q), r = With(q, h, o)
      PROVE  Abstract!Join(o, h)
  BY <1>4, <1>5, <1>7, <1>8 DEF Abstract!Join, With, c
<1>9. ASSUME NEW h \in Holders, NEW i \in DOMAIN q[h], r = Without(q, h, i)
      PROVE  Abstract!Leave(h, i)
  BY <1>4, <1>5, <1>9 DEF Abstract!Leave, Abstract!RemoveAt, RemoveAt, Without, c
<1>10. ASSUME NEW to \in Holders, NEW from \in Holders, q[to] = << >>,
              r = TakenOver(q, to, from)
       PROVE  Abstract!TakeOver(to, from)
  BY <1>4, <1>5, <1>10 DEF Abstract!TakeOver, TakenOver, c
<1>11. r = q => UNCHANGED c
  BY <1>4, <1>5
<1> QED
  BY <1>3, <1>4, <1>8, <1>9, <1>10, <1>11 DEF QueueStep, Abstract!Next, c

-----------------------------------------------------------------------------
(* The pointers of holders and operations always name nodes.               *)
THEOREM BilistTypeCorrect == Spec => []TypeOK
<1>1. IInv => TypeOK
  BY DEF IInv
<1> QED BY <1>1, Invariance, PTL

(* No call ever follows a dangling or one-sided pointer of a waiter list.  *)
THEOREM BilistWellLinked == Spec => []WellLinked
<1> QED BY RingsAreLinked, Invariance, PTL

(* The casts of complete_all, unlock, release and the holder's destructor  *)
(* are always to an operation.                                             *)
THEOREM BilistFrontIsOperation == Spec => []FrontIsOperation
<1> QED BY RingsHaveFronts, Invariance, PTL

(* With finitely many nodes, size() counts and the loops of the destructor *)
(* and of shutdown() meet every operation that is linked.                  *)
THEOREM BilistNoOrphan ==
  ASSUME IsFiniteSet(Node)
  PROVE  Spec => []NoOrphan
<1> QED BY RepNoOrphan, Invariance, PTL

(* What is read by following the pointers of detail/bilist_node.hpp are    *)
(* FIFO queues: link_before, unlink and the move constructor do to them    *)
(* what WaitQueues says, to the queues meant and to no other.              *)
THEOREM BilistImplementsQueues ==
  ASSUME IsFiniteSet(Node)
  PROVE  Spec => ImplementsQueues
<1>1. Init => Abstract!Init
  <2> SUFFICES ASSUME Init PROVE Abstract!Init
    OBVIOUS
  <2>1. TypeOK /\ Represents([h \in Holders |-> << >>])
    BY InvInit DEF IInv
  <2>2. [h \in Holders |-> << >>] = [h \in Holders |-> Contents(h)]
    BY <2>1, ContentsAre DEF ContentsRepresented
  <2> QED BY <2>2 DEF Abstract!Init
<1> QED
  BY <1>1, QueueRefinement, Invariance, PTL DEF Spec, ImplementsQueues, Abstract!Spec
-----------------------------------------------------------------------------
(* The second unlink of barrier_impl::arrive.  Its operation was linked    *)
(* last, so it stays the one before the root until it is unlinked, and     *)
(* that leaves both its pointers, and those of the root, at the root.      *)
ArriveInv ==
  /\ \A a \in arriving : \E o \in Ops, h \in live :
       /\ a = <<o, h>>
       /\ o \in linked => next_[o] = h
       /\ o \notin linked => /\ next_[h] = h /\ prev_[h] = h
                             /\ next_[o] = h /\ prev_[o] = h
  /\ \A a, b \in arriving : a = b

(* A step of arrive is a step of the list or changes nothing in it.        *)
LEMMA ArriveStep ==
  ASSUME IInv, ArriveInv, ArriveNext
  PROVE  [Next]_vars /\ ArriveInv'
<1>0. /\ next_ \in [Node -> Node] /\ prev_ \in [Node -> Node]
      /\ live \subseteq Holders /\ linked \subseteq Ops
      /\ \A h \in Holders : h \notin Ops
      /\ Ops \subseteq Node /\ Holders \subseteq Node
  BY DisjointNodes DEF IInv, TypeOK, Node
<1>1. WellLinked
  BY RingsAreLinked
<1>2. CASE arriving = {} /\ Next /\ UNCHANGED arriving
  BY <1>2 DEF ArriveInv
<1>3. ASSUME NEW o \in Ops, NEW h \in Holders, arriving = {}, ArriveLast(o, h)
      PROVE  [Next]_vars /\ ArriveInv'
  <2>1. /\ h \in live /\ live' = live /\ linked' = linked \cup {o} /\ arriving' = {<<o, h>>}
        /\ next_' = [next_ EXCEPT ![o] = h, ![prev_[h]] = o]
    BY <1>3 DEF ArriveLast, AddWaiter, LinkBeforePtrs
  <2>2. prev_[h] # o
    BY <1>0, <1>1, <1>3, <2>1 DEF WellLinked, Active, ArriveLast, AddWaiter
  <2>3. next_'[o] = h
    BY <1>0, <2>1, <2>2
  <2>4. ArriveInv'
    BY <2>1, <2>3 DEF ArriveInv
  <2>5. AddWaiter(o, h)
    BY <1>3 DEF ArriveLast
  <2> QED BY <2>4, <2>5 DEF Next
<1>4. ASSUME NEW o \in Ops, NEW h \in Holders, <<o, h>> \in arriving, ArriveComplete(h)
      PROVE  [Next]_vars /\ ArriveInv'
  <2>1. /\ arriving = {<<o, h>>} /\ h \in live
        /\ o \in linked => next_[o] = h
        /\ o \notin linked => next_[h] = h
    BY <1>4 DEF ArriveInv
  <2>2. /\ next_[h] # h /\ live' = live /\ linked' = linked \ {next_[h]} /\ arriving' = arriving
        /\ prev_' = [prev_ EXCEPT ![next_[next_[h]]] = prev_[next_[h]]]
        /\ next_' = [next_ EXCEPT ![prev_[next_[h]]] = next_[next_[h]]]
    BY <1>4 DEF ArriveComplete, CompleteFront, UnlinkPtrs
  <2>3. /\ o \in linked /\ next_[o] = h /\ prev_[next_[h]] = h /\ h # o
        /\ prev_[h] = o
    BY <1>0, <1>1, <2>1, <2>2 DEF WellLinked, Active
  <2>4. next_'[o] = h
    BY <1>0, <2>2, <2>3
  <2>5. ASSUME o \notin linked'
        PROVE  next_'[h] = h /\ prev_'[h] = h /\ prev_'[o] = h
    <3>1. next_[h] = o
      BY <2>2, <2>3, <2>5
    <3> QED BY <1>0, <2>2, <2>3, <3>1
  <2>6. ArriveInv'
    BY <2>1, <2>2, <2>4, <2>5 DEF ArriveInv
  <2>7. CompleteFront(h)
    BY <1>4 DEF ArriveComplete
  <2> QED BY <2>6, <2>7 DEF Next
<1>5. ASSUME NEW o \in Ops, NEW h \in Holders, <<o, h>> \in arriving, ArriveUnlink(o, h)
      PROVE  [Next]_vars /\ ArriveInv'
  <2>1. /\ h \in live
        /\ o \in linked => next_[o] = h
        /\ o \notin linked => prev_[h] = h /\ next_[o] = h /\ prev_[o] = h
    BY <1>5 DEF ArriveInv
  <2>2. /\ next_[h] = h /\ UNCHANGED <<live, linked>> /\ arriving' = {}
        /\ prev_' = [prev_ EXCEPT ![next_[o]] = prev_[o]]
        /\ next_' = [next_ EXCEPT ![prev_[o]] = next_[o]]
    BY <1>5 DEF ArriveUnlink, UnlinkPtrs
  <2>3. o \notin linked
    BY <1>0, <1>1, <2>1, <2>2 DEF WellLinked, Active
  <2>4. next_' = next_ /\ prev_' = prev_
    BY <1>0, <2>1, <2>2, <2>3
  <2> QED BY <2>2, <2>4 DEF vars, ArriveInv
<1> QED
  BY <1>2, <1>3, <1>4, <1>5 DEF ArriveNext

(* A list whose last arrival unlinks its operation twice behaves like one  *)
(* without: the stale pointers lead nowhere but to the empty root, so the  *)
(* theorems above hold for it, too.                                        *)
THEOREM SecondUnlinkIsHarmless == ArriveSpec => Spec
<1>1. ArriveInit => IInv /\ ArriveInv
  BY InvInit DEF ArriveInit, ArriveInv
<1>2. IInv /\ ArriveInv /\ [ArriveNext]_arrivevars => [Next]_vars /\ (IInv /\ ArriveInv)'
  <2> SUFFICES ASSUME IInv, ArriveInv, [ArriveNext]_arrivevars
               PROVE  [Next]_vars /\ IInv' /\ ArriveInv'
    OBVIOUS
  <2>1. CASE ArriveNext
    BY <2>1, ArriveStep, InvStep
  <2>2. CASE UNCHANGED arrivevars
    <3>1. UNCHANGED vars
      BY <2>2 DEF arrivevars, vars
    <3>2. ArriveInv'
      BY <2>2 DEF arrivevars, ArriveInv
    <3> QED BY <3>1, <3>2, InvStep
  <2> QED BY <2>1, <2>2
<1> QED
  BY <1>1, <1>2, PTL DEF ArriveSpec, ArriveInit, Spec
-----------------------------------------------------------------------------
(* The registry of a service.  While shutdown() walks, the pointers of its *)
(* local e are behind: the ring it will follow is the one in which nx      *)
(* comes after e.  Members it has visited are in no ring any more, though  *)
(* pointers to them are left.                                              *)
SeenNext(n, k) == [n EXCEPT ![e] = k]
SeenPrev(p, k) == [p EXCEPT ![k] = e]

(* The roots: a service that is down or gone may still have a ring.        *)
Roots == Contexts \cup (IF Walking THEN {e} ELSE {})

(* The members with a service are in the rings of q, those that will be    *)
(* shut down with their service in its own or in the one of e.             *)
Registers(q) ==
  /\ Rings(SeenNext(next_, nx), SeenPrev(prev_, nx), Roots, q)
  /\ InSome(q) = {m \in Ops : service[m] # nullptr}
  /\ \A m \in linked \ strays : service[m] # nullptr =>
       \/ stage[service[m]] = "up" /\ m \in Range(q[service[m]])
       \/ stage[service[m]] \in {"walk", "shutdown"} /\ m \in Range(q[e])

ServiceTypes ==
  /\ next_ \in [Node -> Node] /\ prev_ \in [Node -> Node]
  /\ live \subseteq Holders /\ linked \subseteq Ops
  /\ service \in [Ops -> Contexts \cup {nullptr}]
  /\ stage \in [Contexts -> {"up", "walk", "shutdown", "down"}]
  /\ nx \in Ops \cup {e}

(* One context is shut down at a time, and none that is needed is gone.    *)
Lifetimes ==
  /\ e \in live <=> Walking
  /\ ~ Walking => nx = e
  /\ \A x, y \in Contexts :
       stage[x] \in {"walk", "shutdown"} /\ stage[y] \in {"walk", "shutdown"} => x = y
  /\ \A x \in Contexts : stage[x] # "down" => x \in live
  /\ \A m \in Ops : service[m] # nullptr => m \in linked

SInv == ~ mishap => ServiceTypes /\ Lifetimes /\ \E q : Registers(q)

LEMMA SeenUnlink ==
  ASSUME NEW n \in [Node -> Node], NEW p \in [Node -> Node], NEW k \in Node, NEW m \in Node,
         m # e, m # k, p[m] # e, n[m] # k, NEW n2, NEW p2, Unlinked(m, n, p, n2, p2)
  PROVE  Unlinked(m, SeenNext(n, k), SeenPrev(p, k), SeenNext(n2, k), SeenPrev(p2, k))
<1>1. e \in Node /\ n[m] \in Node /\ p[m] \in Node
  BY ServiceAssumption DEF Node
<1>2. SeenNext(n, k)[m] = n[m] /\ SeenPrev(p, k)[m] = p[m]
  BY <1>1 DEF SeenNext, SeenPrev
<1>3. SeenNext(n2, k) = [SeenNext(n, k) EXCEPT ![p[m]] = n[m]]
  BY <1>1 DEF SeenNext, Unlinked
<1>4. SeenPrev(p2, k) = [SeenPrev(p, k) EXCEPT ![n[m]] = p[m]]
  BY <1>1 DEF SeenPrev, Unlinked
<1> QED BY <1>2, <1>3, <1>4 DEF Unlinked

LEMMA SeenLink ==
  ASSUME NEW n \in [Node -> Node], NEW p \in [Node -> Node], NEW k \in Node, NEW m \in Node,
         NEW x \in Node, m # e, m # k, x # k, p[x] # e,
         NEW n2, NEW p2, LinkedBefore(m, x, n, p, n2, p2)
  PROVE  LinkedBefore(m, x, SeenNext(n, k), SeenPrev(p, k), SeenNext(n2, k), SeenPrev(p2, k))
<1>1. e \in Node /\ p[x] \in Node
  BY ServiceAssumption DEF Node
<1>2. SeenPrev(p, k)[x] = p[x]
  BY <1>1 DEF SeenPrev
<1>3. SeenNext(n2, k) = [SeenNext(n, k) EXCEPT ![m] = x, ![p[x]] = m]
  BY <1>1 DEF SeenNext, LinkedBefore
<1>4. SeenPrev(p2, k) = [SeenPrev(p, k) EXCEPT ![m] = p[x], ![x] = m]
  BY <1>1 DEF SeenPrev, LinkedBefore
<1> QED BY <1>2, <1>3, <1>4 DEF LinkedBefore

(* shutdown() goes on with the first in the ring of e, or is at the end;   *)
(* other pointers than those two are as it sees them.                      *)
LEMMA SeenPointers ==
  ASSUME ServiceTypes, Lifetimes, NEW q, Registers(q)
  PROVE  /\ e \in Node /\ nx \in Node /\ e \notin Ops /\ e \notin Contexts /\ nx \notin Contexts
         /\ Contexts \subseteq Roots /\ Roots \subseteq Holders /\ (e \in Roots <=> Walking)
         /\ SeenNext(next_, nx)[e] = nx /\ SeenPrev(prev_, nx)[nx] = e
         /\ \A a \in Node : a # e => SeenNext(next_, nx)[a] = next_[a]
         /\ \A a \in Node : a # nx => SeenPrev(prev_, nx)[a] = prev_[a]
         /\ nx # e => Walking /\ Nth(q, e, 1, nx) /\ nx \in Range(q[e]) /\ nx \in InSome(q)
<1>1. /\ e \in Node /\ nx \in Node /\ e \notin Ops /\ e \notin Contexts /\ nx \notin Contexts
      /\ Contexts \subseteq Roots /\ Roots \subseteq Holders /\ (e \in Roots <=> Walking)
  BY ServiceAssumption, DisjointNodes DEF ServiceTypes, Node, Contexts, Roots
<1>2. /\ SeenNext(next_, nx)[e] = nx /\ SeenPrev(prev_, nx)[nx] = e
      /\ \A a \in Node : a # e => SeenNext(next_, nx)[a] = next_[a]
      /\ \A a \in Node : a # nx => SeenPrev(prev_, nx)[a] = prev_[a]
  BY <1>1 DEF ServiceTypes, SeenNext, SeenPrev
<1>3. ASSUME nx # e PROVE Walking /\ Nth(q, e, 1, nx) /\ nx \in Range(q[e]) /\ nx \in InSome(q)
  <2>1. Walking /\ e \in Roots
    BY <1>1, <1>3 DEF Lifetimes
  <2>2. Rings(SeenNext(next_, nx), SeenPrev(prev_, nx), Roots, q)
    BY DEF Registers
  <2>3. /\ SeenNext(next_, nx)[e] \in {e} \cup Range(q[e])
        /\ q[e] = << >> <=> SeenNext(next_, nx)[e] = e
        /\ q[e] # << >> => Nth(q, e, 1, SeenNext(next_, nx)[e])
    BY <2>1, <2>2, RootPointers
  <2>4. Range(q[e]) \subseteq InSome(q)
    BY <2>1, <2>2, RingFacts
  <2> QED BY <1>2, <1>3, <2>1, <2>3, <2>4
<1> QED BY <1>1, <1>2, <1>3

(* The pointers of any other member than nx are as shutdown() sees them,   *)
(* and so are those that point back.                                       *)
LEMMA SeenMember ==
  ASSUME ServiceTypes, Lifetimes, NEW q, Registers(q), NEW h \in Roots, NEW i, NEW m,
         Nth(q, h, i, m), m # nx
  PROVE  /\ m \in Ops /\ m \in Node /\ m # e /\ m \in Range(q[h])
         /\ prev_[m] # e /\ next_[m] # nx
         /\ next_[m] \in {h} \cup Range(q[h]) /\ prev_[m] \in {h} \cup Range(q[h])
         /\ prev_[next_[m]] = m /\ next_[prev_[m]] = m
<1> DEFINE n == SeenNext(next_, nx)
           p == SeenPrev(prev_, nx)
<1>1. /\ e \in Node /\ nx \in Node /\ e \notin Ops /\ e \notin Contexts
      /\ n[e] = nx /\ p[nx] = e /\ (e \in Roots <=> Walking)
      /\ \A a \in Node : a # e => n[a] = next_[a]
      /\ \A a \in Node : a # nx => p[a] = prev_[a]
  BY SeenPointers
<1>2. Rings(n, p, Roots, q)
  BY DEF Registers
<1> HIDE DEF n, p
<1>3. /\ n[m] \in {h} \cup Range(q[h]) /\ p[m] \in {h} \cup Range(q[h])
      /\ p[n[m]] = m /\ n[p[m]] = m /\ m \in Range(q[h]) /\ m \in Ops
  BY <1>2, Neighbours
<1>4. {h} \cup Range(q[h]) \subseteq Node
  BY <1>2, RingFacts
<1>5. m \in Node /\ m # e /\ n[m] = next_[m] /\ p[m] = prev_[m]
  BY <1>1, <1>3, <1>4
<1>6. p[m] # e
  BY <1>1, <1>3
<1>7. n[m] # nx
  BY <1>1, <1>3
<1> QED BY <1>1, <1>3, <1>4, <1>5, <1>6, <1>7

(* A member with a service has a place in the ring of a root.              *)
LEMMA MemberPlace ==
  ASSUME NEW q, Registers(q), NEW m \in Ops, service[m] # nullptr
  PROVE  \E h \in Roots : \E i : Nth(q, h, i, m)
<1>1. Rings(SeenNext(next_, nx), SeenPrev(prev_, nx), Roots, q) /\ m \in InSome(q)
  BY DEF Registers
<1> QED BY <1>1, OpPlace

(* register_queue, of a new member: it is last in the ring of its service. *)
LEMMA RegisterStep ==
  ASSUME ServiceTypes, Lifetimes, NEW q, Registers(q), NEW m \in Ops \ linked, NEW x \in live \ {e},
         Register(m, x), linked' = linked \cup {m}, service' = [service EXCEPT ![m] = x],
         strays' = IF stage[x] = "up" THEN strays ELSE strays \cup {m},
         UNCHANGED <<live, stage, nx>>
  PROVE  ServiceTypes' /\ Lifetimes' /\ \E r : Registers(r)'
<1>1. /\ e \in Node /\ nx \in Node /\ e \notin Ops /\ e \notin Contexts /\ nx \notin Contexts
      /\ Contexts \subseteq Roots /\ Roots \subseteq Holders
      /\ \A a \in Node : a # nx => SeenPrev(prev_, nx)[a] = prev_[a]
      /\ nx # e => nx \in InSome(q)
  BY SeenPointers
<1>2. /\ x \in Contexts /\ x \in Roots /\ x \in Node /\ m \in Node /\ x # nx /\ m # e
      /\ service[m] = nullptr /\ x # nullptr /\ x # e
  BY <1>1, ServiceAssumption DEF ServiceTypes, Lifetimes, Contexts, Node
<1>3. /\ Rings(SeenNext(next_, nx), SeenPrev(prev_, nx), Roots, q)
      /\ InSome(q) = {a \in Ops : service[a] # nullptr}
  BY DEF Registers
<1>4. m \notin InSome(q) /\ m # nx
  BY <1>1, <1>2, <1>3
<1>5. prev_[x] # e /\ prev_[x] \in Node
  <2>1. SeenPrev(prev_, nx)[x] \in {x} \cup Range(q[x]) /\ Range(q[x]) \subseteq Ops
    BY <1>2, <1>3, RootPointers, RingFacts
  <2> QED BY <1>1, <1>2, <2>1 DEF ServiceTypes
<1>6. LinkedBefore(m, x, next_, prev_, next_', prev_')
  BY DEF Register, LinkBeforePtrs, LinkedBefore
<1>7. LinkedBefore(m, x, SeenNext(next_, nx), SeenPrev(prev_, nx), SeenNext(next_', nx), SeenPrev(prev_', nx))
  BY <1>1, <1>2, <1>4, <1>5, <1>6, SeenLink DEF ServiceTypes
<1>8. PICK r : r = With(q, x, m)
  OBVIOUS
<1>9. /\ Rings(SeenNext(next_', nx), SeenPrev(prev_', nx), Roots, r)
      /\ InSome(r) = InSome(q) \cup {m}
      /\ \A k \in Holders : Range(r[k]) = IF k = x THEN Range(q[k]) \cup {m} ELSE Range(q[k])
  BY <1>2, <1>3, <1>4, <1>7, <1>8, LinkRings
<1>10. Roots' = Roots /\ Walking' = Walking /\ nx' = nx /\ stage' = stage /\ live' = live
  BY DEF Roots, Walking
<1>11. /\ service' \in [Ops -> Contexts \cup {nullptr}] /\ service'[m] = x
       /\ \A a \in Ops : a # m => service'[a] = service[a]
  BY <1>2 DEF ServiceTypes
<1>12. InSome(r) = {a \in Ops : service'[a] # nullptr}
  BY <1>2, <1>3, <1>9, <1>11
<1>13. ASSUME NEW a \in linked' \ strays', service'[a] # nullptr
       PROVE  \/ stage[service'[a]] = "up" /\ a \in Range(r[service'[a]])
              \/ stage[service'[a]] \in {"walk", "shutdown"} /\ a \in Range(r[e])
  <2>1. CASE a = m
    <3>1. stage[x] = "up"
      BY <1>13, <2>1
    <3> QED BY <1>1, <1>2, <1>9, <1>11, <2>1, <3>1
  <2>2. CASE a # m
    <3>1. a \in linked \ strays /\ a \in Ops /\ service'[a] = service[a]
      BY <1>11, <1>13, <2>2 DEF ServiceTypes
    <3>2. service[a] \in Holders /\ e \in Holders
      BY <1>13, <3>1, ServiceAssumption DEF ServiceTypes, Contexts
    <3>3. \/ stage[service[a]] = "up" /\ a \in Range(q[service[a]])
          \/ stage[service[a]] \in {"walk", "shutdown"} /\ a \in Range(q[e])
      BY <1>13, <3>1 DEF Registers
    <3> QED BY <1>9, <3>1, <3>2, <3>3
  <2> QED BY <2>1, <2>2
<1>14. Registers(r)'
  BY <1>9, <1>10, <1>12, <1>13 DEF Registers
<1>15. ServiceTypes'
  <2>1. next_' \in [Node -> Node] /\ prev_' \in [Node -> Node]
    BY <1>2, <1>5, <1>6 DEF ServiceTypes, LinkedBefore
  <2> QED BY <1>10, <1>11, <2>1 DEF ServiceTypes
<1>16. Lifetimes'
  BY <1>10, <1>11 DEF Lifetimes
<1> QED BY <1>14, <1>15, <1>16

(* ~service_member of a member that was shut down: it is in no ring.       *)
LEMMA DestroyUnregistered ==
  ASSUME ServiceTypes, Lifetimes, NEW q, Registers(q), NEW m \in Ops, service[m] = nullptr,
         next_' = [next_ EXCEPT ![m] = m], prev_' = [prev_ EXCEPT ![m] = m],
         linked' = linked \ {m}, service' = [service EXCEPT ![m] = nullptr], strays' = strays \ {m},
         UNCHANGED <<live, stage, nx>>
  PROVE  ServiceTypes' /\ Lifetimes' /\ \E r : Registers(r)'
<1>1. /\ e \in Node /\ nx \in Node /\ e \notin Ops /\ Roots \subseteq Holders
      /\ nx # e => nx \in InSome(q)
  BY SeenPointers
<1>2. /\ Rings(SeenNext(next_, nx), SeenPrev(prev_, nx), Roots, q)
      /\ InSome(q) = {a \in Ops : service[a] # nullptr}
  BY DEF Registers
<1>3. m \notin InSome(q) /\ m # nx /\ m # e /\ m \in Node /\ m \notin Roots
  BY <1>1, <1>2, DisjointNodes DEF Node
<1>4. service' = service
  BY DEF ServiceTypes
<1>5. Roots' = Roots /\ Walking' = Walking /\ nx' = nx /\ stage' = stage /\ live' = live
  BY DEF Roots, Walking
<1>6. next_' \in [Node -> Node] /\ prev_' \in [Node -> Node]
  BY <1>3 DEF ServiceTypes
<1>7. /\ SeenNext(next_', nx) \in [Node -> Node] /\ SeenPrev(prev_', nx) \in [Node -> Node]
  BY <1>1, <1>6 DEF SeenNext, SeenPrev
<1>8. \A a \in Node : a # m => /\ SeenNext(next_', nx)[a] = SeenNext(next_, nx)[a]
                               /\ SeenPrev(prev_', nx)[a] = SeenPrev(prev_, nx)[a]
  BY <1>1, <1>3 DEF SeenNext, SeenPrev, ServiceTypes
<1>9. Roots \cup InSome(q) \subseteq Node \ {m}
  BY <1>1, <1>2, <1>3 DEF Node
<1>10. Agree(SeenNext(next_, nx), SeenPrev(prev_, nx), SeenNext(next_', nx), SeenPrev(prev_', nx),
             Roots \cup InSome(q))
  BY <1>8, <1>9 DEF Agree
<1>11. Rings(SeenNext(next_', nx), SeenPrev(prev_', nx), Roots, q)
  BY <1>2, <1>7, <1>10, OtherNodes
<1>12. Registers(q)'
  BY <1>2, <1>4, <1>5, <1>11 DEF Registers
<1>13. ServiceTypes' /\ Lifetimes'
  BY <1>4, <1>5, <1>6 DEF ServiceTypes, Lifetimes
<1> QED BY <1>12, <1>13

(* unregister_queue of a member that shutdown() does not go on with: the   *)
(* queues q become r and the pointers n2 and p2.                           *)
LeftBy(m, q, n2, p2, r) ==
  /\ n2 \in [Node -> Node] /\ p2 \in [Node -> Node] /\ m \in Node /\ m # e
  /\ Rings(SeenNext(n2, nx), SeenPrev(p2, nx), Roots, r)
  /\ InSome(r) = InSome(q) \ {m}
  /\ \A k \in Holders : Range(r[k]) = Range(q[k]) \ {m}

LEMMA UnregisterRings ==
  ASSUME ServiceTypes, Lifetimes, NEW q, Registers(q), NEW m \in Ops, service[m] # nullptr, m # nx,
         NEW n2, NEW p2, Unlinked(m, next_, prev_, n2, p2)
  PROVE  \E r : LeftBy(m, q, n2, p2, r)
<1>1. PICK h \in Roots : \E i : Nth(q, h, i, m)
  BY MemberPlace
<1>place. PICK i : Nth(q, h, i, m)
  BY <1>1
<1>2. /\ m \in Node /\ m # e /\ prev_[m] # e /\ next_[m] # nx
  BY <1>place, SeenMember
<1>3. nx \in Node /\ next_ \in [Node -> Node] /\ prev_ \in [Node -> Node]
  BY SeenPointers DEF ServiceTypes
<1>4. Unlinked(m, SeenNext(next_, nx), SeenPrev(prev_, nx), SeenNext(n2, nx), SeenPrev(p2, nx))
  BY <1>2, <1>3, SeenUnlink
<1>5. Rings(SeenNext(next_, nx), SeenPrev(prev_, nx), Roots, q)
  BY DEF Registers
<1>6. PICK r : r = Without(q, h, i)
  OBVIOUS
<1>7. /\ Rings(SeenNext(n2, nx), SeenPrev(p2, nx), Roots, r)
      /\ InSome(r) = InSome(q) \ {m}
      /\ \A k \in Holders : Range(r[k]) = Range(q[k]) \ {m}
  BY <1>place, <1>4, <1>5, <1>6, UnlinkRings
<1>8. n2 \in [Node -> Node] /\ p2 \in [Node -> Node]
  BY <1>2, <1>3 DEF Unlinked
<1> QED BY <1>2, <1>7, <1>8 DEF LeftBy

(* ~service_member of a member with a service.                             *)
LEMMA DestroyRegistered ==
  ASSUME ServiceTypes, Lifetimes, NEW q, Registers(q), NEW m \in Ops, service[m] # nullptr, m # nx,
         next_' = [next_ EXCEPT ![prev_[m]] = next_[m], ![m] = m],
         prev_' = [prev_ EXCEPT ![next_[m]] = prev_[m], ![m] = m],
         linked' = linked \ {m}, service' = [service EXCEPT ![m] = nullptr], strays' = strays \ {m},
         UNCHANGED <<live, stage, nx>>
  PROVE  ServiceTypes' /\ Lifetimes' /\ \E r : Registers(r)'
<1>1. PICK n2, p2 : Unlinked(m, next_, prev_, n2, p2)
  BY DEF Unlinked
<1>r. PICK r : LeftBy(m, q, n2, p2, r)
  BY <1>1, UnregisterRings
<1>2. /\ n2 \in [Node -> Node] /\ p2 \in [Node -> Node] /\ m \in Node /\ m # e
      /\ Rings(SeenNext(n2, nx), SeenPrev(p2, nx), Roots, r)
      /\ InSome(r) = InSome(q) \ {m}
      /\ \A k \in Holders : Range(r[k]) = Range(q[k]) \ {m}
  BY <1>r DEF LeftBy
<1>3. e \in Node /\ nx \in Node /\ Roots \subseteq Holders
  BY SeenPointers
<1>4. next_' = [n2 EXCEPT ![m] = m] /\ prev_' = [p2 EXCEPT ![m] = m]
  BY <1>1 DEF Unlinked
<1>5. next_' \in [Node -> Node] /\ prev_' \in [Node -> Node]
  BY <1>2, <1>4
<1>6. SeenNext(next_', nx) \in [Node -> Node] /\ SeenPrev(prev_', nx) \in [Node -> Node]
  BY <1>3, <1>5 DEF SeenNext, SeenPrev
<1>7. \A a \in Node : a # m => /\ SeenNext(next_', nx)[a] = SeenNext(n2, nx)[a]
                               /\ SeenPrev(prev_', nx)[a] = SeenPrev(p2, nx)[a]
  BY <1>2, <1>3, <1>4 DEF SeenNext, SeenPrev
<1>8. InSome(q) = {a \in Ops : service[a] # nullptr}
  BY DEF Registers
<1>9. Roots \cup InSome(r) \subseteq Node \ {m}
  BY <1>2, <1>3, <1>8, DisjointNodes DEF Node
<1>10. Agree(SeenNext(n2, nx), SeenPrev(p2, nx), SeenNext(next_', nx), SeenPrev(prev_', nx),
             Roots \cup InSome(r))
  BY <1>7, <1>9 DEF Agree
<1>11. Rings(SeenNext(next_', nx), SeenPrev(prev_', nx), Roots, r)
  BY <1>2, <1>6, <1>10, OtherNodes
<1>12. Roots' = Roots /\ Walking' = Walking /\ nx' = nx /\ stage' = stage /\ live' = live
  BY DEF Roots, Walking
<1>13. /\ service' \in [Ops -> Contexts \cup {nullptr}] /\ service'[m] = nullptr
       /\ \A a \in Ops : a # m => service'[a] = service[a]
  BY DEF ServiceTypes
<1>14. InSome(r) = {a \in Ops : service'[a] # nullptr}
  BY <1>2, <1>8, <1>13
<1>15. ASSUME NEW a \in linked' \ strays', service'[a] # nullptr
       PROVE  \/ stage[service'[a]] = "up" /\ a \in Range(r[service'[a]])
              \/ stage[service'[a]] \in {"walk", "shutdown"} /\ a \in Range(r[e])
  <2>1. a \in linked \ strays /\ a \in Ops /\ a # m /\ service'[a] = service[a]
    BY <1>13, <1>15 DEF ServiceTypes
  <2>2. service[a] \in Holders /\ e \in Holders
    BY <1>15, <2>1, ServiceAssumption DEF ServiceTypes, Contexts
  <2>3. \/ stage[service[a]] = "up" /\ a \in Range(q[service[a]])
        \/ stage[service[a]] \in {"walk", "shutdown"} /\ a \in Range(q[e])
    BY <1>15, <2>1 DEF Registers
  <2> QED BY <1>2, <2>1, <2>2, <2>3
<1>16. Registers(r)'
  BY <1>11, <1>12, <1>14, <1>15 DEF Registers
<1>17. ServiceTypes' /\ Lifetimes'
  BY <1>5, <1>12, <1>13 DEF ServiceTypes, Lifetimes
<1> QED BY <1>16, <1>17

(* operator=(service_member &&): the target leaves its ring and is linked  *)
(* again with its service; the source stays where it is.                   *)
LEMMA AssignStep ==
  ASSUME ServiceTypes, Lifetimes, NEW q, Registers(q), NEW m \in Ops, NEW from \in Ops,
         ~ mishap', MoveAssign(m, from)
  PROVE  ServiceTypes' /\ Lifetimes' /\ \E r : Registers(r)'
<1>1. PICK x : x = service[m]
  OBVIOUS
<1>2. /\ x \in live /\ m \in linked /\ from \in linked /\ service[from] # x /\ service[from] # nullptr
      /\ ~ PullsAway(m) /\ service' = [service EXCEPT ![from] = x] /\ Reregister(m, x)
      /\ strays' = (strays \cup {from, m}) \ (IF stage[x] = "up" THEN {m} ELSE {})
      /\ live' = live /\ linked' = linked /\ stage' = stage /\ nx' = nx
  BY <1>1 DEF MoveAssign, Reachable
<1>3. /\ e \in Node /\ nx \in Node /\ e \notin Ops /\ e \notin Contexts /\ nx \notin Contexts
      /\ Contexts \subseteq Roots /\ Roots \subseteq Holders
      /\ nx # e => Walking
  BY SeenPointers
<1>4. /\ x \in Contexts /\ x \in Roots /\ x \in Node /\ x # nx /\ x # e /\ x # nullptr
      /\ m # nx /\ m # from /\ m \in Node /\ m # e
  BY <1>1, <1>2, <1>3, ServiceAssumption DEF ServiceTypes, Contexts, PullsAway, Node
<1>5. next_ \in [Node -> Node] /\ prev_ \in [Node -> Node] /\ next_[m] \in Node /\ prev_[m] \in Node
  BY <1>4 DEF ServiceTypes
<1>6. PICK n2, p2 : /\ Unlinked(m, next_, prev_, n2, p2)
                    /\ n2 = [next_ EXCEPT ![prev_[m]] = next_[m]]
                    /\ p2 = [prev_ EXCEPT ![next_[m]] = prev_[m]]
  BY DEF Unlinked
<1>r. PICK r : LeftBy(m, q, n2, p2, r)
  BY <1>1, <1>4, <1>6, UnregisterRings
<1>7. /\ n2 \in [Node -> Node] /\ p2 \in [Node -> Node]
      /\ Rings(SeenNext(n2, nx), SeenPrev(p2, nx), Roots, r)
      /\ InSome(r) = InSome(q) \ {m}
      /\ \A k \in Holders : Range(r[k]) = Range(q[k]) \ {m}
  BY <1>r DEF LeftBy
<1>8. p2[x] = IF next_[m] = x THEN prev_[m] ELSE prev_[x]
  BY <1>4, <1>5, <1>6
<1>9. LinkedBefore(m, x, n2, p2, next_', prev_')
  BY <1>2, <1>6, <1>8 DEF Reregister, LinkedBefore
<1>10. p2[x] # e /\ p2[x] \in Node
  <2>1. SeenPrev(p2, nx)[x] \in {x} \cup Range(r[x]) /\ Range(r[x]) \subseteq Ops
    BY <1>4, <1>7, RootPointers, RingFacts
  <2>2. SeenPrev(p2, nx)[x] = p2[x]
    BY <1>4, <1>7 DEF SeenPrev
  <2> QED BY <1>3, <1>4, <1>7, <2>1, <2>2
<1>11. LinkedBefore(m, x, SeenNext(n2, nx), SeenPrev(p2, nx), SeenNext(next_', nx), SeenPrev(prev_', nx))
  BY <1>3, <1>4, <1>7, <1>9, <1>10, SeenLink
<1>12. PICK t : t = With(r, x, m)
  OBVIOUS
<1>13. /\ Rings(SeenNext(next_', nx), SeenPrev(prev_', nx), Roots, t)
       /\ InSome(t) = InSome(r) \cup {m}
       /\ \A k \in Holders : Range(t[k]) = IF k = x THEN Range(r[k]) \cup {m} ELSE Range(r[k])
  <2>1. m \notin InSome(r)
    BY <1>7
  <2> QED BY <1>4, <1>7, <1>11, <1>12, <2>1, LinkRings
<1>14. Roots' = Roots /\ Walking' = Walking
  BY <1>2 DEF Roots, Walking
<1>15. /\ service' \in [Ops -> Contexts \cup {nullptr}] /\ service'[from] = x
       /\ \A a \in Ops : a # from => service'[a] = service[a]
  BY <1>2, <1>4 DEF ServiceTypes
<1>16. InSome(t) = {a \in Ops : service'[a] # nullptr}
  <2>1. InSome(q) = {a \in Ops : service[a] # nullptr}
    BY DEF Registers
  <2> QED BY <1>1, <1>2, <1>4, <1>7, <1>13, <1>15, <2>1
<1>17. ASSUME NEW a \in linked' \ strays', service'[a] # nullptr
       PROVE  \/ stage[service'[a]] = "up" /\ a \in Range(t[service'[a]])
              \/ stage[service'[a]] \in {"walk", "shutdown"} /\ a \in Range(t[e])
  <2>1. a \in linked /\ a \in Ops /\ a # from /\ service'[a] = service[a]
    BY <1>2, <1>4, <1>15, <1>17 DEF ServiceTypes
  <2>2. service[a] \in Holders /\ e \in Holders /\ x \in Holders
    BY <1>4, <1>17, <2>1, ServiceAssumption DEF ServiceTypes, Contexts
  <2>3. CASE a = m
    <3>1. stage[x] = "up"
      BY <1>2, <1>17, <2>3
    <3>2. m \in Range(t[x])
      BY <1>13, <2>2
    <3> QED BY <1>1, <2>1, <2>3, <3>1, <3>2
  <2>4. CASE a # m
    <3>1. a \notin strays
      BY <1>2, <1>17, <2>1, <2>4
    <3>2. \/ stage[service[a]] = "up" /\ a \in Range(q[service[a]])
          \/ stage[service[a]] \in {"walk", "shutdown"} /\ a \in Range(q[e])
      BY <1>17, <2>1, <3>1 DEF Registers
    <3>3. \A k \in Holders : a \in Range(q[k]) => a \in Range(t[k])
      BY <1>7, <1>13, <2>4
    <3> QED BY <2>1, <2>2, <3>2, <3>3
  <2> QED BY <2>3, <2>4
<1>18. Registers(t)'
  BY <1>2, <1>13, <1>14, <1>16, <1>17 DEF Registers
<1>19. ServiceTypes'
  <2>1. next_' \in [Node -> Node] /\ prev_' \in [Node -> Node]
    BY <1>4, <1>7, <1>9, <1>10 DEF LinkedBefore
  <2> QED BY <1>2, <1>15, <2>1 DEF ServiceTypes
<1>20. Lifetimes'
  BY <1>2, <1>14, <1>15 DEF Lifetimes
<1> QED BY <1>18, <1>19, <1>20

(* shutdown() begins: e takes over the ring of the service.                *)
LEMMA BeginStep ==
  ASSUME ServiceTypes, Lifetimes, NEW q, Registers(q), NEW x \in Contexts, ShutdownBegin(x)
  PROVE  ServiceTypes' /\ Lifetimes' /\ \E r : Registers(r)'
<1>1. /\ stage[x] = "up" /\ ~ Walking /\ stage' = [stage EXCEPT ![x] = "walk"]
      /\ live' = live \cup {e} /\ MovePtrs(e, x) /\ nx' = next_'[e]
      /\ linked' = linked /\ service' = service /\ strays' = strays
  BY DEF ShutdownBegin
<1>2. /\ e \in Node /\ e \notin Ops /\ e \notin Contexts /\ x \in Node /\ x # e /\ nx = e
      /\ e \in Holders /\ x \in Holders
      /\ next_ \in [Node -> Node] /\ prev_ \in [Node -> Node] /\ Roots = Contexts
  BY <1>1, SeenPointers, ServiceAssumption DEF Lifetimes, ServiceTypes, Contexts, Node, Roots
<1> DEFINE n == SeenNext(next_, nx)
           p == SeenPrev(prev_, nx)
<1>3. n = [next_ EXCEPT ![e] = e] /\ p = [prev_ EXCEPT ![e] = e]
  BY <1>2 DEF SeenNext, SeenPrev
<1>4. Rings(n, p, Contexts, q) /\ InSome(q) = {a \in Ops : service[a] # nullptr}
  BY <1>2 DEF Registers
<1> HIDE DEF n, p
<1>5. n[x] = next_[x] /\ p[x] = prev_[x]
  BY <1>2, <1>3
<1>6. n[x] \in {x} \cup Range(q[x]) /\ p[x] \in {x} \cup Range(q[x]) /\ Range(q[x]) \subseteq Ops
  BY <1>4, RootPointers, RingFacts
<1>7. next_[x] # e /\ prev_[x] # e /\ next_[x] \in {x} \cup Ops /\ next_[x] \in Node /\ prev_[x] \in Node
  BY <1>2, <1>5, <1>6
<1>8. Moved(e, x, n, p, next_', prev_')
  <2>1. CASE next_[x] = x
    <3>1. next_' = [next_ EXCEPT ![e] = e] /\ prev_' = [prev_ EXCEPT ![e] = e]
      BY <1>1, <2>1 DEF MovePtrs
    <3>2. next_' = [n EXCEPT ![e] = e] /\ prev_' = [p EXCEPT ![e] = e]
      BY <1>2, <1>3, <3>1
    <3> QED BY <1>5, <2>1, <3>2 DEF Moved
  <2>2. CASE next_[x] # x
    <3>1. /\ next_' = [next_ EXCEPT ![x] = x, ![e] = next_[x], ![prev_[x]] = e]
          /\ prev_' = [prev_ EXCEPT ![x] = x, ![e] = prev_[x], ![next_[x]] = e]
      BY <1>1, <2>2 DEF MovePtrs
    <3>2. /\ next_' = [n EXCEPT ![x] = x, ![e] = next_[x], ![prev_[x]] = e]
          /\ prev_' = [p EXCEPT ![x] = x, ![e] = prev_[x], ![next_[x]] = e]
      BY <1>2, <1>3, <1>7, <3>1
    <3> QED BY <1>5, <2>2, <3>2 DEF Moved
  <2> QED BY <2>1, <2>2
<1>9. /\ next_' \in [Node -> Node] /\ prev_' \in [Node -> Node]
      /\ nx' \in Ops \cup {e} /\ prev_'[nx'] = e
  <2>1. CASE next_[x] = x
    BY <1>1, <1>2, <2>1 DEF MovePtrs
  <2>2. CASE next_[x] # x
    <3>1. /\ next_' = [next_ EXCEPT ![x] = x, ![e] = next_[x], ![prev_[x]] = e]
          /\ prev_' = [prev_ EXCEPT ![x] = x, ![e] = prev_[x], ![next_[x]] = e]
      BY <1>1, <2>2 DEF MovePtrs
    <3>2. next_' \in [Node -> Node] /\ prev_' \in [Node -> Node]
      BY <1>2, <1>7, <3>1
    <3>3. nx' = next_[x] /\ prev_'[next_[x]] = e
      BY <1>1, <1>2, <1>7, <3>1
    <3> QED BY <1>7, <2>2, <3>2, <3>3
  <2> QED BY <2>1, <2>2
<1>10. SeenNext(next_', nx') = next_' /\ SeenPrev(prev_', nx') = prev_'
  <2>1. nx' \in Node
    BY <1>2, <1>9 DEF Node
  <2> QED BY <1>1, <1>2, <1>9, <2>1 DEF SeenNext, SeenPrev
<1>11. PICK r : r = TakenOver(q, e, x)
  OBVIOUS
<1>12. Rings(next_', prev_', Contexts \cup {e}, r) /\ InSome(r) = InSome(q)
  BY <1>2, <1>4, <1>8, <1>11, MoveRings
<1>13. r[e] = q[x] /\ \A k \in Contexts \ {x} : r[k] = q[k]
  BY <1>2, <1>4, <1>11 DEF TakenOver, Rings, Contexts
<1>14. /\ stage' \in [Contexts -> {"up", "walk", "shutdown", "down"}] /\ stage'[x] = "walk"
       /\ \A y \in Contexts : y # x => stage'[y] = stage[y]
  BY <1>1 DEF ServiceTypes
<1>15. Walking' /\ Roots' = Contexts \cup {e}
  BY <1>14 DEF Walking, Roots
<1>16. ASSUME NEW a \in linked' \ strays', service'[a] # nullptr
       PROVE  \/ stage'[service'[a]] = "up" /\ a \in Range(r[service'[a]])
              \/ stage'[service'[a]] \in {"walk", "shutdown"} /\ a \in Range(r[e])
  <2>1. /\ a \in linked \ strays /\ service'[a] = service[a] /\ service[a] \in Contexts
        /\ \/ stage[service[a]] = "up" /\ a \in Range(q[service[a]])
           \/ stage[service[a]] \in {"walk", "shutdown"} /\ a \in Range(q[e])
    BY <1>1, <1>16 DEF Registers, ServiceTypes
  <2>2. stage[service[a]] = "up" /\ a \in Range(q[service[a]])
    BY <1>1, <2>1 DEF Walking
  <2>3. CASE service[a] = x
    BY <1>13, <1>14, <2>1, <2>2, <2>3
  <2>4. CASE service[a] # x
    BY <1>13, <1>14, <2>1, <2>2, <2>4
  <2> QED BY <2>3, <2>4
<1>17. Registers(r)'
  BY <1>1, <1>4, <1>10, <1>12, <1>15, <1>16 DEF Registers
<1>18. ServiceTypes'
  BY <1>1, <1>2, <1>9, <1>14 DEF ServiceTypes
<1>19. Lifetimes'
  <2>1. \A y \in Contexts : stage'[y] \in {"walk", "shutdown"} => y = x
    BY <1>1, <1>14 DEF Walking
  <2>2. \A y \in Contexts : stage'[y] # "down" => y \in live'
    BY <1>1, <1>14 DEF Lifetimes
  <2> QED BY <1>1, <1>15, <2>1, <2>2 DEF Lifetimes
<1> QED BY <1>17, <1>18, <1>19

(* A stage of shutdown() that is neither the first nor the last.           *)
LEMMA StageStep ==
  ASSUME ServiceTypes, Lifetimes, NEW x \in Contexts, stage[x] \in {"walk", "shutdown"},
         NEW s \in {"walk", "shutdown"}, stage' = [stage EXCEPT ![x] = s]
  PROVE  /\ stage' \in [Contexts -> {"up", "walk", "shutdown", "down"}]
         /\ Walking /\ Walking' /\ e \in Roots /\ Roots' = Roots
         /\ \A y \in Contexts : /\ stage'[y] = "up" <=> stage[y] = "up"
                                /\ stage'[y] = "down" <=> stage[y] = "down"
                                /\ stage'[y] \in {"walk", "shutdown"} <=> stage[y] \in {"walk", "shutdown"}
<1>1. /\ stage' \in [Contexts -> {"up", "walk", "shutdown", "down"}] /\ stage'[x] = s
      /\ \A y \in Contexts : y # x => stage'[y] = stage[y]
  BY DEF ServiceTypes
<1>2. Walking /\ Walking'
  BY <1>1 DEF Walking
<1>3. e \in Roots /\ Roots' = Roots
  BY <1>2 DEF Roots
<1> QED BY <1>1, <1>2, <1>3

(* The member that shutdown() visits forgets its service and leaves the    *)
(* ring, in which its successor now comes first.                           *)
LEMMA VisitStep ==
  ASSUME ServiceTypes, Lifetimes, NEW q, Registers(q), NEW x \in Contexts, ShutdownVisit(x)
  PROVE  ServiceTypes' /\ Lifetimes' /\ \E r : Registers(r)'
<1>1. /\ stage[x] = "walk" /\ nx # e /\ stage' = [stage EXCEPT ![x] = "shutdown"]
      /\ nx' = next_[nx] /\ service' = [service EXCEPT ![nx] = nullptr]
      /\ next_' = next_ /\ prev_' = prev_ /\ live' = live /\ linked' = linked /\ strays' = strays
  BY DEF ShutdownVisit
<1>2. /\ stage' \in [Contexts -> {"up", "walk", "shutdown", "down"}]
      /\ Walking /\ Walking' /\ e \in Roots /\ Roots' = Roots
      /\ \A y \in Contexts : /\ stage'[y] = "up" <=> stage[y] = "up"
                             /\ stage'[y] = "down" <=> stage[y] = "down"
                             /\ stage'[y] \in {"walk", "shutdown"} <=> stage[y] \in {"walk", "shutdown"}
  BY <1>1, StageStep
<1> DEFINE n == SeenNext(next_, nx)
           p == SeenPrev(prev_, nx)
<1>3. /\ e \in Node /\ nx \in Node /\ e \notin Ops /\ Roots \subseteq Holders
      /\ n[e] = nx /\ p[nx] = e /\ \A a \in Node : a # e => n[a] = next_[a]
      /\ Nth(q, e, 1, nx) /\ nx \in InSome(q)
  BY <1>1, SeenPointers
<1>4. /\ Rings(n, p, Roots, q) /\ InSome(q) = {a \in Ops : service[a] # nullptr}
      /\ n = [next_ EXCEPT ![e] = nx] /\ p = [prev_ EXCEPT ![nx] = e]
  <2>1. Rings(n, p, Roots, q) /\ InSome(q) = {a \in Ops : service[a] # nullptr}
    BY DEF Registers
  <2>2. n = [next_ EXCEPT ![e] = nx] /\ p = [prev_ EXCEPT ![nx] = e]
    BY DEF SeenNext, SeenPrev
  <2> QED BY <2>1, <2>2
<1> HIDE DEF n, p
<1>5. /\ n[nx] \in {e} \cup Range(q[e]) /\ p[n[nx]] = nx /\ Range(q[e]) \subseteq Ops /\ nx \in Ops
  <2>1. Rings(n, p, Roots, q) /\ e \in Roots /\ Nth(q, e, 1, nx)
    BY <1>2, <1>3, <1>4
  <2>2. n[nx] \in {e} \cup Range(q[e]) /\ p[n[nx]] = nx /\ nx \in Ops
    BY <2>1, Neighbours
  <2>3. Range(q[e]) \subseteq Ops
    BY <2>1, RingFacts
  <2> QED BY <2>2, <2>3
<1>6. nx' = n[nx] /\ nx' \in Ops \cup {e} /\ nx' \in Node /\ nx' # nx
  BY <1>1, <1>3, <1>5 DEF Node
<1>7. PICK n2, p2 : n2 = [n EXCEPT ![e] = nx'] /\ p2 = [p EXCEPT ![nx'] = e]
  OBVIOUS
<1>8. Unlinked(nx, n, p, n2, p2)
  BY <1>3, <1>6, <1>7 DEF Unlinked
<1>9. PICK r : r = Without(q, e, 1)
  OBVIOUS
<1>10. /\ Rings(n2, p2, Roots, r) /\ InSome(r) = InSome(q) \ {nx}
       /\ \A k \in Holders : Range(r[k]) = Range(q[k]) \ {nx}
  BY <1>2, <1>3, <1>4, <1>8, <1>9, UnlinkRings
<1>11. /\ SeenNext(next_', nx') \in [Node -> Node] /\ SeenPrev(prev_', nx') \in [Node -> Node]
  BY <1>1, <1>3, <1>6 DEF SeenNext, SeenPrev, ServiceTypes
<1>12. \A a \in Node : a # nx => /\ SeenNext(next_', nx')[a] = n2[a]
                                 /\ SeenPrev(prev_', nx')[a] = p2[a]
  BY <1>1, <1>3, <1>4, <1>6, <1>7 DEF SeenNext, SeenPrev, ServiceTypes
<1>13. Roots \cup InSome(r) \subseteq Node \ {nx}
  BY <1>3, <1>4, <1>5, <1>10, DisjointNodes DEF Node
<1>14. Agree(n2, p2, SeenNext(next_', nx'), SeenPrev(prev_', nx'), Roots \cup InSome(r))
  BY <1>12, <1>13 DEF Agree
<1>15. Rings(SeenNext(next_', nx'), SeenPrev(prev_', nx'), Roots, r)
  BY <1>10, <1>11, <1>14, OtherNodes
<1>16. /\ service' \in [Ops -> Contexts \cup {nullptr}] /\ service'[nx] = nullptr
       /\ \A a \in Ops : a # nx => service'[a] = service[a]
  BY <1>1, <1>5 DEF ServiceTypes
<1>17. InSome(r) = {a \in Ops : service'[a] # nullptr}
  BY <1>4, <1>10, <1>16
<1>18. ASSUME NEW a \in linked' \ strays', service'[a] # nullptr
       PROVE  \/ stage'[service'[a]] = "up" /\ a \in Range(r[service'[a]])
              \/ stage'[service'[a]] \in {"walk", "shutdown"} /\ a \in Range(r[e])
  <2>1. a \in linked \ strays /\ a \in Ops /\ a # nx /\ service'[a] = service[a]
    BY <1>1, <1>16, <1>18 DEF ServiceTypes
  <2>2. service[a] \in Contexts /\ service[a] \in Holders /\ e \in Holders
    BY <1>18, <2>1, ServiceAssumption DEF ServiceTypes, Contexts
  <2>3. \/ stage[service[a]] = "up" /\ a \in Range(q[service[a]])
        \/ stage[service[a]] \in {"walk", "shutdown"} /\ a \in Range(q[e])
    BY <1>18, <2>1 DEF Registers
  <2>4. \A k \in Holders : a \in Range(q[k]) => a \in Range(r[k])
    BY <1>10, <2>1
  <2> QED BY <1>2, <2>1, <2>2, <2>3, <2>4
<1>19. Registers(r)'
  BY <1>2, <1>15, <1>17, <1>18 DEF Registers
<1>20. ServiceTypes'
  BY <1>1, <1>2, <1>6, <1>16 DEF ServiceTypes
<1>21. Lifetimes'
  BY <1>1, <1>2, <1>16 DEF Lifetimes
<1> QED BY <1>19, <1>20, <1>21

(* e.next_ catches up with what shutdown() sees.                           *)
LEMMA AdvanceStep ==
  ASSUME ServiceTypes, Lifetimes, NEW q, Registers(q), NEW x \in Contexts, ShutdownAdvance(x)
  PROVE  ServiceTypes' /\ Lifetimes' /\ \E r : Registers(r)'
<1>1. /\ stage[x] = "shutdown" /\ stage' = [stage EXCEPT ![x] = "walk"]
      /\ next_' = [next_ EXCEPT ![e] = nx] /\ prev_' = prev_ /\ nx' = nx
      /\ live' = live /\ linked' = linked /\ service' = service /\ strays' = strays
  BY DEF ShutdownAdvance
<1>2. /\ stage' \in [Contexts -> {"up", "walk", "shutdown", "down"}]
      /\ Walking /\ Walking' /\ e \in Roots /\ Roots' = Roots
      /\ \A y \in Contexts : /\ stage'[y] = "up" <=> stage[y] = "up"
                             /\ stage'[y] = "down" <=> stage[y] = "down"
                             /\ stage'[y] \in {"walk", "shutdown"} <=> stage[y] \in {"walk", "shutdown"}
  BY <1>1, StageStep
<1>3. e \in Node /\ nx \in Node
  BY SeenPointers
<1>4. next_' \in [Node -> Node] /\ SeenNext(next_', nx') = SeenNext(next_, nx)
  BY <1>1, <1>3 DEF SeenNext, ServiceTypes
<1>5. ASSUME NEW a \in linked' \ strays', service'[a] # nullptr
      PROVE  \/ stage'[service'[a]] = "up" /\ a \in Range(q[service'[a]])
             \/ stage'[service'[a]] \in {"walk", "shutdown"} /\ a \in Range(q[e])
  <2>1. /\ a \in linked \ strays /\ service'[a] = service[a] /\ service[a] \in Contexts
        /\ \/ stage[service[a]] = "up" /\ a \in Range(q[service[a]])
           \/ stage[service[a]] \in {"walk", "shutdown"} /\ a \in Range(q[e])
    BY <1>1, <1>5 DEF Registers, ServiceTypes
  <2> QED BY <1>2, <2>1
<1>6. Registers(q)'
  BY <1>1, <1>2, <1>4, <1>5 DEF Registers
<1>7. ServiceTypes'
  BY <1>1, <1>2, <1>4 DEF ServiceTypes
<1>8. Lifetimes'
  BY <1>1, <1>2 DEF Lifetimes
<1> QED BY <1>6, <1>7, <1>8

(* shutdown() ends where the ring of e is empty: it has met every member   *)
(* of the service.                                                         *)
LEMMA EndStep ==
  ASSUME ServiceTypes, Lifetimes, NEW q, Registers(q), NEW x \in Contexts, ShutdownEnd(x)
  PROVE  ServiceTypes' /\ Lifetimes' /\ \E r : Registers(r)'
<1>1. /\ stage[x] = "walk" /\ nx = e /\ stage' = [stage EXCEPT ![x] = "down"] /\ live' = live \ {e}
      /\ next_' = [next_ EXCEPT ![e] = e] /\ prev_' = [prev_ EXCEPT ![e] = e]
      /\ linked' = linked /\ service' = service /\ strays' = strays /\ nx' = nx
  BY DEF ShutdownEnd
<1>2. /\ stage' \in [Contexts -> {"up", "walk", "shutdown", "down"}] /\ stage'[x] = "down"
      /\ \A y \in Contexts : y # x => stage'[y] = stage[y]
  BY <1>1 DEF ServiceTypes
<1>3. Walking /\ ~ Walking'
  <2>1. Walking
    BY <1>1 DEF Walking
  <2>2. \A y \in Contexts : stage'[y] \notin {"walk", "shutdown"}
    BY <1>1, <1>2 DEF Lifetimes
  <2> QED BY <2>1, <2>2 DEF Walking
<1>4. /\ e \in Node /\ e \notin Contexts /\ e \in Roots /\ SeenNext(next_, nx)[e] = e
  BY <1>1, <1>3, SeenPointers
<1>5. Roots' = Roots \ {e}
  BY <1>3, <1>4 DEF Roots
<1>6. /\ next_' \in [Node -> Node] /\ prev_' \in [Node -> Node]
      /\ SeenNext(next_', nx') = SeenNext(next_, nx) /\ SeenPrev(prev_', nx') = SeenPrev(prev_, nx)
  BY <1>1, <1>4 DEF SeenNext, SeenPrev, ServiceTypes
<1>7. Rings(SeenNext(next_, nx), SeenPrev(prev_, nx), Roots, q)
  BY DEF Registers
<1>8. Rings(SeenNext(next_', nx'), SeenPrev(prev_', nx'), Roots', q) /\ Range(q[e]) = {}
  <2>1. q[e] = << >>
    BY <1>4, <1>7, RootPointers
  <2> QED BY <1>4, <1>5, <1>6, <1>7, <2>1, RootGone, EmptyQueue
<1>9. ASSUME NEW a \in linked' \ strays', service'[a] # nullptr
      PROVE  stage'[service'[a]] = "up" /\ a \in Range(q[service'[a]])
  <2>1. /\ a \in linked \ strays /\ service'[a] = service[a] /\ service[a] \in Contexts
        /\ \/ stage[service[a]] = "up" /\ a \in Range(q[service[a]])
           \/ stage[service[a]] \in {"walk", "shutdown"} /\ a \in Range(q[e])
    BY <1>1, <1>9 DEF Registers, ServiceTypes
  <2> QED BY <1>1, <1>2, <1>8, <2>1
<1>10. Registers(q)'
  BY <1>1, <1>8, <1>9 DEF Registers
<1>11. ServiceTypes'
  BY <1>1, <1>2, <1>6 DEF ServiceTypes
<1>12. Lifetimes'
  <2>1. \A y \in Contexts : stage'[y] # "down" => y \in live'
    BY <1>1, <1>2, <1>4 DEF Lifetimes
  <2>2. \A y \in Contexts : stage'[y] \notin {"walk", "shutdown"}
    BY <1>3 DEF Walking
  <2> QED BY <1>1, <1>3, <2>1, <2>2 DEF Lifetimes
<1> QED BY <1>10, <1>11, <1>12

(* No member that is not astray has a service that is down.                *)
LEMMA GoneStep ==
  ASSUME ServiceTypes, Lifetimes, NEW q, Registers(q), NEW x \in Contexts, DestroyService(x)
  PROVE  ServiceTypes' /\ Lifetimes' /\ \E r : Registers(r)'
<1>1. /\ stage[x] = "down" /\ live' = live \ {x} /\ stage' = stage /\ next_' = next_ /\ prev_' = prev_
      /\ linked' = linked /\ service' = service /\ strays' = strays /\ nx' = nx
  BY DEF DestroyService
<1>2. Walking' = Walking /\ Roots' = Roots
  BY <1>1 DEF Walking, Roots
<1>3. Registers(q)'
  BY <1>1, <1>2 DEF Registers
<1>4. x # e
  BY DEF Contexts
<1> QED BY <1>1, <1>2, <1>3, <1>4 DEF ServiceTypes, Lifetimes

LEMMA ServiceStep == SInv /\ [SNext]_svars => SInv'
<1> SUFFICES ASSUME SInv, [SNext]_svars, ~ mishap'
             PROVE  ServiceTypes' /\ Lifetimes' /\ \E r : Registers(r)'
  BY DEF SInv
<1>1. ~ mishap
  BY DEF svars, SNext, ConstructMember, MoveConstructMember, MoveAssign, DestroyMember,
         ShutdownBegin, ShutdownStep, ShutdownVisit, ShutdownAdvance, ShutdownEnd, DestroyService
<1>2. PICK q : ServiceTypes /\ Lifetimes /\ Registers(q)
  BY <1>1 DEF SInv
<1>3. ASSUME NEW m \in Ops, NEW x \in Contexts, ConstructMember(m, x)
      PROVE  ServiceTypes' /\ Lifetimes' /\ \E r : Registers(r)'
  <2>1. /\ m \in Ops \ linked /\ x \in live \ {e} /\ Register(m, x)
        /\ linked' = linked \cup {m} /\ service' = [service EXCEPT ![m] = x]
        /\ strays' = IF stage[x] = "up" THEN strays ELSE strays \cup {m}
        /\ UNCHANGED <<live, stage, nx>>
    BY <1>3 DEF ConstructMember
  <2> QED BY <1>2, <2>1, RegisterStep
<1>4. ASSUME NEW m \in Ops, NEW from \in Ops, MoveConstructMember(m, from)
      PROVE  ServiceTypes' /\ Lifetimes' /\ \E r : Registers(r)'
  <2>1. PICK x : x = service[from]
    OBVIOUS
  <2>2. x \in live \ {e}
    BY <1>2, <1>4, <2>1, ServiceAssumption DEF MoveConstructMember, Reachable, ServiceTypes, Contexts
  <2>3. /\ m \in Ops \ linked /\ Register(m, x)
        /\ linked' = linked \cup {m} /\ service' = [service EXCEPT ![m] = x]
        /\ strays' = IF stage[x] = "up" THEN strays ELSE strays \cup {m}
        /\ UNCHANGED <<live, stage, nx>>
    BY <1>4, <2>1 DEF MoveConstructMember
  <2> QED BY <1>2, <2>2, <2>3, RegisterStep
<1>5. ASSUME NEW m \in Ops, NEW from \in Ops, MoveAssign(m, from)
      PROVE  ServiceTypes' /\ Lifetimes' /\ \E r : Registers(r)'
  BY <1>2, <1>5, AssignStep
<1>6. ASSUME NEW m \in Ops, DestroyMember(m)
      PROVE  ServiceTypes' /\ Lifetimes' /\ \E r : Registers(r)'
  <2>1. /\ linked' = linked \ {m} /\ service' = [service EXCEPT ![m] = nullptr] /\ strays' = strays \ {m}
        /\ ~ PullsAway(m) /\ UNCHANGED <<live, stage, nx>>
    BY <1>6 DEF DestroyMember
  <2>2. CASE /\ service[m] = nullptr
             /\ next_' = [next_ EXCEPT ![m] = m] /\ prev_' = [prev_ EXCEPT ![m] = m]
    BY <1>2, <2>1, <2>2, DestroyUnregistered
  <2>3. CASE /\ Reachable(m)
             /\ next_' = [next_ EXCEPT ![prev_[m]] = next_[m], ![m] = m]
             /\ prev_' = [prev_ EXCEPT ![next_[m]] = prev_[m], ![m] = m]
    <3>1. service[m] # nullptr
      BY <1>2, <2>3, ServiceAssumption DEF Reachable, ServiceTypes
    <3>2. m # nx
      <4>1. e \notin Ops /\ (nx # e => Walking)
        BY <1>2, SeenPointers
      <4> QED BY <2>1, <4>1 DEF PullsAway
    <3> QED BY <1>2, <2>1, <2>3, <3>1, <3>2, DestroyRegistered
  <2> QED BY <1>6, <2>2, <2>3 DEF DestroyMember
<1>7. ASSUME NEW x \in Contexts, ShutdownBegin(x) \/ ShutdownStep(x) \/ DestroyService(x)
      PROVE  ServiceTypes' /\ Lifetimes' /\ \E r : Registers(r)'
  BY <1>2, <1>7, BeginStep, VisitStep, AdvanceStep, EndStep, GoneStep DEF ShutdownStep
<1>8. CASE UNCHANGED svars
  <2>1. /\ next_' = next_ /\ prev_' = prev_ /\ live' = live /\ linked' = linked /\ service' = service
        /\ stage' = stage /\ nx' = nx /\ strays' = strays
    BY <1>8 DEF svars
  <2>2. Walking' = Walking /\ Roots' = Roots
    BY <2>1 DEF Walking, Roots
  <2> QED BY <1>2, <2>1, <2>2 DEF ServiceTypes, Lifetimes, Registers
<1> QED BY <1>3, <1>4, <1>5, <1>6, <1>7, <1>8 DEF SNext

LEMMA ServiceInit == SInit => SInv
<1> SUFFICES ASSUME SInit PROVE ServiceTypes /\ Lifetimes /\ \E q : Registers(q)
  BY DEF SInv
<1>1. e \in Node /\ e \notin Contexts /\ Contexts \subseteq Holders
  BY ServiceAssumption DEF Node, Contexts
<1>2. ~ Walking /\ Roots = Contexts
  <2>1. ~ Walking
    BY DEF SInit, Walking
  <2> QED BY <2>1 DEF Roots
<1>3. ServiceTypes /\ Lifetimes
  BY <1>1, <1>2 DEF SInit, ServiceTypes, Lifetimes
<1> DEFINE q == [h \in Holders |-> << >>]
<1>4. q \in [Holders -> Seq(Ops)] /\ \A h \in Holders : q[h] = << >> /\ Len(q[h]) = 0
  OBVIOUS
<1> HIDE DEF q
<1>5. InSome(q) = {} /\ NoneTwice(q)
  BY <1>4, EmptyQueue DEF InSome, NoneTwice
<1>6. /\ SeenNext(next_, nx) = next_ /\ SeenPrev(prev_, nx) = prev_
      /\ next_ \in [Node -> Node] /\ prev_ \in [Node -> Node]
      /\ \A h \in Contexts : next_[h] = h /\ prev_[h] = h
  BY <1>1 DEF SInit, SeenNext, SeenPrev, Node
<1>7. \A h \in Contexts : IsRing(next_, prev_, h, q[h])
  <2>1. ASSUME NEW h \in Contexts PROVE IsRing(next_, prev_, h, q[h])
    <3>1. IsRing(next_, prev_, h, << >>)
      BY <1>6, EmptyRing
    <3> QED BY <1>1, <1>4, <3>1
  <2> QED BY <2>1
<1>8. Rings(next_, prev_, Contexts, q)
  BY <1>1, <1>4, <1>5, <1>6, <1>7 DEF Rings
<1>9. InSome(q) = {m \in Ops : service[m] # nullptr} /\ linked = {}
  BY <1>5 DEF SInit
<1>10. Registers(q)
  BY <1>2, <1>6, <1>8, <1>9 DEF Registers
<1> QED BY <1>3, <1>10

LEMMA ServiceInvariance == SSpec => []SInv
<1> QED BY ServiceInit, ServiceStep, PTL DEF SSpec

(* No member is left with a pointer to a service that is gone: shutdown()  *)
(* has reached it, whatever was constructed, moved and destroyed while it  *)
(* walked without the mutex.                                               *)
THEOREM MembersHaveServices == SSpec => []ServiceOutlivesMembers
<1>1. SInv => ServiceOutlivesMembers
  <2> SUFFICES ASSUME SInv, ~ mishap, NEW m \in linked \ strays, service[m] # nullptr
               PROVE  Reachable(m)
    BY DEF ServiceOutlivesMembers
  <2>1. PICK q : ServiceTypes /\ Lifetimes /\ Registers(q)
    BY DEF SInv
  <2>2. service[m] \in Contexts /\ stage[service[m]] # "down"
    BY <2>1 DEF ServiceTypes, Registers
  <2> QED BY <2>1, <2>2 DEF Lifetimes, Reachable
<1> QED BY <1>1, ServiceInvariance, PTL

(* The destructors of the members and the walk of shutdown() only follow   *)
(* pointers to what still lives, and find rings that are closed in both    *)
(* directions.                                                             *)
THEOREM RegistryIsLinked == SSpec => []RegistryStaysLinked
<1>1. SInv => RegistryStaysLinked
  <2> SUFFICES ASSUME SInv, ~ mishap
               PROVE  /\ Walking => nx \in linked \cup {e}
                      /\ \A m \in linked \ strays :
                           service[m] # nullptr /\ ~ PullsAway(m) =>
                             /\ {next_[m], prev_[m]} \subseteq Active
                             /\ prev_[next_[m]] = m /\ next_[prev_[m]] = m
    BY DEF RegistryStaysLinked
  <2>1. PICK q : ServiceTypes /\ Lifetimes /\ Registers(q)
    BY DEF SInv
  <2>2. /\ Rings(SeenNext(next_, nx), SeenPrev(prev_, nx), Roots, q)
        /\ InSome(q) = {m \in Ops : service[m] # nullptr} /\ InSome(q) \subseteq linked
    BY <2>1 DEF Registers, Lifetimes
  <2>3. /\ nx # e => Walking /\ nx \in InSome(q)
        /\ e \notin Ops /\ Contexts \subseteq Roots /\ (e \in Roots <=> Walking)
    BY <2>1, SeenPointers
  <2>4. ASSUME NEW m \in linked \ strays, service[m] # nullptr, ~ PullsAway(m)
        PROVE  /\ {next_[m], prev_[m]} \subseteq Active
               /\ prev_[next_[m]] = m /\ next_[prev_[m]] = m
    <3>1. m \in Ops /\ m # nx /\ service[m] \in Contexts
      BY <2>1, <2>3, <2>4 DEF ServiceTypes, PullsAway
    <3>2. PICK h \in Roots : h \in live /\ m \in Range(q[h])
      <4>1. CASE stage[service[m]] = "up" /\ m \in Range(q[service[m]])
        BY <2>1, <2>3, <3>1, <4>1 DEF Lifetimes
      <4>2. CASE stage[service[m]] \in {"walk", "shutdown"} /\ m \in Range(q[e])
        <5>1. Walking
          BY <3>1, <4>2 DEF Walking
        <5> QED BY <2>1, <2>3, <4>2, <5>1 DEF Lifetimes
      <4> QED BY <2>1, <2>4, <4>1, <4>2 DEF Registers
    <3>3. Range(q[h]) \subseteq linked /\ q[h] \in Seq(Ops)
      BY <2>2, RingFacts
    <3>4. PICK i : Nth(q, h, i, m)
      <4>1. PICK i \in DOMAIN q[h] : q[h][i] = m
        BY <3>2 DEF Range
      <4> QED BY <3>3, <4>1 DEF Nth
    <3>5. /\ next_[m] \in {h} \cup Range(q[h]) /\ prev_[m] \in {h} \cup Range(q[h])
          /\ prev_[next_[m]] = m /\ next_[prev_[m]] = m
      BY <2>1, <3>1, <3>4, SeenMember
    <3> QED BY <3>2, <3>3, <3>5 DEF Active
  <2> QED BY <2>2, <2>3, <2>4
<1> QED BY <1>1, ServiceInvariance, PTL
=============================================================================
