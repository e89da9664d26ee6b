------------------------ MODULE FileMutationLocksProofs ------------------------
(***************************************************************************)
(* What the operations of the mutation queue keep, whoever calls them.       *)
(***************************************************************************)
EXTENDS FileMutationLocks, SequenceTheorems, WellFoundedInduction, TLAPS

\* A bounded nonempty set of naturals has a largest element.
LEMMA BoundedMax ==
  ASSUME NEW n \in Nat, NEW T \in SUBSET (0..n), T # {}
  PROVE  Max(T) \in T
<1> DEFINE U == {x \in 0..n : n - x \in T}
           R == OpToRel(<, Nat)
<1>0. \A k \in T : k \in 0..n /\ n - k \in 0..n /\ n - (n - k) = k
  OBVIOUS
<1>1. \A k \in T : n - k \in U
  <2> TAKE k \in T
  <2>1. n - (n - k) \in T
    BY <1>0, Zenon
  <2> QED
    BY <2>1, <1>0
<1>2. U # {} /\ U \subseteq Nat
  <2>1. PICK k \in T : n - k \in U
    BY <1>1
  <2>2. U # {}
    BY <2>1, Zenon
  <2>3. U \subseteq Nat
    OBVIOUS
  <2> QED
    BY <2>2, <2>3
<1>3. PICK x \in U : \A y \in U : ~(<<y, x>> \in R)
  <2> HIDE DEF U, R
  <2>1. \E x \in U : \A y \in U : ~(<<y, x>> \in R)
    BY <1>2, WFMin, NatLessThanWellFounded DEF R
  <2> QED
    BY <2>1
<1>4. \A y \in U : ~(y < x)
  BY <1>3, <1>2 DEF OpToRel
<1>5. \A k \in T : n - x >= k
  <2> TAKE k \in T
  <2>1. ~(n - k < x) /\ x \in 0..n
    BY <1>1, <1>4
  <2> QED
    BY <2>1, <1>0
<1>6. n - x \in T
  OBVIOUS
<1>7. \E k \in T : \A j \in T : k >= j
  BY <1>5, <1>6
<1> QED
  BY <1>7, Zenon DEF Max

\* Canonicalization of an absolute path yields an absolute path.
LEMMA CanonicalType ==
  ASSUME NEW p \in AbsolutePaths
  PROVE  canonicalMutationPath(p) \in AbsolutePaths
<1> DEFINE ancestor(k) == SubSeq(p, 1, k)
           stops == {k \in 0..Len(p) : ancestor(k) \in DOMAIN Resolve \cup Unreadable}
           last == Max(stops)
           rest == SubSeq(p, last + 1, Len(p))
<1>1. Len(p) \in Nat /\ p \in [1..Len(p) -> Components]
  BY LenProperties DEF AbsolutePaths
<1>2. 0 \in stops
  <2>1. ancestor(0) = <<>>
    BY SubSeqEmpty
  <2>2. 0 \in 0..Len(p)
    BY <1>1
  <2>3. ancestor(0) \in DOMAIN Resolve \cup Unreadable
    BY <2>1, ResolveAssumption, Zenon
  <2> QED
    BY <2>2, <2>3, Zenon
<1>3. last \in stops
  <2> HIDE DEF stops
  <2>1. stops \in SUBSET (0..Len(p))
    BY DEF stops
  <2> QED
    BY <2>1, <1>1, <1>2, BoundedMax
<1>4. rest \in Seq(Components)
  <2>1. \A i \in (last + 1)..Len(p) : p[i] \in Components
    BY <1>1, <1>3
  <2>2. last + 1 \in Int /\ Len(p) \in Int
    BY <1>1, <1>3
  <2> HIDE DEF last
  <2> QED
    BY <2>1, <2>2, SubSeqProperties
<1>5. ancestor(last) \notin Unreadable => Resolve[ancestor(last)] \in Seq(Components)
  BY <1>3, ResolveAssumption DEF AbsolutePaths
<1>6. ancestor(last) \notin Unreadable => Resolve[ancestor(last)] \o rest \in Seq(Components)
  <2> HIDE DEF rest, ancestor, last
  <2> QED
    BY <1>4, <1>5, ConcatProperties
<1> QED
  BY <1>6 DEF canonicalMutationPath, AbsolutePaths

\* What deleting one element leaves of a sequence.
LEMMA RemoveAtProperties ==
  ASSUME NEW S, NEW s \in Seq(S), NEW i \in 1..Len(s)
  PROVE  /\ RemoveAt(s, i) \in Seq(S)
         /\ Len(RemoveAt(s, i)) = Len(s) - 1
         /\ \A k \in 1..(Len(s) - 1) : RemoveAt(s, i)[k] = IF k < i THEN s[k] ELSE s[k + 1]
<1> DEFINE front == SubSeq(s, 1, i - 1)
           back  == SubSeq(s, i + 1, Len(s))
<1>1. Len(s) \in Nat /\ s \in [1..Len(s) -> S]
  BY LenProperties
<1>2. /\ front \in Seq(S)
      /\ Len(front) = i - 1
      /\ \A k \in 1..(i - 1) : front[k] = s[k]
  <2>1. \A k \in 1..(i - 1) : s[k] \in S
    BY <1>1
  <2>2. i - 1 \in Int
    OBVIOUS
  <2>3. /\ front \in Seq(S)
        /\ Len(front) = IF 1 <= i - 1 THEN (i - 1) - 1 + 1 ELSE 0
        /\ \A k \in 1..((i - 1) - 1 + 1) : front[k] = s[1 + k - 1]
    BY <2>1, <2>2, SubSeqProperties
  <2> HIDE DEF front
  <2> QED
    BY <2>3
<1>3. /\ back \in Seq(S)
      /\ Len(back) = Len(s) - i
      /\ \A k \in 1..(Len(s) - i) : back[k] = s[i + k]
  <2>1. \A k \in (i + 1)..Len(s) : s[k] \in S
    BY <1>1
  <2>2. i + 1 \in Int /\ Len(s) \in Int
    BY <1>1
  <2>3. /\ back \in Seq(S)
        /\ Len(back) = IF i + 1 <= Len(s) THEN Len(s) - (i + 1) + 1 ELSE 0
        /\ \A k \in 1..(Len(s) - (i + 1) + 1) : back[k] = s[(i + 1) + k - 1]
    BY <2>1, <2>2, SubSeqProperties
  <2> HIDE DEF back
  <2>4. Len(back) = Len(s) - i
    <3>1. i + 1 <= Len(s) => Len(s) - (i + 1) + 1 = Len(s) - i
      BY <1>1
    <3>2. ASSUME ~(i + 1 <= Len(s)) PROVE Len(s) - i = 0
      <4>1. i \in Int /\ Len(s) \in Int /\ i <= Len(s)
        BY <1>1
      <4> QED
        BY <4>1, <3>2
    <3>3. Len(back) = IF i + 1 <= Len(s) THEN Len(s) - (i + 1) + 1 ELSE 0
      BY <2>3
    <3> QED
      BY <3>1, <3>2, <3>3
  <2>5. ASSUME NEW k \in 1..(Len(s) - i)
        PROVE  back[k] = s[i + k]
    <3>1. (i + 1) + k - 1 = i + k /\ k \in 1..(Len(s) - (i + 1) + 1)
      BY <1>1
    <3> QED
      BY <3>1, <2>3
  <2> QED
    BY <2>3, <2>4, <2>5
<1>4. /\ front \o back \in Seq(S)
      /\ Len(front \o back) = Len(front) + Len(back)
      /\ \A k \in 1..(Len(front) + Len(back)) :
           (front \o back)[k] = IF k <= Len(front) THEN front[k] ELSE back[k - Len(front)]
  <2> HIDE DEF front, back
  <2> QED
    BY <1>2, <1>3, ConcatProperties
<1> HIDE DEF front, back
<1>5. RemoveAt(s, i) = front \o back
  BY DEF RemoveAt, front, back
<1>6. Len(front) + Len(back) = Len(s) - 1 /\ Len(front) = i - 1
  BY <1>1, <1>2, <1>3
<1>7. ASSUME NEW k \in 1..(Len(s) - 1)
      PROVE  (front \o back)[k] = IF k < i THEN s[k] ELSE s[k + 1]
  <2>1. (front \o back)[k] = IF k <= i - 1 THEN front[k] ELSE back[k - (i - 1)]
    BY <1>4, <1>6
  <2>2. CASE k < i
    <3>1. k \in 1..(i - 1) /\ k <= i - 1
      BY <2>2, <1>1
    <3> QED
      BY <3>1, <2>1, <2>2, <1>2
  <2>3. CASE ~(k < i)
    <3>1. /\ ~(k <= i - 1)
          /\ k - (i - 1) \in 1..(Len(s) - i)
          /\ i + (k - (i - 1)) = k + 1
      BY <2>3, <1>1
    <3>2. back[k - (i - 1)] = s[i + (k - (i - 1))]
      BY <3>1, <1>3
    <3> QED
      BY <3>1, <3>2, <2>1, <2>3
  <2> QED
    BY <2>2, <2>3
<1> QED
  BY <1>4, <1>5, <1>6, <1>7
--------------------------------------------------------------------------------

\* Conflict between paths is symmetric.
LEMMA ConflictSymmetric ==
  ASSUME NEW l, NEW r
  PROVE  mutationPathsConflict(l, r) <=> mutationPathsConflict(r, l)
BY DEF mutationPathsConflict

\* What the queue operations maintain, whatever their callers do.
QueueInv ==
    /\ reservations \in Seq(Holders)
    /\ ready \in SUBSET Holders
    /\ path \in [Holders -> AbsolutePaths]
    /\ \A i, j \in DOMAIN reservations : reservations[i] = reservations[j] => i = j
    /\ ReadyIffUnblocked

\* A new reservation joins the end of a well-formed queue.
LEMMA ReserveStep ==
  ASSUME QueueInv, NEW c \in Holders, ~InQueue(c), NEW wanted \in AbsolutePaths,
         reserve(c, wanted)
  PROVE  /\ QueueInv'
         /\ \A d \in Holders : InQueue(d)' <=> InQueue(d) \/ d = c
         /\ ready \subseteq ready' \cup {c}
<1> DEFINE n == Len(reservations)
<1> USE DEF QueueInv
<1>1. n \in Nat /\ DOMAIN reservations = 1..n /\ \A i \in 1..n : reservations[i] \in Holders
  BY LenProperties
<1>2. /\ reservations' \in Seq(Holders)
      /\ Len(reservations') = n + 1
      /\ \A i \in 1..n : reservations'[i] = reservations[i]
      /\ reservations'[n + 1] = c
  BY AppendProperties DEF reserve
<1>3. DOMAIN reservations' = 1..(n + 1)
  BY <1>2, LenProperties
<1>4. \A i \in 1..n : reservations[i] # c
  BY <1>1 DEF InQueue
<1>5. /\ path' \in [Holders -> AbsolutePaths]
      /\ path'[c] = wanted
      /\ \A i \in 1..n : path'[reservations[i]] = path[reservations[i]]
  BY <1>1, <1>4 DEF reserve
<1> HIDE DEF n
<1>6. ready' \in SUBSET Holders /\ (\A d \in Holders : d # c => (d \in ready' <=> d \in ready))
  BY DEF reserve
<1>7. \A i, j \in DOMAIN reservations' : reservations'[i] = reservations'[j] => i = j
  BY <1>1, <1>2, <1>3, <1>4
<1>8. \A d \in Holders : InQueue(d)' <=> InQueue(d) \/ d = c
  BY <1>1, <1>2, <1>3 DEF InQueue
<1>9. ReadyIffUnblocked'
  <2> SUFFICES ASSUME NEW i \in 1..(n + 1)
               PROVE  (reservations[i] \in ready)' <=> ~BlockedAt(reservations, path, i)'
    BY <1>3 DEF ReadyIffUnblocked
  <2>1. CASE i \in 1..n
    <3>1. \A j \in 1..(i - 1) : j \in 1..n
      BY <2>1, <1>1
    <3>2. BlockedAt(reservations, path, i)' <=> BlockedAt(reservations, path, i)
      BY <2>1, <3>1, <1>2, <1>5 DEF BlockedAt
    <3>3. reservations[i] \in ready <=> ~BlockedAt(reservations, path, i)
      BY <2>1, <1>1 DEF ReadyIffUnblocked
    <3>4. reservations'[i] \in ready' <=> reservations[i] \in ready
      BY <2>1, <1>1, <1>2, <1>4, <1>6
    <3> QED
      BY <3>2, <3>3, <3>4
  <2>2. CASE i = n + 1
    <3>1. i - 1 = n
      BY <2>2, <1>1
    <3>2. BlockedAt(reservations, path, i)' <=> Blocked(reservations, path, wanted)
      BY <2>2, <3>1, <1>1, <1>2, <1>5 DEF BlockedAt, Blocked, n
    <3>3. c \in ready' <=> ~Blocked(reservations, path, wanted)
      BY DEF reserve
    <3> QED
      BY <2>2, <1>2, <3>2, <3>3
  <2> QED
    BY <2>1, <2>2, <1>1
<1> QED
  BY <1>2, <1>5, <1>6, <1>7, <1>8, <1>9

\* Reservations that stay in the queue keep their order.
OrderKept ==
    \A k, m \in DOMAIN reservations' : k < m =>
        \E i, j \in DOMAIN reservations :
            i < j /\ reservations[i] = reservations'[k] /\ reservations[j] = reservations'[m]

\* A reservation that leaves wakes exactly those that nothing blocks any more.
LEMMA RemoveStep ==
  ASSUME QueueInv, NEW c \in Holders, remove(c)
  PROVE  /\ QueueInv'
         /\ \A d \in Holders : InQueue(d)' <=> InQueue(d) /\ d # c
         /\ ready \subseteq ready' \cup {c}
         /\ path' = path
         /\ OrderKept
<1> DEFINE n == Len(reservations)
<1> USE DEF QueueInv
<1>1. n \in Nat /\ DOMAIN reservations = 1..n /\ \A i \in 1..n : reservations[i] \in Holders
  BY LenProperties
<1>2. path' = path
  BY DEF remove
<1>3. CASE ~InQueue(c)
  <2>1. UNCHANGED <<reservations, ready>>
    BY <1>1, <1>3 DEF remove, InQueue
  <2>2. QueueInv'
    BY <1>2, <2>1 DEF ReadyIffUnblocked, BlockedAt
  <2>3. OrderKept
    BY <2>1 DEF OrderKept
  <2> QED
    BY <1>2, <1>3, <2>1, <2>2, <2>3 DEF InQueue
<1>4. CASE InQueue(c)
  <2> DEFINE q == reservations'
             old(k, i) == IF k < i THEN k ELSE k + 1
  <2>1. PICK i \in 1..n : /\ reservations[i] = c
                          /\ q = RemoveAt(reservations, i)
                          /\ ready' = (ready \cup Woken(q)) \ {c}
    BY <1>4 DEF remove
  <2>2. /\ q \in Seq(Holders)
        /\ Len(q) = n - 1
        /\ \A k \in 1..(n - 1) : q[k] = reservations[old(k, i)]
    <3>1. /\ RemoveAt(reservations, i) \in Seq(Holders)
          /\ Len(RemoveAt(reservations, i)) = n - 1
          /\ \A k \in 1..(n - 1) : RemoveAt(reservations, i)[k]
                 = IF k < i THEN reservations[k] ELSE reservations[k + 1]
      BY RemoveAtProperties
    <3> QED
      BY <3>1, <2>1
  <2>3. DOMAIN q = 1..(n - 1)
    BY <2>2, LenProperties
  <2> HIDE DEF n
  <2>4. \A k \in 1..(n - 1) : old(k, i) \in 1..n /\ old(k, i) # i
    BY <1>1, <2>1
  <2>5. \A j \in 1..n : j # i => \E k \in 1..(n - 1) : old(k, i) = j
    <3> TAKE j \in 1..n
    <3> HAVE j # i
    <3>1. CASE j < i
      <4>1. j \in 1..(n - 1) /\ old(j, i) = j
        BY <3>1, <1>1, <2>1
      <4> QED
        BY <4>1
    <3>2. CASE ~(j < i)
      <4>1. j - 1 \in 1..(n - 1) /\ old(j - 1, i) = j
        BY <3>2, <1>1, <2>1
      <4> QED
        BY <4>1
    <3> QED
      BY <3>1, <3>2
  <2>6. \A k, m \in 1..(n - 1) : /\ old(k, i) = old(m, i) => k = m
                                 /\ k < m => old(k, i) < old(m, i)
    BY <1>1, <2>1
  <2> HIDE DEF old
  <2>7. \A k \in 1..(n - 1) : q[k] \in Holders /\ q[k] # c
    BY <1>1, <2>1, <2>2, <2>4
  <2>8. \A k, m \in 1..(n - 1) : q[k] = q[m] => k = m
    BY <1>1, <2>2, <2>4, <2>6
  <2>9. ASSUME NEW d \in Holders
        PROVE  InQueue(d)' <=> InQueue(d) /\ d # c
    <3>1. ASSUME InQueue(d)' PROVE InQueue(d) /\ d # c
      <4>1. PICK k \in 1..(n - 1) : q[k] = d
        BY <3>1, <2>3 DEF InQueue
      <4>2. reservations[old(k, i)] = d /\ old(k, i) \in 1..n
        BY <4>1, <2>2, <2>4
      <4> QED
        BY <4>1, <4>2, <1>1, <2>7 DEF InQueue
    <3>2. ASSUME InQueue(d), d # c PROVE InQueue(d)'
      <4>1. PICK j \in 1..n : reservations[j] = d
        BY <3>2, <1>1 DEF InQueue
      <4>2. PICK k \in 1..(n - 1) : old(k, i) = j
        BY <4>1, <3>2, <2>1, <2>5
      <4>3. q[k] = d
        BY <4>1, <4>2, <2>2
      <4> QED
        BY <4>3, <2>3 DEF InQueue
    <3> QED
      BY <3>1, <3>2
  <2>10. \A k \in 1..(n - 1) : q[k] \in Woken(q) <=> ~BlockedAt(q, path, k)
    <3>1. Woken(q) = {q[m] : m \in {k \in 1..(n - 1) : ~BlockedAt(q, path, k)}}
      BY <2>2 DEF Woken
    <3> QED
      BY <3>1, <2>8
  <2>11. \A k \in 1..(n - 1) : q[k] \in ready => ~BlockedAt(q, path, k)
    <3> SUFFICES ASSUME NEW k \in 1..(n - 1), q[k] \in ready, BlockedAt(q, path, k)
                 PROVE  FALSE
      OBVIOUS
    <3>1. PICK j \in 1..(k - 1) : mutationPathsConflict(path[q[j]], path[q[k]])
      BY DEF BlockedAt
    <3>2. j \in 1..(n - 1) /\ j < k
      BY <1>1, <3>1
    <3>3. old(j, i) \in 1..(old(k, i) - 1)
      BY <1>1, <2>4, <2>6, <3>2
    <3>4. mutationPathsConflict(path[reservations[old(j, i)]], path[reservations[old(k, i)]])
      BY <2>2, <3>1, <3>2
    <3>5. BlockedAt(reservations, path, old(k, i))
      BY <3>3, <3>4 DEF BlockedAt
    <3>6. reservations[old(k, i)] \in ready
      BY <2>2
    <3> QED
      BY <3>5, <3>6, <1>1, <2>4 DEF ReadyIffUnblocked
  <2>12. ReadyIffUnblocked'
    <3>1. \A k \in 1..(n - 1) : q[k] \in ready' <=> ~BlockedAt(q, path, k)
      BY <2>1, <2>7, <2>10, <2>11
    <3> QED
      BY <3>1, <2>3, <1>2 DEF ReadyIffUnblocked, BlockedAt
  <2>13. ready' \in SUBSET Holders
    <3>1. Woken(q) \subseteq Holders
      BY <2>2, <2>7 DEF Woken
    <3> QED
      BY <3>1, <2>1
  <2>14. ready \subseteq ready' \cup {c}
    BY <2>1
  <2>15. OrderKept
    <3> SUFFICES ASSUME NEW k \in 1..(n - 1), NEW m \in 1..(n - 1), k < m
                 PROVE  \E i1, j1 \in 1..n : /\ i1 < j1
                                            /\ reservations[i1] = q[k]
                                            /\ reservations[j1] = q[m]
      BY <1>1, <2>3 DEF OrderKept
    <3> QED
      BY <2>2, <2>4, <2>6
  <2> QED
    BY <1>2, <2>2, <2>3, <2>8, <2>9, <2>12, <2>13, <2>14, <2>15
<1> QED
  BY <1>3, <1>4
================================================================================
