-------------------------- MODULE RoundRobinProofs --------------------------
(* Theorems about RoundRobin, for every value of its constants. *)
EXTENDS RoundRobin, FiniteSetTheorems, SequenceTheorems, TLAPS

-----------------------------------------------------------------------------
(* Lists of plugins *)

NoRepeats(list) == \A i, j \in DOMAIN list : list[i] = list[j] => i = j

LEMMA RemoveAtShape ==
  ASSUME NEW S, NEW s \in Seq(S), NEW k \in DOMAIN s
  PROVE  /\ RemoveAt(s, k) \in Seq(S)
         /\ Len(RemoveAt(s, k)) = Len(s) - 1
         /\ \A i \in 1 .. Len(s) - 1 :
              RemoveAt(s, k)[i] = IF i < k THEN s[i] ELSE s[i + 1]
<1> DEFINE p == SubSeq(s, 1, k - 1)
           q == SubSeq(s, k + 1, Len(s))
<1>1. Len(s) \in Nat /\ k \in 1 .. Len(s) /\ \A i \in 1 .. Len(s) : s[i] \in S
  BY LenProperties, ElementOfSeq
<1>2. /\ p \in Seq(S) /\ Len(p) = k - 1
      /\ \A i \in 1 .. k - 1 : p[i] = s[i]
  <2>1. \A i \in 1 .. k - 1 : s[i] \in S
    BY <1>1
  <2>2. /\ p \in Seq(S) /\ Len(p) = IF 1 <= k - 1 THEN (k - 1) - 1 + 1 ELSE 0
        /\ \A i \in 1 .. (k - 1) - 1 + 1 : p[i] = s[1 + i - 1]
    BY <1>1, <2>1, SubSeqProperties
  <2> QED
    BY <1>1, <2>2
<1>3. /\ q \in Seq(S) /\ Len(q) = Len(s) - k
      /\ \A i \in 1 .. Len(s) - k : q[i] = s[k + i]
  <2>1. \A i \in k + 1 .. Len(s) : s[i] \in S
    BY <1>1
  <2>2. /\ q \in Seq(S) /\ Len(q) = IF k + 1 <= Len(s) THEN Len(s) - (k + 1) + 1 ELSE 0
        /\ \A i \in 1 .. Len(s) - (k + 1) + 1 : q[i] = s[(k + 1) + i - 1]
    BY <1>1, <2>1, SubSeqProperties
  <2> QED
    BY <1>1, <2>2
<1> HIDE DEF p, q
<1>4. /\ p \o q \in Seq(S)
      /\ Len(p \o q) = Len(s) - 1
      /\ \A i \in 1 .. Len(s) - 1 : (p \o q)[i] = IF i <= k - 1 THEN p[i] ELSE q[i - (k - 1)]
  <2>1. /\ p \o q \in Seq(S)
        /\ Len(p \o q) = Len(p) + Len(q)
        /\ \A i \in 1 .. Len(p) + Len(q) :
             (p \o q)[i] = IF i <= Len(p) THEN p[i] ELSE q[i - Len(p)]
    BY <1>2, <1>3, ConcatProperties
  <2>2. Len(p) + Len(q) = Len(s) - 1 /\ Len(p) = k - 1
    BY <1>1, <1>2, <1>3
  <2> QED
    BY <2>1, <2>2
<1>5. ASSUME NEW i \in 1 .. Len(s) - 1
      PROVE  (p \o q)[i] = IF i < k THEN s[i] ELSE s[i + 1]
  <2>1. CASE i < k
    <3>1. i \in 1 .. k - 1 /\ i <= k - 1
      BY <1>1, <2>1
    <3> QED
      BY <1>2, <1>4, <2>1, <3>1
  <2>2. CASE ~(i < k)
    <3>1. /\ i - (k - 1) \in 1 .. Len(s) - k /\ ~(i <= k - 1)
          /\ k + (i - (k - 1)) = i + 1
      BY <1>1, <2>2
    <3>2. q[i - (k - 1)] = s[k + (i - (k - 1))]
      BY <1>3, <3>1
    <3> QED
      BY <1>4, <2>2, <3>1, <3>2
  <2> QED
    BY <2>1, <2>2
<1> QED
  BY <1>4, <1>5 DEF RemoveAt, p, q

LEMMA RemoveFirstShape ==
  ASSUME NEW S, NEW s \in Seq(S), NoRepeats(s), NEW e
  PROVE  /\ RemoveFirst(s, e) \in Seq(S)
         /\ NoRepeats(RemoveFirst(s, e))
         /\ \A i \in DOMAIN RemoveFirst(s, e) :
              /\ RemoveFirst(s, e)[i] # e
              /\ \E j \in DOMAIN s : RemoveFirst(s, e)[i] = s[j]
         /\ Len(RemoveFirst(s, e)) >= Len(s) - 1
         /\ (\A i \in DOMAIN s : s[i] # e) => RemoveFirst(s, e) = s
<1>1. DOMAIN s = 1 .. Len(s) /\ Len(s) \in Nat
  BY LenProperties
<1>2. CASE \A i \in DOMAIN s : s[i] # e
  <2>1. RemoveFirst(s, e) = s
    BY <1>1, <1>2 DEF RemoveFirst
  <2> QED
    BY <1>1, <1>2, <2>1
<1>3. ASSUME NEW k \in DOMAIN s, s[k] = e
      PROVE  RemoveFirst(s, e) = RemoveAt(s, k)
  <2>1. {i \in 1 .. Len(s) : s[i] = e} = {k}
    BY <1>1, <1>3 DEF NoRepeats
  <2>2. Min({k}) = k
    BY <1>1 DEF Min
  <2>3. RemoveFirst(s, e) = RemoveAt(s, Min({i \in 1 .. Len(s) : s[i] = e}))
    BY <1>1, <1>3, <2>1 DEF RemoveFirst, SelectInSeq
  <2> QED
    BY <2>1, <2>2, <2>3
<1>4. ASSUME NEW k \in DOMAIN s, s[k] = e
      PROVE  /\ RemoveAt(s, k) \in Seq(S)
             /\ NoRepeats(RemoveAt(s, k))
             /\ \A i \in DOMAIN RemoveAt(s, k) :
                  RemoveAt(s, k)[i] # e /\ \E j \in DOMAIN s : RemoveAt(s, k)[i] = s[j]
             /\ Len(RemoveAt(s, k)) = Len(s) - 1
  <2> DEFINE r == RemoveAt(s, k)
  <2>1. /\ r \in Seq(S) /\ Len(r) = Len(s) - 1
        /\ \A i \in 1 .. Len(s) - 1 : r[i] = IF i < k THEN s[i] ELSE s[i + 1]
    BY RemoveAtShape
  <2>2. DOMAIN r = 1 .. Len(s) - 1
    BY <2>1, LenProperties
  <2> HIDE DEF r
  <2>3. \A i \in DOMAIN r : \E j \in DOMAIN s :
          j # k /\ r[i] = s[j] /\ j = IF i < k THEN i ELSE i + 1
    <3> SUFFICES ASSUME NEW i \in DOMAIN r
                 PROVE  \E j \in DOMAIN s :
                          j # k /\ r[i] = s[j] /\ j = IF i < k THEN i ELSE i + 1
      OBVIOUS
    <3>1. i \in 1 .. Len(s) - 1 /\ i \in DOMAIN s /\ i + 1 \in DOMAIN s
      BY <1>1, <2>2
    <3>2. CASE i < k
      BY <1>1, <2>1, <3>1, <3>2
    <3>3. CASE ~(i < k)
      BY <1>1, <2>1, <3>1, <3>3
    <3> QED
      BY <3>2, <3>3
  <2>4. \A i \in DOMAIN r : r[i] # e /\ \E j \in DOMAIN s : r[i] = s[j]
    BY <1>4, <2>3 DEF NoRepeats
  <2>5. NoRepeats(r)
    <3> SUFFICES ASSUME NEW i \in DOMAIN r, NEW j \in DOMAIN r, r[i] = r[j]
                 PROVE  i = j
      BY DEF NoRepeats
    <3>1. PICK a \in DOMAIN s : r[i] = s[a] /\ a = IF i < k THEN i ELSE i + 1
      BY <2>3
    <3>2. PICK b \in DOMAIN s : r[j] = s[b] /\ b = IF j < k THEN j ELSE j + 1
      BY <2>3
    <3>3. a = b
      BY <3>1, <3>2 DEF NoRepeats
    <3> QED
      BY <1>1, <2>2, <3>1, <3>2, <3>3
  <2> QED
    BY <2>1, <2>4, <2>5 DEF r
<1>5. ASSUME NEW k \in DOMAIN s, s[k] = e
      PROVE  /\ RemoveFirst(s, e) \in Seq(S)
             /\ NoRepeats(RemoveFirst(s, e))
             /\ \A i \in DOMAIN RemoveFirst(s, e) :
                  /\ RemoveFirst(s, e)[i] # e
                  /\ \E j \in DOMAIN s : RemoveFirst(s, e)[i] = s[j]
             /\ Len(RemoveFirst(s, e)) >= Len(s) - 1
  <2>1. RemoveFirst(s, e) = RemoveAt(s, k)
    BY <1>3, <1>5
  <2>2. /\ RemoveAt(s, k) \in Seq(S)
        /\ NoRepeats(RemoveAt(s, k))
        /\ \A i \in DOMAIN RemoveAt(s, k) :
             RemoveAt(s, k)[i] # e /\ \E j \in DOMAIN s : RemoveAt(s, k)[i] = s[j]
        /\ Len(RemoveAt(s, k)) = Len(s) - 1
    BY <1>4, <1>5
  <2>3. Len(RemoveAt(s, k)) >= Len(s) - 1
    BY <1>1, <2>2
  <2> QED
    BY <2>1, <2>2, <2>3
<1> QED
  BY <1>2, <1>5

LEMMA InsertAtShape ==
  ASSUME NEW S, NEW s \in Seq(S), NEW k \in 1 .. Len(s) + 1, NEW e \in S,
         NoRepeats(s), \A i \in DOMAIN s : s[i] # e
  PROVE  InsertAt(s, k, e) \in Seq(S) /\ NoRepeats(InsertAt(s, k, e))
<1> DEFINE p == SubSeq(s, 1, k - 1)
           q == SubSeq(s, k, Len(s))
           t == <<e>>
           h == p \o t
           r == h \o q
<1>1. /\ Len(s) \in Nat /\ k \in Nat /\ DOMAIN s = 1 .. Len(s)
      /\ \A i \in 1 .. Len(s) : s[i] \in S
  BY LenProperties, ElementOfSeq
<1>2. /\ p \in Seq(S) /\ Len(p) = k - 1
      /\ \A i \in 1 .. k - 1 : p[i] = s[i]
  <2>1. \A i \in 1 .. k - 1 : s[i] \in S
    BY <1>1
  <2>2. /\ p \in Seq(S) /\ Len(p) = IF 1 <= k - 1 THEN (k - 1) - 1 + 1 ELSE 0
        /\ \A i \in 1 .. (k - 1) - 1 + 1 : p[i] = s[1 + i - 1]
    BY <1>1, <2>1, SubSeqProperties
  <2> QED
    BY <1>1, <2>2
<1>3. /\ q \in Seq(S) /\ Len(q) = Len(s) - k + 1
      /\ \A i \in 1 .. Len(s) - k + 1 : q[i] = s[k + i - 1]
  <2>1. \A i \in k .. Len(s) : s[i] \in S
    BY <1>1
  <2>2. /\ q \in Seq(S) /\ Len(q) = IF k <= Len(s) THEN Len(s) - k + 1 ELSE 0
        /\ \A i \in 1 .. Len(s) - k + 1 : q[i] = s[k + i - 1]
    BY <1>1, <2>1, SubSeqProperties
  <2> QED
    BY <1>1, <2>2
<1>4. t \in Seq(S) /\ Len(t) = 1 /\ t[1] = e
  OBVIOUS
<1> HIDE DEF p, q, t
<1>5. /\ h \in Seq(S) /\ Len(h) = k /\ h[k] = e
      /\ \A i \in 1 .. k - 1 : h[i] = s[i]
  <2>1. /\ h \in Seq(S) /\ Len(h) = Len(p) + Len(t)
        /\ \A i \in 1 .. Len(p) + Len(t) : h[i] = IF i <= Len(p) THEN p[i] ELSE t[i - Len(p)]
    BY <1>2, <1>4, ConcatProperties
  <2>2. Len(p) + Len(t) = k /\ Len(p) = k - 1
    BY <1>1, <1>2, <1>4
  <2>3. \A i \in 1 .. k : h[i] = IF i <= k - 1 THEN p[i] ELSE t[i - (k - 1)]
    BY <2>1, <2>2
  <2>4. k \in 1 .. k /\ ~(k <= k - 1) /\ k - (k - 1) = 1
    BY <1>1
  <2>5. h[k] = t[k - (k - 1)]
    BY <2>3, <2>4
  <2>6. h[k] = e
    BY <1>4, <2>4, <2>5
  <2>7. \A i \in 1 .. k - 1 : i \in 1 .. k /\ i <= k - 1
    BY <1>1
  <2> QED
    BY <1>2, <2>1, <2>2, <2>3, <2>6, <2>7
<1> HIDE DEF h
<1>6. /\ r \in Seq(S) /\ Len(r) = Len(s) + 1 /\ r[k] = e
      /\ \A i \in 1 .. Len(s) + 1 : /\ i < k => r[i] = s[i]
                                    /\ i > k => r[i] = s[i - 1]
  <2>1. /\ r \in Seq(S) /\ Len(r) = Len(h) + Len(q)
        /\ \A i \in 1 .. Len(h) + Len(q) : r[i] = IF i <= Len(h) THEN h[i] ELSE q[i - Len(h)]
    BY <1>3, <1>5, ConcatProperties
  <2>2. Len(h) + Len(q) = Len(s) + 1 /\ Len(h) = k
    BY <1>1, <1>3, <1>5
  <2>3. \A i \in 1 .. Len(s) + 1 : r[i] = IF i <= k THEN h[i] ELSE q[i - k]
    BY <2>1, <2>2
  <2>4. r[k] = e
    BY <1>1, <1>5, <2>3
  <2>5. ASSUME NEW i \in 1 .. Len(s) + 1, i < k
        PROVE  r[i] = s[i]
    BY <1>1, <1>5, <2>3, <2>5
  <2>6. ASSUME NEW i \in 1 .. Len(s) + 1, i > k
        PROVE  r[i] = s[i - 1]
    <3>1. i - k \in 1 .. Len(s) - k + 1 /\ k + (i - k) - 1 = i - 1 /\ ~(i <= k)
      BY <1>1, <2>6
    <3>2. q[i - k] = s[k + (i - k) - 1]
      BY <1>3, <3>1
    <3>3. r[i] = q[i - k]
      BY <2>3, <3>1
    <3> QED
      BY <3>1, <3>2, <3>3
  <2> QED
    BY <2>1, <2>2, <2>4, <2>5, <2>6
<1>7. DOMAIN r = 1 .. Len(s) + 1
  BY <1>6, LenProperties
<1> HIDE DEF r
<1>8. NoRepeats(r)
  <2> DEFINE Old(i) == IF i < k THEN i ELSE i - 1
  <2>1. ASSUME NEW i \in DOMAIN r, i # k
        PROVE  Old(i) \in DOMAIN s /\ r[i] = s[Old(i)]
    <3>1. CASE i < k
      BY <1>1, <1>6, <1>7, <3>1
    <3>2. CASE i > k
      BY <1>1, <1>6, <1>7, <3>2
    <3> QED
      BY <1>1, <1>7, <2>1, <3>1, <3>2
  <2>2. r[k] = e
    BY <1>1, <1>6
  <2> SUFFICES ASSUME NEW i \in DOMAIN r, NEW j \in DOMAIN r, r[i] = r[j]
               PROVE  i = j
    BY DEF NoRepeats
  <2>3. CASE i # k /\ j # k
    <3>1. Old(i) = Old(j)
      BY <2>1, <2>3 DEF NoRepeats
    <3> QED
      BY <1>1, <1>7, <2>3, <3>1
  <2>4. CASE i = k \/ j = k
    BY <2>1, <2>2, <2>4
  <2> QED
    BY <2>3, <2>4
<1> QED
  BY <1>6, <1>8 DEF InsertAt, r, h, p, q, t

-----------------------------------------------------------------------------
(* The choice of a plugin *)

LEMMA CardinalityOfUid ==
  IsFiniteSet(Uid) /\ Cardinality(Uid) \in Nat \ {0}
BY RoundRobinAssumption, FS_CardinalityType, FS_EmptySet

\* HKEYS lists a plugin once, so the list is no longer than the set.
LEMMA ListIsSmall ==
  ASSUME uids \in Seq(Uid), NoRepeats(uids)
  PROVE  /\ Registered \subseteq Uid
         /\ Len(uids) = Cardinality(Registered)
         /\ Len(uids) <= Cardinality(Uid)
<1>1. /\ Len(uids) \in Nat /\ DOMAIN uids = 1 .. Len(uids)
      /\ uids \in [1 .. Len(uids) -> Uid]
  BY LenProperties
<1>2. Registered \subseteq Uid
  BY <1>1 DEF Registered
<1>3. uids \in Bijection(1 .. Len(uids), Registered)
  BY <1>1 DEF Registered, NoRepeats, Bijection, Injection, Surjection, IsInjective
<1>4. Cardinality(Registered) = Len(uids)
  BY <1>1, <1>3, FS_CountingElements DEF ExistsBijection
<1> QED
  BY <1>2, <1>4, CardinalityOfUid, FS_Subset

\* The list a caller chooses from: all the plugins, or those left without the
\* one to ignore, and never empty unless there is no plugin.
LEMMA ListToChooseFrom ==
  ASSUME uids \in Seq(Uid), NoRepeats(uids), NEW u
  PROVE  /\ Without(uids, u) \in Seq(Uid)
         /\ \A i \in DOMAIN Without(uids, u) :
              /\ Without(uids, u)[i] \in Registered
              /\ Without(uids, u)[i] = u => Registered = {u}
         /\ Without(uids, u) = <<>> => uids = <<>>
         /\ u \notin Registered => Without(uids, u) = uids
         /\ Len(Without(uids, u)) <= Cardinality(Uid)
<1>1. Len(uids) \in Nat /\ DOMAIN uids = 1 .. Len(uids)
  BY LenProperties
<1>2. CASE Len(uids) > 1
  <2> DEFINE r == RemoveFirst(uids, u)
  <2>1. Without(uids, u) = r
    BY <1>2 DEF Without
  <2>2. /\ r \in Seq(Uid) /\ NoRepeats(r)
        /\ \A i \in DOMAIN r : r[i] # u /\ \E j \in DOMAIN uids : r[i] = uids[j]
        /\ Len(r) >= Len(uids) - 1
        /\ (\A i \in DOMAIN uids : uids[i] # u) => r = uids
    BY RemoveFirstShape
  <2> HIDE DEF r
  <2>3. r # <<>>
    BY <1>1, <1>2, <2>2, EmptySeq
  <2>4. Len(r) <= Cardinality(Uid)
    <3>1. Len(r) \in Nat /\ DOMAIN r = 1 .. Len(r) /\ r \in [1 .. Len(r) -> Uid]
      BY <2>2, LenProperties
    <3>2. r \in Injection(1 .. Len(r), Uid)
      BY <2>2, <3>1 DEF NoRepeats, Injection, IsInjective
    <3>3. Cardinality(1 .. Len(r)) <= Cardinality(Uid)
      BY <3>2, CardinalityOfUid, FS_Injection
    <3>4. Cardinality(1 .. Len(r)) = Len(r)
      <4>1. Len(r) \in Int /\ 1 \in Int
        BY <3>1
      <4>2. Cardinality(1 .. Len(r)) = IF 1 > Len(r) THEN 0 ELSE Len(r) - 1 + 1
        BY <4>1, FS_Interval
      <4> QED
        BY <3>1, <4>2
    <3> QED
      BY <3>3, <3>4
  <2> QED
    BY <2>1, <2>2, <2>3, <2>4 DEF Registered
<1>3. CASE ~(Len(uids) > 1)
  <2>1. Without(uids, u) = uids
    BY <1>3 DEF Without
  <2>2. \A i, j \in DOMAIN uids : i = j
    BY <1>1, <1>3
  <2>3. \A i \in DOMAIN uids : Registered = {uids[i]}
    BY <2>2 DEF Registered
  <2> QED
    BY <2>1, <2>3, ListIsSmall DEF Registered
<1> QED
  BY <1>2, <1>3

\* The element at a stale index, and the next index, are in the list.
LEMMA ChosenIsListed ==
  ASSUME NEW list \in Seq(Uid), list # <<>>, NEW i \in Nat
  PROVE  /\ \E j \in DOMAIN list : At(list, i) = list[j]
         /\ Following(list, i) \in 0 .. Len(list) - 1
<1>1. Len(list) \in Nat \ {0} /\ DOMAIN list = 1 .. Len(list)
  BY LenProperties, EmptySeq
<1>2. 1 \in DOMAIN list /\ (i < Len(list) => i + 1 \in DOMAIN list)
  BY <1>1
<1>3. \E j \in DOMAIN list : At(list, i) = list[j]
  BY <1>2 DEF At
<1>4. Following(list, i) \in 0 .. Len(list) - 1
  BY <1>1 DEF Following
<1> QED
  BY <1>3, <1>4

-----------------------------------------------------------------------------
(* Type correctness *)

Pcs == {"idle", "check", "init", "get", "hkeys", "set"}

\* A plugin is listed once, and who is past the first GET finds an iterator.
Listed ==
  /\ uids \in Seq(Uid) /\ NoRepeats(uids)
  /\ \A c \in Caller : pc[c] \in {"get", "hkeys", "set"} => iterator # NoIterator

\* The inductive invariant behind TypeOK.
TypeInv == TypeOK /\ Listed

\* What a step does to the list.
LEMMA ListStep ==
  ASSUME TypeInv, [Next]_vars
  PROVE  uids' \in Seq(Uid) /\ NoRepeats(uids')
<1>1. ASSUME NEW u \in Uid, Join(u)
      PROVE  uids' \in Seq(Uid) /\ NoRepeats(uids')
  <2>1. PICK i \in 1 .. Len(uids) + 1 : uids' = InsertAt(uids, i, u)
    BY <1>1 DEF Join
  <2>2. \A j \in DOMAIN uids : uids[j] # u
    BY <1>1 DEF Join, Registered
  <2> QED
    BY <2>1, <2>2, InsertAtShape DEF TypeInv, Listed
<1>2. ASSUME NEW u \in Uid, Leave(u)
      PROVE  uids' \in Seq(Uid) /\ NoRepeats(uids')
  BY <1>2, RemoveFirstShape DEF Leave, TypeInv, Listed
<1>3. CASE UNCHANGED uids
  BY <1>3 DEF TypeInv, Listed, NoRepeats
<1> QED
  BY <1>1, <1>2, <1>3 DEF Next, Step, Check, SetZero, Get, Choose, Set, vars

\* What a choice does, for whatever index the caller holds.
LEMMA ChooseStep ==
  ASSUME TypeInv, NEW c \in Caller, Choose(c)
  PROVE  \/ /\ Without(uids, Ignore[c]) = <<>> /\ Goto(c, "check")
            /\ UNCHANGED <<uids, iterator, turns, changes, index, chosen, choices>>
         \/ \E u \in Registered, i \in 0 .. Cardinality(Uid) - 1 :
              /\ u = At(Without(uids, Ignore[c]), index[c])
              /\ i = Following(Without(uids, Ignore[c]), index[c])
              /\ u \in Uid /\ choices[u] < MaxCalls
              /\ u = Ignore[c] => Registered = {u}
              /\ Without(uids, Ignore[c]) # <<>>
              /\ Goto(c, "set")
              /\ chosen' = [chosen EXCEPT ![c] = u]
              /\ choices' = [choices EXCEPT ![u] = @ + 1]
              /\ index' = [index EXCEPT ![c] = i]
              /\ UNCHANGED <<uids, iterator, turns, changes>>
<1> DEFINE list == Without(uids, Ignore[c])
<1>1. CASE list = <<>>
  BY <1>1 DEF Choose
<1>2. CASE list # <<>>
  <2>1. /\ list \in Seq(Uid)
        /\ \A j \in DOMAIN list : list[j] \in Registered /\ (list[j] = Ignore[c] => Registered = {Ignore[c]})
        /\ Len(list) <= Cardinality(Uid)
    BY ListToChooseFrom DEF TypeInv, Listed
  <2>2. index[c] \in Nat
    BY CardinalityOfUid DEF TypeInv, TypeOK
  <2> DEFINE u == At(list, index[c])
             i == Following(list, index[c])
  <2>3. /\ choices[u] < MaxCalls
        /\ chosen' = [chosen EXCEPT ![c] = u]
        /\ choices' = [choices EXCEPT ![u] = @ + 1]
        /\ index' = [index EXCEPT ![c] = i]
        /\ Goto(c, "set")
        /\ UNCHANGED <<uids, iterator, turns, changes>>
    BY <1>2 DEF Choose
  <2> HIDE DEF list
  <2>4. (\E j \in DOMAIN list : u = list[j]) /\ i \in 0 .. Len(list) - 1
    BY <1>2, <2>1, <2>2, ChosenIsListed
  <2> HIDE DEF u, i
  <2>5. u \in Registered /\ u \in Uid /\ (u = Ignore[c] => Registered = {u})
    BY <2>1, <2>4 DEF TypeInv, TypeOK
  <2>6. i \in 0 .. Cardinality(Uid) - 1
    BY <2>1, <2>4, LenProperties, CardinalityOfUid
  <2> QED
    BY <1>2, <2>3, <2>5, <2>6 DEF u, i, list
<1> QED
  BY <1>1, <1>2

LEMMA TypeInvStep ==
  ASSUME TypeInv, [Next]_vars
  PROVE  TypeInv'
<1> DEFINE Index == 0 .. Cardinality(Uid)
<1>1. /\ uids' \in Seq(Uid) /\ NoRepeats(uids')
      /\ Registered' \subseteq Uid /\ Len(uids') = Cardinality(Registered')
  <2>1. uids' \in Seq(Uid) /\ NoRepeats(uids')
    BY ListStep
  <2>2. Len(uids') \in Nat /\ DOMAIN uids' = 1 .. Len(uids') /\ uids' \in [1 .. Len(uids') -> Uid]
    BY <2>1, LenProperties
  <2>3. uids' \in Bijection(1 .. Len(uids'), Registered')
    BY <2>1, <2>2 DEF Registered, NoRepeats, Bijection, Injection, Surjection, IsInjective
  <2>4. Cardinality(Registered') = Len(uids')
    BY <2>2, <2>3, FS_CountingElements DEF ExistsBijection
  <2> QED
    BY <2>1, <2>2, <2>4 DEF Registered
<1>2. /\ iterator \in Index \union {NoIterator}
      /\ pc \in [Caller -> Pcs]
      /\ index \in [Caller -> Index]
      /\ chosen \in [Caller -> Uid \union {NoUid}]
      /\ choices \in [Uid -> 0 .. MaxCalls]
      /\ turns \in BOOLEAN
      /\ changes \in 0 .. MaxChanges
      /\ \A c \in Caller : pc[c] \in {"get", "hkeys", "set"} => iterator # NoIterator
  BY DEF TypeInv, TypeOK, Listed, Pcs
<1> DEFINE Rest == /\ iterator \in Index \union {NoIterator}
                   /\ pc \in [Caller -> Pcs]
                   /\ index \in [Caller -> Index]
                   /\ chosen \in [Caller -> Uid \union {NoUid}]
                   /\ choices \in [Uid -> 0 .. MaxCalls]
                   /\ turns \in BOOLEAN
                   /\ changes \in 0 .. MaxChanges
                   /\ \A c \in Caller : pc[c] \in {"get", "hkeys", "set"} => iterator # NoIterator
<1>3. 0 \in Index /\ Index \subseteq Int /\ NoIterator \notin Index
  BY CardinalityOfUid, RoundRobinAssumption
<1> HIDE DEF Index
<1>4. ASSUME NEW c \in Caller, Check(c)
      PROVE  Rest'
  <2>1. turns' \in BOOLEAN
    BY <1>2, <1>4 DEF Check, TakingTurns
  <2> QED
    BY <1>2, <1>4, <2>1 DEF Check, Goto, Pcs
<1>5. ASSUME NEW c \in Caller, SetZero(c)
      PROVE  Rest'
  BY <1>2, <1>3, <1>5 DEF SetZero, Goto, Pcs
<1>6. ASSUME NEW c \in Caller, Get(c)
      PROVE  Rest'
  BY <1>2, <1>6 DEF Get, Goto, Pcs
<1>7. ASSUME NEW c \in Caller, Choose(c)
      PROVE  Rest'
  <2>1. CASE Goto(c, "check") /\ UNCHANGED <<iterator, turns, changes, index, chosen, choices>>
    BY <1>2, <2>1 DEF Goto, Pcs
  <2>2. ASSUME NEW u \in Uid, NEW i \in Index, choices[u] < MaxCalls,
               Goto(c, "set"),
               chosen' = [chosen EXCEPT ![c] = u],
               choices' = [choices EXCEPT ![u] = @ + 1],
               index' = [index EXCEPT ![c] = i],
               UNCHANGED <<iterator, turns, changes>>
        PROVE  Rest'
    <3>1. choices' \in [Uid -> 0 .. MaxCalls]
      BY <1>2, <2>2, RoundRobinAssumption
    <3>2. iterator # NoIterator
      BY <1>2, <1>7 DEF Choose
    <3> QED
      BY <1>2, <2>2, <3>1, <3>2 DEF Goto, Pcs
  <2> QED
    BY <1>7, <2>1, <2>2, ChooseStep, CardinalityOfUid DEF Index
<1>8. ASSUME NEW c \in Caller, Set(c)
      PROVE  Rest'
  BY <1>2, <1>3, <1>8 DEF Set, Goto, Pcs
<1>9. ASSUME NEW u \in Uid, Join(u) \/ Leave(u)
      PROVE  Rest'
  <2>1. /\ turns' \in BOOLEAN /\ choices' \in [Uid -> 0 .. MaxCalls]
        /\ changes' \in 0 .. MaxChanges
        /\ UNCHANGED <<iterator, pc, index, chosen>>
    <3>1. /\ Forget /\ Change
          /\ UNCHANGED <<iterator, pc, index, chosen>>
      BY <1>9 DEF Join, Leave
    <3>2. turns' \in BOOLEAN
      BY <3>1 DEF Forget, TakingTurns
    <3>3. choices' \in [Uid -> 0 .. MaxCalls]
      BY <3>1, RoundRobinAssumption DEF Forget
    <3>4. changes' \in 0 .. MaxChanges
      BY <1>2, <3>1, RoundRobinAssumption DEF Change
    <3> QED
      BY <3>1, <3>2, <3>3, <3>4
  <2> QED
    BY <1>2, <2>1
<1>10. ASSUME UNCHANGED vars
       PROVE  Rest'
  BY <1>2, <1>10 DEF vars
<1>11. Rest'
  BY <1>4, <1>5, <1>6, <1>7, <1>8, <1>9, <1>10 DEF Next, Step
<1> QED
  BY <1>1, <1>11 DEF TypeInv, TypeOK, Listed, Pcs, Index

LEMMA InitTypeInv == Init => TypeInv
<1> SUFFICES ASSUME Init PROVE TypeInv
  OBVIOUS
<1>1. uids = <<>> /\ <<>> \in Seq(Uid) /\ Registered = {} /\ NoRepeats(uids)
  BY DEF Init, Registered, NoRepeats
<1> QED
  BY <1>1, FS_EmptySet, CardinalityOfUid, RoundRobinAssumption DEF Init, TypeInv, TypeOK, Listed

\* However the commands of any number of callers interleave with plugins that
\* come and go, the iterator and every index read stay within the number of
\* plugins, and no caller that read the iterator finds it missing.
THEOREM TypeCorrect == Spec => []TypeOK
<1>1. TypeInv /\ [Next]_vars => TypeInv'
  BY TypeInvStep
<1>2. TypeInv => TypeOK
  BY DEF TypeInv
<1> QED
  BY <1>1, <1>2, InitTypeInv, PTL DEF Spec

-----------------------------------------------------------------------------
(* The plugin chosen *)

LEMMA ChoiceIsCandidate ==
  ASSUME TypeInv, [Next]_vars, NEW c \in Caller,
         chosen'[c] # chosen[c], chosen'[c] # NoUid
  PROVE  chosen'[c] \in Registered /\ (chosen'[c] = Ignore[c] => Registered = {Ignore[c]})
<1>1. chosen \in [Caller -> Uid \union {NoUid}]
  BY DEF TypeInv, TypeOK
<1>2. ASSUME NEW d \in Caller, Choose(d)
      PROVE  chosen'[c] \in Registered /\ (chosen'[c] = Ignore[c] => Registered = {Ignore[c]})
  <2>1. PICK u \in Registered : /\ chosen' = [chosen EXCEPT ![d] = u]
                                /\ u = Ignore[d] => Registered = {u}
    BY <1>2, ChooseStep
  <2> QED
    BY <1>1, <2>1
<1>3. ASSUME NEW d \in Caller, Check(d)
      PROVE  FALSE
  BY <1>1, <1>3 DEF Check
<1>4. ~UNCHANGED chosen
  OBVIOUS
<1> QED
  BY <1>2, <1>3, <1>4 DEF Next, Step, SetZero, Get, Set, Join, Leave, vars

\* Whatever index a caller holds, the plugin it returns was registered at that
\* moment, and is the one to ignore only when no other was.
THEOREM ChoosesOnlyCandidates == Spec => ChoosesACandidate
<1> DEFINE Candidate ==
      \A c \in Caller : chosen'[c] # chosen[c] /\ chosen'[c] # NoUid =>
        /\ chosen'[c] \in Registered
        /\ chosen'[c] = Ignore[c] => Registered = {Ignore[c]}
<1>1. TypeInv /\ [Next]_vars => TypeInv'
  BY TypeInvStep
<1>2. TypeInv /\ [Next]_vars => [Candidate]_vars
  BY ChoiceIsCandidate
<1> QED
  BY <1>1, <1>2, InitTypeInv, PTL DEF Spec, ChoosesACandidate

-----------------------------------------------------------------------------
(* Balance *)

One(p) == IF p THEN 1 ELSE 0

\* Rounds were made over the whole list, the current one up to the first cur
\* plugins, after a first one that began past the first s; the first plugin may
\* have been chosen once more, before it, for an index past the end.
Spread(list, count, cur) ==
  \E rounds \in Nat, s \in 0 .. Len(list) - 1, extra \in 0 .. 1 :
    /\ extra = 1 => s = 0
    /\ cur \in 0 .. Len(list) - 1
    /\ \A j \in DOMAIN list :
         count[list[j]] =
           rounds + One(j <= cur) - One(j <= s) + (IF j = 1 THEN extra ELSE 0)

\* The index that the next choice is made with.
Reading(cur) ==
  /\ \A c \in Caller : /\ pc[c] # "init"
                       /\ pc[c] \in {"hkeys", "set"} => index[c] = cur
  /\ (\A c \in Caller : pc[c] # "set") => iterator = cur

NoneChosen == \A u \in Uid : choices[u] = 0

\* The inductive invariant behind WithinTwo and Balanced.
InTurn ==
  turns =>
    /\ TakingTurns(Active)
    /\ NoneChosen \/ \E cur \in Nat : Spread(uids, choices, cur) /\ Reading(cur)

LEMMA SpreadIsBalanced ==
  ASSUME TypeInv, NEW cur \in Nat, Spread(uids, choices, cur)
  PROVE  \A u, v \in Registered : choices[u] - choices[v] <= 2
<1>1. PICK rounds \in Nat, s \in 0 .. Len(uids) - 1, extra \in 0 .. 1 :
        /\ extra = 1 => s = 0
        /\ cur \in 0 .. Len(uids) - 1
        /\ \A j \in DOMAIN uids :
             choices[uids[j]] =
               rounds + One(j <= cur) - One(j <= s) + (IF j = 1 THEN extra ELSE 0)
  BY DEF Spread
<1>2. Len(uids) \in Nat /\ DOMAIN uids = 1 .. Len(uids)
  BY LenProperties DEF TypeInv, Listed
<1> SUFFICES ASSUME NEW i \in DOMAIN uids, NEW j \in DOMAIN uids
             PROVE  choices[uids[i]] - choices[uids[j]] <= 2
  BY DEF Registered
<1>3. i \in Nat /\ j \in Nat /\ s \in Nat /\ i >= 1 /\ j >= 1
  BY <1>2
<1>4. choices[uids[i]] = rounds + One(i <= cur) - One(i <= s) + (IF i = 1 THEN extra ELSE 0)
  BY <1>1
<1>5. choices[uids[j]] = rounds + One(j <= cur) - One(j <= s) + (IF j = 1 THEN extra ELSE 0)
  BY <1>1
<1>6. CASE extra = 0
  BY <1>3, <1>4, <1>5, <1>6 DEF One
<1>7. CASE extra = 1
  BY <1>1, <1>3, <1>4, <1>5, <1>7 DEF One
<1> QED
  BY <1>6, <1>7

\* One more choice, the first since the plugins changed.
LEMMA SpreadStarts ==
  ASSUME NEW list \in Seq(Uid), list # <<>>, NoRepeats(list), NEW i \in Nat,
         NEW count, \A j \in DOMAIN list : count[list[j]] = One(list[j] = At(list, i))
  PROVE  Spread(list, count, Following(list, i))
<1>1. Len(list) \in Nat \ {0} /\ DOMAIN list = 1 .. Len(list)
  BY LenProperties, EmptySeq
<1>2. CASE i + 1 < Len(list)
  <2>1. \A j \in DOMAIN list :
          count[list[j]] = 0 + One(j <= i + 1) - One(j <= i) + (IF j = 1 THEN 0 ELSE 0)
    <3> SUFFICES ASSUME NEW j \in DOMAIN list
                 PROVE  count[list[j]] = 0 + One(j <= i + 1) - One(j <= i) + (IF j = 1 THEN 0 ELSE 0)
      OBVIOUS
    <3>1. i + 1 \in DOMAIN list /\ At(list, i) = list[i + 1]
      BY <1>1, <1>2 DEF At
    <3>2. list[j] = At(list, i) <=> j = i + 1
      BY <3>1 DEF NoRepeats
    <3>3. count[list[j]] = One(j = i + 1)
      BY <3>2 DEF One
    <3> QED
      BY <1>1, <3>3 DEF One
  <2>2. Following(list, i) = i + 1
    BY <1>2 DEF Following
  <2>3. i \in 0 .. Len(list) - 1 /\ i + 1 \in 0 .. Len(list) - 1
    BY <1>1, <1>2
  <2> QED
    BY <2>1, <2>2, <2>3 DEF Spread
<1>3. CASE i + 1 = Len(list)
  <2>1. \A j \in DOMAIN list :
          count[list[j]] = 1 + One(j <= 0) - One(j <= i) + (IF j = 1 THEN 0 ELSE 0)
    <3> SUFFICES ASSUME NEW j \in DOMAIN list
                 PROVE  count[list[j]] = 1 + One(j <= 0) - One(j <= i) + (IF j = 1 THEN 0 ELSE 0)
      OBVIOUS
    <3>1. i + 1 \in DOMAIN list /\ At(list, i) = list[i + 1]
      BY <1>1, <1>3 DEF At
    <3>2. list[j] = At(list, i) <=> j = i + 1
      BY <3>1 DEF NoRepeats
    <3>3. count[list[j]] = One(j = i + 1)
      BY <3>2 DEF One
    <3> QED
      BY <1>1, <1>3, <3>3 DEF One
  <2>2. Following(list, i) = 0
    BY <1>1, <1>3 DEF Following
  <2>3. i \in 0 .. Len(list) - 1 /\ 0 \in 0 .. Len(list) - 1
    BY <1>1, <1>3
  <2> QED
    BY <2>1, <2>2, <2>3 DEF Spread
<1>4. CASE i >= Len(list)
  <2>1. \A j \in DOMAIN list :
          count[list[j]] = 0 + One(j <= 0) - One(j <= 0) + (IF j = 1 THEN 1 ELSE 0)
    <3> SUFFICES ASSUME NEW j \in DOMAIN list
                 PROVE  count[list[j]] = 0 + One(j <= 0) - One(j <= 0) + (IF j = 1 THEN 1 ELSE 0)
      OBVIOUS
    <3>1. 1 \in DOMAIN list /\ At(list, i) = list[1]
      BY <1>1, <1>4 DEF At
    <3>2. list[j] = At(list, i) <=> j = 1
      BY <3>1 DEF NoRepeats
    <3>3. count[list[j]] = One(j = 1)
      BY <3>2 DEF One
    <3> QED
      BY <1>1, <3>3 DEF One
  <2>2. Following(list, i) = 0
    BY <1>1, <1>4 DEF Following
  <2>3. 0 \in 0 .. Len(list) - 1
    BY <1>1
  <2> QED
    BY <2>1, <2>2, <2>3 DEF Spread
<1>5. i + 1 < Len(list) \/ i + 1 = Len(list) \/ i >= Len(list)
  <2>1. \A n \in Nat : i + 1 < n \/ i + 1 = n \/ i >= n
    OBVIOUS
  <2>2. Len(list) \in Nat
    BY LenProperties
  <2> QED
    BY <2>1, <2>2
<1> QED
  BY <1>2, <1>3, <1>4, <1>5

\* One more choice, with the index that the last one left.
LEMMA SpreadGoesOn ==
  ASSUME NEW list \in Seq(Uid), list # <<>>, NoRepeats(list), NEW i \in Nat,
         NEW before, NEW after, Spread(list, before, i),
         \A j \in DOMAIN list : after[list[j]] = before[list[j]] + One(list[j] = At(list, i))
  PROVE  Spread(list, after, Following(list, i))
<1>1. Len(list) \in Nat \ {0} /\ DOMAIN list = 1 .. Len(list)
  BY LenProperties, EmptySeq
<1>2. PICK rounds \in Nat, s \in 0 .. Len(list) - 1, extra \in 0 .. 1 :
        /\ extra = 1 => s = 0
        /\ i \in 0 .. Len(list) - 1
        /\ \A j \in DOMAIN list :
             before[list[j]] =
               rounds + One(j <= i) - One(j <= s) + (IF j = 1 THEN extra ELSE 0)
  BY DEF Spread
<1>3. i + 1 \in DOMAIN list /\ At(list, i) = list[i + 1]
  BY <1>1, <1>2 DEF At
<1> DEFINE More(j) == IF j = 1 THEN extra ELSE 0
<1>4. ASSUME NEW j \in DOMAIN list
      PROVE  /\ after[list[j]] = rounds + One(j <= i) - One(j <= s) + More(j) + One(j = i + 1)
             /\ j \in Nat /\ j >= 1 /\ j <= Len(list)
             /\ One(j <= i) \in Nat /\ One(j <= s) \in Nat /\ One(j = i + 1) \in Nat
             /\ More(j) \in Nat
  <2>1. list[j] = At(list, i) <=> j = i + 1
    BY <1>3 DEF NoRepeats
  <2>2. One(list[j] = At(list, i)) = One(j = i + 1)
    BY <2>1 DEF One
  <2>3. before[list[j]] = rounds + One(j <= i) - One(j <= s) + More(j)
    BY <1>2
  <2>4. after[list[j]] = before[list[j]] + One(j = i + 1)
    BY <2>2
  <2>5. One(j <= i) \in Nat /\ One(j <= s) \in Nat /\ One(j = i + 1) \in Nat /\ More(j) \in Nat
    BY DEF One
  <2> QED
    BY <1>1, <2>3, <2>4, <2>5
<1> HIDE DEF More
<1>5. CASE i + 1 < Len(list)
  <2>1. ASSUME NEW j \in DOMAIN list
        PROVE  after[list[j]] = rounds + One(j <= i + 1) - One(j <= s) + More(j)
    <3>1. j \in Nat
      BY <1>4
    <3>2. One(j <= i + 1) = One(j <= i) + One(j = i + 1)
      BY <3>1 DEF One
    <3> QED
      BY <1>4, <3>2
  <2>2. Following(list, i) = i + 1 /\ i + 1 \in 0 .. Len(list) - 1
    BY <1>1, <1>5 DEF Following
  <2>3. /\ extra = 1 => s = 0
        /\ i + 1 \in 0 .. Len(list) - 1
        /\ \A j \in DOMAIN list : after[list[j]] = rounds + One(j <= i + 1) - One(j <= s) + More(j)
    BY <1>2, <2>1, <2>2
  <2>4. Spread(list, after, i + 1)
    BY <2>3 DEF Spread, More
  <2> QED
    BY <2>2, <2>4
<1>6. CASE i + 1 = Len(list)
  <2>1. ASSUME NEW j \in DOMAIN list
        PROVE  after[list[j]] = (rounds + 1) + One(j <= 0) - One(j <= s) + More(j)
    <3>1. j \in Nat /\ j >= 1 /\ j <= i + 1
      BY <1>4, <1>6
    <3>2. One(j <= 0) = 0 /\ One(j <= i) + One(j = i + 1) = 1
      BY <3>1 DEF One
    <3>3. after[list[j]] = rounds + One(j <= i) - One(j <= s) + More(j) + One(j = i + 1)
      BY <1>4
    <3>4. /\ One(j <= i) \in Nat /\ One(j <= s) \in Nat /\ One(j = i + 1) \in Nat
          /\ More(j) \in Nat /\ rounds \in Nat
      BY <1>2, <1>4
    <3>5. PICK a \in Nat, b \in Nat, d \in Nat, m \in Nat :
            a = One(j <= i) /\ b = One(j = i + 1) /\ d = One(j <= s) /\ m = More(j)
      BY <3>4
    <3>6. a + b = 1 /\ after[list[j]] = rounds + a - d + m + b
      BY <3>2, <3>3, <3>5
    <3>7. rounds + a - d + m + b = (rounds + 1) + 0 - d + m
      BY <3>4, <3>6
    <3> QED
      BY <3>2, <3>5, <3>6, <3>7
  <2>2. Following(list, i) = 0 /\ 0 \in 0 .. Len(list) - 1 /\ rounds + 1 \in Nat
    BY <1>1, <1>6 DEF Following
  <2>3. PICK more \in Nat : more = rounds + 1
    BY <2>2
  <2>4. /\ extra = 1 => s = 0
        /\ 0 \in 0 .. Len(list) - 1
        /\ \A j \in DOMAIN list : after[list[j]] = more + One(j <= 0) - One(j <= s) + More(j)
    BY <1>2, <2>1, <2>2, <2>3
  <2>5. Spread(list, after, 0)
    BY <2>4 DEF Spread, More
  <2> QED
    BY <2>2, <2>5
<1>7. i + 1 < Len(list) \/ i + 1 = Len(list)
  <2>1. \A n \in Nat : i \in 0 .. n - 1 => i + 1 < n \/ i + 1 = n
    OBVIOUS
  <2>2. Len(list) \in Nat /\ i \in 0 .. Len(list) - 1
    BY <1>2, LenProperties
  <2> QED
    BY <2>1, <2>2
<1> QED
  BY <1>5, <1>6, <1>7

\* A choice of the only caller, who ignores nobody.
LEMMA ChooseInTurn ==
  ASSUME TypeInv, InTurn, turns, NEW c \in Caller, Choose(c)
  PROVE  InTurn'
<1>1. /\ pc[c] = "hkeys" /\ c \in Active /\ Ignore[c] = NoUid
      /\ \A d \in Caller : d # c => pc[d] = "idle"
      /\ pc \in [Caller -> Pcs]
  BY DEF Choose, InTurn, Active, TakingTurns, TypeInv, TypeOK, Pcs
<1>2. /\ uids \in Seq(Uid) /\ NoRepeats(uids)
      /\ Without(uids, Ignore[c]) = uids
  <2>1. NoUid \notin Registered
    BY RoundRobinAssumption DEF TypeInv, TypeOK
  <2> QED
    BY <1>1, <2>1, ListToChooseFrom DEF TypeInv, Listed
<1>3. CASE Goto(c, "check") /\ UNCHANGED <<uids, iterator, turns, index, choices>>
  <2>1. Active' = Active /\ pc'[c] = "check" /\ \A d \in Caller : d # c => pc'[d] = "idle"
    BY <1>1, <1>3 DEF Goto, Active
  <2>2. TakingTurns(Active)'
    BY <1>3, <2>1 DEF InTurn, TakingTurns
  <2>3. NoneChosen => NoneChosen'
    BY <1>3 DEF NoneChosen
  <2>4. ASSUME NEW cur \in Nat, Spread(uids, choices, cur), Reading(cur)
        PROVE  (Spread(uids, choices, cur) /\ Reading(cur))'
    <3>1. iterator = cur
      BY <1>1, <2>4 DEF Reading
    <3>2. Reading(cur)'
      BY <1>3, <2>1, <3>1 DEF Reading
    <3> QED
      BY <1>3, <2>4, <3>2 DEF Spread
  <2> QED
    BY <2>2, <2>3, <2>4 DEF InTurn
<1>4. ASSUME NEW u \in Registered, NEW i,
             u = At(uids, index[c]), i = Following(uids, index[c]),
             u \in Uid, uids # <<>>,
             Goto(c, "set"),
             choices' = [choices EXCEPT ![u] = @ + 1],
             index' = [index EXCEPT ![c] = i],
             UNCHANGED <<uids, iterator, turns>>
      PROVE  InTurn'
  <2>1. Active' = Active /\ pc'[c] = "set" /\ \A d \in Caller : d # c => pc'[d] = "idle"
    BY <1>1, <1>4 DEF Goto, Active
  <2>2. TakingTurns(Active)'
    BY <2>1 DEF InTurn, TakingTurns
  <2>3. index[c] \in Nat /\ choices \in [Uid -> Nat] /\ index'[c] = i
    <3>1. /\ index \in [Caller -> 0 .. Cardinality(Uid)]
          /\ choices \in [Uid -> 0 .. MaxCalls]
      BY DEF TypeInv, TypeOK
    <3>2. index[c] \in Nat /\ index'[c] = i
      BY <1>4, <3>1
    <3>3. choices \in [Uid -> Nat]
      BY <3>1
    <3> QED
      BY <3>2, <3>3
  <2>4. i \in Nat
    <3>1. Following(uids, index[c]) \in 0 .. Len(uids) - 1
      BY <1>2, <1>4, <2>3, ChosenIsListed
    <3> QED
      BY <1>4, <3>1
  <2>5. Reading(i)'
    BY <2>1, <2>3 DEF Reading
  <2>6. \A j \in DOMAIN uids : /\ uids[j] \in Uid
                               /\ choices'[uids[j]] = choices[uids[j]] + One(uids[j] = u)
    <3>1. \A j \in DOMAIN uids : uids[j] \in Uid
      BY DEF TypeInv, TypeOK, Registered
    <3> QED
      BY <1>4, <2>3, <3>1 DEF One
  <2>7. CASE NoneChosen
    <3>1. \A j \in DOMAIN uids : choices'[uids[j]] = One(uids[j] = At(uids, index[c]))
      BY <1>4, <2>6, <2>7 DEF NoneChosen, One
    <3>2. Spread(uids, choices', i)
      BY <1>2, <1>4, <2>3, <3>1, SpreadStarts
    <3>3. Spread(uids', choices', i)
      BY <1>4, <3>2
    <3> QED
      BY <2>2, <2>4, <2>5, <3>3 DEF InTurn
  <2>8. ASSUME NEW cur \in Nat, Spread(uids, choices, cur), Reading(cur)
        PROVE  InTurn'
    <3>1. cur = index[c]
      BY <1>1, <2>8 DEF Reading
    <3>2. Spread(uids, choices, index[c])
      BY <2>8, <3>1
    <3>3. \A j \in DOMAIN uids :
            choices'[uids[j]] = choices[uids[j]] + One(uids[j] = At(uids, index[c]))
      BY <1>4, <2>6
    <3>4. Spread(uids, choices', i)
      <4>1. /\ uids \in Seq(Uid) /\ uids # <<>> /\ NoRepeats(uids)
            /\ index[c] \in Nat
        BY <1>2, <1>4, <2>3
      <4>2. Spread(uids, choices', Following(uids, index[c]))
        BY <3>2, <3>3, <4>1, SpreadGoesOn
      <4> QED
        BY <1>4, <4>2
    <3>5. Spread(uids', choices', i)
      BY <1>4, <3>4
    <3> QED
      BY <2>2, <2>4, <2>5, <3>5 DEF InTurn
  <2> QED
    BY <2>7, <2>8 DEF InTurn
<1> DEFINE Picked(u, i) ==
      /\ u = At(uids, index[c]) /\ i = Following(uids, index[c])
      /\ u \in Uid /\ uids # <<>>
      /\ Goto(c, "set")
      /\ choices' = [choices EXCEPT ![u] = @ + 1]
      /\ index' = [index EXCEPT ![c] = i]
      /\ UNCHANGED <<uids, iterator, turns>>
<1>5. \/ Goto(c, "check") /\ UNCHANGED <<uids, iterator, turns, index, choices>>
      \/ \E u \in Registered : \E i : Picked(u, i)
  <2>1. CASE Goto(c, "check") /\ UNCHANGED <<uids, iterator, turns, changes, index, chosen, choices>>
    BY <2>1
  <2>2. ASSUME NEW u \in Registered, NEW i,
               u = At(Without(uids, Ignore[c]), index[c]),
               i = Following(Without(uids, Ignore[c]), index[c]),
               u \in Uid, Without(uids, Ignore[c]) # <<>>,
               Goto(c, "set"),
               choices' = [choices EXCEPT ![u] = @ + 1],
               index' = [index EXCEPT ![c] = i],
               UNCHANGED <<uids, iterator, turns, changes>>
        PROVE  Picked(u, i)
    BY <1>2, <2>2
  <2> HIDE DEF Picked
  <2> QED
    BY <2>1, <2>2, ChooseStep
<1> QED
  BY <1>3, <1>4, <1>5

LEMMA InTurnStep ==
  ASSUME TypeInv, InTurn, [Next]_vars
  PROVE  InTurn'
<1>1. /\ pc \in [Caller -> Pcs] /\ turns \in BOOLEAN
      /\ index \in [Caller -> 0 .. Cardinality(Uid)]
      /\ NoIterator \notin Nat
  BY RoundRobinAssumption DEF TypeInv, TypeOK, Pcs
<1>2. ASSUME NEW c \in Caller, Check(c)
      PROVE  InTurn'
  <2> SUFFICES ASSUME turns'
               PROVE  InTurn'
    BY DEF InTurn
  <2>1. /\ turns /\ TakingTurns(Active \union {c}) /\ pc[c] \in {"idle", "check"}
        /\ Goto(c, IF iterator = NoIterator THEN "init" ELSE "get")
        /\ UNCHANGED <<uids, iterator, index, choices>>
    BY <1>2 DEF Check
  <2>2. /\ \A d \in Caller : d # c => pc[d] = "idle" /\ pc'[d] = "idle"
        /\ pc'[c] = IF iterator = NoIterator THEN "init" ELSE "get"
    BY <1>1, <2>1 DEF Active, TakingTurns, Goto
  <2>3. Active' \subseteq Active \union {c}
    BY <2>2 DEF Active
  <2>4. TakingTurns(Active)'
    BY <2>1, <2>3 DEF TakingTurns
  <2>5. NoneChosen => NoneChosen'
    BY <2>1 DEF NoneChosen
  <2>6. ASSUME NEW cur \in Nat, Spread(uids, choices, cur), Reading(cur)
        PROVE  (Spread(uids, choices, cur) /\ Reading(cur))'
    <3>1. \A d \in Caller : pc[d] # "set"
      BY <2>1, <2>2
    <3>2. iterator = cur /\ iterator # NoIterator
      BY <1>1, <2>6, <3>1 DEF Reading
    <3>3. Reading(cur)'
      BY <2>1, <2>2, <3>2 DEF Reading
    <3> QED
      BY <2>1, <2>6, <3>3 DEF Spread
  <2> QED
    BY <2>1, <2>4, <2>5, <2>6 DEF InTurn
<1>3. ASSUME NEW c \in Caller, SetZero(c)
      PROVE  InTurn'
  <2>1. /\ pc[c] = "init" /\ Goto(c, "get") /\ UNCHANGED <<uids, index, choices, turns>>
    BY <1>3 DEF SetZero
  <2>2. Active' = Active
    BY <1>1, <2>1 DEF Active, Goto
  <2>3. turns => NoneChosen
    BY <2>1 DEF InTurn, Reading
  <2> QED
    BY <2>1, <2>2, <2>3 DEF InTurn, NoneChosen, TakingTurns
<1>4. ASSUME NEW c \in Caller, Get(c)
      PROVE  InTurn'
  <2> SUFFICES ASSUME turns'
               PROVE  InTurn'
    BY DEF InTurn
  <2>1. /\ turns /\ pc[c] = "get" /\ Goto(c, "hkeys")
        /\ index' = [index EXCEPT ![c] = iterator]
        /\ UNCHANGED <<uids, iterator, choices>>
    BY <1>4 DEF Get
  <2>2. /\ \A d \in Caller : d # c => pc[d] = "idle" /\ pc'[d] = "idle"
        /\ pc'[c] = "hkeys" /\ index'[c] = iterator
        /\ Active' = Active
    BY <1>1, <2>1 DEF Active, TakingTurns, Goto, InTurn
  <2>3. TakingTurns(Active)'
    BY <2>1, <2>2 DEF TakingTurns, InTurn
  <2>4. NoneChosen => NoneChosen'
    BY <2>1 DEF NoneChosen
  <2>5. ASSUME NEW cur \in Nat, Spread(uids, choices, cur), Reading(cur)
        PROVE  (Spread(uids, choices, cur) /\ Reading(cur))'
    <3>1. iterator = cur
      BY <2>1, <2>2, <2>5 DEF Reading
    <3>2. Reading(cur)'
      BY <2>1, <2>2, <3>1 DEF Reading
    <3> QED
      BY <2>1, <2>5, <3>2 DEF Spread
  <2> QED
    BY <2>1, <2>3, <2>4, <2>5 DEF InTurn
<1>5. ASSUME NEW c \in Caller, Choose(c)
      PROVE  InTurn'
  <2>1. turns' = turns
    BY <1>5 DEF Choose
  <2>2. CASE ~turns
    BY <2>1, <2>2 DEF InTurn
  <2> QED
    BY <1>1, <1>5, <2>2, ChooseInTurn
<1>6. ASSUME NEW c \in Caller, Set(c)
      PROVE  InTurn'
  <2> SUFFICES ASSUME turns'
               PROVE  InTurn'
    BY DEF InTurn
  <2>1. /\ turns /\ pc[c] = "set" /\ Goto(c, "idle")
        /\ iterator' = index[c]
        /\ UNCHANGED <<uids, index, choices>>
    BY <1>6 DEF Set
  <2>2. /\ \A d \in Caller : pc'[d] = "idle"
        /\ Active' \subseteq Active
    BY <1>1, <2>1 DEF Active, TakingTurns, Goto, InTurn
  <2>3. TakingTurns(Active)'
    BY <2>1, <2>2 DEF TakingTurns, InTurn
  <2>4. NoneChosen => NoneChosen'
    BY <2>1 DEF NoneChosen
  <2>5. ASSUME NEW cur \in Nat, Spread(uids, choices, cur), Reading(cur)
        PROVE  (Spread(uids, choices, cur) /\ Reading(cur))'
    <3>1. index[c] = cur
      BY <2>1, <2>5 DEF Reading
    <3>2. Reading(cur)'
      BY <2>1, <2>2, <3>1 DEF Reading
    <3> QED
      BY <2>1, <2>5, <3>2 DEF Spread
  <2> QED
    BY <2>1, <2>3, <2>4, <2>5 DEF InTurn
<1>7. ASSUME NEW u \in Uid, Join(u) \/ Leave(u)
      PROVE  InTurn'
  <2>1. Forget /\ UNCHANGED pc
    BY <1>7 DEF Join, Leave
  <2>2. Active' = Active
    BY <2>1 DEF Active
  <2>3. NoneChosen'
    BY <2>1 DEF Forget, NoneChosen
  <2>4. turns' => TakingTurns(Active)'
    BY <2>1, <2>2 DEF Forget, TakingTurns
  <2> QED
    BY <2>3, <2>4 DEF InTurn
<1>8. CASE UNCHANGED vars
  BY <1>8 DEF vars, InTurn, NoneChosen, Spread, Reading, TakingTurns, Active
<1> QED
  BY <1>2, <1>3, <1>4, <1>5, <1>6, <1>7, <1>8 DEF Next, Step

\* A bound tighter than Balanced.
WithinTwo == turns => \A u, v \in Registered : choices[u] - choices[v] <= 2

\* Callers that come one after the other and ignore nobody spread over the
\* registered plugins, whatever index the callers before them left and for any
\* number of plugins: no plugin is chosen three times more often than another.
THEOREM DifferByTwo == Spec => [](TypeInv /\ WithinTwo)
<1>1. Init => InTurn
  BY DEF Init, InTurn, NoneChosen, TakingTurns, Active
<1>2. TypeInv /\ [Next]_vars => TypeInv'
  BY TypeInvStep
<1>3. TypeInv /\ InTurn /\ [Next]_vars => InTurn'
  BY InTurnStep
<1>4. TypeInv /\ InTurn => WithinTwo
  <2> SUFFICES ASSUME TypeInv, InTurn, turns
               PROVE  \A u, v \in Registered : choices[u] - choices[v] <= 2
    BY DEF WithinTwo
  <2>1. CASE NoneChosen
    BY <2>1 DEF NoneChosen, TypeInv, TypeOK
  <2>2. ASSUME NEW cur \in Nat, Spread(uids, choices, cur)
        PROVE  \A u, v \in Registered : choices[u] - choices[v] <= 2
    BY <2>2, SpreadIsBalanced
  <2> QED
    BY <2>1, <2>2 DEF InTurn
<1> QED
  BY <1>1, <1>2, <1>3, <1>4, InitTypeInv, PTL DEF Spec

\* The round robin passes nobody over, which would also hold if the index went
\* back to 0 where redis_queue/README.md:37 says.
THEOREM SpreadsEvenly == Spec => []Balanced
<1>1. TypeInv /\ WithinTwo => Balanced
  <2>1. TypeInv => \A u \in Registered : choices[u] \in Nat
    BY DEF TypeInv, TypeOK
  <2> QED
    BY <2>1 DEF WithinTwo, Balanced
<1> QED
  BY <1>1, DifferByTwo, PTL
=============================================================================
