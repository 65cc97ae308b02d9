---------------------------- MODULE InputsProofs ----------------------------
(***************************************************************************)
(* Proofs about the pure functions of the program, for every input: texts, *)
(* bodies, answers and chains of any length and any limits.  What each     *)
(* function promises is proved for all its arguments first, and gives the  *)
(* invariants of Inputs at the end.                                        *)
(***************************************************************************)
EXTENDS Inputs, FiniteSetTheorems, SequenceTheorems, TLAPS

-----------------------------------------------------------------------------
(***************************************************************************)
(* Least and greatest elements, and the address limits are charged to.     *)
(***************************************************************************)

\* A set of naturals has a least element, ...
LEMMA Least ==
  ASSUME NEW T \in SUBSET Nat, T # {}
  PROVE  \E x \in T : \A y \in T : x <= y
<1>1. PICK x \in T : \A y \in T : ~(<<y, x>> \in OpToRel(<, Nat))
  BY NatLessThanWellFounded, WFMin
<1>2. \A y \in T : ~(y < x)
  BY <1>1 DEF OpToRel
<1> QED
  BY <1>2

\* ... and if it is bounded, a greatest one.
LEMMA Greatest ==
  ASSUME NEW T \in SUBSET Nat, T # {}, NEW n \in Nat, \A x \in T : x <= n
  PROVE  Max(T) \in T /\ \A y \in T : y <= Max(T)
<1> DEFINE R == {m \in Nat : n - m \in T}
<1>1. R # {}
  <2>1. PICK x \in T : TRUE
    OBVIOUS
  <2>2. n - x \in R
    BY <2>1
  <2> QED
    BY <2>2
<1>2. PICK m \in R : \A y \in R : m <= y
  BY <1>1, Least
<1>3. ASSUME NEW y \in T PROVE n - m >= y
  <2>1. n - y \in R
    OBVIOUS
  <2> QED
    BY <1>2, <2>1
<1>4. \E x \in T : \A y \in T : x >= y
  BY <1>2, <1>3
<1>5. Max(T) \in T /\ \A y \in T : Max(T) >= y
  BY <1>4 DEF Max
<1> QED
  BY <1>5

\* The chain may be kept from position l on.
KeepsFrom(chain, l) == /\ \A i \in l..Len(chain) : chain[i] # Malformed
                       /\ \A i \in (l + 1)..Len(chain) : Trusted(chain[i])

\* A suffix of a chain by the place where it begins.
LEMMA SuffixShape ==
  ASSUME NEW chain \in Seq(Entries), NEW l \in 1..(Len(chain) + 1)
  PROVE  /\ SubSeq(chain, l, Len(chain)) \in Seq(Entries)
         /\ Len(SubSeq(chain, l, Len(chain))) = Len(chain) - l + 1
         /\ \A i \in 1..(Len(chain) - l + 1) :
              SubSeq(chain, l, Len(chain))[i] = chain[l + i - 1]
OBVIOUS

\* The walk from the right keeps the longest part of the chain it may keep.
LEMMA KeptSuffix ==
  ASSUME NEW chain \in Seq(Entries)
  PROVE  \E l \in 1..(Len(chain) + 1) :
           /\ trustedForwardedFor(chain) = SubSeq(chain, l, Len(chain))
           /\ KeepsFrom(chain, l)
           /\ \A k \in 1..(Len(chain) + 1) : KeepsFrom(chain, k) => l <= k
<1> DEFINE n == Len(chain)
           from(l) == SubSeq(chain, l, n)
           kept == {s \in Suffixes(chain) : /\ Malformed \notin ToSet(s)
                                            /\ \A i \in 2..Len(s) : Trusted(s[i])}
           begins == {l \in 1..(n + 1) : KeepsFrom(chain, l)}
<1>1. n \in Nat /\ \A i \in 1..n : chain[i] \in Entries
  OBVIOUS
<1>2. from(n + 1) = <<>>
  OBVIOUS
<1>3. Suffixes(chain) = {from(l) : l \in 1..(n + 1)}
  <2>1. 1..(n + 1) = 1..n \cup {n + 1}
    BY <1>1
  <2>2. Suffixes(chain) = {from(l) : l \in 1..n} \cup {<<>>}
    BY DEF Suffixes
  <2>3. Suffixes(chain) = {from(l) : l \in 1..n} \cup {from(n + 1)}
    BY <1>2, <2>2
  <2> HIDE DEF n, from
  <2>4. {from(l) : l \in 1..n \cup {n + 1}} = {from(l) : l \in 1..n} \cup {from(n + 1)}
    OBVIOUS
  <2> QED
    BY <2>1, <2>3, <2>4
<1>4. ASSUME NEW l \in 1..(n + 1)
      PROVE  /\ Len(from(l)) = n - l + 1
             /\ from(l) \in kept <=> KeepsFrom(chain, l)
  <2>1. /\ from(l) \in Seq(Entries) /\ Len(from(l)) = n - l + 1
        /\ \A i \in 1..(n - l + 1) : from(l)[i] = chain[l + i - 1]
    BY SuffixShape
  <2>2. DOMAIN from(l) = 1..(n - l + 1)
    BY <2>1
  <2> HIDE DEF n, from
  <2>3. Malformed \notin ToSet(from(l)) <=> \A i \in 1..(n - l + 1) : chain[l + i - 1] # Malformed
    BY <2>1, <2>2 DEF ToSet
  <2>4. (\A i \in 2..Len(from(l)) : Trusted(from(l)[i])) <=>
          \A i \in 2..(n - l + 1) : Trusted(chain[l + i - 1])
    <3>1. \A i \in 2..(n - l + 1) : from(l)[i] = chain[l + i - 1]
      BY <1>1, <2>1
    <3>2. 2..Len(from(l)) = 2..(n - l + 1)
      BY <2>1
    <3> QED
      BY <3>1, <3>2
  <2>5. (\A i \in 1..(n - l + 1) : chain[l + i - 1] # Malformed) <=>
          \A i \in l..n : chain[i] # Malformed
    <3>1. \A i \in l..n : i - l + 1 \in 1..(n - l + 1) /\ l + (i - l + 1) - 1 = i
      BY <1>1
    <3>2. \A i \in 1..(n - l + 1) : l + i - 1 \in l..n
      BY <1>1
    <3> QED
      BY <3>1, <3>2
  <2>6. (\A i \in 2..(n - l + 1) : Trusted(chain[l + i - 1])) <=>
          \A i \in (l + 1)..n : Trusted(chain[i])
    <3>1. \A i \in (l + 1)..n : i - l + 1 \in 2..(n - l + 1) /\ l + (i - l + 1) - 1 = i
      BY <1>1
    <3>2. \A i \in 2..(n - l + 1) : l + i - 1 \in (l + 1)..n
      BY <1>1
    <3> QED
      BY <3>1, <3>2
  <2>7. from(l) \in Suffixes(chain)
    BY <1>3 DEF from
  <2> QED
    BY <2>1, <2>3, <2>4, <2>5, <2>6, <2>7 DEF KeepsFrom, n
<1>5. n + 1 \in begins
  BY <1>1 DEF KeepsFrom
<1> HIDE DEF n, from
<1>6. begins \in SUBSET Nat /\ begins # {}
  BY <1>1, <1>5
<1>7. PICK l \in begins : \A k \in begins : l <= k
  BY <1>6, Least
<1>8. from(l) \in kept /\ \A t \in kept : Len(t) <= Len(from(l))
  <2>1. from(l) \in kept
    BY <1>4, <1>7
  <2>2. ASSUME NEW t \in kept PROVE Len(t) <= Len(from(l))
    <3>1. PICK k \in 1..(n + 1) : t = from(k)
      BY <1>3, <2>2
    <3>2. k \in begins
      BY <1>4, <2>2, <3>1
    <3> QED
      BY <1>1, <1>4, <1>7, <3>1, <3>2
  <2> QED
    BY <2>1, <2>2
<1>9. PICK s \in kept : s = trustedForwardedFor(chain) /\ \A t \in kept : Len(t) <= Len(s)
  BY <1>8 DEF trustedForwardedFor
<1>10. PICK k \in 1..(n + 1) : s = from(k)
  BY <1>3, <1>9
<1>11. k \in begins /\ Len(s) = n - k + 1 /\ Len(from(l)) = n - l + 1
  BY <1>4, <1>7, <1>9, <1>10
<1>12. k = l
  BY <1>1, <1>7, <1>8, <1>9, <1>11
<1> QED
  BY <1>7, <1>9, <1>10, <1>12 DEF n, from

\* The upstream is told of no hop behind an untrusted one, and on a chain of
\* addresses the limiter is charged to the client the upstream is told of,
\* for chains of any length and any set of trusted proxies.
THEOREM ForwardedAddressHonest ==
  ASSUME NEW remote \in Entries, NEW chain \in Seq(Entries)
  PROVE  AddressHonest(remote, chain)
<1> DEFINE n == Len(chain)
           told == forwardedFor(remote, chain)
           charged == clientIP(remote, chain)
           outside == {i \in DOMAIN chain : chain[i] # Malformed /\ ~Trusted(chain[i])}
           wellFormed == remote # Malformed /\ Malformed \notin ToSet(chain)
<1>1. n \in Nat /\ DOMAIN chain = 1..n /\ \A i \in 1..n : chain[i] \in Entries
  OBVIOUS
<1>2. CASE ~Trusted(remote)
  <2>1. charged = remote
    BY <1>2 DEF clientIP
  <2>2. told = IF remote = Malformed THEN <<>> ELSE <<remote>>
    BY <1>2 DEF forwardedFor
  <2> HIDE DEF told, charged
  <2>3. CASE remote = Malformed
    BY <2>1, <2>2, <2>3 DEF AddressHonest, Authenticated, ToSet, told, charged
  <2>4. CASE remote # Malformed
    <3>1. told = <<remote>> /\ Len(told) = 1 /\ told[1] = remote /\ DOMAIN told = {1}
      BY <2>2, <2>4
    <3> QED
      BY <1>2, <2>1, <2>4, <3>1 DEF AddressHonest, Authenticated, ToSet, told, charged
  <2> QED
    BY <2>3, <2>4
<1>3. CASE Trusted(remote)
  <2>1. PICK l \in 1..(n + 1) : /\ trustedForwardedFor(chain) = SubSeq(chain, l, n)
                                /\ KeepsFrom(chain, l)
                                /\ \A k \in 1..(n + 1) : KeepsFrom(chain, k) => l <= k
    BY KeptSuffix
  <2> DEFINE m == n - l + 1
  <2>2. remote # Malformed
    BY <1>3, ForwardingAssumption DEF Trusted
  <2>3. PICK t \in Seq(Entries) : /\ t = trustedForwardedFor(chain) /\ Len(t) = m
                                  /\ \A i \in 1..m : t[i] = chain[l + i - 1]
    BY <2>1, SuffixShape
  <2>4. m \in Nat
    BY <1>1
  <2>5. told = t \o <<remote>>
    BY <1>3, <2>2, <2>3 DEF forwardedFor
  <2> HIDE DEF told, m
  <2>6. Len(told) = m + 1 /\ DOMAIN told = 1..(m + 1)
    BY <2>3, <2>4, <2>5
  <2>7. told[m + 1] = remote
    BY <2>3, <2>4, <2>5
  <2>8. ASSUME NEW i \in 1..m PROVE told[i] = chain[l + i - 1] /\ l + i - 1 \in l..n
    BY <1>1, <2>3, <2>4, <2>5 DEF m
  <2>9. \A i \in l..n : chain[i] # Malformed
    BY <2>1 DEF KeepsFrom
  <2>10. \A i \in (l + 1)..n : Trusted(chain[i])
    BY <2>1 DEF KeepsFrom
  <2>11. \A i \in 2..Len(told) : Trusted(told[i])
    <3> SUFFICES ASSUME NEW i \in 2..(m + 1) PROVE Trusted(told[i])
      BY <2>6
    <3>1. CASE i = m + 1
      BY <1>3, <2>7, <3>1
    <3>2. CASE i # m + 1
      <4>1. i \in 1..m /\ l + i - 1 \in (l + 1)..n
        BY <1>1, <2>4, <3>2 DEF m
      <4> QED
        BY <2>8, <2>10, <4>1
    <3> QED
      BY <3>1, <3>2
  <2>12. Malformed \notin ToSet(told)
    <3>1. ASSUME NEW i \in 1..(m + 1) PROVE told[i] # Malformed
      <4>1. CASE i = m + 1
        BY <2>2, <2>7, <4>1
      <4>2. CASE i # m + 1
        <5>1. i \in 1..m
          BY <2>4, <4>2
        <5> QED
          BY <2>8, <2>9, <5>1
      <4> QED
        BY <4>1, <4>2
    <3> QED
      BY <2>6, <3>1 DEF ToSet
  <2>13. CASE outside = {}
    <3>1. charged = remote
      BY <2>13 DEF clientIP
    <3>2. ASSUME wellFormed PROVE Trusted(told[1])
      <4>1. \A i \in 1..n : Trusted(chain[i])
        BY <1>1, <2>13, <3>2 DEF ToSet
      <4>2. CASE m = 0
        BY <1>3, <2>7, <4>2
      <4>3. CASE m # 0
        <5>1. 1 \in 1..m /\ l + 1 - 1 \in 1..n
          BY <1>1, <2>4, <4>3 DEF m
        <5> QED
          BY <2>8, <4>1, <5>1
      <4> QED
        BY <4>2, <4>3
    <3> HIDE DEF charged
    <3> QED
      BY <2>11, <2>12, <3>1, <3>2 DEF AddressHonest, Authenticated, told, charged
  <2>14. CASE outside # {}
    <3> DEFINE x == Max(outside)
    <3>1. outside \in SUBSET Nat /\ \A i \in outside : i <= n
      BY <1>1
    <3>2. x \in outside /\ \A y \in outside : y <= x
      BY <1>1, <2>14, <3>1, Greatest
    <3>3. charged = chain[x]
      BY <1>3, <2>14 DEF clientIP
    <3> HIDE DEF x, charged
    <3>4. x \in 1..n /\ chain[x] # Malformed /\ ~Trusted(chain[x])
      BY <1>1, <3>2
    <3>5. ASSUME NEW j \in (x + 1)..n PROVE chain[j] = Malformed \/ Trusted(chain[j])
      <4>1. j \in 1..n /\ ~(j <= x)
        BY <1>1, <3>4
      <4> QED
        BY <1>1, <3>2, <4>1
    <3>6. ASSUME wellFormed PROVE \A j \in (x + 1)..n : Trusted(chain[j])
      BY <1>1, <3>4, <3>5, <3>6 DEF ToSet
    <3>7. ASSUME wellFormed PROVE charged = told[1] /\ ~Trusted(told[1])
      <4>1. \A j \in 1..n : chain[j] # Malformed
        BY <1>1, <3>7 DEF ToSet
      <4>2. KeepsFrom(chain, x)
        BY <1>1, <3>4, <3>5, <4>1 DEF KeepsFrom
      <4>3. l <= x
        BY <1>1, <2>1, <3>4, <4>2
      <4>4. x \notin (l + 1)..n
        BY <2>10, <3>4
      <4>5. x = l
        BY <1>1, <3>4, <4>3, <4>4
      <4>6. 1 \in 1..m /\ l + 1 - 1 = x
        BY <1>1, <3>4, <4>5 DEF m
      <4>7. told[1] = chain[x]
        BY <2>8, <4>6
      <4> QED
        BY <3>3, <3>4, <4>7
    <3> HIDE DEF outside
    <3> QED
      BY <1>1, <2>11, <2>12, <3>3, <3>4, <3>6, <3>7 DEF AddressHonest, Authenticated, told, charged
  <2> QED
    BY <2>13, <2>14
<1> QED
  BY <1>2, <1>3

-----------------------------------------------------------------------------
(***************************************************************************)
(* The limit on the bytes of a body that are read ahead.                   *)
(***************************************************************************)

\* What is read ahead and what is left in the reader are what the client
\* delivered, and a reader that neither failed nor reached past the limit
\* was read to its end.
Splits(read, body, failAt, limit) ==
  /\ read.bytes \o read.rest = Delivered(body, failAt)
  /\ read.bytes \o <<>> = read.bytes
  /\ ~read.failed /\ ~read.over =>
       failAt = 0 /\ read.bytes = Delivered(body, failAt) /\ Len(read.bytes) <= limit
  /\ failAt = 0 => Delivered(body, failAt) = body

\* ReadAhead splits every body so, wherever the read fails.
LEMMA ReadAheadSplits ==
  ASSUME NEW Byte, NEW body \in Seq(Byte), NEW failAt \in 0..(Len(body) + 1), NEW limit \in Nat
  PROVE  Splits(ReadAhead(body, failAt, limit), body, failAt, limit)
<1> DEFINE readable == IF failAt = 0 THEN Len(body) ELSE failAt - 1
           ahead == IF readable < limit + 1 THEN readable ELSE limit + 1
<1>0. PICK read : read = ReadAhead(body, failAt, limit)
  OBVIOUS
<1>1. Len(body) \in Nat
  OBVIOUS
<1>2. readable \in 0..Len(body) /\ ahead \in 0..readable
  BY <1>1
<1>3. /\ read.bytes = SubSeq(body, 1, ahead) /\ read.rest = SubSeq(body, ahead + 1, readable)
      /\ read.failed <=> failAt # 0 /\ failAt <= limit + 1
      /\ read.over <=> ahead > limit
  BY <1>0 DEF ReadAhead
<1>4. SubSeq(body, 1, Len(body)) = body
  OBVIOUS
<1>5. SubSeq(body, 1, readable) = Delivered(body, failAt)
  BY <1>4 DEF Delivered
<1>6. ~(failAt # 0 /\ failAt <= limit + 1) /\ ~(ahead > limit) =>
        failAt = 0 /\ ahead = readable /\ ahead <= limit
  BY <1>1
<1> HIDE DEF readable, ahead
<1>7. SubSeq(body, 1, ahead) \o SubSeq(body, ahead + 1, readable) = SubSeq(body, 1, readable)
  BY <1>1, <1>2
<1>8. SubSeq(body, 1, ahead) \o <<>> = SubSeq(body, 1, ahead) /\ Len(SubSeq(body, 1, ahead)) = ahead
  BY <1>1, <1>2
<1>9. ~read.failed /\ ~read.over =>
        failAt = 0 /\ read.bytes = Delivered(body, failAt) /\ Len(read.bytes) <= limit
  BY <1>3, <1>5, <1>6, <1>8, Zenon
<1> QED
  BY <1>0, <1>3, <1>5, <1>7, <1>8, <1>9, Zenon DEF Splits, Delivered

\* Whatever the client sends, however it fails and whatever the limit is,
\* the upstream receives what was delivered, and what is audited is all of
\* the content, within the limit, or nothing.
THEOREM EveryBodyReplayed ==
  ASSUME NEW Byte, NEW body \in Seq(Byte), NEW failAt \in 0..(Len(body) + 1),
         NEW encoding, NEW inflated \in Seq(Byte), NEW corruptAt \in 0..(Len(inflated) + 1),
         NEW limit \in Nat
  PROVE  Replayed(body, failAt, encoding, inflated, corruptAt, limit)
<1> DEFINE captured == captureBody(body, failAt, limit)
           decoded == decodeAuditBody(captured.replay, encoding, inflated, corruptAt, limit)
           out == Forwarded(body, failAt, encoding, inflated, corruptAt, limit)
<1>1. PICK r : r = ReadAhead(body, failAt, limit)
  OBVIOUS
<1>2. PICK d : d = ReadAhead(inflated, corruptAt, limit)
  OBVIOUS
<1>3. Splits(r, body, failAt, limit)
  BY <1>1, ReadAheadSplits
<1>4. Splits(d, inflated, corruptAt, limit)
  BY <1>2, ReadAheadSplits
<1>5. captured.replay = Delivered(body, failAt)
  BY <1>1, <1>3, Zenon DEF captureBody, Splits
<1>6. captured.bypass = "" => ~r.failed /\ ~r.over
  BY <1>1, Zenon DEF captureBody
<1>7. decoded.bypass = "" =>
        \/ encoding = "identity" /\ decoded.bytes = captured.replay
        \/ encoding = "gzip" /\ ~d.failed /\ ~d.over /\ decoded.bytes = d.bytes
  BY <1>2, Zenon DEF decodeAuditBody
<1>8. /\ out.upstream = captured.replay
      /\ out.bypass = "" => captured.bypass = "" /\ decoded.bypass = "" /\ out.audited = decoded.bytes
  BY Zenon DEF Forwarded
<1> HIDE DEF captured, decoded, out
<1>9. ASSUME out.bypass = ""
      PROVE  /\ failAt = 0 /\ Len(out.audited) <= limit
             /\ out.audited = IF encoding = "identity" THEN body ELSE inflated
  <2>1. CASE encoding = "identity" /\ decoded.bytes = captured.replay
    BY <1>3, <1>5, <1>6, <1>8, <1>9, <2>1, Zenon DEF Splits
  <2>2. CASE encoding = "gzip" /\ ~d.failed /\ ~d.over /\ decoded.bytes = d.bytes
    BY <1>3, <1>4, <1>6, <1>8, <1>9, <2>2, Zenon DEF Splits
  <2> QED
    BY <1>7, <1>8, <1>9, <2>1, <2>2, Zenon
<1> QED
  BY <1>5, <1>8, <1>9, Zenon DEF Replayed, out

-----------------------------------------------------------------------------
(***************************************************************************)
(* Counting the runes of a text.                                           *)
(***************************************************************************)

\* The least element of a set of naturals is its Min.
LEMMA LeastIsMin ==
  ASSUME NEW T \in SUBSET Nat, T # {}
  PROVE  Min(T) \in T /\ \A y \in T : Min(T) <= y
<1>1. \E x \in T : \A y \in T : x <= y
  BY Least
<1> QED
  BY <1>1 DEF Min

\* The positions up to an offset.
UpTo(S, k) == {j \in S : j <= k}

\* Counts of positions in a text are natural numbers.
LEMMA UpToFinite ==
  ASSUME NEW n \in Nat, NEW S \in SUBSET (1..n), NEW k
  PROVE  /\ IsFiniteSet(S) /\ Cardinality(S) \in Nat
         /\ IsFiniteSet(UpTo(S, k)) /\ Cardinality(UpTo(S, k)) \in Nat
         /\ Cardinality(UpTo(S, k)) <= Cardinality(S)
<1>1. IsFiniteSet(1..n)
  BY FS_Interval
<1>2. IsFiniteSet(S)
  BY <1>1, FS_Subset
<1>3. UpTo(S, k) \in SUBSET S
  BY DEF UpTo
<1> QED
  BY <1>2, <1>3, FS_Subset, FS_CardinalityType

\* Up to a position lies what is before it, and the position itself.
LEMMA UpToNext ==
  ASSUME NEW S, \A j \in S : j \in Nat, NEW i \in Nat
  PROVE  /\ UpTo(S, i) = IF i \in S THEN UpTo(S, i - 1) \cup {i} ELSE UpTo(S, i - 1)
         /\ i \notin UpTo(S, i - 1) /\ UpTo(S, i - 1) = {j \in S : j < i}
<1>1. \A j \in S : (j <= i) <=> (j <= i - 1 \/ j = i)
  OBVIOUS
<1>2. \A j \in S : (j <= i - 1) <=> (j < i)
  OBVIOUS
<1>3. ~(i <= i - 1)
  OBVIOUS
<1>4. ASSUME i \in S PROVE UpTo(S, i) = UpTo(S, i - 1) \cup {i}
  <2>1. ASSUME NEW x PROVE x \in UpTo(S, i) <=> x \in UpTo(S, i - 1) \cup {i}
    BY <1>1, <1>4 DEF UpTo
  <2> QED
    BY <2>1
<1>5. ASSUME i \notin S PROVE UpTo(S, i) = UpTo(S, i - 1)
  BY <1>1, <1>5 DEF UpTo
<1>6. UpTo(S, i - 1) = {j \in S : j < i}
  BY <1>2 DEF UpTo
<1>7. i \notin UpTo(S, i - 1)
  BY <1>3 DEF UpTo
<1> QED
  BY <1>4, <1>5, <1>6, <1>7

\* Every count below the size of a set is the number of elements before one
\* of them: the least position with more than r elements up to it.
LEMMA RankReached ==
  ASSUME NEW n \in Nat, NEW S \in SUBSET (1..n), NEW r \in Nat, r < Cardinality(S)
  PROVE  \E i \in S : Cardinality({j \in S : j < i}) = r
<1> DEFINE T == {i \in 1..n : Cardinality(UpTo(S, i)) > r}
<1>0. \A j \in S : j \in Nat /\ 1 <= j /\ j <= n
  OBVIOUS
<1>1. T # {}
  <2>1. UpTo(S, n) = S
    BY <1>0 DEF UpTo
  <2>2. S # {}
    BY FS_EmptySet
  <2>3. PICK x \in S : TRUE
    BY <2>2
  <2>4. 1 <= n
    BY <1>0, <2>3
  <2> QED
    BY <2>1, <2>4
<1>2. PICK i \in T : \A k \in T : i <= k
  <2>1. T \in SUBSET Nat
    OBVIOUS
  <2> QED
    BY <1>1, <2>1, Least
<1>3. i \in 1..n /\ Cardinality(UpTo(S, i)) > r
  OBVIOUS
<1>4. IsFiniteSet(UpTo(S, i - 1)) /\ Cardinality(UpTo(S, i - 1)) \in Nat
  BY UpToFinite
<1>5. Cardinality(UpTo(S, i - 1)) <= r
  <2>1. CASE i = 1
    <3>1. \A j \in S : ~(j <= i - 1)
      BY <1>0, <2>1
    <3>2. UpTo(S, i - 1) = {}
      BY <3>1 DEF UpTo
    <3> QED
      BY <3>2, FS_EmptySet
  <2>2. CASE i # 1
    <3>1. i - 1 \in 1..n
      BY <1>3, <2>2
    <3>2. i - 1 \notin T
      BY <1>2, <1>3
    <3> QED
      BY <1>4, <3>1, <3>2
  <2> QED
    BY <2>1, <2>2
<1> HIDE DEF T
<1>6. i \in Nat /\ \A j \in S : j \in Nat
  BY <1>0, <1>3
<1>7. /\ UpTo(S, i) = IF i \in S THEN UpTo(S, i - 1) \cup {i} ELSE UpTo(S, i - 1)
      /\ i \notin UpTo(S, i - 1) /\ UpTo(S, i - 1) = {j \in S : j < i}
  BY <1>6, UpToNext, Zenon
<1>8. i \in S
  BY <1>3, <1>4, <1>5, <1>7
<1>9. UpTo(S, i) = UpTo(S, i - 1) \cup {i}
  BY <1>7, <1>8
<1>10. Cardinality(UpTo(S, i)) = Cardinality(UpTo(S, i - 1)) + 1
  BY <1>4, <1>7, <1>9, FS_AddElement, Zenon
<1>11. Cardinality(UpTo(S, i - 1)) = r
  BY <1>3, <1>4, <1>5, <1>10
<1> QED
  BY <1>7, <1>8, <1>11

\* The starts of runes are finitely many positions of the text.
LEMMA StartsInside ==
  ASSUME NEW text \in Seq(Bytes)
  PROVE  /\ Len(text) \in Nat /\ DOMAIN text = 1..Len(text)
         /\ Starts(text) \in SUBSET (1..Len(text))
         /\ IsFiniteSet(Starts(text)) /\ Cardinality(Starts(text)) \in Nat
<1>1. Len(text) \in Nat /\ DOMAIN text = 1..Len(text)
  OBVIOUS
<1>2. Starts(text) \in SUBSET (1..Len(text))
  BY <1>1 DEF Starts
<1> QED
  BY <1>1, <1>2, UpToFinite

\* byteOffsetAtRune: r runes begin before the offset of rune r.
LEMMA OffsetCounts ==
  ASSUME NEW text \in Seq(Bytes), NEW r \in Nat, r < Cardinality(Starts(text))
  PROVE  /\ byteOffsetAtRune(text, r) \in 0..Len(text)
         /\ Cardinality(UpTo(Starts(text), byteOffsetAtRune(text, r))) = r
         /\ Boundary(text, byteOffsetAtRune(text, r))
<1> DEFINE n == Len(text)
           found == {i \in Starts(text) : Cardinality({j \in Starts(text) : j < i}) = r}
<1>1. /\ n \in Nat /\ Starts(text) \in SUBSET (1..n)
      /\ \A j \in Starts(text) : j \in Nat /\ 1 <= j /\ j <= n
  BY StartsInside
<1>2. CASE r = 0
  <2>1. byteOffsetAtRune(text, r) = 0
    BY <1>2 DEF byteOffsetAtRune
  <2>2. UpTo(Starts(text), 0) = {}
    BY <1>1 DEF UpTo
  <2> QED
    BY <1>1, <1>2, <2>1, <2>2, FS_EmptySet DEF Boundary
<1>3. CASE r # 0
  <2>1. \E i \in Starts(text) : Cardinality({j \in Starts(text) : j < i}) = r
    BY <1>1, RankReached
  <2>2. PICK i \in found : i = CHOOSE x \in found : TRUE
    BY <2>1
  <2>3. byteOffsetAtRune(text, r) = i - 1
    BY <1>3, <2>1, <2>2 DEF byteOffsetAtRune
  <2>4. UpTo(Starts(text), i - 1) = {j \in Starts(text) : j < i}
    <3>1. \A j \in Starts(text) : (j <= i - 1) <=> (j < i)
      BY <1>1
    <3> QED
      BY <3>1 DEF UpTo
  <2>5. RuneStart(text[i])
    BY DEF Starts
  <2>6. i \in 1..n /\ i \in Nat /\ (i - 1) + 1 = i
    BY <1>1
  <2> QED
    <3>1. Cardinality(UpTo(Starts(text), i - 1)) = r
      BY <2>4
    <3>2. i - 1 \in 0..n
      BY <1>1, <2>6
    <3> QED
      BY <2>3, <2>5, <2>6, <3>1, <3>2 DEF Boundary
<1> QED
  BY <1>2, <1>3

\* Two thirds of a budget, rounded down.
LEMMA TwoThirds ==
  ASSUME NEW m \in Nat
  PROVE  /\ (m * 2) \div 3 \in Nat /\ (m * 2) \div 3 <= m
         /\ m # 0 => (m * 2) \div 3 < m
OBVIOUS

\* The sizes of disjoint sets add up.
LEMMA DisjointUnion ==
  ASSUME NEW A, NEW B, IsFiniteSet(A), IsFiniteSet(B), A \cap B = {}
  PROVE  Cardinality(A \cup B) = Cardinality(A) + Cardinality(B)
<1>1. Cardinality(A \cup B) = Cardinality(A) + Cardinality(B) - Cardinality({})
  BY FS_Union
<1>2. Cardinality(A) \in Nat /\ Cardinality(B) \in Nat
  BY FS_CardinalityType
<1> QED
  BY <1>1, <1>2, FS_EmptySet

\* As many runes are kept as begin before the front ends and after the back
\* begins.
LEMMA KeptCount ==
  ASSUME NEW text \in Seq(Bytes), NEW f \in Nat, NEW b \in Nat, f <= b
  PROVE  Cardinality({s \in Starts(text) : s <= f \/ s > b}) =
           Cardinality(UpTo(Starts(text), f)) + Cardinality(Starts(text))
             - Cardinality(UpTo(Starts(text), b))
<1> DEFINE S == Starts(text)
           F == UpTo(S, f)
           B == UpTo(S, b)
           K == {s \in S : s > b}
<1>1. /\ IsFiniteSet(S) /\ \A s \in S : s \in Nat
  BY StartsInside
<1>2. IsFiniteSet(F) /\ IsFiniteSet(B) /\ Cardinality(F) \in Nat /\ Cardinality(B) \in Nat
  BY StartsInside, UpToFinite
<1> HIDE DEF S
<1>3. IsFiniteSet(K)
  BY <1>1, FS_Subset
<1>4. Cardinality(K) \in Nat
  BY <1>3, FS_CardinalityType
<1>5. \A s \in S : (s <= b) <=> ~(s > b)
  BY <1>1
<1>6. \A s \in S : s <= f => ~(s > b)
  BY <1>1
<1>7. B \cup K = S /\ B \cap K = {}
  BY <1>5 DEF UpTo
<1>8. F \cup K = {s \in S : s <= f \/ s > b} /\ F \cap K = {}
  BY <1>6 DEF UpTo
<1> HIDE DEF F, B, K
<1>9. Cardinality(S) = Cardinality(B) + Cardinality(K)
  BY <1>2, <1>3, <1>7, DisjointUnion
<1>10. Cardinality(F \cup K) = Cardinality(F) + Cardinality(K)
  BY <1>2, <1>3, <1>8, DisjointUnion
<1>11. Cardinality(F \cup K) = Cardinality(F) + Cardinality(S) - Cardinality(B)
  BY <1>2, <1>4, <1>9, <1>10
<1> QED
  BY <1>8, <1>11 DEF S, F, B, K

\* The sample of any text at any limit keeps whole runes, from both ends
\* without overlap, and as many as the limit allows.
THEOREM EverySampleFaithful ==
  ASSUME NEW text \in Seq(Bytes), NEW maxRunes \in Int
  PROVE  SampleFaithful(text, maxRunes)
<1> DEFINE S == Starts(text)
           runes == Cardinality(S)
           m == SampleRunes(maxRunes)
           first == (m * 2) \div 3
           last == m - first
           f == byteOffsetAtRune(text, first)
           b == byteOffsetAtRune(text, runes - last)
<1>1. Len(text) \in Nat /\ runes \in Nat
  BY StartsInside
<1>2. m \in Nat /\ m # 0
  BY CutsAssumption DEF SampleRunes
<1> HIDE DEF S, runes, m
<1>3. first \in Nat /\ first < m
  BY <1>2, TwoThirds
<1> HIDE DEF first
<1>4. last \in Nat /\ last # 0 /\ first + last = m
  BY <1>2, <1>3
<1> HIDE DEF last
<1>5. CASE runes <= m
  <2>1. PrepareAISample(text, maxRunes) = Whole(text)
    BY <1>5 DEF PrepareAISample, runes, m, S
  <2>2. IsCut(text, Whole(text)) /\ ~Whole(text).cut
    BY <1>1 DEF IsCut, Whole, Boundary
  <2>3. ~(runes > m)
    BY <1>1, <1>2, <1>5
  <2> QED
    BY <2>1, <2>2, <2>3, Zenon DEF SampleFaithful, runes, m, S
<1>6. CASE ~(runes <= m)
  <2>1. runes > m /\ first < runes - last /\ runes - last \in Nat /\ runes - last < runes
    BY <1>1, <1>2, <1>3, <1>4, <1>6
  <2>2. first < runes
    BY <1>1, <1>3, <1>4, <2>1
  <2>3. f \in 0..Len(text) /\ Cardinality(UpTo(S, f)) = first /\ Boundary(text, f)
    BY <1>3, <2>2, OffsetCounts DEF runes, S
  <2>4. b \in 0..Len(text) /\ Cardinality(UpTo(S, b)) = runes - last /\ Boundary(text, b)
    BY <2>1, OffsetCounts DEF runes, S
  <2>5. PrepareAISample(text, maxRunes) = [front |-> f, back |-> b, cut |-> TRUE]
    BY <1>6 DEF PrepareAISample, runes, m, S, first, last
  <2> HIDE DEF f, b
  <2>6. f <= b
    <3>1. SUFFICES ASSUME b < f PROVE FALSE
      BY <1>1, <2>3, <2>4
    <3>2. \A s \in S : s \in Nat
      BY StartsInside DEF S
    <3>3. \A s \in S : s <= b => s <= f
      BY <1>1, <2>3, <2>4, <3>1, <3>2
    <3>4. UpTo(S, b) \in SUBSET UpTo(S, f)
      BY <3>3 DEF UpTo
    <3>5. IsFiniteSet(UpTo(S, f))
      BY StartsInside, UpToFinite DEF S
    <3>6. runes - last <= first
      BY <2>3, <2>4, <3>4, <3>5, FS_Subset
    <3> QED
      BY <1>1, <1>3, <2>1, <3>6
  <2> DEFINE c == [front |-> f, back |-> b, cut |-> TRUE]
  <2>7. c.front = f /\ c.back = b /\ c.cut = TRUE
    OBVIOUS
  <2>8. f \in 0..b /\ b \in 0..Len(text)
    BY <1>1, <2>3, <2>4, <2>6
  <2> HIDE DEF c
  <2>9. IsCut(text, c)
    BY <2>3, <2>4, <2>7, <2>8, Zenon DEF IsCut
  <2>10. Cardinality({s \in S : s <= f \/ s > b}) = first + runes - (runes - last)
    BY <1>1, <2>3, <2>4, <2>6, KeptCount DEF S, runes
  <2>11. Cardinality({s \in S : s <= f \/ s > b}) = m
    BY <1>1, <1>2, <1>3, <1>4, <2>10
  <2>12. Cardinality(KeptRunes(text, c)) = m
    BY <2>7, <2>11 DEF KeptRunes, S
  <2> QED
    BY <2>1, <2>5, <2>7, <2>9, <2>12, Zenon DEF SampleFaithful, runes, m, S, c
<1> QED
  BY <1>5, <1>6

\* The evidence of any text at any limit keeps whole runes, from both ends
\* without overlap, and fits the limit together with the marker.
THEOREM EveryEvidenceFaithful ==
  ASSUME NEW text \in Seq(Bytes), NEW limit \in Int
  PROVE  EvidenceFaithful(text, limit)
<1> DEFINE n == Len(text)
           budget == limit - Marker
           first == (budget * 2) \div 3
           lastStart == n - (budget - first)
           fronts == {i \in 0..first : i = 0 \/ RuneStart(text[i + 1])}
           backs == {i \in lastStart..n : i = n \/ RuneStart(text[i + 1])}
           e == boundedEvidence(text, limit)
<1>1. n \in Nat /\ Marker \in Nat
  BY CutsAssumption
<1>2. CASE n <= limit
  <2>1. e = Whole(text)
    BY <1>2 DEF boundedEvidence
  <2>2. IsCut(text, Whole(text)) /\ ~Whole(text).cut
    BY <1>1 DEF IsCut, Whole, Boundary
  <2>3. ~(n > limit)
    BY <1>1, <1>2
  <2> QED
    BY <2>1, <2>2, <2>3, Zenon DEF EvidenceFaithful
<1>3. CASE ~(n <= limit) /\ limit <= Marker
  <2> DEFINE c == [front |-> 0, back |-> n, cut |-> TRUE]
  <2>1. e = c
    BY <1>3 DEF boundedEvidence
  <2>2. IsCut(text, c)
    BY <1>1 DEF IsCut, Boundary
  <2>3. c.cut = TRUE /\ n > limit /\ ~(limit > Marker)
    BY <1>1, <1>3
  <2> HIDE DEF c
  <2> QED
    BY <2>1, <2>2, <2>3, Zenon DEF EvidenceFaithful
<1>4. CASE ~(n <= limit) /\ ~(limit <= Marker)
  <2> DEFINE f == Max(fronts)
             b == Min(backs)
             c == [front |-> f, back |-> b, cut |-> TRUE]
  <2>1. e = c
    BY <1>4 DEF boundedEvidence
  <2>2. budget \in Nat /\ budget # 0 /\ budget <= n /\ budget + Marker = limit /\ n > limit
    BY <1>1, <1>4
  <2> HIDE DEF budget
  <2>3. first \in Nat /\ first < budget
    BY <2>2, TwoThirds
  <2> HIDE DEF first
  <2>4. lastStart \in Nat /\ lastStart <= n /\ first <= lastStart /\ n - lastStart = budget - first
    BY <1>1, <2>2, <2>3
  <2>5. f \in fronts
    <3>1. 0 \in fronts
      BY <2>3
    <3>2. fronts \in SUBSET Nat /\ \A x \in fronts : x <= first
      BY <2>3
    <3> QED
      BY <2>3, <3>1, <3>2, Greatest
  <2>6. b \in backs
    <3>1. backs \in SUBSET Nat /\ backs # {}
      BY <1>1, <2>4
    <3> QED
      BY <3>1, LeastIsMin
  <2>7. f \in Nat /\ f <= first /\ Boundary(text, f)
    BY <2>3, <2>5 DEF Boundary
  <2>8. b \in Nat /\ lastStart <= b /\ b <= n /\ Boundary(text, b)
    BY <1>1, <2>4, <2>6 DEF Boundary
  <2> HIDE DEF lastStart, f, b
  <2>9. f \in 0..b /\ b \in 0..n
    BY <1>1, <2>3, <2>4, <2>7, <2>8
  <2>10. f + (n - b) + Marker <= limit
    BY <1>1, <2>2, <2>3, <2>4, <2>7, <2>8
  <2>11. c.front = f /\ c.back = b /\ c.cut = TRUE
    OBVIOUS
  <2> HIDE DEF c
  <2>12. IsCut(text, c)
    BY <2>7, <2>8, <2>9, <2>11, Zenon DEF IsCut
  <2> QED
    BY <2>1, <2>2, <2>10, <2>11, <2>12, Zenon DEF EvidenceFaithful
<1> QED
  BY <1>2, <1>3, <1>4

\* In a valid text every byte belongs to a rune, the last one that starts at
\* or before it.
LEMMA RuneOfByte ==
  ASSUME NEW text \in Seq(Bytes), ValidText(text), NEW i \in DOMAIN text
  PROVE  /\ RuneOf(text, i) \in Starts(text) /\ RuneOf(text, i) <= i
         /\ \A s \in Starts(text) : s <= i => s <= RuneOf(text, i)
<1> DEFINE T == {s \in Starts(text) : s <= i}
<1>1. DOMAIN text = 1..Len(text) /\ Len(text) \in Nat /\ \A s \in Starts(text) : s \in Nat
  BY StartsInside
<1>2. i \in Nat /\ 1 \in DOMAIN text /\ 1 <= i
  BY <1>1
<1>3. text # <<>>
  BY <1>1, <1>2
<1>4. 1 \in T
  BY <1>2, <1>3 DEF ValidText, Starts
<1>5. T \in SUBSET Nat /\ \A x \in T : x <= i
  BY <1>1
<1>6. Max(T) \in T /\ \A y \in T : y <= Max(T)
  BY <1>2, <1>4, <1>5, Greatest
<1>7. RuneOf(text, i) = Max(T)
  BY DEF RuneOf
<1> QED
  BY <1>6, <1>7

\* A later byte belongs to the same rune or to a later one.
LEMMA RunesOrdered ==
  ASSUME NEW text \in Seq(Bytes), ValidText(text), NEW i \in DOMAIN text, NEW j \in DOMAIN text, j <= i
  PROVE  RuneOf(text, j) <= RuneOf(text, i)
<1>1. DOMAIN text = 1..Len(text) /\ Len(text) \in Nat /\ \A s \in Starts(text) : s \in Nat
  BY StartsInside
<1>2. RuneOf(text, j) \in Starts(text) /\ RuneOf(text, j) <= j
  BY RuneOfByte
<1>3. RuneOf(text, j) <= i
  BY <1>1, <1>2
<1> QED
  BY <1>2, <1>3, RuneOfByte

\* The sets of bytes that SanitizeUserAgent counts are finite.
LEMMA AgentCounts ==
  ASSUME NEW text \in Seq(Bytes), NEW s \in Nat
  PROVE  /\ IsFiniteSet(Before(text, s)) /\ Cardinality(Before(text, s)) \in Nat
         /\ IsFiniteSet(Through(text, s)) /\ Cardinality(Through(text, s)) \in Nat
<1>1. IsFiniteSet(1..Len(text)) /\ DOMAIN text = 1..Len(text)
  BY StartsInside, FS_Interval
<1>2. Before(text, s) \in SUBSET DOMAIN text /\ Through(text, s) \in SUBSET DOMAIN text
  BY DEF Before, Through, Printable
<1> QED
  BY <1>1, <1>2, FS_Subset, FS_CardinalityType

\* What is written up to a later rune is not less.
LEMMA AgentGrows ==
  ASSUME NEW text \in Seq(Bytes), ValidText(text), NEW s \in Starts(text), NEW t \in Starts(text), t <= s
  PROVE  /\ Cardinality(Before(text, t)) <= Cardinality(Before(text, s))
         /\ Cardinality(Through(text, t)) <= Cardinality(Through(text, s))
<1>1. \A x \in Starts(text) : x \in Nat
  BY StartsInside
<1>2. \A i \in Printable(text) : i \in DOMAIN text /\ i \in Nat /\ RuneOf(text, i) \in Nat
  BY <1>1, StartsInside, RuneOfByte DEF Printable
<1>3. \A i \in Printable(text) : /\ i < t => i < s
                                 /\ RuneOf(text, i) <= t => RuneOf(text, i) <= s
  BY <1>1, <1>2
<1>4. Before(text, t) \in SUBSET Before(text, s) /\ Through(text, t) \in SUBSET Through(text, s)
  BY <1>3 DEF Before, Through
<1> QED
  BY <1>1, <1>4, AgentCounts, FS_Subset

\* The User-Agent of an event, of any text: the longest prefix of its
\* printable runes that fits.
THEOREM EveryAgentFaithful ==
  ASSUME NEW text \in Seq(Bytes), NEW limit \in Nat
  PROVE  AgentFaithful(text, limit)
<1> DEFINE agent == SanitizeUserAgent(text, limit)
           written == {s \in Starts(text) : text[s] # "control" /\ Cardinality(Before(text, s)) < limit}
           left == {s \in written : Cardinality(Through(text, s)) <= limit}
<1>1. CASE ~ValidText(text)
  BY <1>1 DEF AgentFaithful, SanitizeUserAgent
<1>2. CASE ValidText(text)
  <2>1. agent = {i \in DOMAIN text : RuneOf(text, i) \in left}
    BY <1>2 DEF SanitizeUserAgent
  <2>2. /\ \A s \in Starts(text) : s \in DOMAIN text /\ s \in Nat
        /\ \A i \in DOMAIN text : i \in Nat
    BY StartsInside
  <2>3. \A s : s \in left <=> /\ s \in Starts(text) /\ text[s] # "control"
                              /\ Cardinality(Before(text, s)) < limit
                              /\ Cardinality(Through(text, s)) <= limit
    OBVIOUS
  <2> HIDE DEF agent, written, left
  <2>4. agent \subseteq Printable(text)
    BY <2>1, <2>3 DEF Printable
  <2>5. Cardinality(agent) <= limit
    <3>1. CASE left = {}
      <4>1. agent = {}
        BY <2>1, <3>1
      <4> QED
        BY <4>1, FS_EmptySet
    <3>2. CASE left # {}
      <4>1. left \in SUBSET Nat /\ \A s \in left : s <= Len(text)
        BY <2>3, StartsInside
      <4>2. Max(left) \in left /\ \A s \in left : s <= Max(left)
        BY <3>2, <4>1, StartsInside, Greatest
      <4>3. agent \in SUBSET Through(text, Max(left))
        BY <2>1, <2>4, <4>2 DEF Through
      <4>4. Max(left) \in Nat /\ Cardinality(Through(text, Max(left))) <= limit
        BY <2>3, <4>1, <4>2
      <4>5. /\ IsFiniteSet(Through(text, Max(left)))
            /\ Cardinality(Through(text, Max(left))) \in Nat
        BY <4>4, AgentCounts
      <4>6. Cardinality(agent) \in Nat /\ Cardinality(agent) <= Cardinality(Through(text, Max(left)))
        BY <4>3, <4>5, FS_Subset, FS_CardinalityType
      <4> QED
        BY <4>4, <4>5, <4>6
    <3> QED
      BY <3>1, <3>2
  <2>6. ASSUME NEW i \in agent, NEW j \in Before(text, i)
        PROVE  j \in agent
    <3> DEFINE s == RuneOf(text, i)
               t == RuneOf(text, j)
    <3>1. i \in DOMAIN text /\ s \in left
      BY <2>1
    <3>2. j \in DOMAIN text /\ j < i /\ text[t] # "control"
      BY <2>6 DEF Before, Printable
    <3>3. j <= i
      BY <2>2, <3>1, <3>2
    <3>4. t <= s
      BY <1>2, <3>1, <3>2, <3>3, RunesOrdered
    <3>5. s \in Starts(text) /\ t \in Starts(text)
      BY <1>2, <3>1, <3>2, RuneOfByte
    <3> HIDE DEF s, t
    <3>6. /\ Cardinality(Before(text, t)) <= Cardinality(Before(text, s))
          /\ Cardinality(Through(text, t)) <= Cardinality(Through(text, s))
      BY <1>2, <3>4, <3>5, AgentGrows
    <3>7. /\ Cardinality(Before(text, s)) < limit /\ Cardinality(Through(text, s)) <= limit
      BY <2>3, <3>1
    <3>8. s \in Nat /\ t \in Nat
      BY <2>2, <3>5
    <3>9. /\ Cardinality(Before(text, t)) \in Nat /\ Cardinality(Before(text, s)) \in Nat
          /\ Cardinality(Through(text, t)) \in Nat /\ Cardinality(Through(text, s)) \in Nat
      BY <3>8, AgentCounts
    <3>10. Cardinality(Before(text, t)) < limit /\ Cardinality(Through(text, t)) <= limit
      BY <3>6, <3>7, <3>9
    <3>11. t \in left
      BY <2>3, <3>2, <3>5, <3>10
    <3> QED
      BY <2>1, <3>2, <3>11 DEF t
  <2>7. ASSUME NEW s \in Starts(text), s \in Printable(text), s \notin agent
        PROVE  Cardinality(Through(text, s)) > limit
    <3>1. s \in DOMAIN text /\ s \in Nat
      BY <2>2
    <3>2. RuneOf(text, s) = s
      <4>1. RuneOf(text, s) \in Starts(text) /\ RuneOf(text, s) <= s /\ s <= RuneOf(text, s)
        BY <1>2, <3>1, RuneOfByte
      <4> QED
        BY <2>2, <4>1
    <3>3. text[s] # "control" /\ s \notin left
      BY <2>1, <2>7, <3>1, <3>2 DEF Printable
    <3>4. /\ Cardinality(Before(text, s)) \in Nat /\ Cardinality(Through(text, s)) \in Nat
          /\ IsFiniteSet(Before(text, s)) /\ IsFiniteSet(Through(text, s))
      BY <3>1, AgentCounts
    <3>5. CASE ~(Cardinality(Before(text, s)) < limit)
      <4>1. s \notin Before(text, s)
        BY <3>1 DEF Before
      <4>2. \A i \in Printable(text) : i < s => RuneOf(text, i) <= s
        <5>1. \A i \in Printable(text) : RuneOf(text, i) \in Starts(text) /\ RuneOf(text, i) <= i /\ i \in DOMAIN text
          BY <1>2, RuneOfByte DEF Printable
        <5> QED
          BY <2>2, <3>1, <5>1
      <4>3. s <= s
        BY <3>1
      <4>4. Before(text, s) \cup {s} \in SUBSET Through(text, s)
        BY <2>7, <3>2, <4>2, <4>3 DEF Before, Through
      <4>5. Cardinality(Before(text, s) \cup {s}) = Cardinality(Before(text, s)) + 1
        BY <3>4, <4>1, FS_AddElement
      <4>6. Cardinality(Before(text, s) \cup {s}) <= Cardinality(Through(text, s))
        BY <3>4, <4>4, FS_Subset
      <4> QED
        BY <3>4, <3>5, <4>5, <4>6
    <3>6. CASE Cardinality(Before(text, s)) < limit
      <4>1. ~(Cardinality(Through(text, s)) <= limit)
        BY <2>3, <3>3, <3>6
      <4> QED
        BY <3>4, <4>1
    <3> QED
      BY <3>5, <3>6
  <2>8. \A i \in agent : Before(text, i) \subseteq agent
    BY <2>6
  <2>9. \A s \in (Starts(text) \cap Printable(text)) \ agent : Cardinality(Through(text, s)) > limit
    BY <2>7
  <2> QED
    BY <1>2, <2>4, <2>5, <2>8, <2>9, Zenon DEF AgentFaithful, agent
<1> QED
  BY <1>1, <1>2

-----------------------------------------------------------------------------
(***************************************************************************)
(* The verdict of a review.                                                *)
(***************************************************************************)

\* Every field is there, and once.
Complete(object) ==
  /\ \A i, j \in DOMAIN object : object[i].key = object[j].key => i = j
  /\ \A k \in Required : \E i \in DOMAIN object : object[i].key = k

\* The values an object gives a field.
ValuesOf(object, k) == {object[i].value : i \in {j \in DOMAIN object : object[j].key = k}}

\* The reader takes the value of the only field with a key.
LEMMA OnlyField ==
  ASSUME NEW object, Complete(object), NEW k \in Required
  PROVE  ValuesOf(object, k) = {Field(object, k).value}
<1> DEFINE i == CHOOSE x \in DOMAIN object : object[x].key = k
<1>1. i \in DOMAIN object /\ object[i].key = k
  BY DEF Complete
<1>2. Field(object, k) = object[i]
  BY DEF Field
<1> HIDE DEF i
<1>3. {j \in DOMAIN object : object[j].key = k} = {i}
  BY <1>1 DEF Complete
<1> QED
  BY <1>2, <1>3 DEF ValuesOf

\* A verdict decoded from a complete object is valid and made of its fields.
LEMMA DecodedFields ==
  ASSUME NEW object, Complete(object), NEW types, Decoded(object, types) # Refused
  PROVE  /\ Valid(Decoded(object, types))
         /\ \A k \in Required : ValuesOf(object, k) = {Decoded(object, types)[k]}
<1> DEFINE v == [k \in Required |-> Field(object, k).value]
<1>1. Decoded(object, types) = v /\ Valid(v)
  BY Zenon DEF Decoded
<1>2. \A k \in Required : v[k] = Field(object, k).value
  OBVIOUS
<1> HIDE DEF v
<1> QED
  BY <1>1, <1>2, OnlyField, Zenon

\* A verdict has four fields (parseStrictAIVerdict).
LEMMA FourRequired == IsFiniteSet(Required) /\ Cardinality(Required) = 4
<1> DEFINE A == {"result"}
           B == A \cup {"confidence"}
           C == B \cup {"reason"}
           D == C \cup {"category"}
<1>1. IsFiniteSet(A) /\ Cardinality(A) = 1
  BY FS_Singleton
<1>2. "confidence" \notin A /\ "reason" \notin B /\ "category" \notin C
  OBVIOUS
<1>3. D = Required
  BY DEF Required
<1> HIDE DEF A, B, C, D
<1>4. IsFiniteSet(B) /\ Cardinality(B) = 2
  BY <1>1, <1>2, FS_AddElement DEF B
<1>5. IsFiniteSet(C) /\ Cardinality(C) = 3
  BY <1>2, <1>4, FS_AddElement DEF C
<1>6. IsFiniteSet(D) /\ Cardinality(D) = 4
  BY <1>2, <1>5, FS_AddElement DEF D
<1> QED
  BY <1>3, <1>6

\* Four fields with different keys out of four required ones are all of them.
LEMMA StrictIsComplete ==
  ASSUME NEW object \in Seq(Pairs), parseStrict(object) # Refused
  PROVE  Complete(object) /\ parseStrict(object) = Decoded(object, {"number"})
<1>1. /\ \A i \in DOMAIN object : object[i].key \in Required
      /\ \A i, j \in DOMAIN object : object[i].key = object[j].key => i = j
      /\ Len(object) = 4
      /\ parseStrict(object) = Decoded(object, {"number"})
  BY Zenon DEF parseStrict
<1> DEFINE f == [i \in 1..4 |-> object[i].key]
<1>2. DOMAIN object = 1..4
  BY <1>1
<1>3. f \in [1..4 -> Required] /\ \A i, j \in 1..4 : f[i] = f[j] => i = j
  BY <1>1, <1>2
<1>4. \A i \in 1..4 : f[i] = object[i].key
  OBVIOUS
<1> HIDE DEF f
<1>5. f \in Injection(1..4, Required)
  BY <1>3 DEF Injection, IsInjective
<1>6. IsFiniteSet(1..4) /\ Cardinality(1..4) = 4
  <2>1. IsFiniteSet(1..4) /\ Cardinality(1..4) = IF 1 > 4 THEN 0 ELSE 4 - 1 + 1
    BY FS_Interval, 1 \in Int, 4 \in Int
  <2> QED
    BY <2>1
<1>7. f \in Surjection(1..4, Required)
  BY <1>5, <1>6, FourRequired, FS_Injection
<1>8. \A k \in Required : \E i \in 1..4 : f[i] = k
  BY <1>7 DEF Surjection
<1>9. \A k \in Required : \E i \in DOMAIN object : object[i].key = k
  BY <1>2, <1>4, <1>8
<1> QED
  BY <1>1, <1>9, Zenon DEF Complete

\* The compatible reader agrees with the strict one and gives each field the
\* only value it has, for objects of any size.
THEOREM EveryReadingFaithful ==
  ASSUME NEW object \in Seq(Pairs)
  PROVE  ReadingFaithful(object)
<1> DEFINE verdict == parseCompatible(object)
<1>1. parseStrict(object) # Refused => verdict = parseStrict(object)
  BY Zenon DEF parseCompatible
<1> HIDE DEF verdict
<1>2. ASSUME verdict # Refused
      PROVE  Valid(verdict) /\ \A k \in Required : ValuesOf(object, k) = {verdict[k]}
  <2>1. CASE parseStrict(object) # Refused
    <3>1. Complete(object) /\ verdict = Decoded(object, {"number"})
      BY <1>1, <2>1, StrictIsComplete, Zenon
    <3> QED
      BY <1>2, <3>1, DecodedFields
  <2>2. CASE parseStrict(object) = Refused
    <3>1. Complete(object) /\ verdict = Decoded(object, {"number", "numeral"})
      BY <1>2, <2>2, Zenon DEF verdict, parseCompatible, Complete
    <3> QED
      BY <1>2, <3>1, DecodedFields
  <2> QED
    BY <2>1, <2>2
<1> QED
  BY <1>1, <1>2, Zenon DEF ReadingFaithful, ValuesOf, verdict

\* Whatever a provider answers to the three formats, the verdict is that of
\* the first format it understands, or there is none.
THEOREM EveryReviewFaithful ==
  ASSUME NEW provider \in [ToSet(Formats) -> [status : Int, verdict : [Required -> STRING]]]
  PROVE  ReviewFaithful(provider)
<1> DEFINE answer(i) == provider[Formats[i]]
           understood == {i \in 1..3 : ~Fallback(answer(i).status)}
           outcome == Review(provider)
           error(i) == reviewWithFormat(answer(i)).error
           fell(i) == Fallback(answer(i).status)
           good(i) == answer(i).status \in 200..299 /\ answer(i).verdict # Refused
           last == IF ~fell(1) THEN 1 ELSE IF ~fell(2) THEN 2 ELSE 3
           success(i) == /\ understood # {} /\ i = Min(understood)
                         /\ answer(i).status \in 200..299 /\ answer(i).verdict # Refused
<1>1. ASSUME NEW i
      PROVE  /\ reviewWithFormat(answer(i)).status = answer(i).status
             /\ error(i) = "none" <=> good(i)
             /\ fell(i) => error(i) # "none"
  <2>1. reviewWithFormat(answer(i)).status = answer(i).status
    BY DEF reviewWithFormat
  <2>2. error(i) = "none" <=> answer(i).status # 0 /\ answer(i).status \in 200..299 /\ answer(i).verdict # Refused
    BY DEF reviewWithFormat
  <2>3. ~(0 \in 200..299)
    OBVIOUS
  <2>4. fell(i) => ~(answer(i).status \in 200..299)
    BY DEF Fallback
  <2> QED
    BY <2>1, <2>2, <2>3, <2>4, Zenon
<1>2. /\ outcome.tried = last /\ outcome.error = error(last)
      /\ outcome.verdict = IF error(last) = "none" THEN answer(last).verdict ELSE Refused
  BY <1>1, Zenon DEF Review
<1>3. last \in 1..3 /\ (understood # {} => last = Min(understood) /\ ~fell(last))
  <2>1. ASSUME understood # {} PROVE Min(understood) \in understood /\ \A i \in understood : Min(understood) <= i
    <3>1. understood \in SUBSET Nat
      OBVIOUS
    <3> HIDE DEF understood
    <3> QED
      BY <2>1, <3>1, LeastIsMin
  <2>2. 1..3 = {1, 2, 3}
    OBVIOUS
  <2> QED
    BY <2>1, <2>2
<1>4. understood = {} => fell(last)
  BY <1>3
<1> HIDE DEF outcome, understood, last, error
<1>5. \A i \in 1..3 : success(i) => i = last /\ good(last)
  BY <1>3, Zenon
<1>6. good(last) => success(last)
  BY <1>1, <1>3, <1>4, Zenon
<1>7. outcome.error = "none" <=> \E i \in 1..3 : success(i)
  BY <1>1, <1>2, <1>3, <1>5, <1>6, Zenon
<1>8. \A i \in 1..3 : success(i) => outcome.tried = i /\ outcome.verdict = answer(i).verdict
  BY <1>1, <1>2, <1>5, Zenon
<1>9. outcome.error # "none" => outcome.verdict = Refused
  BY <1>2, Zenon
<1> QED
  BY <1>7, <1>8, <1>9, Zenon DEF ReviewFaithful, outcome, understood

-----------------------------------------------------------------------------
(***************************************************************************)
(* The action and outcome of events.                                       *)
(***************************************************************************)

\* The migration and the program agree on every reason, listed or not; a
\* block needs a reason that no list of the migration names a bypass.
THEOREM EveryContractAgrees ==
  ASSUME NEW reason, NEW decision, decision = "block" => reason \notin BypassList
  PROVE  migrateEventContractV2(reason, decision) = DeriveEventContract(reason, decision = "block")
<1>1. /\ BypassList = Bypasses \cup BodyFailures
      /\ FailOpenList = FailsOpen \cup BodyFailures
  BY DEF BypassList, FailOpenList, Bypasses, BodyFailures, FailsOpen
<1>2. /\ Bypasses \cap BodyFailures = {} /\ Bypasses \cap FailsOpen = {}
      /\ BodyFailures \cap FailsOpen = {}
  BY DEF Bypasses, BodyFailures, FailsOpen
<1>3. CASE decision = "block"
  BY <1>3, Zenon DEF migrateEventContractV2, DeriveEventContract
<1>4. CASE decision # "block"
  <2>1. CASE reason \in Bypasses
    <3>1. reason \in BypassList /\ reason \notin FailOpenList
      BY <1>1, <1>2, <2>1
    <3>2. migrateEventContractV2(reason, decision) = <<"bypass", "allow">>
      BY <1>4, <3>1, Zenon DEF migrateEventContractV2
    <3>3. DeriveEventContract(reason, decision = "block") = <<"bypass", "allow">>
      BY <1>2, <1>4, <2>1 DEF DeriveEventContract
    <3> QED
      BY <3>2, <3>3
  <2>2. CASE reason \in BodyFailures
    <3>1. reason \in BypassList /\ reason \in FailOpenList /\ reason \notin Bypasses /\ reason \notin FailsOpen
      BY <1>1, <1>2, <2>2
    <3>2. migrateEventContractV2(reason, decision) = <<"bypass", "fail_open">>
      BY <1>4, <3>1, Zenon DEF migrateEventContractV2
    <3>3. DeriveEventContract(reason, decision = "block") = <<"bypass", "fail_open">>
      BY <1>4, <2>2, <3>1 DEF DeriveEventContract
    <3> QED
      BY <3>2, <3>3
  <2>3. CASE reason \in FailsOpen
    <3>1. reason \notin BypassList /\ reason \in FailOpenList /\ reason \notin Bypasses /\ reason \notin BodyFailures
      BY <1>1, <1>2, <2>3
    <3>2. migrateEventContractV2(reason, decision) = <<"audit", "fail_open">>
      BY <1>4, <3>1, Zenon DEF migrateEventContractV2
    <3>3. DeriveEventContract(reason, decision = "block") = <<"audit", "fail_open">>
      BY <1>4, <2>3, <3>1 DEF DeriveEventContract
    <3> QED
      BY <3>2, <3>3
  <2>4. CASE reason \notin Bypasses /\ reason \notin BodyFailures /\ reason \notin FailsOpen
    <3>1. reason \notin BypassList /\ reason \notin FailOpenList
      BY <1>1, <2>4
    <3>2. migrateEventContractV2(reason, decision) = <<"audit", "allow">>
      BY <1>4, <3>1, Zenon DEF migrateEventContractV2
    <3>3. DeriveEventContract(reason, decision = "block") = <<"audit", "allow">>
      BY <1>4, <2>4 DEF DeriveEventContract
    <3> QED
      BY <3>2, <3>3
  <2> QED
    BY <2>1, <2>2, <2>3, <2>4
<1> QED
  BY <1>3, <1>4

-----------------------------------------------------------------------------
(***************************************************************************)
(* The specification of the calls.                                         *)
(***************************************************************************)

\* The state holds no call yet, or one with an input of its set.
CallInv ==
  \/ call = "none"
  \/ call = "cut" /\ input \in Texts \X Sizes
  \/ call = "capture" /\ input \in Bodies
  \/ call = "read" /\ input \in Answers
  \/ call = "ask" /\ input \in Providers
  \/ call = "forward" /\ input \in Entries \X Chains
  \/ call = "migrate" /\ input \in OldEvents

\* A call has an input of its set.
LEMMA CallsTyped == InputsSpec => []CallInv
<1>1. InputsInit => CallInv
  BY DEF InputsInit, CallInv
<1>2. ASSUME CallInv, [InputsNext]_inputVars
      PROVE  CallInv'
  <2>1. CASE UNCHANGED inputVars
    BY <1>2, <2>1 DEF CallInv, inputVars
  <2>2. CASE InputsNext
    BY <2>2 DEF InputsNext, Call, Cut, Capture, Read, Ask, Forward, Migrate, CallInv
  <2> QED
    BY <1>2, <2>1, <2>2
<1> QED
  BY <1>1, <1>2, PTL DEF InputsSpec

\* Every cut of every text at every size is faithful (PrepareAISample,
\* boundedEvidence, SanitizeUserAgent).
THEOREM CutsAlwaysFaithful == InputsSpec => []CutsFaithful
<1>1. CallInv => CutsFaithful
  <2> SUFFICES ASSUME CallInv, call = "cut"
               PROVE  /\ SampleFaithful(input[1], input[2]) /\ EvidenceFaithful(input[1], input[2])
                      /\ input[2] >= 0 => AgentFaithful(input[1], input[2])
    BY DEF CutsFaithful
  <2>1. input[1] \in Seq(Bytes) /\ input[2] \in Int
    BY InputsAssumption DEF CallInv
  <2>2. input[2] >= 0 => input[2] \in Nat
    BY <2>1
  <2> QED
    BY <2>1, <2>2, EverySampleFaithful, EveryEvidenceFaithful, EveryAgentFaithful
<1> QED
  BY <1>1, CallsTyped, PTL

\* Every body reaches the upstream as it was delivered (captureBody).
THEOREM BodiesAlwaysReplayed == InputsSpec => []BodyReplayed
<1>1. CallInv => BodyReplayed
  <2> SUFFICES ASSUME CallInv, call = "capture"
               PROVE  Replayed(input.body, input.failAt, input.encoding, input.inflated,
                               input.corruptAt, input.limit)
    BY DEF BodyReplayed
  <2>1. Arriving(input)
    BY InputsAssumption DEF CallInv
  <2> QED
    BY <2>1, EveryBodyReplayed DEF Arriving
<1> QED
  BY <1>1, CallsTyped, PTL

\* Every object is read alike by both readers, and every review returns the
\* verdict of the first format understood (parseCompatibleAIVerdict, Review).
THEOREM VerdictsAlwaysAgree == InputsSpec => []VerdictAgrees
<1>1. CallInv => VerdictAgrees
  <2> SUFFICES ASSUME CallInv
               PROVE  (call = "read" => ReadingFaithful(input)) /\ (call = "ask" => ReviewFaithful(input))
    BY DEF VerdictAgrees
  <2>1. call = "read" => input \in Seq(Pairs)
    BY InputsAssumption DEF CallInv
  <2>2. call = "ask" => input \in [ToSet(Formats) -> [status : Int, verdict : [Required -> STRING]]]
    BY InputsAssumption DEF CallInv
  <2> QED
    BY <2>1, <2>2, EveryReadingFaithful, EveryReviewFaithful
<1> QED
  BY <1>1, CallsTyped, PTL

\* The upstream is told of no hop behind an untrusted one, for every chain, and
\* limits are charged to the client it is told of, for every chain of addresses
\* (setXForwarded, clientIP).
THEOREM AddressesAlwaysHonest == InputsSpec => []ClientAddressHonest
<1>1. CallInv => ClientAddressHonest
  <2> SUFFICES ASSUME CallInv, call = "forward"
               PROVE  AddressHonest(input[1], input[2])
    BY DEF ClientAddressHonest
  <2>1. input[1] \in Entries /\ input[2] \in Seq(Entries)
    BY InputsAssumption DEF CallInv
  <2> QED
    BY <2>1, ForwardedAddressHonest
<1> QED
  BY <1>1, CallsTyped, PTL

\* Old events are classified as new ones would be (migrateEventContractV2).
THEOREM ContractsAlwaysAgree == InputsSpec => []ContractAgrees
<1>1. CallInv => ContractAgrees
  <2> SUFFICES ASSUME CallInv, call = "migrate"
               PROVE  migrateEventContractV2(input[1], input[2]) =
                        DeriveEventContract(input[1], input[2] = "block")
    BY DEF ContractAgrees
  <2>1. input[2] = "block" => input[1] \in {"risk_hash_match", "ai_reject"}
    BY InputsAssumption DEF CallInv
  <2>2. input[2] = "block" => input[1] \notin BypassList
    BY <2>1 DEF BypassList
  <2> QED
    BY <2>2, EveryContractAgrees
<1> QED
  BY <1>1, CallsTyped, PTL
=============================================================================
