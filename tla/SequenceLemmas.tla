---- MODULE SequenceLemmas ----
(* What is left of the requests under way when one of them is answered. *)
EXTENDS Integers, SequencesExt, SequenceTheorems, TLAPS

\* The i-th request leaves; those behind it move up by one.
LEMMA RemoveAtProperties ==
    ASSUME NEW S, NEW s \in Seq(S), NEW i \in 1..Len(s)
    PROVE  /\ RemoveAt(s, i) \in Seq(S)
           /\ Len(RemoveAt(s, i)) = Len(s) - 1
           /\ \A j \in 1..(Len(s) - 1) : RemoveAt(s, i)[j] = IF j < i THEN s[j] ELSE s[j + 1]
<1> DEFINE front == SubSeq(s, 1, i - 1)
           back  == SubSeq(s, i + 1, Len(s))
<1>1. /\ front \in Seq(S) /\ Len(front) = i - 1
      /\ \A j \in 1..(i - 1) : front[j] = s[j]
  <2>1. \A j \in 1..(i - 1) : s[j] \in S  OBVIOUS
  <2> QED  BY <2>1, SubSeqProperties
<1>2. /\ back \in Seq(S) /\ Len(back) = Len(s) - i
      /\ \A j \in 1..(Len(s) - i) : back[j] = s[i + j]
  <2>1. \A j \in (i + 1)..Len(s) : s[j] \in S  OBVIOUS
  <2> HIDE DEF back
  <2>2. /\ SubSeq(s, i + 1, Len(s)) \in Seq(S)
        /\ Len(SubSeq(s, i + 1, Len(s))) = IF i + 1 <= Len(s) THEN Len(s) - (i + 1) + 1 ELSE 0
        /\ \A j \in 1..(Len(s) - (i + 1) + 1) : SubSeq(s, i + 1, Len(s))[j] = s[(i + 1) + j - 1]
    BY <2>1, SubSeqProperties
  <2> QED  BY <2>2 DEF back
<1> HIDE DEF front, back
<1>3. RemoveAt(s, i) = front \o back  BY DEF RemoveAt, front, back
<1>4. /\ front \o back \in Seq(S)
      /\ Len(front \o back) = (i - 1) + (Len(s) - i)
      /\ \A j \in 1..((i - 1) + (Len(s) - i)) :
            (front \o back)[j] = IF j <= i - 1 THEN front[j] ELSE back[j - (i - 1)]
  <2>1. /\ front \o back \in Seq(S)
        /\ Len(front \o back) = Len(front) + Len(back)
        /\ \A j \in 1..(Len(front) + Len(back)) :
              (front \o back)[j] = IF j <= Len(front) THEN front[j] ELSE back[j - Len(front)]
    BY <1>1, <1>2, ConcatProperties
  <2>2. Len(front) = i - 1 /\ Len(back) = Len(s) - i  BY <1>1, <1>2
  <2> QED  BY ONLY <2>1, <2>2
<1> QED  BY <1>1, <1>2, <1>3, <1>4

\* The same as each request sees it.
LEMMA RemoveAtElements ==
    ASSUME NEW S, NEW s \in Seq(S), NEW i \in 1..Len(s)
    PROVE  /\ \A j \in DOMAIN RemoveAt(s, i) : \E k \in DOMAIN s : k # i /\ RemoveAt(s, i)[j] = s[k]
           /\ \A k \in DOMAIN s : k # i => \E j \in DOMAIN RemoveAt(s, i) : RemoveAt(s, i)[j] = s[k]
           /\ \A j, k \in DOMAIN RemoveAt(s, i) : j # k =>
                \E m, n \in DOMAIN s : m # n /\ RemoveAt(s, i)[j] = s[m] /\ RemoveAt(s, i)[k] = s[n]
<1> DEFINE r == RemoveAt(s, i)
           At(j) == IF j < i THEN j ELSE j + 1
<1>1. r \in Seq(S) /\ Len(r) = Len(s) - 1  BY RemoveAtProperties
<1>2. \A j \in 1..(Len(s) - 1) : r[j] = s[At(j)]  BY RemoveAtProperties
<1> HIDE DEF r
<1>3. DOMAIN r = 1..(Len(s) - 1) /\ DOMAIN s = 1..Len(s) /\ Len(s) \in Nat  BY <1>1
<1>4. \A j \in DOMAIN r : At(j) \in DOMAIN s /\ At(j) # i  BY <1>3
<1>5. \A j, k \in DOMAIN r : j # k => At(j) # At(k)  BY <1>3
<1>6. \A k \in DOMAIN s : k # i => \E j \in DOMAIN r : At(j) = k
  <2> SUFFICES ASSUME NEW k \in DOMAIN s, k # i PROVE \E j \in DOMAIN r : At(j) = k  OBVIOUS
  <2>1. CASE k < i  BY <2>1, <1>3
  <2>2. CASE k > i
    <3>1. k - 1 \in DOMAIN r /\ At(k - 1) = k  BY <2>2, <1>3
    <3> QED  BY <3>1
  <2> QED  BY <2>1, <2>2, <1>3
<1> HIDE DEF At
<1>7. /\ \A j \in DOMAIN r : \E k \in DOMAIN s : k # i /\ r[j] = s[k]
      /\ \A k \in DOMAIN s : k # i => \E j \in DOMAIN r : r[j] = s[k]
      /\ \A j, k \in DOMAIN r : j # k => \E m, n \in DOMAIN s : m # n /\ r[j] = s[m] /\ r[k] = s[n]
  BY <1>2, <1>3, <1>4, <1>5, <1>6
<1> QED  BY <1>7 DEF r

\* A request that is made comes last and leaves the others as they are.
LEMMA AppendElements ==
    ASSUME NEW S, NEW s \in Seq(S), NEW e \in S
    PROVE  /\ Append(s, e) \in Seq(S) /\ Len(Append(s, e)) = Len(s) + 1
           /\ \A j \in DOMAIN Append(s, e) :
                IF j \in DOMAIN s THEN Append(s, e)[j] = s[j] ELSE j = Len(s) + 1 /\ Append(s, e)[j] = e
           /\ \A j \in DOMAIN s : j \in DOMAIN Append(s, e) /\ Append(s, e)[j] = s[j]
  BY AppendProperties
====
