---------------------------- MODULE GreedyProofs ----------------------------
(***************************************************************************)
(* Facts about greedy texts, used for both collections: committing tokens  *)
(* that are the target's choices keeps a text greedy, and what follows the *)
(* prompt in a greedy text is what Greedy may have decoded.                *)
(***************************************************************************)
EXTENDS Greedy, SequenceTheorems, TLAPS

CONSTANT Vocab   \* token ids

\* s is the prompt p followed by the target's greedy choices.
GreedyText(p, s) ==
  /\ Len(p) <= Len(s)
  /\ \A i \in 1..Len(p) : s[i] = p[i]
  /\ \A i \in (Len(p) + 1)..Len(s) : s[i] = Argmax(SubSeq(s, 1, i - 1))

-----------------------------------------------------------------------------
\* A prefix of s is a prefix of s \o c.
LEMMA PrefixOfConcat ==
  ASSUME NEW s \in Seq(Vocab), NEW c \in Seq(Vocab), NEW i \in 0..Len(s)
  PROVE  SubSeq(s \o c, 1, i) = SubSeq(s, 1, i)
OBVIOUS

\* A longer prefix of s \o c is s and a prefix of c.
LEMMA LongPrefixOfConcat ==
  ASSUME NEW s \in Seq(Vocab), NEW c \in Seq(Vocab), NEW k \in 0..Len(c)
  PROVE  SubSeq(s \o c, 1, Len(s) + k) = s \o SubSeq(c, 1, k)
OBVIOUS

\* Committing tokens that are each the target's choice keeps the text greedy.
LEMMA ExtendGreedy ==
  ASSUME NEW p \in Seq(Vocab), NEW s \in Seq(Vocab), NEW c \in Seq(Vocab),
         GreedyText(p, s),
         \A j \in 1..Len(c) : c[j] = Argmax(s \o SubSeq(c, 1, j - 1))
  PROVE  GreedyText(p, s \o c)
<1>1. /\ Len(s \o c) = Len(s) + Len(c) /\ Len(s) \in Nat /\ Len(c) \in Nat
      /\ Len(p) \in Nat
  OBVIOUS
<1>2. ASSUME NEW i \in (Len(p) + 1)..Len(s \o c)
      PROVE  (s \o c)[i] = Argmax(SubSeq(s \o c, 1, i - 1))
  <2>1. CASE i <= Len(s)
    <3>1. (s \o c)[i] = s[i]
      BY <1>1, <2>1
    <3>2. SubSeq(s \o c, 1, i - 1) = SubSeq(s, 1, i - 1)
      BY <1>1, <2>1, PrefixOfConcat
    <3>3. i \in (Len(p) + 1)..Len(s)
      BY <1>1, <2>1
    <3>4. s[i] = Argmax(SubSeq(s, 1, i - 1))
      BY <3>3 DEF GreedyText
    <3>. QED  BY <3>1, <3>2, <3>4
  <2>2. CASE i > Len(s)
    <3>. DEFINE j == i - Len(s)
    <3>1. j \in 1..Len(c) /\ (s \o c)[i] = c[j]
      BY <1>1, <2>2
    <3>2. SubSeq(s \o c, 1, Len(s) + (j - 1)) = s \o SubSeq(c, 1, j - 1)
      BY <3>1, LongPrefixOfConcat
    <3>3. Len(s) + (j - 1) = i - 1
      BY <1>1
    <3>. QED  BY <3>1, <3>2, <3>3
  <2>. QED  BY <1>1, <2>1, <2>2
<1>. QED  BY <1>1, <1>2 DEF GreedyText

\* What SubSeq leaves of a text after its first k tokens.
LEMMA TailOf ==
  ASSUME NEW s \in Seq(Vocab), NEW k \in 0..Len(s)
  PROVE  /\ SubSeq(s, k + 1, Len(s)) \in Seq(Vocab)
         /\ Len(SubSeq(s, k + 1, Len(s))) = Len(s) - k
         /\ \A i \in 1..(Len(s) - k) : SubSeq(s, k + 1, Len(s))[i] = s[k + i]
OBVIOUS

\* A greedy text's continuation is what Greedy calls greedy.
LEMMA TailGreedy ==
  ASSUME NEW p \in Seq(Vocab), NEW s \in Seq(Vocab), GreedyText(p, s)
  PROVE  GreedyFrom(p, SubSeq(s, Len(p) + 1, Len(s)))
<1>. DEFINE g == SubSeq(s, Len(p) + 1, Len(s))
<1>1. /\ g \in Seq(Vocab) /\ Len(g) = Len(s) - Len(p)
      /\ \A i \in 1..Len(g) : g[i] = s[Len(p) + i]
  BY DEF GreedyText
<1>2. ASSUME NEW i \in 1..Len(g)
      PROVE  p \o SubSeq(g, 1, i - 1) = SubSeq(s, 1, Len(p) + i - 1)
  <2>. DEFINE l == p \o SubSeq(g, 1, i - 1)
              r == SubSeq(s, 1, Len(p) + i - 1)
  <2>1. l \in Seq(Vocab) /\ r \in Seq(Vocab)
        /\ Len(l) = Len(p) + i - 1 /\ Len(r) = Len(p) + i - 1
    BY <1>1
  <2>2. ASSUME NEW k \in 1..Len(l) PROVE l[k] = r[k]
    <3>1. r[k] = s[k]
      BY <2>1, <1>1
    <3>2. CASE k <= Len(p)
      BY <2>1, <3>1, <3>2 DEF GreedyText
    <3>3. CASE k > Len(p)
      <4>1. l[k] = g[k - Len(p)]
        <5>1. l = p \o SubSeq(g, 1, i - 1) /\ k - Len(p) \in 1..(i - 1)
          BY <1>1, <2>1, <3>3
        <5>2. l[k] = SubSeq(g, 1, i - 1)[k - Len(p)]
          <6>. DEFINE q == SubSeq(g, 1, i - 1)
          <6>1. q \in Seq(Vocab) /\ k \in 1..(Len(p) + Len(q)) /\ Len(p) \in Nat
            BY <1>1, <2>1
          <6>. HIDE DEF q
          <6>2. (p \o q)[k] = q[k - Len(p)]
            BY <6>1, <3>3
          <6>. QED  BY <5>1, <6>2 DEF q
        <5>3. SubSeq(g, 1, i - 1)[k - Len(p)] = g[k - Len(p)]
          <6>. HIDE DEF g
          <6>. QED  BY <1>1, <5>1
        <5>. QED  BY <5>2, <5>3
      <4>. QED  BY <1>1, <2>1, <3>1, <3>3, <4>1
    <3>. QED  BY <2>1, <3>2, <3>3
  <2>. QED  BY <2>1, <2>2, SeqEqual
<1>3. ASSUME NEW i \in 1..Len(g)
      PROVE  g[i] = Argmax(p \o SubSeq(g, 1, i - 1))
  <2>1. Len(p) + i \in (Len(p) + 1)..Len(s)
    BY <1>1
  <2>2. s[Len(p) + i] = Argmax(SubSeq(s, 1, (Len(p) + i) - 1))
    BY <2>1 DEF GreedyText
  <2>3. g[i] = s[Len(p) + i]
    BY <1>1
  <2>4. p \o SubSeq(g, 1, i - 1) = SubSeq(s, 1, (Len(p) + i) - 1)
    BY <1>2
  <2>. HIDE DEF g
  <2>. QED  BY <2>2, <2>3, <2>4
<1>. QED  BY <1>3 DEF GreedyFrom

\* Committing at least one token to a greedy text is a decoding step.
LEMMA TailGrows ==
  ASSUME NEW p \in Seq(Vocab), NEW s \in Seq(Vocab), NEW c \in Seq(Vocab),
         Len(c) >= 1, Len(p) <= Len(s)
  PROVE  LET g == SubSeq(s, Len(p) + 1, Len(s))
             h == SubSeq(s \o c, Len(p) + 1, Len(s \o c))
         IN  Len(h) > Len(g) /\ Prefix(g, h)
<1>. DEFINE g == SubSeq(s, Len(p) + 1, Len(s))
            tt == s \o c
            h == SubSeq(tt, Len(p) + 1, Len(tt))
<1>1. /\ Len(p) \in Nat /\ Len(s) \in Nat /\ Len(c) \in Nat
      /\ tt \in Seq(Vocab) /\ Len(tt) = Len(s) + Len(c)
      /\ \A i \in 1..Len(s) : tt[i] = s[i]
  OBVIOUS
<1>. HIDE DEF tt
<1>2. Len(g) = Len(s) - Len(p) /\ \A i \in 1..Len(g) : g[i] = s[Len(p) + i]
  BY <1>1, TailOf
<1>3. Len(h) = Len(tt) - Len(p) /\ \A i \in 1..Len(h) : h[i] = tt[Len(p) + i]
  <2>1. Len(p) \in 0..Len(tt)
    BY <1>1
  <2>2. /\ Len(h) = Len(tt) - Len(p)
        /\ \A i \in 1..(Len(tt) - Len(p)) : h[i] = tt[Len(p) + i]
    BY <1>1, <2>1, TailOf
  <2>. HIDE DEF h
  <2>. QED  BY <2>2
<1>. HIDE DEF g, h
<1>4. Len(h) > Len(g) /\ Len(g) <= Len(h)
  BY <1>1, <1>2, <1>3
<1>5. ASSUME NEW i \in 1..Len(g) PROVE g[i] = h[i]
  <2>1. i \in 1..Len(h) /\ Len(p) + i \in 1..Len(s)
    BY <1>1, <1>2, <1>3
  <2>. QED  BY <1>1, <1>2, <1>3, <2>1
<1>. QED  BY <1>4, <1>5 DEF Prefix, g, h, tt
=============================================================================
