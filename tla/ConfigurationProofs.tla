------------------------ MODULE ConfigurationProofs ------------------------
(***************************************************************************)
(* Proofs about Configuration, for every environment.                      *)
(***************************************************************************)
EXTENDS Configuration, FiniteSetTheorems, WellFoundedInduction, TLAPS

\* Min is the least element.
LEMMA MinFacts ==
    ASSUME NEW S \in SUBSET Nat, S # {}
    PROVE  Min(S) \in S /\ \A c \in S : Min(S) <= c
  <1> DEFINE R == OpToRel(<, Nat)
  <1>1. PICK b \in S : \A c \in S : ~(<<c, b>> \in R)
    BY NatLessThanWellFounded, WFMin
  <1>2. \A c \in S : ~(c < b)
    BY <1>1 DEF OpToRel
  <1>3. \A c \in S : b <= c
    BY <1>2
  <1> QED BY <1>3 DEF Min

LEMMA LookupFacts ==
    ASSUME NEW name, loaded \in Seq(Range(loaded))
    PROVE  LET I == {i \in DOMAIN loaded : loaded[i].name = name}
           IN  /\ I = {} => FirstNamed(name) = 0
               /\ I # {} => FirstNamed(name) \in I /\ \A i \in I : FirstNamed(name) <= i
  <1> DEFINE I == {i \in DOMAIN loaded : loaded[i].name = name}
  <1>1. DOMAIN loaded = 1..Len(loaded) /\ I \in SUBSET Nat
    OBVIOUS
  <1>2. FirstNamed(name) = IF I # {} THEN Min(I) ELSE 0
    BY <1>1 DEF FirstNamed, SelectInSeq
  <1> QED BY <1>1, <1>2, MinFacts

(***************************************************************************)
(* The loops that skip: Kept lists the elements at the indices I, each     *)
(* once and in order.                                                      *)
(***************************************************************************)
Nth(I) ==
    [n \in 1..Cardinality(I) |-> CHOOSE i \in I : Cardinality({j \in I : j <= i}) = n]

LEMMA KeptFacts ==
    ASSUME NEW s, NEW I \in SUBSET Nat, IsFiniteSet(I)
    PROVE  /\ Cardinality(I) \in Nat
           /\ Nth(I) \in [1..Cardinality(I) -> I]
           /\ Kept(s, I) = [n \in 1..Cardinality(I) |-> s[Nth(I)[n]]]
           /\ \A m, n \in 1..Cardinality(I) : m < n => Nth(I)[m] < Nth(I)[n]
           /\ \A i \in I : \E n \in 1..Cardinality(I) : Nth(I)[n] = i
  <1> DEFINE c == Cardinality(I)
             upto(i) == {j \in I : j <= i}
             place == [i \in I |-> Cardinality(upto(i))]
             e == Nth(I)
  <1>1. c \in Nat
    BY FS_CardinalityType
  <1>2. \A i \in I : IsFiniteSet(upto(i)) /\ Cardinality(upto(i)) \in 1..c
    <2> TAKE i \in I
    <2>1. upto(i) \in SUBSET I /\ i \in upto(i)
      OBVIOUS
    <2>2. IsFiniteSet(upto(i)) /\ Cardinality(upto(i)) <= c
      BY <2>1, FS_Subset
    <2>3. Cardinality(upto(i)) \in Nat /\ Cardinality(upto(i)) # 0
      BY <2>1, <2>2, FS_CardinalityType, FS_EmptySet
    <2> QED BY <1>1, <2>2, <2>3
  <1>3. \A i, j \in I : i < j => Cardinality(upto(i)) < Cardinality(upto(j))
    <2> SUFFICES ASSUME NEW i \in I, NEW j \in I, i < j
                 PROVE  Cardinality(upto(i)) < Cardinality(upto(j))
      OBVIOUS
    <2>1. upto(i) \in SUBSET upto(j) /\ j \in upto(j) /\ j \notin upto(i)
      <3>1. i \in Nat /\ j \in Nat /\ \A k \in I : k \in Nat /\ (k <= i => k <= j)
        OBVIOUS
      <3>2. \A k \in upto(i) : k \in upto(j)
        BY <3>1
      <3>3. j \in upto(j) /\ j \notin upto(i)
        BY <3>1
      <3> QED BY <3>2, <3>3
    <2>2. upto(i) # upto(j)
      BY <2>1
    <2>3. Cardinality(upto(i)) <= Cardinality(upto(j))
          /\ Cardinality(upto(j)) # Cardinality(upto(i))
      BY <1>2, <2>1, <2>2, FS_Subset
    <2> QED BY <1>1, <1>2, <2>3
  <1>4. \A i, j \in I : Cardinality(upto(i)) = Cardinality(upto(j)) => i = j
    <2> SUFFICES ASSUME NEW i \in I, NEW j \in I, i # j
                 PROVE  Cardinality(upto(i)) # Cardinality(upto(j))
      OBVIOUS
    <2>1. i < j \/ j < i
      OBVIOUS
    <2> QED BY <1>1, <1>2, <1>3, <2>1
  <1>5. place \in Injection(I, 1..c)
    <2>1. place \in [I -> 1..c]
      BY <1>2
    <2>2. \A i, j \in I : place[i] = place[j] => i = j
      BY <1>4
    <2> QED BY <2>1, <2>2 DEF Injection, IsInjective
  <1>6. place \in Surjection(I, 1..c)
    <2>1. IsFiniteSet(1..c) /\ Cardinality(1..c) = c
      BY <1>1, FS_Interval
    <2> QED BY <1>5, <2>1, FS_Injection
  <1>7. \A n \in 1..c : \E i \in I : Cardinality(upto(i)) = n
    BY <1>6 DEF Surjection
  <1>8. \A n \in 1..c : e[n] \in I /\ Cardinality(upto(e[n])) = n
    BY <1>7 DEF Nth
  <1>9. e \in [1..c -> I]
    BY <1>8 DEF Nth
  <1> HIDE DEF e
  <1>10. \A m, n \in 1..c : m < n => e[m] < e[n]
    <2> SUFFICES ASSUME NEW m \in 1..c, NEW n \in 1..c, m < n, ~(e[m] < e[n])
                 PROVE  FALSE
      OBVIOUS
    <2>1. e[m] \in I /\ e[n] \in I /\ e[m] \in Nat /\ e[n] \in Nat
      BY <1>8
    <2>2. e[m] = e[n] \/ e[n] < e[m]
      BY <2>1
    <2>3. m \in Nat /\ n \in Nat
      BY <1>1
    <2>4. CASE e[m] = e[n]
      <3>1. Cardinality(upto(e[m])) = m /\ Cardinality(upto(e[n])) = n
        BY <1>8
      <3>2. upto(e[m]) = upto(e[n])
        BY <2>4
      <3>3. m = n
        BY <3>1, <3>2
      <3> QED BY <2>3, <3>3
    <2>5. CASE e[n] < e[m]
      <3>1. Cardinality(upto(e[n])) < Cardinality(upto(e[m]))
        BY <1>3, <2>1, <2>5
      <3>2. n < m
        BY <1>8, <3>1
      <3> QED BY <2>3, <3>2
    <2> QED BY <2>2, <2>4, <2>5
  <1>11. \A i \in I : \E n \in 1..c : e[n] = i
    <2> TAKE i \in I
    <2> DEFINE n == Cardinality(upto(i))
    <2>1. n \in 1..c
      BY <1>2
    <2>2. e[n] \in I /\ Cardinality(upto(e[n])) = n
      BY <1>8, <2>1
    <2> QED BY <1>4, <2>1, <2>2
  <1>12. Kept(s, I) = [n \in 1..c |-> s[e[n]]]
    BY DEF Kept, Nth, e
  <1> QED BY <1>1, <1>9, <1>10, <1>11, <1>12 DEF e

\* A function on 1..n is a sequence of length n.
LEMMA ListFacts ==
    ASSUME NEW n \in Nat, NEW b, b = [i \in 1..n |-> b[i]]
    PROVE  b \in Seq(Range(b)) /\ Len(b) = n /\ DOMAIN b = 1..n
  <1>1. DOMAIN b = 1..n
    OBVIOUS
  <1>2. \A i \in 1..n : b[i] \in Range(b)
    BY <1>1 DEF Range
  <1>3. b \in [1..n -> Range(b)]
    BY <1>2
  <1> QED BY <1>1, <1>3

\* The indices of a list of tokens that a loop keeps.
LEMMA IndexFacts ==
    ASSUME NEW tokens, tokens \in Seq(Range(tokens)), NEW I \in SUBSET DOMAIN tokens
    PROVE  I \in SUBSET Nat /\ IsFiniteSet(I)
  <1>1. DOMAIN tokens = 1..Len(tokens) /\ Len(tokens) \in Nat
    OBVIOUS
  <1>2. IsFiniteSet(DOMAIN tokens)
    BY <1>1, FS_Interval
  <1> QED BY <1>1, <1>2, FS_Subset

(***************************************************************************)
(* What each parser returns: one bucket per token that is kept, in order.  *)
(***************************************************************************)
NamedAt(tokens) == {i \in DOMAIN tokens : tokens[i].name # NoName}
CompleteAt(tokens) == {i \in DOMAIN tokens : complete(tokens[i])}

LEMMA BucketsParsed ==
    ASSUME NEW tokens, tokens \in Seq(Range(tokens))
    PROVE  LET b == parseBucketsList(tokens)
               e == Nth(NamedAt(tokens))
           IN  /\ b \in Seq(Range(b)) /\ DOMAIN b = 1..Cardinality(NamedAt(tokens))
               /\ e \in [DOMAIN b -> NamedAt(tokens)]
               /\ \A i \in DOMAIN b : b[i].kind = "hosted" /\ b[i].members = <<>>
                                         /\ b[i].name # NoName
               /\ \A i \in DOMAIN b :
                     b[i] = Bucket(tokens[e[i]].name, "hosted",
                                   tokens[e[i]].visibility = "public", 0, <<>>)
               /\ \A i, j \in DOMAIN b : i < j => e[i] < e[j]
               /\ \A k \in NamedAt(tokens) : \E i \in DOMAIN b : e[i] = k
  <1> DEFINE I == NamedAt(tokens)
             n == Cardinality(I)
             e == Nth(I)
             b == parseBucketsList(tokens)
  <1>1. I \in SUBSET DOMAIN tokens
    BY DEF NamedAt
  <1>2. I \in SUBSET Nat /\ IsFiniteSet(I)
    BY <1>1, IndexFacts
  <1>3. /\ n \in Nat /\ e \in [1..n -> I]
        /\ Kept(tokens, I) = [i \in 1..n |-> tokens[e[i]]]
        /\ \A i, j \in 1..n : i < j => e[i] < e[j]
        /\ \A k \in I : \E i \in 1..n : e[i] = k
    BY <1>2, KeptFacts
  <1>4. b = [i \in DOMAIN Kept(tokens, I) |->
                Bucket(Kept(tokens, I)[i].name, "hosted",
                       Kept(tokens, I)[i].visibility = "public", 0, <<>>)]
    BY DEF parseBucketsList, NamedAt
  <1> HIDE DEF n, e, b, I
  <1>5. b = [i \in 1..n |-> Bucket(tokens[e[i]].name, "hosted",
                                   tokens[e[i]].visibility = "public", 0, <<>>)]
    BY <1>3, <1>4
  <1>6. b = [i \in 1..n |-> b[i]]
    BY <1>5
  <1>7. b \in Seq(Range(b)) /\ DOMAIN b = 1..n
    BY <1>3, <1>6, ListFacts
  <1>8. \A i \in 1..n : /\ b[i].kind = "hosted" /\ b[i].members = <<>>
                         /\ b[i].name = tokens[e[i]].name /\ e[i] \in I
    BY <1>3, <1>5 DEF Bucket
  <1>9. \A k \in I : tokens[k].name # NoName
    BY DEF I, NamedAt
  <1>10. \A i \in 1..n : b[i].name # NoName
    BY <1>8, <1>9
  <1> QED BY <1>3, <1>5, <1>7, <1>8, <1>10 DEF n, e, b, I

LEMMA ProxiesParsed ==
    ASSUME NEW tokens, tokens \in Seq(Range(tokens)),
           parseProxyRepos(tokens) # LoadError
    PROVE  LET b == parseProxyRepos(tokens)
               e == Nth(CompleteAt(tokens))
           IN  /\ b \in Seq(Range(b)) /\ DOMAIN b = 1..Cardinality(CompleteAt(tokens))
               /\ e \in [DOMAIN b -> CompleteAt(tokens)]
               /\ \A i \in DOMAIN b : b[i].kind = "proxy" /\ b[i].members = <<>>
                                         /\ b[i].name # NoName
               /\ \A i \in DOMAIN b :
                     b[i] = Bucket(tokens[e[i]].name, "proxy",
                                   tokens[e[i]].visibility = "public", tokens[e[i]].ttl, <<>>)
               /\ \A i, j \in DOMAIN b : i < j => e[i] < e[j]
               /\ \A k \in CompleteAt(tokens) : \E i \in DOMAIN b : e[i] = k
  <1> DEFINE I == CompleteAt(tokens)
             n == Cardinality(I)
             e == Nth(I)
             b == parseProxyRepos(tokens)
  <1>1. I \in SUBSET DOMAIN tokens
    BY DEF CompleteAt
  <1>2. I \in SUBSET Nat /\ IsFiniteSet(I)
    BY <1>1, IndexFacts
  <1>3. /\ n \in Nat /\ e \in [1..n -> I]
        /\ Kept(tokens, I) = [i \in 1..n |-> tokens[e[i]]]
        /\ \A i, j \in 1..n : i < j => e[i] < e[j]
        /\ \A k \in I : \E i \in 1..n : e[i] = k
    BY <1>2, KeptFacts
  <1>4. b = [i \in DOMAIN Kept(tokens, I) |->
                Bucket(Kept(tokens, I)[i].name, "proxy",
                       Kept(tokens, I)[i].visibility = "public", Kept(tokens, I)[i].ttl, <<>>)]
    BY DEF parseProxyRepos, CompleteAt
  <1> HIDE DEF n, e, b, I
  <1>5. b = [i \in 1..n |->
                Bucket(tokens[e[i]].name, "proxy",
                       tokens[e[i]].visibility = "public", tokens[e[i]].ttl, <<>>)]
    BY <1>3, <1>4
  <1>6. b = [i \in 1..n |-> b[i]]
    BY <1>5
  <1>7. b \in Seq(Range(b)) /\ DOMAIN b = 1..n
    BY <1>3, <1>6, ListFacts
  <1>8. \A i \in 1..n : /\ b[i].kind = "proxy" /\ b[i].members = <<>>
                         /\ b[i].name = tokens[e[i]].name /\ e[i] \in I
    BY <1>3, <1>5 DEF Bucket
  <1>9. \A k \in I : tokens[k].name # NoName
    BY DEF I, CompleteAt, complete
  <1>10. \A i \in 1..n : b[i].name # NoName
    BY <1>8, <1>9
  <1> QED BY <1>3, <1>5, <1>7, <1>8, <1>10 DEF n, e, b, I

LEMMA VirtualsParsed ==
    ASSUME NEW tokens, tokens \in Seq(Range(tokens))
    PROVE  LET b == parseVirtualRepos(tokens) IN
           /\ b \in Seq(Range(b))
           /\ \A i \in DOMAIN b : b[i].kind = "virtual" /\ b[i].name # NoName
  <1> DEFINE members(t) == Kept(t.members, {i \in DOMAIN t.members : t.members[i] # NoName})
             I == {i \in DOMAIN tokens : tokens[i].name # NoName /\ members(tokens[i]) # <<>>}
             n == Cardinality(I)
             valid == Kept(tokens, I)
             b == parseVirtualRepos(tokens)
  <1>1. I \in SUBSET DOMAIN tokens
    OBVIOUS
  <1>2. I \in SUBSET Nat /\ IsFiniteSet(I)
    BY <1>1, IndexFacts
  <1>3. b = [i \in DOMAIN valid |->
                Bucket(valid[i].name, "virtual", FALSE, 0, members(valid[i]))]
    BY DEF parseVirtualRepos
  <1>8. \A i \in I : tokens[i].name # NoName
    OBVIOUS
  <1> HIDE DEF I, members
  <1>9. /\ n \in Nat /\ Nth(I) \in [1..n -> I]
        /\ valid = [i \in 1..n |-> tokens[Nth(I)[i]]]
    BY <1>2, KeptFacts
  <1>4. /\ n \in Nat /\ DOMAIN valid = 1..n
        /\ \A i \in 1..n : valid[i].name # NoName
    <2> HIDE DEF n, valid
    <2>1. \A i \in 1..n : Nth(I)[i] \in I /\ valid[i] = tokens[Nth(I)[i]]
      BY <1>9
    <2> QED BY <1>8, <1>9, <2>1
  <1> HIDE DEF n, valid, b
  <1>5. b = [i \in 1..n |-> b[i]]
    BY <1>3, <1>4
  <1>6. b \in Seq(Range(b)) /\ DOMAIN b = 1..n
    BY <1>4, <1>5, ListFacts
  <1>7. \A i \in 1..n : b[i].kind = "virtual" /\ b[i].name # NoName
    BY <1>3, <1>4 DEF Bucket
  <1> QED BY <1>6, <1>7 DEF b

\* The hosted buckets, from the list or from the legacy pair.
LEMMA HostedFacts ==
    ASSUME environment \in Environments, loadBuckets # LoadError
    PROVE  /\ loadBuckets \in Seq(Range(loadBuckets))
           /\ \A i \in DOMAIN loadBuckets :
                 /\ loadBuckets[i].kind = "hosted" /\ loadBuckets[i].members = <<>>
                 /\ loadBuckets[i].name # NoName
  <1>1. CASE environment.buckets # Unset
    <2>1. environment.buckets \in Seq(Range(environment.buckets))
      BY <1>1, EnvironmentAssumption
    <2>2. loadBuckets = parseBucketsList(environment.buckets)
      BY <1>1 DEF loadBuckets
    <2> QED BY <2>1, <2>2, BucketsParsed
  <1>2. CASE environment.buckets = Unset
    <2> DEFINE b == <<Bucket(environment.legacy.pub, "hosted", TRUE, 0, <<>>),
                      Bucket(environment.legacy.priv, "hosted", FALSE, 0, <<>>)>>
    <2>1. loadBuckets = b
      BY <1>2 DEF loadBuckets
    <2>2. DOMAIN b = 1..2 /\ b = [i \in 1..2 |-> b[i]]
      OBVIOUS
    <2>3. \A i \in {1, 2} :
             b[i].kind = "hosted" /\ b[i].members = <<>> /\ b[i].name # NoName
      BY <1>2 DEF Bucket, loadBuckets
    <2> HIDE DEF b
    <2>4. b \in Seq(Range(b))
      BY <2>2, ListFacts
    <2>5. \A i \in 1..2 : i = 1 \/ i = 2
      OBVIOUS
    <2> QED BY <2>1, <2>2, <2>3, <2>4, <2>5
  <1> QED BY <1>1, <1>2

\* Three lists one after the other.
LEMMA JoinFacts ==
    ASSUME NEW h, NEW p, NEW v,
           h \in Seq(Range(h)), p \in Seq(Range(p)), v \in Seq(Range(v))
    PROVE  LET b == allBuckets(h, p, v) IN
           /\ b \in Seq(Range(b)) /\ Len(b) = Len(h) + Len(p) + Len(v)
           /\ \A i \in DOMAIN b : b[i] = IF i <= Len(h) THEN h[i]
                                         ELSE IF i <= Len(h) + Len(p) THEN p[i - Len(h)]
                                         ELSE v[i - Len(h) - Len(p)]
  <1> DEFINE S == Range(h) \cup Range(p) \cup Range(v)
             b == allBuckets(h, p, v)
             n == Len(h) + Len(p) + Len(v)
  <1>1. h \in Seq(S) /\ p \in Seq(S) /\ v \in Seq(S)
    OBVIOUS
  <1> HIDE DEF S
  <1>2. /\ h \o p \in Seq(S) /\ Len(h \o p) = Len(h) + Len(p)
        /\ \A i \in 1..Len(h) + Len(p) :
              (h \o p)[i] = IF i <= Len(h) THEN h[i] ELSE p[i - Len(h)]
    BY <1>1
  <1>3. /\ b \in Seq(S) /\ Len(b) = n /\ n \in Nat
        /\ \A i \in 1..n :
              b[i] = IF i <= Len(h) + Len(p) THEN (h \o p)[i] ELSE v[i - (Len(h) + Len(p))]
    BY <1>1, <1>2 DEF allBuckets
  <1>4. Len(h) \in Nat /\ Len(p) \in Nat /\ Len(v) \in Nat /\ DOMAIN b = 1..n
    BY <1>1, <1>3
  <1>5. \A i \in 1..n : b[i] = IF i <= Len(h) THEN h[i]
                               ELSE IF i <= Len(h) + Len(p) THEN p[i - Len(h)]
                               ELSE v[i - Len(h) - Len(p)]
    BY <1>2, <1>3, <1>4
  <1>6. b = [i \in 1..n |-> b[i]]
    BY <1>3, <1>4
  <1> HIDE DEF b, n
  <1>7. b \in Seq(Range(b))
    BY <1>3, <1>6, ListFacts
  <1> QED BY <1>3, <1>4, <1>5, <1>7 DEF b, n

\* Max is the greatest element of a set of indices.
LEMMA MaxFacts ==
    ASSUME NEW n \in Nat, NEW S \in SUBSET (1..n), S # {}
    PROVE  Max(S) \in S /\ \A c \in S : Max(S) >= c
  <1> DEFINE T == {n - c : c \in S}
  <1>1. T \in SUBSET Nat /\ T # {}
    <2>1. \A c \in S : c \in 1..n
      OBVIOUS
    <2>2. \A c \in S : n - c \in Nat
      BY <2>1
    <2>3. PICK c \in S : TRUE
      OBVIOUS
    <2>4. n - c \in T
      BY <2>3
    <2> QED BY <2>2, <2>4
  <1>2. Min(T) \in T /\ \A d \in T : Min(T) <= d
    BY <1>1, MinFacts
  <1>3. PICK b \in S : Min(T) = n - b
    BY <1>2
  <1>4. \A c \in S : n - b <= n - c
    BY <1>2, <1>3
  <1>5. \A c \in S : b >= c
    BY <1>4
  <1> QED BY <1>5 DEF Max

(***************************************************************************)
(* The inductive invariant: what Load has accepted is the three lists it   *)
(* parsed, one after the other, and the members were found in them.        *)
(***************************************************************************)
Proxies == parseProxyRepos(environment.proxies)
Virtuals == parseVirtualRepos(environment.virtuals)

Built ==
    /\ loadBuckets # LoadError
    /\ Proxies # LoadError
    /\ loaded = allBuckets(loadBuckets, Proxies, Virtuals)
    /\ membersValid(loaded, Virtuals)

ConfigurationInv == environment \in Environments /\ (Accepted => Built)

\* Where the buckets of each list are, and what they are.
LEMMA BuiltFacts ==
    ASSUME environment \in Environments, Built
    PROVE  LET h == Len(loadBuckets)
               p == Len(Proxies)
           IN  /\ h \in Nat /\ p \in Nat /\ Len(loaded) \in Nat
               /\ loaded \in Seq(Range(loaded)) /\ DOMAIN loaded = 1..Len(loaded)
               /\ h + p <= Len(loaded)
               /\ DOMAIN loadBuckets = 1..h /\ DOMAIN Proxies = 1..p
               /\ \A i \in 1..h : loaded[i] = loadBuckets[i]
               /\ \A i \in 1..p : loaded[h + i] = Proxies[i]
               /\ \A i \in DOMAIN loaded :
                     /\ loaded[i].name # NoName
                     /\ i <= h => loaded[i].kind = "hosted"
                     /\ h < i /\ i <= h + p => loaded[i].kind = "proxy"
                     /\ i <= h + p => loaded[i].members = <<>>
                     /\ h + p < i => loaded[i].kind = "virtual" /\ loaded[i] \in Range(Virtuals)
  <1> DEFINE h == Len(loadBuckets)
             p == Len(Proxies)
             v == Len(Virtuals)
  <1>1. /\ environment.proxies \in Seq(Range(environment.proxies))
        /\ environment.virtuals \in Seq(Range(environment.virtuals))
    BY EnvironmentAssumption
  <1>2. /\ loadBuckets \in Seq(Range(loadBuckets))
        /\ \A i \in DOMAIN loadBuckets :
              /\ loadBuckets[i].kind = "hosted" /\ loadBuckets[i].members = <<>>
              /\ loadBuckets[i].name # NoName
    BY HostedFacts DEF Built
  <1>3. /\ Proxies \in Seq(Range(Proxies))
        /\ \A i \in DOMAIN Proxies :
              /\ Proxies[i].kind = "proxy" /\ Proxies[i].members = <<>>
              /\ Proxies[i].name # NoName
    BY <1>1, ProxiesParsed DEF Built, Proxies
  <1>4. /\ Virtuals \in Seq(Range(Virtuals))
        /\ \A i \in DOMAIN Virtuals :
              /\ Virtuals[i].kind = "virtual" /\ Virtuals[i].name # NoName
              /\ Virtuals[i] \in Range(Virtuals)
    BY <1>1, VirtualsParsed DEF Virtuals, Range
  <1>5. /\ loaded \in Seq(Range(loaded)) /\ Len(loaded) = h + p + v
        /\ \A i \in DOMAIN loaded : loaded[i] = IF i <= h THEN loadBuckets[i]
                                                ELSE IF i <= h + p THEN Proxies[i - h]
                                                ELSE Virtuals[i - h - p]
    BY <1>2, <1>3, <1>4, JoinFacts DEF Built
  <1>6. /\ h \in Nat /\ p \in Nat /\ v \in Nat
        /\ DOMAIN loaded = 1..(h + p + v) /\ DOMAIN loadBuckets = 1..h
        /\ DOMAIN Proxies = 1..p /\ DOMAIN Virtuals = 1..v
    BY <1>2, <1>3, <1>4, <1>5
  <1> HIDE DEF h, p, v
  <1>7. \A i \in DOMAIN loaded :
           /\ i <= h => loaded[i] = loadBuckets[i] /\ i \in DOMAIN loadBuckets
           /\ h < i /\ i <= h + p => loaded[i] = Proxies[i - h] /\ i - h \in DOMAIN Proxies
           /\ h + p < i => loaded[i] = Virtuals[i - h - p] /\ i - h - p \in DOMAIN Virtuals
    BY <1>5, <1>6
  <1>8. \A i \in DOMAIN loaded : i <= h \/ (h < i /\ i <= h + p) \/ h + p < i
    BY <1>6
  <1>9. \A i \in DOMAIN loaded :
           /\ loaded[i].name # NoName
           /\ i <= h => loaded[i].kind = "hosted"
           /\ h < i /\ i <= h + p => loaded[i].kind = "proxy"
           /\ i <= h + p => loaded[i].members = <<>>
           /\ h + p < i => loaded[i].kind = "virtual" /\ loaded[i] \in Range(Virtuals)
    <2> TAKE i \in DOMAIN loaded
    <2>1. i \in Nat
      BY <1>6
    <2>2. CASE i <= h
      BY <1>2, <1>6, <1>7, <2>1, <2>2
    <2>3. CASE h < i /\ i <= h + p
      BY <1>3, <1>6, <1>7, <2>1, <2>3
    <2>4. CASE h + p < i
      BY <1>4, <1>6, <1>7, <2>1, <2>4
    <2> QED BY <1>8, <2>2, <2>3, <2>4
  <1>10. \A i \in 1..h : loaded[i] = loadBuckets[i]
    BY <1>6, <1>7
  <1>11. \A i \in 1..p : loaded[h + i] = Proxies[i]
    <2> TAKE i \in 1..p
    <2>1. h + i \in DOMAIN loaded /\ h < h + i /\ h + i <= h + p /\ h + i - h = i
      BY <1>6
    <2>2. PICK j \in DOMAIN loaded : j = h + i
      BY <2>1
    <2>3. loaded[j] = Proxies[j - h]
      BY <1>7, <2>1, <2>2
    <2>4. j - h = i
      BY <1>6, <2>2
    <2> QED BY <2>2, <2>3, <2>4
  <1>12. h + p <= Len(loaded) /\ Len(loaded) \in Nat /\ DOMAIN loaded = 1..Len(loaded)
    BY <1>5, <1>6
  <1> QED BY <1>5, <1>6, <1>9, <1>10, <1>11, <1>12 DEF h, p

LEMMA BuiltMembersServe ==
    ASSUME environment \in Environments, Built
    PROVE  MembersServe
  <1> DEFINE h == Len(loadBuckets)
             p == Len(Proxies)
  <1> SUFFICES ASSUME NEW i \in DOMAIN loaded, NEW m \in Range(loaded[i].members)
               PROVE  Known(m) /\ HasStorage(BucketByName(m))
    BY DEF MembersServe
  <1> DEFINE I == {j \in DOMAIN loaded : loaded[j].name = m}
             f == FirstNamed(m)
  <1>1. h \in Nat /\ p \in Nat /\ Len(loaded) \in Nat /\ DOMAIN loaded = 1..Len(loaded)
    BY BuiltFacts
  <1>2. loaded[i].members # <<>>
    BY DEF Range
  <1>3. loaded[i] \in Range(Virtuals)
    BY <1>1, <1>2, BuiltFacts
  <1>4. I # {} /\ loaded[Max(I)].kind # "virtual"
    BY <1>3 DEF Built, membersValid
  <1>5. I \in SUBSET (1..Len(loaded))
    BY <1>1
  <1>6. Max(I) \in I /\ \A c \in I : Max(I) >= c
    BY <1>1, <1>4, <1>5, MaxFacts
  <1>7. f \in I
    BY <1>4, LookupFacts, BuiltFacts
  <1>8. Max(I) <= h + p
    BY <1>1, <1>4, <1>5, <1>6, BuiltFacts
  <1>9. f \in 1..Len(loaded) /\ f <= h + p
    BY <1>1, <1>5, <1>6, <1>7, <1>8
  <1>10. loaded[f].kind # "virtual"
    <2>1. loaded[f].kind = "hosted" \/ loaded[f].kind = "proxy"
      <3>1. f <= h \/ (h < f /\ f <= h + p)
        BY <1>1, <1>9
      <3> QED BY <1>1, <1>9, <3>1, BuiltFacts
    <2> QED BY <2>1
  <1> QED BY <1>9, <1>10 DEF Known, HasStorage, BucketByName

(***************************************************************************)
(* Where in the environment the i-th bucket with storage is listed.        *)
(***************************************************************************)
HostedPlace ==
    IF environment.buckets = Unset THEN [i \in 1..2 |-> i]
    ELSE Nth(NamedAt(environment.buckets))
ProxyPlace == Nth(CompleteAt(environment.proxies))
Place(i) ==
    IF i <= Len(loadBuckets) THEN HostedPlace[i]
    ELSE Len(HostedNames) + ProxyPlace[i - Len(loadBuckets)]

LEMMA HostedPlaced ==
    ASSUME environment \in Environments, Built
    PROVE  LET h == Len(loadBuckets)
               n == Len(HostedNames)
           IN  /\ h \in Nat /\ n \in Nat /\ HostedNames \in Seq(Range(HostedNames))
               /\ DOMAIN HostedNames = 1..n
               /\ \A i \in 1..h : /\ HostedPlace[i] \in 1..n
                                  /\ HostedNames[HostedPlace[i]] = loadBuckets[i].name
               /\ \A i, j \in 1..h : i < j => HostedPlace[i] < HostedPlace[j]
               /\ \A k \in 1..n : HostedNames[k] # NoName => \E i \in 1..h : HostedPlace[i] = k
  <1> DEFINE tokens == environment.buckets
             h == Len(loadBuckets)
             e == HostedPlace
  <1>1. h \in Nat /\ DOMAIN loadBuckets = 1..h
    BY BuiltFacts
  <1>2. CASE tokens # Unset
    <2>1. tokens \in Seq(Range(tokens))
      BY <1>2, EnvironmentAssumption
    <2>2. DOMAIN tokens = 1..Len(tokens) /\ Len(tokens) \in Nat
      BY <2>1
    <2>3. HostedNames = [i \in 1..Len(tokens) |-> tokens[i].name]
      BY <1>2, <2>2 DEF HostedNames
    <2>4. /\ HostedNames \in Seq(Range(HostedNames)) /\ Len(HostedNames) = Len(tokens)
          /\ DOMAIN HostedNames = 1..Len(tokens)
      <3>1. HostedNames = [i \in 1..Len(tokens) |-> HostedNames[i]]
        BY <2>3
      <3> QED BY <2>2, <3>1, ListFacts
    <2>5. loadBuckets = parseBucketsList(tokens) /\ e = Nth(NamedAt(tokens))
      BY <1>2 DEF loadBuckets, HostedPlace
    <2> HIDE DEF e, h
    <2>6. /\ e \in [1..h -> NamedAt(tokens)]
          /\ \A i \in 1..h : loadBuckets[i] = Bucket(tokens[e[i]].name, "hosted",
                                                    tokens[e[i]].visibility = "public", 0, <<>>)
          /\ \A i, j \in 1..h : i < j => e[i] < e[j]
          /\ \A k \in NamedAt(tokens) : \E i \in 1..h : e[i] = k
      BY <1>1, <2>1, <2>5, BucketsParsed
    <2>7. \A i \in 1..h : loadBuckets[i].name = tokens[e[i]].name /\ e[i] \in NamedAt(tokens)
      <3> HIDE DEF tokens
      <3> TAKE i \in 1..h
      <3>1. loadBuckets[i] = Bucket(tokens[e[i]].name, "hosted",
                                    tokens[e[i]].visibility = "public", 0, <<>>)
        BY <2>6
      <3>2. loadBuckets[i].name = tokens[e[i]].name
        BY <3>1 DEF Bucket
      <3>3. e[i] \in NamedAt(tokens)
        BY <2>6
      <3> QED BY <3>2, <3>3
    <2>8. NamedAt(tokens) = {k \in 1..Len(tokens) : HostedNames[k] # NoName}
      BY <2>2, <2>3 DEF NamedAt
    <2>9. \A i \in 1..h : e[i] \in 1..Len(tokens) /\ HostedNames[e[i]] = loadBuckets[i].name
      BY <2>3, <2>7, <2>8
    <2>10. \A k \in 1..Len(tokens) : HostedNames[k] # NoName => \E i \in 1..h : e[i] = k
      BY <2>6, <2>8
    <2> QED BY <1>1, <2>2, <2>4, <2>6, <2>9, <2>10 DEF e, h
  <1>3. CASE tokens = Unset
    <2>1. HostedNames = <<environment.legacy.pub, environment.legacy.priv>>
      BY <1>3 DEF HostedNames
    <2>2. loadBuckets = <<Bucket(environment.legacy.pub, "hosted", TRUE, 0, <<>>),
                          Bucket(environment.legacy.priv, "hosted", FALSE, 0, <<>>)>>
      BY <1>3 DEF loadBuckets, Built
    <2>3. e = [i \in 1..2 |-> i]
      BY <1>3 DEF HostedPlace
    <2>4. h = 2 /\ Len(HostedNames) = 2 /\ DOMAIN HostedNames = 1..2
      BY <2>1, <2>2
    <2>5. HostedNames \in Seq(Range(HostedNames))
      <3>1. HostedNames = [i \in 1..2 |-> HostedNames[i]]
        BY <2>1
      <3> QED BY <3>1, ListFacts
    <2>6. /\ loadBuckets[1].name = HostedNames[1] /\ loadBuckets[2].name = HostedNames[2]
          /\ \A i \in 1..2 : i = 1 \/ i = 2
      BY <2>1, <2>2 DEF Bucket
    <2> HIDE DEF e, h
    <2>7. \A i \in 1..2 : e[i] = i /\ HostedNames[e[i]] = loadBuckets[i].name
      BY <2>3, <2>6
    <2>8. \A i, j \in 1..2 : i < j => e[i] < e[j]
      BY <2>7
    <2> QED BY <2>4, <2>5, <2>7, <2>8 DEF e, h
  <1> QED BY <1>2, <1>3

LEMMA ProxiesPlaced ==
    ASSUME environment \in Environments, Built
    PROVE  LET p == Len(Proxies)
               n == Len(ProxyNames)
           IN  /\ p \in Nat /\ n \in Nat /\ ProxyNames \in Seq(Range(ProxyNames))
               /\ DOMAIN ProxyNames = 1..n /\ DOMAIN environment.proxies = 1..n
               /\ \A i \in 1..p : /\ ProxyPlace[i] \in 1..n
                                  /\ ProxyNames[ProxyPlace[i]] = Proxies[i].name
                                  /\ Proxies[i].ttl = environment.proxies[ProxyPlace[i]].ttl
               /\ \A i, j \in 1..p : i < j => ProxyPlace[i] < ProxyPlace[j]
               /\ \A k \in 1..n : ProxyNames[k] # NoName => \E i \in 1..p : ProxyPlace[i] = k
  <1> DEFINE tokens == environment.proxies
             p == Len(Proxies)
             e == ProxyPlace
             I == CompleteAt(tokens)
  <1>1. p \in Nat /\ DOMAIN Proxies = 1..p
    BY BuiltFacts
  <1>2. tokens \in Seq(Range(tokens))
    BY EnvironmentAssumption
  <1>3. DOMAIN tokens = 1..Len(tokens) /\ Len(tokens) \in Nat
    BY <1>2
  <1>4. ProxyNames = [i \in 1..Len(tokens) |-> IF complete(tokens[i]) THEN tokens[i].name ELSE NoName]
    BY <1>3 DEF ProxyNames
  <1>5. /\ ProxyNames \in Seq(Range(ProxyNames)) /\ Len(ProxyNames) = Len(tokens)
        /\ DOMAIN ProxyNames = 1..Len(tokens)
    <2>1. ProxyNames = [i \in 1..Len(tokens) |-> ProxyNames[i]]
      BY <1>4
    <2> QED BY <1>3, <2>1, ListFacts
  <1> HIDE DEF p
  <1>6. /\ e \in [1..p -> I]
        /\ \A i \in 1..p : Proxies[i] = Bucket(tokens[e[i]].name, "proxy",
                               tokens[e[i]].visibility = "public", tokens[e[i]].ttl, <<>>)
        /\ \A i, j \in 1..p : i < j => e[i] < e[j]
        /\ \A k \in I : \E i \in 1..p : e[i] = k
    BY <1>1, <1>2, ProxiesParsed DEF Built, Proxies, ProxyPlace
  <1>7. \A k \in 1..Len(tokens) : /\ k \in I <=> complete(tokens[k])
                                  /\ k \in I => ProxyNames[k] = tokens[k].name
                                  /\ k \notin I => ProxyNames[k] = NoName
    BY <1>3, <1>4 DEF CompleteAt
  <1> HIDE DEF e
  <1>8. \A i \in 1..p : /\ Proxies[i].name = tokens[e[i]].name /\ Proxies[i].ttl = tokens[e[i]].ttl
                        /\ e[i] \in I
    <2> HIDE DEF tokens, I
    <2> TAKE i \in 1..p
    <2>1. Proxies[i] = Bucket(tokens[e[i]].name, "proxy",
                              tokens[e[i]].visibility = "public", tokens[e[i]].ttl, <<>>)
      BY <1>6
    <2>2. Proxies[i].name = tokens[e[i]].name /\ Proxies[i].ttl = tokens[e[i]].ttl
      BY <2>1 DEF Bucket
    <2>3. e[i] \in I
      BY <1>6
    <2> QED BY <2>2, <2>3
  <1>9. I \subseteq 1..Len(tokens)
    BY <1>3 DEF CompleteAt
  <1> HIDE DEF I
  <1>10. \A i \in 1..p : /\ e[i] \in 1..Len(tokens) /\ ProxyNames[e[i]] = Proxies[i].name
                         /\ Proxies[i].ttl = tokens[e[i]].ttl
    BY <1>7, <1>8, <1>9
  <1>11. \A k \in 1..Len(tokens) : ProxyNames[k] # NoName => \E i \in 1..p : e[i] = k
    BY <1>6, <1>7
  <1> QED BY <1>1, <1>3, <1>5, <1>6, <1>10, <1>11 DEF e, p

\* The buckets with storage are loaded in the order in which they are listed, and
\* none is lost.
LEMMA PlaceFacts ==
    ASSUME environment \in Environments, Built
    PROVE  LET h == Len(loadBuckets)
               p == Len(Proxies)
               n == Len(HostedNames)
           IN  /\ h \in Nat /\ p \in Nat /\ n \in Nat /\ Len(ProxyNames) \in Nat
               /\ DOMAIN StorageNames = 1..(n + Len(ProxyNames))
               /\ \A i \in 1..(h + p) : /\ Place(i) \in DOMAIN StorageNames
                                        /\ StorageNames[Place(i)] = loaded[i].name
               /\ \A i, j \in 1..(h + p) : i < j => Place(i) < Place(j)
               /\ \A k \in DOMAIN StorageNames :
                     StorageNames[k] # NoName => \E i \in 1..(h + p) : Place(i) = k
  <1> DEFINE h == Len(loadBuckets)
             p == Len(Proxies)
             n == Len(HostedNames)
             m == Len(ProxyNames)
  <1>1. /\ h \in Nat /\ p \in Nat /\ n \in Nat /\ m \in Nat
        /\ HostedNames \in Seq(Range(HostedNames)) /\ ProxyNames \in Seq(Range(ProxyNames))
    BY HostedPlaced, ProxiesPlaced
  <1>2. /\ DOMAIN StorageNames = 1..(n + m)
        /\ \A k \in 1..(n + m) : StorageNames[k] = IF k <= n THEN HostedNames[k]
                                                   ELSE ProxyNames[k - n]
    BY <1>1 DEF StorageNames
  <1> HIDE DEF h, p, n, m
  <1>3. /\ \A i \in 1..h : /\ HostedPlace[i] \in 1..n
                           /\ HostedNames[HostedPlace[i]] = loadBuckets[i].name
        /\ \A i, j \in 1..h : i < j => HostedPlace[i] < HostedPlace[j]
        /\ \A k \in 1..n : HostedNames[k] # NoName => \E i \in 1..h : HostedPlace[i] = k
    BY HostedPlaced DEF h, n
  <1>4. /\ \A i \in 1..p : /\ ProxyPlace[i] \in 1..m
                           /\ ProxyNames[ProxyPlace[i]] = Proxies[i].name
        /\ \A i, j \in 1..p : i < j => ProxyPlace[i] < ProxyPlace[j]
        /\ \A k \in 1..m : ProxyNames[k] # NoName => \E i \in 1..p : ProxyPlace[i] = k
    BY ProxiesPlaced DEF p, m
  <1>5. /\ \A i \in 1..h : loaded[i] = loadBuckets[i]
        /\ \A i \in 1..p : loaded[h + i] = Proxies[i]
    BY BuiltFacts DEF h, p
  <1>6. \A i \in 1..(h + p) : i \in 1..h \/ (i - h \in 1..p /\ ~(i <= h) /\ i = h + (i - h))
    BY <1>1
  <1>7. /\ \A i \in 1..h : Place(i) = HostedPlace[i]
        /\ \A j \in 1..p : Place(h + j) = n + ProxyPlace[j]
    <2>1. \A i \in 1..h : i <= h
      BY <1>1
    <2>2. \A j \in 1..p : ~(h + j <= h) /\ h + j - h = j
      BY <1>1
    <2> QED BY <2>1, <2>2 DEF Place, h, n
  <1>8. ASSUME NEW i \in 1..(h + p)
        PROVE  Place(i) \in 1..(n + m) /\ StorageNames[Place(i)] = loaded[i].name
    <2>1. CASE i \in 1..h
      <3>1. Place(i) \in 1..n /\ HostedNames[Place(i)] = loaded[i].name
        BY <1>3, <1>5, <1>7, <2>1
      <3>2. Place(i) \in 1..(n + m) /\ Place(i) <= n
        BY <1>1, <3>1
      <3> QED BY <1>2, <3>1, <3>2
    <2>2. CASE i - h \in 1..p /\ i = h + (i - h)
      <3>1. PICK j \in 1..p : i = h + j
        BY <2>2
      <3>2. Place(i) = n + ProxyPlace[j] /\ loaded[i] = Proxies[j]
        BY <1>5, <1>7, <3>1
      <3>3. ProxyPlace[j] \in 1..m /\ ProxyNames[ProxyPlace[j]] = Proxies[j].name
        BY <1>4
      <3>4. Place(i) \in 1..(n + m) /\ ~(Place(i) <= n) /\ Place(i) - n = ProxyPlace[j]
        BY <1>1, <3>2, <3>3
      <3> QED BY <1>2, <3>2, <3>3, <3>4
    <2> QED BY <1>6, <2>1, <2>2
  <1>9. ASSUME NEW i \in 1..(h + p), NEW j \in 1..(h + p), i < j
        PROVE  Place(i) < Place(j)
    <2>1. CASE j \in 1..h
      <3>1. i \in 1..h
        BY <1>1, <1>9, <2>1
      <3> QED BY <1>3, <1>7, <1>9, <2>1, <3>1
    <2>2. CASE j - h \in 1..p /\ j = h + (j - h)
      <3>1. PICK y \in 1..p : j = h + y
        BY <2>2
      <3>2. Place(j) = n + ProxyPlace[y] /\ ProxyPlace[y] \in 1..m
        BY <1>4, <1>7, <3>1
      <3>3. CASE i \in 1..h
        <4>1. Place(i) \in 1..n
          BY <1>3, <1>7, <3>3
        <4> QED BY <1>1, <3>2, <4>1
      <3>4. CASE i - h \in 1..p /\ i = h + (i - h)
        <4>1. PICK x \in 1..p : i = h + x
          BY <3>4
        <4>2. Place(i) = n + ProxyPlace[x] /\ ProxyPlace[x] \in 1..m
          BY <1>4, <1>7, <4>1
        <4>3. x < y
          BY <1>1, <1>9, <3>1, <4>1
        <4>4. ProxyPlace[x] < ProxyPlace[y]
          BY <1>4, <4>3
        <4> QED BY <1>1, <3>2, <4>2, <4>4
      <3> QED BY <1>6, <3>3, <3>4
    <2> QED BY <1>6, <2>1, <2>2
  <1>10. ASSUME NEW k \in 1..(n + m), StorageNames[k] # NoName
         PROVE  \E i \in 1..(h + p) : Place(i) = k
    <2>1. CASE k <= n
      <3>1. k \in 1..n /\ HostedNames[k] # NoName
        BY <1>1, <1>2, <1>10, <2>1
      <3>2. PICK i \in 1..h : HostedPlace[i] = k
        BY <1>3, <3>1
      <3>3. i \in 1..(h + p) /\ Place(i) = k
        BY <1>1, <1>7, <3>2
      <3> QED BY <3>3
    <2>2. CASE ~(k <= n)
      <3>1. k - n \in 1..m /\ n + (k - n) = k
        BY <1>1, <2>2
      <3>2. ProxyNames[k - n] # NoName
        BY <1>2, <1>10, <2>2
      <3>3. PICK j \in 1..p : ProxyPlace[j] = k - n
        BY <1>4, <3>1, <3>2
      <3>4. h + j \in 1..(h + p) /\ Place(h + j) = k
        BY <1>1, <1>7, <3>1, <3>3
      <3> QED BY <3>4
    <2> QED BY <2>1, <2>2
  <1> QED BY <1>1, <1>2, <1>8, <1>9, <1>10 DEF h, p, n, m

\* The bucket that requests find under a listed name is the one listed first.
LEMMA FirstListed ==
    ASSUME environment \in Environments, Built,
           NEW k \in DOMAIN StorageNames, StorageNames[k] # NoName
    PROVE  LET f == FirstNamed(StorageNames[k])
               q == Len(loadBuckets) + Len(Proxies)
           IN  /\ f \in 1..q /\ f \in DOMAIN loaded
               /\ Place(f) \in DOMAIN StorageNames /\ Place(f) <= k
               /\ StorageNames[Place(f)] = StorageNames[k]
               /\ BucketPriority(StorageNames[k]) = f - 1
               /\ Known(StorageNames[k]) /\ BucketByName(StorageNames[k]) = loaded[f]
  <1> DEFINE name == StorageNames[k]
             f == FirstNamed(name)
             q == Len(loadBuckets) + Len(Proxies)
             I == {i \in DOMAIN loaded : loaded[i].name = name}
  <1>1. q \in Nat /\ Len(loaded) \in Nat /\ q <= Len(loaded) /\ DOMAIN loaded = 1..Len(loaded)
    BY BuiltFacts
  <1>2. PICK a \in 1..q : Place(a) = k
    BY PlaceFacts
  <1>3. a \in DOMAIN loaded /\ loaded[a].name = name
    BY <1>1, <1>2, PlaceFacts
  <1>4. a \in I
    BY <1>3
  <1>5. f \in I /\ f <= a
    BY <1>4, LookupFacts, BuiltFacts
  <1>6. f \in 1..q /\ f \in DOMAIN loaded /\ loaded[f].name = name
    BY <1>1, <1>2, <1>5
  <1> HIDE DEF f, q, I
  <1>7. Place(f) \in DOMAIN StorageNames /\ StorageNames[Place(f)] = name
    BY <1>6, PlaceFacts DEF q
  <1>8. Place(f) <= k
    <2>1. f < a \/ f = a
      BY <1>1, <1>2, <1>5, <1>6
    <2>2. f < a => Place(f) < Place(a)
      BY <1>2, <1>6, PlaceFacts DEF q
    <2>3. Place(f) \in Nat /\ k \in Nat
      BY <1>7, PlaceFacts
    <2> QED BY <1>2, <2>1, <2>2, <2>3
  <1>9. f # 0
    BY <1>1, <1>6
  <1>10. Known(name) /\ BucketByName(name) = loaded[f] /\ BucketPriority(name) = f - 1
    BY <1>9 DEF Known, BucketByName, BucketPriority, f
  <1> QED BY <1>6, <1>7, <1>8, <1>10 DEF f, q

LEMMA BuiltRanksAsConfigured ==
    ASSUME environment \in Environments, Built
    PROVE  RanksAsConfigured
  <1> SUFFICES ASSUME NEW i \in DOMAIN StorageNames, NEW j \in DOMAIN StorageNames,
                      NoName \notin {StorageNames[i], StorageNames[j]},
                      \A h \in 1..i : StorageNames[h] # StorageNames[j]
               PROVE  BucketPriority(StorageNames[i]) < BucketPriority(StorageNames[j])
    BY DEF RanksAsConfigured
  <1> DEFINE f == FirstNamed(StorageNames[i])
             g == FirstNamed(StorageNames[j])
             q == Len(loadBuckets) + Len(Proxies)
  <1>1. StorageNames[i] # NoName /\ StorageNames[j] # NoName
    OBVIOUS
  <1>2. f \in 1..q /\ Place(f) <= i /\ BucketPriority(StorageNames[i]) = f - 1
    BY <1>1, FirstListed
  <1>3. /\ g \in 1..q /\ StorageNames[Place(g)] = StorageNames[j]
        /\ Place(g) \in DOMAIN StorageNames /\ BucketPriority(StorageNames[j]) = g - 1
    BY <1>1, FirstListed
  <1> HIDE DEF f, g
  <1>4. q \in Nat /\ i \in Nat /\ Place(g) \in Nat \ {0} /\ Place(f) \in Nat
    BY <1>2, <1>3, PlaceFacts
  <1>5. ~(Place(g) <= i)
    <2>1. Place(g) <= i => Place(g) \in 1..i
      BY <1>4
    <2> QED BY <1>3, <2>1
  <1>6. Place(f) < Place(g)
    BY <1>2, <1>4, <1>5
  <1>7. ~(g < f) /\ g # f
    <2>1. g < f => Place(g) < Place(f)
      BY <1>2, <1>3, PlaceFacts
    <2>2. ~(Place(g) < Place(f)) /\ Place(g) # Place(f)
      BY <1>4, <1>6
    <2> QED BY <2>1, <2>2
  <1>8. f < g
    BY <1>2, <1>3, <1>4, <1>7
  <1> QED BY <1>2, <1>3, <1>4, <1>8

LEMMA BuiltTTLEffective ==
    ASSUME environment \in Environments, Built
    PROVE  TTLEffective
  <1> DEFINE n == Len(HostedNames)
             h == Len(loadBuckets)
             p == Len(Proxies)
             tokens == environment.proxies
  <1> SUFFICES ASSUME NEW i \in DOMAIN tokens, complete(tokens[i]),
                      \A k \in 1..(n + i - 1) : StorageNames[k] # tokens[i].name
               PROVE  /\ Known(tokens[i].name)
                      /\ BucketByName(tokens[i].name).kind = "proxy"
                      /\ BucketByName(tokens[i].name).ttl = tokens[i].ttl
    BY DEF TTLEffective
  <1>1. /\ n \in Nat /\ h \in Nat /\ p \in Nat /\ Len(ProxyNames) \in Nat
        /\ i \in 1..Len(ProxyNames)
        /\ DOMAIN StorageNames = 1..(n + Len(ProxyNames))
        /\ DOMAIN loaded = 1..Len(loaded) /\ Len(loaded) \in Nat
    BY PlaceFacts, ProxiesPlaced, BuiltFacts
  <1>2. n + i \in DOMAIN StorageNames /\ StorageNames[n + i] = tokens[i].name
    <2>1. HostedNames \in Seq(Range(HostedNames)) /\ ProxyNames \in Seq(Range(ProxyNames))
      BY HostedPlaced, ProxiesPlaced
    <2>2. StorageNames[n + i] = ProxyNames[i]
      BY <1>1, <2>1 DEF StorageNames
    <2>3. ProxyNames[i] = tokens[i].name
      BY DEF ProxyNames
    <2> QED BY <1>1, <2>2, <2>3
  <1>3. tokens[i].name # NoName
    BY DEF complete
  <1> DEFINE f == FirstNamed(tokens[i].name)
  <1>4. /\ f \in 1..(h + p) /\ f \in DOMAIN loaded
        /\ Place(f) \in DOMAIN StorageNames /\ Place(f) <= n + i
        /\ StorageNames[Place(f)] = tokens[i].name
        /\ Known(tokens[i].name) /\ BucketByName(tokens[i].name) = loaded[f]
    BY <1>2, <1>3, FirstListed
  <1> HIDE DEF f, n, h, p
  <1>5. Place(f) = n + i
    <2>1. Place(f) \in Nat \ {0} /\ i \in Nat
      BY <1>1, <1>4
    <2>2. Place(f) < n + i => Place(f) \in 1..(n + i - 1)
      BY <1>1, <2>1
    <2> QED BY <1>1, <1>4, <2>1, <2>2
  <1>6. ~(f <= h)
    <2> SUFFICES ASSUME f <= h PROVE FALSE
      OBVIOUS
    <2>1. f \in 1..h /\ Place(f) = HostedPlace[f]
      BY <1>1, <1>4 DEF Place, h
    <2>2. HostedPlace[f] \in 1..n
      BY <2>1, HostedPlaced DEF h, n
    <2> QED BY <1>1, <1>5, <2>1, <2>2
  <1>7. PICK a \in 1..p : a = f - h
    BY <1>1, <1>4, <1>6
  <1>8. Place(f) = n + ProxyPlace[a] /\ ProxyPlace[a] \in 1..Len(ProxyNames)
    <2>1. Place(f) = n + ProxyPlace[a]
      BY <1>6, <1>7 DEF Place, h, n
    <2> QED BY <2>1, ProxiesPlaced DEF p
  <1>9. ProxyPlace[a] = i
    BY <1>1, <1>5, <1>8
  <1>10. loaded[f] = Proxies[a]
    <2>1. f = h + a
      BY <1>1, <1>4, <1>7
    <2> QED BY <2>1, BuiltFacts DEF h, p
  <1>11. loaded[f].ttl = tokens[i].ttl
    BY <1>9, <1>10, ProxiesPlaced DEF p
  <1>12. loaded[f].kind = "proxy"
    <2>1. h < f /\ f <= h + p
      BY <1>1, <1>4, <1>6
    <2> QED BY <1>4, <2>1, BuiltFacts DEF h, p
  <1> QED BY <1>4, <1>11, <1>12

LEMMA BuiltPrivateStays ==
    ASSUME environment \in Environments, Built
    PROVE  PrivateStays
  <1> DEFINE tokens == environment.buckets
             e == Nth(NamedAt(tokens))
             h == Len(loadBuckets)
  <1> SUFFICES ASSUME tokens # Unset, NEW i \in DOMAIN tokens, tokens[i].name # NoName,
                      tokens[i].visibility # "public",
                      \A j \in 1..(i - 1) : tokens[j].name # tokens[i].name
               PROVE  ~IsPublic(tokens[i].name)
    BY DEF PrivateStays
  <1> DEFINE name == tokens[i].name
             I == {j \in DOMAIN loaded : loaded[j].name = name}
             f == FirstNamed(name)
  <1>1. tokens \in Seq(Range(tokens))
    BY EnvironmentAssumption
  <1>2. loadBuckets = parseBucketsList(tokens)
    BY DEF loadBuckets
  <1>3. h \in Nat /\ DOMAIN loadBuckets = 1..h /\ Len(loaded) \in Nat /\ h <= Len(loaded)
        /\ DOMAIN loaded = 1..Len(loaded) /\ \A j \in 1..h : loaded[j] = loadBuckets[j]
    BY BuiltFacts
  <1>4. /\ e \in [1..h -> NamedAt(tokens)]
        /\ \A j \in 1..h : loadBuckets[j] = Bucket(tokens[e[j]].name, "hosted",
                                                  tokens[e[j]].visibility = "public", 0, <<>>)
        /\ \A j, k \in 1..h : j < k => e[j] < e[k]
        /\ \A k \in NamedAt(tokens) : \E j \in 1..h : e[j] = k
    BY <1>1, <1>2, <1>3, BucketsParsed
  <1>5. i \in NamedAt(tokens) /\ DOMAIN tokens = 1..Len(tokens) /\ Len(tokens) \in Nat
    BY <1>1 DEF NamedAt
  <1>6. PICK n \in 1..h : e[n] = i
    BY <1>4, <1>5
  <1>7. /\ n \in DOMAIN loaded /\ loaded[n].name = name
        /\ loaded[n].public = (tokens[i].visibility = "public")
    BY <1>3, <1>4, <1>6 DEF Bucket
  <1>8. n \in I
    BY <1>7
  <1>9. f \in I /\ f <= n
    BY <1>8, LookupFacts, BuiltFacts
  <1>10. f \in 1..h /\ f \in Nat /\ n \in Nat
    BY <1>3, <1>9
  <1>11. tokens[e[f]].name = name /\ e[f] \in DOMAIN tokens
    <2>1. loaded[f] = loadBuckets[f] /\ loaded[f].name = name
      BY <1>3, <1>9, <1>10
    <2>2. loadBuckets[f].name = tokens[e[f]].name
      <3> HIDE DEF e, f, tokens
      <3>1. loadBuckets[f] = Bucket(tokens[e[f]].name, "hosted",
                                    tokens[e[f]].visibility = "public", 0, <<>>)
        BY <1>4, <1>10
      <3> QED BY <3>1 DEF Bucket
    <2>3. e[f] \in NamedAt(tokens)
      BY <1>4, <1>10
    <2> QED BY <2>1, <2>2, <2>3 DEF NamedAt
  <1>12. ~(e[f] < i)
    <2>1. e[f] \in Nat /\ i \in Nat /\ e[f] # 0
      BY <1>5, <1>11
    <2>2. e[f] < i => e[f] \in 1..(i - 1)
      BY <2>1
    <2> QED BY <1>11, <2>2
  <1>13. f = n
    <2>1. ~(f < n)
      BY <1>4, <1>6, <1>10, <1>12
    <2> QED BY <1>9, <1>10, <2>1
  <1> QED BY <1>7, <1>13 DEF IsPublic, BucketByName
-----------------------------------------------------------------------------
\* What Load accepts is always built from the three lists: ConfigurationInv is
\* inductive.
THEOREM ConfigurationCorrect == ConfigurationSpec => []ConfigurationInv
  <1>1. ConfigurationInit => ConfigurationInv
    BY DEF ConfigurationInit, ConfigurationInv, Accepted
  <1>2. ConfigurationInv /\ [Load]_configurationVars => ConfigurationInv'
    <2> SUFFICES ASSUME ConfigurationInv, [Load]_configurationVars
                 PROVE  ConfigurationInv'
      OBVIOUS
    <2>1. CASE Load
      <3>1. environment' = environment
        BY <2>1 DEF Load
      <3>2. /\ loadBuckets' = loadBuckets /\ Proxies' = Proxies /\ Virtuals' = Virtuals
        BY <3>1 DEF loadBuckets, Proxies, Virtuals
      <3>3. CASE loaded' = LoadError
        BY <3>1, <3>3 DEF ConfigurationInv, Accepted
      <3>4. CASE loaded' # LoadError
        <4>1. /\ loaded' = allBuckets(loadBuckets, Proxies, Virtuals)
              /\ loadBuckets # LoadError /\ Proxies # LoadError
              /\ membersValid(allBuckets(loadBuckets, Proxies, Virtuals), Virtuals)
          BY <2>1, <3>4 DEF Load, Proxies, Virtuals
        <4>2. Built'
          BY <3>2, <4>1 DEF Built
        <4> QED BY <3>1, <4>2 DEF ConfigurationInv
      <3> QED BY <3>3, <3>4
    <2>2. CASE UNCHANGED configurationVars
      BY <2>2 DEF configurationVars, ConfigurationInv, Built, Accepted, loadBuckets,
                  Proxies, Virtuals
    <2> QED BY <2>1, <2>2
  <1> QED BY <1>1, <1>2, PTL DEF ConfigurationSpec

\* In an accepted configuration every member of a virtual repository is found
\* as a bucket with storage.
THEOREM MembersAlwaysServe == ConfigurationSpec => []MembersServe
  <1>1. ConfigurationInv => MembersServe
    BY BuiltMembersServe DEF ConfigurationInv, MembersServe
  <1> QED BY <1>1, ConfigurationCorrect, PTL

\* In an accepted configuration the buckets with storage rank in the order in
\* which the environment first lists their names, hosted buckets before proxies.
THEOREM RanksAlwaysAsConfigured == ConfigurationSpec => []RanksAsConfigured
  <1>1. ConfigurationInv => RanksAsConfigured
    BY BuiltRanksAsConfigured DEF ConfigurationInv, RanksAsConfigured
  <1> QED BY <1>1, ConfigurationCorrect, PTL

\* In an accepted configuration the proxy that requests find under a name has the
\* ttl of the token that lists the name first.
THEOREM TTLAlwaysEffective == ConfigurationSpec => []TTLEffective
  <1>1. ConfigurationInv => TTLEffective
    BY BuiltTTLEffective DEF ConfigurationInv, TTLEffective
  <1> QED BY <1>1, ConfigurationCorrect, PTL

\* A bucket whose first token says private is not public.
THEOREM PrivateAlwaysStays == ConfigurationSpec => []PrivateStays
  <1>1. ConfigurationInv => PrivateStays
    BY BuiltPrivateStays DEF ConfigurationInv, PrivateStays
  <1> QED BY <1>1, ConfigurationCorrect, PTL
=============================================================================
