-------------------------- MODULE PosterCacheProofs ---------------------------
(***************************************************************************)
(* The cache of posters, for any number of posters, requests and fetches,  *)
(* any cap, any interval between two looks and any number of failures.     *)
(***************************************************************************)
EXTENDS PosterCache, FiniteSetTheorems, SequenceTheorems, TLAPS

-----------------------------------------------------------------------------
(* Lists of files. *)

\* One file is older than another.
Before(s, e, f) == \E i, j \in DOMAIN s : i < j /\ s[i] = e /\ s[j] = f

\* Without an entry the others keep their order, and the first its place.
LEMMA LessIs ==
    ASSUME NEW S, NEW s \in Seq(S), IsInjective(s), NEW e
    PROVE  /\ Less(s, e) \in Seq(S) /\ IsInjective(Less(s, e))
           /\ ToSet(Less(s, e)) = ToSet(s) \ {e}
           /\ \A f, g : f # e /\ g # e /\ Before(s, f, g) => Before(Less(s, e), f, g)
           /\ s # <<>> /\ Head(s) # e => Less(s, e) # <<>> /\ Head(Less(s, e)) = Head(s)
<1>1. CASE e \notin ToSet(s)
  BY <1>1 DEF Less
<1>2. CASE e \in ToSet(s)
  <2> DEFINE n == CHOOSE i \in DOMAIN s : s[i] = e
             t == Less(s, e)
  <2>1. n \in DOMAIN s /\ s[n] = e
    BY <1>2 DEF ToSet
  <2>2. DOMAIN s = 1..Len(s) /\ Len(s) \in Nat /\ n \in 1..Len(s)
    BY <2>1
  <2>3. t = SubSeq(s, 1, n - 1) \o SubSeq(s, n + 1, Len(s))
    BY <1>2 DEF Less, RemoveAt
  <2> HIDE DEF n, t
  <2> DEFINE young == SubSeq(s, 1, n - 1)
             old == SubSeq(s, n + 1, Len(s))
  <2>4. /\ young \in Seq(S) /\ Len(young) = n - 1 /\ \A i \in 1..(n - 1) : young[i] = s[i]
        /\ old \in Seq(S) /\ Len(old) = Len(s) - n /\ \A i \in 1..(Len(s) - n) : old[i] = s[n + i]
    <3>1. \A i \in 1..Len(s) : s[i] \in S
      OBVIOUS
    <3>2. 1 \in Int /\ n - 1 \in Int /\ n + 1 \in Int /\ Len(s) \in Int
      BY <2>2
    <3>3. /\ young \in Seq(S) /\ Len(young) = IF 1 <= n - 1 THEN (n - 1) - 1 + 1 ELSE 0
          /\ \A i \in 1..((n - 1) - 1 + 1) : young[i] = s[1 + i - 1]
      BY ONLY <2>2, <3>1, <3>2, SubSeqProperties
    <3>4. /\ old \in Seq(S) /\ Len(old) = IF n + 1 <= Len(s) THEN Len(s) - (n + 1) + 1 ELSE 0
          /\ \A i \in 1..(Len(s) - (n + 1) + 1) : old[i] = s[n + 1 + i - 1]
      BY ONLY <2>2, <3>1, <3>2, SubSeqProperties
    <3>5. (n - 1) - 1 + 1 = n - 1 /\ Len(s) - (n + 1) + 1 = Len(s) - n
      BY <2>2
    <3> HIDE DEF young, old
    <3>6. ASSUME NEW i \in 1..(n - 1) PROVE young[i] = s[i]
      <4>1. 1 + i - 1 = i
        BY <2>2
      <4> QED
        BY <3>3, <3>5, <4>1
    <3>7. ASSUME NEW i \in 1..(Len(s) - n) PROVE old[i] = s[n + i]
      <4>1. n + 1 + i - 1 = n + i
        BY <2>2
      <4> QED
        BY <3>4, <3>5, <4>1
    <3>8. Len(young) = n - 1
      <4>1. CASE 1 <= n - 1
        BY <4>1, <3>3, <3>5
      <4>2. CASE ~(1 <= n - 1)
        BY <4>2, <3>3, <2>2
      <4> QED
        BY <4>1, <4>2
    <3>9. Len(old) = Len(s) - n
      <4>1. CASE n + 1 <= Len(s)
        <5>1. Len(old) = Len(s) - (n + 1) + 1
          BY <4>1, <3>4
        <5> QED
          BY <5>1, <3>5
      <4>2. CASE ~(n + 1 <= Len(s))
        <5>1. Len(old) = 0
          BY <4>2, <3>4
        <5>2. Len(s) \in Int /\ n \in Int /\ n <= Len(s) /\ ~(n + 1 <= Len(s))
          BY <4>2, <2>2
        <5>3. Len(s) - n = 0
          BY ONLY <5>2
        <5> QED
          BY <5>1, <5>3
      <4> QED
        BY <4>1, <4>2
    <3> QED
      BY <3>3, <3>4, <3>6, <3>7, <3>8, <3>9
  <2> HIDE DEF young, old
  <2>5. /\ t \in Seq(S) /\ Len(t) = Len(s) - 1 /\ DOMAIN t = 1..(Len(s) - 1)
        /\ \A i \in 1..(n - 1) : t[i] = s[i]
        /\ \A i \in n..(Len(s) - 1) : t[i] = s[i + 1]
    <3>1. /\ t \in Seq(S) /\ Len(t) = Len(young) + Len(old)
          /\ \A i \in 1..(Len(young) + Len(old)) :
                t[i] = IF i <= Len(young) THEN young[i] ELSE old[i - Len(young)]
      <4>1. t = young \o old
        BY <2>3 DEF young, old
      <4> QED
        BY ONLY <2>4, <4>1, ConcatProperties
    <3>2. Len(t) = Len(s) - 1 /\ DOMAIN t = 1..(Len(s) - 1)
      BY <2>2, <2>4, <3>1
    <3>3. ASSUME NEW i \in 1..(n - 1) PROVE t[i] = s[i]
      <4>1. i \in 1..(Len(young) + Len(old)) /\ i <= Len(young)
        BY <2>2, <2>4
      <4>2. t[i] = young[i]
        BY <3>1, <4>1
      <4> QED
        BY <4>2, <2>4
    <3>4. ASSUME NEW i \in n..(Len(s) - 1) PROVE t[i] = s[i + 1]
      <4>1. i - (n - 1) \in 1..(Len(s) - n) /\ n + (i - (n - 1)) = i + 1
        BY <2>2
      <4>2. t[i] = old[i - (n - 1)]
        <5>1. i \in 1..(Len(young) + Len(old)) /\ ~(i <= Len(young)) /\ i - Len(young) = i - (n - 1)
          <6>1. Len(young) = n - 1 /\ Len(old) = Len(s) - n
            BY <2>4
          <6> QED
            BY ONLY <6>1, <2>2, i \in n..(Len(s) - 1)
        <5> QED
          BY <3>1, <5>1
      <4> QED
        BY <4>1, <4>2, <2>4
    <3> QED
      BY <3>1, <3>2, <3>3, <3>4
  <2>6. \A i, j \in 1..Len(s) : s[i] = s[j] => i = j
    BY <2>2 DEF IsInjective
  <2>7. IsInjective(t)
    <3> SUFFICES ASSUME NEW i \in 1..(Len(s) - 1), NEW j \in 1..(Len(s) - 1), t[i] = t[j]
                 PROVE  i = j
      BY <2>5 DEF IsInjective
    <3> DEFINE u(k) == IF k < n THEN k ELSE k + 1
    <3>1. \A k \in 1..(Len(s) - 1) : t[k] = s[u(k)] /\ u(k) \in 1..Len(s)
      BY <2>2, <2>5
    <3>2. u(i) = u(j)
      BY <2>6, <3>1
    <3> QED
      BY <2>2, <3>2
  <2> DEFINE d(k) == IF k < n THEN k ELSE k - 1
  <2>8. ASSUME NEW k \in 1..Len(s), k # n PROVE d(k) \in 1..(Len(s) - 1) /\ t[d(k)] = s[k]
    <3>1. CASE k < n
      BY <3>1, <2>2, <2>5
    <3>2. CASE ~(k < n)
      <4>1. k - 1 \in n..(Len(s) - 1) /\ (k - 1) + 1 = k /\ k - 1 \in 1..(Len(s) - 1)
        BY <3>2, <2>2, <2>8
      <4> QED
        BY <4>1, <3>2, <2>5
    <3> QED
      BY <3>1, <3>2
  <2>9. ToSet(t) = ToSet(s) \ {e}
    <3>1. ASSUME NEW x \in ToSet(t) PROVE x \in ToSet(s) \ {e}
      <4>1. PICK i \in 1..(Len(s) - 1) : x = t[i]
        BY <2>5 DEF ToSet
      <4>2. CASE i < n
        <5>1. x = s[i] /\ i \in 1..Len(s) /\ i # n
          BY <4>1, <4>2, <2>2, <2>5
        <5> QED
          BY <5>1, <2>1, <2>2, <2>6 DEF ToSet
      <4>3. CASE ~(i < n)
        <5>1. x = s[i + 1] /\ i + 1 \in 1..Len(s) /\ i + 1 # n
          BY <4>1, <4>3, <2>2, <2>5
        <5> QED
          BY <5>1, <2>1, <2>2, <2>6 DEF ToSet
      <4> QED
        BY <4>2, <4>3
    <3>2. ASSUME NEW x \in ToSet(s) \ {e} PROVE x \in ToSet(t)
      <4>1. PICK k \in 1..Len(s) : x = s[k]
        BY <2>2 DEF ToSet
      <4>2. k # n
        BY <4>1, <2>1
      <4> QED
        BY <4>1, <4>2, <2>8, <2>5 DEF ToSet
    <3> QED
      BY <3>1, <3>2
  <2>10. ASSUME NEW f, NEW g, f # e, g # e, Before(s, f, g) PROVE Before(t, f, g)
    <3>1. PICK i, j \in 1..Len(s) : i < j /\ s[i] = f /\ s[j] = g
      BY <2>10, <2>2 DEF Before
    <3>2. i # n /\ j # n
      BY <3>1, <2>1, <2>10
    <3>3. d(i) < d(j) /\ d(i) \in 1..(Len(s) - 1) /\ d(j) \in 1..(Len(s) - 1)
      BY <3>1, <3>2, <2>2
    <3>4. t[d(i)] = f /\ t[d(j)] = g
      BY <3>1, <3>2, <2>8
    <3> QED
      BY <3>3, <3>4, <2>5 DEF Before
  <2>11. ASSUME s # <<>>, Head(s) # e PROVE t # <<>> /\ Head(t) = Head(s)
    <3>1. Head(s) = s[1] /\ n # 1
      BY <2>11, <2>1
    <3> QED
      BY <3>1, <2>2, <2>5
  <2> QED
    BY <2>5, <2>7, <2>9, <2>10, <2>11 DEF t
<1> QED
  BY <1>1, <1>2

\* Past its first entry a list has the others, in their order.
LEMMA TailIs ==
    ASSUME NEW S, NEW s \in Seq(S), IsInjective(s), s # <<>>
    PROVE  /\ Tail(s) \in Seq(S) /\ IsInjective(Tail(s)) /\ Head(s) \in S /\ Head(s) \in ToSet(s)
           /\ ToSet(Tail(s)) = ToSet(s) \ {Head(s)}
           /\ \A f, g : Before(s, f, g) => g # Head(s)
           /\ \A f, g : Before(s, f, g) /\ f # Head(s) => Before(Tail(s), f, g)
<1>1. /\ Len(s) \in Nat \ {0} /\ DOMAIN s = 1..Len(s) /\ Head(s) = s[1]
      /\ Tail(s) \in Seq(S) /\ Len(Tail(s)) = Len(s) - 1 /\ DOMAIN Tail(s) = 1..(Len(s) - 1)
      /\ \A i \in 1..(Len(s) - 1) : Tail(s)[i] = s[i + 1]
  OBVIOUS
<1>2. \A i, j \in 1..Len(s) : s[i] = s[j] => i = j
  BY <1>1 DEF IsInjective
<1>3. \A i \in 1..(Len(s) - 1) : i + 1 \in 1..Len(s) /\ i + 1 # 1
  BY <1>1
<1>4. IsInjective(Tail(s))
  BY <1>1, <1>2, <1>3 DEF IsInjective
<1>5. ToSet(Tail(s)) = ToSet(s) \ {Head(s)}
  <2>1. ASSUME NEW x \in ToSet(Tail(s)) PROVE x \in ToSet(s) \ {Head(s)}
    BY <1>1, <1>2, <1>3 DEF ToSet
  <2>2. ASSUME NEW x \in ToSet(s) \ {Head(s)} PROVE x \in ToSet(Tail(s))
    <3>1. PICK k \in 1..Len(s) : x = s[k]
      BY <1>1 DEF ToSet
    <3>2. k - 1 \in 1..(Len(s) - 1) /\ Tail(s)[k - 1] = x
      BY <3>1, <1>1
    <3> QED
      BY <3>2, <1>1 DEF ToSet
  <2> QED
    BY <2>1, <2>2
<1>6. ASSUME NEW f, NEW g, Before(s, f, g)
      PROVE  g # Head(s) /\ (f # Head(s) => Before(Tail(s), f, g))
  <2>1. PICK i, j \in 1..Len(s) : i < j /\ s[i] = f /\ s[j] = g
    BY <1>6, <1>1 DEF Before
  <2>2. g # Head(s)
    BY <2>1, <1>1, <1>2
  <2>3. ASSUME f # Head(s) PROVE Before(Tail(s), f, g)
    <3>1. /\ i - 1 \in 1..(Len(s) - 1) /\ j - 1 \in 1..(Len(s) - 1) /\ i - 1 < j - 1
          /\ Tail(s)[i - 1] = f /\ Tail(s)[j - 1] = g
      BY <2>1, <2>3, <1>1
    <3> QED
      BY <3>1, <1>1 DEF Before
  <2> QED
    BY <2>2, <2>3
<1>7. Head(s) \in S /\ Head(s) \in ToSet(s)
  BY <1>1 DEF ToSet
<1> QED
  BY <1>1, <1>4, <1>5, <1>6, <1>7

\* A new file is the youngest.
LEMMA AppendIs ==
    ASSUME NEW S, NEW s \in Seq(S), IsInjective(s), NEW e \in S, e \notin ToSet(s)
    PROVE  /\ Append(s, e) \in Seq(S) /\ IsInjective(Append(s, e))
           /\ ToSet(Append(s, e)) = ToSet(s) \union {e}
           /\ \A f \in ToSet(s) : Before(Append(s, e), f, e)
           /\ \A f, g : Before(s, f, g) => Before(Append(s, e), f, g)
<1> DEFINE t == Append(s, e)
<1>1. /\ Len(s) \in Nat /\ DOMAIN s = 1..Len(s)
      /\ t \in Seq(S) /\ Len(t) = Len(s) + 1 /\ DOMAIN t = 1..(Len(s) + 1)
      /\ \A i \in 1..Len(s) : t[i] = s[i]
      /\ t[Len(s) + 1] = e
  OBVIOUS
<1> HIDE DEF t
<1>2. \A i \in 1..(Len(s) + 1) : i \in 1..Len(s) \/ i = Len(s) + 1
  BY <1>1
<1>3. \A i \in 1..Len(s) : s[i] # e /\ i \in 1..(Len(s) + 1) /\ i < Len(s) + 1
  BY <1>1 DEF ToSet
<1>4. IsInjective(t)
  BY <1>1, <1>2, <1>3 DEF IsInjective
<1>5. ToSet(t) = ToSet(s) \union {e}
  <2>1. ToSet(t) \subseteq ToSet(s) \union {e}
    BY <1>1, <1>2 DEF ToSet
  <2>2. e \in ToSet(t)
    BY <1>1 DEF ToSet
  <2>3. ToSet(s) \subseteq ToSet(t)
    BY <1>1, <1>3 DEF ToSet
  <2> QED
    BY <2>1, <2>2, <2>3
<1>6. ASSUME NEW f \in ToSet(s) PROVE Before(t, f, e)
  <2>1. PICK i \in 1..Len(s) : f = s[i]
    BY <1>1 DEF ToSet
  <2>2. i \in DOMAIN t /\ Len(s) + 1 \in DOMAIN t /\ i < Len(s) + 1 /\ t[i] = f
    BY <1>1, <2>1
  <2> QED
    BY <2>2, <1>1 DEF Before
<1>7. ASSUME NEW f, NEW g, Before(s, f, g) PROVE Before(t, f, g)
  BY <1>1, <1>3, <1>7 DEF Before
<1> QED
  BY <1>1, <1>4, <1>5, <1>6, <1>7 DEF t

\* A file that is renamed takes the place of another and keeps its own age.
LEMMA RenamedIs ==
    ASSUME NEW S, dir \in Seq(S), IsInjective(dir), NEW e, There(e), NEW f \in S, e # f
    PROVE  /\ Renamed(e, f) \in Seq(S) /\ IsInjective(Renamed(e, f))
           /\ ToSet(Renamed(e, f)) = (ToSet(dir) \ {e, f}) \union {f}
           /\ \A g, h : {g, h} \intersect {e, f} = {} /\ Before(dir, g, h)
                           => Before(Renamed(e, f), g, h)
<1> DEFINE rest == Less(dir, f)
           t == Renamed(e, f)
<1>1. /\ rest \in Seq(S) /\ IsInjective(rest) /\ ToSet(rest) = ToSet(dir) \ {f}
      /\ \A g, h : g # f /\ h # f /\ Before(dir, g, h) => Before(rest, g, h)
  BY LessIs
<1>2. t = [i \in DOMAIN rest |-> IF rest[i] = e THEN f ELSE rest[i]]
  BY DEF Renamed
<1> HIDE DEF rest, t
<1>3. /\ DOMAIN rest = 1..Len(rest) /\ Len(rest) \in Nat /\ DOMAIN t = DOMAIN rest
      /\ \A i \in DOMAIN rest : rest[i] \in S /\ rest[i] # f /\ t[i] \in S
      /\ \A i \in DOMAIN rest : t[i] = IF rest[i] = e THEN f ELSE rest[i]
  <2>1. \A i \in DOMAIN rest : rest[i] \in ToSet(rest)
    BY DEF ToSet
  <2> QED
    BY <1>1, <1>2, <2>1
<1>4. t \in Seq(S)
  BY <1>2, <1>3
<1>5. IsInjective(t)
  BY <1>1, <1>3 DEF IsInjective
<1>6. ToSet(t) = (ToSet(dir) \ {e, f}) \union {f}
  <2>1. PICK n \in DOMAIN rest : rest[n] = e
    BY <1>1 DEF There, ToSet
  <2>2. f \in ToSet(t) /\ f # e
    BY <2>1, <1>3 DEF ToSet
  <2>3. ASSUME NEW x \in ToSet(t), x # f PROVE x \in ToSet(rest) \ {e}
    BY <2>3, <1>3 DEF ToSet
  <2>4. ASSUME NEW x \in ToSet(rest) \ {e} PROVE x \in ToSet(t)
    BY <2>4, <1>3 DEF ToSet
  <2> QED
    BY <2>2, <2>3, <2>4, <1>1
<1>7. ASSUME NEW g, NEW h, {g, h} \intersect {e, f} = {}, Before(dir, g, h) PROVE Before(t, g, h)
  <2>1. PICK i, j \in DOMAIN rest : i < j /\ rest[i] = g /\ rest[j] = h
    BY <1>1, <1>7 DEF Before
  <2> QED
    BY <2>1, <1>3, <1>7 DEF Before
<1> QED
  BY <1>4, <1>5, <1>6, <1>7 DEF t
-----------------------------------------------------------------------------
(* The invariant. *)

\* Whether a file under another name is there tells how far its request is; and the sweep
\* never has before it a name that has still to be used.
NamesFit ==
    /\ mishaps \in 0..MaxMishaps /\ leaked \in Nat /\ IsInjective(list)
    /\ \A v \in Viewers :
          /\ There(Temp(v)) => ViewerAt(v, "image")
          /\ There(MimeTemp(v)) => ViewerAt(v, "mime")
          /\ Temp(v) \in ToSet(list) => ~ViewerAt(v, "temp")
          /\ MimeTemp(v) \in ToSet(list) => viewer[v].step \notin {"temp", "image", "mime temp"}
    /\ \A n \in 1..MaxMishaps : Part(n) \in ToSet(dir) \union ToSet(list) => n <= mishaps

\* One request sweeps, and what it has just removed was an image.
SweepFits ==
    /\ \A v \in Viewers : sweeper = v <=> viewer[v].step \in {"walk", "sweep", "beside"}
    /\ \A v \in Viewers : ViewerAt(v, "beside") => list # <<>> /\ \E k \in Posters : Head(list) = Image(k)

Sweeping == \E v \in Viewers : viewer[v].step \in {"sweep", "beside"}

\* What the sweep has still to come to.
Ahead == IF \E v \in Viewers : ViewerAt(v, "beside") THEN ToSet(Tail(list)) ELSE ToSet(list)

\* Requests whose image came after the walk, or has been renamed since.
Fresh == {v \in Viewers : \/ ViewerAt(v, "image") /\ There(Temp(v)) /\ Temp(v) \notin ToSet(list)
                          \/ viewer[v].step \in {"mime temp", "mime", "count"}}

Images(s) == {e \in ToSet(s) : Size(e) = 1}
Booked    == counter + Cardinality(Fresh) + leaked

\* What is there beyond the cap, or beyond what the sweep knows of, is booked.
SizesFit ==
    /\ sweeper = Nobody => Total(dir) <= Cap + Booked
    /\ Sweeping => Total(dir) <= over + Booked /\ Cardinality(Images(dir) \ Ahead) <= Booked

\* The type on record was there before the one that is to replace it, for the sweep as well.
Older(k, v) ==
    /\ Before(dir, Mime(k), MimeTemp(v))
    /\ MimeTemp(v) \in ToSet(list) => Before(list, Mime(k), MimeTemp(v))

\* A poster with one writer at most: the type on record is that of the image or is about
\* to go, the older file before the newer.
TypeFits(k) ==
    /\ \A u, v \in WritersOf(k) : u = v
    /\ \A v \in WritersOf(k) : viewer[v].step \in {"mime temp", "mime"}
                                  => type[k] \in {viewer[v].type, NoType}
    /\ \A v \in WritersOf(k) : ViewerAt(v, "mime") /\ mime[k] # NoType => Older(k, v)
    /\ (\A v \in WritersOf(k) : viewer[v].step \in {"temp", "image"})
          => type[k] = NoType \/ mime[k] = NoType \/ mime[k] = type[k]

TypesFit ==
    /\ \A k \in Posters : mime[k] # NoType => There(Mime(k))
    /\ \A v \in Viewers : viewer[v].step \in WriteSteps => viewer[v].type \in Types
    /\ \A k \in Posters \ mixed : TypeFits(k)

PostersInv == PosterTypeOK /\ NamesFit /\ SweepFits /\ SizesFit /\ TypesFit

-----------------------------------------------------------------------------
(* Names, and who moves. *)

\* Names of different kinds differ, and a name has one owner.
LEMMA NamesDiffer ==
    \A a, b :
        /\ Image(a) \notin {Temp(b), MimeTemp(b), Part(b)}
        /\ Mime(a) \notin {Temp(b), MimeTemp(b), Part(b)}
        /\ Temp(a) \notin {MimeTemp(b), Part(b)} /\ MimeTemp(a) # Part(b) /\ Image(a) # Mime(b)
        /\ (Image(a) = Image(b) => a = b) /\ (Mime(a) = Mime(b) => a = b)
        /\ (Temp(a) = Temp(b) => a = b) /\ (MimeTemp(a) = MimeTemp(b) => a = b)
        /\ (Part(a) = Part(b) => a = b)
        /\ Size(Image(a)) = 1 /\ Size(Temp(a)) = 1 /\ Size(Part(a)) = 1
        /\ Size(Mime(a)) = 0 /\ Size(MimeTemp(a)) = 0
BY DEF Image, Mime, Temp, MimeTemp, Part, Size

\* Every file is of one of five kinds.
LEMMA KindsOfEntries ==
    /\ \A k \in Posters : Image(k) \in Entries /\ Mime(k) \in Entries
    /\ \A v \in Viewers : Temp(v) \in Entries /\ MimeTemp(v) \in Entries
    /\ \A n \in 1..MaxMishaps : Part(n) \in Entries
    /\ \A e \in Entries :
          \/ \E k \in Posters : e = Image(k) \/ e = Mime(k)
          \/ \E v \in Viewers : e = Temp(v) \/ e = MimeTemp(v)
          \/ \E n \in 1..MaxMishaps : e = Part(n)
    /\ \A e \in Entries : Size(e) \in {0, 1}
    /\ \A e \in Entries : e[1] = "image" => e[2] \in Posters /\ e = Image(e[2])
    /\ \A e \in Entries : e[1] = "mime" => e[2] \in Posters /\ e = Mime(e[2])
    /\ \A k : Image(k)[1] = "image" /\ Image(k)[2] = k /\ Mime(k)[1] = "mime" /\ Mime(k)[2] = k
<1>1. \A e \in Entries :
          \/ \E k \in Posters : e = Image(k) \/ e = Mime(k)
          \/ \E v \in Viewers : e = Temp(v) \/ e = MimeTemp(v)
          \/ \E n \in 1..MaxMishaps : e = Part(n)
  BY DEF Entries
<1>2. \A k : Image(k)[1] = "image" /\ Image(k)[2] = k /\ Mime(k)[1] = "mime" /\ Mime(k)[2] = k
  BY DEF Image, Mime
<1>3. ASSUME NEW e \in Entries
      PROVE  /\ e[1] = "image" => e[2] \in Posters /\ e = Image(e[2])
             /\ e[1] = "mime" => e[2] \in Posters /\ e = Mime(e[2])
  <2>1. \A a : /\ Temp(a)[1] = "temp" /\ MimeTemp(a)[1] = "mime temp" /\ Part(a)[1] = "part"
               /\ Image(a)[1] = "image" /\ Image(a)[2] = a /\ Mime(a)[1] = "mime" /\ Mime(a)[2] = a
    BY DEF Image, Mime, Temp, MimeTemp, Part
  <2>2. CASE \E k \in Posters : e = Image(k) \/ e = Mime(k)
    <3>1. PICK k \in Posters : e = Image(k) \/ e = Mime(k)
      BY <2>2
    <3>2. CASE e = Image(k)
      BY <3>2, <2>1
    <3>3. CASE e = Mime(k)
      BY <3>3, <2>1
    <3> QED
      BY <3>1, <3>2, <3>3
  <2>3. CASE \E b : e = Temp(b) \/ e = MimeTemp(b) \/ e = Part(b)
    BY <2>1, <2>3
  <2> QED
    BY <1>1, <2>2, <2>3
<1>4. \A e \in Entries : Size(e) \in {0, 1}
  BY DEF Size
<1>5. /\ \A k \in Posters : Image(k) \in Entries /\ Mime(k) \in Entries
      /\ \A v \in Viewers : Temp(v) \in Entries /\ MimeTemp(v) \in Entries
      /\ \A n \in 1..MaxMishaps : Part(n) \in Entries
  BY DEF Entries
<1> QED
  BY <1>1, <1>2, <1>3, <1>4, <1>5

ViewerRecords ==
    [step : {"look", "read", "type", "fetch", "walk", "sweep", "beside"} \union WriteSteps,
     poster : Posters, type : Types \union {NoType}]

\* A step is that of one request, and leaves it what a request can be.
LEMMA OneViewerMoves ==
    ASSUME PosterTypeOK, NEW v \in Viewers, ViewerStep(v)
    PROVE  /\ viewer' \in [Viewers -> ViewerRecords \union {Away}]
           /\ \A u \in Viewers \ {v} : viewer'[u] = viewer[u]
<1>1. viewer \in [Viewers -> ViewerRecords \union {Away}]
  BY DEF PosterTypeOK, ViewerRecords
<1>2. Away \in ViewerRecords \union {Away} /\ Away.step = "away"
  BY DEF Away
<1>3. ASSUME NEW s, GoTo(v, s), s \in {"look", "read", "type", "fetch", "walk", "sweep", "beside"} \union WriteSteps,
             ~ViewerAt(v, "away")
      PROVE  /\ viewer' \in [Viewers -> ViewerRecords \union {Away}]
             /\ \A u \in Viewers \ {v} : viewer'[u] = viewer[u]
  <2>1. viewer[v] \in ViewerRecords
    BY <1>1, <1>2, <1>3 DEF ViewerAt
  <2>2. [viewer[v] EXCEPT !.step = s] \in ViewerRecords
    BY <2>1, <1>3 DEF ViewerRecords
  <2> QED
    BY <2>2, <1>1, <1>3 DEF GoTo
<1>4. ASSUME Leave(v)
      PROVE  /\ viewer' \in [Viewers -> ViewerRecords \union {Away}]
             /\ \A u \in Viewers \ {v} : viewer'[u] = viewer[u]
  BY <1>1, <1>2, <1>4 DEF Leave
<1>5. CASE \E k \in Posters : AskPoster(v, k)
  <2>1. PICK k \in Posters : AskPoster(v, k)
    BY <1>5
  <2>2. [step |-> "look", poster |-> k, type |-> NoType] \in ViewerRecords
    BY DEF ViewerRecords
  <2> QED
    BY <2>1, <2>2, <1>1 DEF AskPoster
<1>6. CASE FetchPoster(v)
  <2>1. PICK t \in Types : viewer' = [viewer EXCEPT ![v].step = "temp", ![v].type = t]
    BY <1>6 DEF FetchPoster
  <2>2. viewer[v] \in ViewerRecords
    BY <1>1, <1>2, <1>6 DEF FetchPoster, ViewerAt
  <2>3. [viewer[v] EXCEPT !.step = "temp", !.type = t] \in ViewerRecords
    BY <2>2 DEF ViewerRecords, WriteSteps
  <2> QED
    BY <2>1, <2>3, <1>1
<1>7. CASE UNCHANGED viewer
  BY <1>1, <1>7
<1>8. CASE LookUp(v) \/ ReadImage(v) \/ ReadType(v) \/ NoPoster(v)
  BY <1>3, <1>4, <1>8 DEF LookUp, ReadImage, ReadType, NoPoster, ViewerAt
<1>9. CASE WriteTemp(v) \/ ReplaceImage(v) \/ WriteMimeTemp(v) \/ ReplaceMime(v)
  BY <1>3, <1>4, <1>9 DEF WriteTemp, ReplaceImage, WriteMimeTemp, ReplaceMime, ViewerAt, WriteSteps
<1>10. CASE CountWrite(v) \/ Walk(v) \/ EndSweep(v)
  BY <1>3, <1>4, <1>10 DEF CountWrite, Trips, Walk, EndSweep, Release, ViewerAt
<1>11. CASE SweepEntry(v) \/ SweepBeside(v)
  BY <1>3, <1>7, <1>11 DEF SweepEntry, SweepBeside, ViewerAt
<1> QED
  BY <1>5, <1>6, <1>8, <1>9, <1>10, <1>11 DEF ViewerStep

-----------------------------------------------------------------------------
(* What the steps do to the directory. *)

Calm  == {"away", "look", "read", "type", "fetch"}
Hence(v, s) == viewer'[v].step = s /\ Poster(v)' = Poster(v) /\ viewer'[v].type = viewer[v].type
SameFiles == UNCHANGED <<dir, list>>
Stays == UNCHANGED <<counter, sweeper, over>>

\* Looking for a poster, reading it and giving up change nothing.
LEMMA CalmSteps ==
    ASSUME PosterTypeOK, NEW v \in Viewers,
           \/ LookUp(v) \/ ReadImage(v) \/ ReadType(v) \/ NoPoster(v)
           \/ \E k \in Posters : AskPoster(v, k)
    PROVE  /\ SameFiles /\ Stays /\ UNCHANGED <<type, mime, mishaps, mixed, leaked>>
           /\ viewer[v].step \in Calm /\ viewer'[v].step \in Calm
<1>1. viewer \in [Viewers -> ViewerRecords \union {Away}] /\ Away.step = "away"
  BY DEF PosterTypeOK, ViewerRecords, Away
<1>2. CASE LookUp(v)
  BY <1>1, <1>2 DEF LookUp, GoTo, ViewerAt, Calm, Keeps, SameFiles, Stays, ViewerRecords
<1>3. CASE ReadImage(v)
  BY <1>1, <1>3 DEF ReadImage, GoTo, Leave, ViewerAt, Calm, Keeps, SameFiles, Stays, ViewerRecords
<1>4. CASE ReadType(v) \/ NoPoster(v)
  BY <1>1, <1>4 DEF ReadType, NoPoster, Leave, ViewerAt, Calm, Keeps, SameFiles, Stays
<1>5. CASE \E k \in Posters : AskPoster(v, k)
  BY <1>1, <1>5 DEF AskPoster, ViewerAt, Calm, Keeps, SameFiles, Stays
<1> QED
  BY <1>2, <1>3, <1>4, <1>5

\* A step of a request that goes on keeps its poster and type.
LEMMA GoesOn ==
    ASSUME PosterTypeOK, NEW v \in Viewers, NEW s, GoTo(v, s), ~ViewerAt(v, "away")
    PROVE  viewer[v] \in ViewerRecords /\ Hence(v, s)
<1>1. viewer \in [Viewers -> ViewerRecords \union {Away}] /\ Away.step = "away"
  BY DEF PosterTypeOK, ViewerRecords, Away
<1>2. viewer[v] \in ViewerRecords
  BY <1>1 DEF ViewerAt
<1> QED
  BY <1>1, <1>2 DEF GoTo, Hence, Poster, ViewerRecords

LEMMA Leaves ==
    ASSUME PosterTypeOK, NEW v \in Viewers, Leave(v)
    PROVE  viewer'[v].step = "away"
BY DEF Leave, Away, PosterTypeOK

\* A fetch forgets the last names of its request.
LEMMA FetchDoes ==
    ASSUME PosterTypeOK, NamesFit, NEW v \in Viewers, FetchPoster(v)
    PROVE  /\ Stays /\ UNCHANGED <<dir, type, mime, mishaps, leaked>>
           /\ viewer[v].step = "fetch" /\ viewer'[v].step = "temp" /\ viewer'[v].type \in Types
           /\ Poster(v)' = Poster(v) /\ Poster(v) \in Posters
           /\ mixed' = IF WritersOf(Poster(v)) # {} THEN mixed \union {Poster(v)} ELSE mixed
           /\ list' \in Seq(Entries) /\ IsInjective(list')
           /\ ToSet(list') = ToSet(list) \ {Temp(v), MimeTemp(v)}
           /\ \A g, h : {g, h} \intersect {Temp(v), MimeTemp(v)} = {} /\ Before(list, g, h)
                           => Before(list', g, h)
           /\ list # <<>> /\ Head(list) \notin {Temp(v), MimeTemp(v)}
                => list' # <<>> /\ Head(list') = Head(list)
<1>1. viewer[v] \in ViewerRecords /\ viewer[v].step = "fetch"
  <2>1. viewer[v] \in ViewerRecords \union {Away} /\ Away.step = "away" /\ viewer[v].step = "fetch"
    BY DEF PosterTypeOK, ViewerRecords, Away, FetchPoster, ViewerAt
  <2> QED
    BY <2>1
<1>2. PICK t \in Types : viewer' = [viewer EXCEPT ![v].step = "temp", ![v].type = t]
  BY DEF FetchPoster
<1>3. viewer'[v] = [viewer[v] EXCEPT !.step = "temp", !.type = t]
  BY <1>2 DEF PosterTypeOK
<1>4. /\ viewer'[v].step = "temp" /\ viewer'[v].type = t
      /\ viewer'[v].poster = viewer[v].poster /\ viewer[v].poster \in Posters
  BY <1>1, <1>3 DEF ViewerRecords
<1> DEFINE first == Less(list, Temp(v))
<1>5. list \in Seq(Entries) /\ IsInjective(list)
  BY DEF PosterTypeOK, NamesFit
<1>6. /\ first \in Seq(Entries) /\ IsInjective(first) /\ ToSet(first) = ToSet(list) \ {Temp(v)}
      /\ \A g, h : g # Temp(v) /\ h # Temp(v) /\ Before(list, g, h) => Before(first, g, h)
      /\ list # <<>> /\ Head(list) # Temp(v) => first # <<>> /\ Head(first) = Head(list)
  BY <1>5, LessIs
<1>7. list' = Less(first, MimeTemp(v))
  BY DEF FetchPoster
<1> HIDE DEF first
<1>8. /\ list' \in Seq(Entries) /\ IsInjective(list') /\ ToSet(list') = ToSet(first) \ {MimeTemp(v)}
      /\ \A g, h : g # MimeTemp(v) /\ h # MimeTemp(v) /\ Before(first, g, h) => Before(list', g, h)
      /\ first # <<>> /\ Head(first) # MimeTemp(v) => list' # <<>> /\ Head(list') = Head(first)
  BY <1>6, <1>7, LessIs
<1>9. \A g, h : {g, h} \intersect {Temp(v), MimeTemp(v)} = {} /\ Before(list, g, h)
                  => Before(list', g, h)
  BY <1>6, <1>8
<1>10. ToSet(list') = ToSet(list) \ {Temp(v), MimeTemp(v)}
  BY <1>6, <1>8
<1>11. /\ Stays /\ UNCHANGED <<dir, type, mime, mishaps, leaked>>
       /\ mixed' = IF WritersOf(Poster(v)) # {} THEN mixed \union {Poster(v)} ELSE mixed
  BY DEF FetchPoster, Stays
<1>12. list # <<>> /\ Head(list) \notin {Temp(v), MimeTemp(v)} => list' # <<>> /\ Head(list') = Head(list)
  BY <1>6, <1>8
<1> QED
  BY <1>1, <1>4, <1>8, <1>9, <1>10, <1>11, <1>12 DEF Poster

\* What is written is a new file, under the name of its request or a name for good.
LEMMA WriteTempDoes ==
    ASSUME PosterTypeOK, NamesFit, NEW v \in Viewers, WriteTemp(v)
    PROVE  /\ Stays /\ UNCHANGED <<list, type, mime, mixed>> /\ viewer[v].step = "temp"
           /\ \E e \in Entries :
                /\ e \notin ToSet(dir) \union ToSet(list)
                /\ dir' \in Seq(Entries) /\ IsInjective(dir')
                /\ ToSet(dir') = ToSet(dir) \union {e}
                /\ \A g, h : Before(dir, g, h) => Before(dir', g, h)
                /\ \/ e = Temp(v) /\ Hence(v, "image") /\ UNCHANGED <<mishaps, leaked>>
                   \/ /\ e = Part(mishaps + 1) /\ viewer'[v].step = "away"
                      /\ mishaps' = mishaps + 1 /\ mishaps + 1 \in 1..MaxMishaps /\ leaked' = leaked + 1
<1>1. /\ Stays /\ UNCHANGED <<list, type, mime, mixed>> /\ viewer[v].step = "temp"
      /\ ~ViewerAt(v, "away") /\ ~ViewerAt(v, "image")
  BY DEF WriteTemp, Keeps, Stays, ViewerAt
<1>2. dir \in Seq(Entries) /\ IsInjective(dir) /\ mishaps \in 0..MaxMishaps /\ MaxMishaps \in Nat
  BY CacheAssumption DEF PosterTypeOK, NamesFit
<1>3. CASE dir' = Append(dir, Temp(v)) /\ GoTo(v, "image") /\ UNCHANGED <<mishaps, leaked>>
  <2>1. Temp(v) \in Entries /\ Temp(v) \notin ToSet(dir) \union ToSet(list)
    BY <1>1, KindsOfEntries DEF NamesFit, There, ViewerAt
  <2>2. /\ dir' \in Seq(Entries) /\ IsInjective(dir') /\ ToSet(dir') = ToSet(dir) \union {Temp(v)}
        /\ \A g, h : Before(dir, g, h) => Before(dir', g, h)
    BY <1>2, <1>3, <2>1, AppendIs
  <2>3. Hence(v, "image")
    BY <1>1, <1>3, GoesOn
  <2> QED
    BY <1>1, <1>3, <2>1, <2>2, <2>3
<1>4. CASE Mishap /\ Leave(v) /\ dir' = Append(dir, Part(mishaps + 1)) /\ leaked' = leaked + 1
  <2>1. mishaps' = mishaps + 1 /\ mishaps + 1 \in 1..MaxMishaps /\ ~(mishaps + 1 <= mishaps)
    BY <1>2, <1>4 DEF Mishap
  <2>2. Part(mishaps + 1) \in Entries /\ Part(mishaps + 1) \notin ToSet(dir) \union ToSet(list)
    BY <2>1, KindsOfEntries DEF NamesFit
  <2>3. /\ dir' \in Seq(Entries) /\ IsInjective(dir') /\ ToSet(dir') = ToSet(dir) \union {Part(mishaps + 1)}
        /\ \A g, h : Before(dir, g, h) => Before(dir', g, h)
    BY <1>2, <1>4, <2>2, AppendIs
  <2>4. viewer'[v].step = "away"
    BY <1>4, Leaves
  <2> QED
    BY <1>1, <1>4, <2>1, <2>2, <2>3, <2>4
<1> QED
  BY <1>3, <1>4 DEF WriteTemp

LEMMA ReplaceImageDoes ==
    ASSUME PosterTypeOK, NamesFit, NEW v \in Viewers, ReplaceImage(v)
    PROVE  /\ Stays /\ UNCHANGED <<list, mime, mixed, mishaps, leaked>> /\ viewer[v].step = "image"
           /\ Poster(v) \in Posters
           /\ \/ /\ There(Temp(v)) /\ Hence(v, "mime temp")
                 /\ type' = [type EXCEPT ![Poster(v)] = viewer[v].type]
                 /\ dir' \in Seq(Entries) /\ IsInjective(dir')
                 /\ ToSet(dir') = (ToSet(dir) \ {Temp(v), Image(Poster(v))}) \union {Image(Poster(v))}
                 /\ \A g, h : {g, h} \intersect {Temp(v), Image(Poster(v))} = {} /\ Before(dir, g, h)
                                 => Before(dir', g, h)
              \/ ~There(Temp(v)) /\ viewer'[v].step = "away" /\ UNCHANGED <<dir, type>>
<1>1. /\ Stays /\ UNCHANGED <<list, mime, mixed, mishaps, leaked>> /\ viewer[v].step = "image"
      /\ ~ViewerAt(v, "away")
  BY DEF ReplaceImage, Keeps, Stays, ViewerAt
<1>2. Poster(v) \in Posters
  <2>1. viewer[v] \in ViewerRecords \union {Away} /\ Away.step = "away"
    BY DEF PosterTypeOK, ViewerRecords, Away
  <2> QED
    BY <1>1, <2>1 DEF Poster, ViewerRecords
<1>3. CASE There(Temp(v))
  <2>1. /\ dir' = Renamed(Temp(v), Image(Poster(v))) /\ GoTo(v, "mime temp")
        /\ type' = [type EXCEPT ![Poster(v)] = viewer[v].type]
    BY <1>3 DEF ReplaceImage
  <2>2. Hence(v, "mime temp")
    BY <1>1, <2>1, GoesOn
  <2>3. Image(Poster(v)) \in Entries /\ Temp(v) # Image(Poster(v))
    BY <1>2, KindsOfEntries, NamesDiffer
  <2>4. /\ dir' \in Seq(Entries) /\ IsInjective(dir')
        /\ ToSet(dir') = (ToSet(dir) \ {Temp(v), Image(Poster(v))}) \union {Image(Poster(v))}
        /\ \A g, h : {g, h} \intersect {Temp(v), Image(Poster(v))} = {} /\ Before(dir, g, h)
                                 => Before(dir', g, h)
    BY <1>3, <2>1, <2>3, RenamedIs DEF PosterTypeOK
  <2> QED
    BY <1>1, <1>2, <1>3, <2>1, <2>2, <2>4
<1>4. CASE ~There(Temp(v))
  <2>1. Leave(v) /\ UNCHANGED <<dir, type>>
    BY <1>4 DEF ReplaceImage
  <2>2. viewer'[v].step = "away"
    BY <2>1, Leaves
  <2> QED
    BY <1>1, <1>2, <1>4, <2>1, <2>2
<1> QED
  BY <1>3, <1>4

LEMMA WriteMimeTempDoes ==
    ASSUME PosterTypeOK, NamesFit, NEW v \in Viewers, WriteMimeTemp(v)
    PROVE  /\ Stays /\ UNCHANGED <<list, type, mime, leaked>> /\ viewer[v].step = "mime temp"
           /\ Poster(v) \in Posters
           /\ \/ /\ Hence(v, "mime") /\ UNCHANGED <<mishaps, mixed>>
                 /\ dir' \in Seq(Entries) /\ IsInjective(dir')
                 /\ ToSet(dir') = ToSet(dir) \union {MimeTemp(v)} /\ ~There(MimeTemp(v))
                 /\ \A g, h : Before(dir, g, h) => Before(dir', g, h)
                 /\ \A g : There(g) => Before(dir', g, MimeTemp(v))
              \/ /\ Hence(v, "count") /\ mixed' = mixed \union {Poster(v)} /\ UNCHANGED dir
                 /\ mishaps' = mishaps + 1 /\ mishaps + 1 \in 1..MaxMishaps
<1>1. /\ Stays /\ UNCHANGED <<list, type, mime, leaked>> /\ viewer[v].step = "mime temp"
      /\ ~ViewerAt(v, "away") /\ ~ViewerAt(v, "mime")
  BY DEF WriteMimeTemp, Keeps, Stays, ViewerAt
<1>2. Poster(v) \in Posters
  <2>1. viewer[v] \in ViewerRecords \union {Away} /\ Away.step = "away"
    BY DEF PosterTypeOK, ViewerRecords, Away
  <2> QED
    BY <1>1, <2>1 DEF Poster, ViewerRecords
<1>3. dir \in Seq(Entries) /\ IsInjective(dir) /\ mishaps \in 0..MaxMishaps /\ MaxMishaps \in Nat
  BY CacheAssumption DEF PosterTypeOK, NamesFit
<1>4. CASE dir' = Append(dir, MimeTemp(v)) /\ GoTo(v, "mime") /\ UNCHANGED <<mishaps, mixed>>
  <2>1. MimeTemp(v) \in Entries /\ MimeTemp(v) \notin ToSet(dir)
    BY <1>1, KindsOfEntries DEF NamesFit, There
  <2>2. /\ dir' \in Seq(Entries) /\ IsInjective(dir') /\ ToSet(dir') = ToSet(dir) \union {MimeTemp(v)}
        /\ \A g, h : Before(dir, g, h) => Before(dir', g, h)
        /\ \A g \in ToSet(dir) : Before(dir', g, MimeTemp(v))
    BY <1>3, <1>4, <2>1, AppendIs
  <2>3. Hence(v, "mime")
    BY <1>1, <1>4, GoesOn
  <2> QED
    BY <1>1, <1>2, <1>4, <2>1, <2>2, <2>3 DEF There
<1>5. CASE Mishap /\ GoTo(v, "count") /\ mixed' = mixed \union {Poster(v)} /\ UNCHANGED dir
  <2>1. mishaps' = mishaps + 1 /\ mishaps + 1 \in 1..MaxMishaps
    BY <1>3, <1>5 DEF Mishap
  <2>2. Hence(v, "count")
    BY <1>1, <1>5, GoesOn
  <2> QED
    BY <1>1, <1>2, <1>5, <2>1, <2>2
<1> QED
  BY <1>4, <1>5 DEF WriteMimeTemp

LEMMA ReplaceMimeDoes ==
    ASSUME PosterTypeOK, NamesFit, NEW v \in Viewers, ReplaceMime(v)
    PROVE  /\ Stays /\ UNCHANGED <<list, type, mixed, mishaps, leaked>> /\ viewer[v].step = "mime"
           /\ Hence(v, "count") /\ Poster(v) \in Posters
           /\ \/ /\ There(MimeTemp(v)) /\ mime' = [mime EXCEPT ![Poster(v)] = viewer[v].type]
                 /\ dir' \in Seq(Entries) /\ IsInjective(dir')
                 /\ ToSet(dir') = (ToSet(dir) \ {MimeTemp(v), Mime(Poster(v))}) \union {Mime(Poster(v))}
                 /\ \A g, h : {g, h} \intersect {MimeTemp(v), Mime(Poster(v))} = {} /\ Before(dir, g, h)
                                 => Before(dir', g, h)
              \/ ~There(MimeTemp(v)) /\ UNCHANGED <<dir, mime>>
<1>1. /\ Stays /\ UNCHANGED <<list, type, mixed, mishaps, leaked>> /\ viewer[v].step = "mime"
      /\ ~ViewerAt(v, "away") /\ GoTo(v, "count")
  BY DEF ReplaceMime, Keeps, Stays, ViewerAt
<1>2. viewer[v] \in ViewerRecords /\ Hence(v, "count")
  BY <1>1, GoesOn
<1>3. Poster(v) \in Posters
  BY <1>2 DEF Poster, ViewerRecords
<1>4. CASE There(MimeTemp(v))
  <2>1. /\ dir' = Renamed(MimeTemp(v), Mime(Poster(v)))
        /\ mime' = [mime EXCEPT ![Poster(v)] = viewer[v].type]
    BY <1>4 DEF ReplaceMime
  <2>2. Mime(Poster(v)) \in Entries /\ MimeTemp(v) # Mime(Poster(v))
    BY <1>3, KindsOfEntries, NamesDiffer
  <2>3. /\ dir' \in Seq(Entries) /\ IsInjective(dir')
        /\ ToSet(dir') = (ToSet(dir) \ {MimeTemp(v), Mime(Poster(v))}) \union {Mime(Poster(v))}
        /\ \A g, h : {g, h} \intersect {MimeTemp(v), Mime(Poster(v))} = {} /\ Before(dir, g, h)
                                 => Before(dir', g, h)
    BY <1>4, <2>1, <2>2, RenamedIs DEF PosterTypeOK
  <2> QED
    BY <1>1, <1>2, <1>3, <1>4, <2>1, <2>3
<1>5. CASE ~There(MimeTemp(v))
  BY <1>1, <1>2, <1>3, <1>5 DEF ReplaceMime
<1> QED
  BY <1>4, <1>5

\* The count, and the walk if it is due and nobody else walks.
LEMMA CountDoes ==
    ASSUME PosterTypeOK, SweepFits, NEW v \in Viewers, CountWrite(v)
    PROVE  /\ SameFiles /\ UNCHANGED <<type, mime, over, mishaps, mixed, leaked>>
           /\ viewer[v].step = "count"
           /\ \/ /\ sweeper = Nobody /\ sweeper' = v /\ counter' = 0 /\ viewer'[v].step = "walk"
              \/ /\ UNCHANGED sweeper /\ counter' = counter + 1 /\ viewer'[v].step = "away"
<1>1. /\ SameFiles /\ UNCHANGED <<type, mime, over, mishaps, mixed, leaked>>
      /\ viewer[v].step = "count" /\ ~ViewerAt(v, "away")
  BY DEF CountWrite, SameFiles, ViewerAt
<1>2. CASE sweeper = Nobody /\ sweeper' = v /\ GoTo(v, "walk") /\ counter' = 0
  BY <1>1, <1>2, GoesOn DEF Hence
<1>3. CASE Leave(v) /\ counter' = counter + 1 /\ UNCHANGED sweeper
  BY <1>1, <1>3, Leaves
<1> QED
  BY <1>2, <1>3 DEF CountWrite, Trips

LEMMA WalkDoes ==
    ASSUME PosterTypeOK, NEW v \in Viewers, Walk(v)
    PROVE  /\ UNCHANGED <<dir, type, mime, counter, mishaps, mixed>> /\ leaked' = 0
           /\ viewer[v].step = "walk"
           /\ \/ /\ Total(dir) <= Cap /\ sweeper' = Nobody /\ viewer'[v].step = "away"
                 /\ list' = <<>> /\ over' = 0
              \/ /\ list' = dir /\ over' = Total(dir) /\ viewer'[v].step = "sweep"
                 /\ UNCHANGED sweeper
<1>1. /\ UNCHANGED <<dir, type, mime, counter, mishaps, mixed>> /\ leaked' = 0
      /\ viewer[v].step = "walk" /\ ~ViewerAt(v, "away")
  BY DEF Walk, ViewerAt
<1>2. CASE Total(dir) <= Cap /\ Release(v)
  BY <1>1, <1>2, Leaves DEF Release
<1>3. CASE list' = dir /\ over' = Total(dir) /\ GoTo(v, "sweep") /\ UNCHANGED sweeper
  BY <1>1, <1>3, GoesOn DEF Hence
<1> QED
  BY <1>2, <1>3 DEF Walk

\* One entry: it is gone, and what the sweep knows of what is left with it.
LEMMA SweepEntryDoes ==
    ASSUME PosterTypeOK, NamesFit, NEW v \in Viewers, SweepEntry(v)
    PROVE  LET e == Head(list)
           IN  /\ UNCHANGED <<counter, sweeper, mishaps, mixed, leaked>> /\ viewer[v].step = "sweep"
               /\ list # <<>> /\ e \in Entries
               /\ over > Target
               /\ dir' \in Seq(Entries) /\ IsInjective(dir') /\ ToSet(dir') = ToSet(dir) \ {e}
               /\ \A g, h : {g, h} \intersect {e} = {} /\ Before(dir, g, h) => Before(dir', g, h)
               /\ over' = over - (IF There(e) THEN Size(e) ELSE 0)
               /\ \/ /\ There(e) /\ e[1] = "image" /\ type' = [type EXCEPT ![e[2]] = NoType]
                     /\ UNCHANGED <<list, mime>> /\ viewer'[v].step = "beside"
                  \/ /\ ~(There(e) /\ e[1] = "image") /\ UNCHANGED <<type, viewer>> /\ list' = Tail(list)
                     /\ mime' = IF There(e) /\ e[1] = "mime" THEN [mime EXCEPT ![e[2]] = NoType] ELSE mime
<1> DEFINE e == Head(list)
<1>1. /\ UNCHANGED <<counter, sweeper, mishaps, mixed, leaked>> /\ viewer[v].step = "sweep"
      /\ list # <<>> /\ over > Target /\ ~ViewerAt(v, "away")
  BY DEF SweepEntry, ViewerAt
<1>2. /\ dir \in Seq(Entries) /\ IsInjective(dir) /\ list \in Seq(Entries) /\ IsInjective(list)
      /\ over \in Nat
  BY DEF PosterTypeOK, NamesFit
<1>3. e \in Entries
  BY <1>1, <1>2
<1>4. CASE There(e)
  <2>1. /\ dir' = Gone(e) /\ over' = over - Size(e)
        /\ type' = IF e[1] = "image" THEN [type EXCEPT ![e[2]] = NoType] ELSE type
        /\ mime' = IF e[1] = "mime" THEN [mime EXCEPT ![e[2]] = NoType] ELSE mime
        /\ IF e[1] = "image" THEN GoTo(v, "beside") /\ UNCHANGED list
           ELSE list' = Tail(list) /\ UNCHANGED viewer
    BY <1>4 DEF SweepEntry
  <2>2. /\ dir' \in Seq(Entries) /\ IsInjective(dir') /\ ToSet(dir') = ToSet(dir) \ {e}
        /\ \A g, h : g # e /\ h # e /\ Before(dir, g, h) => Before(dir', g, h)
    BY <1>2, <2>1, LessIs DEF Gone
  <2>3. \A g, h : {g, h} \intersect {e} = {} /\ Before(dir, g, h) => Before(dir', g, h)
    BY <2>2
  <2>4. over' = over - (IF There(e) THEN Size(e) ELSE 0)
    BY <1>4, <2>1
  <2>5. CASE e[1] = "image"
    <3>1. viewer'[v].step = "beside" /\ UNCHANGED <<list, mime>> /\ type' = [type EXCEPT ![e[2]] = NoType]
      BY <1>1, <2>1, <2>5, GoesOn DEF Hence
    <3> QED
      BY <1>1, <1>3, <1>4, <2>2, <2>3, <2>4, <2>5, <3>1
  <2>6. CASE e[1] # "image"
    BY <1>1, <1>3, <1>4, <2>1, <2>2, <2>3, <2>4, <2>6
  <2> QED
    BY <2>5, <2>6
<1>5. CASE ~There(e)
  <2>1. list' = Tail(list) /\ UNCHANGED <<dir, type, mime, over, viewer>>
    BY <1>5 DEF SweepEntry
  <2>2. ToSet(dir') = ToSet(dir) \ {e}
    BY <1>5, <2>1 DEF There
  <2>3. over' = over - (IF There(e) THEN Size(e) ELSE 0)
    BY <1>2, <1>5, <2>1
  <2> QED
    BY <1>1, <1>2, <1>3, <1>5, <2>1, <2>2, <2>3
<1> QED
  BY <1>4, <1>5

LEMMA SweepBesideDoes ==
    ASSUME PosterTypeOK, NamesFit, SweepFits, NEW v \in Viewers, SweepBeside(v)
    PROVE  /\ UNCHANGED <<type, counter, sweeper, over, mishaps, mixed, leaked>>
           /\ viewer[v].step = "beside" /\ viewer'[v].step = "sweep"
           /\ list # <<>> /\ list' = Tail(list)
           /\ \E k \in Posters :
                /\ Head(list) = Image(k)
                /\ mime' = [mime EXCEPT ![k] = NoType]
                /\ dir' \in Seq(Entries) /\ IsInjective(dir') /\ ToSet(dir') = ToSet(dir) \ {Mime(k)}
                /\ \A g, h : {g, h} \intersect {Mime(k)} = {} /\ Before(dir, g, h) => Before(dir', g, h)
<1>1. /\ UNCHANGED <<type, counter, sweeper, over, mishaps, mixed, leaked>>
      /\ viewer[v].step = "beside" /\ GoTo(v, "sweep") /\ ~ViewerAt(v, "away")
      /\ list' = Tail(list)
      /\ dir' = Gone(Mime(Head(list)[2])) /\ mime' = [mime EXCEPT ![Head(list)[2]] = NoType]
  BY DEF SweepBeside, ViewerAt
<1>2. viewer'[v].step = "sweep"
  BY <1>1, GoesOn DEF Hence
<1>3. list # <<>> /\ \E k \in Posters : Head(list) = Image(k)
  BY <1>1 DEF SweepFits, ViewerAt
<1>4. PICK k \in Posters : Head(list) = Image(k)
  BY <1>3
<1>5. Head(list)[2] = k
  BY <1>4, KindsOfEntries
<1>6. /\ dir' \in Seq(Entries) /\ IsInjective(dir') /\ ToSet(dir') = ToSet(dir) \ {Mime(k)}
      /\ \A g, h : g # Mime(k) /\ h # Mime(k) /\ Before(dir, g, h) => Before(dir', g, h)
  BY <1>1, <1>5, LessIs DEF Gone, PosterTypeOK
<1>7. \A g, h : {g, h} \intersect {Mime(k)} = {} /\ Before(dir, g, h) => Before(dir', g, h)
  BY <1>6
<1>8. mime' = [mime EXCEPT ![k] = NoType]
  BY <1>1, <1>5
<1> QED
  BY <1>1, <1>2, <1>3, <1>4, <1>6, <1>7, <1>8

LEMMA EndSweepDoes ==
    ASSUME PosterTypeOK, NEW v \in Viewers, EndSweep(v)
    PROVE  /\ UNCHANGED <<dir, type, mime, counter, mishaps, mixed, leaked>>
           /\ viewer[v].step = "sweep" /\ viewer'[v].step = "away"
           /\ sweeper' = Nobody /\ list' = <<>> /\ over' = 0
           /\ list = <<>> \/ over <= Target
BY Leaves DEF EndSweep, Release, ViewerAt

-----------------------------------------------------------------------------
(* Types and names. *)

LEMMA FilesFinite ==
    ASSUME NEW S, NEW s \in Seq(S)
    PROVE  /\ IsFiniteSet(ToSet(s)) /\ IsFiniteSet(Images(s))
           /\ Total(s) \in Nat /\ Total(s) = Cardinality(Images(s))
<1>1. Len(s) \in Nat /\ IsFiniteSet(1..Len(s))
  BY FS_Interval
<1>2. s \in Surjection(1..Len(s), ToSet(s))
  BY DEF Surjection, ToSet
<1>3. IsFiniteSet(ToSet(s))
  BY <1>1, <1>2, FS_Surjection
<1>4. IsFiniteSet(Images(s))
  BY <1>3, FS_Subset DEF Images
<1>5. Total(s) = Cardinality(Images(s))
  BY DEF Total, Images
<1> QED
  BY <1>3, <1>4, <1>5, FS_CardinalityType

LEMMA PosterTypesStep ==
    ASSUME PosterTypeOK, NamesFit, SweepFits, NEW v \in Viewers, ViewerStep(v)
    PROVE  PosterTypeOK'
<1>1. viewer' \in [Viewers -> ViewerRecords \union {Away}]
  BY OneViewerMoves
<1>2. /\ dir \in Seq(Entries) /\ IsInjective(dir) /\ list \in Seq(Entries) /\ IsInjective(list)
      /\ type \in [Posters -> Types \union {NoType}] /\ mime \in [Posters -> Types \union {NoType}]
      /\ counter \in Nat /\ sweeper \in Viewers \union {Nobody} /\ over \in Nat
  BY DEF PosterTypeOK, NamesFit
<1>0. \A u \in Viewers : viewer[u].step # "away" => viewer[u].type \in Types \union {NoType}
  <2>1. \A u \in Viewers : viewer[u] \in ViewerRecords \union {Away}
    BY DEF PosterTypeOK, ViewerRecords
  <2> QED
    BY <2>1 DEF ViewerRecords, Away
<1>3. /\ dir' \in Seq(Entries) /\ IsInjective(dir') /\ list' \in Seq(Entries)
      /\ type' \in [Posters -> Types \union {NoType}] /\ mime' \in [Posters -> Types \union {NoType}]
      /\ counter' \in Nat /\ sweeper' \in Viewers \union {Nobody} /\ over' \in Nat
  <2>1. CASE \/ LookUp(v) \/ ReadImage(v) \/ ReadType(v) \/ NoPoster(v)
             \/ \E k \in Posters : AskPoster(v, k)
    BY <1>2, <2>1, CalmSteps DEF SameFiles, Stays
  <2>2. CASE FetchPoster(v)
    BY <1>2, <2>2, FetchDoes DEF Stays
  <2>3. CASE WriteTemp(v)
    BY <1>2, <2>3, WriteTempDoes DEF Stays
  <2>4. CASE ReplaceImage(v)
    BY <1>0, <1>2, <2>4, ReplaceImageDoes DEF Stays
  <2>5. CASE WriteMimeTemp(v)
    BY <1>2, <2>5, WriteMimeTempDoes DEF Stays
  <2>6. CASE ReplaceMime(v)
    BY <1>0, <1>2, <2>6, ReplaceMimeDoes DEF Stays
  <2>7. CASE CountWrite(v)
    BY <1>2, <2>7, CountDoes DEF SameFiles
  <2>8. CASE Walk(v)
    <3>1. Total(dir) \in Nat
      BY <1>2, FilesFinite
    <3>2. <<>> \in Seq(Entries) /\ 0 \in Nat
      OBVIOUS
    <3>3. /\ UNCHANGED <<dir, type, mime, counter>> /\ sweeper' \in {sweeper, Nobody}
          /\ list' \in {dir, <<>>} /\ over' \in {Total(dir), 0}
      BY <2>8, WalkDoes
    <3> QED
      BY <1>2, <3>1, <3>2, <3>3
  <2>9. CASE SweepEntry(v)
    <3> DEFINE e == Head(list)
    <3>1. over' \in Nat
      <4>1. Size(e) \in {0, 1} /\ over > Target /\ Target \in Nat /\ over' = over - (IF There(e) THEN Size(e) ELSE 0)
        BY <2>9, SweepEntryDoes, KindsOfEntries, CacheAssumption
      <4> QED
        BY <1>2, <4>1
    <3>2. list # <<>> /\ Tail(list) \in Seq(Entries)
      BY <1>2, <2>9, SweepEntryDoes
    <3>3. list' \in Seq(Entries)
      BY <1>2, <2>9, <3>2, SweepEntryDoes
    <3> QED
      BY <1>2, <2>9, <3>1, <3>3, SweepEntryDoes
  <2>10. CASE SweepBeside(v)
    <3>1. list # <<>> /\ Tail(list) \in Seq(Entries)
      BY <1>2, <2>10, SweepBesideDoes
    <3> QED
      BY <1>2, <2>10, <3>1, SweepBesideDoes
  <2>11. CASE EndSweep(v)
    <3>1. <<>> \in Seq(Entries) /\ 0 \in Nat
      OBVIOUS
    <3> QED
      BY <1>2, <2>11, <3>1, EndSweepDoes
  <2> QED
    BY <2>1, <2>2, <2>3, <2>4, <2>5, <2>6, <2>7, <2>8, <2>9, <2>10, <2>11 DEF ViewerStep
<1> QED
  BY <1>1, <1>3 DEF PosterTypeOK, ViewerRecords

LEMMA NamesFitStep ==
    ASSUME PosterTypeOK, NamesFit, SweepFits, NEW v \in Viewers, ViewerStep(v)
    PROVE  NamesFit'
<1>1. /\ mishaps \in 0..MaxMishaps /\ leaked \in Nat /\ list \in Seq(Entries) /\ IsInjective(list)
      /\ dir \in Seq(Entries) /\ IsInjective(dir) /\ IsInjective(<<>>) /\ ToSet(<<>>) = {}
      /\ MaxMishaps \in Nat
  <2>1. IsInjective(<<>>) /\ ToSet(<<>>) = {}
    BY DEF IsInjective, ToSet
  <2> QED
    BY <2>1, CacheAssumption DEF PosterTypeOK, NamesFit
<1>2. \A u \in Viewers \ {v} : viewer'[u] = viewer[u]
  BY OneViewerMoves
<1> DEFINE Fits(u) ==
          /\ Temp(u) \in ToSet(dir') => viewer'[u].step = "image"
          /\ MimeTemp(u) \in ToSet(dir') => viewer'[u].step = "mime"
          /\ Temp(u) \in ToSet(list') => viewer'[u].step # "temp"
          /\ MimeTemp(u) \in ToSet(list') => viewer'[u].step \notin {"temp", "image", "mime temp"}
<1>3. \A u \in Viewers :
          /\ Temp(u) \in ToSet(dir) => viewer[u].step = "image"
          /\ MimeTemp(u) \in ToSet(dir) => viewer[u].step = "mime"
          /\ Temp(u) \in ToSet(list) => viewer[u].step # "temp"
          /\ MimeTemp(u) \in ToSet(list) => viewer[u].step \notin {"temp", "image", "mime temp"}
  BY DEF NamesFit, There, ViewerAt
<1>4. \A n \in 1..MaxMishaps : Part(n) \in ToSet(dir) \union ToSet(list) => n <= mishaps
  BY DEF NamesFit
<1>5. SUFFICES
          /\ mishaps' \in 0..MaxMishaps /\ leaked' \in Nat /\ IsInjective(list')
          /\ \A u \in Viewers : Fits(u)
          /\ \A n \in 1..MaxMishaps : Part(n) \in ToSet(dir') \union ToSet(list') => n <= mishaps'
  BY DEF NamesFit, There, ViewerAt
<1>6. CASE \/ LookUp(v) \/ ReadImage(v) \/ ReadType(v) \/ NoPoster(v)
           \/ \E k \in Posters : AskPoster(v, k)
  <2>1. /\ SameFiles /\ UNCHANGED <<mishaps, leaked>>
        /\ viewer[v].step \in Calm /\ viewer'[v].step \in Calm
    BY <1>6, CalmSteps
  <2> QED
    BY <1>1, <1>2, <1>3, <1>4, <2>1 DEF SameFiles, Calm
<1>7. CASE FetchPoster(v)
  <2>1. /\ UNCHANGED <<dir, mishaps, leaked>> /\ viewer[v].step = "fetch" /\ viewer'[v].step = "temp"
        /\ IsInjective(list') /\ ToSet(list') = ToSet(list) \ {Temp(v), MimeTemp(v)}
    BY <1>7, FetchDoes
  <2> QED
    BY <1>1, <1>2, <1>3, <1>4, <2>1
<1>8. CASE WriteTemp(v)
  <2>1. UNCHANGED list /\ viewer[v].step = "temp"
    BY <1>8, WriteTempDoes
  <2>2. PICK e \in Entries :
           /\ ToSet(dir') = ToSet(dir) \union {e}
           /\ \/ e = Temp(v) /\ Hence(v, "image") /\ UNCHANGED <<mishaps, leaked>>
              \/ /\ e = Part(mishaps + 1) /\ viewer'[v].step = "away"
                 /\ mishaps' = mishaps + 1 /\ mishaps + 1 \in 1..MaxMishaps /\ leaked' = leaked + 1
    BY <1>8, WriteTempDoes
  <2>3. CASE e = Temp(v) /\ Hence(v, "image") /\ UNCHANGED <<mishaps, leaked>>
    BY <1>1, <1>2, <1>3, <1>4, <2>1, <2>2, <2>3, NamesDiffer DEF Hence
  <2>4. CASE /\ e = Part(mishaps + 1) /\ viewer'[v].step = "away"
             /\ mishaps' = mishaps + 1 /\ mishaps + 1 \in 1..MaxMishaps /\ leaked' = leaked + 1
    <3>1. \A u \in Viewers : Fits(u)
      BY <1>2, <1>3, <2>1, <2>2, <2>4, NamesDiffer
    <3>2. ASSUME NEW n \in 1..MaxMishaps, Part(n) \in ToSet(dir') \union ToSet(list')
          PROVE  n <= mishaps'
      <4>1. CASE Part(n) = e
        <5>1. n = mishaps + 1
          BY <2>4, <4>1, NamesDiffer
        <5> QED
          BY <1>1, <2>4, <5>1
      <4>2. CASE Part(n) # e
        <5>1. n <= mishaps
          BY <1>4, <2>1, <2>2, <3>2, <4>2
        <5> QED
          BY <1>1, <2>4, <5>1
      <4> QED
        BY <4>1, <4>2
    <3>3. mishaps' \in 0..MaxMishaps /\ leaked' \in Nat /\ IsInjective(list')
      BY <1>1, <2>1, <2>4
    <3> QED
      BY <3>1, <3>2, <3>3
  <2> QED
    BY <2>2, <2>3, <2>4
<1>9. CASE ReplaceImage(v)
  <2>1. UNCHANGED <<list, mishaps, leaked>> /\ viewer[v].step = "image"
    BY <1>9, ReplaceImageDoes
  <2>2. \/ /\ Hence(v, "mime temp")
           /\ ToSet(dir') = (ToSet(dir) \ {Temp(v), Image(Poster(v))}) \union {Image(Poster(v))}
        \/ Temp(v) \notin ToSet(dir) /\ viewer'[v].step = "away" /\ UNCHANGED dir
    BY <1>9, ReplaceImageDoes DEF There
  <2> QED
    BY <1>1, <1>2, <1>3, <1>4, <2>1, <2>2, NamesDiffer DEF Hence
<1>10. CASE WriteMimeTemp(v)
  <2>1. UNCHANGED <<list, leaked>> /\ viewer[v].step = "mime temp"
    BY <1>10, WriteMimeTempDoes
  <2>2. CASE Hence(v, "mime") /\ UNCHANGED mishaps /\ ToSet(dir') = ToSet(dir) \union {MimeTemp(v)}
    BY <1>1, <1>2, <1>3, <1>4, <2>1, <2>2, NamesDiffer DEF Hence
  <2>3. CASE Hence(v, "count") /\ UNCHANGED dir /\ mishaps' = mishaps + 1 /\ mishaps + 1 \in 1..MaxMishaps
    <3>1. \A n \in 1..MaxMishaps : n <= mishaps => n <= mishaps'
      BY <1>1, <2>3
    <3>2. mishaps' \in 0..MaxMishaps /\ leaked' \in Nat /\ IsInjective(list')
      <4>1. mishaps + 1 \in 0..MaxMishaps
        BY <1>1, <2>3
      <4> QED
        BY <1>1, <2>1, <2>3, <4>1
    <3>3. \A u \in Viewers : Fits(u)
      BY <1>2, <1>3, <2>1, <2>3 DEF Hence
    <3>4. \A n \in 1..MaxMishaps : Part(n) \in ToSet(dir') \union ToSet(list') => n <= mishaps'
      BY <1>4, <2>1, <2>3, <3>1
    <3> QED
      BY <3>2, <3>3, <3>4
  <2> QED
    BY <1>10, <2>2, <2>3, WriteMimeTempDoes
<1>11. CASE ReplaceMime(v)
  <2>1. UNCHANGED <<list, mishaps, leaked>> /\ viewer[v].step = "mime" /\ Hence(v, "count")
    BY <1>11, ReplaceMimeDoes
  <2>2. \/ ToSet(dir') = (ToSet(dir) \ {MimeTemp(v), Mime(Poster(v))}) \union {Mime(Poster(v))}
        \/ MimeTemp(v) \notin ToSet(dir) /\ UNCHANGED dir
    BY <1>11, ReplaceMimeDoes DEF There
  <2> QED
    BY <1>1, <1>2, <1>3, <1>4, <2>1, <2>2, NamesDiffer DEF Hence
<1>12. CASE CountWrite(v)
  <2>1. /\ SameFiles /\ UNCHANGED <<mishaps, leaked>> /\ viewer[v].step = "count"
        /\ viewer'[v].step \in {"walk", "away"}
    BY <1>12, CountDoes
  <2> QED
    BY <1>1, <1>2, <1>3, <1>4, <2>1 DEF SameFiles
<1>13. CASE Walk(v)
  <2>1. /\ UNCHANGED <<dir, mishaps>> /\ leaked' = 0 /\ viewer[v].step = "walk"
        /\ viewer'[v].step \in {"away", "sweep"} /\ list' \in {<<>>, dir}
    BY <1>13, WalkDoes
  <2>2. ToSet(list') \subseteq ToSet(dir) /\ IsInjective(list')
    BY <1>1, <2>1
  <2> QED
    BY <1>1, <1>2, <1>3, <1>4, <2>1, <2>2
<1>14. CASE SweepEntry(v)
  <2>1. /\ UNCHANGED <<mishaps, leaked>> /\ viewer[v].step = "sweep"
        /\ list # <<>> /\ list' \in {list, Tail(list)} /\ ToSet(dir') \subseteq ToSet(dir)
        /\ viewer'[v].step \in {"sweep", "beside"}
    BY <1>14, SweepEntryDoes
  <2>2. ToSet(list') \subseteq ToSet(list) /\ IsInjective(list')
    <3>1. ToSet(Tail(list)) \subseteq ToSet(list) /\ IsInjective(Tail(list))
      BY <1>1, <2>1, TailIs
    <3> QED
      BY <1>1, <2>1, <3>1
  <2> QED
    BY <1>1, <1>2, <1>3, <1>4, <2>1, <2>2
<1>15. CASE SweepBeside(v)
  <2>1. /\ UNCHANGED <<mishaps, leaked>> /\ viewer[v].step = "beside" /\ viewer'[v].step = "sweep"
        /\ list # <<>> /\ list' = Tail(list) /\ ToSet(dir') \subseteq ToSet(dir)
    BY <1>15, SweepBesideDoes
  <2>2. ToSet(list') \subseteq ToSet(list) /\ IsInjective(list')
    BY <1>1, <2>1, TailIs
  <2> QED
    BY <1>1, <1>2, <1>3, <1>4, <2>1, <2>2
<1>16. CASE EndSweep(v)
  <2>1. /\ UNCHANGED <<dir, mishaps, leaked>> /\ viewer[v].step = "sweep" /\ viewer'[v].step = "away"
        /\ list' = <<>>
    BY <1>16, EndSweepDoes
  <2> QED
    BY <1>1, <1>2, <1>3, <1>4, <2>1
<1> QED
  BY <1>6, <1>7, <1>8, <1>9, <1>10, <1>11, <1>12, <1>13, <1>14, <1>15, <1>16 DEF ViewerStep

-----------------------------------------------------------------------------
(* The lock. *)

SweepSteps == {"walk", "sweep", "beside"}

LEMMA SweepFitsStep ==
    ASSUME PosterTypeOK, NamesFit, SweepFits, NEW v \in Viewers, ViewerStep(v)
    PROVE  SweepFits'
<1>1. \A u \in Viewers \ {v} : viewer'[u] = viewer[u]
  BY OneViewerMoves
<1>2. /\ \A u \in Viewers : sweeper = u <=> viewer[u].step \in SweepSteps
      /\ \A u \in Viewers : viewer[u].step = "beside" => list # <<>> /\ \E k \in Posters : Head(list) = Image(k)
      /\ Nobody \notin Viewers
  BY CacheAssumption DEF SweepFits, SweepSteps, ViewerAt
<1>3. SUFFICES
      /\ \A u \in Viewers : sweeper' = u <=> viewer'[u].step \in SweepSteps
      /\ \A u \in Viewers : viewer'[u].step = "beside" => list' # <<>> /\ \E k \in Posters : Head(list') = Image(k)
  BY DEF SweepFits, SweepSteps, ViewerAt
<1>4. ASSUME UNCHANGED <<list, sweeper>>, viewer[v].step \notin SweepSteps, viewer'[v].step \notin SweepSteps
      PROVE  /\ \A u \in Viewers : sweeper' = u <=> viewer'[u].step \in SweepSteps
             /\ \A u \in Viewers : viewer'[u].step = "beside" =>
                    list' # <<>> /\ \E k \in Posters : Head(list') = Image(k)
  BY <1>1, <1>2, <1>4 DEF SweepSteps
<1>5. CASE \/ LookUp(v) \/ ReadImage(v) \/ ReadType(v) \/ NoPoster(v)
           \/ \E k \in Posters : AskPoster(v, k)
  BY <1>4, <1>5, CalmSteps DEF SameFiles, Stays, Calm, SweepSteps
<1>6. CASE FetchPoster(v)
  <2>1. /\ UNCHANGED sweeper /\ viewer[v].step \notin SweepSteps /\ viewer'[v].step \notin SweepSteps
        /\ list # <<>> /\ Head(list) \notin {Temp(v), MimeTemp(v)}
                => list' # <<>> /\ Head(list') = Head(list)
    BY <1>6, FetchDoes DEF Stays, SweepSteps
  <2>2. \A k \in Posters : Image(k) \notin {Temp(v), MimeTemp(v)}
    BY NamesDiffer
  <2>3. ASSUME NEW u \in Viewers, viewer'[u].step = "beside"
        PROVE  list' # <<>> /\ \E k \in Posters : Head(list') = Image(k)
    <3>1. list # <<>> /\ \E k \in Posters : Head(list) = Image(k)
      BY <1>1, <1>2, <2>1, <2>3 DEF SweepSteps
    <3> QED
      BY <2>1, <2>2, <3>1
  <2> QED
    BY <1>1, <1>2, <2>1, <2>3
<1>7. CASE WriteTemp(v)
  BY <1>4, <1>7, WriteTempDoes DEF Stays, Hence, SweepSteps
<1>8. CASE ReplaceImage(v)
  BY <1>4, <1>8, ReplaceImageDoes DEF Stays, Hence, SweepSteps
<1>9. CASE WriteMimeTemp(v)
  BY <1>4, <1>9, WriteMimeTempDoes DEF Stays, Hence, SweepSteps
<1>10. CASE ReplaceMime(v)
  BY <1>4, <1>10, ReplaceMimeDoes DEF Stays, Hence, SweepSteps
<1>11. CASE CountWrite(v)
  <2>1. UNCHANGED list /\ viewer[v].step = "count"
    BY <1>11, CountDoes DEF SameFiles
  <2>2. CASE sweeper = Nobody /\ sweeper' = v /\ viewer'[v].step = "walk"
    BY <1>1, <1>2, <2>1, <2>2 DEF SweepSteps
  <2>3. CASE UNCHANGED sweeper /\ viewer'[v].step = "away"
    BY <1>4, <2>1, <2>3 DEF SweepSteps
  <2> QED
    BY <1>11, <2>2, <2>3, CountDoes
<1>12. CASE Walk(v) \/ EndSweep(v)
  <2>1. viewer[v].step \in {"walk", "sweep"}
    BY <1>12, WalkDoes, EndSweepDoes
  <2>2. \/ sweeper' = Nobody /\ viewer'[v].step = "away"
        \/ UNCHANGED sweeper /\ viewer'[v].step = "sweep"
    BY <1>12, WalkDoes, EndSweepDoes
  <2> QED
    BY <1>1, <1>2, <2>1, <2>2 DEF SweepSteps
<1>13. CASE SweepEntry(v)
  <2>1. UNCHANGED sweeper /\ viewer[v].step = "sweep" /\ list # <<>> /\ Head(list) \in Entries
    BY <1>13, SweepEntryDoes
  <2>2. \/ Head(list)[1] = "image" /\ UNCHANGED list /\ viewer'[v].step = "beside"
        \/ viewer'[v].step = "sweep"
    BY <1>13, <2>1, SweepEntryDoes
  <2>3. Head(list)[1] = "image" => \E k \in Posters : Head(list) = Image(k)
    BY <2>1, KindsOfEntries
  <2> QED
    BY <1>1, <1>2, <2>1, <2>2, <2>3 DEF SweepSteps
<1>14. CASE SweepBeside(v)
  <2>1. UNCHANGED sweeper /\ viewer[v].step = "beside" /\ viewer'[v].step = "sweep"
    BY <1>14, SweepBesideDoes
  <2> QED
    BY <1>1, <1>2, <2>1 DEF SweepSteps
<1> QED
  BY <1>5, <1>6, <1>7, <1>8, <1>9, <1>10, <1>11, <1>12, <1>13, <1>14 DEF ViewerStep

-----------------------------------------------------------------------------
(* The size of the directory. *)

\* Who else was fresh stays so, as long as no file of theirs goes or is come to anew.
LEMMA FreshGrows ==
    ASSUME NEW v \in Viewers, \A u \in Viewers \ {v} : viewer'[u] = viewer[u],
           \A u \in Viewers \ {v} : Temp(u) \in ToSet(dir) \ ToSet(list)
                                      => Temp(u) \in ToSet(dir') \ ToSet(list')
    PROVE  /\ Cardinality(Fresh) \in Nat /\ Cardinality(Fresh') \in Nat
           /\ v \notin Fresh \/ v \in Fresh' => Cardinality(Fresh) <= Cardinality(Fresh')
           /\ v \notin Fresh /\ v \in Fresh' => Cardinality(Fresh) + 1 <= Cardinality(Fresh')
           /\ Cardinality(Fresh) <= Cardinality(Fresh') + 1
<1>1. IsFiniteSet(Fresh) /\ IsFiniteSet(Fresh')
  BY CacheAssumption, FS_Subset DEF Fresh
<1>2. Fresh \ {v} \subseteq Fresh'
  BY DEF Fresh, There, ViewerAt
<1>3. Cardinality(Fresh) \in Nat /\ Cardinality(Fresh') \in Nat
  BY <1>1, FS_CardinalityType
<1>4. ASSUME v \notin Fresh \/ v \in Fresh' PROVE Cardinality(Fresh) <= Cardinality(Fresh')
  <2>1. Fresh \subseteq Fresh'
    BY <1>2, <1>4
  <2> QED
    BY <1>1, <2>1, FS_Subset
<1>5. ASSUME v \notin Fresh, v \in Fresh' PROVE Cardinality(Fresh) + 1 <= Cardinality(Fresh')
  <2>1. Fresh \union {v} \subseteq Fresh'
    BY <1>2, <1>5
  <2>2. Cardinality(Fresh \union {v}) = Cardinality(Fresh) + 1
    BY <1>1, <1>5, FS_AddElement
  <2>3. Cardinality(Fresh \union {v}) <= Cardinality(Fresh')
    BY <1>1, <2>1, FS_Subset
  <2> QED
    BY <2>2, <2>3
<1>6. Cardinality(Fresh) <= Cardinality(Fresh') + 1
  <2>1. Cardinality(Fresh \ {v}) <= Cardinality(Fresh')
    BY <1>1, <1>2, FS_Subset
  <2>2. IsFiniteSet(Fresh \ {v}) /\ Cardinality(Fresh \ {v}) \in {Cardinality(Fresh), Cardinality(Fresh) - 1}
    BY <1>1, FS_RemoveElement
  <2> QED
    BY <1>3, <2>1, <2>2
<1> QED
  BY <1>3, <1>4, <1>5, <1>6

\* What a step adds to the directory, it books, unless it is one of the sweep.
LEMMA SizesKeep ==
    ASSUME SizesFit, NEW v \in Viewers, \A u \in Viewers \ {v} : viewer'[u] = viewer[u],
           viewer[v].step \notin SweepSteps, viewer'[v].step \notin SweepSteps,
           UNCHANGED <<sweeper, over>>, over \in Nat, Booked \in Nat, Booked' \in Nat,
           dir \in Seq(Entries), dir' \in Seq(Entries),
           NEW more \in {0, 1}, Booked + more <= Booked',
           Total(dir') <= Total(dir) + more,
           Cardinality(Images(dir') \ Ahead') <= Cardinality(Images(dir) \ Ahead) + more
    PROVE  SizesFit'
<1>1. Sweeping' => Sweeping
  BY DEF Sweeping, SweepSteps
<1>2. /\ Total(dir) \in Nat /\ Total(dir') \in Nat
      /\ Cardinality(Images(dir) \ Ahead) \in Nat /\ Cardinality(Images(dir') \ Ahead') \in Nat
  <2>1. IsFiniteSet(Images(dir)) /\ IsFiniteSet(Images(dir')) /\ Total(dir) \in Nat /\ Total(dir') \in Nat
    BY FilesFinite
  <2>2. IsFiniteSet(Images(dir) \ Ahead) /\ IsFiniteSet(Images(dir') \ Ahead')
    BY <2>1, FS_Subset
  <2> QED
    BY <2>1, <2>2, FS_CardinalityType
<1>3. ASSUME sweeper' = Nobody PROVE Total(dir') <= Cap + Booked'
  <2>1. Total(dir) <= Cap + Booked /\ Cap \in Nat
    BY <1>3, CacheAssumption DEF SizesFit
  <2> QED
    BY <1>2, <2>1
<1>4. ASSUME Sweeping'
      PROVE  Total(dir') <= over' + Booked' /\ Cardinality(Images(dir') \ Ahead') <= Booked'
  <2>1. Total(dir) <= over + Booked /\ Cardinality(Images(dir) \ Ahead) <= Booked
    BY <1>1, <1>4 DEF SizesFit
  <2> QED
    BY <1>2, <2>1
<1> QED
  BY <1>3, <1>4 DEF SizesFit

\* Ahead of the sweep is the list, without the image it has just removed.
LEMMA AheadIs ==
    ASSUME PosterTypeOK, NamesFit, SweepFits
    PROVE  Ahead = IF \E u \in Viewers : viewer[u].step = "beside"
                   THEN ToSet(list) \ {Head(list)} ELSE ToSet(list)
<1>1. CASE \E u \in Viewers : viewer[u].step = "beside"
  <2>1. list # <<>> /\ list \in Seq(Entries) /\ IsInjective(list)
    BY <1>1 DEF PosterTypeOK, NamesFit, SweepFits, ViewerAt
  <2>2. ToSet(Tail(list)) = ToSet(list) \ {Head(list)}
    BY <2>1, TailIs
  <2> QED
    BY <1>1, <2>2 DEF Ahead, ViewerAt
<1>2. CASE ~\E u \in Viewers : viewer[u].step = "beside"
  BY <1>2 DEF Ahead, ViewerAt
<1> QED
  BY <1>1, <1>2

\* A step that touches no list and leaves its request outside the sweep.
LEMMA AheadStays ==
    ASSUME NEW v \in Viewers, \A u \in Viewers \ {v} : viewer'[u] = viewer[u],
           viewer[v].step # "beside", viewer'[v].step # "beside", UNCHANGED list
    PROVE  Ahead' = Ahead
<1>1. (\E u \in Viewers : viewer'[u].step = "beside") <=> \E u \in Viewers : viewer[u].step = "beside"
  OBVIOUS
<1> QED
  BY <1>1 DEF Ahead, ViewerAt

LEMMA SizesFitRequest ==
    ASSUME PosterTypeOK, NamesFit, SweepFits, SizesFit, NEW v \in Viewers, ViewerStep(v),
           PosterTypeOK', NamesFit', SweepFits',
           ~(CountWrite(v) /\ sweeper' # sweeper), ~Walk(v), ~SweepEntry(v), ~SweepBeside(v), ~EndSweep(v)
    PROVE  SizesFit'
<1>1. \A u \in Viewers \ {v} : viewer'[u] = viewer[u]
  BY OneViewerMoves
<1>2. /\ over \in Nat /\ counter \in Nat /\ leaked \in Nat /\ counter' \in Nat /\ leaked' \in Nat
      /\ dir \in Seq(Entries) /\ dir' \in Seq(Entries)
  BY DEF PosterTypeOK, NamesFit
<1>3. /\ Cardinality(Fresh) \in Nat /\ Cardinality(Fresh') \in Nat
  <2>1. IsFiniteSet(Fresh) /\ IsFiniteSet(Fresh')
    BY CacheAssumption, FS_Subset DEF Fresh
  <2> QED
    BY <2>1, FS_CardinalityType
<1>4. Booked \in Nat /\ Booked' \in Nat
  BY <1>2, <1>3 DEF Booked
<1>5. /\ IsFiniteSet(Images(dir)) /\ IsFiniteSet(Images(dir')) /\ IsFiniteSet(Images(dir) \ Ahead)
      /\ Total(dir) = Cardinality(Images(dir)) /\ Total(dir') = Cardinality(Images(dir'))
      /\ Cardinality(Images(dir)) \in Nat /\ Cardinality(Images(dir) \ Ahead) \in Nat
  <2>1. /\ IsFiniteSet(Images(dir)) /\ IsFiniteSet(Images(dir'))
        /\ Total(dir) = Cardinality(Images(dir)) /\ Total(dir') = Cardinality(Images(dir'))
    BY <1>2, FilesFinite
  <2>2. IsFiniteSet(Images(dir) \ Ahead)
    BY <2>1, FS_Subset
  <2> QED
    BY <2>1, <2>2, FS_CardinalityType
<1>6. \A u, w \in Viewers : u # w => Temp(u) # Temp(w)
  BY NamesDiffer
<1> DEFINE others == \A u \in Viewers \ {v} : Temp(u) \in ToSet(dir) \ ToSet(list)
                                                 => Temp(u) \in ToSet(dir') \ ToSet(list')
           out == Images(dir) \ Ahead
           outNext == Images(dir') \ Ahead'
<1>7. CASE \/ LookUp(v) \/ ReadImage(v) \/ ReadType(v) \/ NoPoster(v)
           \/ \E k \in Posters : AskPoster(v, k)
  <2>1. /\ SameFiles /\ Stays /\ UNCHANGED leaked
        /\ viewer[v].step \in Calm /\ viewer'[v].step \in Calm
    BY <1>7, CalmSteps
  <2>2. others /\ v \notin Fresh
    BY <2>1 DEF SameFiles, Fresh, Calm, ViewerAt
  <2>3. Cardinality(Fresh) <= Cardinality(Fresh')
    BY <1>1, <2>2, FreshGrows
  <2>4. Ahead' = Ahead
    BY <1>1, <2>1, AheadStays DEF SameFiles, Calm
  <2>5. Booked + 0 <= Booked' /\ Total(dir') <= Total(dir) + 0 /\ Cardinality(outNext) <= Cardinality(out) + 0
    <3>1. Booked + 0 <= Booked'
      BY <1>2, <1>3, <2>1, <2>3 DEF Booked, Stays
    <3>2. Total(dir') <= Total(dir) + 0 /\ Cardinality(outNext) <= Cardinality(out) + 0
      BY <1>5, <2>1, <2>4 DEF SameFiles
    <3> QED
      BY <3>1, <3>2
  <2> QED
    BY <1>1, <1>2, <1>4, <2>1, <2>5, SizesKeep DEF Calm, SweepSteps, Stays
<1>8. CASE FetchPoster(v)
  <2>1. /\ Stays /\ UNCHANGED <<dir, leaked>> /\ viewer[v].step = "fetch" /\ viewer'[v].step = "temp"
        /\ ToSet(list') = ToSet(list) \ {Temp(v), MimeTemp(v)}
        /\ list # <<>> /\ Head(list) \notin {Temp(v), MimeTemp(v)} => Head(list') = Head(list)
    BY <1>8, FetchDoes
  <2>2. others /\ v \notin Fresh
    BY <2>1 DEF Fresh, ViewerAt
  <2>3. Cardinality(Fresh) <= Cardinality(Fresh')
    BY <1>1, <2>2, FreshGrows
  <2>4. Ahead' = Ahead \ {Temp(v), MimeTemp(v)}
    <3>1. Ahead = IF \E u \in Viewers : viewer[u].step = "beside" THEN ToSet(list) \ {Head(list)} ELSE ToSet(list)
      BY AheadIs
    <3>2. Ahead' = IF \E u \in Viewers : viewer'[u].step = "beside" THEN ToSet(list') \ {Head(list')} ELSE ToSet(list')
      <4>1. CASE \E u \in Viewers : viewer'[u].step = "beside"
        <5>1. list' # <<>> /\ list' \in Seq(Entries) /\ IsInjective(list')
          BY <4>1 DEF PosterTypeOK, NamesFit, SweepFits, ViewerAt
        <5>2. ToSet(Tail(list')) = ToSet(list') \ {Head(list')}
          BY <5>1, TailIs
        <5> QED
          BY <4>1, <5>2 DEF Ahead, ViewerAt
      <4>2. CASE ~\E u \in Viewers : viewer'[u].step = "beside"
        BY <4>2 DEF Ahead, ViewerAt
      <4> QED
        BY <4>1, <4>2
    <3>3. (\E u \in Viewers : viewer'[u].step = "beside") <=> \E u \in Viewers : viewer[u].step = "beside"
      BY <1>1, <2>1
    <3>4. ASSUME \E u \in Viewers : viewer[u].step = "beside" PROVE Head(list') = Head(list)
      <4>1. list # <<>> /\ \E k \in Posters : Head(list) = Image(k)
        BY <3>4 DEF SweepFits, ViewerAt
      <4>2. Head(list) \notin {Temp(v), MimeTemp(v)}
        BY <4>1, NamesDiffer
      <4> QED
        BY <2>1, <4>1, <4>2
    <3> QED
      BY <2>1, <3>1, <3>2, <3>3, <3>4
  <2>5. outNext = out
    <3>1. {Temp(v), MimeTemp(v)} \intersect Images(dir) = {}
      <4>1. Temp(v) \notin ToSet(dir)
        BY <2>1 DEF NamesFit, There, ViewerAt
      <4>2. Size(MimeTemp(v)) = 0
        BY NamesDiffer
      <4> QED
        BY <4>1, <4>2 DEF Images
    <3> QED
      BY <2>1, <2>4, <3>1
  <2>6. Booked + 0 <= Booked' /\ Total(dir') <= Total(dir) + 0 /\ Cardinality(outNext) <= Cardinality(out) + 0
    <3>1. Booked + 0 <= Booked'
      BY <1>2, <1>3, <2>1, <2>3 DEF Booked, Stays
    <3>2. Total(dir') <= Total(dir) + 0
      BY <1>5, <2>1
    <3>3. Cardinality(outNext) <= Cardinality(out) + 0
      BY <1>5, <2>5
    <3> QED
      BY <3>1, <3>2, <3>3
  <2> QED
    BY <1>1, <1>2, <1>4, <2>1, <2>6, SizesKeep DEF SweepSteps, Stays
<1>9. CASE WriteTemp(v)
  <2>1. Stays /\ UNCHANGED list /\ viewer[v].step = "temp"
    BY <1>9, WriteTempDoes
  <2>2. PICK e \in Entries :
           /\ e \notin ToSet(dir) \union ToSet(list) /\ ToSet(dir') = ToSet(dir) \union {e}
           /\ \/ e = Temp(v) /\ Hence(v, "image") /\ UNCHANGED <<mishaps, leaked>>
              \/ e = Part(mishaps + 1) /\ viewer'[v].step = "away" /\ leaked' = leaked + 1
    BY <1>9, WriteTempDoes
  <2>3. others /\ v \notin Fresh
    BY <2>1, <2>2 DEF Fresh, ViewerAt
  <2>4. Ahead' = Ahead
    BY <1>1, <2>1, <2>2, AheadStays DEF Hence
  <2>5. Booked + 1 <= Booked'
    <3>1. CASE e = Temp(v) /\ Hence(v, "image") /\ UNCHANGED <<mishaps, leaked>>
      <4>1. v \in Fresh'
        BY <2>1, <2>2, <3>1 DEF Fresh, There, ViewerAt, Hence
      <4>2. Cardinality(Fresh) + 1 <= Cardinality(Fresh')
        BY <1>1, <2>3, <4>1, FreshGrows
      <4> QED
        BY <1>2, <1>3, <2>1, <3>1, <4>2 DEF Booked, Stays
    <3>2. CASE leaked' = leaked + 1
      <4>1. Cardinality(Fresh) <= Cardinality(Fresh')
        BY <1>1, <2>3, FreshGrows
      <4> QED
        BY <1>2, <1>3, <2>1, <3>2, <4>1 DEF Booked, Stays
    <3> QED
      BY <2>2, <3>1, <3>2
  <2>6. Images(dir') \subseteq Images(dir) \union {e} /\ outNext \subseteq out \union {e}
    BY <2>2, <2>4 DEF Images
  <2>7. Total(dir') <= Total(dir) + 1 /\ Cardinality(outNext) <= Cardinality(out) + 1
    <3>1. /\ IsFiniteSet(Images(dir) \union {e}) /\ IsFiniteSet(out \union {e})
          /\ Cardinality(Images(dir) \union {e}) \in {Cardinality(Images(dir)), Cardinality(Images(dir)) + 1}
          /\ Cardinality(out \union {e}) \in {Cardinality(out), Cardinality(out) + 1}
      BY <1>5, FS_AddElement
    <3>2. /\ Cardinality(Images(dir')) <= Cardinality(Images(dir) \union {e})
          /\ Cardinality(Images(dir')) \in Nat
      BY <2>6, <3>1, FS_Subset, FS_CardinalityType
    <3>3. /\ Cardinality(outNext) <= Cardinality(out \union {e})
          /\ Cardinality(outNext) \in Nat
      BY <2>6, <3>1, FS_Subset, FS_CardinalityType
    <3> QED
      BY <1>5, <3>1, <3>2, <3>3
  <2> QED
    BY <1>1, <1>2, <1>4, <2>1, <2>2, <2>5, <2>7, SizesKeep DEF SweepSteps, Stays, Hence
<1>10. CASE ReplaceImage(v)
  <2>1. Stays /\ UNCHANGED <<list, leaked>> /\ viewer[v].step = "image"
    BY <1>10, ReplaceImageDoes
  <2>2. CASE ~There(Temp(v)) /\ viewer'[v].step = "away" /\ UNCHANGED dir
    <3>1. others /\ v \notin Fresh
      BY <2>1, <2>2 DEF Fresh, ViewerAt
    <3>2. Cardinality(Fresh) <= Cardinality(Fresh')
      BY <1>1, <3>1, FreshGrows
    <3>3. Ahead' = Ahead
      BY <1>1, <2>1, <2>2, AheadStays
    <3>4. Booked + 0 <= Booked' /\ Total(dir') <= Total(dir) + 0 /\ Cardinality(outNext) <= Cardinality(out) + 0
      BY <1>2, <1>3, <1>5, <2>1, <2>2, <3>2, <3>3 DEF Booked, Stays
    <3> QED
      BY <1>1, <1>2, <1>4, <2>1, <2>2, <3>4, SizesKeep DEF SweepSteps, Stays
  <2>3. CASE There(Temp(v)) /\ Hence(v, "mime temp")
    <3> DEFINE e == Temp(v)
               f == Image(Poster(v))
    <3>1. ToSet(dir') = (ToSet(dir) \ {e, f}) \union {f} /\ e \in ToSet(dir)
      BY <1>10, <2>3, ReplaceImageDoes DEF There
    <3>2. others /\ v \in Fresh'
      <4>1. v \in Fresh'
        BY <2>3 DEF Fresh, Hence
      <4>2. ASSUME NEW u \in Viewers \ {v} PROVE Temp(u) # e /\ Temp(u) # f
        BY <1>6, NamesDiffer
      <4> QED
        BY <2>1, <3>1, <4>1, <4>2
    <3>3. Ahead' = Ahead
      BY <1>1, <2>1, <2>3, AheadStays DEF Hence
    <3>4. Size(e) = 1 /\ e # f
      BY NamesDiffer
    <3>5. Images(dir') \subseteq (Images(dir) \ {e}) \union {f} /\ e \in Images(dir)
      BY <3>1, <3>4 DEF Images
    <3>6. ASSUME NEW S, IsFiniteSet(S), e \in S
          PROVE  IsFiniteSet((S \ {e}) \union {f}) /\ Cardinality((S \ {e}) \union {f}) <= Cardinality(S)
      <4>1. IsFiniteSet(S \ {e}) /\ Cardinality(S \ {e}) = Cardinality(S) - 1 /\ Cardinality(S) \in Nat
        BY <3>6, FS_RemoveElement, FS_CardinalityType
      <4>2. /\ IsFiniteSet((S \ {e}) \union {f})
            /\ Cardinality((S \ {e}) \union {f}) \in {Cardinality(S \ {e}), Cardinality(S \ {e}) + 1}
        BY <4>1, FS_AddElement
      <4> QED
        BY <4>1, <4>2
    <3>7. Cardinality(Images(dir')) <= Cardinality(Images(dir))
      <4>1. /\ IsFiniteSet((Images(dir) \ {e}) \union {f})
            /\ Cardinality((Images(dir) \ {e}) \union {f}) <= Cardinality(Images(dir))
        BY <1>5, <3>5, <3>6
      <4>2. /\ Cardinality(Images(dir')) <= Cardinality((Images(dir) \ {e}) \union {f})
            /\ Cardinality(Images(dir')) \in Nat /\ Cardinality((Images(dir) \ {e}) \union {f}) \in Nat
        BY <3>5, <4>1, FS_Subset, FS_CardinalityType
      <4> QED
        BY <1>5, <4>1, <4>2
    <3>8. outNext \subseteq (out \ {e}) \union {f}
      BY <3>3, <3>5
    <3>9. IsFiniteSet(outNext) /\ Cardinality(outNext) \in Nat
      BY <1>5, FS_Subset, FS_CardinalityType
    <3>10. CASE e \notin ToSet(list)
      <4>1. e \in out
        BY <2>1, <3>5, <3>10, AheadIs
      <4>2. /\ IsFiniteSet((out \ {e}) \union {f}) /\ Cardinality((out \ {e}) \union {f}) <= Cardinality(out)
        BY <1>5, <3>6, <4>1
      <4>3. /\ Cardinality(outNext) <= Cardinality((out \ {e}) \union {f})
            /\ Cardinality((out \ {e}) \union {f}) \in Nat
        BY <3>8, <4>2, FS_Subset, FS_CardinalityType
      <4>4. Cardinality(Fresh) <= Cardinality(Fresh')
        BY <1>1, <3>2, FreshGrows
      <4>5. Booked + 0 <= Booked'
        BY <1>2, <1>3, <2>1, <4>4 DEF Booked, Stays
      <4>6. Total(dir') <= Total(dir) + 0 /\ Cardinality(outNext) <= Cardinality(out) + 0
        BY <1>5, <3>7, <3>9, <4>2, <4>3
      <4> QED
        BY <1>1, <1>2, <1>4, <2>1, <2>3, <4>5, <4>6, SizesKeep DEF SweepSteps, Stays, Hence
    <3>11. CASE e \in ToSet(list)
      <4>1. v \notin Fresh
        BY <2>1, <3>11 DEF Fresh, ViewerAt
      <4>2. Cardinality(Fresh) + 1 <= Cardinality(Fresh')
        BY <1>1, <3>2, <4>1, FreshGrows
      <4>3. Booked + 1 <= Booked'
        BY <1>2, <1>3, <2>1, <4>2 DEF Booked, Stays
      <4>4. outNext \subseteq out \union {f}
        BY <3>8
      <4>5. /\ IsFiniteSet(out \union {f})
            /\ Cardinality(out \union {f}) \in {Cardinality(out), Cardinality(out) + 1}
        BY <1>5, FS_AddElement
      <4>6. Cardinality(outNext) <= Cardinality(out \union {f})
        BY <4>4, <4>5, FS_Subset
      <4>7. Total(dir') <= Total(dir) + 1 /\ Cardinality(outNext) <= Cardinality(out) + 1
        <5>1. Cardinality(outNext) <= Cardinality(out) + 1
          BY <1>5, <3>9, <4>5, <4>6
        <5>2. Cardinality(Images(dir')) \in Nat
          BY <1>5, FS_CardinalityType
        <5> QED
          BY <1>5, <3>7, <5>1, <5>2
      <4> QED
        BY <1>1, <1>2, <1>4, <2>1, <2>3, <4>3, <4>7, SizesKeep DEF SweepSteps, Stays, Hence
    <3> QED
      BY <3>10, <3>11
  <2> QED
    BY <1>10, <2>2, <2>3, ReplaceImageDoes
<1>11. CASE WriteMimeTemp(v) \/ ReplaceMime(v)
  <2>1. /\ Stays /\ UNCHANGED <<list, leaked>> /\ viewer[v].step \in {"mime temp", "mime"}
        /\ viewer'[v].step \in {"mime", "count"}
    BY <1>11, WriteMimeTempDoes, ReplaceMimeDoes DEF Hence
  <2>2. \A e : e \in {MimeTemp(v), Mime(Poster(v))} => Size(e) = 0 /\ \A u : e # Temp(u)
    BY NamesDiffer
  <2>3. \A e : e \notin {MimeTemp(v), Mime(Poster(v))} => (e \in ToSet(dir') <=> e \in ToSet(dir))
    <3>1. \/ UNCHANGED dir
          \/ ToSet(dir') = ToSet(dir) \union {MimeTemp(v)}
          \/ ToSet(dir') = (ToSet(dir) \ {MimeTemp(v), Mime(Poster(v))}) \union {Mime(Poster(v))}
      BY <1>11, WriteMimeTempDoes, ReplaceMimeDoes
    <3> QED
      BY <3>1
  <2>4. others /\ v \in Fresh'
    BY <2>1, <2>2, <2>3 DEF Fresh
  <2>5. Cardinality(Fresh) <= Cardinality(Fresh')
    BY <1>1, <2>4, FreshGrows
  <2>6. Ahead' = Ahead
    BY <1>1, <2>1, AheadStays
  <2>7. Images(dir') = Images(dir)
    BY <2>2, <2>3 DEF Images
  <2>8. Booked + 0 <= Booked' /\ Total(dir') <= Total(dir) + 0 /\ Cardinality(outNext) <= Cardinality(out) + 0
    <3>0. counter' = counter /\ leaked' = leaked
      BY <2>1 DEF Stays
    <3>1. Booked + 0 <= Booked'
      BY ONLY <1>2, <1>3, <2>5, <3>0 DEF Booked
    <3>2. Total(dir') <= Total(dir) + 0 /\ Cardinality(outNext) <= Cardinality(out) + 0
      BY <1>5, <2>6, <2>7
    <3> QED
      BY <3>1, <3>2
  <2> QED
    BY <1>1, <1>2, <1>4, <2>1, <2>8, SizesKeep DEF SweepSteps, Stays
<1>12. CASE CountWrite(v)
  <2>1. /\ SameFiles /\ UNCHANGED <<over, leaked, sweeper>> /\ viewer[v].step = "count"
        /\ counter' = counter + 1 /\ viewer'[v].step = "away"
    <3>1. UNCHANGED sweeper
      BY <1>12
    <3> QED
      BY <1>12, <3>1, CountDoes, CacheAssumption
  <2>2. others
    BY <2>1 DEF SameFiles
  <2>3. Cardinality(Fresh) <= Cardinality(Fresh') + 1
    BY <1>1, <2>2, FreshGrows
  <2>4. Ahead' = Ahead
    BY <1>1, <2>1, AheadStays DEF SameFiles
  <2>5. Booked + 0 <= Booked' /\ Total(dir') <= Total(dir) + 0 /\ Cardinality(outNext) <= Cardinality(out) + 0
    <3>0. counter' = counter + 1 /\ leaked' = leaked
      BY <2>1
    <3>1. Booked + 0 <= Booked'
      BY ONLY <1>2, <1>3, <2>3, <3>0 DEF Booked
    <3>2. Total(dir') <= Total(dir) + 0 /\ Cardinality(outNext) <= Cardinality(out) + 0
      BY <1>5, <2>1, <2>4 DEF SameFiles
    <3> QED
      BY <3>1, <3>2
  <2> QED
    BY <1>1, <1>2, <1>4, <2>1, <2>5, SizesKeep DEF SweepSteps
<1> QED
  BY <1>7, <1>8, <1>9, <1>10, <1>11, <1>12 DEF ViewerStep

\* The walk, and every entry of the sweep, take from the estimate what they take away.
LEMMA SizesFitSweep ==
    ASSUME PosterTypeOK, NamesFit, SweepFits, SizesFit, NEW v \in Viewers, ViewerStep(v),
           PosterTypeOK', NamesFit', SweepFits',
           \/ CountWrite(v) /\ sweeper' # sweeper
           \/ Walk(v) \/ SweepEntry(v) \/ SweepBeside(v) \/ EndSweep(v)
    PROVE  SizesFit'
<1>1. \A u \in Viewers \ {v} : viewer'[u] = viewer[u]
  BY OneViewerMoves
<1>2. /\ over \in Nat /\ counter \in Nat /\ leaked \in Nat /\ counter' \in Nat /\ leaked' \in Nat
      /\ over' \in Nat /\ dir \in Seq(Entries) /\ dir' \in Seq(Entries)
      /\ list \in Seq(Entries) /\ IsInjective(list) /\ ToSet(<<>>) = {}
  <2>1. ToSet(<<>>) = {}
    BY DEF ToSet
  <2> QED
    BY <2>1 DEF PosterTypeOK, NamesFit
<1>3. /\ Cardinality(Fresh) \in Nat /\ Cardinality(Fresh') \in Nat
  <2>1. IsFiniteSet(Fresh) /\ IsFiniteSet(Fresh')
    BY CacheAssumption, FS_Subset DEF Fresh
  <2> QED
    BY <2>1, FS_CardinalityType
<1>4. Booked \in Nat /\ Booked' \in Nat
  BY <1>2, <1>3 DEF Booked
<1>5. /\ IsFiniteSet(Images(dir)) /\ IsFiniteSet(Images(dir) \ Ahead)
      /\ Total(dir) = Cardinality(Images(dir)) /\ Total(dir') = Cardinality(Images(dir'))
      /\ Cardinality(Images(dir)) \in Nat /\ Cardinality(Images(dir) \ Ahead) \in Nat
  <2>1. /\ IsFiniteSet(Images(dir))
        /\ Total(dir) = Cardinality(Images(dir)) /\ Total(dir') = Cardinality(Images(dir'))
    BY <1>2, FilesFinite
  <2>2. IsFiniteSet(Images(dir) \ Ahead)
    BY <2>1, FS_Subset
  <2> QED
    BY <2>1, <2>2, FS_CardinalityType
<1>6. \A u \in Viewers : sweeper = u <=> viewer[u].step \in SweepSteps
  BY DEF SweepFits, SweepSteps
<1>7. sweeper \in Viewers \union {Nobody} /\ Nobody \notin Viewers /\ Cap \in Nat /\ Target \in Nat /\ Target <= Cap
  BY CacheAssumption DEF PosterTypeOK
<1>8. CASE CountWrite(v) /\ sweeper' # sweeper
  <2>1. sweeper = Nobody /\ sweeper' = v /\ viewer'[v].step = "walk"
    BY <1>8, CountDoes
  <2>2. ~Sweeping'
    BY <1>1, <1>6, <1>7, <2>1 DEF Sweeping, SweepSteps
  <2> QED
    BY <1>7, <2>1, <2>2 DEF SizesFit
<1>9. CASE Walk(v)
  <2>1. viewer[v].step = "walk" /\ UNCHANGED dir
    BY <1>9, WalkDoes
  <2>2. \A u \in Viewers \ {v} : viewer'[u].step \notin SweepSteps
    BY <1>1, <1>6, <2>1 DEF SweepSteps
  <2>3. CASE Total(dir) <= Cap /\ sweeper' = Nobody /\ viewer'[v].step = "away"
    <3>1. ~Sweeping'
      BY <2>2, <2>3 DEF Sweeping, SweepSteps
    <3>2. Total(dir') <= Cap + Booked'
      BY <1>4, <1>5, <1>7, <2>1, <2>3
    <3> QED
      BY <3>1, <3>2 DEF SizesFit
  <2>4. CASE list' = dir /\ over' = Total(dir) /\ viewer'[v].step = "sweep" /\ UNCHANGED sweeper
    <3>1. sweeper' # Nobody
      BY <1>6, <1>7, <2>1, <2>4 DEF SweepSteps
    <3>2. Ahead' = ToSet(dir)
      BY <2>2, <2>4 DEF Ahead, SweepSteps, ViewerAt
    <3>3. Images(dir') \ Ahead' = {}
      BY <2>1, <3>2 DEF Images
    <3>4. Cardinality(Images(dir') \ Ahead') <= Booked'
      BY <1>4, <3>3, FS_EmptySet
    <3>5. Total(dir') <= over' + Booked'
      BY <1>4, <1>5, <2>1, <2>4
    <3> QED
      BY <3>1, <3>4, <3>5 DEF SizesFit
  <2> QED
    BY <1>9, <2>3, <2>4, WalkDoes
<1>10. CASE SweepEntry(v)
  <2> DEFINE e == Head(list)
  <2>1. /\ UNCHANGED <<counter, sweeper, leaked>> /\ viewer[v].step = "sweep" /\ list # <<>>
        /\ e \in Entries /\ ToSet(dir') = ToSet(dir) \ {e}
        /\ over' = over - (IF There(e) THEN Size(e) ELSE 0)
        /\ \/ list' = list /\ viewer'[v].step = "beside"
           \/ list' = Tail(list) /\ viewer'[v].step = "sweep"
    BY <1>10, SweepEntryDoes
  <2>2. \A u \in Viewers \ {v} : viewer[u].step \notin SweepSteps /\ viewer'[u].step \notin SweepSteps
    BY <1>1, <1>6, <2>1 DEF SweepSteps
  <2>3. e \in ToSet(list) /\ ToSet(Tail(list)) = ToSet(list) \ {e}
    BY <1>2, <2>1, TailIs
  <2>4. Ahead = ToSet(list) /\ Ahead' = ToSet(list) \ {e}
    <3>1. Ahead = ToSet(list)
      BY <2>1, <2>2 DEF Ahead, SweepSteps, ViewerAt
    <3>2. CASE list' = list /\ viewer'[v].step = "beside"
      BY <2>3, <3>1, <3>2 DEF Ahead, ViewerAt
    <3>3. CASE list' = Tail(list) /\ viewer'[v].step = "sweep"
      BY <2>2, <2>3, <3>1, <3>3 DEF Ahead, SweepSteps, ViewerAt
    <3> QED
      BY <2>1, <3>2, <3>3
  <2>5. sweeper' # Nobody /\ Sweeping
    BY <1>6, <1>7, <2>1 DEF SweepSteps, Sweeping
  <2>6. Images(dir') = Images(dir) \ {e} /\ Images(dir') \ Ahead' = Images(dir) \ Ahead
    BY <2>1, <2>3, <2>4 DEF Images
  <2>7. Booked <= Booked'
    <3>1. \A u \in Viewers \ {v} : Temp(u) \in ToSet(dir) \ ToSet(list)
                                      => Temp(u) \in ToSet(dir') \ ToSet(list')
      BY <2>1, <2>3
    <3>2. v \notin Fresh
      BY <2>1 DEF Fresh, ViewerAt
    <3>3. Cardinality(Fresh) <= Cardinality(Fresh')
      BY <1>1, <3>1, <3>2, FreshGrows
    <3> QED
      BY <1>2, <1>3, <2>1, <3>3 DEF Booked
  <2>8. Total(dir) <= over + Booked /\ Cardinality(Images(dir) \ Ahead) <= Booked
    BY <2>5 DEF SizesFit
  <2>9. Total(dir') <= over' + Booked'
    <3>1. CASE There(e) /\ Size(e) = 1
      <4>1. e \in Images(dir)
        BY <3>1 DEF Images, There
      <4>2. Cardinality(Images(dir')) = Cardinality(Images(dir)) - 1
        BY <1>5, <2>6, <4>1, FS_RemoveElement
      <4>3. over' = over - 1
        BY <2>1, <3>1
      <4> QED
        BY <1>2, <1>4, <1>5, <2>7, <2>8, <4>2, <4>3
    <3>2. CASE ~(There(e) /\ Size(e) = 1)
      <4>1. Images(dir') = Images(dir)
        BY <2>6, <3>2 DEF Images, There
      <4>2. Size(e) \in {0, 1}
        BY <2>1, KindsOfEntries
      <4>3. over' = over
        BY <1>2, <2>1, <3>2, <4>2
      <4> QED
        BY <1>2, <1>4, <1>5, <2>7, <2>8, <4>1, <4>3
    <3> QED
      BY <3>1, <3>2
  <2>10. Cardinality(Images(dir') \ Ahead') <= Booked'
    BY <1>4, <1>5, <2>6, <2>7, <2>8
  <2> QED
    BY <2>5, <2>9, <2>10 DEF SizesFit
<1>11. CASE SweepBeside(v)
  <2>1. /\ UNCHANGED <<counter, sweeper, over, leaked>>
        /\ viewer[v].step = "beside" /\ viewer'[v].step = "sweep" /\ list # <<>> /\ list' = Tail(list)
    BY <1>11, SweepBesideDoes
  <2>2. PICK k \in Posters : ToSet(dir') = ToSet(dir) \ {Mime(k)}
    BY <1>11, SweepBesideDoes
  <2>3. Size(Mime(k)) = 0 /\ \A u : Temp(u) # Mime(k)
    BY NamesDiffer
  <2>4. \A u \in Viewers \ {v} : viewer'[u].step \notin SweepSteps
    BY <1>1, <1>6, <2>1 DEF SweepSteps
  <2>5. Ahead' = Ahead
    BY <2>1, <2>4 DEF Ahead, SweepSteps, ViewerAt
  <2>6. Images(dir') = Images(dir)
    BY <2>2, <2>3 DEF Images
  <2>7. sweeper' # Nobody /\ Sweeping
    BY <1>6, <1>7, <2>1 DEF SweepSteps, Sweeping
  <2>8. Booked <= Booked'
    <3>1. ToSet(list') \subseteq ToSet(list)
      BY <1>2, <2>1, TailIs
    <3>2. v \notin Fresh
      BY <2>1 DEF Fresh, ViewerAt
    <3>3. Cardinality(Fresh) <= Cardinality(Fresh')
      BY <1>1, <2>2, <2>3, <3>1, <3>2, FreshGrows
    <3> QED
      BY <1>2, <1>3, <2>1, <3>3 DEF Booked
  <2>9. Total(dir) <= over + Booked /\ Cardinality(Images(dir) \ Ahead) <= Booked
    BY <2>7 DEF SizesFit
  <2>10. Total(dir') <= over' + Booked'
    BY <1>2, <1>4, <1>5, <2>1, <2>6, <2>8, <2>9
  <2>11. Cardinality(Images(dir') \ Ahead') <= Booked'
    BY <1>4, <1>5, <2>5, <2>6, <2>8, <2>9
  <2> QED
    BY <2>7, <2>10, <2>11 DEF SizesFit
<1>12. CASE EndSweep(v)
  <2>1. /\ UNCHANGED <<dir, counter, leaked>> /\ viewer[v].step = "sweep" /\ viewer'[v].step = "away"
        /\ list' = <<>> /\ (list = <<>> \/ over <= Target)
    BY <1>12, EndSweepDoes
  <2>2. \A u \in Viewers \ {v} : viewer[u].step \notin SweepSteps /\ viewer'[u].step \notin SweepSteps
    BY <1>1, <1>6, <2>1 DEF SweepSteps
  <2>3. ~Sweeping' /\ Sweeping
    BY <2>1, <2>2 DEF Sweeping, SweepSteps
  <2>4. Booked <= Booked'
    <3>1. v \notin Fresh
      BY <2>1 DEF Fresh, ViewerAt
    <3>0. \A u \in Viewers \ {v} : Temp(u) \in ToSet(dir) \ ToSet(list)
                                      => Temp(u) \in ToSet(dir') \ ToSet(list')
      <4>1. ToSet(list') = {} /\ dir' = dir
        BY <1>2, <2>1
      <4> QED
        BY <4>1
    <3>2. Cardinality(Fresh) <= Cardinality(Fresh')
      BY <1>1, <3>0, <3>1, FreshGrows
    <3> QED
      BY <1>2, <1>3, <2>1, <3>2 DEF Booked
  <2>5. Total(dir) <= over + Booked /\ Cardinality(Images(dir) \ Ahead) <= Booked
    BY <2>3 DEF SizesFit
  <2>6. CASE over <= Target
    <3>1. Total(dir') <= Cap + Booked'
      BY <1>2, <1>4, <1>5, <1>7, <2>1, <2>4, <2>5, <2>6
    <3> QED
      BY <2>3, <3>1 DEF SizesFit
  <2>7. CASE list = <<>>
    <3>1. Ahead = {}
      BY <1>2, <2>1, <2>2, <2>7 DEF Ahead, SweepSteps, ViewerAt
    <3>2. Images(dir) \ Ahead = Images(dir)
      BY <3>1
    <3>3. Total(dir) <= Booked /\ Total(dir) \in Nat
      BY <1>5, <2>5, <3>2
    <3>4. Total(dir') = Total(dir)
      BY <2>1
    <3>5. Total(dir') <= Cap + Booked'
      BY ONLY <1>4, <1>7, <2>4, <3>3, <3>4
    <3> QED
      BY <2>3, <3>5 DEF SizesFit
  <2> QED
    BY <2>1, <2>6, <2>7
<1> QED
  BY <1>8, <1>9, <1>10, <1>11, <1>12

-----------------------------------------------------------------------------
(* The types on record. *)

\* A type on record has its file, and who writes has a type to write.
LEMMA RecordsThere ==
    ASSUME PosterTypeOK, NamesFit, SweepFits, TypesFit, NEW v \in Viewers, ViewerStep(v)
    PROVE  /\ \A k \in Posters : mime'[k] # NoType => There(Mime(k))'
           /\ \A u \in Viewers : viewer'[u].step \in WriteSteps => viewer'[u].type \in Types
<1>1. \A u \in Viewers \ {v} : viewer'[u] = viewer[u]
  BY OneViewerMoves
<1>2. /\ \A k \in Posters : mime[k] # NoType => Mime(k) \in ToSet(dir)
      /\ \A u \in Viewers : viewer[u].step \in WriteSteps => viewer[u].type \in Types
      /\ mime \in [Posters -> Types \union {NoType}]
  BY DEF TypesFit, There, PosterTypeOK
<1>3. SUFFICES /\ \A k \in Posters : mime'[k] # NoType => Mime(k) \in ToSet(dir')
               /\ viewer'[v].step \in WriteSteps => viewer'[v].type \in Types
  BY <1>1, <1>2 DEF There
<1>4. CASE \/ LookUp(v) \/ ReadImage(v) \/ ReadType(v) \/ NoPoster(v)
           \/ \E k \in Posters : AskPoster(v, k)
  <2>1. SameFiles /\ UNCHANGED mime /\ viewer'[v].step \in Calm
    BY <1>4, CalmSteps
  <2> QED
    BY <1>2, <2>1 DEF SameFiles, Calm, WriteSteps
<1>5. CASE FetchPoster(v)
  BY <1>2, <1>5, FetchDoes
<1>6. CASE WriteTemp(v)
  <2>1. UNCHANGED mime /\ viewer[v].step = "temp" /\ ToSet(dir) \subseteq ToSet(dir')
    BY <1>6, WriteTempDoes
  <2>2. Hence(v, "image") \/ viewer'[v].step = "away"
    BY <1>6, WriteTempDoes
  <2> QED
    BY <1>2, <2>1, <2>2 DEF Hence, WriteSteps
<1>7. CASE ReplaceImage(v)
  <2>1. UNCHANGED mime /\ viewer[v].step = "image"
    BY <1>7, ReplaceImageDoes
  <2>2. Hence(v, "mime temp") \/ viewer'[v].step = "away"
    BY <1>7, ReplaceImageDoes
  <2>3. \/ UNCHANGED dir
        \/ ToSet(dir') = (ToSet(dir) \ {Temp(v), Image(Poster(v))}) \union {Image(Poster(v))}
    BY <1>7, ReplaceImageDoes
  <2>4. \A k : Mime(k) \notin {Temp(v), Image(Poster(v))}
    BY NamesDiffer
  <2>5. \A k \in Posters : Mime(k) \in ToSet(dir) => Mime(k) \in ToSet(dir')
    BY <2>3, <2>4
  <2> QED
    BY <1>2, <2>1, <2>2, <2>5 DEF Hence, WriteSteps
<1>8. CASE WriteMimeTemp(v)
  <2>1. /\ UNCHANGED mime /\ viewer[v].step = "mime temp" /\ ToSet(dir) \subseteq ToSet(dir')
        /\ Hence(v, "mime") \/ Hence(v, "count")
    BY <1>8, WriteMimeTempDoes
  <2> QED
    BY <1>2, <2>1 DEF Hence, WriteSteps
<1>9. CASE ReplaceMime(v)
  <2>1. viewer[v].step = "mime" /\ Hence(v, "count") /\ Poster(v) \in Posters
    BY <1>9, ReplaceMimeDoes
  <2>2. viewer'[v].type \in Types
    BY <1>2, <2>1 DEF Hence, WriteSteps
  <2>3. ASSUME NEW k \in Posters, mime'[k] # NoType PROVE Mime(k) \in ToSet(dir')
    <3>1. CASE UNCHANGED <<dir, mime>>
      BY <1>2, <2>3, <3>1
    <3>2. CASE /\ mime' = [mime EXCEPT ![Poster(v)] = viewer[v].type]
               /\ ToSet(dir') = (ToSet(dir) \ {MimeTemp(v), Mime(Poster(v))}) \union {Mime(Poster(v))}
      <4>1. CASE k = Poster(v)
        BY <3>2, <4>1
      <4>2. CASE k # Poster(v)
        <5>1. Mime(k) \in ToSet(dir)
          BY <1>2, <2>3, <3>2, <4>2
        <5>2. Mime(k) # MimeTemp(v)
          BY NamesDiffer
        <5> QED
          BY <3>2, <5>1, <5>2
      <4> QED
        BY <4>1, <4>2
    <3> QED
      BY <1>9, <3>1, <3>2, ReplaceMimeDoes
  <2> QED
    BY <2>2, <2>3
<1>10. CASE CountWrite(v)
  <2>1. SameFiles /\ UNCHANGED mime /\ viewer'[v].step \in {"walk", "away"}
    BY <1>10, CountDoes
  <2> QED
    BY <1>2, <2>1 DEF SameFiles, WriteSteps
<1>11. CASE Walk(v) \/ EndSweep(v)
  <2>1. UNCHANGED <<dir, mime>> /\ viewer'[v].step \in {"sweep", "away"}
    BY <1>11, WalkDoes, EndSweepDoes
  <2> QED
    BY <1>2, <2>1 DEF WriteSteps
<1>12. CASE SweepEntry(v)
  <2> DEFINE e == Head(list)
  <2>1. /\ ToSet(dir') = ToSet(dir) \ {e} /\ viewer[v].step = "sweep" /\ e \in Entries
        /\ viewer'[v].step \in {"sweep", "beside"}
    BY <1>12, SweepEntryDoes
  <2>2. \/ There(e) /\ e[1] = "image" /\ UNCHANGED mime
        \/ ~(There(e) /\ e[1] = "image")
           /\ mime' = IF There(e) /\ e[1] = "mime" THEN [mime EXCEPT ![e[2]] = NoType] ELSE mime
    BY <1>12, SweepEntryDoes
  <2> HIDE DEF e
  <2>3. ASSUME NEW k \in Posters, mime'[k] # NoType PROVE Mime(k) \in ToSet(dir')
    <3>1. Mime(k)[1] = "mime" /\ Mime(k)[2] = k
      BY KindsOfEntries
    <3>2. Mime(k) \in ToSet(dir)
      BY <1>2, <2>2, <2>3
    <3>3. e # Mime(k)
      <4> SUFFICES ASSUME e = Mime(k) PROVE FALSE
        OBVIOUS
      <4>1. There(e) /\ e[1] = "mime" /\ e[2] = k
        BY <3>1, <3>2 DEF There
      <4>2. mime' = [mime EXCEPT ![k] = NoType]
        BY <2>2, <4>1
      <4> QED
        BY <1>2, <2>3, <4>2
    <3> QED
      BY <2>1, <3>2, <3>3
  <2> QED
    BY <2>1, <2>3 DEF WriteSteps
<1>13. CASE SweepBeside(v)
  <2>1. viewer'[v].step = "sweep"
    BY <1>13, SweepBesideDoes
  <2>2. PICK j \in Posters : mime' = [mime EXCEPT ![j] = NoType] /\ ToSet(dir') = ToSet(dir) \ {Mime(j)}
    BY <1>13, SweepBesideDoes
  <2>3. ASSUME NEW k \in Posters, mime'[k] # NoType PROVE Mime(k) \in ToSet(dir')
    <3>1. k # j /\ mime[k] # NoType
      BY <1>2, <2>2, <2>3
    <3>2. Mime(k) # Mime(j)
      BY <3>1, NamesDiffer
    <3> QED
      BY <1>2, <2>2, <3>1, <3>2
  <2> QED
    BY <2>1, <2>3 DEF WriteSteps
<1> QED
  BY <1>4, <1>5, <1>6, <1>7, <1>8, <1>9, <1>10, <1>11, <1>12, <1>13 DEF ViewerStep

\* Who does not write a poster can only take its image or its type away.
LEMMA OthersOnlyTake ==
    ASSUME PosterTypeOK, NamesFit, SweepFits, NEW v \in Viewers, ViewerStep(v),
           NEW k \in Posters, v \notin WritersOf(k)
    PROVE  type'[k] \in {type[k], NoType} /\ mime'[k] \in {mime[k], NoType}
<1>1. type \in [Posters -> Types \union {NoType}] /\ mime \in [Posters -> Types \union {NoType}]
  BY DEF PosterTypeOK
<1>2. CASE UNCHANGED <<type, mime>>
  BY <1>2
<1>3. CASE \/ LookUp(v) \/ ReadImage(v) \/ ReadType(v) \/ NoPoster(v)
           \/ \E j \in Posters : AskPoster(v, j)
  BY <1>2, <1>3, CalmSteps
<1>4. CASE FetchPoster(v) \/ WriteTemp(v) \/ WriteMimeTemp(v)
  BY <1>2, <1>4, FetchDoes, WriteTempDoes, WriteMimeTempDoes
<1>5. CASE CountWrite(v) \/ Walk(v) \/ EndSweep(v)
  BY <1>2, <1>5, CountDoes, WalkDoes, EndSweepDoes
<1>6. CASE ReplaceImage(v)
  <2>1. /\ UNCHANGED mime /\ Poster(v) # k
        /\ UNCHANGED type \/ type' = [type EXCEPT ![Poster(v)] = viewer[v].type]
    BY <1>6, ReplaceImageDoes DEF WritersOf, WriteSteps
  <2> QED
    BY <1>1, <2>1
<1>7. CASE ReplaceMime(v)
  <2>1. /\ UNCHANGED type /\ Poster(v) # k
        /\ UNCHANGED mime \/ mime' = [mime EXCEPT ![Poster(v)] = viewer[v].type]
    BY <1>7, ReplaceMimeDoes DEF WritersOf, WriteSteps
  <2> QED
    BY <1>1, <2>1
<1>8. CASE SweepEntry(v)
  <2> DEFINE e == Head(list)
  <2>1. \/ UNCHANGED mime /\ type' = [type EXCEPT ![e[2]] = NoType]
        \/ UNCHANGED type /\ mime' \in {mime, [mime EXCEPT ![e[2]] = NoType]}
    BY <1>8, SweepEntryDoes
  <2> QED
    BY <1>1, <2>1
<1>9. CASE SweepBeside(v)
  <2>1. UNCHANGED type /\ \E j \in Posters : mime' = [mime EXCEPT ![j] = NoType]
    BY <1>9, SweepBesideDoes
  <2> QED
    BY <1>1, <2>1
<1> QED
  BY <1>3, <1>4, <1>5, <1>6, <1>7, <1>8, <1>9 DEF ViewerStep

LEMMA BeforeThere ==
    ASSUME NEW s, NEW e, NEW f, Before(s, e, f)
    PROVE  e \in ToSet(s) /\ f \in ToSet(s)
BY DEF Before, ToSet

\* The order of the old type and the new one outlasts the steps of others, the sweep's
\* included, which comes to the old one first.
LEMMA OlderStays ==
    ASSUME PosterTypeOK, NamesFit, SweepFits, TypesFit, NEW v \in Viewers, ViewerStep(v),
           NEW k \in Posters, v \notin WritersOf(k), NEW u \in WritersOf(k),
           ViewerAt(u, "mime"), mime'[k] # NoType, Older(k, u)
    PROVE  Older(k, u)'
<1> DEFINE e == Mime(k)
           f == MimeTemp(u)
<1>1. /\ u \in Viewers /\ u # v /\ viewer[u].step = "mime"
      /\ dir \in Seq(Entries) /\ IsInjective(dir) /\ list \in Seq(Entries) /\ IsInjective(list)
  BY DEF WritersOf, ViewerAt, PosterTypeOK, NamesFit
<1>2. Before(dir, e, f) /\ (f \in ToSet(list) => Before(list, e, f))
  BY DEF Older
<1>3. e \in ToSet(dir) /\ f \in ToSet(dir) /\ mime[k] # NoType
  <2>1. mime'[k] \in {mime[k], NoType}
    BY OthersOnlyTake
  <2> QED
    BY <1>2, <2>1, BeforeThere
<1>4. /\ \A j : /\ {e, f} \intersect {Temp(j), Image(j), Part(j)} = {}
                /\ j # k => e # Mime(j)
                /\ j # u => f # MimeTemp(j)
      /\ \A j : e # MimeTemp(j) /\ f # Mime(j)
  BY NamesDiffer
<1>5. SUFFICES Before(dir', e, f) /\ (f \in ToSet(list') => Before(list', e, f))
  BY DEF Older
<1> HIDE DEF e, f
<1>6. ASSUME UNCHANGED list, Before(dir', e, f)
      PROVE  Before(dir', e, f) /\ (f \in ToSet(list') => Before(list', e, f))
  BY <1>2, <1>6
<1>7. CASE \/ LookUp(v) \/ ReadImage(v) \/ ReadType(v) \/ NoPoster(v)
           \/ \E j \in Posters : AskPoster(v, j)
  BY <1>2, <1>7, CalmSteps DEF SameFiles
<1>8. CASE FetchPoster(v)
  <2>1. /\ UNCHANGED dir /\ ToSet(list') = ToSet(list) \ {Temp(v), MimeTemp(v)}
        /\ \A g, h : {g, h} \intersect {Temp(v), MimeTemp(v)} = {} /\ Before(list, g, h)
                           => Before(list', g, h)
    BY <1>8, FetchDoes
  <2>2. {e, f} \intersect {Temp(v), MimeTemp(v)} = {}
    BY <1>1, <1>4
  <2> QED
    BY <1>2, <2>1, <2>2
<1>9. CASE WriteTemp(v)
  <2>1. UNCHANGED list /\ \A g, h : Before(dir, g, h) => Before(dir', g, h)
    BY <1>9, WriteTempDoes
  <2> QED
    BY <1>2, <1>6, <2>1
<1>10. CASE ReplaceImage(v)
  <2>1. /\ UNCHANGED list
        /\ \/ UNCHANGED dir
           \/ \A g, h : {g, h} \intersect {Temp(v), Image(Poster(v))} = {} /\ Before(dir, g, h)
                                 => Before(dir', g, h)
    BY <1>10, ReplaceImageDoes
  <2>2. {e, f} \intersect {Temp(v), Image(Poster(v))} = {}
    BY <1>4
  <2> QED
    BY <1>2, <1>6, <2>1, <2>2
<1>11. CASE WriteMimeTemp(v)
  <2>1. UNCHANGED list /\ (UNCHANGED dir \/ \A g, h : Before(dir, g, h) => Before(dir', g, h))
    BY <1>11, WriteMimeTempDoes
  <2> QED
    BY <1>2, <1>6, <2>1
<1>12. CASE ReplaceMime(v)
  <2>1. /\ UNCHANGED list /\ viewer[v].step = "mime"
        /\ \/ UNCHANGED dir
           \/ \A g, h : {g, h} \intersect {MimeTemp(v), Mime(Poster(v))} = {} /\ Before(dir, g, h)
                                 => Before(dir', g, h)
    BY <1>12, ReplaceMimeDoes
  <2>2. Poster(v) # k
    BY <2>1 DEF WritersOf, WriteSteps
  <2>3. {e, f} \intersect {MimeTemp(v), Mime(Poster(v))} = {}
    BY <1>1, <1>4, <2>2
  <2> QED
    BY <1>2, <1>6, <2>1, <2>3
<1>13. CASE CountWrite(v)
  BY <1>2, <1>13, CountDoes DEF SameFiles
<1>14. CASE Walk(v) \/ EndSweep(v)
  <2>1. UNCHANGED dir /\ list' \in {<<>>, dir}
    BY <1>14, WalkDoes, EndSweepDoes
  <2>2. ToSet(<<>>) = {}
    BY DEF ToSet
  <2> QED
    BY <1>2, <2>1, <2>2
<1>15. CASE SweepEntry(v)
  <2> DEFINE x == Head(list)
  <2>1. /\ list # <<>> /\ x \in Entries /\ list' \in {list, Tail(list)}
        /\ \A g, h : {g, h} \intersect {x} = {} /\ Before(dir, g, h) => Before(dir', g, h)
    BY <1>15, SweepEntryDoes
  <2>2. \/ There(x) /\ x[1] = "image"
        \/ mime' = IF There(x) /\ x[1] = "mime" THEN [mime EXCEPT ![x[2]] = NoType] ELSE mime
    BY <1>15, SweepEntryDoes
  <2>3. /\ x \in ToSet(list) /\ ToSet(Tail(list)) = ToSet(list) \ {x}
        /\ \A g, h : Before(list, g, h) => h # x
        /\ \A g, h : Before(list, g, h) /\ g # x => Before(Tail(list), g, h)
    BY <1>1, <2>1, TailIs
  <2> HIDE DEF x
  <2>4. x # f
    BY <1>2, <2>3
  <2>5. x # e
    <3> SUFFICES ASSUME x = e PROVE FALSE
      OBVIOUS
    <3>1. x[1] = "mime" /\ x[2] = k
      BY KindsOfEntries DEF e
    <3>2. There(x)
      BY <1>3 DEF There
    <3>3. mime' = [mime EXCEPT ![k] = NoType]
      BY <2>2, <3>1, <3>2
    <3> QED
      BY <3>3 DEF PosterTypeOK
  <2>6. Before(dir', e, f)
    BY <1>2, <2>1, <2>4, <2>5
  <2>7. ASSUME f \in ToSet(list') PROVE Before(list', e, f)
    <3>1. f \in ToSet(list)
      BY <2>1, <2>3, <2>7
    <3> QED
      BY <1>2, <2>1, <2>3, <2>5, <3>1
  <2> QED
    BY <2>6, <2>7
<1>16. CASE SweepBeside(v)
  <2>1. list # <<>> /\ list' = Tail(list)
    BY <1>16, SweepBesideDoes
  <2>2. PICK j \in Posters :
           /\ Head(list) = Image(j) /\ mime' = [mime EXCEPT ![j] = NoType]
           /\ \A g, h : {g, h} \intersect {Mime(j)} = {} /\ Before(dir, g, h) => Before(dir', g, h)
    BY <1>16, SweepBesideDoes
  <2>3. /\ ToSet(Tail(list)) = ToSet(list) \ {Head(list)}
        /\ \A g, h : Before(list, g, h) /\ g # Head(list) => Before(Tail(list), g, h)
    BY <1>1, <2>1, TailIs
  <2>4. j # k
    BY <2>2 DEF PosterTypeOK
  <2>5. {e, f} \intersect {Mime(j)} = {} /\ e # Head(list)
    BY <1>4, <2>2, <2>4
  <2>6. Before(dir', e, f)
    BY <1>2, <2>2, <2>5
  <2>7. ASSUME f \in ToSet(list') PROVE Before(list', e, f)
    <3>1. f \in ToSet(list)
      BY <2>1, <2>3, <2>7
    <3> QED
      BY <1>2, <2>1, <2>3, <2>5, <3>1
  <2> QED
    BY <2>6, <2>7
<1> QED
  BY <1>7, <1>8, <1>9, <1>10, <1>11, <1>12, <1>13, <1>14, <1>15, <1>16 DEF ViewerStep

\* Who moves writes a poster or does not; of the writers of another nothing changes.
LEMMA WritersMove ==
    ASSUME NEW v \in Viewers, \A u \in Viewers \ {v} : viewer'[u] = viewer[u], NEW k
    PROVE  /\ WritersOf(k)' \ {v} = WritersOf(k) \ {v}
           /\ \A u \in WritersOf(k)' \ {v} : viewer'[u] = viewer[u]
BY DEF WritersOf, Poster

LEMMA OtherTypesFit ==
    ASSUME PosterTypeOK, NamesFit, SweepFits, TypesFit, NEW v \in Viewers, ViewerStep(v),
           NEW k \in Posters, TypeFits(k), v \notin WritersOf(k), v \notin WritersOf(k)'
    PROVE  TypeFits(k)'
<1>1. \A u \in Viewers \ {v} : viewer'[u] = viewer[u]
  BY OneViewerMoves
<1>2. WritersOf(k)' = WritersOf(k) /\ \A u \in WritersOf(k) : viewer'[u] = viewer[u] /\ u \in Viewers
  <2>1. WritersOf(k)' = WritersOf(k)
    BY <1>1, WritersMove
  <2> QED
    BY <1>1, <2>1 DEF WritersOf
<1>3. type'[k] \in {type[k], NoType} /\ mime'[k] \in {mime[k], NoType}
  BY OthersOnlyTake
<1>4. \A u \in WritersOf(k)' : viewer'[u].step = "mime" /\ mime'[k] # NoType => Older(k, u)'
  <2> SUFFICES ASSUME NEW u \in WritersOf(k), viewer[u].step = "mime", mime'[k] # NoType
               PROVE  Older(k, u)'
    BY <1>2
  <2>1. Older(k, u)
    BY <1>3 DEF TypeFits, ViewerAt
  <2> QED
    BY <2>1, OlderStays DEF ViewerAt
<1>5. \A u, w \in WritersOf(k)' : u = w
  BY <1>2 DEF TypeFits
<1>6. \A u \in WritersOf(k)' : viewer'[u].step \in {"mime temp", "mime"}
                                  => type'[k] \in {viewer'[u].type, NoType}
  BY <1>2, <1>3 DEF TypeFits
<1>7. (\A u \in WritersOf(k)' : viewer'[u].step \in {"temp", "image"})
          => type'[k] = NoType \/ mime'[k] = NoType \/ mime'[k] = type'[k]
  BY <1>2, <1>3 DEF TypeFits
<1> QED
  BY <1>4, <1>5, <1>6, <1>7 DEF TypeFits, ViewerAt

\* The writer of a poster, step by step.
LEMMA WriterTypesFit ==
    ASSUME PosterTypeOK, NamesFit, SweepFits, TypesFit, NEW v \in Viewers, ViewerStep(v),
           NEW k \in Posters, k \notin mixed', TypeFits(k),
           v \in WritersOf(k) \/ v \in WritersOf(k)'
    PROVE  TypeFits(k)'
<1>1. \A u \in Viewers \ {v} : viewer'[u] = viewer[u]
  BY OneViewerMoves
<1>2. /\ WritersOf(k)' \ {v} = WritersOf(k) \ {v}
      /\ v \in WritersOf(k) <=> viewer[v].step \in WriteSteps \ {"count"} /\ Poster(v) = k
      /\ v \in WritersOf(k)' <=> viewer'[v].step \in WriteSteps \ {"count"} /\ Poster(v)' = k
  BY <1>1, WritersMove DEF WritersOf
<1>3. type \in [Posters -> Types \union {NoType}] /\ mime \in [Posters -> Types \union {NoType}]
  BY DEF PosterTypeOK
<1>4. /\ viewer[v].step \in WriteSteps \ {"count"} \/ viewer'[v].step \in WriteSteps \ {"count"}
      /\ WriteSteps = {"temp", "image", "mime temp", "mime", "count"}
  BY <1>2 DEF WriteSteps
<1>5. ASSUME v \in WritersOf(k) PROVE WritersOf(k) = {v} /\ WritersOf(k)' \subseteq {v}
  <2>1. WritersOf(k) = {v}
    BY <1>5 DEF TypeFits
  <2> QED
    BY <1>2, <2>1
<1>6. ASSUME WritersOf(k)' = {}, type'[k] = NoType \/ mime'[k] = NoType \/ mime'[k] = type'[k]
      PROVE  TypeFits(k)'
  BY <1>6 DEF TypeFits
<1>7. ASSUME WritersOf(k)' = {v}, viewer'[v].step \in {"temp", "image"},
             type'[k] = NoType \/ mime'[k] = NoType \/ mime'[k] = type'[k]
      PROVE  TypeFits(k)'
  BY <1>7 DEF TypeFits, ViewerAt
<1>8. ASSUME WritersOf(k) = {v}, viewer[v].step \in {"temp", "image"}
      PROVE  type[k] = NoType \/ mime[k] = NoType \/ mime[k] = type[k]
  BY <1>8 DEF TypeFits
<1>9. CASE FetchPoster(v)
  <2>1. /\ viewer[v].step = "fetch" /\ viewer'[v].step = "temp" /\ UNCHANGED <<type, mime>>
        /\ Poster(v)' = Poster(v)
        /\ mixed' = IF WritersOf(Poster(v)) # {} THEN mixed \union {Poster(v)} ELSE mixed
    BY <1>9, FetchDoes
  <2>2. v \in WritersOf(k)' /\ Poster(v) = k
    BY <1>2, <1>4, <2>1
  <2>3. WritersOf(k) = {}
    BY <2>1, <2>2
  <2>4. WritersOf(k)' = {v}
    BY <1>2, <2>2, <2>3
  <2>5. type[k] = NoType \/ mime[k] = NoType \/ mime[k] = type[k]
    BY <2>3 DEF TypeFits
  <2> QED
    BY <1>7, <2>1, <2>4, <2>5
<1>10. CASE WriteTemp(v)
  <2>1. UNCHANGED <<type, mime>> /\ viewer[v].step = "temp"
    BY <1>10, WriteTempDoes
  <2>2. \/ viewer'[v].step = "image" /\ Poster(v)' = Poster(v)
        \/ viewer'[v].step = "away"
    BY <1>10, WriteTempDoes DEF Hence
  <2>3. v \in WritersOf(k)
    BY <1>2, <1>4, <2>1, <2>2
  <2>4. WritersOf(k) = {v} /\ (WritersOf(k)' = {v} \/ WritersOf(k)' = {})
    BY <1>5, <2>3
  <2>5. type'[k] = NoType \/ mime'[k] = NoType \/ mime'[k] = type'[k]
    BY <1>8, <2>1, <2>4
  <2>6. v \in WritersOf(k)' => viewer'[v].step = "image"
    BY <1>2, <1>4, <2>2
  <2> QED
    BY <1>6, <1>7, <2>4, <2>5, <2>6
<1>11. CASE ReplaceImage(v)
  <2>1. /\ UNCHANGED mime /\ viewer[v].step = "image"
        /\ \/ /\ viewer'[v].step = "mime temp" /\ Poster(v)' = Poster(v)
              /\ viewer'[v].type = viewer[v].type
              /\ type' = [type EXCEPT ![Poster(v)] = viewer[v].type]
           \/ viewer'[v].step = "away" /\ UNCHANGED type
    BY <1>11, ReplaceImageDoes DEF Hence
  <2>2. v \in WritersOf(k) /\ Poster(v) = k
    BY <1>2, <1>4, <2>1
  <2>3. WritersOf(k) = {v} /\ WritersOf(k)' \subseteq {v}
    BY <1>5, <2>2
  <2>4. CASE viewer'[v].step = "away" /\ UNCHANGED type
    <3>1. WritersOf(k)' = {}
      BY <1>2, <1>4, <2>3, <2>4
    <3> QED
      BY <1>6, <1>8, <2>1, <2>3, <2>4, <3>1
  <2>5. CASE /\ viewer'[v].step = "mime temp" /\ Poster(v)' = Poster(v)
             /\ viewer'[v].type = viewer[v].type
             /\ type' = [type EXCEPT ![Poster(v)] = viewer[v].type]
    <3>1. WritersOf(k)' = {v}
      BY <1>2, <1>4, <2>2, <2>3, <2>5
    <3>2. type'[k] = viewer'[v].type
      BY <1>3, <2>2, <2>5
    <3> QED
      BY <2>5, <3>1, <3>2 DEF TypeFits, ViewerAt
  <2> QED
    BY <2>1, <2>4, <2>5
<1>12. CASE WriteMimeTemp(v)
  <2>1. /\ UNCHANGED <<list, type, mime>> /\ viewer[v].step = "mime temp"
        /\ viewer'[v].step \in {"mime", "count"}
        /\ viewer'[v].step = "count" => mixed' = mixed \union {Poster(v)}
        /\ Poster(v)' = Poster(v) /\ viewer'[v].type = viewer[v].type
    BY <1>12, WriteMimeTempDoes DEF Hence
  <2>2. v \in WritersOf(k) /\ Poster(v) = k
    BY <1>2, <1>4, <2>1
  <2>3. viewer'[v].step = "mime"
    BY <2>1, <2>2
  <2>4. WritersOf(k)' = {v} /\ WritersOf(k) = {v}
    BY <1>2, <1>4, <1>5, <2>1, <2>2, <2>3
  <2>5. type'[k] \in {viewer'[v].type, NoType}
    BY <2>1, <2>4 DEF TypeFits
  <2>6. ASSUME mime'[k] # NoType PROVE Older(k, v)'
    <3>1. There(Mime(k))
      BY <2>1, <2>6 DEF TypesFit
    <3>2. Before(dir', Mime(k), MimeTemp(v))
      BY <1>12, <2>3, <3>1, WriteMimeTempDoes DEF Hence
    <3>3. MimeTemp(v) \notin ToSet(list')
      BY <2>1 DEF NamesFit, ViewerAt
    <3> QED
      BY <3>2, <3>3 DEF Older
  <2> QED
    BY <2>3, <2>4, <2>5, <2>6 DEF TypeFits, ViewerAt
<1>13. CASE ReplaceMime(v)
  <2>1. UNCHANGED type /\ viewer[v].step = "mime" /\ viewer'[v].step = "count"
    BY <1>13, ReplaceMimeDoes DEF Hence
  <2>2. v \in WritersOf(k) /\ Poster(v) = k
    BY <1>2, <1>4, <2>1
  <2>3. WritersOf(k) = {v} /\ WritersOf(k)' = {}
    BY <1>2, <1>4, <1>5, <2>1, <2>2
  <2>4. CASE There(MimeTemp(v)) /\ mime' = [mime EXCEPT ![Poster(v)] = viewer[v].type]
    <3>1. mime'[k] = viewer[v].type /\ type[k] \in {viewer[v].type, NoType}
      BY <1>3, <2>1, <2>2, <2>3, <2>4 DEF TypeFits
    <3> QED
      BY <1>6, <2>1, <2>3, <3>1
  <2>5. CASE ~There(MimeTemp(v)) /\ UNCHANGED mime
    <3>1. ASSUME mime[k] # NoType PROVE FALSE
      <4>1. Older(k, v)
        BY <2>1, <2>3, <3>1 DEF TypeFits, ViewerAt
      <4> QED
        BY <2>5, <4>1, BeforeThere DEF Older, There
    <3> QED
      BY <1>6, <2>3, <2>5, <3>1
  <2> QED
    BY <1>13, <2>4, <2>5, ReplaceMimeDoes
<1>14. CASE \/ LookUp(v) \/ ReadImage(v) \/ ReadType(v) \/ NoPoster(v)
            \/ \E j \in Posters : AskPoster(v, j)
  <2>1. viewer[v].step \in Calm /\ viewer'[v].step \in Calm
    BY <1>14, CalmSteps
  <2> QED
    BY <1>4, <2>1 DEF Calm
<1>15. CASE CountWrite(v)
  <2>1. viewer[v].step = "count" /\ viewer'[v].step \in {"walk", "away"}
    BY <1>15, CountDoes
  <2> QED
    BY <1>4, <2>1
<1>16. CASE Walk(v) \/ SweepEntry(v) \/ SweepBeside(v) \/ EndSweep(v)
  <2>1. /\ viewer[v].step \in {"walk", "sweep", "beside"}
        /\ viewer'[v].step \in {"sweep", "beside", "away"}
    BY <1>16, WalkDoes, SweepEntryDoes, SweepBesideDoes, EndSweepDoes
  <2> QED
    BY <1>4, <2>1
<1> QED
  BY <1>9, <1>10, <1>11, <1>12, <1>13, <1>14, <1>15, <1>16 DEF ViewerStep

LEMMA TypesFitStep ==
    ASSUME PosterTypeOK, NamesFit, SweepFits, TypesFit, NEW v \in Viewers, ViewerStep(v)
    PROVE  TypesFit'
<1>1. mixed \subseteq mixed'
  <2>1. CASE \/ LookUp(v) \/ ReadImage(v) \/ ReadType(v) \/ NoPoster(v)
             \/ \E j \in Posters : AskPoster(v, j)
    BY <2>1, CalmSteps
  <2>2. CASE FetchPoster(v) \/ WriteTemp(v) \/ ReplaceImage(v) \/ WriteMimeTemp(v) \/ ReplaceMime(v)
    BY <2>2 DEF FetchPoster, WriteTemp, ReplaceImage, WriteMimeTemp, ReplaceMime
  <2>3. CASE CountWrite(v) \/ Walk(v) \/ SweepEntry(v) \/ SweepBeside(v) \/ EndSweep(v)
    BY <2>3 DEF CountWrite, Walk, SweepEntry, SweepBeside, EndSweep
  <2> QED
    BY <2>1, <2>2, <2>3 DEF ViewerStep
<1>2. ASSUME NEW k \in Posters \ mixed' PROVE TypeFits(k)'
  <2>1. k \in Posters /\ TypeFits(k)
    BY <1>1 DEF TypesFit
  <2>2. CASE v \notin WritersOf(k) /\ v \notin WritersOf(k)'
    BY <2>1, <2>2, OtherTypesFit
  <2>3. CASE v \in WritersOf(k) \/ v \in WritersOf(k)'
    BY <2>1, <2>3, WriterTypesFit
  <2> QED
    BY <2>2, <2>3
<1> QED
  BY <1>2, RecordsThere DEF TypesFit

-----------------------------------------------------------------------------
(* The theorem. *)

LEMMA PostersInvInit == PosterInit => PostersInv
<1> SUFFICES ASSUME PosterInit PROVE PostersInv
  OBVIOUS
<1>1. /\ dir = <<>> /\ type = [k \in Posters |-> NoType] /\ mime = type
      /\ counter = 0 /\ sweeper = Nobody /\ list = <<>> /\ over = 0
      /\ viewer = [v \in Viewers |-> Away] /\ mishaps = 0 /\ leaked = 0
  BY DEF PosterInit
<1>2. Away.step = "away" /\ \A v \in Viewers : viewer[v].step = "away"
  BY <1>1 DEF Away
<1>3. /\ <<>> \in Seq(Entries) /\ IsInjective(<<>>) /\ ToSet(<<>>) = {} /\ 0 \in Nat
      /\ \A e, f : ~Before(<<>>, e, f)
  <2>1. IsInjective(<<>>) /\ ToSet(<<>>) = {}
    BY DEF IsInjective, ToSet
  <2>2. \A e, f : ~Before(<<>>, e, f)
    BY DEF Before
  <2> QED
    BY <2>1, <2>2
<1>4. PosterTypeOK
  BY <1>1, <1>3 DEF PosterTypeOK
<1>5. NamesFit
  <2>1. 0 \in 0..MaxMishaps
    BY CacheAssumption
  <2> QED
    BY <1>1, <1>3, <2>1 DEF NamesFit, There
<1>6. SweepFits
  BY <1>1, <1>2, CacheAssumption DEF SweepFits, ViewerAt
<1>7. SizesFit
  <2>1. ~Sweeping
    BY <1>2 DEF Sweeping
  <2>2. Fresh = {} /\ Cardinality(Fresh) = 0
    BY <1>2, FS_EmptySet DEF Fresh, ViewerAt
  <2>3. Total(dir) = 0
    <3>1. {e \in ToSet(dir) : Size(e) = 1} = {}
      BY <1>1, <1>3
    <3> QED
      BY <3>1, FS_EmptySet DEF Total
  <2>4. Booked = 0
    BY <1>1, <2>2 DEF Booked
  <2>5. Total(dir) <= Cap + Booked
    BY <2>3, <2>4, CacheAssumption
  <2> QED
    BY <2>1, <2>5 DEF SizesFit
<1>8. TypesFit
  <2>1. \A k \in Posters : WritersOf(k) = {} /\ mime[k] = NoType
    BY <1>1, <1>2 DEF WritersOf, WriteSteps
  <2> QED
    BY <1>2, <2>1 DEF TypesFit, TypeFits, WriteSteps
<1> QED
  BY <1>4, <1>5, <1>6, <1>7, <1>8 DEF PostersInv

LEMMA PostersInvStep == PostersInv /\ [PosterNext]_posterVars => PostersInv'
<1> SUFFICES ASSUME PostersInv, [PosterNext]_posterVars PROVE PostersInv'
  OBVIOUS
<1>1. CASE PosterNext
  <2>1. PICK v \in Viewers : ViewerStep(v)
    BY <1>1 DEF PosterNext
  <2>2. PosterTypeOK /\ NamesFit /\ SweepFits /\ SizesFit /\ TypesFit
    BY DEF PostersInv
  <2>3. PosterTypeOK' /\ NamesFit' /\ SweepFits' /\ TypesFit'
    BY <2>1, <2>2, PosterTypesStep, NamesFitStep, SweepFitsStep, TypesFitStep
  <2>4. SizesFit'
    <3>1. CASE \/ CountWrite(v) /\ sweeper' # sweeper
               \/ Walk(v) \/ SweepEntry(v) \/ SweepBeside(v) \/ EndSweep(v)
      BY <2>1, <2>2, <2>3, <3>1, SizesFitSweep
    <3>2. CASE ~(\/ CountWrite(v) /\ sweeper' # sweeper
                 \/ Walk(v) \/ SweepEntry(v) \/ SweepBeside(v) \/ EndSweep(v))
      BY <2>1, <2>2, <2>3, <3>2, SizesFitRequest
    <3> QED
      BY <3>1, <3>2
  <2> QED
    BY <2>3, <2>4 DEF PostersInv
<1>2. CASE UNCHANGED posterVars
  <2>1. /\ dir' = dir /\ type' = type /\ mime' = mime /\ counter' = counter /\ sweeper' = sweeper
        /\ list' = list /\ over' = over /\ viewer' = viewer /\ mishaps' = mishaps
        /\ mixed' = mixed /\ leaked' = leaked
    BY <1>2 DEF posterVars
  <2>2. PosterTypeOK' /\ NamesFit'
    BY <2>1 DEF PostersInv, PosterTypeOK, NamesFit, There, ViewerAt
  <2>3. SweepFits'
    BY <2>1 DEF PostersInv, SweepFits, ViewerAt
  <2>4. SizesFit'
    <3>1. Fresh' = Fresh /\ Ahead' = Ahead /\ (Sweeping' <=> Sweeping) /\ Images(dir') = Images(dir)
      BY <2>1 DEF Fresh, Ahead, Sweeping, There, ViewerAt
    <3>2. Booked' = Booked
      BY <2>1, <3>1 DEF Booked
    <3> QED
      BY <2>1, <3>1, <3>2 DEF PostersInv, SizesFit
  <2>5. TypesFit'
    <3>1. \A k : WritersOf(k)' = WritersOf(k)
      BY <2>1 DEF WritersOf, Poster
    <3>2. \A k \in Posters : TypeFits(k) => TypeFits(k)'
      BY <2>1, <3>1 DEF TypeFits, Older, ViewerAt
    <3> QED
      BY <2>1, <3>2 DEF PostersInv, TypesFit, There
  <2> QED
    BY <2>2, <2>3, <2>4, <2>5 DEF PostersInv
<1> QED
  BY <1>1, <1>2

LEMMA PostersInvTells == PostersInv => PostersKept
<1> SUFFICES ASSUME PostersInv PROVE PostersKept
  OBVIOUS
<1>1. PosterTypeOK /\ NamesFit /\ SweepFits /\ SizesFit /\ TypesFit
  BY DEF PostersInv
<1>2. CacheBounded
  <2>1. \A v \in Viewers : sweeper = v <=> viewer[v].step \in {"walk", "sweep", "beside"}
    BY <1>1 DEF SweepFits
  <2>2. ASSUME sweeper = Nobody PROVE Total(dir) <= Cap + counter + Cardinality(Unfinished) + leaked
    <3>1. IsFiniteSet(Unfinished) /\ Fresh \subseteq Unfinished
      BY CacheAssumption, FS_Subset DEF Unfinished, Fresh, ViewerAt, WriteSteps
    <3>2. /\ IsFiniteSet(Fresh) /\ Cardinality(Fresh) <= Cardinality(Unfinished)
          /\ Cardinality(Unfinished) \in Nat
      BY <3>1, FS_Subset, FS_CardinalityType
    <3>3. Cardinality(Fresh) \in Nat
      BY <3>2, FS_CardinalityType
    <3>4. Total(dir) <= Cap + (counter + Cardinality(Fresh) + leaked)
      BY <1>1, <2>2 DEF SizesFit, Booked
    <3>5. Total(dir) \in Nat
      BY <1>1, FilesFinite DEF PosterTypeOK
    <3>6. counter \in Nat /\ leaked \in Nat /\ Cap \in Nat
      BY <1>1, CacheAssumption DEF PosterTypeOK, NamesFit
    <3> QED
      BY ONLY <3>2, <3>3, <3>4, <3>5, <3>6
  <2> QED
    BY <2>1, <2>2 DEF CacheBounded
<1>3. TypesTell
  <2> SUFFICES ASSUME NEW k \in Posters \ mixed, WritersOf(k) = {}, type[k] # NoType, mime[k] # NoType
               PROVE  mime[k] = type[k]
    BY DEF TypesTell
  <2>1. TypeFits(k)
    BY <1>1 DEF TypesFit
  <2> QED
    BY <2>1 DEF TypeFits
<1> QED
  BY <1>1, <1>2, <1>3 DEF PostersKept

\* However many requests fetch posters together, whatever a sweep takes under their hands
\* and whichever of their writes fail: between two sweeps the directory exceeds its cap
\* by no more than what was written since the last look, the sweep's lock is held by the
\* one request that sweeps, and a poster at rest has its own type on record or none.
THEOREM PostersKeptAlways == PosterSpec => []PostersKept
<1>1. PosterInit => PostersInv
  BY PostersInvInit
<1>2. PostersInv /\ [PosterNext]_posterVars => PostersInv'
  BY PostersInvStep
<1>3. PostersInv => PostersKept
  BY PostersInvTells
<1> QED
  BY <1>1, <1>2, <1>3, PTL DEF PosterSpec

=============================================================================
