----------------------------- MODULE NicTagsProofs -----------------------------
(***************************************************************************)
(* Proofs about NicTags: which interface the kernel arguments and the      *)
(* networking.json of a CN name for a tag, for every number of nics and    *)
(* aggregations and whatever tags they provide.                            *)
(***************************************************************************)
EXTENDS BootConfig, SequenceLemmas

\* The offer j is the first, or the last, of a tag.
FirstOffer(offers, t, j) ==
    t \in offers[j].tags /\ \A k \in 1..(j - 1) : t \notin offers[k].tags

LastOffer(offers, t, j) ==
    t \in offers[j].tags /\ \A k \in (j + 1)..Len(offers) : t \notin offers[k].tags

-------------------------------------------------------------------------------
(* The loop that provides arguments: of two offers of a tag the first      *)
(* counts, and none if the tag has an argument.                            *)

\* The functions from some of the tags to interfaces.
Args(T, I) == UNION {[D -> I] : D \in SUBSET T}

(* Arguments that get an interface for more tags are arguments.            *)
LEMMA ProvideType ==
    ASSUME NEW T, NEW I, NEW a \in Args(T, I), NEW o,
           o.tags \subseteq T, o.interface \in I
    PROVE  Provide(a, o) \in Args(T, I)
  <1>1. PICK D \in SUBSET T : a \in [D -> I]
    BY DEF Args
  <1>2. Provide(a, o) \in [D \cup o.tags -> I]
    BY <1>1 DEF Provide
  <1>3. D \cup o.tags \in SUBSET T
    OBVIOUS
  <1> QED BY <1>2, <1>3 DEF Args

\* f holds the arguments after each step of the loop.
ProvidesInTurn(f, offers) ==
    \A i \in 1..Len(offers) : f[i] = Provide(f[i - 1], offers[i])

(* The loop, one function of arguments after the other.                    *)
LEMMA ProvideLoop ==
    ASSUME NEW O, NEW offers \in Seq(O), NEW base, base = [t \in DOMAIN base |-> base[t]]
    PROVE  \E f : /\ f[0] = base /\ f[Len(offers)] = Provided(base, offers)
                  /\ ProvidesInTurn(f, offers)
  <1> DEFINE n == Len(offers)
             T == DOMAIN base \cup UNION {offers[i].tags : i \in 1..n}
             I == {base[t] : t \in DOMAIN base} \cup {offers[i].interface : i \in 1..n}
             step == [i \in 1..n |-> [a \in Args(T, I) |-> Provide(a, offers[i])]]
             Body(g, x) == IF x = {} THEN base
                           ELSE Provide(g[x \ {Max(x)}], offers[Max(x)])
             h == CHOOSE g : g = [x \in SUBSET DOMAIN offers |-> Body(g, x)]
             f == [i \in 0..n |-> h[1..i]]
  <1>1. n \in Nat /\ DOMAIN offers = 1..n
    OBVIOUS
  <1>2. base \in Args(T, I)
    <2>1. base \in [DOMAIN base -> I] /\ DOMAIN base \in SUBSET T
      OBVIOUS
    <2> QED BY <2>1 DEF Args
  <1>3. step \in [1..n -> [Args(T, I) -> Args(T, I)]]
    <2>1. ASSUME NEW i \in 1..n, NEW a \in Args(T, I)
          PROVE  Provide(a, offers[i]) \in Args(T, I)
      <3>1. offers[i].tags \subseteq T /\ offers[i].interface \in I
        OBVIOUS
      <3> HIDE DEF T, I
      <3> QED BY <3>1, ProvideType
    <2> HIDE DEF T, I
    <2> QED BY <2>1
  <1> HIDE DEF T, I
  <1>4. PICK g : Folds(g, n, Args(T, I), base, step)
    <2> HIDE DEF step, n
    <2> QED BY <1>1, <1>2, <1>3, FoldRuns
  <1>5. ASSUME NEW x \in SUBSET (1..n) PROVE g[x] = Body(g, x)
    <2>1. CASE x # {}
      <3>1. Max(x) \in 1..n /\ x \ {Max(x)} \in SUBSET (1..n)
        BY <1>1, <2>1, MaxOfIndices
      <3> HIDE DEF n
      <3> QED BY <1>4, <2>1, <3>1 DEF Folds
    <2> QED BY <1>4, <2>1 DEF Folds
  <1>6. h = [x \in SUBSET DOMAIN offers |-> Body(h, x)]
    <2> HIDE DEF Body
    <2>1. g = [x \in SUBSET DOMAIN offers |-> Body(g, x)]
      BY <1>1, <1>4, <1>5 DEF Folds
    <2> QED BY <2>1
  <1>7. Provided(base, offers) = h[DOMAIN offers]
    BY DEF Provided, FoldLeft, MapThenFoldSet
  <1> HIDE DEF h
  <1>8. f[0] = base
    <2>1. 1..0 = {}
      OBVIOUS
    <2> QED BY <1>1, <1>6, <2>1
  <1>9. ASSUME NEW i \in 1..n PROVE f[i] = Provide(f[i - 1], offers[i])
    <2>1. Max(1..i) = i /\ (1..i) \ {Max(1..i)} = 1..(i - 1)
      BY MaxOfInterval
    <2>2. 1..i \in SUBSET (1..n) /\ 1..i # {} /\ i - 1 \in 0..n /\ i \in 0..n
      BY <1>1
    <2>3. h[1..i] = Body(h, 1..i)
      <3> HIDE DEF Body
      <3> QED BY <1>1, <1>6, <2>2
    <2> HIDE DEF n
    <2> QED BY <2>1, <2>2, <2>3
  <1>10. f[n] = h[DOMAIN offers]
    BY <1>1
  <1>11. f[n] = Provided(base, offers)
    BY <1>7, <1>10
  <1> HIDE DEF f
  <1> QED BY <1>8, <1>9, <1>11 DEF ProvidesInTurn

(* After each step of the loop the first offer of a tag counts.            *)
LEMMA ProvideSteps ==
    ASSUME NEW O, NEW offers \in Seq(O), NEW f, ProvidesInTurn(f, offers)
    PROVE  \A i \in 0..Len(offers) :
              /\ DOMAIN f[i] = DOMAIN f[0] \cup UNION {offers[j].tags : j \in 1..i}
              /\ \A t \in DOMAIN f[0] : f[i][t] = f[0][t]
              /\ \A t \in DOMAIN f[i] \ DOMAIN f[0] :
                    \E j \in 1..i : f[i][t] = offers[j].interface /\ FirstOffer(offers, t, j)
  <1> DEFINE n == Len(offers)
             First(i) == \A t \in DOMAIN f[i] \ DOMAIN f[0] :
                            \E j \in 1..i : /\ f[i][t] = offers[j].interface
                                            /\ FirstOffer(offers, t, j)
             Arg(i) == /\ DOMAIN f[i] = DOMAIN f[0] \cup UNION {offers[j].tags : j \in 1..i}
                       /\ \A t \in DOMAIN f[0] : f[i][t] = f[0][t]
                       /\ First(i)
             T == {i \in 0..n : Arg(i)}
  <1>1. n \in Nat
    OBVIOUS
  <1>2. 0 \in T
    OBVIOUS
  <1>3. ASSUME NEW i \in 1..n, i - 1 \in T PROVE i \in T
    <2>1. Arg(i - 1)
      BY <1>3
    <2>2. 1..i = (1..(i - 1)) \cup {i}
      BY <1>1
    <2>3. UNION {offers[j].tags : j \in 1..i}
             = (UNION {offers[j].tags : j \in 1..(i - 1)}) \cup offers[i].tags
      BY <2>2
    <2>4. /\ DOMAIN f[i] = DOMAIN f[i - 1] \cup offers[i].tags
          /\ \A t \in DOMAIN f[i - 1] : f[i][t] = f[i - 1][t]
          /\ \A t \in offers[i].tags \ DOMAIN f[i - 1] : f[i][t] = offers[i].interface
      <3>1. f[i] = Provide(f[i - 1], offers[i])
        BY DEF ProvidesInTurn
      <3> QED BY <3>1 DEF Provide
    <2>5. DOMAIN f[i] = DOMAIN f[0] \cup UNION {offers[j].tags : j \in 1..i}
      BY <2>1, <2>3, <2>4
    <2>6. ASSUME NEW t \in DOMAIN f[i] \ DOMAIN f[0]
          PROVE  \E j \in 1..i : f[i][t] = offers[j].interface /\ FirstOffer(offers, t, j)
      <3>1. CASE t \in DOMAIN f[i - 1]
        BY <2>1, <2>2, <2>4, <3>1
      <3>2. CASE t \notin DOMAIN f[i - 1]
        <4>1. t \in offers[i].tags /\ f[i][t] = offers[i].interface
          BY <2>4, <3>2
        <4>2. \A k \in 1..(i - 1) : t \notin offers[k].tags
          BY <2>1, <3>2
        <4> QED BY <2>2, <4>1, <4>2 DEF FirstOffer
      <3> QED BY <3>1, <3>2
    <2>7. Arg(i)
      BY <2>1, <2>4, <2>5, <2>6
    <2> QED BY <2>7
  <1> HIDE DEF T, Arg
  <1>4. 0..n \subseteq T
    BY <1>1, <1>2, <1>3, UpTo
  <1>5. \A i \in 0..n : Arg(i)
    BY <1>4 DEF T
  <1> QED BY <1>5 DEF Arg

(* Which tags have an argument after the loop, and which one.              *)
LEMMA ProvidedArgs ==
    ASSUME NEW O, NEW offers \in Seq(O), NEW base, base = [t \in DOMAIN base |-> base[t]]
    PROVE  LET args == Provided(base, offers)
           IN /\ DOMAIN args = DOMAIN base \cup UNION {offers[j].tags : j \in 1..Len(offers)}
              /\ \A t \in DOMAIN base : args[t] = base[t]
              /\ \A t \in DOMAIN args \ DOMAIN base : \E j \in 1..Len(offers) :
                    args[t] = offers[j].interface /\ FirstOffer(offers, t, j)
  <1>1. PICK f : /\ f[0] = base /\ f[Len(offers)] = Provided(base, offers)
                 /\ ProvidesInTurn(f, offers)
    BY ProvideLoop
  <1>2. Len(offers) \in 0..Len(offers)
    OBVIOUS
  <1> DEFINE n == Len(offers)
  <1>3. /\ DOMAIN f[n] = DOMAIN f[0] \cup UNION {offers[j].tags : j \in 1..n}
        /\ \A t \in DOMAIN f[0] : f[n][t] = f[0][t]
        /\ \A t \in DOMAIN f[n] \ DOMAIN f[0] :
              \E j \in 1..n : f[n][t] = offers[j].interface /\ FirstOffer(offers, t, j)
    BY <1>1, <1>2, ProvideSteps
  <1> QED BY <1>1, <1>3

-------------------------------------------------------------------------------
(* The loop that binds tags: of two offers of a tag the last counts.       *)

\* f holds the macs of the tags after each step of the loop.
BindsInTurn(f, offers) ==
    \A i \in 1..Len(offers) : f[i] = Bind(f[i - 1], offers[i])

(* The loop, one function of macs after the other.                         *)
LEMMA BindLoop ==
    ASSUME NEW O, NEW offers \in Seq(O), NEW base, base = [t \in DOMAIN base |-> base[t]]
    PROVE  \E f : /\ f[0] = base /\ f[Len(offers)] = Bound(base, offers)
                  /\ BindsInTurn(f, offers)
  <1> DEFINE n == Len(offers)
             I == {base[t] : t \in DOMAIN base} \cup {offers[i].interface : i \in 1..n}
             S == [DOMAIN base -> I]
             step == [i \in 1..n |-> [a \in S |-> Bind(a, offers[i])]]
             Body(g, x) == IF x = {} THEN base
                           ELSE Bind(g[x \ {Max(x)}], offers[Max(x)])
             h == CHOOSE g : g = [x \in SUBSET DOMAIN offers |-> Body(g, x)]
             f == [i \in 0..n |-> h[1..i]]
  <1>1. n \in Nat /\ DOMAIN offers = 1..n
    OBVIOUS
  <1>2. base \in S
    OBVIOUS
  <1>3. step \in [1..n -> [S -> S]]
    <2>1. ASSUME NEW i \in 1..n, NEW a \in S
          PROVE  Bind(a, offers[i]) \in S
      <3>1. offers[i].interface \in I
        OBVIOUS
      <3> HIDE DEF I
      <3> QED BY <3>1 DEF Bind
    <2> HIDE DEF S
    <2> QED BY <2>1
  <1> HIDE DEF S
  <1>4. PICK g : Folds(g, n, S, base, step)
    <2> HIDE DEF step, n
    <2> QED BY <1>1, <1>2, <1>3, FoldRuns
  <1>5. ASSUME NEW x \in SUBSET (1..n) PROVE g[x] = Body(g, x)
    <2>1. CASE x # {}
      <3>1. Max(x) \in 1..n /\ x \ {Max(x)} \in SUBSET (1..n)
        BY <1>1, <2>1, MaxOfIndices
      <3> HIDE DEF n
      <3> QED BY <1>4, <2>1, <3>1 DEF Folds
    <2> QED BY <1>4, <2>1 DEF Folds
  <1>6. h = [x \in SUBSET DOMAIN offers |-> Body(h, x)]
    <2> HIDE DEF Body
    <2>1. g = [x \in SUBSET DOMAIN offers |-> Body(g, x)]
      BY <1>1, <1>4, <1>5 DEF Folds
    <2> QED BY <2>1
  <1>7. Bound(base, offers) = h[DOMAIN offers]
    BY DEF Bound, FoldLeft, MapThenFoldSet
  <1> HIDE DEF h
  <1>8. f[0] = base
    <2>1. 1..0 = {}
      OBVIOUS
    <2> QED BY <1>1, <1>6, <2>1
  <1>9. ASSUME NEW i \in 1..n PROVE f[i] = Bind(f[i - 1], offers[i])
    <2>1. Max(1..i) = i /\ (1..i) \ {Max(1..i)} = 1..(i - 1)
      BY MaxOfInterval
    <2>2. 1..i \in SUBSET (1..n) /\ 1..i # {} /\ i - 1 \in 0..n /\ i \in 0..n
      BY <1>1
    <2>3. h[1..i] = Body(h, 1..i)
      <3> HIDE DEF Body
      <3> QED BY <1>1, <1>6, <2>2
    <2> HIDE DEF n
    <2> QED BY <2>1, <2>2, <2>3
  <1>10. f[n] = h[DOMAIN offers]
    BY <1>1
  <1>11. f[n] = Bound(base, offers)
    BY <1>7, <1>10
  <1> HIDE DEF f
  <1> QED BY <1>8, <1>9, <1>11 DEF BindsInTurn

(* After each step of the loop the last offer of a tag so far counts.      *)
LEMMA BindSteps ==
    ASSUME NEW O, NEW offers \in Seq(O), NEW f, BindsInTurn(f, offers)
    PROVE  \A i \in 0..Len(offers) :
              /\ DOMAIN f[i] = DOMAIN f[0]
              /\ \A t \in DOMAIN f[0] :
                    \/ f[i][t] = f[0][t] /\ \A j \in 1..i : t \notin offers[j].tags
                    \/ \E j \in 1..i : /\ f[i][t] = offers[j].interface
                                       /\ t \in offers[j].tags
                                       /\ \A k \in (j + 1)..i : t \notin offers[k].tags
  <1> DEFINE n == Len(offers)
             LastSoFar(i, t) ==
                \/ f[i][t] = f[0][t] /\ \A j \in 1..i : t \notin offers[j].tags
                \/ \E j \in 1..i : /\ f[i][t] = offers[j].interface
                                   /\ t \in offers[j].tags
                                   /\ \A k \in (j + 1)..i : t \notin offers[k].tags
             T == {i \in 0..n : DOMAIN f[i] = DOMAIN f[0] /\ \A t \in DOMAIN f[0] : LastSoFar(i, t)}
  <1>1. n \in Nat
    OBVIOUS
  <1>2. 0 \in T
    OBVIOUS
  <1>3. ASSUME NEW i \in 1..n, i - 1 \in T PROVE i \in T
    <2>1. DOMAIN f[i - 1] = DOMAIN f[0] /\ \A t \in DOMAIN f[0] : LastSoFar(i - 1, t)
      BY <1>3
    <2>2. f[i] = Bind(f[i - 1], offers[i])
      BY DEF BindsInTurn
    <2>3. ASSUME NEW t \in DOMAIN f[0] PROVE LastSoFar(i, t)
      <3>1. CASE t \in offers[i].tags
        <4>1. f[i][t] = offers[i].interface
          BY <2>1, <2>2, <3>1 DEF Bind
        <4> QED BY <3>1, <4>1
      <3>2. CASE t \notin offers[i].tags
        <4>1. f[i][t] = f[i - 1][t] /\ LastSoFar(i - 1, t)
          BY <2>1, <2>2, <3>2 DEF Bind
        <4>2. \A j : j \in 1..i => j \in 1..(i - 1) \/ j = i
          OBVIOUS
        <4>3. CASE f[i - 1][t] = f[0][t] /\ \A j \in 1..(i - 1) : t \notin offers[j].tags
          BY <3>2, <4>1, <4>2, <4>3
        <4>4. CASE \E j \in 1..(i - 1) : /\ f[i - 1][t] = offers[j].interface
                                         /\ t \in offers[j].tags
                                         /\ \A k \in (j + 1)..(i - 1) : t \notin offers[k].tags
          <5>1. PICK j \in 1..(i - 1) : /\ f[i - 1][t] = offers[j].interface
                                        /\ t \in offers[j].tags
                                        /\ \A k \in (j + 1)..(i - 1) : t \notin offers[k].tags
            BY <4>4
          <5>2. j \in 1..i /\ \A k \in (j + 1)..i : k \in (j + 1)..(i - 1) \/ k = i
            OBVIOUS
          <5>3. \A k \in (j + 1)..i : t \notin offers[k].tags
            BY <3>2, <5>1, <5>2
          <5> QED BY <4>1, <5>1, <5>2, <5>3
        <4> QED BY <4>1, <4>3, <4>4
      <3> QED BY <3>1, <3>2
    <2>4. DOMAIN f[i] = DOMAIN f[0]
      BY <2>1, <2>2 DEF Bind
    <2> HIDE DEF LastSoFar
    <2> QED BY <2>3, <2>4
  <1> HIDE DEF T, LastSoFar
  <1>4. 0..n \subseteq T
    BY <1>1, <1>2, <1>3, UpTo
  <1>5. \A i \in 0..n : DOMAIN f[i] = DOMAIN f[0] /\ \A t \in DOMAIN f[0] : LastSoFar(i, t)
    BY <1>4 DEF T
  <1> QED BY <1>5 DEF LastSoFar

(* Which mac a tag has after the loop: that of the last offer, if any.     *)
LEMMA BoundMacs ==
    ASSUME NEW O, NEW offers \in Seq(O), NEW base, base = [t \in DOMAIN base |-> base[t]]
    PROVE  LET macs == Bound(base, offers)
           IN \A t \in DOMAIN base :
                 \/ macs[t] = base[t] /\ \A j \in 1..Len(offers) : t \notin offers[j].tags
                 \/ \E j \in 1..Len(offers) :
                       macs[t] = offers[j].interface /\ LastOffer(offers, t, j)
  <1> DEFINE n == Len(offers)
  <1>1. PICK f : /\ f[0] = base /\ f[n] = Bound(base, offers) /\ BindsInTurn(f, offers)
    BY BindLoop
  <1>2. n \in 0..n
    OBVIOUS
  <1>3. \A t \in DOMAIN f[0] :
           \/ f[n][t] = f[0][t] /\ \A j \in 1..n : t \notin offers[j].tags
           \/ \E j \in 1..n : /\ f[n][t] = offers[j].interface
                              /\ t \in offers[j].tags
                              /\ \A k \in (j + 1)..n : t \notin offers[k].tags
    BY <1>1, <1>2, BindSteps
  <1> QED BY <1>1, <1>3 DEF LastOffer

-------------------------------------------------------------------------------
(* What the records of a server offer.                                     *)

(* The offers of the nics and of the aggregations are sequences.           *)
LEMMA OffersOf ==
    ASSUME NEW s \in Servers, NEW skipped
    PROVE  \E O :
              /\ NicOffers(s, skipped) \in Seq(O) /\ AggrOffers(s) \in Seq(O)
              /\ Len(NicOffers(s, skipped)) = Len(s.nics) /\ Len(s.nics) \in Nat \ {0}
              /\ Len(AggrOffers(s)) = Len(s.aggrs) /\ Len(s.aggrs) \in Nat
              /\ DOMAIN s.nics = 1..Len(s.nics) /\ DOMAIN s.aggrs = 1..Len(s.aggrs)
  <1> DEFINE N == NicOffers(s, skipped)
             A == AggrOffers(s)
             O == {N[i] : i \in DOMAIN s.nics} \cup {A[i] : i \in DOMAIN s.aggrs}
  <1>1. /\ s.nics \in Seq(ToSet(s.nics)) \ {<<>>}
        /\ s.aggrs \in Seq(ToSet(s.aggrs))
    BY ServersAssumption
  <1>2. /\ Len(s.nics) \in Nat \ {0} /\ DOMAIN s.nics = 1..Len(s.nics)
        /\ Len(s.aggrs) \in Nat /\ DOMAIN s.aggrs = 1..Len(s.aggrs)
    BY <1>1
  <1>3. N \in [1..Len(s.nics) -> O] /\ A \in [1..Len(s.aggrs) -> O]
    BY <1>2 DEF NicOffers, AggrOffers
  <1> HIDE DEF N, A, O
  <1>4. N \in Seq(O) /\ A \in Seq(O) /\ Len(N) = Len(s.nics) /\ Len(A) = Len(s.aggrs)
    BY <1>2, <1>3
  <1> QED BY <1>2, <1>4 DEF N, A

\* The first nic, and the first aggregation, that counts for a tag.
FirstNic(s, t, j) ==
    /\ j \in DOMAIN s.nics /\ t \in s.nics[j].provided
    /\ s.nics[j].mac \notin macsToAggrs(s)
    /\ \A k \in 1..(j - 1) : t \in s.nics[k].provided => s.nics[k].mac \in macsToAggrs(s)

FirstAggr(s, t, j) ==
    /\ j \in DOMAIN s.aggrs /\ t \in s.aggrs[j].provided
    /\ \A k \in 1..(j - 1) : t \notin s.aggrs[k].provided

(* The arguments before the rule of the first boot: those of CNAPI, those  *)
(* of the nics outside the aggregations, then those of the aggregations.   *)
LEMMA LoopArgs ==
    ASSUME NEW s \in Servers
    PROVE  LET args == Provided(s.base, NicOffers(s, macsToAggrs(s)) \o AggrOffers(s))
           IN /\ DOMAIN args = DOMAIN s.base
                    \cup UNION {x.provided : x \in Apart(s) \cup ToSet(s.aggrs)}
              /\ \A t \in DOMAIN s.base : args[t] = s.base[t]
              /\ \A t \in DOMAIN args \ DOMAIN s.base :
                    \/ \E j : FirstNic(s, t, j) /\ args[t] = s.nics[j].mac
                    \/ /\ Providing(t, Apart(s)) = {}
                       /\ \E j : FirstAggr(s, t, j) /\ args[t] = s.aggrs[j].name
  <1> DEFINE N == NicOffers(s, macsToAggrs(s))
             A == AggrOffers(s)
             n == Len(s.nics)
             m == Len(s.aggrs)
             offers == N \o A
             args == Provided(s.base, offers)
  <1>1. PICK O : /\ N \in Seq(O) /\ A \in Seq(O) /\ Len(N) = n /\ n \in Nat
                 /\ Len(A) = m /\ m \in Nat
                 /\ DOMAIN s.nics = 1..n /\ DOMAIN s.aggrs = 1..m
    BY OffersOf
  <1>2. \A i \in 1..n : /\ N[i].interface = s.nics[i].mac
                        /\ N[i].tags = IF s.nics[i].mac \in macsToAggrs(s) THEN {}
                                       ELSE s.nics[i].provided
    BY <1>1 DEF NicOffers, Offer
  <1>3. \A i \in 1..m : A[i].interface = s.aggrs[i].name /\ A[i].tags = s.aggrs[i].provided
    BY <1>1 DEF AggrOffers, Offer
  <1> HIDE DEF N, A, n, m
  <1>4. /\ offers \in Seq(O) /\ Len(offers) = n + m
        /\ \A i \in 1..n : offers[i] = N[i]
        /\ \A i \in 1..m : offers[n + i] = A[i]
    BY <1>1
  <1>5. s.base = [t \in DOMAIN s.base |-> s.base[t]]
    BY ServersAssumption
  <1> HIDE DEF offers
  <1>6. /\ DOMAIN args = DOMAIN s.base \cup UNION {offers[j].tags : j \in 1..Len(offers)}
        /\ \A t \in DOMAIN s.base : args[t] = s.base[t]
        /\ \A t \in DOMAIN args \ DOMAIN s.base : \E j \in 1..Len(offers) :
              args[t] = offers[j].interface /\ FirstOffer(offers, t, j)
    BY <1>4, <1>5, ProvidedArgs
  <1> HIDE DEF args
  <1>7. \A j \in 1..(n + m) : j \in 1..n \/ \E i \in 1..m : j = n + i
    <2> SUFFICES ASSUME NEW j \in 1..(n + m), j \notin 1..n
                 PROVE  j - n \in 1..m /\ j = n + (j - n)
      OBVIOUS
    <2> QED BY <1>1
  <1>8. \A t : (\E j \in 1..n : t \in N[j].tags) <=> Providing(t, Apart(s)) # {}
    <2>1. \A j \in 1..n : s.nics[j] \in ToSet(s.nics)
      BY <1>1 DEF ToSet
    <2>2. \A nic \in ToSet(s.nics) : \E j \in 1..n : nic = s.nics[j]
      BY <1>1 DEF ToSet
    <2> QED BY <1>2, <2>1, <2>2 DEF Apart, Providing
  <1>9. \A t : (\E j \in 1..m : t \in A[j].tags) <=> \E ag \in ToSet(s.aggrs) : t \in ag.provided
    <2>1. \A j \in 1..m : s.aggrs[j] \in ToSet(s.aggrs)
      BY <1>1 DEF ToSet
    <2>2. \A ag \in ToSet(s.aggrs) : \E j \in 1..m : ag = s.aggrs[j]
      BY <1>1 DEF ToSet
    <2> QED BY <1>3, <2>1, <2>2
  <1>10. \A t : (\E j \in 1..Len(offers) : t \in offers[j].tags)
                   <=> \E x \in Apart(s) \cup ToSet(s.aggrs) : t \in x.provided
    <2>1. \A i \in 1..n : i \in 1..(n + m)
      BY <1>1
    <2>2. \A i \in 1..m : n + i \in 1..(n + m)
      BY <1>1
    <2>3. \A t : (\E j \in 1..Len(offers) : t \in offers[j].tags)
                    <=> \/ \E j \in 1..n : t \in N[j].tags
                        \/ \E j \in 1..m : t \in A[j].tags
      BY <1>4, <1>7, <2>1, <2>2
    <2>4. \A t : Providing(t, Apart(s)) # {} <=> \E x \in Apart(s) : t \in x.provided
      BY DEF Providing
    <2> QED BY <1>8, <1>9, <2>3, <2>4
  <1>11. DOMAIN args = DOMAIN s.base
                    \cup UNION {x.provided : x \in Apart(s) \cup ToSet(s.aggrs)}
    <2>1. \A t : t \in UNION {offers[j].tags : j \in 1..Len(offers)}
                   <=> \E j \in 1..Len(offers) : t \in offers[j].tags
      OBVIOUS
    <2>2. \A t : t \in UNION {x.provided : x \in Apart(s) \cup ToSet(s.aggrs)}
                   <=> \E x \in Apart(s) \cup ToSet(s.aggrs) : t \in x.provided
      OBVIOUS
    <2>3. UNION {offers[j].tags : j \in 1..Len(offers)}
             = UNION {x.provided : x \in Apart(s) \cup ToSet(s.aggrs)}
      BY <1>10, <2>1, <2>2
    <2> QED BY <1>6, <2>3
  <1>12. ASSUME NEW t \in DOMAIN args \ DOMAIN s.base
         PROVE  \/ \E j : FirstNic(s, t, j) /\ args[t] = s.nics[j].mac
                \/ /\ Providing(t, Apart(s)) = {}
                   /\ \E j : FirstAggr(s, t, j) /\ args[t] = s.aggrs[j].name
    <2>1. PICK j \in 1..(n + m) : args[t] = offers[j].interface /\ FirstOffer(offers, t, j)
      BY <1>4, <1>6
    <2>2. CASE j \in 1..n
      <3>1. \A k \in 1..(j - 1) : k \in 1..n
        BY <1>1, <2>2
      <3>2. FirstNic(s, t, j) /\ args[t] = s.nics[j].mac
        BY <1>1, <1>2, <1>4, <2>1, <2>2, <3>1 DEF FirstNic, FirstOffer
      <3> QED BY <3>2
    <2>3. ASSUME NEW i \in 1..m, j = n + i
          PROVE  /\ Providing(t, Apart(s)) = {}
                 /\ FirstAggr(s, t, i) /\ args[t] = s.aggrs[i].name
      <3>1. \A k \in 1..n : k \in 1..(j - 1)
        BY <1>1, <2>3
      <3>2. \A k \in 1..(i - 1) : n + k \in 1..(j - 1) /\ k \in 1..m
        BY <1>1, <2>3
      <3>3. \A k \in 1..n : t \notin N[k].tags
        BY <1>4, <2>1, <3>1 DEF FirstOffer
      <3>4. \A k \in 1..(i - 1) : t \notin A[k].tags
        BY <1>4, <2>1, <3>2 DEF FirstOffer
      <3>5. t \in A[i].tags /\ args[t] = A[i].interface
        BY <1>4, <2>1, <2>3 DEF FirstOffer
      <3> QED BY <1>1, <1>3, <1>8, <3>2, <3>3, <3>4, <3>5 DEF FirstAggr
    <2> QED BY <1>7, <2>2, <2>3
  <1> QED BY <1>6, <1>11, <1>12 DEF args, offers, N, A

(* The kernel arguments of a CN.                                           *)
LEMMA KernelArgsOf ==
    ASSUME NEW s \in Servers
    PROVE  LET args == KernelArgs(s)
               provided == UNION {x.provided : x \in Apart(s) \cup ToSet(s.aggrs)}
           IN /\ DOMAIN args = DOMAIN s.base \cup provided
                                  \cup (IF AdminFound(s) THEN {} ELSE {"admin"})
              /\ \A t \in DOMAIN s.base : args[t] = s.base[t]
              /\ \A t \in provided \ DOMAIN s.base :
                    \/ \E j : FirstNic(s, t, j) /\ args[t] = s.nics[j].mac
                    \/ /\ Providing(t, Apart(s)) = {}
                       /\ \E j : FirstAggr(s, t, j) /\ args[t] = s.aggrs[j].name
              /\ ~AdminFound(s) /\ "admin" \notin DOMAIN s.base \cup provided
                    => args["admin"] = bootNic(s).mac
  <1> DEFINE L == Provided(s.base, NicOffers(s, macsToAggrs(s)) \o AggrOffers(s))
             provided == UNION {x.provided : x \in Apart(s) \cup ToSet(s.aggrs)}
  <1>1. /\ DOMAIN L = DOMAIN s.base \cup provided
        /\ \A t \in DOMAIN s.base : L[t] = s.base[t]
        /\ \A t \in DOMAIN L \ DOMAIN s.base :
              \/ \E j : FirstNic(s, t, j) /\ L[t] = s.nics[j].mac
              \/ /\ Providing(t, Apart(s)) = {}
                 /\ \E j : FirstAggr(s, t, j) /\ L[t] = s.aggrs[j].name
    BY LoopArgs
  <1>2. KernelArgs(s) = IF AdminFound(s) THEN L ELSE ProvideAdmin(s, L)
    BY DEF KernelArgs
  <1> HIDE DEF L
  <1>3. /\ DOMAIN ProvideAdmin(s, L) = DOMAIN L \cup {"admin"}
        /\ \A t \in DOMAIN L : ProvideAdmin(s, L)[t] = L[t]
        /\ "admin" \notin DOMAIN L => ProvideAdmin(s, L)["admin"] = bootNic(s).mac
    BY DEF ProvideAdmin, Provide, Offer
  <1> HIDE DEF provided
  <1>4. /\ DOMAIN KernelArgs(s) = DOMAIN s.base \cup provided
                                     \cup (IF AdminFound(s) THEN {} ELSE {"admin"})
        /\ \A t \in DOMAIN L : KernelArgs(s)[t] = L[t]
        /\ ~AdminFound(s) /\ "admin" \notin DOMAIN L => KernelArgs(s)["admin"] = bootNic(s).mac
    BY <1>1, <1>2, <1>3
  <1> QED BY <1>1, <1>4 DEF provided

(* The interface that the comment ranks first.                             *)
LEMMA DocumentedIs ==
    ASSUME NEW s \in Servers, NEW t, t \notin DOMAIN s.base
    PROVE  /\ \A j : FirstAggr(s, t, j) => Documented(s, t) = s.aggrs[j].name
           /\ Providing(t, ToSet(s.aggrs)) = {} /\ Providing(t, Members(s)) = {} =>
                 \A j : FirstNic(s, t, j) => Documented(s, t) = s.nics[j].mac
  <1> DEFINE A == {i \in 1..Len(s.aggrs) : t \in s.aggrs[i].provided}
             N == {i \in 1..Len(s.nics) : t \in s.nics[i].provided}
  <1>1. /\ Len(s.nics) \in Nat /\ DOMAIN s.nics = 1..Len(s.nics)
        /\ Len(s.aggrs) \in Nat /\ DOMAIN s.aggrs = 1..Len(s.aggrs)
    BY OffersOf
  <1>2. Documented(s, t) =
           IF Providing(t, ToSet(s.aggrs)) # {}
           THEN s.aggrs[IF A # {} THEN Min(A) ELSE 0].name
           ELSE s.nics[IF N # {} THEN Min(N) ELSE 0].mac
    BY DEF Documented, SelectInSeq
  <1>3. ASSUME NEW j, FirstAggr(s, t, j) PROVE Documented(s, t) = s.aggrs[j].name
    <2>1. j \in A /\ \A i \in A : j <= i
      BY <1>1, <1>3 DEF FirstAggr
    <2>2. Min(A) = j
      BY <1>1, <2>1, MinIs
    <2>3. s.aggrs[j] \in Providing(t, ToSet(s.aggrs))
      BY <1>3 DEF FirstAggr, Providing, ToSet
    <2> QED BY <1>2, <2>1, <2>2, <2>3
  <1>4. ASSUME NEW j, FirstNic(s, t, j), Providing(t, ToSet(s.aggrs)) = {},
               Providing(t, Members(s)) = {}
        PROVE  Documented(s, t) = s.nics[j].mac
    <2>1. \A i \in 1..(j - 1) : t \notin s.nics[i].provided
      <3> SUFFICES ASSUME NEW i \in 1..(j - 1), t \in s.nics[i].provided PROVE FALSE
        OBVIOUS
      <3>1. s.nics[i] \in ToSet(s.nics) /\ s.nics[i].mac \in macsToAggrs(s)
        BY <1>1, <1>4 DEF FirstNic, ToSet
      <3>2. s.nics[i] \in Providing(t, Members(s))
        BY <3>1 DEF Providing, Members, Apart
      <3> QED BY <1>4, <3>2
    <2>2. j \in N /\ \A i \in N : j <= i
      BY <1>1, <1>4, <2>1 DEF FirstNic
    <2>3. Min(N) = j
      BY <1>1, <2>2, MinIs
    <2> QED BY <1>2, <1>4, <2>2, <2>3
  <1> QED BY <1>3, <1>4

(* The macs of the nics of a CN differ.                                    *)
LEMMA SameNic ==
    ASSUME NEW s \in Servers, NEW x \in ToSet(s.nics), NEW y \in ToSet(s.nics), x.mac = y.mac
    PROVE  x = y
  BY ServersAssumption DEF ToSet

(* The macs of the tags in networking.json before the first-boot rule: an  *)
(* aggregation comes before a nic, and a nic before none.                  *)
LEMMA MacsOf ==
    ASSUME NEW s \in Servers, NEW admin \in ToSet(s.nics), NEW tags, NEW t \in tags
    PROVE  LET mac == MacsProvided(s, admin, tags)[t]
           IN /\ Providing(t, ToSet(s.aggrs)) # {} =>
                    \E ag \in Providing(t, ToSet(s.aggrs)) : mac = ag.name
              /\ Providing(t, ToSet(s.aggrs)) = {} /\ Providing(t, ToSet(s.nics)) # {} =>
                    \E nic \in Providing(t, ToSet(s.nics)) : mac = nic.mac
              /\ Providing(t, ToSet(s.aggrs)) = {} /\ Providing(t, ToSet(s.nics)) = {} =>
                    mac = NoInterface
  <1> DEFINE N == NicOffers(s, {admin.mac})
             A == AggrOffers(s)
             first == Offer(admin.provided, admin.mac)
             n == Len(s.nics)
             m == Len(s.aggrs)
             offers == <<first>> \o N \o A
             mac == MacsProvided(s, admin, tags)[t]
  <1>1. PICK O : /\ N \in Seq(O) /\ A \in Seq(O) /\ Len(N) = n /\ n \in Nat
                 /\ Len(A) = m /\ m \in Nat
                 /\ DOMAIN s.nics = 1..n /\ DOMAIN s.aggrs = 1..m
    BY OffersOf
  <1>2. \A i \in 1..n : /\ N[i].interface = s.nics[i].mac
                        /\ N[i].tags = IF s.nics[i].mac \in {admin.mac} THEN {}
                                       ELSE s.nics[i].provided
    BY <1>1 DEF NicOffers, Offer
  <1>3. \A i \in 1..m : A[i].interface = s.aggrs[i].name /\ A[i].tags = s.aggrs[i].provided
    BY <1>1 DEF AggrOffers, Offer
  <1>4. first.tags = admin.provided /\ first.interface = admin.mac
    BY DEF Offer
  <1> HIDE DEF N, A, n, m, first
  <1>5. /\ offers \in Seq(O \cup {first}) /\ Len(offers) = 1 + n + m
        /\ offers[1] = first
        /\ \A i \in 1..n : offers[1 + i] = N[i]
        /\ \A i \in 1..m : offers[1 + n + i] = A[i]
    <2>1. /\ N \in Seq(O \cup {first}) /\ A \in Seq(O \cup {first})
          /\ <<first>> \in Seq(O \cup {first})
      BY <1>1
    <2>2. /\ <<first>> \o N \in Seq(O \cup {first}) /\ Len(<<first>> \o N) = 1 + n
          /\ (<<first>> \o N)[1] = first
          /\ \A i \in 1..n : (<<first>> \o N)[1 + i] = N[i]
      BY <1>1, <2>1
    <2> DEFINE nics == <<first>> \o N
    <2> HIDE DEF nics
    <2>3. /\ nics \in Seq(O \cup {first}) /\ Len(nics) = 1 + n /\ nics[1] = first
          /\ \A i \in 1..n : nics[1 + i] = N[i]
      BY <2>2 DEF nics
    <2>4. /\ nics \o A \in Seq(O \cup {first}) /\ Len(nics \o A) = 1 + n + m
          /\ \A i \in 1..(1 + n) : (nics \o A)[i] = nics[i]
          /\ \A i \in 1..m : (nics \o A)[1 + n + i] = A[i]
      <3> DEFINE S == O \cup {first}
                 a == 1 + n
      <3>1. a \in Nat /\ m \in Nat /\ Len(nics) = a /\ Len(A) = m
        BY <1>1, <2>3
      <3>2. nics \in Seq(S) /\ A \in Seq(S)
        BY <2>1, <2>3
      <3> HIDE DEF S, a
      <3>3. /\ nics \o A \in Seq(S) /\ Len(nics \o A) = a + m
            /\ \A i \in 1..a : (nics \o A)[i] = nics[i]
            /\ \A i \in 1..m : (nics \o A)[a + i] = A[i]
        BY <3>1, <3>2, Appended
      <3> QED BY <3>3 DEF S, a
    <2>5. 1 \in 1..(1 + n) /\ \A i \in 1..n : 1 + i \in 1..(1 + n)
      BY <1>1
    <2>6. offers = nics \o A
      BY DEF nics
    <2> HIDE DEF offers
    <2> QED BY <2>3, <2>4, <2>5, <2>6
  <1>6. mac = Bound([u \in tags |-> NoInterface], offers)[t]
    BY DEF MacsProvided, first, N, A
  <1> HIDE DEF offers, mac
  <1>7. \/ mac = NoInterface /\ \A j \in 1..Len(offers) : t \notin offers[j].tags
        \/ \E j \in 1..Len(offers) : mac = offers[j].interface /\ LastOffer(offers, t, j)
    <2> DEFINE base == [u \in tags |-> NoInterface]
    <2>1. base = [u \in DOMAIN base |-> base[u]] /\ DOMAIN base = tags /\ base[t] = NoInterface
      OBVIOUS
    <2> HIDE DEF base
    <2>2. mac = Bound(base, offers)[t]
      BY <1>6 DEF base
    <2> QED BY <1>5, <2>1, <2>2, BoundMacs
  <1>8. \A j \in 1..(1 + n + m) :
           \/ j = 1
           \/ \E i \in 1..n : j = 1 + i
           \/ \E i \in 1..m : j = 1 + n + i
    <2> SUFFICES ASSUME NEW j \in 1..(1 + n + m), j # 1, j - 1 \notin 1..n
                 PROVE  j - 1 - n \in 1..m /\ j = 1 + n + (j - 1 - n)
      <3>1. \A j \in 1..(1 + n + m) : j = 1 + (j - 1)
        BY <1>1
      <3> QED BY <3>1
    <2> QED BY <1>1
  <1>9. ASSUME NEW ag \in Providing(t, ToSet(s.aggrs))
        PROVE  \E a \in Providing(t, ToSet(s.aggrs)) : mac = a.name
    <2>1. PICK i \in 1..m : ag = s.aggrs[i] /\ t \in A[i].tags
      BY <1>1, <1>3, <1>9 DEF Providing, ToSet
    <2>2. 1 + n + i \in 1..Len(offers) /\ t \in offers[1 + n + i].tags
      BY <1>1, <1>5, <2>1
    <2>3. PICK j \in 1..Len(offers) : mac = offers[j].interface /\ LastOffer(offers, t, j)
      BY <1>7, <2>2
    <2>4. ~ (1 + n + i \in (j + 1)..Len(offers))
      BY <2>2, <2>3 DEF LastOffer
    <2>5. PICK k \in 1..m : j = 1 + n + k
      BY <1>1, <1>5, <1>8, <2>2, <2>4
    <2>6. t \in A[k].tags /\ mac = A[k].interface
      BY <1>5, <2>3, <2>5 DEF LastOffer
    <2> QED BY <1>1, <1>3, <2>6 DEF Providing, ToSet
  <1>10. ASSUME NEW nic \in Providing(t, ToSet(s.nics)), Providing(t, ToSet(s.aggrs)) = {}
         PROVE  \E b \in Providing(t, ToSet(s.nics)) : mac = b.mac
    <2>1. \A i \in 1..m : t \notin A[i].tags
      BY <1>1, <1>3, <1>10 DEF Providing, ToSet
    <2>2. PICK i \in 1..n : nic = s.nics[i]
      BY <1>1 DEF Providing, ToSet
    <2>3. \E j \in 1..Len(offers) : t \in offers[j].tags
      <3>1. 1 \in 1..Len(offers) /\ 1 + i \in 1..Len(offers)
        BY <1>1, <1>5
      <3>2. CASE nic.mac = admin.mac
        <4>1. nic = admin
          BY <3>2, SameNic DEF Providing
        <4> QED BY <1>4, <1>5, <3>1, <4>1 DEF Providing
      <3>3. CASE nic.mac # admin.mac
        BY <1>2, <1>5, <2>2, <3>1, <3>3 DEF Providing
      <3> QED BY <3>2, <3>3
    <2>4. PICK j \in 1..Len(offers) : mac = offers[j].interface /\ t \in offers[j].tags
      BY <1>7, <2>3 DEF LastOffer
    <2>5. CASE j = 1
      BY <1>4, <1>5, <2>4, <2>5 DEF Providing
    <2>6. ASSUME NEW k \in 1..n, j = 1 + k
          PROVE  s.nics[k] \in Providing(t, ToSet(s.nics)) /\ mac = s.nics[k].mac
      <3>1. t \in N[k].tags /\ mac = N[k].interface
        BY <1>5, <2>4, <2>6
      <3> QED BY <1>1, <1>2, <3>1 DEF Providing, ToSet
    <2> QED BY <1>5, <1>8, <2>1, <2>4, <2>5, <2>6
  <1>11. ASSUME Providing(t, ToSet(s.aggrs)) = {}, Providing(t, ToSet(s.nics)) = {}
         PROVE  mac = NoInterface
    <2>1. \A i \in 1..n : s.nics[i] \in ToSet(s.nics)
      BY <1>1 DEF ToSet
    <2>2. \A i \in 1..m : s.aggrs[i] \in ToSet(s.aggrs)
      BY <1>1 DEF ToSet
    <2>3. \A x \in ToSet(s.nics) \cup ToSet(s.aggrs) : t \notin x.provided
      BY <1>11 DEF Providing
    <2>4. \A i \in 1..n : t \notin N[i].tags
      BY <1>2, <2>1, <2>3
    <2>5. \A i \in 1..m : t \notin A[i].tags
      BY <1>3, <2>2, <2>3
    <2>6. t \notin first.tags
      BY <1>4, <2>3
    <2>7. \A j \in 1..Len(offers) : t \notin offers[j].tags
      BY <1>5, <1>8, <2>4, <2>5, <2>6
    <2> QED BY <1>7, <2>7 DEF LastOffer
  <1> QED BY <1>9, <1>10, <1>11 DEF mac

-------------------------------------------------------------------------------
(* The invariants of BootConfig about nic tags.                            *)

\* What BootConfig has been given is one of its inputs.
GivenInv ==
    \/ given = Nothing
    \/ \E s \in Servers : given = [kind |-> "server", of |-> s]
    \/ \E x \in Exchanges : given = [kind |-> "packet", of |-> x]
    \/ \E m \in Menus : given = [kind |-> "menu", of |-> m]

(* A behaviour is given nothing but inputs.                                *)
LEMMA GivenInputs == Spec => []GivenInv
  <1>1. Init => GivenInv
    BY DEF Init, GivenInv
  <1>2. GivenInv /\ [Next]_given => GivenInv'
    BY DEF GivenInv, Next, ServerListed, PacketArrives, FilesWalked, Done
  <1> QED BY <1>1, <1>2, PTL DEF Spec

(* A server that has been given is one of those of the constants.          *)
LEMMA GivenServer ==
    ASSUME GivenInv, Given("server")
    PROVE  given.of \in Servers
  BY DEF GivenInv, Given

(* The kernel arguments follow the documented order of precedence, except  *)
(* where a nic inside an aggregation provides the tag, or a nic outside    *)
(* and an aggregation both do.                                             *)
THEOREM ArgumentsDocumented == Spec => []ArgumentsAsDocumented
  <1>1. GivenInv => ArgumentsAsDocumented
    <2> SUFFICES ASSUME NEW s \in Servers,
                        NEW t \in DOMAIN s.base \cup
                            UNION {x.provided : x \in ToSet(s.nics) \cup ToSet(s.aggrs)}
                 PROVE  \/ /\ t \in DOMAIN KernelArgs(s)
                           /\ KernelArgs(s)[t] = Documented(s, t)
                        \/ /\ t \notin DOMAIN s.base
                           /\ IF Providing(t, ToSet(s.aggrs)) = {}
                              THEN Providing(t, Members(s)) # {}
                              ELSE Providing(t, Apart(s)) # {}
      BY GivenServer DEF ArgumentsAsDocumented
    <2> DEFINE provided == UNION {x.provided : x \in Apart(s) \cup ToSet(s.aggrs)}
    <2>1. CASE t \in DOMAIN s.base
      <3>1. Documented(s, t) = s.base[t]
        BY <2>1 DEF Documented
      <3> QED BY <2>1, <3>1, KernelArgsOf
    <2>2. CASE t \notin DOMAIN s.base /\ t \in provided
      <3>1. t \in DOMAIN KernelArgs(s)
        BY <2>2, KernelArgsOf
      <3>2. \/ \E j : FirstNic(s, t, j) /\ KernelArgs(s)[t] = s.nics[j].mac
            \/ /\ Providing(t, Apart(s)) = {}
               /\ \E j : FirstAggr(s, t, j) /\ KernelArgs(s)[t] = s.aggrs[j].name
        BY <2>2, KernelArgsOf
      <3>3. CASE \E j : FirstAggr(s, t, j) /\ KernelArgs(s)[t] = s.aggrs[j].name
        BY <2>2, <3>1, <3>3, DocumentedIs
      <3>4. CASE \E j : FirstNic(s, t, j) /\ KernelArgs(s)[t] = s.nics[j].mac
        <4>1. PICK j : FirstNic(s, t, j) /\ KernelArgs(s)[t] = s.nics[j].mac
          BY <3>4
        <4>2. s.nics[j] \in Providing(t, Apart(s))
          BY <4>1 DEF FirstNic, Providing, Apart, ToSet
        <4> QED BY <2>2, <3>1, <4>1, <4>2, DocumentedIs
      <3> QED BY <3>2, <3>3, <3>4
    <2>3. CASE t \notin DOMAIN s.base /\ t \notin provided
      <3>1. PICK x \in ToSet(s.nics) \cup ToSet(s.aggrs) : t \in x.provided
        BY <2>3
      <3>2. Providing(t, ToSet(s.aggrs)) = {} /\ x \in Providing(t, Members(s))
        BY <2>3, <3>1 DEF Providing, Members
      <3> QED BY <2>3, <3>2
    <2> QED BY <2>1, <2>2, <2>3
  <1> QED BY <1>1, GivenInputs, PTL

(* Some kernel argument names the admin interface of a CN, except where a  *)
(* nic inside an aggregation provides the admin tag that this one does not.*)
THEOREM AdminNamed == Spec => []AdminInterfaceNamed
  <1>1. GivenInv => AdminInterfaceNamed
    <2> SUFFICES ASSUME NEW s \in Servers
                 PROVE  \/ DOMAIN KernelArgs(s) \cap AdminTags(s) # {}
                        \/ \E nic \in Members(s) : \E t \in nic.provided \cap AdminTags(s) :
                              Providing(t, ToSet(s.aggrs)) = {}
      BY GivenServer DEF AdminInterfaceNamed
    <2> DEFINE provided == UNION {x.provided : x \in Apart(s) \cup ToSet(s.aggrs)}
    <2>1. /\ provided \subseteq DOMAIN KernelArgs(s)
          /\ ~AdminFound(s) => "admin" \in DOMAIN KernelArgs(s)
      BY KernelArgsOf
    <2>2. CASE ~AdminFound(s)
      BY <2>1, <2>2 DEF AdminTags
    <2>3. ASSUME NEW ag \in ToSet(s.aggrs), NEW t \in ag.provided \cap AdminTags(s)
          PROVE  t \in DOMAIN KernelArgs(s) \cap AdminTags(s)
      BY <2>1
    <2>4. ASSUME NEW nic \in ToSet(s.nics), NEW t \in nic.provided \cap AdminTags(s)
          PROVE  \/ DOMAIN KernelArgs(s) \cap AdminTags(s) # {}
                 \/ nic \in Members(s) /\ Providing(t, ToSet(s.aggrs)) = {}
      <3>1. CASE nic \in Apart(s)
        BY <2>1, <3>1
      <3>2. CASE nic \notin Apart(s)
        BY <2>3, <3>2 DEF Members, Providing
      <3> QED BY <3>1, <3>2
    <2>5. \A ag \in ToSet(s.aggrs) : ag.provided \cap s.pool \subseteq ag.provided \cap AdminTags(s)
      BY DEF AdminTags
    <2> HIDE DEF provided
    <2> QED BY <2>2, <2>3, <2>4, <2>5 DEF AdminFound
  <1> QED BY <1>1, GivenInputs, PTL

(* The nic that networking.json takes for the admin nic is one of the CN's, *)
(* one with an admin tag if there is any and otherwise the boot nic.       *)
LEMMA AdminNicIs ==
    ASSUME NEW s \in Servers
    PROVE  /\ AdminNic(s) \in ToSet(s.nics) /\ bootNic(s) \in ToSet(s.nics)
           /\ \/ AdminNic(s).provided \cap AdminTags(s) # {}
              \/ /\ AdminNic(s) = bootNic(s)
                 /\ \A nic \in ToSet(s.nics) : nic.provided \cap AdminTags(s) = {}
  <1> DEFINE n == Len(s.nics)
             I == {i \in 1..n : s.nics[i].provided \cap AdminTags(s) # {}}
  <1>1. n \in Nat \ {0} /\ DOMAIN s.nics = 1..n
    BY OffersOf
  <1>2. AdminNic(s) = LET last == IF I # {} THEN Max(I) ELSE 0
                      IN IF last = 0 THEN bootNic(s) ELSE s.nics[last]
    BY DEF AdminNic, SelectLastInSeq
  <1>3. bootNic(s) \in ToSet(s.nics)
    BY <1>1 DEF bootNic, ToSet
  <1>4. CASE I = {}
    <2>1. \A nic \in ToSet(s.nics) : nic.provided \cap AdminTags(s) = {}
      BY <1>1, <1>4 DEF ToSet
    <2>2. AdminNic(s) = bootNic(s)
      BY <1>2, <1>4
    <2> QED BY <1>3, <2>1, <2>2
  <1>5. CASE I # {}
    <2>1. Max(I) \in I
      BY <1>1, <1>5, MaxOfIndices
    <2>2. Max(I) \in 1..n /\ Max(I) # 0
      BY <1>1, <2>1
    <2>3. AdminNic(s) = s.nics[Max(I)]
      BY <1>2, <1>5, <2>2
    <2> QED BY <1>1, <1>3, <2>1, <2>2, <2>3 DEF ToSet
  <1> QED BY <1>4, <1>5

(* A tag that nothing provides has no mac yet.                             *)
LEMMA NoMac ==
    ASSUME NEW s \in Servers, NEW admin \in ToSet(s.nics), NEW tags, NEW t \in tags,
           Providing(t, ToSet(s.nics)) = {}, Providing(t, ToSet(s.aggrs)) = {}
    PROVE  MacsProvided(s, admin, tags)[t] = NoInterface
  BY MacsOf

\* The tag that the first-boot rule picks.
Picked(admin, order, t) ==
    LET I == {i \in 1..Len(order) : order[i] \in AdminCandidates(admin)}
        first == IF I # {} THEN Min(I) ELSE 0
    IN first # 0 /\ t = order[first]

\* The macs of the tags in networking.json.
TagMacs(s, admin, order) ==
    LET macs == MacsProvided(s, admin, ToSet(order))
    IN [t \in ToSet(order) |->
            IF Picked(admin, order, t) /\ Cardinality(Vnics(s)) = 1 /\ macs[t] = NoInterface
            THEN admin.mac
            ELSE macs[t]]

(* The tags of a CN are ordered in full, each of them once.                *)
LEMMA TagsOrdered ==
    ASSUME NEW s \in Servers, NEW order \in SetToSeqs(TagsOf(s))
    PROVE  /\ ToSet(order) = TagsOf(s) /\ Len(order) \in Nat /\ DOMAIN order = 1..Len(order)
           /\ \A i, j \in DOMAIN order : order[i] = order[j] => i = j
  BY ServersAssumption, OrderLists

(* networking.json lists every tag with its mac, whatever the order.       *)
LEMMA ConfLists ==
    ASSUME NEW s \in Servers, NEW admin, NEW order \in SetToSeqs(TagsOf(s))
    PROVE  ToSet(NetConf(s, admin, order))
              = {Tag(t, TagMacs(s, admin, order)[t]) : t \in ToSet(order)}
  <1> DEFINE conf == NetConf(s, admin, order)
             macs == MacsProvided(s, admin, ToSet(order))
             I == {i \in 1..Len(order) : order[i] \in AdminCandidates(admin)}
             first == IF I # {} THEN Min(I) ELSE 0
             Mac(i) == IF i = first /\ Cardinality(Vnics(s)) = 1 /\ macs[order[i]] = NoInterface
                       THEN admin.mac
                       ELSE macs[order[i]]
  <1>1. /\ Len(order) \in Nat /\ DOMAIN order = 1..Len(order)
        /\ \A i, j \in DOMAIN order : order[i] = order[j] => i = j
    BY TagsOrdered
  <1>2. conf = [i \in DOMAIN order |-> Tag(order[i], Mac(i))]
    BY DEF NetConf, Tag, SelectInSeq
  <1>3. first = 0 \/ first \in DOMAIN order
    BY <1>1, MinOfIndices
  <1>4. ASSUME NEW i \in DOMAIN order
        PROVE  Mac(i) = TagMacs(s, admin, order)[order[i]]
    <2>1. order[i] \in ToSet(order)
      BY DEF ToSet
    <2>2. i # 0
      BY <1>1
    <2>3. Picked(admin, order, order[i]) <=> first # 0 /\ order[i] = order[first]
      BY DEF Picked
    <2> HIDE DEF I, first, macs
    <2>4. i = first <=> Picked(admin, order, order[i])
      BY <1>1, <1>3, <2>2, <2>3
    <2> QED BY <2>1, <2>4 DEF TagMacs, macs
  <1> HIDE DEF Mac, conf
  <1>5. ToSet(conf) = {Tag(order[i], Mac(i)) : i \in DOMAIN order}
    BY <1>2 DEF ToSet
  <1>6. ToSet(order) = {order[i] : i \in DOMAIN order}
    BY DEF ToSet
  <1> QED BY <1>4, <1>5, <1>6 DEF conf

(* networking.json gives a tag that has an interface that one.             *)
LEMMA TagMacOf ==
    ASSUME NEW s \in Servers, NEW admin, NEW order, NEW t \in ToSet(order),
           MacsProvided(s, admin, ToSet(order))[t] # NoInterface
    PROVE  TagMacs(s, admin, order)[t] = MacsProvided(s, admin, ToSet(order))[t]
  BY DEF TagMacs

(* An interface that a nic or an aggregation provides is one.              *)
LEMMA InterfaceThere ==
    ASSUME NEW s \in Servers
    PROVE  /\ \A nic \in ToSet(s.nics) : nic.mac # NoInterface
           /\ \A ag \in ToSet(s.aggrs) : ag.name # NoInterface
  <1>1. NoInterface \notin {nic.mac : nic \in ToSet(s.nics)}
                              \cup {ag.name : ag \in ToSet(s.aggrs)}
    BY ServersAssumption
  <1> QED BY <1>1

(* What networking.json says of a tag that a nic or an aggregation has.    *)
LEMMA ConfOf ==
    ASSUME NEW s \in Servers, NEW admin \in ToSet(s.nics),
           NEW order, NEW t \in ToSet(order)
    PROVE  LET conf == TagMacs(s, admin, order)
           IN /\ Providing(t, ToSet(s.aggrs)) # {} =>
                    \E ag \in Providing(t, ToSet(s.aggrs)) : conf[t] = ag.name
              /\ Providing(t, ToSet(s.aggrs)) = {} /\ Providing(t, ToSet(s.nics)) # {} =>
                    \E nic \in Providing(t, ToSet(s.nics)) : conf[t] = nic.mac
  <1> DEFINE mac == MacsProvided(s, admin, ToSet(order))[t]
  <1>1. /\ Providing(t, ToSet(s.aggrs)) # {} =>
              \E ag \in Providing(t, ToSet(s.aggrs)) : mac = ag.name
        /\ Providing(t, ToSet(s.aggrs)) = {} /\ Providing(t, ToSet(s.nics)) # {} =>
              \E nic \in Providing(t, ToSet(s.nics)) : mac = nic.mac
    BY MacsOf
  <1>2. mac # NoInterface => TagMacs(s, admin, order)[t] = mac
    BY TagMacOf
  <1> HIDE DEF mac
  <1> QED BY <1>1, <1>2, InterfaceThere DEF Providing

(* A tag that has one interface.                                           *)
LEMMA AloneIs ==
    ASSUME NEW s \in Servers, NEW X, X \subseteq ToSet(s.nics) \/ X \subseteq ToSet(s.aggrs),
           Cardinality(X) = 1
    PROVE  \E x : X = {x}
  <1>1. s.nics \in Seq(ToSet(s.nics)) /\ s.aggrs \in Seq(ToSet(s.aggrs))
    BY ServersAssumption
  <1>2. s.nics = [i \in 1..Len(s.nics) |-> s.nics[i]] /\ Len(s.nics) \in Nat
    BY <1>1
  <1>3. s.aggrs = [i \in 1..Len(s.aggrs) |-> s.aggrs[i]] /\ Len(s.aggrs) \in Nat
    BY <1>1
  <1>4. CASE X \subseteq ToSet(s.nics)
    BY <1>2, <1>4, OneMember
  <1>5. CASE X \subseteq ToSet(s.aggrs)
    BY <1>3, <1>5, OneMember
  <1> QED BY <1>4, <1>5

(* A tag that one interface provides: the arguments and networking.json    *)
(* name the same.                                                          *)
LEMMA AloneAgrees ==
    ASSUME NEW s \in Servers, NEW order \in SetToSeqs(TagsOf(s)),
           NEW t \in TagsOf(s) \ DOMAIN s.base,
           IF Providing(t, ToSet(s.aggrs)) = {}
           THEN Cardinality(Providing(t, Apart(s))) = 1 /\ Providing(t, Members(s)) = {}
           ELSE Cardinality(Providing(t, ToSet(s.aggrs))) = 1 /\ Providing(t, Apart(s)) = {}
    PROVE  Tag(t, KernelArgs(s)[t]) \in ToSet(NetConf(s, AdminNic(s), order))
  <1> DEFINE conf == TagMacs(s, AdminNic(s), order)[t]
             arg  == KernelArgs(s)[t]
  <1>1. AdminNic(s) \in ToSet(s.nics) /\ t \in ToSet(order)
    BY AdminNicIs, TagsOrdered
  <1>2. /\ Providing(t, ToSet(s.aggrs)) # {} =>
              \E ag \in Providing(t, ToSet(s.aggrs)) : conf = ag.name
        /\ Providing(t, ToSet(s.aggrs)) = {} /\ Providing(t, ToSet(s.nics)) # {} =>
              \E nic \in Providing(t, ToSet(s.nics)) : conf = nic.mac
    BY <1>1, ConfOf
  <1>3. t \in UNION {x.provided : x \in Apart(s) \cup ToSet(s.aggrs)} =>
           \/ \E j : FirstNic(s, t, j) /\ arg = s.nics[j].mac
           \/ \E j : FirstAggr(s, t, j) /\ arg = s.aggrs[j].name
    BY KernelArgsOf
  <1> HIDE DEF conf, arg
  <1>4. /\ \A j : FirstNic(s, t, j) => s.nics[j] \in Providing(t, Apart(s))
        /\ \A j : FirstAggr(s, t, j) => s.aggrs[j] \in Providing(t, ToSet(s.aggrs))
    BY DEF FirstNic, FirstAggr, Providing, Apart, ToSet
  <1>5. ASSUME Providing(t, ToSet(s.aggrs)) = {} PROVE conf = arg
    <2>1. PICK nic : Providing(t, Apart(s)) = {nic}
      <3>1. Providing(t, Apart(s)) \subseteq ToSet(s.nics)
        BY DEF Providing, Apart
      <3> QED BY <1>5, <3>1, AloneIs
    <2>2. Providing(t, ToSet(s.nics)) = {nic}
      BY <1>5, <2>1 DEF Providing, Members, Apart
    <2>3. conf = nic.mac
      BY <1>2, <1>5, <2>2
    <2>4. t \in UNION {x.provided : x \in Apart(s) \cup ToSet(s.aggrs)}
      BY <2>1 DEF Providing
    <2>5. arg = nic.mac
      BY <1>3, <1>4, <1>5, <2>1, <2>4
    <2> QED BY <2>3, <2>5
  <1>6. ASSUME Providing(t, ToSet(s.aggrs)) # {} PROVE conf = arg
    <2>1. PICK ag : Providing(t, ToSet(s.aggrs)) = {ag}
      <3>1. Providing(t, ToSet(s.aggrs)) \subseteq ToSet(s.aggrs)
        BY DEF Providing
      <3> QED BY <1>6, <3>1, AloneIs
    <2>2. conf = ag.name
      BY <1>2, <1>6, <2>1
    <2>3. t \in UNION {x.provided : x \in Apart(s) \cup ToSet(s.aggrs)}
      BY <2>1 DEF Providing
    <2>4. arg = ag.name
      BY <1>3, <1>4, <1>6, <2>1, <2>3
    <2> QED BY <2>2, <2>4
  <1>7. Tag(t, conf) \in ToSet(NetConf(s, AdminNic(s), order))
    BY <1>1, ConfLists DEF conf
  <1> QED BY <1>5, <1>6, <1>7 DEF arg

(* A CN that has just booted: both name its only nic.                      *)
LEMMA JustBootedAgrees ==
    ASSUME NEW s \in Servers, NEW order \in SetToSeqs(TagsOf(s)),
           Len(s.nics) = 1, s.aggrs = <<>>, s.nics[1].provided = {},
           TagsOf(s) # {}, "admin" \notin DOMAIN s.base
    PROVE  Tag(bootNic(s).nic_tag, KernelArgs(s)["admin"])
              \in ToSet(NetConf(s, AdminNic(s), order))
  <1> DEFINE nic == bootNic(s)
             tag == nic.nic_tag
  <1>1. ToSet(s.nics) = {nic} /\ DOMAIN s.nics = {1} /\ ToSet(s.aggrs) = {}
    <2>1. DOMAIN s.nics = 1..1 /\ DOMAIN s.aggrs = {}
      BY OffersOf
    <2> QED BY <2>1 DEF ToSet, bootNic
  <1>2. AdminNic(s) = nic
    BY <1>1, AdminNicIs
  <1>3. nic.provided = {}
    BY DEF bootNic
  <1>4. TagsOf(s) = {tag}
    <2>1. TagsOf(s) \subseteq {tag}
      BY <1>1, <1>3 DEF TagsOf
    <2> QED BY <2>1
  <1>5. KernelArgs(s)["admin"] = nic.mac
    <2>1. ~ AdminFound(s)
      BY <1>1, <1>3 DEF AdminFound
    <2>2. UNION {x.provided : x \in Apart(s) \cup ToSet(s.aggrs)} = {}
      BY <1>1, <1>3 DEF Apart
    <2> QED BY <2>1, <2>2, KernelArgsOf
  <1>6. ToSet(order) = {tag} /\ Len(order) \in Nat /\ DOMAIN order = 1..Len(order)
    BY <1>4, TagsOrdered
  <1> HIDE DEF tag
  <1>7. MacsProvided(s, nic, ToSet(order))[tag] = NoInterface
    <2>1. Providing(tag, ToSet(s.nics)) = {} /\ Providing(tag, ToSet(s.aggrs)) = {}
      BY <1>1, <1>3 DEF Providing
    <2>2. nic \in ToSet(s.nics) /\ tag \in ToSet(order)
      BY <1>1, <1>6
    <2> QED BY <2>1, <2>2, NoMac
  <1>8. Cardinality(Vnics(s)) = 1
    <2>1. Vnics(s) = {1}
      BY <1>1, ServersAssumption DEF Vnics, bootNic
    <2> QED BY <2>1, FS_Singleton
  <1>9. Picked(nic, order, tag)
    <2> DEFINE I == {i \in 1..Len(order) : order[i] \in AdminCandidates(nic)}
    <2>1. \A i \in 1..Len(order) : order[i] = tag
      BY <1>6 DEF ToSet
    <2>2. 1..Len(order) # {}
      BY <1>6 DEF ToSet
    <2>3. I # {}
      BY <2>1, <2>2 DEF tag, AdminCandidates
    <2>4. Min(I) \in 1..Len(order)
      BY <1>6, <2>3, MinOfIndices
    <2>5. Min(I) # 0 /\ order[Min(I)] = tag
      BY <1>6, <2>1, <2>4
    <2> QED BY <2>3, <2>5 DEF Picked
  <1>10. TagMacs(s, nic, order)[tag] = nic.mac
    BY <1>6, <1>7, <1>8, <1>9 DEF TagMacs
  <1>11. tag \in ToSet(order)
    BY <1>6
  <1>12. Tag(tag, nic.mac) \in ToSet(NetConf(s, nic, order))
    BY <1>10, <1>11, ConfLists
  <1> QED BY <1>2, <1>5, <1>12 DEF tag

(* The kernel arguments and networking.json name the same interface for a  *)
(* tag that one interface provides, and for the tag of a server that has   *)
(* just booted.                                                            *)
THEOREM ConfigurationsAgree == Spec => []InterfacesAgree
  <1>1. GivenInv => InterfacesAgree
    BY GivenServer, AloneAgrees, JustBootedAgrees DEF InterfacesAgree
  <1> QED BY <1>1, GivenInputs, PTL

(* In two orders of its tags networking.json gives a tag the same mac, but *)
(* for two that may be the admin tag, one of which has one.                *)
LEMMA OrderHarmless ==
    ASSUME NEW s \in Servers, NEW p \in SetToSeqs(TagsOf(s)),
           NEW admin \in ToSet(s.nics)
    PROVE  LET may == AdminCandidates(admin) \cap TagsOf(s)
               macs == TagMacs(s, admin, p)
           IN /\ \A q \in SetToSeqs(TagsOf(s)) : \A t \in TagsOf(s) :
                    macs[t] # TagMacs(s, admin, q)[t] =>
                       /\ may = AdminCandidates(admin) /\ admin.nic_tag # "admin"
                       /\ t \in may /\ Cardinality(Vnics(s)) = 1
              /\ may # {} /\ Cardinality(Vnics(s)) = 1 =>
                    \E t \in may : macs[t] # NoInterface
  <1> DEFINE tags == TagsOf(s)
             W == AdminCandidates(admin)
             provided == MacsProvided(s, admin, tags)
             one == Cardinality(Vnics(s)) = 1
             M(order) == TagMacs(s, admin, order)
             I(order) == {i \in 1..Len(order) : order[i] \in W}
             first(order) == IF I(order) # {} THEN Min(I(order)) ELSE 0
  <1>1. ASSUME NEW order \in SetToSeqs(tags)
        PROVE  /\ ToSet(order) = tags /\ Len(order) \in Nat /\ DOMAIN order = 1..Len(order)
               /\ \A t \in tags : M(order)[t] =
                     IF Picked(admin, order, t) /\ one /\ provided[t] = NoInterface
                     THEN admin.mac ELSE provided[t]
               /\ \A t \in tags : Picked(admin, order, t)
                                     <=> first(order) # 0 /\ t = order[first(order)]
    <2>1. ToSet(order) = tags /\ Len(order) \in Nat /\ DOMAIN order = 1..Len(order)
      BY <1>1, TagsOrdered
    <2> QED BY <2>1 DEF TagMacs, Picked
  <1>2. ASSUME NEW order \in SetToSeqs(tags), I(order) # {}
        PROVE  first(order) \in I(order) /\ first(order) # 0
    <2>1. Min(I(order)) \in I(order)
      BY <1>1, <1>2, MinOfIndices
    <2>2. Min(I(order)) \in 1..Len(order)
      BY <2>1
    <2> QED BY <1>1, <1>2, <2>1, <2>2
  <1>3. ASSUME NEW q \in SetToSeqs(tags), NEW t \in tags, M(p)[t] # M(q)[t]
        PROVE  /\ W \subseteq tags /\ admin.nic_tag # "admin"
               /\ t \in W /\ Cardinality(Vnics(s)) = 1
    <2>1. one /\ ~ (Picked(admin, p, t) <=> Picked(admin, q, t))
      <3>1. M(p)[t] = IF Picked(admin, p, t) /\ one /\ provided[t] = NoInterface
                      THEN admin.mac ELSE provided[t]
        BY <1>1
      <3>2. M(q)[t] = IF Picked(admin, q, t) /\ one /\ provided[t] = NoInterface
                      THEN admin.mac ELSE provided[t]
        BY <1>1
      <3> HIDE DEF provided, M
      <3> QED BY <1>3, <3>1, <3>2
    <2>2. \A order \in SetToSeqs(tags) : Picked(admin, order, t) => t \in W
      BY <1>1, <1>2
    <2>3. t \in W
      BY <2>1, <2>2
    <2>4. ASSUME \A x, y \in tags \cap W : x = y PROVE FALSE
      <3>1. ASSUME NEW order \in SetToSeqs(tags) PROVE Picked(admin, order, t)
        <4>1. ToSet(order) = tags /\ DOMAIN order = 1..Len(order)
          BY <1>1
        <4>2. PICK k \in 1..Len(order) : order[k] = t
          BY <4>1 DEF ToSet
        <4>3. k \in I(order)
          BY <2>3, <4>2
        <4>4. first(order) \in I(order) /\ first(order) # 0
          BY <1>2, <4>3
        <4>5. order[first(order)] \in W /\ order[first(order)] \in tags
          BY <4>1, <4>4 DEF ToSet
        <4>6. t = order[first(order)]
          <5> HIDE DEF first, W, tags
          <5> QED BY <2>3, <2>4, <4>5
        <4> QED BY <1>1, <4>4, <4>6
      <3>2. Picked(admin, p, t) /\ Picked(admin, q, t)
        BY <3>1
      <3> QED BY <2>1, <3>2
    <2> QED BY <2>1, <2>3, <2>4 DEF AdminCandidates
  <1>4. ASSUME W \cap tags # {}, one
        PROVE  \E t \in W \cap tags : M(p)[t] # NoInterface
    <2>1. I(p) # {}
      BY <1>1, <1>4 DEF ToSet
    <2>2. first(p) \in I(p) /\ first(p) # 0
      BY <1>2, <2>1
    <2>3. p[first(p)] \in W \cap tags
      BY <1>1, <2>2 DEF ToSet
    <2> DEFINE t == p[first(p)]
    <2>4. Picked(admin, p, t) /\ t \in tags
      BY <1>1, <2>2, <2>3
    <2>5. M(p)[t] = IF Picked(admin, p, t) /\ one /\ provided[t] = NoInterface
                    THEN admin.mac ELSE provided[t]
      BY <1>1, <2>4
    <2> HIDE DEF tags, provided, I, first, W, M, t
    <2>6. M(p)[t] # NoInterface
      BY <1>4, <2>4, <2>5, InterfaceThere
    <2> QED BY <2>3, <2>6 DEF t
  <1> HIDE DEF tags, W, M, one
  <1>5. /\ \A q \in SetToSeqs(tags) : \A t \in tags :
              M(p)[t] # M(q)[t] =>
                 /\ W \cap tags = W /\ admin.nic_tag # "admin"
                 /\ t \in W \cap tags /\ Cardinality(Vnics(s)) = 1
        /\ W \cap tags # {} /\ one => \E t \in W \cap tags : M(p)[t] # NoInterface
    BY <1>3, <1>4
  <1> QED BY <1>5 DEF tags, W, M, one

(* Whatever order NAPI answers in, networking.json gives a tag the same    *)
(* interface, but for two tags that may be the admin tag of a server with  *)
(* one vnic; and one such tag has an interface.                            *)
THEOREM AnswersHarmless == Spec => []AnswerOrderHarmless
  <1>1. GivenInv => AnswerOrderHarmless
    <2> SUFFICES ASSUME NEW s \in Servers, NEW p \in SetToSeqs(TagsOf(s))
                 PROVE  LET admin == AdminNic(s)
                            may == AdminCandidates(admin) \cap TagsOf(s)
                            file(order) == ToSet(NetConf(s, admin, order))
                        IN /\ \A q \in SetToSeqs(TagsOf(s)) : \A tag \in file(p) \ file(q) :
                                 may = AdminCandidates(admin) /\ admin.nic_tag # "admin"
                                    /\ tag.name \in may /\ Cardinality(Vnics(s)) = 1
                           /\ may # {} /\ Cardinality(Vnics(s)) = 1 =>
                                 \E tag \in file(p) : tag.name \in may /\ tag.mac # NoInterface
      BY GivenServer DEF AnswerOrderHarmless
    <2> DEFINE admin == AdminNic(s)
               may == AdminCandidates(admin) \cap TagsOf(s)
               M(order) == TagMacs(s, admin, order)
    <2>1. admin \in ToSet(s.nics)
      BY AdminNicIs
    <2>2. \A order \in SetToSeqs(TagsOf(s)) :
             ToSet(NetConf(s, admin, order)) = {Tag(t, M(order)[t]) : t \in TagsOf(s)}
      BY ConfLists, TagsOrdered
    <2>3. /\ \A q \in SetToSeqs(TagsOf(s)) : \A t \in TagsOf(s) :
                M(p)[t] # M(q)[t] =>
                   /\ may = AdminCandidates(admin) /\ admin.nic_tag # "admin"
                   /\ t \in may /\ Cardinality(Vnics(s)) = 1
          /\ may # {} /\ Cardinality(Vnics(s)) = 1 => \E t \in may : M(p)[t] # NoInterface
      BY <2>1, OrderHarmless
    <2>4. \A t, mac : Tag(t, mac).name = t /\ Tag(t, mac).mac = mac
      BY DEF Tag
    <2>5. may \subseteq TagsOf(s)
      OBVIOUS
    <2> HIDE DEF may, M, admin
    <2>6. ASSUME NEW q \in SetToSeqs(TagsOf(s)),
                 NEW tag \in ToSet(NetConf(s, admin, p)) \ ToSet(NetConf(s, admin, q))
          PROVE  may = AdminCandidates(admin) /\ admin.nic_tag # "admin"
                    /\ tag.name \in may /\ Cardinality(Vnics(s)) = 1
      <3>1. PICK t \in TagsOf(s) : tag = Tag(t, M(p)[t])
        BY <2>2
      <3>2. M(p)[t] # M(q)[t]
        BY <2>2, <3>1
      <3> QED BY <2>3, <2>4, <3>1, <3>2
    <2>7. ASSUME may # {}, Cardinality(Vnics(s)) = 1
          PROVE  \E tag \in ToSet(NetConf(s, admin, p)) :
                    tag.name \in may /\ tag.mac # NoInterface
      <3>1. PICK t \in may : M(p)[t] # NoInterface
        BY <2>3, <2>7
      <3>2. Tag(t, M(p)[t]) \in ToSet(NetConf(s, admin, p))
        BY <2>2, <2>5
      <3> QED BY <2>4, <3>1, <3>2
    <2> QED BY <2>6, <2>7 DEF may, admin
  <1> QED BY <1>1, GivenInputs, PTL

(* The one interface that has admin tags: networking.json says so.         *)
LEMMA AdminTagMac ==
    ASSUME NEW s \in Servers, NEW order \in SetToSeqs(TagsOf(s)),
           NEW t \in AdminTags(s) \cap TagsOf(s)
    PROVE  LET nics  == {nic \in ToSet(s.nics) : nic.provided \cap AdminTags(s) # {}}
               aggrs == {ag \in ToSet(s.aggrs) : ag.provided \cap AdminTags(s) # {}}
               mac   == TagMacs(s, AdminNic(s), order)[t]
           IN /\ \A ag : aggrs = {ag} /\ t \in ag.provided => mac = ag.name
              /\ \A nic : aggrs = {} /\ nics = {nic} /\ t \in nic.provided => mac = nic.mac
  <1> DEFINE nics  == {nic \in ToSet(s.nics) : nic.provided \cap AdminTags(s) # {}}
             aggrs == {ag \in ToSet(s.aggrs) : ag.provided \cap AdminTags(s) # {}}
             mac   == TagMacs(s, AdminNic(s), order)[t]
             N == Providing(t, ToSet(s.nics))
             A == Providing(t, ToSet(s.aggrs))
  <1>1. AdminNic(s) \in ToSet(s.nics) /\ t \in ToSet(order)
    BY AdminNicIs, TagsOrdered
  <1>2. /\ A # {} => \E ag \in A : mac = ag.name
        /\ A = {} /\ N # {} => \E nic \in N : mac = nic.mac
    BY <1>1, ConfOf
  <1>3. N \subseteq nics /\ A \subseteq aggrs
    BY DEF Providing
  <1>4. \A ag \in aggrs : t \in ag.provided => ag \in A
    BY DEF Providing
  <1>5. \A nic \in nics : t \in nic.provided => nic \in N
    BY DEF Providing
  <1> HIDE DEF nics, aggrs, mac, N, A
  <1>6. /\ \A ag : aggrs = {ag} /\ t \in ag.provided => mac = ag.name
        /\ \A nic : aggrs = {} /\ nics = {nic} /\ t \in nic.provided => mac = nic.mac
    BY <1>2, <1>3, <1>4, <1>5
  <1> QED BY <1>6 DEF nics, aggrs, mac

(* networking.json gives an admin tag the interface that its admin nic is  *)
(* on, if one interface provides admin tags and, if this is an             *)
(* aggregation, the nics that do, or else the boot nic, belong to it.      *)
THEOREM AdminNicCarries == Spec => []AdminNicCarriesTag
  <1>1. GivenInv => AdminNicCarriesTag
    <2> SUFFICES ASSUME NEW s \in Servers
                 PROVE  LET admin == AdminNic(s)
                            nics  == {nic \in ToSet(s.nics) : nic.provided \cap AdminTags(s) # {}}
                            aggrs == {ag \in ToSet(s.aggrs) : ag.provided \cap AdminTags(s) # {}}
                            within(ag) == \A nic \in (IF nics = {} THEN {bootNic(s)} ELSE nics) :
                                             nic.mac \in ToSet(ag.macs)
                            Has(x, interface) ==
                                \A t \in x.provided \cap AdminTags(s) \cap TagsOf(s) :
                                \A order \in SetToSeqs(TagsOf(s)) :
                                   Tag(t, interface) \in ToSet(NetConf(s, admin, order))
                        IN /\ aggrs = {} => \A nic \in nics :
                                 nics = {nic} => admin = nic /\ Has(nic, nic.mac)
                           /\ \A ag \in aggrs :
                                 aggrs = {ag} /\ within(ag) =>
                                    admin.mac \in ToSet(ag.macs) /\ Has(ag, ag.name)
      BY GivenServer DEF AdminNicCarriesTag
    <2> DEFINE admin == AdminNic(s)
               nics  == {nic \in ToSet(s.nics) : nic.provided \cap AdminTags(s) # {}}
               aggrs == {ag \in ToSet(s.aggrs) : ag.provided \cap AdminTags(s) # {}}
               within(ag) == \A nic \in (IF nics = {} THEN {bootNic(s)} ELSE nics) :
                                nic.mac \in ToSet(ag.macs)
               Has(x, interface) ==
                   \A t \in x.provided \cap AdminTags(s) \cap TagsOf(s) :
                   \A order \in SetToSeqs(TagsOf(s)) :
                      Tag(t, interface) \in ToSet(NetConf(s, admin, order))
    <2>1. admin \in nics \/ (nics = {} /\ admin = bootNic(s))
      BY AdminNicIs
    <2>2. ASSUME NEW order \in SetToSeqs(TagsOf(s)), NEW t \in AdminTags(s) \cap TagsOf(s)
          PROVE  Tag(t, TagMacs(s, admin, order)[t]) \in ToSet(NetConf(s, admin, order))
      BY ConfLists, TagsOrdered
    <2>3. ASSUME aggrs = {}, NEW nic \in nics, nics = {nic}
          PROVE  admin = nic /\ Has(nic, nic.mac)
      <3>1. ASSUME NEW t \in nic.provided \cap AdminTags(s) \cap TagsOf(s),
                   NEW order \in SetToSeqs(TagsOf(s))
            PROVE  TagMacs(s, admin, order)[t] = nic.mac
        BY <2>3, AdminTagMac
      <3> HIDE DEF nics, aggrs, admin
      <3> QED BY <2>1, <2>2, <2>3, <3>1
    <2>4. ASSUME NEW ag \in aggrs, aggrs = {ag}, within(ag)
          PROVE  admin.mac \in ToSet(ag.macs) /\ Has(ag, ag.name)
      <3>1. ASSUME NEW t \in ag.provided \cap AdminTags(s) \cap TagsOf(s),
                   NEW order \in SetToSeqs(TagsOf(s))
            PROVE  TagMacs(s, admin, order)[t] = ag.name
        BY <2>4, AdminTagMac
      <3> HIDE DEF nics, aggrs, admin
      <3> QED BY <2>1, <2>2, <2>4, <3>1
    <2> HIDE DEF nics, aggrs, admin, within, Has
    <2>5. /\ aggrs = {} => \A nic \in nics :
                nics = {nic} => admin = nic /\ Has(nic, nic.mac)
          /\ \A ag \in aggrs :
                aggrs = {ag} /\ within(ag) => admin.mac \in ToSet(ag.macs) /\ Has(ag, ag.name)
      BY <2>3, <2>4
    <2> QED BY <2>5 DEF nics, aggrs, admin, within, Has
  <1> QED BY <1>1, GivenInputs, PTL
===============================================================================
