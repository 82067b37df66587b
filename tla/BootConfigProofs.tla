--------------------------- MODULE BootConfigProofs ---------------------------
(***************************************************************************)
(* Proofs about DhcpReply and BootScripts: the way a reply goes, what is   *)
(* read from option 82 and from the bytes of a reply, and under what names *)
(* and in which order the scripts of a CN have it load its modules, for    *)
(* whatever packets, routes, boot modules and platforms there are.         *)
(***************************************************************************)
EXTENDS NicTagsProofs

(* A packet that has been given is one of those of the constants.          *)
LEMMA GivenPacket ==
    ASSUME GivenInv, Given("packet")
    PROVE  given.of \in Exchanges
  BY DEF GivenInv, Given

(* Likewise for a menu.                                                    *)
LEMMA GivenMenu ==
    ASSUME GivenInv, Given("menu")
    PROVE  given.of \in Menus
  BY DEF GivenInv, Given

-------------------------------------------------------------------------------
(* The way of a reply.                                                     *)

\* Where the loop over the routes ends.
EndOf(routes, e) ==
    IF e = 0
    THEN \A i \in DOMAIN routes : routes[i].dest \notin ToServer \cup Hosts
    ELSE /\ e \in DOMAIN routes /\ routes[e].dest \in ToServer \cup Hosts
         /\ \A i \in 1..(e - 1) : routes[i].dest \notin ToServer \cup Hosts

(* The loop ends at the first route to booter or to a host, if any.        *)
LEMMA LoopEnds ==
    ASSUME NEW R, NEW routes \in Seq(R)
    PROVE  EndOf(routes, LoopEnd(routes))
  <1> DEFINE n == Len(routes)
             I == {i \in 1..n : routes[i].dest \in ToServer \cup Hosts}
  <1>1. n \in Nat /\ DOMAIN routes = 1..n
    OBVIOUS
  <1>2. LoopEnd(routes) = IF I # {} THEN Min(I) ELSE 0
    BY DEF LoopEnd, SelectInSeq
  <1>3. CASE I = {}
    BY <1>1, <1>2, <1>3 DEF EndOf
  <1>4. CASE I # {}
    <2>1. Min(I) \in I /\ \A i \in I : Min(I) <= i
      BY <1>1, <1>4, MinOfIndices
    <2>2. LoopEnd(routes) = Min(I)
      BY <1>2, <1>4
    <2> DEFINE e == Min(I)
    <2>3. e \in 1..n /\ routes[e].dest \in ToServer \cup Hosts
      BY <2>1
    <2>4. \A i \in 1..(e - 1) : i \in 1..n /\ ~ (e <= i)
      BY <1>1, <2>3
    <2>5. \A i \in 1..(e - 1) : i \notin I
      BY <2>1, <2>4
    <2>6. \A i \in 1..(e - 1) : routes[i].dest \notin ToServer \cup Hosts
      BY <2>4, <2>5
    <2> HIDE DEF e, I
    <2>7. e # 0
      BY <1>1, <2>3
    <2> QED BY <1>1, <2>2, <2>3, <2>6, <2>7 DEF EndOf, e
  <1> QED BY <1>3, <1>4

(* 0.0.0.0 is an address.                                                  *)
LEMMA ZeroAddress == <<0, 0, 0, 0>> \in FourBytes
  BY DEF FourBytes, Byte

(* The options that say which way a reply goes.                            *)
LEMMA WayOptions ==
    ASSUME NEW packet, NEW params, NEW config
    PROVE  LET options == ReplyOptions(packet, params, config)
               router  == Router(packet, params, config)
           IN /\ 82 \in DOMAIN options <=> Relayed(packet)
              /\ Relayed(packet) => options[82] = packet.relay
              /\ 3 \in DOMAIN options <=> router # NoAddress
              /\ router # NoAddress => options[3] = router
  <1> DEFINE router == Router(packet, params, config)
             resolvers == FlattenSeq(params.resolvers \o config.resolvers)
             wanted == {1, 51, 53, 54}
                          \cup {o \in {3} : router # NoAddress}
                          \cup {o \in {6} : resolvers # <<>>}
                          \cup {o \in {82} : Relayed(packet)}
             Value(o) == CASE o = 1  -> params.netmask
                           [] o = 3  -> router
                           [] o = 6  -> resolvers
                           [] o = 51 -> config.leaseTime
                           [] o = 53 -> IF packet.type = "DISCOVER" THEN <<2>> ELSE <<5>>
                           [] o = 54 -> config.serverIp
                           [] o = 82 -> packet.relay
  <1>1. ReplyOptions(packet, params, config) = [o \in wanted |-> Value(o)]
    BY DEF ReplyOptions
  <1> HIDE DEF router, resolvers
  <1>2. (3 \in wanted <=> router # NoAddress) /\ (82 \in wanted <=> Relayed(packet))
    OBVIOUS
  <1>3. Value(3) = router /\ Value(82) = packet.relay
    OBVIOUS
  <1> HIDE DEF wanted, Value
  <1>4. LET options == ReplyOptions(packet, params, config)
        IN /\ 82 \in DOMAIN options <=> Relayed(packet)
           /\ Relayed(packet) => options[82] = packet.relay
           /\ 3 \in DOMAIN options <=> router # NoAddress
           /\ router # NoAddress => options[3] = router
    BY <1>1, <1>2, <1>3
  <1> QED BY <1>4 DEF router

\* The routes through which booter is reached before the loop meets a host.
ToBooter(routes) ==
    {i \in DOMAIN routes :
        /\ routes[i].dest \in ToServer
        /\ {r.dest : r \in ToSet(SubSeq(routes, 1, i - 1))} \cap Hosts = {}}

(* The loop ends at the first of them, if there is one.                    *)
LEMMA ToBooterIs ==
    ASSUME NEW R, NEW routes \in Seq(R), NEW e, EndOf(routes, e), ToServer \cap Hosts = {}
    PROVE  IF ToBooter(routes) = {}
           THEN e = 0 \/ routes[e].dest \in Hosts
           ELSE e # 0 /\ routes[e].dest \notin Hosts /\ e = Min(ToBooter(routes))
  <1> DEFINE n == Len(routes)
             Before(i) == ToSet(SubSeq(routes, 1, i - 1))
  <1>1. n \in Nat /\ DOMAIN routes = 1..n
    OBVIOUS
  <1>2. ASSUME NEW i \in 1..n
        PROVE  Before(i) = {routes[j] : j \in 1..(i - 1)}
    <2>1. /\ Len(SubSeq(routes, 1, i - 1)) = i - 1
          /\ DOMAIN SubSeq(routes, 1, i - 1) = 1..(i - 1)
          /\ \A j \in 1..(i - 1) : SubSeq(routes, 1, i - 1)[j] = routes[j]
      BY <1>1
    <2> QED BY <2>1 DEF ToSet
  <1> HIDE DEF Before
  <1>3. ASSUME NEW i \in ToBooter(routes)
        PROVE  e # 0 /\ e <= i /\ routes[e].dest \notin Hosts /\ e \in 1..n
    <2>1. /\ i \in 1..n /\ routes[i].dest \in ToServer
          /\ {r.dest : r \in Before(i)} \cap Hosts = {}
      BY <1>1 DEF ToBooter, Before
    <2>2. e # 0 /\ e \in 1..n
      BY <1>1, <2>1 DEF EndOf
    <2>3. e <= i
      BY <1>1, <2>1, <2>2 DEF EndOf
    <2>4. CASE e = i
      BY <2>1, <2>2, <2>4
    <2>5. CASE e < i
      <3>1. e \in 1..(i - 1)
        BY <1>1, <2>1, <2>2, <2>5
      <3> QED BY <1>2, <2>1, <2>2, <2>3, <3>1
    <2> QED BY <1>1, <2>1, <2>2, <2>3, <2>4, <2>5
  <1>4. ASSUME e # 0, routes[e].dest \notin Hosts
        PROVE  e \in ToBooter(routes)
    <2>1. /\ e \in 1..n /\ routes[e].dest \in ToServer
          /\ \A j \in 1..(e - 1) : routes[j].dest \notin Hosts
      BY <1>1, <1>4 DEF EndOf
    <2>2. {r.dest : r \in Before(e)} \cap Hosts = {}
      BY <1>2, <2>1
    <2> QED BY <1>1, <2>1, <2>2 DEF ToBooter, Before
  <1>5. CASE ToBooter(routes) = {}
    BY <1>4, <1>5
  <1>6. CASE ToBooter(routes) # {}
    <2> DEFINE T == ToBooter(routes)
    <2>1. e # 0 /\ routes[e].dest \notin Hosts /\ e \in T
      BY <1>3, <1>4, <1>6
    <2>2. T \subseteq 1..n
      BY <1>1 DEF ToBooter
    <2>3. \A i \in T : e <= i
      BY <1>3
    <2> HIDE DEF T, n
    <2>4. Min(T) \in T /\ \A i \in T : Min(T) <= i
      BY <1>1, <2>1, <2>2, MinOfIndices
    <2>5. Min(T) \in 1..n /\ e \in 1..n
      BY <2>1, <2>2, <2>4
    <2>6. e <= Min(T) /\ Min(T) <= e
      BY <2>1, <2>3, <2>4
    <2>7. e = Min(T)
      BY <1>1, <2>5, <2>6
    <2> QED BY <1>6, <2>1, <2>7 DEF T
  <1> QED BY <1>5, <1>6

(* A reply goes back the way the packet came: without a relay to everyone, *)
(* without option 82 and with booter's router; behind one to the relay,    *)
(* with its option 82 and the gateway of the CN's network or of its first  *)
(* route to booter, which is 0.0.0.0, or missing because booter ended,     *)
(* only where the network has neither.                                     *)
THEOREM RepliesRetrace == Spec => []ReplyRetracesRequest
  <1>1. GivenInv => ReplyRetracesRequest
    <2> SUFFICES ASSUME NEW x \in Exchanges,
                        (x.packet.relay # NoOption) = (x.packet.giaddr # NoAddress)
                 PROVE  LET packet == x.packet
                            params == x.params
                            config == x.config
                            reply  == Reply(packet, params, config)
                            options == reply.options
                            routes == IF params.routes = NoRoutes THEN <<>> ELSE params.routes
                        IN IF packet.giaddr = NoAddress
                           THEN /\ reply.to = "broadcast"
                                /\ 82 \notin DOMAIN options
                                /\ 3 \in DOMAIN options => options[3] = config.defaultGateway
                           ELSE \/ /\ Throws(packet, params) /\ params.gateway = NoAddress
                                   /\ ToBooter(routes) = {}
                                \/ /\ reply.to = "relay"
                                   /\ options[82] = packet.relay
                                   /\ CASE params.gateway # NoAddress -> options[3] = params.gateway
                                        [] params.gateway = NoAddress /\ ToBooter(routes) # {} ->
                                              options[3] = routes[Min(ToBooter(routes))].via
                                        [] OTHER -> options[3] = <<0, 0, 0, 0>>
      BY GivenPacket DEF ReplyRetracesRequest, ToBooter
    <2> DEFINE packet == x.packet
               params == x.params
               config == x.config
               options == ReplyOptions(packet, params, config)
               router == Router(packet, params, config)
               routes == IF params.routes = NoRoutes THEN <<>> ELSE params.routes
               e == LoopEnd(params.routes)
               T == ToBooter(routes)
    <2>1. Relayed(packet) <=> packet.giaddr # NoAddress
      BY DEF Relayed
    <2>2. /\ 82 \in DOMAIN options <=> Relayed(packet)
          /\ Relayed(packet) => options[82] = packet.relay
          /\ 3 \in DOMAIN options <=> router # NoAddress
          /\ router # NoAddress => options[3] = router
      BY WayOptions
    <2>3. /\ Reply(packet, params, config).options = options
          /\ Reply(packet, params, config).to =
                IF packet.relay # NoOption THEN "relay" ELSE "broadcast"
      BY DEF Reply
    <2>4. CASE packet.giaddr = NoAddress
      <3>1. router = config.defaultGateway
        BY <2>1, <2>4 DEF Router
      <3> HIDE DEF options, router
      <3> QED BY <2>1, <2>2, <2>3, <2>4, <3>1
    <2>5. CASE packet.giaddr # NoAddress /\ params.gateway # NoAddress
      <3>1. router = params.gateway
        BY <2>1, <2>5 DEF Router
      <3> HIDE DEF options, router, T, routes
      <3> QED BY <2>1, <2>2, <2>3, <2>5, <3>1
    <2>6. CASE /\ packet.giaddr # NoAddress /\ params.gateway = NoAddress
               /\ params.routes = NoRoutes
      <3>1. Throws(packet, params)
        BY <2>1, <2>6 DEF Throws
      <3>2. T = {}
        BY <2>6 DEF ToBooter
      <3> HIDE DEF options, router, packet, params
      <3> QED BY <2>6, <3>1, <3>2 DEF packet, params
    <2>7. CASE /\ packet.giaddr # NoAddress /\ params.gateway = NoAddress
               /\ params.routes # NoRoutes
      <3>1. /\ routes = params.routes /\ routes \in Seq(ToSet(routes))
            /\ \A r \in ToSet(routes) : r.via # NoAddress
            /\ ToServer \cap Hosts = {} /\ <<0, 0, 0, 0>> # NoAddress
        BY <2>7, ExchangesAssumption, ZeroAddress
      <3> HIDE DEF routes
      <3>2. EndOf(routes, e)
        BY <3>1, LoopEnds
      <3>3. IF T = {} THEN e = 0 \/ routes[e].dest \in Hosts
            ELSE e # 0 /\ routes[e].dest \notin Hosts /\ e = Min(T)
        <4> HIDE DEF e
        <4> QED BY <3>1, <3>2, ToBooterIs
      <3>4. router = IF e = 0 THEN <<0, 0, 0, 0>> ELSE routes[e].via
        BY <2>1, <2>7, <3>1 DEF Router, FindRouteToBooter
      <3>5. e # 0 => e \in DOMAIN routes
        <4> HIDE DEF e
        <4> QED BY <3>2 DEF EndOf
      <3>6. e # 0 => routes[e] \in ToSet(routes)
        BY <3>1, <3>5 DEF ToSet
      <3>7. router # NoAddress
        BY <3>1, <3>4, <3>6
      <3>8. e # 0 /\ routes[e].dest \in Hosts => Throws(packet, params)
        BY <2>1, <2>7, <3>1 DEF Throws
      <3> HIDE DEF options, router, e, T
      <3>9. options[3] = router /\ options[82] = packet.relay
        BY <2>1, <2>2, <2>7, <3>7
      <3>10. CASE T # {}
        BY <2>1, <2>3, <2>7, <3>3, <3>4, <3>9, <3>10 DEF T, routes, Relayed
      <3>11. CASE T = {} /\ e = 0
        BY <2>1, <2>3, <2>7, <3>3, <3>4, <3>9, <3>11 DEF T, routes, Relayed
      <3>12. CASE T = {} /\ e # 0
        BY <2>1, <2>7, <3>3, <3>8, <3>12 DEF T, routes
      <3> QED BY <3>10, <3>11, <3>12
    <2> QED BY <2>4, <2>5, <2>6, <2>7
  <1> QED BY <1>1, GivenInputs, PTL

-------------------------------------------------------------------------------
(* The circuit-id.                                                         *)

(* Bytes are numbers.                                                      *)
LEMMA Bytes == \A b \in Byte : b \in Nat
  BY DEF Byte

Lesser(a, b)  == Min({a, b})
Greater(a, b) == Max({a, b})

(* The least and the greatest of two numbers.                              *)
LEMMA OfTwo ==
    ASSUME NEW a \in Int, NEW b \in Int
    PROVE  /\ Lesser(a, b) = IF a <= b THEN a ELSE b
           /\ Greater(a, b) = IF a <= b THEN b ELSE a
  <1>1. Min({a, b}) = IF a <= b THEN a ELSE b
    <2>1. \E x \in {a, b} : \A y \in {a, b} : x <= y
      OBVIOUS
    <2>2. Min({a, b}) \in {a, b} /\ \A y \in {a, b} : Min({a, b}) <= y
      BY <2>1 DEF Min
    <2> QED BY <2>2
  <1>2. Max({a, b}) = IF a <= b THEN b ELSE a
    <2>1. \E x \in {a, b} : \A y \in {a, b} : x >= y
      OBVIOUS
    <2>2. Max({a, b}) \in {a, b} /\ \A y \in {a, b} : Max({a, b}) >= y
      BY <2>1 DEF Max
    <2> QED BY <2>2
  <1> QED BY <1>1, <1>2 DEF Lesser, Greater

(* Where the sub-options of an option 82 begin.                            *)
LEMMA StartsOf ==
    ASSUME NEW subopts \in Seq([id : Byte, data : Seq(Byte)])
    PROVE  LET start == Starts(subopts)
               n == Len(subopts)
           IN /\ start[1] = 1
              /\ \A k \in 1..(n + 1) : start[k] \in Nat \ {0}
              /\ \A k \in 1..n : start[k + 1] = start[k] + 2 + Len(subopts[k].data)
  <1> DEFINE n == Len(subopts)
             size(i) == Len(subopts[i].data)
             step == [i \in 1..n |-> [r \in Nat |-> r + 2 + size(i)]]
             prev == [i \in 1..n |-> i - 1]
             Body(g, k) == IF k = 1 THEN 1 ELSE g[k - 1] + 2 + size(k - 1)
             start == CHOOSE g : g = [k \in 1..(n + 1) |-> Body(g, k)]
  <1>1. n \in Nat
    OBVIOUS
  <1>2. \A i \in 1..n : size(i) \in Nat
    OBVIOUS
  <1>3. Starts(subopts) = start
    BY DEF Starts
  <1> HIDE DEF n, size
  <1>4. step \in [1..n -> [Nat -> Nat]]
    <2>1. \A i \in 1..n : \A r \in Nat : r + 2 + size(i) \in Nat
      BY <1>2
    <2> QED BY <2>1
  <1>5. PICK f : Recurs(f, n, Nat, 1, step, prev)
    <2>1. StepsDown(prev, n)
      BY <1>1 DEF StepsDown
    <2> HIDE DEF step, prev
    <2>2. 1 \in Nat
      OBVIOUS
    <2> QED BY <1>1, <1>4, <2>1, <2>2, Recursion
  <1>6. start = [k \in 1..(n + 1) |-> Body(start, k)]
    <2> DEFINE g == [k \in 1..(n + 1) |-> f[k - 1]]
    <2>1. ASSUME NEW k \in 1..(n + 1) PROVE g[k] = Body(g, k)
      <3>1. CASE k = 1
        BY <1>1, <1>5, <3>1 DEF Recurs
      <3>2. CASE k # 1
        <4>1. k - 1 \in 1..n /\ k - 1 \in 1..(n + 1) /\ k - 2 \in 0..n /\ (k - 1) - 1 = k - 2
          BY <1>1, <3>2
        <4>2. f[k - 1] = f[k - 2] + 2 + size(k - 1)
          BY <1>5, <4>1 DEF Recurs
        <4> QED BY <3>2, <4>1, <4>2
      <3> QED BY <3>1, <3>2
    <2> HIDE DEF Body
    <2>2. g = [k \in 1..(n + 1) |-> Body(g, k)]
      BY <2>1
    <2> QED BY <2>2
  <1> HIDE DEF start
  <1>7. start[1] = 1
    BY <1>1, <1>6
  <1>8. ASSUME NEW k \in 1..n
        PROVE  start[k + 1] = start[k] + 2 + size(k)
    <2>1. k + 1 \in 1..(n + 1) /\ k + 1 # 1 /\ (k + 1) - 1 = k
      BY <1>1
    <2> QED BY <1>6, <2>1
  <1>9. \A k \in 1..(n + 1) : start[k] \in Nat \ {0}
    <2> DEFINE T == {k \in 0..n : start[k + 1] \in Nat \ {0}}
    <2>1. 0 \in T
      BY <1>1, <1>7
    <2>2. ASSUME NEW k \in 1..n, k - 1 \in T PROVE k \in T
      <3>1. (k - 1) + 1 = k /\ k \in 0..n
        BY <1>1
      <3>2. start[k] \in Nat \ {0}
        BY <2>2, <3>1
      <3>3. size(k) \in Nat
        BY <1>2
      <3>4. start[k + 1] = start[k] + 2 + size(k)
        BY <1>8
      <3>5. start[k + 1] \in Nat \ {0}
        BY <3>2, <3>3, <3>4
      <3> QED BY <3>1, <3>5
    <2>3. 0..n \subseteq T
      <3> HIDE DEF T
      <3> QED BY <1>1, <2>1, <2>2, UpTo
    <2>4. ASSUME NEW k \in 1..(n + 1) PROVE start[k] \in Nat \ {0}
      <3>1. k - 1 \in 0..n /\ (k - 1) + 1 = k
        BY <1>1
      <3> QED BY <2>3, <3>1
    <2> QED BY <2>4
  <1> QED BY <1>3, <1>7, <1>8, <1>9 DEF n, size

\* The byte after i, and the data that it is the length of.
LengthAt(relay, i) == IF i < Len(relay) THEN relay[i + 1] ELSE 0
DataAt(relay, i) ==
    SubSeq(relay, i + 2, Lesser(i + 1 + LengthAt(relay, i), Len(relay)))
NextAt(relay, i) == Lesser(i + 2 + LengthAt(relay, i), Len(relay) + 1)

(* What comes next in a string of bytes comes later.                       *)
LEMMA NextIs ==
    ASSUME NEW relay \in Seq(Byte), NEW i \in 1..Len(relay)
    PROVE  LengthAt(relay, i) \in Nat /\ NextAt(relay, i) \in (i + 1)..(Len(relay) + 1)
  <1> DEFINE end == Len(relay)
             len == LengthAt(relay, i)
  <1>1. end \in Nat
    OBVIOUS
  <1>2. i + 1 <= end => relay[i + 1] \in Nat
    <2>1. i + 1 <= end => relay[i + 1] \in Byte
      OBVIOUS
    <2> QED BY <2>1, Bytes
  <1> HIDE DEF end
  <1>3. len \in Nat
    BY <1>1, <1>2 DEF LengthAt, end
  <1>4. NextAt(relay, i) = Lesser(i + 2 + len, end + 1)
    BY DEF NextAt, end
  <1> HIDE DEF len
  <1>5. /\ i \in 1..end /\ i + 2 + len \in Int /\ end + 1 \in Int
        /\ i + 2 + len > i + 1
    BY <1>1, <1>3 DEF end
  <1>6. NextAt(relay, i) = IF i + 2 + len <= end + 1 THEN i + 2 + len ELSE end + 1
    BY <1>4, <1>5, OfTwo
  <1>7. NextAt(relay, i) \in (i + 1)..(end + 1)
    BY <1>1, <1>5, <1>6
  <1> QED BY <1>3, <1>7 DEF end, len

(* The loop over option 82, from each place on.                            *)
LEMMA CircuitLoop ==
    ASSUME NEW relay \in Seq(Byte)
    PROVE  \E after : /\ after[1] = CircuitId(relay) /\ after[Len(relay) + 1] = NoTag
                      /\ \A i \in 1..Len(relay) :
                            LET rest == after[NextAt(relay, i)]
                            IN after[i] = IF rest # NoTag THEN rest
                                          ELSE IF relay[i] = 1 THEN DataAt(relay, i) ELSE NoTag
  <1> DEFINE end == Len(relay)
             len(i) == IF i < end THEN relay[i + 1] ELSE 0
             next(i) == Lesser(i + 2 + len(i), end + 1)
             data(i) == SubSeq(relay, i + 2, Lesser(i + 1 + len(i), end))
             Body(g, i) ==
                IF i > end THEN NoTag
                ELSE CASE g[next(i)] # NoTag -> g[next(i)]
                       [] relay[i] = 1 /\ g[next(i)] = NoTag -> data(i)
                       [] OTHER -> NoTag
             after == CHOOSE g : g = [i \in 1..(end + 1) |-> Body(g, i)]
             S == {NoTag} \cup {data(i) : i \in 1..end}
             Take(r, i) == IF r # NoTag THEN r ELSE IF relay[i] = 1 THEN data(i) ELSE NoTag
             step == [i \in 1..end |-> [r \in S |-> Take(r, i)]]
             nexts == [i \in 1..end |-> next(i)]
  <1>1. end \in Nat /\ \A i \in 1..end : relay[i] \in Nat
    <2>1. end \in Nat
      OBVIOUS
    <2>2. ASSUME NEW i \in 1..end PROVE relay[i] \in Nat
      <3>1. relay[i] \in Byte
        OBVIOUS
      <3> QED BY <3>1, Bytes
    <2> QED BY <2>1, <2>2
  <1>2. CircuitId(relay) = after[1]
    BY DEF CircuitId, Lesser
  <1>3. \A i \in 1..end : len(i) = LengthAt(relay, i) /\ next(i) = NextAt(relay, i)
                          /\ data(i) = DataAt(relay, i)
    BY DEF LengthAt, NextAt, DataAt
  <1> HIDE DEF end
  <1>4. \A i \in 1..end : next(i) \in (i + 1)..(end + 1)
    BY <1>3, NextIs DEF end
  <1> HIDE DEF len
  <1> HIDE DEF next, data
  <1>5. step \in [1..end -> [S -> S]]
    <2>1. ASSUME NEW i \in 1..end, NEW r \in S PROVE Take(r, i) \in S
      OBVIOUS
    <2> HIDE DEF S, Take
    <2> QED BY <2>1
  <1>6. StepsUp(nexts, end)
    <2>1. \A i \in 1..end : next(i) \in 2..(end + 1) /\ i < next(i)
      BY <1>1, <1>4
    <2> QED BY <2>1 DEF StepsUp
  <1>7. NoTag \in S
    OBVIOUS
  <1>8. PICK g : RecursDown(g, end, S, NoTag, step, nexts)
    <2> HIDE DEF step, nexts, S
    <2> QED BY <1>1, <1>5, <1>6, <1>7, RecursionDown
  <1>9. g[end + 1] = NoTag /\ g = [i \in 1..(end + 1) |-> g[i]]
    BY <1>8 DEF RecursDown
  <1>10. ASSUME NEW i \in 1..end PROVE g[i] = Take(g[next(i)], i)
    <2>1. nexts[i] = next(i) /\ next(i) \in 1..(end + 1)
      BY <1>1, <1>4
    <2>2. g[i] = step[i][g[next(i)]]
      <3> HIDE DEF step, nexts
      <3> QED BY <1>8, <2>1 DEF RecursDown
    <2>3. g[next(i)] \in S
      BY <1>8, <2>1 DEF RecursDown
    <2> HIDE DEF S, Take
    <2> QED BY <2>2, <2>3
  <1>11. \A h, i : i \in 1..end => Body(h, i) = Take(h[next(i)], i)
    <2> SUFFICES ASSUME NEW h, NEW i \in 1..end PROVE Body(h, i) = Take(h[next(i)], i)
      OBVIOUS
    <2>1. ~ (i > end)
      BY <1>1
    <2> QED BY <2>1
  <1>12. \A h : Body(h, end + 1) = NoTag
    BY <1>1
  <1>13. \A i \in 1..(end + 1) : i \in 1..end \/ i = end + 1
    BY <1>1
  <1> HIDE DEF Body, Take
  <1>14. after = [i \in 1..(end + 1) |-> Body(after, i)]
    <2>1. g = [i \in 1..(end + 1) |-> Body(g, i)]
      <3>1. \A i \in 1..(end + 1) : g[i] = Body(g, i)
        BY <1>9, <1>10, <1>11, <1>12, <1>13
      <3> QED BY <1>9, <3>1
    <2> QED BY <2>1
  <1> HIDE DEF after
  <1>15. /\ after[end + 1] = NoTag
         /\ \A i \in 1..end : after[i] = Take(after[next(i)], i)
    <2>1. end + 1 \in 1..(end + 1) /\ \A i \in 1..end : i \in 1..(end + 1)
      BY <1>1
    <2> QED BY <1>11, <1>12, <1>14, <2>1
  <1>16. /\ after[1] = CircuitId(relay) /\ after[end + 1] = NoTag
         /\ \A i \in 1..end :
               LET rest == after[NextAt(relay, i)]
               IN after[i] = IF rest # NoTag THEN rest
                             ELSE IF relay[i] = 1 THEN DataAt(relay, i) ELSE NoTag
    BY <1>2, <1>3, <1>15 DEF Take
  <1> QED BY <1>16 DEF end

(* A sequence has members.                                                 *)
LEMMA MemberAt ==
    ASSUME NEW S, NEW p \in Seq(S), NEW k \in 1..Len(p)
    PROVE  p[k] \in S
  OBVIOUS

(* Slices of two sequences that agree there are the same.                  *)
LEMMA SameSlice ==
    ASSUME NEW S, NEW p \in Seq(S), NEW q \in Seq(S), NEW a \in Nat, NEW m \in Nat,
           m <= Len(p), a + m <= Len(q), \A i \in 1..m : q[a + i] = p[i]
    PROVE  SubSeq(q, a + 1, a + m) = SubSeq(p, 1, m)
  <1> DEFINE u == SubSeq(q, a + 1, a + m)
             v == SubSeq(p, 1, m)
  <1>1. u \in Seq(S) /\ Len(u) = m /\ \A i \in 1..m : u[i] = q[a + i]
    OBVIOUS
  <1>2. v \in Seq(S) /\ Len(v) = m /\ \A i \in 1..m : v[i] = p[i]
    OBVIOUS
  <1> HIDE DEF u, v
  <1>3. \A i \in 1..m : u[i] = v[i]
    BY <1>1, <1>2
  <1>4. u = v
    BY <1>1, <1>2, <1>3
  <1> QED BY <1>4 DEF u, v

(* A slice that ends before it begins is empty.                            *)
LEMMA NoSlice ==
    ASSUME NEW S, NEW p \in Seq(S), NEW i \in Nat \ {0}, NEW j \in Nat, j < i
    PROVE  SubSeq(p, i, j) = <<>>
  OBVIOUS

\* The data of the sub-option k, as far as it has been received.
GotOf(relay, subopts, k) ==
    SubSeq(subopts[k].data, 1,
           Lesser(Len(subopts[k].data), Greater(0, Len(relay) - (Starts(subopts)[k] + 1))))

(* What the loop reads at the start of a sub-option.                       *)
LEMMA SubOptionAt ==
    ASSUME NEW subopts \in Seq([id : Byte, data : Seq(Byte)]), NEW relay \in Seq(Byte),
           MadeOf(relay, subopts), NEW k \in 1..Len(subopts),
           Starts(subopts)[k] <= Len(relay)
    PROVE  LET i == Starts(subopts)[k]
               next == Starts(subopts)[k + 1]
               end == Len(relay)
           IN /\ relay[i] = subopts[k].id
              /\ DataAt(relay, i) = GotOf(relay, subopts, k)
              /\ NextAt(relay, i) = IF next <= end + 1 THEN next ELSE end + 1
  <1> DEFINE i == Starts(subopts)[k]
             next == Starts(subopts)[k + 1]
             end == Len(relay)
             data == subopts[k].data
             m == Len(data)
             got == Lesser(m, Greater(0, end - (i + 1)))
  <1>1. i \in Nat \ {0} /\ next = i + 2 + m
    <2>1. k \in 1..(Len(subopts) + 1)
      OBVIOUS
    <2> QED BY <2>1, StartsOf
  <1>2. data \in Seq(Byte) /\ m \in Nat /\ end \in Nat /\ i <= end
    <2>1. subopts[k] \in [id : Byte, data : Seq(Byte)]
      BY MemberAt
    <2>2. data \in Seq(Byte)
      BY <2>1
    <2>3. m \in Nat
      BY <2>2
    <2> QED BY <2>2, <2>3
  <1>3. /\ relay[i] = subopts[k].id
        /\ i + 1 <= end => relay[i + 1] = m
        /\ \A j \in 1..m : i + 1 + j <= end => relay[i + 1 + j] = data[j]
    <2>1. k \in DOMAIN subopts /\ DOMAIN data = 1..m
      OBVIOUS
    <2> QED BY <1>2, <2>1 DEF MadeOf
  <1>4. GotOf(relay, subopts, k) = SubSeq(data, 1, got)
    BY DEF GotOf
  <1> HIDE DEF i, next, data, m
  <1>5. CASE i = end
    <2>1. LengthAt(relay, i) = 0
      BY <1>5 DEF LengthAt
    <2>2. NextAt(relay, i) = end + 1
      <3>1. Lesser(i + 2 + 0, end + 1) = end + 1
        BY <1>2, <1>5, OfTwo
      <3> QED BY <2>1, <3>1 DEF NextAt
    <2>3. next > end + 1
      BY <1>1, <1>2, <1>5
    <2>4. DataAt(relay, i) = <<>>
      <3>1. Lesser(i + 1 + 0, end) = end
        BY <1>2, <1>5, OfTwo
      <3>2. i + 2 \in Nat \ {0} /\ end < i + 2
        BY <1>1, <1>2, <1>5
      <3>3. SubSeq(relay, i + 2, end) = <<>>
        BY <1>2, <3>2, NoSlice
      <3> QED BY <2>1, <3>1, <3>3 DEF DataAt
    <2>5. got = 0
      <3>1. end - (i + 1) \in Int /\ end - (i + 1) = -1
        BY <1>1, <1>2, <1>5
      <3>2. Greater(0, end - (i + 1)) = 0
        BY <3>1, OfTwo
      <3> QED BY <1>2, <3>2, OfTwo
    <2>6. SubSeq(data, 1, got) = <<>>
      BY <1>2, <2>5, NoSlice
    <2>7. NextAt(relay, i) = IF next <= end + 1 THEN next ELSE end + 1
      BY <1>1, <1>2, <2>2, <2>3
    <2>8. DataAt(relay, i) = GotOf(relay, subopts, k)
      BY <1>4, <2>4, <2>6
    <2> QED BY <1>3, <2>7, <2>8 DEF i, next
  <1>6. CASE i < end
    <2>1. LengthAt(relay, i) = m
      BY <1>1, <1>2, <1>3, <1>6 DEF LengthAt
    <2>2. NextAt(relay, i) = IF next <= end + 1 THEN next ELSE end + 1
      <3>1. Lesser(i + 2 + m, end + 1) = IF i + 2 + m <= end + 1 THEN i + 2 + m ELSE end + 1
        BY <1>1, <1>2, OfTwo
      <3> QED BY <1>1, <2>1, <3>1 DEF NextAt
    <2>3. Greater(0, end - (i + 1)) = end - (i + 1) /\ end - (i + 1) \in Nat
      <3>1. end - (i + 1) \in Nat
        BY <1>1, <1>2, <1>6
      <3> QED BY <3>1, OfTwo
    <2>4. got = IF m <= end - (i + 1) THEN m ELSE end - (i + 1)
      BY <1>2, <2>3, OfTwo
    <2>5. Lesser(i + 1 + m, end) = IF i + 1 + m <= end THEN i + 1 + m ELSE end
      BY <1>1, <1>2, OfTwo
    <2> HIDE DEF got, end
    <2>6. /\ got \in Nat /\ got <= m /\ (i + 1) + got <= end /\ i + 1 \in Nat
          /\ Lesser(i + 1 + m, end) = (i + 1) + got
      <3>1. CASE m <= end - (i + 1)
        <4>1. got = m /\ i + 1 + m <= end
          BY <1>1, <1>2, <2>4, <3>1
        <4> QED BY <1>1, <1>2, <2>5, <4>1
      <3>2. CASE ~ (m <= end - (i + 1))
        <4>1. got = end - (i + 1) /\ ~ (i + 1 + m <= end)
          BY <1>1, <1>2, <2>4, <3>2
        <4> QED BY <1>1, <1>2, <2>3, <2>5, <3>2, <4>1
      <3> QED BY <3>1, <3>2
    <2>7. ASSUME NEW j \in 1..got PROVE relay[(i + 1) + j] = data[j]
      <3>1. j \in 1..m /\ i + 1 + j <= end
        BY <1>1, <1>2, <2>6
      <3> QED BY <1>3, <3>1
    <2>8. SubSeq(relay, (i + 1) + 1, (i + 1) + got) = SubSeq(data, 1, got)
      BY <1>2, <2>6, <2>7, SameSlice DEF m, end
    <2>9. (i + 1) + 1 = i + 2
      BY <1>1
    <2>10. DataAt(relay, i) = GotOf(relay, subopts, k)
      BY <1>4, <2>1, <2>6, <2>8, <2>9 DEF DataAt, end
    <2> QED BY <1>3, <2>2, <2>10 DEF i, next, end
  <1> QED BY <1>1, <1>2, <1>5, <1>6

\* v is the data of the last circuit-id from the sub-option k on, or NoTag.
Found(relay, subopts, k, v) ==
    LET ones == {j \in k..Len(subopts) :
                    subopts[j].id = 1 /\ Starts(subopts)[j] <= Len(relay)}
    IN IF ones = {} THEN v = NoTag
       ELSE \E j \in ones : (\A i \in ones : i <= j) /\ v = GotOf(relay, subopts, j)

(* If a sub-option of an exchange is received at all, its data is no NoTag.*)
LEMMA GotNoNoTag ==
    ASSUME NEW x \in Exchanges, x.packet.relay # NoOption, NEW k \in 1..Len(x.subopts)
    PROVE  GotOf(x.packet.relay, x.subopts, k) # NoTag
  <1> DEFINE relay == x.packet.relay
             subopts == x.subopts
             m == Len(subopts[k].data)
             rest == Len(relay) - (Starts(subopts)[k] + 1)
  <1>1. /\ subopts \in Seq([id : Byte, data : Seq(Byte)])
        /\ \A sub \in ToSet(subopts) : \A j \in 0..Len(sub.data) : SubSeq(sub.data, 1, j) # NoTag
        /\ relay \in Seq(Byte)
    BY ExchangesAssumption DEF MadeOf
  <1>2. subopts[k] \in ToSet(subopts) /\ m \in Nat /\ Len(relay) \in Nat
    BY <1>1 DEF ToSet
  <1>3. Starts(subopts)[k] \in Nat
    <2>1. k \in 1..(Len(subopts) + 1)
      BY <1>1
    <2> QED BY <1>1, <2>1, StartsOf
  <1>4. rest \in Int
    BY <1>2, <1>3
  <1> HIDE DEF rest
  <1>5. Greater(0, rest) \in Nat
    BY <1>4, OfTwo
  <1>6. Lesser(m, Greater(0, rest)) \in 0..m
    BY <1>2, <1>5, OfTwo
  <1>7. SubSeq(subopts[k].data, 1, Lesser(m, Greater(0, rest))) # NoTag
    BY <1>1, <1>2, <1>6
  <1> QED BY <1>7 DEF GotOf, rest

(* The loop over the option 82 of an exchange finds its circuit-id.        *)
LEMMA CircuitFound ==
    ASSUME NEW x \in Exchanges, x.packet.relay # NoOption
    PROVE  Found(x.packet.relay, x.subopts, 1, CircuitId(x.packet.relay))
  <1> DEFINE relay == x.packet.relay
             subopts == x.subopts
             n == Len(subopts)
             end == Len(relay)
             start == Starts(subopts)
  <1>1. /\ subopts \in Seq([id : Byte, data : Seq(Byte)]) /\ relay \in Seq(Byte)
        /\ MadeOf(relay, subopts)
    BY ExchangesAssumption DEF MadeOf
  <1>2. n \in Nat /\ end \in Nat
    BY <1>1
  <1>3. /\ start[1] = 1 /\ \A k \in 1..(n + 1) : start[k] \in Nat \ {0}
        /\ \A k \in 1..n : start[k + 1] = start[k] + 2 + Len(subopts[k].data)
    BY <1>1, StartsOf
  <1>4. \A k \in 1..n : Len(subopts[k].data) \in Nat
    <2> SUFFICES ASSUME NEW k \in 1..n PROVE Len(subopts[k].data) \in Nat
      OBVIOUS
    <2>1. subopts[k] \in [id : Byte, data : Seq(Byte)]
      BY <1>1, MemberAt
    <2>2. subopts[k].data \in Seq(Byte)
      BY <2>1
    <2> QED BY <2>2
  <1>5. end < start[n + 1]
    BY <1>1 DEF MadeOf
  <1>6. PICK after : /\ after[1] = CircuitId(relay) /\ after[end + 1] = NoTag
                     /\ \A i \in 1..end :
                           LET rest == after[NextAt(relay, i)]
                           IN after[i] = IF rest # NoTag THEN rest
                                         ELSE IF relay[i] = 1 THEN DataAt(relay, i) ELSE NoTag
    BY <1>1, CircuitLoop
  <1>7. \A k \in 1..n : GotOf(relay, subopts, k) # NoTag
    BY GotNoNoTag
  <1>8. \A k \in 1..n : start[k] <= end =>
           /\ relay[start[k]] = subopts[k].id
           /\ DataAt(relay, start[k]) = GotOf(relay, subopts, k)
           /\ NextAt(relay, start[k]) = IF start[k + 1] <= end + 1 THEN start[k + 1] ELSE end + 1
    BY <1>1, SubOptionAt
  <1> DEFINE Ones(k) == {j \in k..n : subopts[j].id = 1 /\ start[j] <= end}
             LastOf(k, v) == IF Ones(k) = {} THEN v = NoTag
                           ELSE \E j \in Ones(k) : /\ \A i \in Ones(k) : i <= j
                                                   /\ v = GotOf(relay, subopts, j)
             At(k) == IF start[k] <= end + 1 THEN after[start[k]] ELSE NoTag
  <1>9. \A k, v : LastOf(k, v) <=> Found(relay, subopts, k, v)
    BY DEF Found
  <1> HIDE DEF n, end, start, relay, subopts
  <1>10. LastOf(n + 1, At(n + 1))
    <2>1. Ones(n + 1) = {}
      BY <1>2
    <2>2. start[n + 1] \in Nat
      BY <1>2, <1>3
    <2>3. start[n + 1] <= end + 1 => start[n + 1] = end + 1
      BY <1>2, <1>5, <2>2
    <2>4. At(n + 1) = NoTag
      BY <1>6, <2>3
    <2> QED BY <2>1, <2>4
  <1>11. ASSUME NEW k \in 1..n, LastOf(k + 1, At(k + 1)) PROVE LastOf(k, At(k))
    <2>1. /\ start[k] \in Nat \ {0} /\ start[k + 1] \in Nat \ {0}
          /\ start[k + 1] > start[k] + 1
      <3>1. k \in 1..(n + 1) /\ k + 1 \in 1..(n + 1)
        BY <1>2
      <3> QED BY <1>3, <1>4, <3>1
    <2>2. At(k + 1) = NoTag <=> Ones(k + 1) = {}
      <3>1. \A j \in Ones(k + 1) : j \in 1..n
        BY <1>2
      <3> QED BY <1>7, <1>11, <3>1
    <2>3. Ones(k) = Ones(k + 1) \cup {j \in {k} : subopts[k].id = 1 /\ start[k] <= end}
      <3>1. k..n = {k} \cup ((k + 1)..n)
        BY <1>2
      <3> QED BY <3>1
    <2>4. \A j \in Ones(k + 1) : j > k
      BY <1>2
    <2> HIDE DEF Ones
    <2>5. CASE start[k] > end
      <3>1. start[k + 1] > end + 1
        BY <1>2, <2>1, <2>5
      <3>2. At(k + 1) = NoTag
        BY <1>2, <2>1, <3>1
      <3>3. Ones(k) = {}
        BY <1>2, <2>1, <2>2, <2>3, <2>5, <3>2
      <3>4. At(k) = NoTag
        <4>1. start[k] <= end + 1 => start[k] = end + 1
          BY <1>2, <2>1, <2>5
        <4> QED BY <1>6, <4>1
      <3> QED BY <3>3, <3>4
    <2>6. CASE start[k] <= end
      <3>1. start[k] \in 1..end /\ start[k] <= end + 1
        BY <1>2, <2>1, <2>6
      <3>2. after[NextAt(relay, start[k])] = At(k + 1)
        BY <1>6, <1>8, <2>6
      <3>3. At(k) = IF At(k + 1) # NoTag THEN At(k + 1)
                    ELSE IF subopts[k].id = 1 THEN GotOf(relay, subopts, k) ELSE NoTag
        <4> HIDE DEF At
        <4>1. after[start[k]] = IF At(k + 1) # NoTag THEN At(k + 1)
                                ELSE IF relay[start[k]] = 1 THEN DataAt(relay, start[k])
                                     ELSE NoTag
          BY <1>6, <3>1, <3>2
        <4>2. At(k) = after[start[k]]
          BY <3>1 DEF At
        <4> QED BY <1>8, <2>6, <4>1, <4>2
      <3> HIDE DEF At
      <3>4. CASE At(k + 1) # NoTag
        <4>1. PICK j \in Ones(k + 1) : /\ \A i \in Ones(k + 1) : i <= j
                                       /\ At(k + 1) = GotOf(relay, subopts, j)
          BY <1>11, <2>2, <3>4
        <4>2. j \in Int /\ k <= j
          BY <1>2, <2>4 DEF Ones
        <4>3. j \in Ones(k) /\ \A i \in Ones(k) : i <= j
          BY <2>3, <4>1, <4>2
        <4>4. At(k) = GotOf(relay, subopts, j)
          BY <3>3, <3>4, <4>1
        <4> QED BY <4>3, <4>4
      <3>5. CASE At(k + 1) = NoTag
        <4>1. Ones(k + 1) = {}
          BY <2>2, <3>5
        <4>2. CASE subopts[k].id = 1
          <5>1. Ones(k) = {k}
            BY <2>3, <2>6, <4>1, <4>2
          <5>2. At(k) = GotOf(relay, subopts, k)
            BY <3>3, <3>5, <4>2
          <5>3. k <= k
            BY <1>2
          <5> QED BY <5>1, <5>2, <5>3
        <4>3. CASE subopts[k].id # 1
          <5>1. Ones(k) = {} /\ At(k) = NoTag
            BY <2>3, <3>3, <3>5, <4>1, <4>3
          <5> QED BY <5>1
        <4> QED BY <4>2, <4>3
      <3> QED BY <3>4, <3>5
    <2> QED BY <1>2, <2>1, <2>5, <2>6
  <1> HIDE DEF LastOf, At
  <1>12. LastOf(1, At(1))
    <2> DEFINE T == {i \in 0..n : LastOf(n + 1 - i, At(n + 1 - i))}
    <2>1. 0 \in T
      <3>1. n + 1 - 0 = n + 1
        BY <1>2
      <3> QED BY <1>2, <1>10, <3>1
    <2>2. ASSUME NEW i \in 1..n, i - 1 \in T PROVE i \in T
      <3> DEFINE k == n + 1 - i
      <3>1. k \in 1..n /\ n + 1 - (i - 1) = k + 1 /\ i \in 0..n
        BY <1>2
      <3>2. LastOf(k + 1, At(k + 1))
        BY <2>2, <3>1
      <3> HIDE DEF k
      <3>3. LastOf(k, At(k))
        BY <1>11, <3>1, <3>2
      <3> QED BY <3>1, <3>3 DEF k
    <2>3. 0..n \subseteq T
      <3> HIDE DEF T
      <3> QED BY <1>2, <2>1, <2>2, UpTo
    <2>4. n \in 0..n /\ n + 1 - n = 1
      BY <1>2
    <2> QED BY <2>3, <2>4
  <1>13. At(1) = CircuitId(relay)
    <2>1. start[1] <= end + 1
      BY <1>2, <1>3
    <2> QED BY <1>3, <1>6, <2>1 DEF At
  <1>14. Found(relay, subopts, 1, CircuitId(relay))
    BY <1>9, <1>12, <1>13
  <1> QED BY <1>14 DEF relay, subopts

(* Booter takes for the circuit-id the data of the last sub-option 1, for  *)
(* any number of sub-options of any length, wherever option 82 is cut.     *)
THEOREM CircuitIdIsFound == Spec => []CircuitIdFound
  <1>1. GivenInv => CircuitIdFound
    <2> SUFFICES ASSUME NEW x \in Exchanges, x.packet.relay # NoOption
                 PROVE  LET subopts == x.subopts
                            relay == x.packet.relay
                            ones == {k \in DOMAIN subopts :
                                        subopts[k].id = 1 /\ Starts(subopts)[k] <= Len(relay)}
                        IN CircuitId(relay) = IF ones = {} THEN NoTag
                                              ELSE GotOf(relay, subopts, Max(ones))
      BY GivenPacket DEF CircuitIdFound, GotOf, Lesser, Greater
    <2> DEFINE subopts == x.subopts
               relay == x.packet.relay
               n == Len(subopts)
               ones == {k \in 1..n : subopts[k].id = 1 /\ Starts(subopts)[k] <= Len(relay)}
    <2>1. n \in Nat /\ DOMAIN subopts = 1..n
      BY ExchangesAssumption
    <2>2. Found(relay, subopts, 1, CircuitId(relay))
      BY CircuitFound
    <2>3. IF ones = {} THEN CircuitId(relay) = NoTag
          ELSE \E j \in ones : /\ \A i \in ones : i <= j
                               /\ CircuitId(relay) = GotOf(relay, subopts, j)
      BY <2>2 DEF Found
    <2>4. ones \subseteq 1..n
      OBVIOUS
    <2> HIDE DEF n, ones
    <2>5. CASE ones # {}
      <3>1. PICK j \in ones : /\ \A i \in ones : i <= j
                              /\ CircuitId(relay) = GotOf(relay, subopts, j)
        BY <2>3, <2>5
      <3>2. Max(ones) \in ones /\ j <= Max(ones) /\ Max(ones) <= j
        BY <2>1, <2>4, <2>5, <3>1, MaxOfIndices
      <3>3. Max(ones) = j
        <4>1. Max(ones) \in 1..n /\ j \in 1..n
          BY <2>4, <3>1, <3>2
        <4> QED BY <2>1, <3>2, <4>1
      <3>4. CircuitId(relay) = GotOf(relay, subopts, Max(ones))
        BY <3>1, <3>3
      <3> QED BY <2>1, <2>5, <3>4 DEF ones
    <2>6. CASE ones = {}
      BY <2>1, <2>3, <2>6 DEF ones
    <2> QED BY <2>5, <2>6
  <1> QED BY <1>1, GivenInputs, PTL

-------------------------------------------------------------------------------
(* The options on the wire.                                                *)

(* A function on the first numbers is a sequence.                          *)
LEMMA Indexed ==
    ASSUME NEW B, NEW n \in Nat, NEW q \in [1..n -> B]
    PROVE  q \in Seq(B) /\ Len(q) = n
  OBVIOUS

(* Two sequences, one after the other.                                     *)
LEMMA Joined ==
    ASSUME NEW B, NEW p \in Seq(B), NEW q \in Seq(B)
    PROVE  /\ p \o q \in Seq(B) /\ Len(p) \in Nat /\ Len(q) \in Nat
           /\ Len(p \o q) = Len(p) + Len(q)
           /\ <<>> \o q = q
  OBVIOUS

(* An address is a string of four bytes.                                   *)
LEMMA FourBytesAre ==
    ASSUME NEW q \in FourBytes
    PROVE  q \in Seq(Byte) /\ Len(q) = 4
  <1>1. q \in [1..4 -> Byte]
    BY DEF FourBytes
  <1>2. 4 \in Nat
    OBVIOUS
  <1> QED BY <1>1, <1>2, Indexed

(* Addresses one after the other have four bytes each.                     *)
LEMMA Flattened ==
    ASSUME NEW seqs \in Seq(FourBytes)
    PROVE  FlattenSeq(seqs) \in Seq(Byte) /\ Len(FlattenSeq(seqs)) = 4 * Len(seqs)
  <1> DEFINE n == Len(seqs)
             Body(g, i) == IF i = 1 THEN seqs[i] ELSE g[i - 1] \o seqs[i]
             flat == CHOOSE g : g = [i \in 1..n |-> Body(g, i)]
             S == Seq(Byte)
             step == [i \in 1..n |-> [r \in S |-> r \o seqs[i]]]
             prev == [i \in 1..n |-> i - 1]
  <1>1. n \in Nat
    OBVIOUS
  <1>2. ASSUME NEW i \in 1..n PROVE seqs[i] \in S /\ Len(seqs[i]) = 4
    <2>1. seqs[i] \in FourBytes
      BY MemberAt
    <2> QED BY <2>1, FourBytesAre
  <1>3. CASE n = 0
    <2>1. FlattenSeq(seqs) = seqs /\ seqs = <<>>
      BY <1>3 DEF FlattenSeq
    <2> QED BY <1>3, <2>1
  <1>4. CASE n # 0
    <2>1. FlattenSeq(seqs) = flat[n]
      BY <1>4 DEF FlattenSeq
    <2> HIDE DEF n
    <2>2. PICK f : Recurs(f, n, S, <<>>, step, prev)
      <3>1. step \in [1..n -> [S -> S]]
        BY <1>2
      <3>2. StepsDown(prev, n)
        BY <1>1 DEF StepsDown
      <3>3. <<>> \in S
        OBVIOUS
      <3> HIDE DEF S, step, prev
      <3> QED BY <1>1, <3>1, <3>2, <3>3, Recursion
    <2>3. ASSUME NEW i \in 1..n PROVE f[i] = f[i - 1] \o seqs[i] /\ f[i - 1] \in S
      <3>1. i - 1 \in 0..n /\ prev[i] = i - 1
        BY <1>1
      <3>2. f[i] = step[i][f[prev[i]]] /\ f[i - 1] \in S
        <4> HIDE DEF S, step, prev
        <4> QED BY <2>2, <3>1 DEF Recurs
      <3> QED BY <3>1, <3>2
    <2>4. f[0] = <<>> /\ f \in [0..n -> S]
      BY <2>2 DEF Recurs
    <2>5. \A i \in 0..n : Len(f[i]) = 4 * i
      <3> DEFINE T == {i \in 0..n : Len(f[i]) = 4 * i}
      <3>1. 0 \in T
        <4>1. Len(<<>>) = 0
          OBVIOUS
        <4> QED BY <1>1, <2>4, <4>1
      <3>2. ASSUME NEW i \in 1..n, i - 1 \in T PROVE i \in T
        <4>1. i \in 0..n /\ Len(f[i - 1]) = 4 * (i - 1)
          BY <3>2
        <4>2. f[i - 1] \in Seq(Byte) /\ seqs[i] \in Seq(Byte) /\ Len(seqs[i]) = 4
          BY <1>2, <2>3
        <4>3. Len(f[i - 1] \o seqs[i]) = Len(f[i - 1]) + Len(seqs[i])
          BY <4>2, Joined
        <4>4. f[i] = f[i - 1] \o seqs[i]
          BY <2>3
        <4>5. Len(f[i]) = Len(f[i - 1]) + Len(seqs[i])
          BY <4>3, <4>4, Zenon
        <4> QED BY <1>1, <4>1, <4>2, <4>5
      <3>3. 0..n \subseteq T
        <4> HIDE DEF T
        <4> QED BY <1>1, <3>1, <3>2, UpTo
      <3> QED BY <3>3
    <2>6. flat = [i \in 1..n |-> Body(flat, i)]
      <3> DEFINE g == [i \in 1..n |-> f[i]]
      <3>1. ASSUME NEW i \in 1..n PROVE g[i] = Body(g, i)
        <4>1. CASE i = 1
          <5>1. f[1] = f[0] \o seqs[1]
            <6>1. f[1] = f[1 - 1] \o seqs[1]
              BY <2>3, <4>1
            <6>2. 1 - 1 = 0
              OBVIOUS
            <6> QED BY <6>1, <6>2, Zenon
          <5>2. seqs[1] \in Seq(Byte)
            BY <1>2, <4>1
          <5>3. <<>> \o seqs[1] = seqs[1]
            BY <5>2, Joined
          <5>4. f[i] = seqs[i]
            BY <2>4, <4>1, <5>1, <5>3, Zenon
          <5> QED BY <4>1, <5>4
        <4>2. CASE i # 1
          <5>1. i - 1 \in 1..n
            BY <1>1, <4>2
          <5> QED BY <2>3, <4>2, <5>1
        <4> QED BY <4>1, <4>2
      <3> HIDE DEF Body
      <3>2. g = [i \in 1..n |-> Body(g, i)]
        BY <3>1
      <3> QED BY <3>2
    <2> HIDE DEF flat
    <2>7. ASSUME NEW i \in 1..n PROVE flat[i] = Body(flat, i)
      <3> HIDE DEF Body
      <3> QED BY <2>6
    <2>8. \A i \in 1..n : flat[i] = f[i]
      <3> DEFINE T == {i \in 0..n : i # 0 => flat[i] = f[i]}
      <3>1. 0 \in T
        BY <1>1
      <3>2. ASSUME NEW i \in 1..n, i - 1 \in T PROVE i \in T
        <4>1. CASE i = 1
          <5>1. f[1] = f[0] \o seqs[1]
            <6>1. f[1] = f[1 - 1] \o seqs[1]
              BY <2>3, <4>1
            <6>2. 1 - 1 = 0
              OBVIOUS
            <6> QED BY <6>1, <6>2, Zenon
          <5>2. seqs[1] \in Seq(Byte)
            BY <1>2, <4>1
          <5>3. <<>> \o seqs[1] = seqs[1]
            BY <5>2, Joined
          <5>4. f[i] = seqs[i]
            BY <2>4, <4>1, <5>1, <5>3, Zenon
          <5>5. flat[i] = seqs[i]
            BY <2>7, <4>1
          <5> QED BY <1>1, <5>4, <5>5
        <4>2. CASE i # 1
          <5>1. flat[i - 1] = f[i - 1]
            BY <3>2, <4>2
          <5>2. flat[i] = flat[i - 1] \o seqs[i]
            BY <2>7, <4>2
          <5>3. f[i] = f[i - 1] \o seqs[i]
            BY <2>3
          <5>4. flat[i] = f[i]
            BY <5>1, <5>2, <5>3, Zenon
          <5> QED BY <1>1, <5>4
        <4> QED BY <4>1, <4>2
      <3>3. 0..n \subseteq T
        <4> HIDE DEF T
        <4> QED BY <1>1, <3>1, <3>2, UpTo
      <3> QED BY <3>3
    <2>9. n \in 1..n /\ n \in 0..n
      BY <1>1, <1>4
    <2>10. flat[n] \in S /\ Len(flat[n]) = 4 * n
      BY <2>4, <2>5, <2>8, <2>9
    <2> QED BY <2>1, <2>10 DEF n
  <1> QED BY <1>3, <1>4

\* Options that fit on the wire.
Fitting(options) ==
    /\ options = [o \in DOMAIN options |-> options[o]]
    /\ DOMAIN options \subseteq 1..254
    /\ \A o \in DOMAIN options : options[o] \in Seq(Byte) /\ Len(options[o]) <= 255

(* The options of a reply fit.                                             *)
LEMMA ReplyFits ==
    ASSUME NEW x \in Exchanges, ~ Throws(x.packet, x.params),
           Len(x.params.resolvers \o x.config.resolvers) <= 63
    PROVE  Fitting(ReplyOptions(x.packet, x.params, x.config))
  <1> DEFINE packet == x.packet
             params == x.params
             config == x.config
             all == params.resolvers \o config.resolvers
             router == Router(packet, params, config)
             resolvers == FlattenSeq(all)
             wanted == {1, 51, 53, 54}
                          \cup {o \in {3} : router # NoAddress}
                          \cup {o \in {6} : resolvers # <<>>}
                          \cup {o \in {82} : Relayed(packet)}
             Value(o) == CASE o = 1  -> params.netmask
                           [] o = 3  -> router
                           [] o = 6  -> resolvers
                           [] o = 51 -> config.leaseTime
                           [] o = 53 -> IF packet.type = "DISCOVER" THEN <<2>> ELSE <<5>>
                           [] o = 54 -> config.serverIp
                           [] o = 82 -> packet.relay
             Fits(v) == v \in Seq(Byte) /\ Len(v) <= 255
  <1>1. /\ {params.netmask, config.leaseTime, config.serverIp} \subseteq FourBytes
        /\ {params.gateway, config.defaultGateway} \subseteq FourBytes \cup {NoAddress}
        /\ params.resolvers \in Seq(FourBytes) /\ config.resolvers \in Seq(FourBytes)
        /\ params.routes # NoRoutes => /\ params.routes \in Seq(ToSet(params.routes))
                                       /\ \A r \in ToSet(params.routes) : r.via \in FourBytes
        /\ packet.relay # NoOption => packet.relay \in Seq(Byte) /\ Len(packet.relay) <= 255
    BY ExchangesAssumption DEF MadeOf
  <1>2. ReplyOptions(packet, params, config) = [o \in wanted |-> Value(o)]
    BY DEF ReplyOptions
  <1>3. ASSUME NEW v \in FourBytes PROVE Fits(v)
    <2>1. v \in Seq(Byte) /\ Len(v) = 4
      BY FourBytesAre
    <2> QED BY <2>1
  <1>4. Fits(params.netmask) /\ Fits(config.leaseTime) /\ Fits(config.serverIp)
    <2> HIDE DEF Fits
    <2> QED BY <1>1, <1>3
  <1>5. Fits(resolvers)
    <2>1. all \in Seq(FourBytes) /\ Len(all) \in Nat
      <3>1. params.resolvers \in Seq(FourBytes) /\ config.resolvers \in Seq(FourBytes)
        BY <1>1
      <3>2. all \in Seq(FourBytes)
        BY <3>1, Joined
      <3> HIDE DEF all
      <3> QED BY <3>2
    <2>3. Len(all) <= 63
      OBVIOUS
    <2> HIDE DEF all
    <2>2. resolvers \in Seq(Byte) /\ Len(resolvers) = 4 * Len(all)
      BY <2>1, Flattened
    <2>4. Len(resolvers) <= 255
      <3> HIDE DEF resolvers
      <3> QED BY <2>1, <2>2, <2>3
    <2> QED BY <2>2, <2>4
  <1>6. router # NoAddress => Fits(router)
    <2>1. CASE ~ Relayed(packet)
      <3>1. router = config.defaultGateway
        BY <2>1 DEF Router
      <3> HIDE DEF Fits, router
      <3> QED BY <1>1, <1>3, <3>1
    <2>2. CASE Relayed(packet) /\ params.gateway # NoAddress
      <3>1. router = params.gateway
        BY <2>2 DEF Router
      <3> HIDE DEF Fits, router
      <3> QED BY <1>1, <1>3, <2>2, <3>1
    <2>3. CASE Relayed(packet) /\ params.gateway = NoAddress
      <3>1. router = FindRouteToBooter(params.routes) /\ params.routes # NoRoutes
        BY <2>3 DEF Router, Throws
      <3>2. EndOf(params.routes, LoopEnd(params.routes))
        BY <1>1, <3>1, LoopEnds
      <3>3. CASE LoopEnd(params.routes) # 0
        <4>1. router = params.routes[LoopEnd(params.routes)].via
          BY <3>1, <3>3 DEF FindRouteToBooter
        <4>2. LoopEnd(params.routes) \in DOMAIN params.routes
          BY <3>2, <3>3 DEF EndOf
        <4>3. router \in FourBytes
          BY <1>1, <3>1, <4>1, <4>2 DEF ToSet
        <4> HIDE DEF Fits, router
        <4> QED BY <1>3, <4>3
      <3>4. CASE LoopEnd(params.routes) = 0
        <4>1. router = <<0, 0, 0, 0>>
          BY <3>1, <3>4 DEF FindRouteToBooter
        <4> HIDE DEF Fits, router
        <4> QED BY <1>3, <4>1, ZeroAddress
      <3> QED BY <3>3, <3>4
    <2> QED BY <2>1, <2>2, <2>3
  <1>7. Relayed(packet) => Fits(packet.relay)
    BY <1>1 DEF Relayed
  <1>8. Fits(IF packet.type = "DISCOVER" THEN <<2>> ELSE <<5>>)
    <2>1. 2 \in Byte /\ 5 \in Byte
      BY DEF Byte
    <2>2. <<2>> \in Seq(Byte) /\ Len(<<2>>) = 1 /\ <<5>> \in Seq(Byte) /\ Len(<<5>>) = 1
      BY <2>1
    <2>3. Fits(<<2>>) /\ Fits(<<5>>)
      BY <2>2
    <2> HIDE DEF Fits
    <2> QED BY <2>3
  <1> HIDE DEF Fits, router, resolvers
  <1>9. ASSUME NEW o \in wanted PROVE Fits(Value(o))
    <2>1. CASE o = 3
      <3>1. router # NoAddress /\ Value(o) = router
        BY <1>9, <2>1
      <3> QED BY <1>6, <3>1
    <2>2. CASE o = 82
      <3>1. Relayed(packet) /\ Value(o) = packet.relay
        BY <1>9, <2>2
      <3> QED BY <1>7, <3>1
    <2>3. CASE o = 53
      BY <1>8, <2>3
    <2>4. CASE o = 6
      BY <1>5, <2>4
    <2>5. CASE o \in {1, 51, 54}
      BY <1>4, <2>5
    <2> QED BY <1>9, <2>1, <2>2, <2>3, <2>4, <2>5
  <1>10. wanted \subseteq 1..254
    OBVIOUS
  <1> HIDE DEF wanted, Value
  <1>11. /\ DOMAIN ReplyOptions(packet, params, config) = wanted
         /\ \A o \in wanted : ReplyOptions(packet, params, config)[o] = Value(o)
    BY <1>2
  <1>12. \A o \in wanted : Value(o) \in Seq(Byte) /\ Len(Value(o)) <= 255
    BY <1>9 DEF Fits
  <1> QED BY <1>2, <1>10, <1>11, <1>12 DEF Fitting

\* What toBuffer writes for a code.
Piece(options, o) ==
    IF o \in DOMAIN options THEN <<o, Len(options[o])>> \o options[o] ELSE <<>>

\* w is what has been written after each code.
WrittenInTurn(w, options) ==
    /\ w[0] = <<>>
    /\ \A o \in 0..254 : w[o] \in Seq(Byte)
    /\ \A o \in 1..254 : w[o] = w[o - 1] \o Piece(options, o)

\* q is the option o with data v.
IsOption(q, o, v) ==
    /\ Len(v) \in 0..255 /\ Len(q) = Len(v) + 2
    /\ q[1] = o /\ q[2] = Len(v)
    /\ \A j \in 1..Len(v) : q[j + 2] = v[j]

(* Two bytes before others.                                                *)
LEMMA TwoBefore ==
    ASSUME NEW B, NEW a \in B, NEW b \in B, NEW q \in Seq(B)
    PROVE  /\ <<a, b>> \o q \in Seq(B) /\ Len(<<a, b>> \o q) = Len(q) + 2
           /\ (<<a, b>> \o q)[1] = a /\ (<<a, b>> \o q)[2] = b
           /\ \A j \in 1..Len(q) : (<<a, b>> \o q)[j + 2] = q[j]
  OBVIOUS

\* The bytes, when w has been written.
Wire(w) == w[254] \o <<255>> \o [i \in 1..9 |-> 0]

(* What an option that fits becomes is a string of bytes.                  *)
LEMMA Pieces ==
    ASSUME NEW options, Fitting(options), NEW o \in 1..254
    PROVE  /\ Piece(options, o) \in Seq(Byte)
           /\ o \in DOMAIN options =>
                 IsOption(Piece(options, o), o, options[o])
           /\ o \notin DOMAIN options => Piece(options, o) = <<>>
  <1>1. CASE o \in DOMAIN options
    <2> DEFINE q == options[o]
               n == Len(q)
    <2>1. q \in Seq(Byte) /\ n \in 0..255
      <3>1. q \in Seq(Byte) /\ n <= 255
        BY <1>1 DEF Fitting
      <3>2. n \in Nat
        BY <3>1
      <3> HIDE DEF n, q
      <3> QED BY <3>1, <3>2
    <2>2. n \in Byte /\ o \in Byte
      BY <2>1 DEF Byte
    <2>3. Piece(options, o) = <<o, n>> \o q
      BY <1>1 DEF Piece
    <2> HIDE DEF q
    <2>4. /\ <<o, n>> \o q \in Seq(Byte) /\ Len(<<o, n>> \o q) = Len(q) + 2
          /\ (<<o, n>> \o q)[1] = o /\ (<<o, n>> \o q)[2] = n
          /\ \A j \in 1..Len(q) : (<<o, n>> \o q)[j + 2] = q[j]
      <3> HIDE DEF n
      <3> QED BY <2>1, <2>2, TwoBefore
    <2> QED BY <1>1, <2>1, <2>3, <2>4, Zenon DEF q, IsOption
  <1>2. CASE o \notin DOMAIN options
    BY <1>2 DEF Piece
  <1> QED BY <1>1, <1>2

(* The last code up to o is o itself, or that up to the one before.        *)
LEMMA LastCodeIs ==
    ASSUME NEW options, DOMAIN options \subseteq 1..254
    PROVE  /\ LastCode(options, 0) = 0
           /\ \A o \in 1..254 : o \in DOMAIN options => LastCode(options, o) = o
           /\ \A o \in 1..254 : o \notin DOMAIN options =>
                 LastCode(options, o) = LastCode(options, o - 1)
  <1> DEFINE Upto(o) == {0} \cup {c \in DOMAIN options : 0 < c /\ c <= o}
  <1>1. Upto(0) = {0}
    OBVIOUS
  <1>2. Max({0}) = 0
    BY DEF Max
  <1>3. ASSUME NEW o \in 1..254, o \in DOMAIN options PROVE Max(Upto(o)) = o
    <2>1. o \in Upto(o) /\ \A c \in Upto(o) : c \in Int /\ o >= c
      BY <1>3
    <2> HIDE DEF Upto
    <2>2. Max(Upto(o)) \in Upto(o) /\ \A c \in Upto(o) : Max(Upto(o)) >= c
      BY <2>1 DEF Max
    <2> QED BY <2>1, <2>2
  <1>4. ASSUME NEW o \in 1..254, o \notin DOMAIN options PROVE Upto(o) = Upto(o - 1)
    <2>1. \A c \in DOMAIN options : c <= o <=> c <= o - 1
      BY <1>4
    <2> QED BY <2>1
  <1> QED BY <1>1, <1>2, <1>3, <1>4 DEF LastCode

(* The loop of toBuffer over the codes.                                    *)
LEMMA Written ==
    ASSUME NEW options, Fitting(options)
    PROVE  \E w : /\ WrittenInTurn(w, options)
                  /\ ToBuffer(options) = Wire(w)
  <1> DEFINE last(o) == LastCode(options, o)
             Write(o) == <<o, Len(options[o]) % 256>> \o options[o]
             Body(g, o) == IF last(o) = 0 THEN <<>> ELSE g[last(o) - 1] \o Write(last(o))
             w == CHOOSE g : g = [o \in 0..254 |-> Body(g, o)]
             S == Seq(Byte)
             step == [o \in 1..254 |-> [r \in S |-> r \o Piece(options, o)]]
             prev == [o \in 1..254 |-> o - 1]
  <1>1. ToBuffer(options) = Wire(w)
    BY DEF ToBuffer, Wire
  <1>2. ASSUME NEW o \in 1..254, o \in DOMAIN options PROVE Write(o) = Piece(options, o)
    <2>1. Len(options[o]) \in 0..255
      BY <1>2, Pieces DEF IsOption
    <2>2. \A n \in 0..255 : n % 256 = n
      OBVIOUS
    <2> DEFINE n == Len(options[o])
    <2>3. n % 256 = n
      <3>1. n \in 0..255
        BY <2>1
      <3> HIDE DEF n
      <3> QED BY <2>2, <3>1
    <2> QED BY <1>2, <2>3 DEF Piece
  <1>3. ASSUME NEW o \in 1..254 PROVE Piece(options, o) \in S
    BY Pieces
  <1>4. PICK f : Recurs(f, 254, S, <<>>, step, prev)
    <2>1. step \in [1..254 -> [S -> S]]
      BY <1>3
    <2>2. StepsDown(prev, 254)
      BY DEF StepsDown
    <2>3. <<>> \in S /\ 254 \in Nat
      OBVIOUS
    <2> HIDE DEF S, step, prev
    <2> QED BY <2>1, <2>2, <2>3, Recursion
  <1>5. ASSUME NEW o \in 1..254 PROVE f[o] = f[o - 1] \o Piece(options, o)
    <2>1. o - 1 \in 0..254 /\ prev[o] = o - 1
      OBVIOUS
    <2>2. f[o] = step[o][f[prev[o]]] /\ f[o - 1] \in S
      <3> HIDE DEF S, step, prev
      <3> QED BY <1>4, <2>1 DEF Recurs
    <2> QED BY <2>1, <2>2
  <1>6. f[0] = <<>> /\ f \in [0..254 -> S]
    BY <1>4 DEF Recurs
  <1> HIDE DEF Write
  <1>7. /\ \A g : Body(g, 0) = <<>>
        /\ \A o \in 1..254 : o \in DOMAIN options =>
              \A g : Body(g, o) = g[o - 1] \o Piece(options, o)
        /\ \A o \in 1..254 : o \notin DOMAIN options =>
              \A g : Body(g, o) = Body(g, o - 1)
    <2>1. last(0) = 0
      BY LastCodeIs DEF Fitting
    <2>2. ASSUME NEW o \in 1..254, o \in DOMAIN options
          PROVE  \A g : Body(g, o) = g[o - 1] \o Piece(options, o)
      <3>1. DOMAIN options \subseteq 1..254
        BY DEF Fitting
      <3>2. LastCode(options, o) = o
        BY <2>2, <3>1, LastCodeIs
      <3>3. last(o) = o /\ o # 0
        BY <3>2
      <3> QED BY <1>2, <2>2, <3>3
    <2>3. ASSUME NEW o \in 1..254, o \notin DOMAIN options
          PROVE  \A g : Body(g, o) = Body(g, o - 1)
      <3>1. last(o) = last(o - 1)
        BY <2>3, LastCodeIs DEF Fitting
      <3> HIDE DEF last
      <3> QED BY <3>1
    <2> QED BY <2>1, <2>2, <2>3
  <1> HIDE DEF Body, last, S
  <1>8. ASSUME NEW o \in 1..254, o \notin DOMAIN options, NEW q \in S
        PROVE  q \o Piece(options, o) = q
    BY <1>8 DEF Piece, S
  <1>9. 0..254 \subseteq {o \in 0..254 : f[o] = Body(f, o)}
    <2> DEFINE T == {o \in 0..254 : f[o] = Body(f, o)}
    <2>1. 0 \in T
      <3>1. f[0] = Body(f, 0)
        BY <1>6, <1>7, Zenon
      <3> QED BY <3>1
    <2>2. ASSUME NEW o \in 1..254, o - 1 \in T PROVE o \in T
      <3>1. o \in 0..254 /\ o - 1 \in 0..254 /\ f[o - 1] = Body(f, o - 1)
        BY <2>2
      <3>2. CASE o \in DOMAIN options
        BY <1>5, <1>7, <3>1, <3>2
      <3>3. CASE o \notin DOMAIN options
        <4>1. f[o] = f[o - 1] \o Piece(options, o) /\ f[o - 1] \in S
          BY <1>5, <1>6, <3>1
        <4>2. f[o] = f[o - 1]
          BY <1>8, <3>3, <4>1
        <4>3. Body(f, o) = Body(f, o - 1)
          BY <1>7, <3>3
        <4> QED BY <3>1, <4>2, <4>3
      <3> QED BY <3>2, <3>3
    <2> HIDE DEF T
    <2>3. 254 \in Nat
      OBVIOUS
    <2>4. 0..254 \subseteq T
      BY <2>1, <2>2, <2>3, UpTo
    <2> QED BY <2>4 DEF T
  <1>10. \A o \in 0..254 : w[o] = Body(w, o)
    <2>1. f = [o \in 0..254 |-> Body(f, o)]
      BY <1>6, <1>9
    <2>2. w = [o \in 0..254 |-> Body(w, o)]
      BY <2>1
    <2> HIDE DEF w
    <2> QED BY <2>2
  <1> HIDE DEF w
  <1>11. w[0] = <<>>
    <2>1. 0 \in 0..254
      OBVIOUS
    <2> QED BY <1>7, <1>10, <2>1, Zenon
  <1>12. ASSUME NEW o \in 1..254, w[o - 1] \in S
         PROVE  w[o] = w[o - 1] \o Piece(options, o) /\ w[o] \in S
    <2>1. o \in 0..254 /\ o - 1 \in 0..254
      OBVIOUS
    <2>2. w[o] = Body(w, o) /\ w[o - 1] = Body(w, o - 1)
      BY <1>10, <2>1
    <2>3. w[o] = w[o - 1] \o Piece(options, o)
      <3>1. CASE o \in DOMAIN options
        BY <1>7, <2>2, <3>1
      <3>2. CASE o \notin DOMAIN options
        <4>1. w[o] = w[o - 1]
          BY <1>7, <2>2, <3>2
        <4> QED BY <1>8, <1>12, <3>2, <4>1
      <3> QED BY <3>1, <3>2
    <2>4. w[o - 1] \o Piece(options, o) \in S
      BY <1>3, <1>12, Joined DEF S
    <2> QED BY <2>3, <2>4
  <1>13. 0..254 \subseteq {o \in 0..254 : w[o] \in S}
    <2> DEFINE T == {o \in 0..254 : w[o] \in S}
    <2>1. 0 \in T
      <3>1. <<>> \in S /\ 0 \in 0..254
        BY DEF S
      <3> QED BY <1>11, <3>1, Zenon
    <2>2. ASSUME NEW o \in 1..254, o - 1 \in T PROVE o \in T
      <3>1. o \in 0..254
        OBVIOUS
      <3> QED BY <1>12, <2>2, <3>1
    <2>3. 254 \in Nat
      OBVIOUS
    <2> HIDE DEF T
    <2>4. 0..254 \subseteq T
      BY <2>1, <2>2, <2>3, UpTo
    <2> QED BY <2>4 DEF T
  <1>14. WrittenInTurn(w, options)
    <2>1. \A o \in 1..254 : o - 1 \in 0..254
      OBVIOUS
    <2> QED BY <1>11, <1>12, <1>13, <2>1 DEF WrittenInTurn, S
  <1> QED BY <1>1, <1>14

\* c begins with p.
Begins(p, c) == Len(p) \in 0..Len(c) /\ \A i \in 1..Len(p) : p[i] = c[i]

(* One sequence before another.                                            *)
LEMMA Before ==
    ASSUME NEW B, NEW p \in Seq(B), NEW q \in Seq(B)
    PROVE  /\ Begins(p, p \o q)
           /\ \A i \in 1..Len(q) : (p \o q)[Len(p) + i] = q[i]
  BY DEF Begins

(* What has been written is never changed.                                 *)
LEMMA NeverRewritten ==
    ASSUME NEW options, Fitting(options), NEW w, WrittenInTurn(w, options)
    PROVE  \A o \in 0..254 : Begins(w[o], w[254])
  <1> DEFINE T == {k \in 0..254 : Begins(w[254 - k], w[254])}
  <1>1. \A o \in 0..254 : w[o] \in Seq(Byte) /\ Len(w[o]) \in Nat
    <2>1. ASSUME NEW o \in 0..254 PROVE w[o] \in Seq(Byte) /\ Len(w[o]) \in Nat
      <3>1. w[o] \in Seq(Byte)
        BY DEF WrittenInTurn
      <3> QED BY <3>1
    <2> QED BY <2>1
  <1>2. ASSUME NEW o \in 1..254 PROVE Begins(w[o - 1], w[o])
    <2> DEFINE p == w[o - 1]
               q == Piece(options, o)
    <2>1. o \in 0..254 /\ o - 1 \in 0..254
      OBVIOUS
    <2>2. p \in Seq(Byte) /\ q \in Seq(Byte)
      BY <1>1, <2>1, Pieces
    <2>3. w[o] = p \o q
      BY DEF WrittenInTurn
    <2> HIDE DEF p, q
    <2>4. Begins(p, p \o q)
      BY <2>2, Before
    <2> QED BY <2>3, <2>4, Zenon DEF p
  <1>3. 0 \in T
    <2>1. 254 - 0 = 254 /\ 254 \in 0..254 /\ 0 \in 0..254
      OBVIOUS
    <2>2. Len(w[254]) \in Nat
      BY <1>1
    <2>3. Begins(w[254], w[254])
      BY <2>2 DEF Begins
    <2> QED BY <2>1, <2>3
  <1>4. ASSUME NEW k \in 1..254, k - 1 \in T PROVE k \in T
    <2> DEFINE o == 254 - (k - 1)
               a == w[o - 1]
               b == w[o]
               c == w[254]
    <2>1. o \in 1..254 /\ o - 1 = 254 - k /\ k \in 0..254 /\ o - 1 \in 0..254 /\ o \in 0..254
      OBVIOUS
    <2>2. Begins(b, c)
      BY <1>4
    <2>3. Begins(a, b)
      <3> HIDE DEF o
      <3> QED BY <1>2, <2>1
    <2>4. Len(a) \in Nat /\ Len(b) \in Nat /\ Len(c) \in Nat
      <3>1. 254 \in 0..254
        OBVIOUS
      <3> HIDE DEF o
      <3> QED BY <1>1, <2>1, <3>1, Zenon
    <2> HIDE DEF a, b, c, o
    <2>5. Begins(a, c)
      <3>1. Len(a) \in 0..Len(c)
        BY <2>2, <2>3, <2>4 DEF Begins
      <3>2. \A i \in 1..Len(a) : i \in 1..Len(b)
        BY <2>3, <2>4 DEF Begins
      <3> QED BY <2>2, <2>3, <3>1, <3>2, Zenon DEF Begins
    <2> QED BY <2>1, <2>5 DEF a, c
  <1>5. 0..254 \subseteq T
    <2>1. 254 \in Nat
      OBVIOUS
    <2> HIDE DEF T
    <2> QED BY <1>3, <1>4, <2>1, UpTo
  <1>6. ASSUME NEW o \in 0..254 PROVE Begins(w[o], w[254])
    <2>1. 254 - o \in 0..254 /\ 254 - (254 - o) = o
      OBVIOUS
    <2>2. 254 - o \in T
      BY <1>5, <2>1
    <2> QED BY <2>1, <2>2
  <1> QED BY <1>6

\* At place i of d is the option o, and behind it place next.
OptionAt(d, i, options, o, next) ==
    /\ d[i] = o
    /\ LengthAt(d, i) = Len(options[o])
    /\ NextAt(d, i) = next
    /\ \A j \in 1..Len(options[o]) : d[i + 1 + j] = options[o][j]

\* d holds each option where w is told to end before it, and then the end.
LaidOut(d, w, options) ==
    /\ d \in Seq(Byte)
    /\ \A o \in 0..254 : Len(w[o]) + 1 \in 1..Len(d)
    /\ d[Len(w[254]) + 1] = 255
    /\ \A o \in 1..254 : o \notin DOMAIN options => Len(w[o]) = Len(w[o - 1])
    /\ \A o \in 1..254 :
          o \in DOMAIN options => OptionAt(d, Len(w[o - 1]) + 1, options, o, Len(w[o]) + 1)

(* Where toBuffer writes the options and their end.                        *)
LEMMA Layout ==
    ASSUME NEW options, Fitting(options), NEW w, WrittenInTurn(w, options),
           NEW d, d = Wire(w)
    PROVE  LaidOut(d, w, options)
  <1> DEFINE c == w[254]
             n == Len(c)
             pads == [i \in 1..9 |-> 0]
  <1>1. c \in Seq(Byte) /\ n \in Nat
    <2>1. 254 \in 0..254
      OBVIOUS
    <2>2. c \in Seq(Byte)
      BY <2>1, Zenon DEF WrittenInTurn
    <2> QED BY <2>2
  <1>2. \A o \in 0..254 : Begins(w[o], c)
    BY NeverRewritten
  <1>3. /\ d \in Seq(Byte) /\ Len(d) = n + 10 /\ d[n + 1] = 255
        /\ \A i \in 1..n : d[i] = c[i]
    <2>1. 255 \in Byte /\ 0 \in Byte
      BY DEF Byte
    <2>2. pads \in Seq(Byte) /\ Len(pads) = 9
      BY <2>1
    <2> HIDE DEF c, pads
    <2> DEFINE e == c \o <<255>>
    <2>3. e \in Seq(Byte) /\ Len(e) = n + 1 /\ e[n + 1] = 255 /\ \A i \in 1..n : e[i] = c[i]
      BY <1>1, <2>1
    <2> HIDE DEF e
    <2>4. d = e \o pads
      BY DEF Wire, e, c, pads
    <2>5. e \o pads \in Seq(Byte) /\ Len(e \o pads) = n + 10
      <3>1. e \o pads \in Seq(Byte) /\ Len(e \o pads) = Len(e) + Len(pads)
        <4>1. e \in Seq(Byte) /\ pads \in Seq(Byte)
          BY <2>2, <2>3
        <4> QED BY <4>1, Joined
      <3> HIDE DEF n
      <3> QED BY <1>1, <2>2, <2>3, <3>1
    <2>6. \A i \in 1..(n + 1) : (e \o pads)[i] = e[i]
      <3>1. Begins(e, e \o pads)
        BY <2>2, <2>3, Before
      <3> HIDE DEF n
      <3> QED BY <2>3, <3>1, Zenon DEF Begins
    <2> HIDE DEF n
    <2>7. n + 1 \in 1..(n + 1) /\ \A i \in 1..n : i \in 1..(n + 1)
      BY <1>1
    <2>8. d[n + 1] = 255
      <3>1. (e \o pads)[n + 1] = e[n + 1]
        BY <2>6, <2>7
      <3> QED BY <2>3, <2>4, <3>1, Zenon
    <2>9. ASSUME NEW i \in 1..n PROVE d[i] = c[i]
      <3>1. (e \o pads)[i] = e[i] /\ e[i] = c[i]
        BY <2>3, <2>6, <2>7
      <3> QED BY <2>4, <3>1, Zenon
    <2> QED BY <2>4, <2>5, <2>8, <2>9, Zenon
  <1> HIDE DEF c, n, pads
  <1>4. ASSUME NEW o \in 0..254 PROVE Len(w[o]) + 1 \in 1..Len(d)
    <2>1. Len(w[o]) \in 0..n
      BY <1>2 DEF Begins, n
    <2>2. \A l \in 0..n : l + 1 \in 1..(n + 10)
      BY <1>1
    <2> QED BY <1>3, <2>1, <2>2, Zenon
  <1>5. ASSUME NEW o \in 1..254, o \notin DOMAIN options PROVE Len(w[o]) = Len(w[o - 1])
    <2>1. o - 1 \in 0..254
      OBVIOUS
    <2>2. w[o - 1] \in Seq(Byte)
      BY <2>1, Zenon DEF WrittenInTurn
    <2>3. Piece(options, o) = <<>>
      BY <1>5, Pieces
    <2>4. w[o] = w[o - 1] \o <<>>
      BY <2>3 DEF WrittenInTurn
    <2>5. w[o - 1] \o <<>> = w[o - 1]
      BY <2>2
    <2> QED BY <2>4, <2>5, Zenon
  <1>6. ASSUME NEW o \in 1..254, o \in DOMAIN options
        PROVE  OptionAt(d, Len(w[o - 1]) + 1, options, o, Len(w[o]) + 1)
    <2> DEFINE p == w[o - 1]
               q == Piece(options, o)
               m == Len(p)
               v == options[o]
               k == Len(v)
    <2>1. o - 1 \in 0..254 /\ o \in 0..254
      OBVIOUS
    <2>2. p \in Seq(Byte) /\ m \in Nat
      <3>1. p \in Seq(Byte)
        BY <2>1, Zenon DEF WrittenInTurn
      <3> QED BY <3>1
    <2>3. /\ q \in Seq(Byte) /\ k \in 0..255 /\ Len(q) = k + 2
          /\ q[1] = o /\ q[2] = k /\ \A j \in 1..k : q[j + 2] = v[j]
      <3>1. q \in Seq(Byte)
        BY Pieces
      <3>2. /\ k \in 0..255 /\ Len(q) = k + 2
            /\ q[1] = o /\ q[2] = k /\ \A j \in 1..k : q[j + 2] = v[j]
        <4>1. IsOption(q, o, v)
          BY <1>6, Pieces
        <4> HIDE DEF q, v
        <4> QED BY <4>1 DEF IsOption
      <3> QED BY <3>1, <3>2, Zenon
    <2>4. w[o] = p \o q
      BY DEF WrittenInTurn
    <2> HIDE DEF q, v, k
    <2>5. Len(w[o]) \in 0..n /\ \A i \in 1..Len(w[o]) : w[o][i] = c[i]
      BY <1>2, <2>1 DEF Begins, n
    <2> HIDE DEF p
    <2>6. Len(p \o q) = m + k + 2 /\ \A i \in 1..(k + 2) : (p \o q)[m + i] = q[i]
      <3>1. Len(p \o q) = m + Len(q)
        BY <2>2, <2>3, Joined
      <3>2. \A i \in 1..Len(q) : (p \o q)[m + i] = q[i]
        BY <2>2, <2>3, Before
      <3>3. m + (k + 2) = m + k + 2
        BY <2>2, <2>3
      <3> QED BY <2>3, <3>1, <3>2, <3>3, Zenon
    <2>7. Len(w[o]) = m + k + 2
      BY <2>4, <2>6, Zenon
    <2> HIDE DEF m
    <2>8. ASSUME NEW i \in 1..(k + 2) PROVE d[m + i] = q[i]
      <3>1. m + i \in 1..Len(w[o]) /\ m + i \in 1..n
        BY <1>1, <2>2, <2>3, <2>5, <2>7
      <3>2. d[m + i] = w[o][m + i]
        <4>1. d[m + i] = c[m + i]
          BY <1>3, <3>1
        <4>2. w[o][m + i] = c[m + i]
          BY <2>5, <3>1
        <4> QED BY <4>1, <4>2
      <3>3. w[o][m + i] = q[i]
        BY <2>4, <2>6, Zenon
      <3> QED BY <3>2, <3>3, Zenon
    <2>9. d[m + 1] = o /\ d[m + 1 + 1] = k /\ \A j \in 1..k : d[m + 1 + 1 + j] = v[j]
      <3>1. 1 \in 1..(k + 2) /\ 2 \in 1..(k + 2) /\ m + 1 + 1 = m + 2
        BY <2>2, <2>3
      <3>2. \A j \in 1..k : j + 2 \in 1..(k + 2) /\ m + 1 + 1 + j = m + (j + 2)
        BY <2>2, <2>3
      <3>3. d[m + 1] = o /\ d[m + 1 + 1] = k
        BY <2>3, <2>8, <3>1
      <3>4. ASSUME NEW j \in 1..k PROVE d[m + 1 + 1 + j] = v[j]
        <4>1. d[m + (j + 2)] = q[j + 2]
          BY <2>8, <3>2
        <4> QED BY <2>3, <3>2, <4>1, Zenon
      <3> QED BY <3>3, <3>4
    <2>10. m + 1 < Len(d) /\ m + k + 2 <= n
      BY <1>1, <1>3, <2>2, <2>3, <2>5, <2>7
    <2>11. LengthAt(d, m + 1) = k
      BY <2>9, <2>10, Zenon DEF LengthAt
    <2>12. NextAt(d, m + 1) = m + k + 2 + 1
      <3>1. m + 1 + 2 + k \in Int /\ Len(d) + 1 \in Int /\ m + 1 + 2 + k <= Len(d) + 1
        <4>1. Len(d) = n + 10 /\ n \in Nat /\ m \in Nat /\ k \in 0..255
          BY <1>1, <1>3, <2>2, <2>3
        <4> HIDE DEF n
        <4> QED BY <2>10, <4>1
      <3>2. Lesser(m + 1 + 2 + k, Len(d) + 1) = m + 1 + 2 + k
        BY <3>1, OfTwo
      <3>3. m + 1 + 2 + k = m + k + 2 + 1
        BY <2>2, <2>3
      <3> QED BY <2>11, <3>2, <3>3, Zenon DEF NextAt
    <2> QED BY <2>7, <2>9, <2>11, <2>12, Zenon DEF OptionAt, m, p, v, k
  <1>7. d[Len(w[254]) + 1] = 255
    BY <1>3 DEF n, c
  <1> QED BY <1>3, <1>4, <1>5, <1>6, <1>7 DEF LaidOut

\* The data that parse reads for the option at place i.
ValueAt(d, i) ==
    [x \in 1..LengthAt(d, i) |-> IF i + 1 + x <= Len(d) THEN d[i + 1 + x] ELSE Undefined]

\* The options read from each place on.
ReadFrom(from, d) ==
    \A i \in 1..Len(d) :
        /\ d[i] = 255 => from[i] = <<>>
        /\ d[i] \notin {0, 255} => from[i] = Read(from[NextAt(d, i)], d[i], ValueAt(d, i))

(* The loop of parse, from each place on.                                  *)
LEMMA ParseLoop ==
    ASSUME NEW d \in Seq(Byte)
    PROVE  \E from : from[1] = Parse(d) /\ ReadFrom(from, d)
  <1> DEFINE end == Len(d)
             At(i) == IF i <= end THEN d[i] ELSE Undefined
             olen(i) == IF i < end THEN d[i + 1] ELSE 0
             next(i) == Lesser(i + 2 + olen(i), end + 1)
             value(i) == [x \in 1..olen(i) |-> At(i + 1 + x)]
             Body(g, i) ==
                CASE i > end -> <<>>
                  [] i <= end /\ d[i] = 0 -> g[i + 1]
                  [] i <= end /\ d[i] = 255 -> <<>>
                  [] OTHER -> Read(g[next(i)], d[i], value(i))
             from == CHOOSE g : g = [i \in 1..(end + 1) |-> Body(g, i)]
             V == {value(i) : i \in 1..end}
             S == {<<>>} \cup UNION {[X -> V] : X \in SUBSET Byte}
             Take(r, i) == IF d[i] = 0 THEN r
                           ELSE IF d[i] = 255 THEN <<>> ELSE Read(r, d[i], value(i))
             after(i) == IF d[i] = 0 THEN i + 1 ELSE next(i)
             step == [i \in 1..end |-> [r \in S |-> Take(r, i)]]
             nexts == [i \in 1..end |-> after(i)]
  <1>1. end \in Nat /\ \A i \in 1..end : d[i] \in Byte
    <2>1. end \in Nat
      OBVIOUS
    <2>2. ASSUME NEW i \in 1..end PROVE d[i] \in Byte
      OBVIOUS
    <2> QED BY <2>1, <2>2
  <1>2. Parse(d) = from[1]
    BY DEF Parse, Lesser
  <1>3. \A i \in 1..end : /\ olen(i) = LengthAt(d, i) /\ next(i) = NextAt(d, i)
                          /\ value(i) = ValueAt(d, i)
    BY DEF LengthAt, NextAt, ValueAt
  <1> HIDE DEF end
  <1>4. \A i \in 1..end : next(i) \in (i + 1)..(end + 1)
    BY <1>3, NextIs DEF end
  <1> HIDE DEF olen, At
  <1> HIDE DEF next, value
  <1>5. step \in [1..end -> [S -> S]]
    <2>1. ASSUME NEW i \in 1..end, NEW r \in S PROVE Take(r, i) \in S
      <3>1. d[i] \in Byte /\ value(i) \in V
        BY <1>1
      <3>2. Read(r, d[i], value(i)) \in UNION {[X -> V] : X \in SUBSET Byte}
        <4> HIDE DEF V
        <4>1. CASE r = <<>>
          <5>1. DOMAIN r = {}
            BY <4>1
          <5>2. Read(r, d[i], value(i)) = [o \in {d[i]} |-> value(i)]
            BY <5>1 DEF Read
          <5>3. Read(r, d[i], value(i)) \in [{d[i]} -> V]
            BY <3>1, <5>2
          <5> QED BY <3>1, <5>3
        <4>2. CASE r # <<>>
          <5>1. PICK X \in SUBSET Byte : r \in [X -> V]
            BY <4>2
          <5>2. Read(r, d[i], value(i)) \in [X \cup {d[i]} -> V]
            BY <3>1, <5>1 DEF Read
          <5>3. X \cup {d[i]} \in SUBSET Byte
            BY <3>1
          <5> QED BY <5>2, <5>3
        <4> QED BY <4>1, <4>2
      <3>3. <<>> \in S
        OBVIOUS
      <3> QED BY <3>2, <3>3
    <2> HIDE DEF S, Take
    <2> QED BY <2>1
  <1>6. StepsUp(nexts, end)
    <2>1. \A i \in 1..end : after(i) \in 2..(end + 1) /\ i < after(i)
      BY <1>1, <1>4
    <2> HIDE DEF after
    <2> QED BY <2>1 DEF StepsUp
  <1>7. <<>> \in S
    OBVIOUS
  <1>8. PICK g : RecursDown(g, end, S, <<>>, step, nexts)
    <2> HIDE DEF step, nexts, S
    <2> QED BY <1>1, <1>5, <1>6, <1>7, RecursionDown
  <1>9. g[end + 1] = <<>> /\ g = [i \in 1..(end + 1) |-> g[i]]
    BY <1>8 DEF RecursDown
  <1>10. ASSUME NEW i \in 1..end PROVE g[i] = Take(g[after(i)], i)
    <2>1. nexts[i] = after(i) /\ after(i) \in 1..(end + 1)
      BY <1>1, <1>4
    <2> HIDE DEF after
    <2>2. g[i] = step[i][g[after(i)]]
      <3> HIDE DEF step, nexts
      <3> QED BY <1>8, <2>1 DEF RecursDown
    <2>3. g[after(i)] \in S
      BY <1>8, <2>1 DEF RecursDown
    <2> HIDE DEF S, Take
    <2> QED BY <2>2, <2>3
  <1>11. \A h, i : i \in 1..end => Body(h, i) = Take(h[after(i)], i)
    <2> SUFFICES ASSUME NEW h, NEW i \in 1..end PROVE Body(h, i) = Take(h[after(i)], i)
      OBVIOUS
    <2>1. ~ (i > end) /\ i <= end
      BY <1>1
    <2> QED BY <2>1
  <1>12. \A h : Body(h, end + 1) = <<>>
    BY <1>1
  <1>13. \A i \in 1..(end + 1) : i \in 1..end \/ i = end + 1
    BY <1>1
  <1> HIDE DEF Body, Take, after
  <1>14. from = [i \in 1..(end + 1) |-> Body(from, i)]
    <2>1. g = [i \in 1..(end + 1) |-> Body(g, i)]
      <3>1. \A i \in 1..(end + 1) : g[i] = Body(g, i)
        BY <1>9, <1>10, <1>11, <1>12, <1>13
      <3> QED BY <1>9, <3>1
    <2> QED BY <2>1
  <1> HIDE DEF from
  <1>15. \A i \in 1..end : from[i] = Take(from[after(i)], i)
    <2>1. \A i \in 1..end : i \in 1..(end + 1)
      BY <1>1
    <2> QED BY <1>11, <1>14, <2>1
  <1>16. ASSUME NEW i \in 1..end
         PROVE  /\ d[i] = 255 => from[i] = <<>>
                /\ d[i] \notin {0, 255} =>
                      from[i] = Read(from[NextAt(d, i)], d[i], ValueAt(d, i))
    BY <1>3, <1>15 DEF Take, after
  <1>17. ReadFrom(from, d)
    BY <1>16 DEF ReadFrom, end
  <1> QED BY <1>2, <1>17

\* r holds the options with codes above o.
Above(r, options, o) ==
    LET D == DOMAIN options \cap (o + 1)..254
    IN r = [p \in D |-> options[p]]

(* A client that reads a string of options reads those that were written.  *)
LEMMA WireCarries ==
    ASSUME NEW options, Fitting(options)
    PROVE  Parse(ToBuffer(options)) = options
  <1> DEFINE d == ToBuffer(options)
  <1>1. PICK w : WrittenInTurn(w, options) /\ d = Wire(w)
    BY Written
  <1> HIDE DEF d
  <1>2. LaidOut(d, w, options)
    BY <1>1, Layout
  <1>3. d \in Seq(Byte) /\ \A o \in 0..254 : Len(w[o]) + 1 \in 1..Len(d)
    BY <1>2, Zenon DEF LaidOut
  <1>4. PICK from : from[1] = Parse(d) /\ ReadFrom(from, d)
    BY <1>3, ParseLoop
  <1> DEFINE R(o) == from[Len(w[o]) + 1]
             T == {k \in 0..254 : Above(R(254 - k), options, 254 - k)}
  <1>5. 0 \in T
    <2>1. from[Len(w[254]) + 1] = <<>>
      <3>1. 254 \in 0..254
        OBVIOUS
      <3>2. Len(w[254]) + 1 \in 1..Len(d)
        BY <1>3, <3>1
      <3> QED BY <1>2, <1>4, <3>2, Zenon DEF ReadFrom, LaidOut
    <2>2. Above(<<>>, options, 254)
      <3> DEFINE D == DOMAIN options \cap (254 + 1)..254
      <3>1. D = {}
        OBVIOUS
      <3> HIDE DEF D
      <3>2. <<>> = [p \in D |-> options[p]]
        BY <3>1
      <3> QED BY <3>2 DEF Above, D
    <2>3. 254 - 0 = 254 /\ 0 \in 0..254
      OBVIOUS
    <2> QED BY <2>1, <2>2, <2>3
  <1>6. ASSUME NEW o \in 1..254, Above(R(o), options, o) PROVE Above(R(o - 1), options, o - 1)
    <2> DEFINE A == DOMAIN options \cap (o + 1)..254
               B == DOMAIN options \cap (o - 1 + 1)..254
               i == Len(w[o - 1]) + 1
    <2>1. R(o) = [p \in A |-> options[p]]
      BY <1>6 DEF Above
    <2>2. CASE o \notin DOMAIN options
      <3>1. R(o - 1) = R(o)
        BY <1>2, <2>2 DEF LaidOut
      <3>2. A = B
        BY <2>2
      <3> QED BY <2>1, <3>1, <3>2 DEF Above
    <2>3. CASE o \in DOMAIN options
      <3> DEFINE v == options[o]
      <3>1. /\ d[i] = o /\ LengthAt(d, i) = Len(v) /\ NextAt(d, i) = Len(w[o]) + 1
            /\ \A j \in 1..Len(v) : d[i + 1 + j] = v[j]
        <4>1. OptionAt(d, i, options, o, Len(w[o]) + 1)
          BY <1>2, <2>3, Zenon DEF LaidOut
        <4> HIDE DEF i
        <4> QED BY <4>1, Zenon DEF OptionAt
      <3>2. i \in 1..Len(d) /\ Len(d) \in Nat
        <4>1. o - 1 \in 0..254
          OBVIOUS
        <4>2. i \in 1..Len(d)
          BY <1>3, <4>1
        <4>3. Len(d) \in Nat
          BY <1>3
        <4> QED BY <4>2, <4>3
      <3>3. v \in Seq(Byte) /\ Len(v) \in Nat
        <4>1. v \in Seq(Byte)
          BY <2>3 DEF Fitting
        <4> QED BY <4>1
      <3> HIDE DEF v
      <3>4. ValueAt(d, i) = v
        <4>1. ASSUME NEW j \in 1..Len(v) PROVE i + 1 + j <= Len(d)
          <5>1. Len(w[o]) + 1 \in 1..Len(d)
            <6>1. o \in 0..254
              OBVIOUS
            <6> QED BY <1>3, <6>1
          <5>2. Lesser(i + 2 + Len(v), Len(d) + 1) = Len(w[o]) + 1
            BY <3>1, Zenon DEF NextAt
          <5> HIDE DEF i
          <5> DEFINE a == i + 2 + Len(v)
                     b == Len(d) + 1
          <5>3. a \in Int /\ b \in Int
            BY <3>2, <3>3
          <5> HIDE DEF a, b
          <5>4. Lesser(a, b) = IF a <= b THEN a ELSE b
            BY <5>3, OfTwo
          <5>5. Lesser(a, b) <= Len(d)
            BY <3>2, <5>1, <5>2 DEF a, b
          <5>6. a <= Len(d)
            BY <3>2, <5>3, <5>4, <5>5 DEF b
          <5> QED BY <3>2, <3>3, <5>6 DEF a
        <4> HIDE DEF i
        <4>2. ValueAt(d, i) = [j \in 1..Len(v) |-> v[j]]
          BY <3>1, <4>1 DEF ValueAt
        <4> QED BY <3>3, <4>2
      <3> HIDE DEF i
      <3>5. R(o - 1) = Read(R(o), o, v)
        <4>1. o \notin {0, 255}
          OBVIOUS
        <4>2. from[i] = Read(from[NextAt(d, i)], d[i], ValueAt(d, i))
          BY <1>4, <3>1, <3>2, <4>1 DEF ReadFrom
        <4> QED BY <3>1, <3>4, <4>2, Zenon DEF i
      <3>6. B = A \cup {o} /\ o \notin A
        BY <2>3
      <3> HIDE DEF A, B, R
      <3>7. Read(R(o), o, v) = [p \in B |-> options[p]]
        BY <2>1, <3>6 DEF Read, v
      <3> QED BY <3>5, <3>7, Zenon DEF Above, B
    <2> QED BY <2>2, <2>3
  <1> HIDE DEF R
  <1>7. ASSUME NEW k \in 1..254, k - 1 \in T PROVE k \in T
    <2> DEFINE o == 254 - (k - 1)
    <2>1. o \in 1..254 /\ o - 1 = 254 - k /\ k \in 0..254
      OBVIOUS
    <2>2. Above(R(o), options, o)
      BY <1>7
    <2> HIDE DEF o
    <2>3. Above(R(o - 1), options, o - 1)
      BY <1>6, <2>1, <2>2
    <2> QED BY <2>1, <2>3
  <1>8. 254 \in T
    <2>1. 254 \in Nat /\ 254 \in 0..254
      OBVIOUS
    <2> HIDE DEF T
    <2>2. 0..254 \subseteq T
      BY <1>5, <1>7, <2>1, UpTo
    <2> QED BY <2>1, <2>2
  <1>9. Above(R(0), options, 0)
    <2>1. 254 - 254 = 0
      OBVIOUS
    <2> QED BY <1>8, <2>1
  <1>10. R(0) = options
    <2>1. DOMAIN options \cap (0 + 1)..254 = DOMAIN options
      <3>1. DOMAIN options \subseteq 1..254 /\ 0 + 1 = 1
        BY DEF Fitting
      <3> QED BY <3>1
    <2> QED BY <1>9, <2>1 DEF Above, Fitting
  <1>11. R(0) = Parse(d)
    <2>1. w[0] = <<>>
      BY <1>1 DEF WrittenInTurn
    <2>2. Len(<<>>) + 1 = 1
      OBVIOUS
    <2> QED BY <1>4, <2>1, <2>2, Zenon DEF R
  <1> QED BY <1>10, <1>11 DEF d

(* A client reads the options booter meant and no others: the lengths, the *)
(* end and what the relay sent fit, for up to 63 resolvers.                *)
THEOREM RepliesSurvive == Spec => []ReplySurvivesTheWire
  <1>1. ASSUME NEW x \in Exchanges, ~ Throws(x.packet, x.params),
               Len(x.params.resolvers \o x.config.resolvers) <= 63
        PROVE  LET reply == Reply(x.packet, x.params, x.config)
               IN reply.options = Parse(ToBuffer(reply.options))
    <2> DEFINE options == ReplyOptions(x.packet, x.params, x.config)
    <2>1. Fitting(options)
      BY <1>1, ReplyFits
    <2> HIDE DEF options
    <2>2. Parse(ToBuffer(options)) = options
      BY <2>1, WireCarries
    <2>3. Reply(x.packet, x.params, x.config).options = options
      BY DEF Reply, options
    <2> QED BY <2>2, <2>3
  <1>2. GivenInv => ReplySurvivesTheWire
    BY <1>1, GivenPacket DEF ReplySurvivesTheWire
  <1> QED BY <1>2, GivenInputs, PTL

-------------------------------------------------------------------------------
(* The boot modules of a CN.                                               *)

\* f holds the files pushed after each step of the loop over the walk.
PushesInTurn(f, walk, kind) ==
    \A i \in 1..Len(walk) :
        f[i] = IF walk[i] \in kind THEN Append(f[i - 1], walk[i]) ELSE f[i - 1]

(* The loop that collects the files of a kind, one list after the other.   *)
LEMMA PushLoop ==
    ASSUME NEW F, NEW walk \in Seq(F), NEW kind
    PROVE  \E f : /\ f[0] = <<>> /\ f[Len(walk)] = Pushed(walk, kind)
                  /\ PushesInTurn(f, walk, kind)
  <1> DEFINE n == Len(walk)
             S == Seq(kind)
             Push(p, x) == IF x \in kind THEN Append(p, x) ELSE p
             step == [i \in 1..n |-> [p \in S |-> Push(p, walk[i])]]
             Body(g, x) == IF x = {} THEN <<>> ELSE Push(g[x \ {Max(x)}], walk[Max(x)])
             h == CHOOSE g : g = [x \in SUBSET DOMAIN walk |-> Body(g, x)]
             f == [i \in 0..n |-> h[1..i]]
  <1>1. n \in Nat /\ DOMAIN walk = 1..n
    OBVIOUS
  <1>2. <<>> \in S
    OBVIOUS
  <1>3. step \in [1..n -> [S -> S]]
    <2>1. ASSUME NEW i \in 1..n, NEW p \in S PROVE Push(p, walk[i]) \in S
      OBVIOUS
    <2> HIDE DEF S, Push
    <2> QED BY <2>1
  <1> HIDE DEF S
  <1>4. PICK g : Folds(g, n, S, <<>>, step)
    <2> HIDE DEF step, n
    <2> QED BY <1>1, <1>2, <1>3, FoldRuns
  <1>5. ASSUME NEW x \in SUBSET (1..n) PROVE g[x] = Body(g, x)
    <2> HIDE DEF Push
    <2>1. CASE x # {}
      <3>1. Max(x) \in 1..n /\ x \ {Max(x)} \in SUBSET (1..n)
        BY <1>1, <2>1, MaxOfIndices
      <3> HIDE DEF n
      <3> QED BY <1>4, <2>1, <3>1 DEF Folds
    <2> QED BY <1>4, <2>1 DEF Folds
  <1>6. h = [x \in SUBSET DOMAIN walk |-> Body(h, x)]
    <2> HIDE DEF Body
    <2>1. g = [x \in SUBSET DOMAIN walk |-> Body(g, x)]
      BY <1>1, <1>4, <1>5 DEF Folds
    <2> QED BY <2>1
  <1>7. Pushed(walk, kind) = h[DOMAIN walk]
    BY DEF Pushed, FoldLeft, MapThenFoldSet
  <1> HIDE DEF h, Push
  <1>8. f[0] = <<>>
    <2>1. 1..0 = {}
      OBVIOUS
    <2> QED BY <1>1, <1>6, <2>1
  <1>9. ASSUME NEW i \in 1..n PROVE f[i] = Push(f[i - 1], walk[i])
    <2>1. Max(1..i) = i /\ (1..i) \ {Max(1..i)} = 1..(i - 1)
      BY MaxOfInterval
    <2>2. 1..i \in SUBSET (1..n) /\ 1..i # {} /\ i - 1 \in 0..n /\ i \in 0..n
      <3>1. n \in Nat
        BY <1>1
      <3> HIDE DEF n
      <3>2. 1..i \subseteq 1..n
        BY <3>1
      <3>3. i - 1 \in 0..n /\ i \in 0..n /\ i \in 1..i
        BY <3>1
      <3> QED BY <3>2, <3>3
    <2>3. h[1..i] = Body(h, 1..i)
      <3> HIDE DEF Body
      <3> QED BY <1>1, <1>6, <2>2
    <2> HIDE DEF n
    <2> QED BY <2>1, <2>2, <2>3
  <1>10. f[n] = Pushed(walk, kind)
    BY <1>1, <1>7
  <1> HIDE DEF f
  <1>11. PushesInTurn(f, walk, kind)
    BY <1>9 DEF PushesInTurn, Push
  <1> QED BY <1>8, <1>10, <1>11

(* The files pushed are of the kind, and if the walk meets every file once *)
(* and the kind is one file, it is pushed at most once.                    *)
LEMMA PushedFiles ==
    ASSUME NEW F, NEW walk \in Seq(F), NEW kind
    PROVE  /\ Pushed(walk, kind) \in Seq(kind)
           /\ \A x : /\ kind = {x}
                     /\ \A i, j \in DOMAIN walk : walk[i] = walk[j] => i = j
                     => Len(Pushed(walk, kind)) <= 1
  <1> DEFINE n == Len(walk)
  <1>1. PICK f : /\ f[0] = <<>> /\ f[n] = Pushed(walk, kind)
                 /\ PushesInTurn(f, walk, kind)
    BY PushLoop
  <1>2. n \in Nat /\ DOMAIN walk = 1..n /\ n \in 0..n
    OBVIOUS
  <1>3. \A i \in 1..n : f[i] = IF walk[i] \in kind THEN Append(f[i - 1], walk[i]) ELSE f[i - 1]
    BY <1>1 DEF PushesInTurn
  <1>4. f[n] \in Seq(kind)
    <2> DEFINE T == {i \in 0..n : f[i] \in Seq(kind)}
    <2>1. 0 \in T
      <3>1. f[0] \in Seq(kind)
        BY <1>1
      <3> QED BY <1>2, <3>1
    <2>2. ASSUME NEW i \in 1..n, i - 1 \in T PROVE i \in T
      <3>1. f[i - 1] \in Seq(kind) /\ i \in 0..n
        BY <1>2, <2>2
      <3>2. walk[i] \in kind => Append(f[i - 1], walk[i]) \in Seq(kind)
        BY <3>1
      <3>3. f[i] \in Seq(kind)
        BY <1>3, <3>1, <3>2
      <3> QED BY <3>1, <3>3
    <2> HIDE DEF T
    <2>3. 0..n \subseteq T
      BY <1>2, <2>1, <2>2, UpTo
    <2> QED BY <1>2, <2>3 DEF T
  <1>5. ASSUME NEW x, kind = {x}, \A i, j \in DOMAIN walk : walk[i] = walk[j] => i = j
        PROVE  Len(f[n]) <= 1
    <2> DEFINE Once(p, i) == \/ p = <<>>
                             \/ p = <<x>> /\ \E j \in 1..i : walk[j] = x
               T == {i \in 0..n : Once(f[i], i)}
    <2>1. 0 \in T
      BY <1>1, <1>2
    <2>2. ASSUME NEW i \in 1..n, i - 1 \in T PROVE i \in T
      <3>1. Once(f[i - 1], i - 1)
        BY <2>2
      <3>2. CASE walk[i] = x
        <4>1. \A j \in 1..(i - 1) : walk[j] # x
          BY <1>2, <1>5, <3>2
        <4>2. f[i - 1] = <<>>
          BY <3>1, <4>1
        <4>3. f[i] = <<x>>
          <5>1. f[i] = Append(f[i - 1], x)
            BY <1>3, <1>5, <3>2
          <5>2. Append(<<>>, x) = <<x>>
            OBVIOUS
          <5> QED BY <4>2, <5>1, <5>2
        <4> QED BY <1>2, <3>2, <4>3
      <3>3. CASE walk[i] # x
        <4>1. f[i] = f[i - 1]
          BY <1>3, <1>5, <3>3
        <4>2. \A j \in 1..(i - 1) : j \in 1..i
          BY <1>2
        <4> QED BY <1>2, <3>1, <4>1, <4>2
      <3> QED BY <3>2, <3>3
    <2> HIDE DEF T
    <2>3. 0..n \subseteq T
      BY <1>2, <2>1, <2>2, UpTo
    <2>4. Once(f[n], n)
      <3>1. n \in T
        BY <1>2, <2>3
      <3>2. \A i \in T : Once(f[i], i)
        BY DEF T
      <3> HIDE DEF Once
      <3> QED BY <3>1, <3>2
    <2>5. Len(<<>>) = 0 /\ Len(<<x>>) = 1
      OBVIOUS
    <2>6. f[n] = <<>> \/ f[n] = <<x>>
      BY <2>4
    <2>7. Len(f[n]) = 0 \/ Len(f[n]) = 1
      BY Zenon, <2>5, <2>6
    <2> DEFINE l == Len(f[n])
    <2> HIDE DEF l
    <2>8. l = 0 \/ l = 1
      BY Zenon, <2>7 DEF l
    <2>9. l <= 1
      BY <2>8
    <2> QED BY Zenon, <2>9 DEF l
  <1> QED BY <1>1, <1>4, <1>5

\* A file or a hash under bootfs.
ModuleFile(f) == f.type \in {"file", "hash"} /\ f = InBootFs(f.of, f.type)

(* The boot modules that a script lists: files under bootfs, those for the  *)
(* network among the first two.                                            *)
LEMMA FilesFound ==
    ASSUME NEW m \in Menus
    PROVE  LET files == FindFiles(m.walk)
           IN /\ List(files)
              /\ \A f \in ToSet(files) : ModuleFile(f)
              /\ \A i \in DOMAIN files : files[i] \in Networking => i <= 2
  <1> DEFINE walk == m.walk
             F == {InBootFs(f.of, f.type) : f \in ToSet(walk)}
             jf == InBootFs("networking.json", "file")
             jh == InBootFs("networking.json", "hash")
             others == ToSet(walk) \ Networking
             A == Pushed(walk, {jf})
             B == Pushed(walk, {jh})
             C == Pushed(walk, others)
  <1>1. /\ walk \in Seq(F)
        /\ \A f \in ToSet(walk) : f.type \in {"file", "hash"}
        /\ \A i, j \in DOMAIN walk : walk[i] = walk[j] => i = j
    BY MenusAssumption
  <1>2. \A f \in others : ModuleFile(f)
    <2>1. \A f \in ToSet(walk) : f \in F
      BY <1>1 DEF ToSet
    <2>2. \A f \in F : f = InBootFs(f.of, f.type)
      BY DEF InBootFs
    <2> QED BY <1>1, <2>1, <2>2 DEF ModuleFile
  <1>3. \A f \in {jf, jh} : ModuleFile(f)
    BY DEF ModuleFile, InBootFs
  <1>4. FindFiles(walk) = A \o B \o C
    BY DEF FindFiles
  <1> HIDE DEF F, jf, jh, others, walk
  <1>5. /\ A \in Seq({jf}) /\ Len(A) <= 1
        /\ B \in Seq({jh}) /\ Len(B) <= 1
        /\ C \in Seq(others)
    BY <1>1, PushedFiles
  <1> HIDE DEF A, B, C
  <1>6. /\ List(A) /\ List(B) /\ List(C)
        /\ ToSet(A) \subseteq {jf} /\ ToSet(B) \subseteq {jh} /\ ToSet(C) \subseteq others
    BY <1>5 DEF List, ToSet
  <1> DEFINE nets == A \o B
             files == nets \o C
  <1>7. /\ List(nets) /\ ToSet(nets) = ToSet(A) \cup ToSet(B)
        /\ Len(A) \in Nat /\ Len(B) \in Nat /\ Len(nets) = Len(A) + Len(B)
    BY <1>6, ListAppended
  <1> HIDE DEF nets
  <1>8. /\ List(files) /\ ToSet(files) = ToSet(nets) \cup ToSet(C)
        /\ Len(C) \in Nat /\ Len(files) = Len(nets) + Len(C)
        /\ DOMAIN C = 1..Len(C) /\ DOMAIN files = 1..Len(files)
        /\ \A i \in 1..Len(C) : files[Len(nets) + i] = C[i]
    BY <1>6, <1>7, ListAppended
  <1>9. FindFiles(walk) = files
    BY <1>4 DEF nets
  <1> HIDE DEF files
  <1>10. \A f \in ToSet(files) : ModuleFile(f)
    BY <1>2, <1>3, <1>6, <1>7, <1>8
  <1>11. ASSUME NEW i \in DOMAIN files, files[i] \in Networking PROVE i <= 2
    <2> SUFFICES ASSUME ~ (i <= 2) PROVE FALSE
      OBVIOUS
    <2>1. i \in 1..(Len(nets) + Len(C)) /\ Len(nets) \in Nat /\ Len(nets) <= 2
      BY <1>5, <1>7, <1>8
    <2>2. i - Len(nets) \in 1..Len(C) /\ i = Len(nets) + (i - Len(nets))
      BY <1>8, <2>1
    <2>3. files[i] = C[i - Len(nets)]
      BY <1>8, <2>2
    <2>4. files[i] \in others
      BY <1>6, <1>8, <2>2, <2>3 DEF ToSet
    <2> QED BY <1>11, <2>4 DEF others
  <1>12. /\ List(FindFiles(walk))
         /\ \A f \in ToSet(FindFiles(walk)) : ModuleFile(f)
         /\ \A i \in DOMAIN FindFiles(walk) : FindFiles(walk)[i] \in Networking => i <= 2
    BY <1>8, <1>9, <1>10, <1>11
  <1> QED BY <1>12 DEF walk

-------------------------------------------------------------------------------
(* The lines of the scripts.                                               *)

\* The line of a boot module where types are given, as all scripts of SmartOS do,
\* and where there are none, as in boot.ipxe of Linux.
Typed(f)   == Line(f.type, "", f.of, "", f)
Untyped(f) == Line("", "/etc/triton-", f.of, f.type, f)

LineOf(f, os) == IF os = "smartos" THEN Typed(f) ELSE Untyped(f)

\* The lines of no boot module, or of all of them.
LinesFor(lines, files, os) ==
    lines = <<>> \/ lines = [i \in DOMAIN files |-> LineOf(files[i], os)]

\* A script lists some lines, and one for each of some boot modules.
Lists(script, head, files, os) ==
    \A l \in ToSet(script) :
       l \in head \/ \E f \in ToSet(files) : l = LineOf(f, os)

(* The lines for the boot modules, those for the network among the first.  *)
LEMMA ModuleLines ==
    ASSUME NEW m \in Menus, NEW lines, NEW os, LinesFor(lines, Opts(m).bootFiles, os)
    PROVE  /\ List(lines)
           /\ Lists(lines, {}, Opts(m).bootFiles, os)
           /\ \A i \in DOMAIN lines : lines[i].file \in Networking => i <= 2
  <1> DEFINE files == Opts(m).bootFiles
  <1>1. files = FindFiles(m.walk)
    BY DEF Opts
  <1>2. List(files) /\ \A i \in DOMAIN files : files[i] \in Networking => i <= 2
    BY <1>1, FilesFound
  <1>3. \A f : LineOf(f, os).file = f
    BY DEF LineOf, Typed, Untyped, Line
  <1> HIDE DEF files
  <1>4. CASE lines = <<>>
    BY <1>4, EmptyList DEF Lists
  <1>5. ASSUME lines # <<>> PROVE lines = [i \in DOMAIN files |-> LineOf(files[i], os)]
    BY <1>5 DEF LinesFor, files
  <1>6. CASE lines # <<>>
    <2>1. Len(files) \in Nat /\ DOMAIN files = 1..Len(files) /\ DOMAIN lines = DOMAIN files
      BY <1>2, <1>5, <1>6 DEF List
    <2>2. \A i \in DOMAIN files : lines[i] = LineOf(files[i], os)
      BY <1>5, <1>6
    <2>3. List(lines)
      <3>1. lines = [i \in 1..Len(files) |-> lines[i]]
        BY <1>5, <1>6, <2>1, <2>2
      <3> QED BY <2>1, <3>1, ListMapped
    <2>4. \A l \in ToSet(lines) : \E f \in ToSet(files) : l = LineOf(f, os)
      BY <2>1, <2>2 DEF ToSet
    <2>5. \A i \in DOMAIN lines : lines[i].file \in Networking => i <= 2
      BY <1>2, <1>3, <2>1, <2>2
    <2> QED BY <2>3, <2>4, <2>5 DEF files, Lists
  <1> QED BY <1>4, <1>6

\* The lines of the platform, and of the hashes of its files.
KernelLine(o)   == Line("kernel", "", "kernel", "", Kernel(o))
RamdiskLine(o)  == Line("rootfs", "", "ramdisk", "", Ramdisk(o))
RamdiskHash(o)  == Line("hash", "", "ramdisk", "", HashOf(Ramdisk(o)))
SquashfsHash    == Line("", "", "squashfs", "hash", HashOf(InOs("squashfs")))
InitrdHash(o)   == Line("", "", Ramdisk(o).of, "hash", HashOf(Ramdisk(o)))
MenuNodeConfig  == Line("file", "", "etc/node.config", "", NodeConfigFile)
IpxeNodeConfig  == Line("", "/etc/", "node.config", "", NodeConfigFile)

(* The lines of the platform are two; those of hashes are at most two.     *)
LEMMA PlatformHead ==
    ASSUME NEW o
    PROVE  /\ List(PlatformLines(o)) /\ Len(PlatformLines(o)) = 2
           /\ ToSet(PlatformLines(o)) = {KernelLine(o), RamdiskLine(o)}
           /\ List(SmartosHash(o)) /\ Len(SmartosHash(o)) <= 1
           /\ ToSet(SmartosHash(o)) \subseteq {RamdiskHash(o)}
           /\ List(LinuxHashes(o)) /\ Len(LinuxHashes(o)) <= 2
           /\ ToSet(LinuxHashes(o)) \subseteq {SquashfsHash, InitrdHash(o)}
  <1> DEFINE P == PlatformLines(o)
             S == SmartosHash(o)
             L == LinuxHashes(o)
             two == <<SquashfsHash, InitrdHash(o)>>
  <1>1. /\ List(P) /\ ToSet(P) = {KernelLine(o), RamdiskLine(o)} /\ Len(P) = 2
    <2>1. P = <<KernelLine(o), RamdiskLine(o)>>
      BY DEF PlatformLines, KernelLine, RamdiskLine
    <2> HIDE DEF P
    <2> QED BY <2>1, ShortLists
  <1>2. List(S) /\ Len(S) <= 1 /\ ToSet(S) \subseteq {RamdiskHash(o)}
    <2>1. S = <<>> \/ S = <<RamdiskHash(o)>>
      BY DEF SmartosHash, RamdiskHash
    <2> HIDE DEF S
    <2>2. CASE S = <<>>
      <3>1. List(S) /\ ToSet(S) = {} /\ Len(S) = 0
        BY <2>2, EmptyList
      <3> QED BY <3>1
    <2>3. CASE S = <<RamdiskHash(o)>>
      <3>1. List(S) /\ ToSet(S) = {RamdiskHash(o)} /\ Len(S) = 1
        BY <2>3, ShortLists
      <3> QED BY <3>1
    <2> QED BY <2>1, <2>2, <2>3
  <1>3. List(L) /\ Len(L) <= 2 /\ ToSet(L) \subseteq {SquashfsHash, InitrdHash(o)}
    <2>1. InOs("squashfs").of = "squashfs"
      BY DEF InOs
    <2>2. L = <<>> \/ L = two
      BY Zenon, <2>1 DEF LinuxHashes, SquashfsHash, InitrdHash
    <2>3. List(two) /\ ToSet(two) = {SquashfsHash, InitrdHash(o)} /\ Len(two) = 2
      BY ShortLists
    <2> HIDE DEF L, two
    <2>4. CASE L = <<>>
      <3>1. List(L) /\ ToSet(L) = {} /\ Len(L) = 0
        BY <2>4, EmptyList
      <3> QED BY <3>1
    <2>5. CASE L = two
      <3>1. List(L) /\ ToSet(L) = {SquashfsHash, InitrdHash(o)} /\ Len(L) = 2
        BY Zenon, <2>3, <2>5
      <3> QED BY <3>1
    <2> QED BY <2>2, <2>4, <2>5
  <1> HIDE DEF P, S, L
  <1> QED BY <1>1, <1>2, <1>3 DEF P, S, L

\* The lines of the scripts but for the boot modules.
SmartosHead(o) == {KernelLine(o), RamdiskLine(o), RamdiskHash(o)}
MenuHead(o)    == {KernelLine(o), RamdiskLine(o), MenuNodeConfig}
IpxeHead(o)    == {KernelLine(o), RamdiskLine(o), SquashfsHash, InitrdHash(o), IpxeNodeConfig}

(* What boot.ipxe loads: up to five lines, and then the boot modules.      *)
LEMMA IpxeLoads ==
    ASSUME NEW m \in Menus
    PROVE  LET o == Opts(m)
           IN /\ LinesFor(IpxeModules(o), o.bootFiles, o.os)
              /\ \E head : /\ List(head) /\ Len(head) <= 5 /\ head # <<>>
                           /\ ToSet(head) \subseteq IF o.os = "smartos" THEN SmartosHead(o)
                                                                       ELSE IpxeHead(o)
                           /\ IpxeCfg(o) = head \o IpxeModules(o)
  <1> DEFINE o == Opts(m)
             P == PlatformLines(o)
             modules == IpxeModules(o)
  <1>1. LinesFor(modules, o.bootFiles, o.os)
    BY DEF IpxeModules, LinesFor, LineOf, Typed, Untyped
  <1>2. /\ List(P) /\ Len(P) = 2 /\ ToSet(P) = {KernelLine(o), RamdiskLine(o)}
        /\ List(SmartosHash(o)) /\ Len(SmartosHash(o)) <= 1
        /\ ToSet(SmartosHash(o)) \subseteq {RamdiskHash(o)}
        /\ List(LinuxHashes(o)) /\ Len(LinuxHashes(o)) <= 2
        /\ ToSet(LinuxHashes(o)) \subseteq {SquashfsHash, InitrdHash(o)}
    BY PlatformHead
  <1> DEFINE smartos == P \o SmartosHash(o)
             rest == LinuxHashes(o) \o <<IpxeNodeConfig>>
             linux == P \o rest
  <1>3. IpxeCfg(o) = (IF o.os = "smartos" THEN smartos ELSE linux) \o modules
    BY DEF IpxeCfg, IpxeNodeConfig
  <1>4. /\ List(smartos) /\ Len(smartos) <= 5 /\ smartos # <<>>
        /\ ToSet(smartos) \subseteq SmartosHead(o)
    <2> HIDE DEF P
    <2>1. /\ List(smartos) /\ ToSet(smartos) = ToSet(P) \cup ToSet(SmartosHash(o))
          /\ Len(SmartosHash(o)) \in Nat /\ Len(smartos) = Len(P) + Len(SmartosHash(o))
      BY <1>2, ListAppended
    <2> HIDE DEF smartos
    <2>2. Len(smartos) <= 5 /\ Len(smartos) # 0
      BY <1>2, <2>1
    <2>3. smartos # <<>>
      BY <2>2, EmptyList
    <2> QED BY <1>2, <2>1, <2>2, <2>3 DEF SmartosHead
  <1>5. /\ List(linux) /\ Len(linux) <= 5 /\ linux # <<>>
        /\ ToSet(linux) \subseteq IpxeHead(o)
    <2>1. /\ List(<<IpxeNodeConfig>>) /\ ToSet(<<IpxeNodeConfig>>) = {IpxeNodeConfig}
          /\ Len(<<IpxeNodeConfig>>) = 1
      BY ShortLists
    <2>2. /\ List(rest) /\ ToSet(rest) = ToSet(LinuxHashes(o)) \cup {IpxeNodeConfig}
          /\ Len(LinuxHashes(o)) \in Nat /\ Len(rest) = Len(LinuxHashes(o)) + 1
      BY <1>2, <2>1, ListAppended
    <2> HIDE DEF rest, P
    <2>3. /\ List(linux) /\ ToSet(linux) = ToSet(P) \cup ToSet(rest)
          /\ Len(linux) = Len(P) + Len(rest)
      BY <1>2, <2>2, ListAppended
    <2> HIDE DEF linux
    <2>4. Len(linux) <= 5 /\ Len(linux) # 0
      BY <1>2, <2>2, <2>3
    <2>5. linux # <<>>
      BY <2>4, EmptyList
    <2> QED BY <1>2, <2>2, <2>3, <2>4, <2>5 DEF IpxeHead
  <1> HIDE DEF smartos, linux, modules, o
  <1>6. \E head : /\ List(head) /\ Len(head) <= 5 /\ head # <<>>
                  /\ ToSet(head) \subseteq IF o.os = "smartos" THEN SmartosHead(o) ELSE IpxeHead(o)
                  /\ IpxeCfg(o) = head \o modules
    <2>1. CASE o.os = "smartos"
      <3>1. IpxeCfg(o) = smartos \o modules
        BY <1>3, <2>1
      <3> QED BY <1>4, <2>1, <3>1
    <2>2. CASE o.os # "smartos"
      <3>1. IpxeCfg(o) = linux \o modules
        BY <1>3, <2>2
      <3> QED BY <1>5, <2>2, <3>1
    <2> QED BY <2>1, <2>2
  <1> QED BY <1>1, <1>6 DEF modules, o

(* The lines of boot.ipxe.                                                 *)
LEMMA IpxeLists ==
    ASSUME NEW m \in Menus
    PROVE  LET o == Opts(m)
               smartos == o.os = "smartos"
           IN Lists(IpxeCfg(o), IF smartos THEN SmartosHead(o) ELSE IpxeHead(o),
                    o.bootFiles, o.os)
  <1> DEFINE o == Opts(m)
             smartos == o.os = "smartos"
             H == IF smartos THEN SmartosHead(o) ELSE IpxeHead(o)
             modules == IpxeModules(o)
  <1>1. LinesFor(modules, o.bootFiles, o.os)
    BY IpxeLoads
  <1>2. PICK head : /\ List(head) /\ ToSet(head) \subseteq H
                    /\ IpxeCfg(o) = head \o modules
    BY IpxeLoads
  <1>3. List(modules) /\ Lists(modules, {}, o.bootFiles, o.os)
    <2> HIDE DEF modules
    <2> QED BY <1>1, ModuleLines
  <1>4. ToSet(head \o modules) = ToSet(head) \cup ToSet(modules)
    BY <1>2, <1>3, ListAppended
  <1> HIDE DEF H, modules
  <1>5. Lists(IpxeCfg(o), H, o.bootFiles, o.os)
    BY <1>2, <1>3, <1>4 DEF Lists
  <1> QED BY <1>5 DEF H

(* The lines of each title of menu.lst.                                    *)
LEMMA MenuLists ==
    ASSUME NEW m \in Menus, NEW script \in ToSet(MenuLst(Opts(m)))
    PROVE  LET o == Opts(m)
           IN Lists(script, IF o.os = "smartos" THEN SmartosHead(o) ELSE MenuHead(o),
                    o.bootFiles, "smartos")
  <1> DEFINE o == Opts(m)
             P == PlatformLines(o)
             hash == SmartosHash(o)
             menu == MenuModules(o)
             start == P \o hash
             live == start \o menu
  <1>1. /\ List(P) /\ ToSet(P) = {KernelLine(o), RamdiskLine(o)}
        /\ List(hash) /\ ToSet(hash) \subseteq {RamdiskHash(o)}
    BY PlatformHead
  <1>2. CASE o.os = "smartos"
    <2>1. MenuLst(o) = <<live, live, P>>
      BY <1>2 DEF MenuLst
    <2>2. script = live \/ script = P
      <3> HIDE DEF live, P
      <3> QED BY <2>1 DEF ToSet
    <2>3. LinesFor(menu, o.bootFiles, "smartos")
      <3>1. CASE o.disableBootTimeFiles
        BY <3>1 DEF MenuModules, LinesFor
      <3>2. CASE ~ o.disableBootTimeFiles /\ o.bootFsDir
        BY <3>2 DEF MenuModules, LinesFor, LineOf, Typed
      <3>3. CASE ~ o.disableBootTimeFiles /\ ~ o.bootFsDir
        <4>1. menu = [i \in DOMAIN <<>> |-> Typed(<<>>[i])]
          BY <3>3 DEF MenuModules, Typed
        <4>2. DOMAIN <<>> = {} /\ <<>> = [i \in {} |-> Typed(<<>>[i])]
          OBVIOUS
        <4> QED BY <4>1, <4>2 DEF LinesFor
      <3> QED BY <3>1, <3>2, <3>3
    <2>4. List(menu) /\ Lists(menu, {}, o.bootFiles, "smartos")
      BY <2>3, ModuleLines
    <2> HIDE DEF P, hash, menu
    <2>5. List(start) /\ ToSet(start) = ToSet(P) \cup ToSet(hash)
      BY <1>1, ListAppended
    <2> HIDE DEF start
    <2>6. ToSet(live) = ToSet(start) \cup ToSet(menu)
      BY <2>4, <2>5, ListAppended
    <2> HIDE DEF live, o
    <2>7. Lists(script, SmartosHead(o), o.bootFiles, "smartos")
      BY <1>1, <2>2, <2>4, <2>5, <2>6 DEF Lists, SmartosHead
    <2> QED BY <1>2, <2>7 DEF o
  <1>3. CASE o.os # "smartos"
    <2> DEFINE modules == IF o.disableBootTimeFiles THEN <<>>
                          ELSE [i \in DOMAIN o.bootFiles |-> LineOf(o.bootFiles[i], "smartos")]
               rest == modules \o <<MenuNodeConfig>>
               title == P \o rest
    <2>1. MenuLst(o) = <<title>>
      BY <1>3 DEF MenuLst, LinuxMenuModules, MenuNodeConfig, LineOf, Typed
    <2>2. script = title
      <3> HIDE DEF title
      <3> QED BY <2>1 DEF ToSet
    <2>3. LinesFor(modules, o.bootFiles, "smartos")
      BY DEF LinesFor
    <2>4. List(modules) /\ Lists(modules, {}, o.bootFiles, "smartos")
      BY <2>3, ModuleLines
    <2>5. List(<<MenuNodeConfig>>) /\ ToSet(<<MenuNodeConfig>>) = {MenuNodeConfig}
      BY ShortLists
    <2> HIDE DEF P, modules
    <2>6. List(rest) /\ ToSet(rest) = ToSet(modules) \cup {MenuNodeConfig}
      BY <2>4, <2>5, ListAppended
    <2> HIDE DEF rest
    <2>7. ToSet(title) = ToSet(P) \cup ToSet(rest)
      BY <1>1, <2>6, ListAppended
    <2> HIDE DEF title, o
    <2>8. Lists(script, MenuHead(o), o.bootFiles, "smartos")
      BY <1>1, <2>2, <2>4, <2>6, <2>7 DEF Lists, MenuHead
    <2> QED BY <1>3, <2>8 DEF o
  <1> QED BY <1>2, <1>3

-------------------------------------------------------------------------------
(* The invariants of BootConfig about the scripts.                         *)

\* No two lines give one name and type to different files.
NoTwins(script) ==
    \A l, k \in ToSet(script) : l.type = k.type /\ l.name = k.name => l.file = k.file

(* The parts of the lines.                                                 *)
LEMMA LineParts ==
    ASSUME NEW o
    PROVE  /\ KernelLine(o).type = "kernel" /\ KernelLine(o).name[1] = ""
           /\ RamdiskLine(o).type = "rootfs" /\ RamdiskLine(o).name[1] = ""
           /\ RamdiskHash(o).type = "hash" /\ RamdiskHash(o).name[2] = "ramdisk"
           /\ SquashfsHash.type = ""
           /\ SquashfsHash.name[1] = "" /\ SquashfsHash.name[2] = "squashfs"
           /\ InitrdHash(o).type = ""
           /\ InitrdHash(o).name[1] = "" /\ InitrdHash(o).name[2] = Ramdisk(o).of
           /\ MenuNodeConfig.type = "file" /\ MenuNodeConfig.name[2] = "etc/node.config"
           /\ IpxeNodeConfig.type = "" /\ IpxeNodeConfig.name[1] = "/etc/"
  BY DEF Line, KernelLine, RamdiskLine, RamdiskHash, SquashfsHash, InitrdHash, MenuNodeConfig,
         IpxeNodeConfig

(* The parts of the line of a boot module.                                 *)
LEMMA ModuleParts ==
    ASSUME NEW f
    PROVE  /\ Typed(f).type = f.type /\ Typed(f).name[2] = f.of /\ Typed(f).file = f
           /\ Untyped(f).name[1] = "/etc/triton-"
           /\ Untyped(f).name[2] = f.of /\ Untyped(f).name[3] = f.type /\ Untyped(f).file = f
  BY DEF Line, Typed, Untyped

(* Lines keep apart if those of the platform do, no boot module takes the  *)
(* name of one of these, and no two boot modules have one name.            *)
LEMMA LinesApart ==
    ASSUME NEW script, NEW head, NEW files, NEW os, Lists(script, head, files, os),
           \A l, k \in head : l.type = k.type /\ l.name = k.name => l.file = k.file,
           \A l \in head : \A f \in ToSet(files) :
              ~ (l.type = LineOf(f, os).type /\ l.name = LineOf(f, os).name),
           \A f, g \in ToSet(files) :
              /\ LineOf(f, os).type = LineOf(g, os).type
              /\ LineOf(f, os).name = LineOf(g, os).name
              => f = g
    PROVE  NoTwins(script)
  <1> SUFFICES ASSUME NEW l \in ToSet(script), NEW k \in ToSet(script),
                      l.type = k.type, l.name = k.name
               PROVE  l.file = k.file
    BY DEF NoTwins
  <1>1. /\ l \in head \/ \E f \in ToSet(files) : l = LineOf(f, os)
        /\ k \in head \/ \E f \in ToSet(files) : k = LineOf(f, os)
    BY DEF Lists
  <1> QED BY <1>1

(* Boot modules that have their types keep apart from the modules of the   *)
(* platform, but for one that would take a name.                           *)
LEMMA TypedApart ==
    ASSUME NEW o, NEW files, NEW script,
           \A f \in ToSet(files) : ModuleFile(f), ToSet(files) \cap Clashing(o) = {},
           Lists(script, IF o.os = "smartos" THEN SmartosHead(o) ELSE MenuHead(o), files, "smartos")
    PROVE  NoTwins(script)
  <1>1. \A f, g \in ToSet(files) :
           /\ LineOf(f, "smartos").type = LineOf(g, "smartos").type
           /\ LineOf(f, "smartos").name = LineOf(g, "smartos").name
           => f = g
    <2> SUFFICES ASSUME NEW f \in ToSet(files), NEW g \in ToSet(files),
                        LineOf(f, "smartos").type = LineOf(g, "smartos").type,
                        LineOf(f, "smartos").name = LineOf(g, "smartos").name
                 PROVE  f = g
      OBVIOUS
    <2>1. LineOf(f, "smartos") = Typed(f) /\ LineOf(g, "smartos") = Typed(g)
      BY DEF LineOf
    <2>2. /\ Typed(f).type = f.type /\ Typed(f).name[2] = f.of
          /\ Typed(g).type = g.type /\ Typed(g).name[2] = g.of
      BY ModuleParts
    <2>3. f.type = g.type /\ f.of = g.of
      BY <2>1, <2>2
    <2> QED BY <2>3 DEF ModuleFile
  <1>2. ASSUME NEW f \in ToSet(files)
        PROVE  /\ LineOf(f, "smartos").type = f.type /\ LineOf(f, "smartos").name[2] = f.of
               /\ f.type \in {"file", "hash"} /\ f = InBootFs(f.of, f.type)
    BY ModuleParts DEF LineOf, ModuleFile
  <1>3. CASE o.os = "smartos"
    <2> DEFINE head == SmartosHead(o)
    <2>1. Lists(script, head, files, "smartos")
      BY <1>3
    <2>2. \A l, k \in head : l.type = k.type /\ l.name = k.name => l.file = k.file
      <3>1. /\ KernelLine(o).type = "kernel" /\ RamdiskLine(o).type = "rootfs"
            /\ RamdiskHash(o).type = "hash"
        BY LineParts
      <3> QED BY <3>1 DEF SmartosHead
    <2>3. \A f \in ToSet(files) : ~ (f.type = "hash" /\ f.of = "ramdisk")
      BY <1>2, <1>3 DEF Clashing
    <2>4. \A l \in head : l.type # "file" /\ (l.type = "hash" => l.name[2] = "ramdisk")
      BY LineParts DEF SmartosHead
    <2>5. \A l \in head : \A f \in ToSet(files) :
             ~ (l.type = LineOf(f, "smartos").type /\ l.name = LineOf(f, "smartos").name)
      BY <1>2, <2>3, <2>4
    <2> HIDE DEF head
    <2> QED BY <1>1, <2>1, <2>2, <2>5, LinesApart
  <1>4. CASE o.os # "smartos"
    <2> DEFINE head == MenuHead(o)
    <2>1. Lists(script, head, files, "smartos")
      BY <1>4
    <2>2. \A l, k \in head : l.type = k.type /\ l.name = k.name => l.file = k.file
      BY LineParts DEF MenuHead
    <2>3. \A f \in ToSet(files) : ~ (f.type = "file" /\ f.of = "etc/node.config")
      BY <1>2, <1>4 DEF Clashing
    <2>4. \A l \in head :
             l.type # "hash" /\ (l.type = "file" => l.name[2] = "etc/node.config")
      BY LineParts DEF MenuHead
    <2>5. \A l \in head : \A f \in ToSet(files) :
             ~ (l.type = LineOf(f, "smartos").type /\ l.name = LineOf(f, "smartos").name)
      BY <1>2, <2>3, <2>4
    <2> HIDE DEF head
    <2> QED BY <1>1, <2>1, <2>2, <2>5, LinesApart
  <1> QED BY <1>3, <1>4

(* Boot modules under names of their own keep apart from all others.       *)
LEMMA UntypedApart ==
    ASSUME NEW o, NEW files, NEW script,
           \A f \in ToSet(files) : ModuleFile(f), o.os # "smartos",
           Lists(script, IpxeHead(o), files, o.os)
    PROVE  NoTwins(script)
  <1> DEFINE head == IpxeHead(o)
  <1>1. \A f, g \in ToSet(files) :
           /\ LineOf(f, o.os).type = LineOf(g, o.os).type
           /\ LineOf(f, o.os).name = LineOf(g, o.os).name
           => f = g
    <2> SUFFICES ASSUME NEW f \in ToSet(files), NEW g \in ToSet(files),
                        LineOf(f, o.os).name = LineOf(g, o.os).name
                 PROVE  f = g
      OBVIOUS
    <2>1. LineOf(f, o.os) = Untyped(f) /\ LineOf(g, o.os) = Untyped(g)
      BY DEF LineOf
    <2>2. /\ Untyped(f).name[3] = f.type /\ Untyped(f).name[2] = f.of
          /\ Untyped(g).name[3] = g.type /\ Untyped(g).name[2] = g.of
      BY ModuleParts
    <2>3. f.type = g.type /\ f.of = g.of
      BY <2>1, <2>2
    <2> QED BY <2>3 DEF ModuleFile
  <1>2. \A f : LineOf(f, o.os).name[1] = "/etc/triton-"
    BY ModuleParts DEF LineOf
  <1>3. Ramdisk(o).of = "initrd"
    BY DEF Ramdisk, InOs
  <1>4. \A l, k \in head : l.type = k.type /\ l.name = k.name => l.file = k.file
    <2>1. /\ KernelLine(o).type = "kernel" /\ RamdiskLine(o).type = "rootfs"
          /\ SquashfsHash.type = "" /\ InitrdHash(o).type = "" /\ IpxeNodeConfig.type = ""
          /\ SquashfsHash.name[2] = "squashfs" /\ InitrdHash(o).name[2] = "initrd"
          /\ SquashfsHash.name[1] = "" /\ InitrdHash(o).name[1] = ""
          /\ IpxeNodeConfig.name[1] = "/etc/"
      BY <1>3, LineParts
    <2>2. /\ SquashfsHash.name # InitrdHash(o).name
          /\ SquashfsHash.name # IpxeNodeConfig.name
          /\ InitrdHash(o).name # IpxeNodeConfig.name
      BY <2>1
    <2> QED BY <2>1, <2>2 DEF IpxeHead
  <1>5. \A l \in head : l.name[1] # "/etc/triton-"
    BY LineParts DEF IpxeHead
  <1>6. \A l \in head : \A f \in ToSet(files) : l.name # LineOf(f, o.os).name
    BY <1>2, <1>5
  <1> HIDE DEF head
  <1>7. Lists(script, head, files, o.os)
    BY DEF head
  <1> QED BY <1>1, <1>4, <1>6, <1>7, LinesApart

(* A CN gets no two files under one name and type, unless a boot module    *)
(* takes the name of a module of the platform.                             *)
THEOREM NamesStayApart == Spec => []NamesApart
  <1>1. GivenInv => NamesApart
    <2> SUFFICES ASSUME NEW m \in Menus, ToSet(Opts(m).bootFiles) \cap Clashing(Opts(m)) = {},
                        NEW script \in {IpxeCfg(Opts(m))} \cup ToSet(MenuLst(Opts(m)))
                 PROVE  NoTwins(script)
      BY GivenMenu DEF NamesApart, NoTwins
    <2> DEFINE o == Opts(m)
               files == o.bootFiles
    <2>1. \A f \in ToSet(files) : ModuleFile(f)
      <3>1. files = FindFiles(m.walk)
        BY DEF Opts
      <3> QED BY <3>1, FilesFound
    <2>2. CASE script \in ToSet(MenuLst(o))
      <3>1. Lists(script, IF o.os = "smartos" THEN SmartosHead(o) ELSE MenuHead(o),
                  files, "smartos")
        BY <2>2, MenuLists
      <3> HIDE DEF o, files
      <3> QED BY <2>1, <3>1, TypedApart DEF o, files
    <2>3. CASE script = IpxeCfg(o) /\ o.os = "smartos"
      <3>1. Lists(script, SmartosHead(o), files, "smartos")
        BY <2>3, IpxeLists
      <3> HIDE DEF o, files
      <3> QED BY <2>1, <2>3, <3>1, TypedApart DEF o, files
    <2>4. CASE script = IpxeCfg(o) /\ o.os # "smartos"
      <3>1. Lists(script, IpxeHead(o), files, o.os)
        BY <2>4, IpxeLists
      <3> QED BY <2>1, <2>4, <3>1, UntypedApart
    <2> QED BY <2>2, <2>3, <2>4
  <1> QED BY <1>1, GivenInputs, PTL

(* networking.json and its hash are among the first six modules of iPXE.   *)
THEOREM NetworkingFirst == Spec => []NetworkingWithinLimit
  <1>1. GivenInv => NetworkingWithinLimit
    <2> SUFFICES ASSUME NEW m \in Menus, NEW i \in DOMAIN Tail(IpxeCfg(Opts(m))),
                        Tail(IpxeCfg(Opts(m)))[i].file \in Networking
                 PROVE  i <= 6
      BY GivenMenu DEF NetworkingWithinLimit
    <2> DEFINE o == Opts(m)
               loads == IpxeCfg(o)
               lines == IpxeModules(o)
    <2>1. LinesFor(lines, o.bootFiles, o.os)
      BY IpxeLoads
    <2>2. PICK head : List(head) /\ Len(head) <= 5 /\ head # <<>> /\ loads = head \o lines
      BY IpxeLoads
    <2>3. List(lines) /\ \A j \in DOMAIN lines : lines[j].file \in Networking => j <= 2
      <3> HIDE DEF lines
      <3> QED BY <2>1, ModuleLines
    <2> HIDE DEF lines, o
    <2>4. /\ List(head \o lines) /\ Len(head) \in Nat /\ Len(lines) \in Nat
          /\ Len(head \o lines) = Len(head) + Len(lines)
          /\ DOMAIN lines = 1..Len(lines)
          /\ \A j \in 1..Len(lines) : (head \o lines)[Len(head) + j] = lines[j]
      BY <2>2, <2>3, ListAppended
    <2> HIDE DEF loads
    <2>5. loads # <<>> /\ loads \in Seq(ToSet(loads)) /\ Len(loads) = Len(head) + Len(lines)
      <3>1. Len(head) # 0
        BY <2>2 DEF List
      <3> QED BY <2>2, <2>4, <3>1 DEF List
    <2>6. /\ DOMAIN Tail(loads) = 1..(Len(loads) - 1)
          /\ \A j \in 1..(Len(loads) - 1) : Tail(loads)[j] = loads[j + 1]
      BY <2>5
    <2>7. i \in 1..(Len(head) + Len(lines) - 1) /\ loads[i + 1].file \in Networking
      BY <2>5, <2>6 DEF loads, o
    <2> SUFFICES ASSUME ~ (i <= 6) PROVE FALSE
      OBVIOUS
    <2>8. /\ i + 1 - Len(head) \in 1..Len(lines) /\ i + 1 - Len(head) > 2
          /\ i + 1 = Len(head) + (i + 1 - Len(head))
      BY <2>2, <2>4, <2>7
    <2>9. loads[i + 1] = lines[i + 1 - Len(head)]
      BY <2>2, <2>4, <2>8
    <2> QED BY <2>3, <2>4, <2>7, <2>8, <2>9
  <1> QED BY <1>1, GivenInputs, PTL
===============================================================================
