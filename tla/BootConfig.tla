------------------------------ MODULE BootConfig ------------------------------
(***************************************************************************)
(* The parts of booter that compute and keep no state: the interfaces of   *)
(* nic tags (NicTags), the reply to a packet (DhcpReply) and the boot      *)
(* scripts (BootScripts).  A behaviour gives them one input after the      *)
(* other; the invariants say what they must make of each.                  *)
(***************************************************************************)
EXTENDS Integers, NicTags, DhcpReply, BootScripts

CONSTANTS
    Servers,    \* what NAPI and CNAPI may say of a CN
    Exchanges,  \* records of a packet, the params it is answered with, the
                \* config, and the sub-options that its option 82 is made of
    Menus,      \* options of writeMenuLst, with walk in the place of bootFiles
    Nothing

\* Tags of fabric networks have a '/' in their name, the others have not.  NAPI
\* knows the nics of a CN, the boot nic with an address among them, by MACs that
\* differ, and the nics of its aggregations.
ASSUME ServersAssumption ==
    /\ "admin" \notin FabricTag
    /\ \A s \in Servers :
          /\ s.nics \in Seq(ToSet(s.nics)) \ {<<>>}
          /\ \A i, j \in DOMAIN s.nics : s.nics[i].mac = s.nics[j].mac => i = j
          /\ bootNic(s).numbered
          /\ s.aggrs \in Seq(ToSet(s.aggrs))
          /\ \A ag \in ToSet(s.aggrs) : ag.macs \in Seq(ToSet(ag.macs)) \ {<<>>}
          /\ macsToAggrs(s) \subseteq {nic.mac : nic \in ToSet(s.nics)}
          /\ NoInterface \notin {nic.mac : nic \in ToSet(s.nics)}
                                   \cup {ag.name : ag \in ToSet(s.aggrs)}
          /\ IsFiniteSet(TagsOf(s))
          /\ s.base = [t \in DOMAIN s.base |-> s.base[t]]

\* Where each sub-option begins, and the last ends, if they are sent in one piece.
Starts(subopts) ==
    LET start[k \in 1..(Len(subopts) + 1)] ==
            IF k = 1 THEN 1 ELSE start[k - 1] + 2 + Len(subopts[k - 1].data)
    IN start

\* An option 82 has the id, the length and the data of one sub-option after the
\* other, but may be cut short anywhere.
MadeOf(relay, subopts) ==
    LET start == Starts(subopts)
        Has(i, b) == i <= Len(relay) => relay[i] = b
    IN /\ relay \in Seq(Byte) /\ Len(relay) <= 255
       /\ Len(relay) < start[Len(subopts) + 1]
       /\ \A k \in DOMAIN subopts :
             /\ Has(start[k], subopts[k].id)
             /\ Has(start[k] + 1, Len(subopts[k].data))
             /\ \A j \in DOMAIN subopts[k].data : Has(start[k] + 1 + j, subopts[k].data[j])

FourBytes == [1..4 -> Byte]

\* Routes lead through gateways with addresses.  An option 82 has at most 255
\* bytes, and none of its data is NoTag.
ASSUME ExchangesAssumption ==
    \A x \in Exchanges :
        LET routes == x.params.routes
        IN /\ ToServer \cap Hosts = {}
           /\ {x.params.netmask, x.config.leaseTime, x.config.serverIp} \subseteq FourBytes
           /\ {x.params.gateway, x.config.defaultGateway} \subseteq FourBytes \cup {NoAddress}
           /\ x.params.resolvers \in Seq(FourBytes) /\ x.config.resolvers \in Seq(FourBytes)
           /\ NoAddress \notin FourBytes
           /\ routes # NoRoutes => /\ routes \in Seq(ToSet(routes))
                                   /\ \A r \in ToSet(routes) : r.via \in FourBytes
           /\ x.subopts \in Seq([id : Byte, data : Seq(Byte)])
           /\ \A sub \in ToSet(x.subopts) : \A m \in 0..Len(sub.data) :
                 SubSeq(sub.data, 1, m) # NoTag
           /\ x.packet.relay # NoOption => MadeOf(x.packet.relay, x.subopts)

\* The walk meets every file once; they are those under bootfs/<mac>.
\* extractBootOpts sets both directories.
ASSUME MenusAssumption ==
    \A m \in Menus :
        /\ m.bootFsDir /\ m.bootFsDirRelative
        /\ m.walk \in Seq({InBootFs(f.of, f.type) : f \in ToSet(m.walk)})
        /\ \A f \in ToSet(m.walk) : f.type \in {"file", "hash"}
        /\ \A i, j \in DOMAIN m.walk : m.walk[i] = m.walk[j] => i = j

VARIABLE given

Init == given = Nothing

ServerListed ==
    /\ given = Nothing
    /\ \E s \in Servers : given' = [kind |-> "server", of |-> s]

PacketArrives ==
    /\ given = Nothing
    /\ \E x \in Exchanges : given' = [kind |-> "packet", of |-> x]

FilesWalked ==
    /\ given = Nothing
    /\ \E m \in Menus : given' = [kind |-> "menu", of |-> m]

Done ==
    /\ given # Nothing
    /\ given' = Nothing

Next == ServerListed \/ PacketArrives \/ FilesWalked \/ Done

Spec == Init /\ [][Next]_given

Given(kind) == given # Nothing /\ given.kind = kind

-------------------------------------------------------------------------------
(* Nic tags.                                                               *)

Apart(s)   == {nic \in ToSet(s.nics) : nic.mac \notin macsToAggrs(s)}
Members(s) == ToSet(s.nics) \ Apart(s)
Providing(t, things) == {x \in things : t \in x.provided}

\* The interface that the comment at bootparams.js:492 ranks first.
Documented(s, t) ==
    LET First(seq) == seq[SelectInSeq(seq, LAMBDA x : t \in x.provided)]
    IN CASE t \in DOMAIN s.base -> s.base[t]
         [] t \notin DOMAIN s.base /\ Providing(t, ToSet(s.aggrs)) # {} -> First(s.aggrs).name
         [] OTHER -> First(s.nics).mac

(* CNAPI's arguments come before aggregations, aggregations before nics,   *)
(* and of two of a kind the first counts (bootparams.js:492-497): so it is *)
(* for every tag, unless a nic outside all aggregations and an aggregation *)
(* both provide it, or only a nic inside one does (bootparams.js:517).     *)
ArgumentsAsDocumented ==
    Given("server") =>
        LET s == given.of
            provided == UNION {x.provided : x \in ToSet(s.nics) \cup ToSet(s.aggrs)}
        IN \A t \in DOMAIN s.base \cup provided :
              \/ /\ t \in DOMAIN KernelArgs(s)
                 /\ KernelArgs(s)[t] = Documented(s, t)
              \/ /\ t \notin DOMAIN s.base
                 /\ IF Providing(t, ToSet(s.aggrs)) = {}
                    THEN Providing(t, Members(s)) # {}
                    ELSE Providing(t, Apart(s)) # {}

(* A CN learns which interface is its admin interface: some argument names *)
(* one, unless a nic provides an admin tag that none of its aggregations   *)
(* does, which counts as found and is not named (bootparams.js:517-536,    *)
(* 570).                                                                   *)
AdminInterfaceNamed ==
    Given("server") =>
        LET s == given.of
        IN \/ DOMAIN KernelArgs(s) \cap AdminTags(s) # {}
           \/ \E nic \in Members(s) : \E t \in nic.provided \cap AdminTags(s) :
                 Providing(t, ToSet(s.aggrs)) = {}

Tag(name, mac) == [name |-> name, mac |-> mac]

(* The kernel arguments and networking.json name the same interface for a  *)
(* tag: one that CNAPI does not set, that is provided once, by a nic       *)
(* outside the aggregations or by an aggregation, whether its nics have it *)
(* too or not; and for the tag of a server that has just booted            *)
(* (bootparams.js:499-573, net-file.js:125-181).                           *)
InterfacesAgree ==
    Given("server") =>
        LET s == given.of
            admin == AdminNic(s)
            conf(order) == NetConf(s, admin, order)
            args == KernelArgs(s)
            justBooted == Len(s.nics) = 1 /\ s.aggrs = <<>> /\ s.nics[1].provided = {}
        IN \A order \in SetToSeqs(TagsOf(s)) :
              /\ \A t \in TagsOf(s) \ DOMAIN s.base :
                    LET apart == Providing(t, Apart(s))
                        aggrs == Providing(t, ToSet(s.aggrs))
                        alone == IF aggrs = {}
                                 THEN Cardinality(apart) = 1 /\ Providing(t, Members(s)) = {}
                                 ELSE Cardinality(aggrs) = 1 /\ apart = {}
                    IN alone => Tag(t, args[t]) \in ToSet(conf(order))
              /\ justBooted /\ TagsOf(s) # {} /\ "admin" \notin DOMAIN s.base =>
                    Tag(bootNic(s).nic_tag, args["admin"]) \in ToSet(conf(order))

(* The tags of networking.json, and so its hash, are in the order in which *)
(* NAPI answers the parallel requests for them, and a loop that stops at   *)
(* the first tag that may be the admin tag follows it.  Each tag has the   *)
(* same interface in every order, but where two of the tags may be the     *)
(* admin tag: then these may differ, on a server with one vnic.  In every  *)
(* order one of such a server's tags that may be the admin tag has an      *)
(* interface (clients.js:196-211, net-file.js:78, 170-181).                *)
AnswerOrderHarmless ==
    Given("server") =>
        LET s == given.of
            tags == TagsOf(s)
            admin == AdminNic(s)
            may == AdminCandidates(admin) \cap tags
            file(order) == ToSet(NetConf(s, admin, order))
        IN \A p \in SetToSeqs(tags) :
              /\ \A q \in SetToSeqs(tags) : \A tag \in file(p) \ file(q) :
                    may = AdminCandidates(admin) /\ admin.nic_tag # "admin"
                       /\ tag.name \in may /\ Cardinality(Vnics(s)) = 1
              /\ may # {} /\ Cardinality(Vnics(s)) = 1 =>
                    \E tag \in file(p) : tag.name \in may /\ tag.mac # NoInterface

(* networking.json gives an admin tag the interface that its admin nic, of *)
(* which the resolvers come first, is on.  So it is if one interface       *)
(* provides admin tags: the admin nic is the nic that does, or belongs to  *)
(* the aggregation that does, given that the nics that provide one too, or *)
(* else the boot nic, belong to it.  With two interfaces it may be one and *)
(* the other (bootparams.js:527-536, net-file.js:105-150).                 *)
AdminNicCarriesTag ==
    Given("server") =>
        LET s == given.of
            admin == AdminNic(s)
            nics  == {nic \in ToSet(s.nics) : nic.provided \cap AdminTags(s) # {}}
            aggrs == {ag \in ToSet(s.aggrs) : ag.provided \cap AdminTags(s) # {}}
            within(ag) == \A nic \in (IF nics = {} THEN {bootNic(s)} ELSE nics) :
                             nic.mac \in ToSet(ag.macs)
            Has(x, interface) ==
                \A t \in x.provided \cap AdminTags(s) \cap TagsOf(s) :
                \A order \in SetToSeqs(TagsOf(s)) :
                   Tag(t, interface) \in ToSet(NetConf(s, admin, order))
        IN /\ aggrs = {} => \A nic \in nics :
                 nics = {nic} => admin = nic /\ Has(nic, nic.mac)
           /\ \A ag \in aggrs :
                 aggrs = {ag} /\ within(ag) => admin.mac \in ToSet(ag.macs) /\ Has(ag, ag.name)

-------------------------------------------------------------------------------
(* DHCP.                                                                   *)

(* Whatever other sub-options a relay sends, and in whatever order, and    *)
(* even if option 82 is cut short, the circuit-id is the data of its last  *)
(* sub-option 1, as far as that got (dhcpd.js:158-193).                    *)
CircuitIdFound ==
    Given("packet") =>
        LET subopts == given.of.subopts
            relay == given.of.packet.relay
            start == Starts(subopts)
            ones == {k \in DOMAIN subopts : subopts[k].id = 1 /\ start[k] <= Len(relay)}
            Got(k) == SubSeq(subopts[k].data, 1,
                             Min({Len(subopts[k].data), Max({0, Len(relay) - (start[k] + 1)})}))
        IN relay # NoOption =>
              CircuitId(relay) = IF ones = {} THEN NoTag ELSE Got(Max(ones))

(* A reply goes back the way the packet came.  Without a relay it is       *)
(* broadcast, without option 82 and with booter's router.  Behind a relay  *)
(* that sets both giaddr and option 82 it is sent to the relay, with that  *)
(* option and the router of the CN's own network; and that is 0.0.0.0, or  *)
(* booter ends, only if the network has no gateway, and no route through   *)
(* which booter is reached comes before the first route to a host, or the  *)
(* end of the routes (dhcpd.js:283-292, 316-330, 345-357).                 *)
ReplyRetracesRequest ==
    Given("packet") =>
        LET packet == given.of.packet
            params == given.of.params
            config == given.of.config
            reply  == Reply(packet, params, config)
            options == reply.options
            routes == IF params.routes = NoRoutes THEN <<>> ELSE params.routes
            before(i) == {r.dest : r \in ToSet(SubSeq(routes, 1, i - 1))}
            toBooter == {i \in DOMAIN routes : /\ routes[i].dest \in ToServer
                                               /\ before(i) \cap Hosts = {}}
        IN /\ WillAnswer(packet, config)
           /\ (packet.relay # NoOption) = (packet.giaddr # NoAddress)
           => IF packet.giaddr = NoAddress
              THEN /\ reply.to = "broadcast"
                   /\ 82 \notin DOMAIN options
                   /\ 3 \in DOMAIN options => options[3] = config.defaultGateway
              ELSE \/ Throws(packet, params) /\ params.gateway = NoAddress /\ toBooter = {}
                   \/ /\ reply.to = "relay"
                      /\ options[82] = packet.relay
                      /\ CASE params.gateway # NoAddress -> options[3] = params.gateway
                           [] params.gateway = NoAddress /\ toBooter # {} ->
                                 options[3] = routes[Min(toBooter)].via
                           [] OTHER -> options[3] = <<0, 0, 0, 0>>

(* A client reads from the wire the options booter meant, and no others:   *)
(* the lengths and the end fit, for up to 63 resolvers and whatever the    *)
(* relay sent (dhcp.js:188-244, 405-464).                                  *)
ReplySurvivesTheWire ==
    Given("packet") =>
        LET reply == Reply(given.of.packet, given.of.params, given.of.config)
        IN ~ Throws(given.of.packet, given.of.params)
              /\ Len(given.of.params.resolvers \o given.of.config.resolvers) <= 63
           => reply.options = Parse(ToBuffer(reply.options))

-------------------------------------------------------------------------------
(* Boot scripts.                                                           *)

Opts(m) == [f \in DOMAIN m \cup {"bootFiles"} |->
               IF f = "bootFiles" THEN FindFiles(m.walk) ELSE m[f]]

\* Boot modules that a script gives the name of a module of the platform.
Clashing(o) == IF o.os = "smartos" THEN {InBootFs("ramdisk", "hash")}
                                   ELSE {InBootFs("etc/node.config", "file")}

(* A CN gets no two files under one name and type, of which it would see   *)
(* only one: the boot modules, named by the operator and stripped of       *)
(* ".hash" in some blocks and not in others, keep apart from each other    *)
(* and from the modules of the platform.  Only a boot module ramdisk.hash, *)
(* or on Linux etc/node.config, takes the name of one of these             *)
(* (menulst.js:100-114, 204-221, 371-409).                                 *)
NamesApart ==
    Given("menu") =>
        LET o == Opts(given.of)
        IN ToSet(o.bootFiles) \cap Clashing(o) = {} =>
              \A script \in {IpxeCfg(o)} \cup ToSet(MenuLst(o)) : \A l, k \in ToSet(script) :
                 l.type = k.type /\ l.name = k.name => l.file = k.file

(* However many boot modules there are and in whatever order they are      *)
(* found, networking.json and its hash are among the first modules: iPXE   *)
(* takes no more than 16 (find.js:37-44, menulst.js:372-391).              *)
NetworkingWithinLimit ==
    Given("menu") =>
        LET o == Opts(given.of)
            modules == Tail(IpxeCfg(o))
            Has(i) == modules[i].file \in Networking
        IN \A i \in DOMAIN modules : Has(i) => i <= 6
===============================================================================
