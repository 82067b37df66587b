----------------------------- MODULE MCBootConfig -----------------------------
(* Inputs of BootConfig for TLC.                                           *)
EXTENDS BootConfig

CONSTANTS m1, m2, a1, a2, operator, net1, net2, host

-------------------------------------------------------------------------------
(* Servers with one or two nics and up to two aggregations.                *)

MCFabricTag == {"fab/1"}

Nics(mac, numbered) ==
    [mac : {mac}, nic_tag : {"admin", "rack"}, numbered : numbered,
     provided : {{}, {"admin"}, {"rack"}, {"ext"}, {"admin", "ext", "fab/1"}}]

NicSeqs ==
    {<<n>> : n \in Nics(m1, {TRUE})}
        \cup {<<n, p>> : n \in Nics(m1, {TRUE}), p \in Nics(m2, BOOLEAN)}

Aggr(name, macs) == [name : {name}, macs : {macs}, provided : {{}, {"admin"}, {"rack", "ext"}}]

AggrSeqs ==
    {<<>>} \cup {<<ag>> : ag \in Aggr(a1, <<m1>>) \cup Aggr(a1, <<m2, m1>>)}
           \cup {<<ag, bg>> : ag \in Aggr(a1, <<m2>>), bg \in Aggr(a2, <<m1>>)}

\* The nics of an aggregation are nics of the CN.
MCServers ==
    {s \in {[nics |-> n, aggrs |-> ag, pool |-> p, base |-> [t \in b |-> operator]] :
               n \in NicSeqs, ag \in AggrSeqs, p \in {{}, {"rack"}},
               b \in {{}, {"ext"}, {"admin"}}} :
        macsToAggrs(s) \subseteq {nic.mac : nic \in ToSet(s.nics)}}

-------------------------------------------------------------------------------
(* Packets, direct or through a relay.                                     *)

MCAdminRackId == {<<7, 8>>}
MCToServer    == {net1}
MCHosts       == {host}

SubOpts == [id : {1, 2}, data : {<<>>, <<1>>, <<7, 8>>, <<0, 255, 1>>}]
Encode(subopts) == FlattenSeq([i \in DOMAIN subopts |->
                        <<subopts[i].id, Len(subopts[i].data)>> \o subopts[i].data])

Ip(n) == <<10, 0, 255, n>>

Packets(relay, giaddr) ==
    [type : {"DISCOVER", "REQUEST", "RELEASE"}, class : {"PXEClient", "other"},
     user : {"none"}, arch : {"EFI x86-64"}, relay : relay, giaddr : giaddr]

Params ==
    [ip : {Ip(9)}, netmask : {<<255, 255, 0, 0>>}, gateway : {NoAddress, Ip(1)},
     routes : {NoRoutes, <<[dest |-> net2, via |-> Ip(2)], [dest |-> net1, via |-> Ip(3)]>>,
               <<[dest |-> net2, via |-> Ip(2)]>>,
               <<[dest |-> host, via |-> Ip(2)], [dest |-> net1, via |-> Ip(3)]>>,
               <<[dest |-> net1, via |-> Ip(3)], [dest |-> host, via |-> Ip(2)]>>},
     resolvers : {<<>>, <<Ip(4)>>}]

Configs ==
    [allowMissingClassID : {FALSE}, chainloadGrub : {FALSE},
     defaultGateway : {NoAddress, Ip(5)}, leaseTime : {<<0, 36, 234, 0>>},
     serverIp : {Ip(6)}, resolvers : {<<>>, <<Ip(7)>>}]

\* All short options 82 with one packet, all packets with one of them, and the
\* longest list of resolvers.
Option82 ==
    LET lists == {<<>>} \cup {<<a>> : a \in SubOpts} \cup {<<a, b>> : a, b \in SubOpts}
                     \cup {<<a, b, c>> : a, b, c \in SubOpts}
    IN UNION {{[subopts |-> l, cut |-> n] : n \in 0..Len(Encode(l))} : l \in lists}

OneParams == [ip |-> Ip(9), netmask |-> <<255, 255, 0, 0>>, gateway |-> Ip(1),
              routes |-> NoRoutes, resolvers |-> <<Ip(4)>>]
OneConfig == [allowMissingClassID |-> TRUE, chainloadGrub |-> TRUE, defaultGateway |-> Ip(5),
              leaseTime |-> <<0, 36, 234, 0>>, serverIp |-> Ip(6), resolvers |-> <<>>]
OnePacket(relay) == [type |-> "DISCOVER", class |-> "none", user |-> "none", arch |-> "none",
                     relay |-> relay, giaddr |-> Ip(8)]

MCExchanges ==
    {[packet |-> OnePacket(SubSeq(Encode(x.subopts), 1, x.cut)), params |-> OneParams,
      config |-> OneConfig, subopts |-> x.subopts] : x \in Option82}
    \cup {[packet |-> p, params |-> r, config |-> c,
           subopts |-> <<[id |-> 1, data |-> <<7, 8>>]>>] :
             p \in Packets({NoOption, <<1, 2, 7, 8>>}, {NoAddress, Ip(8)}),
             r \in Params, c \in Configs}
    \cup {[packet |-> OnePacket(NoOption), config |-> OneConfig, subopts |-> <<>>,
           params |-> [OneParams EXCEPT !.resolvers = [i \in 1..63 |-> Ip(i)]]]}

-------------------------------------------------------------------------------
(* Directories and platforms.                                              *)

Walks ==
    LET files == Networking \cup {InBootFs("a", "file"), InBootFs("a", "hash")}
        many  == [i \in 1..7 |-> InBootFs(<<"a", "b", "c", "d", "e", "f", "g">>[i], "file")]
        platform == {InBootFs("ramdisk", "hash"), InBootFs("etc/node.config", "file")}
    IN UNION {SetToSeqs(d) : d \in SUBSET files}
          \cup {many \o w : w \in SetToSeqs(Networking)}
          \cup {<<InBootFs("a", "hash"), f>> : f \in platform}

OsFiles(os) == IF os = "smartos" THEN {HashOf(InOs("boot_archive"))}
               ELSE {HashOf(InOs("initrd")), HashOf(InOs("squashfs"))}

MCMenus ==
    UNION {[os : {os}, walk : Walks, bootFsDir : {TRUE}, bootFsDirRelative : {TRUE},
            disableBootTimeFiles : BOOLEAN, disableHash : BOOLEAN,
            tftp : SUBSET OsFiles(os)] : os \in {"smartos", "linux"}}
===============================================================================
