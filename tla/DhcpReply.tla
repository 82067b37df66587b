------------------------------ MODULE DhcpReply -------------------------------
(***************************************************************************)
(* One DHCP packet and the reply to it: handleMessage, buildPacketOpts and *)
(* sendReply of lib/dhcpd.js, createDHCPreply, toBuffer and parse of       *)
(* lib/dhcp.js.  Options are functions from their codes to sequences of    *)
(* bytes.  Of the fixed fields we keep giaddr, yiaddr and file; an address *)
(* is a sequence of four bytes.                                            *)
(*                                                                         *)
(* A packet, as parse returns it, has                                      *)
(*   type     "DISCOVER", "REQUEST" or another message type                *)
(*   class    what option 60 begins with: "PXEClient", "SUNW", "other" or  *)
(*            "none"                                                       *)
(*   user     what option 77 is: "iPXE", "other" or "none"                 *)
(*   arch     option 93: "EFI x86-64", "other", "malformed" or "none"      *)
(*   relay    option 82, a sequence of bytes, or NoOption                  *)
(*   giaddr   an address, or NoAddress                                     *)
(* params is bootParams: ip, netmask, gateway (or NoAddress), routes (a    *)
(* sequence of [dest, via], or NoRoutes), resolvers.                       *)
(* config is the configuration of the server.                              *)
(***************************************************************************)
EXTENDS Naturals, Sequences, SequencesExt

CONSTANTS
    NoOption, NoAddress, NoRoutes, NoTag, Undefined,
    AdminRackId,    \* circuit-ids that match ADMIN_TAG_RE
    ToServer,       \* networks that contain serverIp
    Hosts           \* destinations of routes that are one address and no network

Byte == 0..255

-------------------------------------------------------------------------------
(* What is answered.                                                       *)

WillAnswer(packet, config) ==
    /\ packet.type \in {"DISCOVER", "REQUEST"}
    /\ config.allowMissingClassID \/ packet.class \in {"PXEClient", "SUNW"}

\* Mutant: an unsupported sub-option ends the loop.
CircuitId_Mutant(relayopt) ==
    LET end == Len(relayopt)
        len(i) == IF i < end THEN relayopt[i + 1] ELSE 0
        after[i \in 1..(end + 1)] ==
            IF i > end \/ relayopt[i] # 1 THEN NoTag
            ELSE LET rest == after[Min({i + 2 + len(i), end + 1})]
                 IN IF rest # NoTag THEN rest
                    ELSE SubSeq(relayopt, i + 2, Min({i + 1 + len(i), end}))
    IN after[1]

\* The loop over option 82: the last sub-option 1 wins, and data that ends early
\* is cut short.
CircuitId(relayopt) ==
    LET end == Len(relayopt)
        len(i) == IF i < end THEN relayopt[i + 1] ELSE 0
        after[i \in 1..(end + 1)] ==
            IF i > end THEN NoTag
            ELSE LET rest == after[Min({i + 2 + len(i), end + 1})]
                 IN CASE rest # NoTag    -> rest
                      [] relayopt[i] = 1 /\ rest = NoTag ->
                            SubSeq(relayopt, i + 2, Min({i + 1 + len(i), end}))
                      [] OTHER           -> NoTag
    IN after[1]

\* The nic tag given to writeAll.
NicTag(packet) ==
    LET id == IF packet.relay = NoOption THEN NoTag ELSE CircuitId(packet.relay)
    IN IF id \in {NoTag, <<>>} THEN NoTag
       ELSE [prefix |-> IF id \in AdminRackId THEN "" ELSE "admin_rack_", id |-> id]

-------------------------------------------------------------------------------
(* What is in the reply.                                                   *)

\* The route at which the loop of _findRouteToBooter ends: the first that contains
\* booter, or that is a host, on which createCIDR throws.
LoopEnd(routes) == SelectInSeq(routes, LAMBDA r : r.dest \in ToServer \cup Hosts)

\* _findRouteToBooter; without a route the router is '', which becomes 0.0.0.0.
FindRouteToBooter(routes) ==
    LET first == LoopEnd(routes)
    IN IF first = 0 THEN <<0, 0, 0, 0>> ELSE routes[first].via

Relayed(packet) == packet.relay # NoOption /\ packet.giaddr # NoAddress

\* Object.keys(params.routes) or createCIDR throws in buildPacketOpts, and booter
\* ends with it.
Throws(packet, params) ==
    LET routes == params.routes
    IN /\ Relayed(packet) /\ params.gateway = NoAddress
       /\ \/ routes = NoRoutes
          \/ LoopEnd(routes) # 0 /\ routes[LoopEnd(routes)].dest \in Hosts

\* Mutant: the CN behind a relay gets the router of booter's own network.
Router_Mutant(packet, params, config) ==
    IF Relayed(packet) /\ config.defaultGateway = NoAddress
    THEN IF params.gateway # NoAddress THEN params.gateway
                                       ELSE FindRouteToBooter(params.routes)
    ELSE config.defaultGateway

Router(packet, params, config) ==
    IF Relayed(packet)
    THEN IF params.gateway # NoAddress THEN params.gateway
                                       ELSE FindRouteToBooter(params.routes)
    ELSE config.defaultGateway

BootFile(packet, config) ==
    CASE packet.user = "iPXE" -> "boot.ipxe"
      [] packet.user # "iPXE" /\ packet.arch = "EFI x86-64" -> "snponly.efi"
      [] OTHER -> IF config.chainloadGrub THEN "pxegrub" ELSE "undionly.kpxe"

\* The options of the reply, as createDHCPreply encodes them.
ReplyOptions(packet, params, config) ==
    LET router    == Router(packet, params, config)
        resolvers == FlattenSeq(params.resolvers \o config.resolvers)
        wanted    == {1, 51, 53, 54}
                        \cup {o \in {3} : router # NoAddress}
                        \cup {o \in {6} : resolvers # <<>>}
                        \cup {o \in {82} : Relayed(packet)}
    IN [o \in wanted |->
            CASE o = 1  -> params.netmask
              [] o = 3  -> router
              [] o = 6  -> resolvers
              [] o = 51 -> config.leaseTime
              [] o = 53 -> IF packet.type = "DISCOVER" THEN <<2>> ELSE <<5>>
              [] o = 54 -> config.serverIp
              [] o = 82 -> packet.relay]

\* sendReply: "relay" stands for the address and port the packet came from, and
\* "broadcast" for 255.255.255.255:68.
Reply(packet, params, config) ==
    [to      |-> IF packet.relay # NoOption THEN "relay" ELSE "broadcast",
     giaddr  |-> packet.giaddr,
     yiaddr  |-> params.ip,
     file    |-> BootFile(packet, config),
     options |-> ReplyOptions(packet, params, config)]

-------------------------------------------------------------------------------
(* The options on the wire.                                                *)

\* The last code, up to o, for which there is an option; 0 if there is none.
LastCode(options, o) == Max({0} \cup {c \in DOMAIN options : 0 < c /\ c <= o})

\* Mutant: the length counts the code and itself, as in IPv6 options.
ToBuffer_Mutant(options) ==
    LET last(o) == LastCode(options, o)
        Write(o) == <<o, (Len(options[o]) + 2) % 256>> \o options[o]
        written[o \in 0..254] ==
            IF last(o) = 0 THEN <<>> ELSE written[last(o) - 1] \o Write(last(o))
    IN written[254] \o <<255>> \o [i \in 1..9 |-> 0]

\* toBuffer: ascending codes, a length of one byte, the end option, nine pads.
ToBuffer(options) ==
    LET last(o) == LastCode(options, o)
        Write(o) == <<o, Len(options[o]) % 256>> \o options[o]
        written[o \in 0..254] ==
            IF last(o) = 0 THEN <<>> ELSE written[last(o) - 1] \o Write(last(o))
    IN written[254] \o <<255>> \o [i \in 1..9 |-> 0]

\* Of two options with one code the later counts, which has been read already.
Read(options, code, value) ==
    [o \in DOMAIN options \cup {code} |->
        IF o \in DOMAIN options THEN options[o] ELSE value]

\* parse, from the end on.
Parse(data) ==
    LET end == Len(data)
        At(i) == IF i <= end THEN data[i] ELSE Undefined
        olen(i) == IF i < end THEN data[i + 1] ELSE 0
        from[i \in 1..(end + 1)] ==
            CASE i > end -> <<>>
              [] i <= end /\ data[i] = 0 -> from[i + 1]
              [] i <= end /\ data[i] = 255 -> <<>>
              [] OTHER -> Read(from[Min({i + 2 + olen(i), end + 1})],
                               data[i], [x \in 1..olen(i) |-> At(i + 1 + x)])
    IN from[1]
===============================================================================
