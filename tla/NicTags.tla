------------------------------- MODULE NicTags --------------------------------
(***************************************************************************)
(* Which interface of a CN carries which nic tag.  Booter works this out   *)
(* twice from the same records of NAPI, as kernel arguments (<tag>_nic,    *)
(* lib/bootparams.js) and in networking.json (lib/net-file.js).            *)
(*                                                                         *)
(* A server is what NAPI and CNAPI say of a CN:                            *)
(*   nics     its nics, a sequence whose first is the boot nic, with MACs  *)
(*            that differ: napiGetNics removes duplicates, so that "seen"  *)
(*            of getBootParams never skips one                             *)
(*   aggrs    its aggregations, a sequence                                 *)
(*   pool     nic_tags_present of the admin network pool, {} without one   *)
(*   base     the <tag>_nic arguments that CNAPI stores for the CN         *)
(* A nic has its mac, nic_tag (of the network it is on), provided          *)
(* (nic_tags_provided; absent and empty make no difference) and numbered   *)
(* (it has an ip and a netmask).  Resolvers, routes, the underlay rule and *)
(* the LACP modes are left out.                                            *)
(***************************************************************************)
EXTENDS Naturals, Sequences, SequencesExt

CONSTANTS
    FabricTag,      \* tags of fabric networks, which have a '/' in their name
    NoInterface     \* the mac of a tag that has none

bootNic(s) == s.nics[1]

AdminTags(s) == {"admin"} \cup s.pool

macsToAggrs(s) == UNION {ToSet(ag.macs) : ag \in ToSet(s.aggrs)}

-------------------------------------------------------------------------------
(* What the loops over nics and aggregations offer, one after the other:   *)
(* tags, and the interface that provides them.                             *)

Offer(tags, interface) == [tags |-> tags, interface |-> interface]

\* A nic that is skipped offers no tag.
NicOffers(s, skipped) ==
    [i \in DOMAIN s.nics |->
        Offer(IF s.nics[i].mac \in skipped THEN {} ELSE s.nics[i].provided, s.nics[i].mac)]

AggrOffers(s) == [i \in DOMAIN s.aggrs |-> Offer(s.aggrs[i].provided, s.aggrs[i].name)]

-------------------------------------------------------------------------------
(* Kernel arguments: a function of the tags that have one.                 *)

\* The assignments of the loops never replace an argument.
Provide(args, offer) ==
    [t \in DOMAIN args \cup offer.tags |->
        IF t \in DOMAIN args THEN args[t] ELSE offer.interface]

Provided(args, offers) == FoldLeft(Provide, args, offers)

AdminFound(s) ==
    \/ \E nic \in ToSet(s.nics) : nic.provided \cap AdminTags(s) # {}
    \/ \E ag \in ToSet(s.aggrs) : ag.provided \cap s.pool # {}

\* The boot nic stands in for an admin interface.
ProvideAdmin(s, args) == Provide(args, Offer({"admin"}, bootNic(s).mac))

\* Mutant: a nic of an aggregation is taken for an interface.
KernelArgs_Mutant(s) ==
    LET args == Provided(s.base, NicOffers(s, {}) \o AggrOffers(s))
    IN IF AdminFound(s) THEN args ELSE ProvideAdmin(s, args)

\* Mutant: the boot nic stands in only if no interface has any tag.
KernelArgs_FirstBootMutant(s) ==
    LET args == Provided(s.base, NicOffers(s, macsToAggrs(s)) \o AggrOffers(s))
    IN IF args # s.base THEN args ELSE ProvideAdmin(s, args)

KernelArgs(s) ==
    LET args == Provided(s.base, NicOffers(s, macsToAggrs(s)) \o AggrOffers(s))
    IN IF AdminFound(s) THEN args ELSE ProvideAdmin(s, args)

\* Mutant: the tags of the admin pool are forgotten.
AdminNic_Mutant(s) ==
    LET last == SelectLastInSeq(s.nics, LAMBDA nic : "admin" \in nic.provided)
    IN IF last = 0 THEN bootNic(s) ELSE s.nics[last]

\* The nic networking.json takes for the admin nic: the last with an admin tag.
AdminNic(s) ==
    LET last == SelectLastInSeq(s.nics,
                                LAMBDA nic : nic.provided \cap AdminTags(s) # {})
    IN IF last = 0 THEN bootNic(s) ELSE s.nics[last]

-------------------------------------------------------------------------------
(* networking.json.                                                        *)

\* napiGetNicTags: the tags it asks NAPI for; their order is that of the answers.
TagsOf(s) ==
    ((UNION {n.provided \cup {n.nic_tag} : n \in ToSet(s.nics)})
        \cup (UNION {ag.provided : ag \in ToSet(s.aggrs)})) \ FabricTag

Vnics(s) == {i \in DOMAIN s.nics : s.nics[i].numbered}

\* The assignments of the loops replace the mac of a tag.
Bind(macs, offer) ==
    [t \in DOMAIN macs |-> IF t \in offer.tags THEN offer.interface ELSE macs[t]]

Bound(macs, offers) == FoldLeft(Bind, macs, offers)

\* Mutant: nics replace aggregations.
MacsProvided_Mutant(s, admin, tags) ==
    Bound([t \in tags |-> NoInterface],
          AggrOffers(s) \o <<Offer(admin.provided, admin.mac)>> \o NicOffers(s, {admin.mac}))

\* The mac of each tag in tags before the first-boot rule: the admin nic comes
\* first and is skipped when its turn comes, later nics replace earlier ones, and
\* aggregations replace nics.
MacsProvided(s, admin, tags) ==
    Bound([t \in tags |-> NoInterface],
          <<Offer(admin.provided, admin.mac)>> \o NicOffers(s, {admin.mac}) \o AggrOffers(s))

\* Mutant: the server that has just booted gives its mac to the first tag.
NetConf_Mutant(s, admin, nictags) ==
    LET macs == MacsProvided(s, admin, ToSet(nictags))
        mac(i) == IF i = 1 /\ Cardinality(Vnics(s)) = 1 /\ macs[nictags[i]] = NoInterface
                  THEN admin.mac
                  ELSE macs[nictags[i]]
    IN [i \in DOMAIN nictags |-> [name |-> nictags[i], mac |-> mac(i)]]

AdminCandidates(admin) == {"admin", admin.nic_tag}

\* generateNetConfFile, given the tags in the order NAPI answered: the array nictags.
\* On a server that has just booted, the first tag of it that may be the admin tag
\* gets the nic's mac, if it has no interface.
NetConf(s, admin, nictags) ==
    LET macs == MacsProvided(s, admin, ToSet(nictags))
        first == SelectInSeq(nictags, LAMBDA t : t \in AdminCandidates(admin))
        mac(i) == IF i = first /\ Cardinality(Vnics(s)) = 1 /\ macs[nictags[i]] = NoInterface
                  THEN admin.mac
                  ELSE macs[nictags[i]]
    IN [i \in DOMAIN nictags |-> [name |-> nictags[i], mac |-> mac(i)]]
===============================================================================
