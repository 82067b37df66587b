-------------------------------- MODULE Dhcpd ---------------------------------
(***************************************************************************)
(* A compute node that boots over the network, and handleMessage of        *)
(* lib/dhcpd.js: a DHCPDISCOVER runs writeAll (module WriteAll) and is     *)
(* answered with an OFFER built from its result; a DHCPREQUEST is answered *)
(* with an ACK built from the cache file.  Between the two, the refresh    *)
(* and the handlers of retransmitted DISCOVERs rewrite that file.          *)
(*                                                                         *)
(* The network loses and reorders messages.  It need not duplicate them:   *)
(* the CN retransmits.  Replies the CN would drop, to an earlier exchange  *)
(* (it compares the xid) or when it has taken another, are not put on the  *)
(* network; an earlier DISCOVER that arrives late has the effect of one of *)
(* this exchange whose OFFER is lost, so an exchange that is broken off    *)
(* takes its messages with it.                                             *)
(***************************************************************************)
EXTENDS Naturals

CONSTANTS
    Call, Latest, SizeOf,   \* see WriteAll
    MaxFaults,      \* bound: disk errors, crashes and power cycles
    MaxRefreshes    \* bound: refreshes of the CN

ASSUME DhcpdAssumption ==
    /\ Latest \in Nat \ {0}
    /\ SizeOf \in [1..Latest -> Nat \ {0}]
    /\ MaxFaults \in Nat
    /\ MaxRefreshes \in Nat

VARIABLES
    current, cache, ready, assembled, pc, ver,  \* writeAll and its files
    net,        \* the messages on their way
    cn,         \* the CN: its state; in "request" the offer it took, in "bound"
                \* its address, each by the version of the params it came from
    awaited,    \* the calls that are handlers whose OFFER the CN would take
    alone,      \* history: those beside which no call with other params ran
    faults, refreshes   \* how many so far

filesVars  == <<current, cache, ready, assembled, pc, ver>>
clientVars == <<net, cn>>
vars       == <<filesVars, clientVars, awaited, alone, faults, refreshes>>

Files == INSTANCE WriteAll

Version == Files!Version
None    == Files!None

\* firm (history): the call that offers was alone.
Offer(v, firm) == [type |-> "OFFER", ver |-> v, firm |-> firm]
Ack(v)         == [type |-> "ACK", ver |-> v, firm |-> FALSE]
Discover       == [type |-> "DISCOVER", ver |-> None, firm |-> FALSE]
Request        == [type |-> "REQUEST",  ver |-> None, firm |-> FALSE]

Message == {Discover, Request} \cup {Ack(v) : v \in Version}
             \cup {Offer(v, firm) : v \in Version, firm \in BOOLEAN}

Cn == [state : {"discover", "request", "bound"}, ver : Version \cup {None}, firm : BOOLEAN]
Booting == [state |-> "discover", ver |-> None, firm |-> FALSE]

Init ==
    /\ Files!Init
    /\ net = {}
    /\ cn = Booting
    /\ awaited = {}
    /\ alone = {}
    /\ faults = 0
    /\ refreshes = 0

-------------------------------------------------------------------------------
(* The CN and the network (external).                                      *)

SendDiscover ==
    /\ cn.state = "discover"
    /\ Discover \notin net
    /\ net' = net \cup {Discover}
    /\ UNCHANGED <<filesVars, cn, awaited, alone, faults, refreshes>>

SendRequest ==
    /\ cn.state = "request"
    /\ Request \notin net
    /\ net' = net \cup {Request}
    /\ UNCHANGED <<filesVars, cn, awaited, alone, faults, refreshes>>

TakeOffer(m) ==
    /\ m \in net
    /\ m.type = "OFFER"
    /\ cn.state = "discover"
    /\ cn' = [state |-> "request", ver |-> m.ver, firm |-> m.firm]
    /\ net' = (net \cap {Discover}) \cup {Request}
    /\ awaited' = {}
    /\ alone' = {}
    /\ UNCHANGED <<filesVars, faults, refreshes>>

TakeAck(m) ==
    /\ m \in net
    /\ m.type = "ACK"
    /\ cn.state = "request"
    /\ cn' = [state |-> "bound", ver |-> m.ver, firm |-> FALSE]
    /\ net' = net \cap {Discover}
    /\ UNCHANGED <<filesVars, awaited, alone, faults, refreshes>>

Lose(m) ==
    /\ m \in net
    /\ net' = net \ {m}
    /\ UNCHANGED <<filesVars, cn, awaited, alone, faults, refreshes>>

StartOver ==
    /\ net' = {}
    /\ cn' = Booting
    /\ awaited' = {}
    /\ alone' = {}
    /\ UNCHANGED <<filesVars, refreshes>>

\* A CN whose REQUEST cannot be answered tries again with a DISCOVER.  Its
\* retransmissions outlast a write of the file and the loss of some of them; a
\* CN that breaks off for another reason is one that is power-cycled.
GiveUp ==
    /\ cn.state = "request"
    /\ ~ Files!Store!Readable(cache)
    /\ \A c \in Call : pc[c] # "write"
    /\ StartOver
    /\ UNCHANGED faults

Reboot ==
    /\ cn.state = "bound"
    /\ StartOver
    /\ UNCHANGED faults

PowerCycle ==
    /\ cn.state # "bound"
    /\ faults < MaxFaults
    /\ faults' = faults + 1
    /\ StartOver

-------------------------------------------------------------------------------
(* The server.                                                             *)

\* History: a call is alone until another call has other params than it has.
Track == alone' = {c \in awaited' :
    \/ ver'[c] = None
    \/ c \in alone /\ \A d \in Call : ver'[d] \in {None, ver'[c]}}

HandleDiscover(c) ==
    /\ Discover \in net
    /\ Files!Begin(c)
    /\ net' = net \ {Discover}
    /\ awaited' = IF cn.state = "discover" THEN awaited \cup {c} ELSE awaited
    /\ Track
    /\ UNCHANGED <<cn, faults, refreshes>>

\* writeAll calls back.  _afterParams of a handler sends the OFFER, which the
\* CN heeds unless its exchange is over; a refresh has nothing to send.
Finish(c) ==
    /\ Files!Return(c)
    /\ net' = IF c \in awaited THEN net \cup {Offer(ver[c], c \in alone)} ELSE net
    /\ awaited' = awaited \ {c}
    /\ Track
    /\ UNCHANGED <<cn, faults, refreshes>>

\* Mutant: the ACK is built from whatever the file holds.
AnswerRequest_Mutant ==
    /\ Request \in net
    /\ cache.exists
    /\ net' = (net \ {Request}) \cup {Ack(cache.content)}
    /\ UNCHANGED <<filesVars, cn, awaited, alone, faults, refreshes>>

\* getFromCache: a read that a writer tears does not parse, as a torn file.
AnswerRequest ==
    /\ Request \in net
    /\ Files!Store!Readable(cache)
    /\ net' = (net \ {Request}) \cup {Ack(cache.content)}
    /\ UNCHANGED <<filesVars, cn, awaited, alone, faults, refreshes>>

\* getFromCache calls back with an error: no reply.
IgnoreRequest ==
    /\ Request \in net
    /\ ~ Files!Store!Readable(cache)
    /\ net' = net \ {Request}
    /\ UNCHANGED <<filesVars, cn, awaited, alone, faults, refreshes>>

BeginRefresh(c) ==
    /\ refreshes < MaxRefreshes
    /\ Files!Begin(c)
    /\ refreshes' = refreshes + 1
    /\ UNCHANGED <<clientVars, awaited, faults>>
    /\ Track

\* A call that ends with an error sends nothing.
Silently(c) ==
    /\ awaited' = IF pc'[c] = "idle" THEN awaited \ {c} ELSE awaited
    /\ Track
    /\ UNCHANGED <<clientVars, refreshes>>

FetchParams(c) == Files!Resolve(c) /\ Silently(c) /\ UNCHANGED faults
ReadParams(c)  == Files!FallBack(c) /\ Silently(c) /\ UNCHANGED faults

WriteFiles(c) ==
    /\ \/ Files!OpenCache(c) \/ Files!WriteCache(c)
       \/ Files!WriteScripts(c) \/ Files!Succeed(c)
    /\ Silently(c)
    /\ UNCHANGED faults

WriteError(c) ==
    /\ faults < MaxFaults
    /\ faults' = faults + 1
    /\ Files!Fail(c)
    /\ Silently(c)

Crash ==
    /\ faults < MaxFaults
    /\ faults' = faults + 1
    /\ Files!Die
    /\ awaited' = {}
    /\ alone' = {}
    /\ UNCHANGED <<clientVars, refreshes>>

Configure == Files!Configure /\ UNCHANGED <<clientVars, awaited, alone, faults, refreshes>>

Next ==
    \/ SendDiscover \/ SendRequest \/ GiveUp \/ Reboot \/ PowerCycle
    \/ \E m \in net : TakeOffer(m) \/ TakeAck(m) \/ Lose(m)
    \/ AnswerRequest \/ IgnoreRequest
    \/ \E c \in Call :
          \/ HandleDiscover(c) \/ BeginRefresh(c) \/ Finish(c)
          \/ FetchParams(c) \/ ReadParams(c) \/ WriteFiles(c) \/ WriteError(c)
    \/ Crash
    \/ Configure

\* The CN retransmits.  Of the messages that are sent again and again some
\* arrive; of the requests to NAPI and CNAPI some are answered; the file system
\* answers always.
Fairness ==
    /\ WF_vars(SendDiscover)
    /\ WF_vars(SendRequest)
    /\ WF_vars(GiveUp)
    /\ SF_vars(\E c \in Call : HandleDiscover(c))
    /\ SF_vars(\E m \in net : TakeOffer(m))
    /\ SF_vars(AnswerRequest)
    /\ SF_vars(\E m \in net : TakeAck(m))
    /\ \A c \in Call :
          SF_vars(FetchParams(c)) /\ WF_vars(WriteFiles(c)) /\ WF_vars(Finish(c))

Spec == Init /\ [][Next]_vars

FairSpec == Spec /\ Fairness

-------------------------------------------------------------------------------
(* Every variable stays in its set.                                        *)
TypeOK ==
    /\ Files!TypeOKOfCalls
    /\ net \subseteq Message
    /\ cn \in Cn
    /\ awaited \subseteq Call
    /\ alone \subseteq awaited
    /\ faults \in 0..MaxFaults
    /\ refreshes \in 0..MaxRefreshes

(* The ACK confirms the OFFER: if the offer came from a call that had no   *)
(* call with other params running beside it, the address the CN gets comes *)
(* from the same params or from later ones, whatever refreshes and other   *)
(* handlers do to the cache file between OFFER and REQUEST                 *)
(* (dhcpd.js:223-251).                                                     *)
AckConfirmsOffer ==
    [][cn.state = "request" /\ cn.firm /\ cn'.state = "bound"
          => cn'.ver >= cn.ver]_vars

(* The exchange implements what a CN can rely on.                          *)
Lease == INSTANCE DhcpLease WITH phase <- cn.state, lease <- cn.ver

ImplementsLease == Lease!Spec

(* A CN that boots gets an address every time, although messages are lost, *)
(* the services fail now and then and a crash may have left its cache file *)
(* empty or torn: the REQUEST is then never answered, and the next         *)
(* DISCOVER repairs the file (dhcpd.js:216-252).                           *)
CnGetsAddress == []<>(cn.state = "bound")
===============================================================================
