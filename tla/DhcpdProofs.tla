----------------------------- MODULE DhcpdProofs ------------------------------
(***************************************************************************)
(* Proofs about Dhcpd for any number of calls and versions.                *)
(***************************************************************************)
EXTENDS Dhcpd, TLAPS

\* The calls of writeAll and the files.
FilesInv ==
    /\ Files!TypeOKOfCalls
    /\ cache.content # None => cache.content \in assembled /\ cache.content <= current
    /\ \A c \in Call :
          /\ ver[c] # None => ver[c] \in assembled /\ ver[c] <= current
          /\ pc[c] \in {"open", "write", "rest", "ok"} <=> ver[c] # None
          /\ pc[c] = "ok" => ready

(* What getFromCache reads is a version that was assembled.                *)
LEMMA ReadableKnown ==
    ASSUME FilesInv, Files!Store!Readable(cache)
    PROVE  cache.content \in Version /\ cache.content \in assembled /\ cache.content <= current
  BY DhcpdAssumption DEF FilesInv, Files!Store!Readable, Version, None, Files!Version, Files!None

(* The operations on the file keep its type.                               *)
LEMMA FileTypes ==
    /\ Files!Store!Absent \in Files!Store!File
    /\ Files!Store!Absent.content = None
    /\ Files!Store!Opened \in Files!Store!File
    /\ Files!Store!Opened.content = None
    /\ \A v \in Version : /\ Files!Store!Holding(v) \in Files!Store!File
                          /\ Files!Store!Holding(v).content = v
    /\ \A f \in Files!Store!File, v \in Version :
          Files!Store!Wrote(f, v) \in Files!Store!File /\ Files!Store!Wrote(f, v).content = v
  BY DhcpdAssumption
  DEF Files!Store!File, Files!Store!Absent, Files!Store!Opened, Files!Store!Holding,
      Files!Store!Wrote, Version, None, Files!Version, Files!None

-------------------------------------------------------------------------------
(* The steps of writeAll keep FilesInv.                                    *)

LEMMA FilesInit == Files!Init => FilesInv
  <1> SUFFICES ASSUME Files!Init PROVE FilesInv
    OBVIOUS
  <1> USE DEF Version, None
  <1>1. 1 \in Version /\ 1 <= 1
    BY DhcpdAssumption DEF Files!Version
  <1>2. /\ cache \in Files!Store!File
        /\ cache.content # None => cache.content \in assembled /\ cache.content <= current
    BY <1>1, FileTypes DEF Files!Init
  <1>3. Files!TypeOKOfCalls
    BY <1>1, <1>2 DEF Files!Init, Files!TypeOKOfCalls
  <1>4. ASSUME NEW c \in Call
        PROVE  ver[c] = None /\ pc[c] = "idle"
    BY DEF Files!Init
  <1> QED BY <1>2, <1>3, <1>4 DEF FilesInv

\* A call goes on with the version it has, or ends.
LEMMA GoToKeeps ==
    ASSUME FilesInv, NEW c \in Call,
           NEW v \in Version \cup {None}, v # None => v \in assembled' /\ v <= current',
           NEW p \in {"idle", "params", "open", "write", "rest", "ok"},
           v # None <=> p \in {"open", "write", "rest", "ok"},
           p = "ok" => ready',
           Files!GoTo(c, p, v),
           current' \in Version, current <= current',
           assembled \subseteq assembled', assembled' \subseteq Version,
           ready' \in BOOLEAN, ready => ready',
           cache' \in Files!Store!File,
           cache'.content # None => cache'.content \in assembled' /\ cache'.content <= current'
    PROVE  FilesInv'
  <1> USE DhcpdAssumption DEF Version, None, Files!Version, Files!None, FilesInv
  <1>1. Files!TypeOKOfCalls'
    BY DEF Files!TypeOKOfCalls, Files!GoTo
  <1>2. ASSUME NEW d \in Call
        PROVE  /\ ver'[d] # None => ver'[d] \in assembled' /\ ver'[d] <= current'
               /\ pc'[d] \in {"open", "write", "rest", "ok"} <=> ver'[d] # None
               /\ pc'[d] = "ok" => ready'
    <2>1. CASE d = c
      BY <2>1 DEF Files!TypeOKOfCalls, Files!GoTo
    <2>2. CASE d # c
      <3>1. ver'[d] = ver[d] /\ pc'[d] = pc[d]
        BY <2>2 DEF Files!TypeOKOfCalls, Files!GoTo
      <3>2. ver[d] \in Nat /\ current \in Nat /\ current' \in Nat
        BY DEF Files!TypeOKOfCalls
      <3> QED BY <3>1, <3>2
    <2> QED BY <2>1, <2>2
  <1> QED BY <1>1, <1>2

LEMMA FilesStep ==
    ASSUME FilesInv, NEW c \in Call, Files!Step(c)
    PROVE  FilesInv'
  <1> USE DEF Version, None
  <1>0. /\ current <= current /\ None \notin Version
        /\ current \in Version /\ cache \in Files!Store!File /\ ready \in BOOLEAN
        /\ assembled \subseteq Version /\ ver[c] \in Version \cup {None}
        /\ cache.content # None => cache.content \in assembled /\ cache.content <= current
        /\ ver[c] # None => ver[c] \in assembled /\ ver[c] <= current
        /\ pc[c] \in {"open", "write", "rest", "ok"} => ver[c] \in Version
    BY DhcpdAssumption DEF FilesInv, Files!TypeOKOfCalls, Files!Version, Files!None
  <1>1. CASE Files!Begin(c)
    BY <1>0, <1>1, GoToKeeps DEF Files!Begin
  <1>2. CASE Files!Resolve(c)
    BY <1>0, <1>2, GoToKeeps DEF Files!Resolve
  <1>3. CASE Files!FallBack(c)
    <2>1. CASE Files!Store!Readable(cache)
      BY <1>0, <1>3, <2>1, ReadableKnown, GoToKeeps DEF Files!FallBack
    <2>2. CASE ~ Files!Store!Readable(cache)
      BY <1>0, <1>3, <2>2, GoToKeeps DEF Files!FallBack
    <2> QED BY <2>1, <2>2
  <1>4. CASE Files!OpenCache(c)
    BY <1>0, <1>4, FileTypes, GoToKeeps DEF Files!OpenCache
  <1>5. CASE Files!WriteCache(c)
    BY <1>0, <1>5, FileTypes, GoToKeeps DEF Files!WriteCache
  <1>6. CASE Files!WriteScripts(c)
    BY <1>6 DEF FilesInv, Files!TypeOKOfCalls, Files!WriteScripts
  <1>7. CASE Files!Succeed(c)
    BY <1>0, <1>7, GoToKeeps DEF Files!Succeed
  <1>8. CASE Files!Fail(c)
    BY <1>0, <1>8, GoToKeeps DEF Files!Fail
  <1>9. CASE Files!Return(c)
    BY <1>0, <1>9, GoToKeeps DEF Files!Return
  <1> QED BY <1>1, <1>2, <1>3, <1>4, <1>5, <1>6, <1>7, <1>8, <1>9 DEF Files!Step

LEMMA FilesKeep ==
    ASSUME FilesInv, [Files!Next]_filesVars
    PROVE  FilesInv'
  <1>1. CASE \E c \in Call : Files!Step(c)
    BY <1>1, FilesStep
  <1>2. CASE Files!Die
    BY <1>2, DhcpdAssumption DEF FilesInv, Files!TypeOKOfCalls, Files!Die, None, Files!None
  <1>3. CASE Files!Configure
    <2>1. current' \in Version /\ current \in Nat /\ current' = current + 1
      BY <1>3, DhcpdAssumption
      DEF FilesInv, Files!TypeOKOfCalls, Files!Configure, Version, Files!Version
    <2>2. cache.content \in Nat /\ \A c \in Call : ver[c] \in Nat
      BY DhcpdAssumption
      DEF FilesInv, Files!TypeOKOfCalls, Files!Version, Files!None, Files!Store!File
    <2> QED BY <1>3, <2>1, <2>2 DEF FilesInv, Files!TypeOKOfCalls, Files!Configure, Version
  <1>4. CASE UNCHANGED filesVars
    BY <1>4 DEF FilesInv, Files!TypeOKOfCalls, filesVars
  <1> QED BY <1>1, <1>2, <1>3, <1>4 DEF Files!Next

-------------------------------------------------------------------------------
(* The server and the CN on top of it.                                     *)

\* What a step of Dhcpd is to writeAll.
LEMMA StepOfFiles ==
    ASSUME [Next]_vars
    PROVE  [Files!Next]_filesVars
  <1> USE DEF Files!Next, Files!Step
  <1>1. CASE \E c \in Call :
                \/ HandleDiscover(c) \/ BeginRefresh(c) \/ Finish(c)
                \/ FetchParams(c) \/ ReadParams(c) \/ WriteFiles(c) \/ WriteError(c)
    BY <1>1 DEF HandleDiscover, BeginRefresh, Finish, FetchParams, ReadParams,
                WriteFiles, WriteError
  <1>2. CASE Crash \/ Configure
    BY <1>2 DEF Crash, Configure
  <1>3. CASE \/ SendDiscover \/ SendRequest \/ GiveUp \/ Reboot \/ PowerCycle
             \/ \E m \in net : TakeOffer(m) \/ TakeAck(m) \/ Lose(m)
             \/ AnswerRequest \/ IgnoreRequest
    BY <1>3 DEF SendDiscover, SendRequest, GiveUp, Reboot, PowerCycle, StartOver, TakeOffer,
                TakeAck, Lose, AnswerRequest, IgnoreRequest
  <1>4. CASE UNCHANGED vars
    BY <1>4 DEF vars
  <1> QED BY <1>1, <1>2, <1>3, <1>4 DEF Next

(* Versions only come, and the scripts stay.                               *)
LEMMA FilesGrow ==
    ASSUME FilesInv, [Files!Next]_filesVars
    PROVE  assembled \subseteq assembled' /\ (ready => ready')
  BY DEF FilesInv, Files!TypeOKOfCalls, filesVars, Files!Next, Files!Step, Files!Begin,
         Files!Resolve, Files!FallBack, Files!OpenCache, Files!WriteCache,
         Files!WriteScripts, Files!Succeed, Files!Fail, Files!Return, Files!Die,
         Files!Configure

(* The messages that a step puts on the network.                           *)
LEMMA NewMessages ==
    ASSUME [Next]_vars, NEW m \in net', m \notin net
    PROVE  \/ m \in {Discover, Request}
           \/ \E c \in Call : pc[c] = "ok" /\ m = Offer(ver[c], c \in alone)
           \/ /\ m = Ack(cache.content)
              /\ Files!Store!Readable(cache)
              /\ UNCHANGED <<filesVars, cn>>
  <1>1. CASE SendDiscover \/ SendRequest \/ GiveUp \/ Reboot \/ PowerCycle
    BY <1>1 DEF SendDiscover, SendRequest, GiveUp, Reboot, PowerCycle, StartOver
  <1>2. CASE \E n \in net : TakeOffer(n) \/ TakeAck(n) \/ Lose(n)
    BY <1>2 DEF TakeOffer, TakeAck, Lose
  <1>3. CASE AnswerRequest \/ IgnoreRequest
    BY <1>3 DEF AnswerRequest, IgnoreRequest
  <1>4. CASE \E c \in Call : Finish(c)
    BY <1>4 DEF Finish, Files!Return
  <1>5. CASE \E c \in Call :
                \/ HandleDiscover(c) \/ BeginRefresh(c)
                \/ FetchParams(c) \/ ReadParams(c) \/ WriteFiles(c) \/ WriteError(c)
    BY <1>5 DEF HandleDiscover, BeginRefresh, FetchParams, ReadParams, WriteFiles,
                WriteError, Silently, clientVars
  <1>6. CASE Crash \/ Configure \/ UNCHANGED vars
    BY <1>6 DEF Crash, Configure, vars, clientVars
  <1> QED BY <1>1, <1>2, <1>3, <1>4, <1>5, <1>6 DEF Next

(* What a step makes of the CN.                                            *)
LEMMA CnStep ==
    ASSUME [Next]_vars
    PROVE  \/ cn' = cn
           \/ cn' = Booting
           \/ \E m \in net : TakeOffer(m) \/ TakeAck(m)
  <1>1. CASE SendDiscover \/ SendRequest \/ GiveUp \/ Reboot \/ PowerCycle
    BY <1>1 DEF SendDiscover, SendRequest, GiveUp, Reboot, PowerCycle, StartOver
  <1>2. CASE \E n \in net : Lose(n)
    BY <1>2 DEF Lose
  <1>3. CASE AnswerRequest \/ IgnoreRequest
    BY <1>3 DEF AnswerRequest, IgnoreRequest
  <1>4. CASE \E c \in Call :
                \/ HandleDiscover(c) \/ BeginRefresh(c) \/ Finish(c)
                \/ FetchParams(c) \/ ReadParams(c) \/ WriteFiles(c) \/ WriteError(c)
    BY <1>4 DEF HandleDiscover, BeginRefresh, Finish, FetchParams, ReadParams, WriteFiles,
                WriteError, Silently, clientVars
  <1>5. CASE Crash \/ Configure \/ UNCHANGED vars
    BY <1>5 DEF Crash, Configure, vars, clientVars
  <1> QED BY <1>1, <1>2, <1>3, <1>4, <1>5 DEF Next

-------------------------------------------------------------------------------
(* Type correctness.                                                       *)

LEMMA MessageTypes ==
    /\ Discover \in Message /\ Request \in Message /\ Booting \in Cn
    /\ \A v \in Version : Ack(v) \in Message
    /\ \A v \in Version, firm \in BOOLEAN : Offer(v, firm) \in Message
    /\ \A m \in Message : /\ m.type \in {"DISCOVER", "REQUEST", "OFFER", "ACK"}
                          /\ m.firm \in BOOLEAN
                          /\ m.type \in {"OFFER", "ACK"} <=> m.ver \in Version
                          /\ m.firm => m.type = "OFFER"
  <1>1. None \notin Version
    BY DhcpdAssumption DEF Version, None, Files!Version, Files!None
  <1>2. Discover \in Message /\ Request \in Message /\ Booting \in Cn
    BY DEF Message, Discover, Request, Cn, Booting
  <1>3. ASSUME NEW v \in Version PROVE Ack(v) \in Message
    BY DEF Message
  <1>4. ASSUME NEW v \in Version, NEW firm \in BOOLEAN PROVE Offer(v, firm) \in Message
    BY DEF Message
  <1>5. ASSUME NEW m \in Message
        PROVE  /\ m.type \in {"DISCOVER", "REQUEST", "OFFER", "ACK"}
               /\ m.firm \in BOOLEAN
               /\ m.type \in {"OFFER", "ACK"} <=> m.ver \in Version
               /\ m.firm => m.type = "OFFER"
    <2>1. CASE m \in {Discover, Request}
      <3>1. m.type \in {"DISCOVER", "REQUEST"} /\ m.ver = None /\ m.firm = FALSE
        BY <2>1 DEF Discover, Request
      <3> QED BY <3>1, <1>1
    <2>2. CASE \E v \in Version : m = Ack(v)
      BY <2>2 DEF Ack
    <2>3. CASE \E v \in Version, firm \in BOOLEAN : m = Offer(v, firm)
      BY <2>3 DEF Offer
    <2> QED BY <2>1, <2>2, <2>3 DEF Message
  <1> QED BY <1>2, <1>3, <1>4, <1>5

LEMMA NetTyped ==
    ASSUME TypeOK, FilesInv, [Next]_vars
    PROVE  net' \subseteq Message
  <1> SUFFICES ASSUME NEW m \in net', m \notin net PROVE m \in Message
    BY DEF TypeOK
  <1>1. CASE m \in {Discover, Request}
    BY <1>1, MessageTypes
  <1>2. CASE \E c \in Call : pc[c] = "ok" /\ m = Offer(ver[c], c \in alone)
    <2>1. PICK c \in Call : pc[c] = "ok" /\ m = Offer(ver[c], c \in alone)
      BY <1>2
    <2>2. ver[c] \in Version
      BY <2>1 DEF FilesInv, Files!TypeOKOfCalls, Version, None
    <2>3. (c \in alone) \in BOOLEAN
      OBVIOUS
    <2> QED BY <2>1, <2>2, <2>3, MessageTypes
  <1>3. CASE m = Ack(cache.content) /\ Files!Store!Readable(cache)
    BY <1>3, ReadableKnown, MessageTypes
  <1> QED BY <1>1, <1>2, <1>3, NewMessages

LEMMA CnTyped ==
    ASSUME TypeOK, [Next]_vars
    PROVE  cn' \in Cn
  <1>1. CASE cn' = cn \/ cn' = Booting
    BY <1>1, MessageTypes DEF TypeOK
  <1>2. CASE \E m \in net : TakeOffer(m) \/ TakeAck(m)
    <2>1. PICK m \in net : TakeOffer(m) \/ TakeAck(m)
      BY <1>2
    <2>2. m.ver \in Version /\ m.firm \in BOOLEAN
      BY <2>1, MessageTypes DEF TypeOK, TakeOffer, TakeAck
    <2>3. CASE TakeOffer(m)
      <3>1. [state |-> "request", ver |-> m.ver, firm |-> m.firm] \in Cn
        BY <2>2 DEF Cn
      <3> QED BY <2>3, <3>1 DEF TakeOffer
    <2>4. CASE TakeAck(m)
      BY <2>2, <2>4 DEF TakeAck, Cn
    <2> QED BY <2>1, <2>3, <2>4
  <1> QED BY <1>1, <1>2, CnStep

LEMMA CountersTyped ==
    ASSUME TypeOK, [Next]_vars
    PROVE  /\ awaited' \subseteq Call /\ alone' \subseteq awaited'
           /\ faults' \in 0..MaxFaults /\ refreshes' \in 0..MaxRefreshes
  <1> USE DhcpdAssumption DEF TypeOK
  <1>1. CASE SendDiscover \/ SendRequest \/ GiveUp \/ Reboot \/ PowerCycle
    BY <1>1 DEF SendDiscover, SendRequest, GiveUp, Reboot, PowerCycle, StartOver
  <1>2. CASE \E n \in net : TakeOffer(n) \/ TakeAck(n) \/ Lose(n)
    BY <1>2 DEF TakeOffer, TakeAck, Lose
  <1>3. CASE AnswerRequest \/ IgnoreRequest
    BY <1>3 DEF AnswerRequest, IgnoreRequest
  <1>4. CASE \E c \in Call : HandleDiscover(c) \/ BeginRefresh(c) \/ Finish(c)
    BY <1>4 DEF HandleDiscover, BeginRefresh, Finish, Track
  <1>5. CASE \E c \in Call : FetchParams(c) \/ ReadParams(c) \/ WriteFiles(c) \/ WriteError(c)
    BY <1>5 DEF FetchParams, ReadParams, WriteFiles, WriteError, Silently, Track
  <1>6. CASE Crash \/ Configure \/ UNCHANGED vars
    BY <1>6 DEF Crash, Configure, vars
  <1> QED BY <1>1, <1>2, <1>3, <1>4, <1>5, <1>6 DEF Next

(* Every variable of the CN, the network and the server stays in its set.  *)
THEOREM TypeCorrect == Spec => []TypeOK
  <1> DEFINE Inv == TypeOK /\ FilesInv
  <1>1. Init => Inv
    <2> SUFFICES ASSUME Init PROVE Inv
      OBVIOUS
    <2>1. FilesInv
      BY FilesInit DEF Init
    <2> QED BY <2>1, MessageTypes, DhcpdAssumption DEF Init, TypeOK, FilesInv
  <1>2. Inv /\ [Next]_vars => Inv'
    <2> SUFFICES ASSUME Inv, [Next]_vars PROVE Inv'
      OBVIOUS
    <2>1. FilesInv'
      BY StepOfFiles, FilesKeep
    <2> QED BY <2>1, NetTyped, CnTyped, CountersTyped DEF TypeOK, FilesInv
  <1> QED BY <1>1, <1>2, PTL DEF Spec

-------------------------------------------------------------------------------
(* The exchange implements DhcpLease.                                      *)

\* What an answer on its way says is known, and the scripts of an offer written.
AnswerInv ==
    \A m \in net : m.type \in {"OFFER", "ACK"} =>
        m.ver \in assembled /\ (m.type = "OFFER" => ready)

LeaseInv == TypeOK /\ FilesInv /\ AnswerInv

LEMMA AnswerStep ==
    ASSUME LeaseInv, [Next]_vars
    PROVE  AnswerInv'
  <1> SUFFICES ASSUME NEW m \in net', m.type \in {"OFFER", "ACK"}
               PROVE  m.ver \in assembled' /\ (m.type = "OFFER" => ready')
    BY DEF AnswerInv
  <1>0. assembled \subseteq assembled' /\ (ready => ready')
    BY StepOfFiles, FilesGrow DEF LeaseInv
  <1>1. CASE m \in net
    BY <1>0, <1>1 DEF LeaseInv, AnswerInv
  <1>2. CASE m \in {Discover, Request}
    BY <1>2 DEF Discover, Request
  <1>3. CASE \E c \in Call : pc[c] = "ok" /\ m = Offer(ver[c], c \in alone)
    <2>1. PICK c \in Call : pc[c] = "ok" /\ m = Offer(ver[c], c \in alone)
      BY <1>3
    <2>2. m.ver = ver[c]
      BY <2>1 DEF Offer
    <2> QED BY <1>0, <2>1, <2>2 DEF LeaseInv, FilesInv
  <1>4. CASE m = Ack(cache.content) /\ Files!Store!Readable(cache)
    <2>1. m.ver = cache.content /\ m.type = "ACK"
      BY <1>4 DEF Ack
    <2> QED BY <1>0, <1>4, <2>1, ReadableKnown DEF LeaseInv
  <1> QED BY <1>1, <1>2, <1>3, <1>4, NewMessages

LEMMA LeaseInvKept == LeaseInv /\ [Next]_vars => LeaseInv'
  <1> SUFFICES ASSUME LeaseInv, [Next]_vars PROVE LeaseInv'
    OBVIOUS
  <1>1. FilesInv'
    BY StepOfFiles, FilesKeep DEF LeaseInv
  <1> QED BY <1>1, NetTyped, CnTyped, CountersTyped, AnswerStep DEF LeaseInv, TypeOK, FilesInv

LEMMA LeaseInvInit == Init => LeaseInv
  <1> SUFFICES ASSUME Init PROVE LeaseInv
    OBVIOUS
  <1>1. FilesInv
    BY FilesInit DEF Init
  <1> QED BY <1>1, MessageTypes, DhcpdAssumption DEF Init, LeaseInv, TypeOK, FilesInv, AnswerInv

\* Of what a CN can rely on, a step of writeAll changes what is assembled or the
\* scripts.
LEMMA FilesLease ==
    ASSUME LeaseInv, [Files!Next]_filesVars, cn' = cn
    PROVE  [Lease!Next]_Lease!vars
  <1> USE DEF Lease!Next, Lease!vars
  <1>1. CASE \E c \in Call : Files!Resolve(c)
    <2>1. current \in Version /\ assembled' = assembled \cup {current} /\ ready' = ready
      BY <1>1 DEF Files!Resolve, LeaseInv, FilesInv, Files!TypeOKOfCalls, Version
    <2> QED BY <2>1 DEF Lease!Assemble
  <1>2. CASE \E c \in Call : Files!WriteScripts(c)
    <2>1. assembled # {} /\ ready' = TRUE /\ assembled' = assembled
      BY <1>2, DhcpdAssumption
      DEF Files!WriteScripts, LeaseInv, FilesInv, Files!TypeOKOfCalls, Files!None
    <2> QED BY <2>1 DEF Lease!WriteScripts
  <1>3. CASE \E c \in Call : \/ Files!Begin(c) \/ Files!FallBack(c) \/ Files!OpenCache(c)
                             \/ Files!WriteCache(c) \/ Files!Succeed(c) \/ Files!Fail(c)
                             \/ Files!Return(c)
    BY <1>3 DEF Files!Begin, Files!FallBack, Files!OpenCache, Files!WriteCache,
                Files!Succeed, Files!Fail, Files!Return
  <1>4. CASE Files!Die \/ Files!Configure \/ UNCHANGED filesVars
    BY <1>4 DEF Files!Die, Files!Configure, filesVars
  <1> QED BY <1>1, <1>2, <1>3, <1>4 DEF Files!Next, Files!Step

LEMMA LeaseStep ==
    ASSUME LeaseInv, [Next]_vars
    PROVE  [Lease!Next]_Lease!vars
  <1>1. CASE cn' = cn
    BY <1>1, StepOfFiles, FilesLease
  <1>2. CASE cn' # cn /\ cn' = Booting
    <2>1. StartOver /\ UNCHANGED filesVars
      BY <1>2, CnStep
      DEF Next, SendDiscover, SendRequest, GiveUp, Reboot, PowerCycle, StartOver, TakeOffer,
          TakeAck, Lose, AnswerRequest, IgnoreRequest, HandleDiscover, BeginRefresh, Finish,
          FetchParams, ReadParams, WriteFiles, WriteError, Silently, Crash, Configure,
          clientVars, vars, Booting
    <2>2. Lease!StartOver
      BY <2>1 DEF StartOver, Booting, Lease!StartOver, filesVars, None, Files!None
    <2> QED BY <2>2 DEF Lease!Next
  <1>3. CASE \E m \in net : TakeOffer(m) \/ TakeAck(m)
    <2>1. PICK m \in net : TakeOffer(m) \/ TakeAck(m)
      BY <1>3
    <2>2. /\ m.ver \in Version /\ m.ver \in assembled
          /\ TakeOffer(m) => ready
      BY <2>1, MessageTypes DEF LeaseInv, TypeOK, AnswerInv, TakeOffer, TakeAck
    <2>3. CASE TakeOffer(m)
      <3>1. Lease!TakeOffer(m.ver)
        BY <2>2, <2>3 DEF TakeOffer, Lease!TakeOffer, filesVars
      <3> QED BY <2>2, <3>1 DEF Lease!Next
    <2>4. CASE TakeAck(m)
      <3>1. Lease!Bind(m.ver)
        BY <2>2, <2>4 DEF TakeAck, Lease!Bind, filesVars
      <3> QED BY <2>2, <3>1 DEF Lease!Next
    <2> QED BY <2>1, <2>3, <2>4
  <1> QED BY <1>1, <1>2, <1>3, CnStep

(* The exchange of a CN with booter, over a network that loses and reorders*)
(* messages, with overlapping handlers and refreshes, failures of services *)
(* and disks and crashes, implements what a CN can rely on.                *)
THEOREM LeaseImplemented == Spec => ImplementsLease
  <1>1. Init => Lease!Init
    <2> SUFFICES ASSUME Init PROVE Lease!Init
      OBVIOUS
    <2>1. assembled \in SUBSET Version /\ ready \in BOOLEAN
      BY LeaseInvInit DEF LeaseInv, FilesInv, Files!TypeOKOfCalls, Version
    <2> QED BY <2>1 DEF Init, Booting, Lease!Init, None, Files!None
  <1> QED BY <1>1, LeaseInvInit, LeaseInvKept, LeaseStep, PTL
          DEF Spec, ImplementsLease, Lease!Spec

-------------------------------------------------------------------------------
(* The ACK confirms the OFFER.                                             *)

\* Nothing older than v is known any more: not to NAPI, the file or a call.
AtLeast(v) ==
    /\ v <= current
    /\ cache.content # None => v <= cache.content
    /\ \A c \in Call : ver[c] # None => v <= ver[c]

\* A call that is alone shares its version with the other calls, and once it has
\* written the file or read it, with the file.
AloneInv ==
    \A c \in alone :
        /\ pc[c] \in {"rest", "ok"} => cache.content \in {None, ver[c]}
        /\ ver[c] # None => \A d \in Call : ver[d] \in {None, ver[c]}

FirmInv ==
    /\ \A m \in net : m.firm => AtLeast(m.ver)
    /\ cn.firm => /\ cn.state = "request" /\ cn.ver \in Version
                  /\ AtLeast(cn.ver)
                  /\ \A m \in net : m.type = "ACK" => cn.ver <= m.ver

IInv == LeaseInv /\ AloneInv /\ FirmInv

(* AtLeast stays: a call gets its version from NAPI or from the file, and  *)
(* the file from a call.                                                   *)
LEMMA AtLeastStep ==
    ASSUME FilesInv, [Files!Next]_filesVars, NEW v \in Version, AtLeast(v)
    PROVE  AtLeast(v)'
  <1> USE DhcpdAssumption DEF Version, None, Files!Version, Files!None, AtLeast
  <1>0. /\ v \in Nat /\ current \in Nat
        /\ ver \in [Call -> Version \cup {None}] /\ pc \in [Call -> {"idle", "params", "open", "write", "rest", "ok"}]
    BY DEF FilesInv, Files!TypeOKOfCalls
  <1>1. ASSUME NEW c \in Call, Files!GoTo(c, pc'[c], ver'[c]),
               ver'[c] # None => v <= ver'[c]
        PROVE  \A d \in Call : ver'[d] # None => v <= ver'[d]
    BY <1>0, <1>1 DEF Files!GoTo
  <1>2. CASE \E c \in Call : Files!Begin(c) \/ Files!Fail(c) \/ Files!Return(c)
    BY <1>0, <1>2 DEF Files!Begin, Files!Fail, Files!Return, Files!GoTo
  <1>3. CASE \E c \in Call : Files!Resolve(c)
    BY <1>0, <1>3 DEF Files!Resolve, Files!GoTo
  <1>4. CASE \E c \in Call : Files!FallBack(c)
    <2>1. PICK c \in Call : Files!FallBack(c)
      BY <1>4
    <2>2. CASE Files!Store!Readable(cache)
      BY <1>0, <2>1, <2>2, ReadableKnown DEF Files!FallBack, Files!GoTo
    <2>3. CASE ~ Files!Store!Readable(cache)
      BY <1>0, <2>1, <2>3 DEF Files!FallBack, Files!GoTo
    <2> QED BY <2>2, <2>3
  <1>5. CASE \E c \in Call : Files!OpenCache(c)
    BY <1>0, <1>5, FileTypes DEF Files!OpenCache, Files!GoTo
  <1>6. CASE \E c \in Call : Files!WriteCache(c)
    <2>1. PICK c \in Call : Files!WriteCache(c)
      BY <1>6
    <2>2. ver[c] \in Version /\ v <= ver[c] /\ cache \in Files!Store!File
      BY <2>1 DEF Files!WriteCache, FilesInv, Files!TypeOKOfCalls
    <2>3. cache'.content = ver[c]
      BY <2>1, <2>2, FileTypes DEF Files!WriteCache
    <2> QED BY <1>0, <2>1, <2>2, <2>3 DEF Files!WriteCache, Files!GoTo
  <1>7. CASE \E c \in Call : Files!WriteScripts(c) \/ Files!Succeed(c)
    BY <1>0, <1>7 DEF Files!WriteScripts, Files!Succeed, Files!GoTo
  <1>8. CASE Files!Die \/ Files!Configure \/ UNCHANGED filesVars
    BY <1>0, <1>8 DEF Files!Die, Files!Configure, filesVars
  <1> QED BY <1>2, <1>3, <1>4, <1>5, <1>6, <1>7, <1>8 DEF Files!Next, Files!Step

\* What is written while c stays alone is what c has.
LEMMA AloneStep ==
    ASSUME LeaseInv, AloneInv, FilesInv', NEW d \in Call, Files!Step(d), Track,
           awaited' \subseteq Call
    PROVE  AloneInv'
  <1> SUFFICES ASSUME NEW c \in alone', ver'[c] # None
               PROVE  /\ pc'[c] \in {"rest", "ok"} => cache'.content \in {None, ver'[c]}
                      /\ \A e \in Call : ver'[e] \in {None, ver'[c]}
    <2>1. ASSUME NEW c \in alone', ver'[c] = None PROVE pc'[c] \notin {"rest", "ok"}
      <3>1. c \in Call
        BY <2>1 DEF Track
      <3> QED BY <2>1, <3>1 DEF FilesInv
    <2> QED BY <2>1 DEF AloneInv
  <1>1. c \in alone /\ c \in Call /\ \A e \in Call : ver'[e] \in {None, ver'[c]}
    BY DEF Track, None
  <1> SUFFICES ASSUME pc'[c] \in {"rest", "ok"}
               PROVE  cache'.content \in {None, ver'[c]}
    BY <1>1
  <1>2. pc \in [Call -> {"idle", "params", "open", "write", "rest", "ok"}] /\ ver \in [Call -> Version \cup {None}]
    BY DEF LeaseInv, FilesInv, Files!TypeOKOfCalls, Version, None
  <1>3. CASE Files!WriteCache(d)
    <2>1. ver[d] \in Version /\ cache \in Files!Store!File
      BY <1>3 DEF Files!WriteCache, LeaseInv, FilesInv, Files!TypeOKOfCalls, Version, None
    <2>2. cache'.content = ver[d] /\ ver'[d] = ver[d]
      BY <1>2, <1>3, <2>1, FileTypes DEF Files!WriteCache, Files!GoTo
    <2> QED BY <1>1, <2>2
  <1>4. CASE Files!OpenCache(d)
    BY <1>4, FileTypes DEF Files!OpenCache
  <1>5. CASE Files!FallBack(d) /\ c = d
    BY <1>2, <1>5 DEF Files!FallBack, Files!GoTo
  <1>6. CASE \/ Files!Begin(d) \/ Files!Resolve(d) \/ Files!WriteScripts(d)
             \/ Files!Succeed(d) \/ Files!Fail(d) \/ Files!Return(d)
             \/ Files!FallBack(d) /\ c # d
    <2>1. cache' = cache /\ pc[c] \in {"rest", "ok"} /\ ver'[c] = ver[c]
      BY <1>1, <1>2, <1>6
      DEF Files!Begin, Files!Resolve, Files!WriteScripts, Files!Succeed, Files!Fail,
          Files!Return, Files!FallBack, Files!GoTo
    <2> QED BY <1>1, <2>1 DEF AloneInv
  <1> QED BY <1>3, <1>4, <1>5, <1>6 DEF Files!Step

LEMMA AloneKept ==
    ASSUME LeaseInv, AloneInv, [Next]_vars, FilesInv', awaited' \subseteq Call
    PROVE  AloneInv'
  <1>1. CASE \E c \in Call :
                \/ HandleDiscover(c) \/ BeginRefresh(c) \/ Finish(c)
                \/ FetchParams(c) \/ ReadParams(c) \/ WriteFiles(c) \/ WriteError(c)
    <2>1. PICK d \in Call :
                \/ HandleDiscover(d) \/ BeginRefresh(d) \/ Finish(d)
                \/ FetchParams(d) \/ ReadParams(d) \/ WriteFiles(d) \/ WriteError(d)
      BY <1>1
    <2>2. Files!Step(d) /\ Track
      BY <2>1 DEF HandleDiscover, BeginRefresh, Finish, FetchParams, ReadParams,
                  WriteFiles, WriteError, Silently, Files!Step
    <2> QED BY <2>2, AloneStep
  <1>2. CASE alone' = {}
    BY <1>2 DEF AloneInv
  <1>3. CASE /\ UNCHANGED <<alone, cache, pc, ver>>
    BY <1>3 DEF AloneInv
  <1>4. CASE \/ SendDiscover \/ SendRequest \/ GiveUp \/ Reboot \/ PowerCycle
             \/ \E m \in net : TakeOffer(m) \/ TakeAck(m) \/ Lose(m)
             \/ AnswerRequest \/ IgnoreRequest \/ Crash \/ Configure \/ UNCHANGED vars
    BY <1>2, <1>3, <1>4
    DEF SendDiscover, SendRequest, GiveUp, Reboot, PowerCycle, StartOver, TakeOffer, TakeAck,
        Lose, AnswerRequest, IgnoreRequest, Crash, Configure, Files!Configure, vars, filesVars
  <1> QED BY <1>1, <1>4 DEF Next

LEMMA FirmStep ==
    ASSUME IInv, [Next]_vars
    PROVE  FirmInv'
  <1> USE DEF IInv, LeaseInv
  <1>0. /\ net \subseteq Message /\ cn \in Cn
        /\ \A v \in Version : AtLeast(v) => AtLeast(v)'
    BY StepOfFiles, AtLeastStep DEF TypeOK
  <1>1. ASSUME NEW m \in net', m.firm
        PROVE  AtLeast(m.ver)'
    <2>1. CASE m \in net
      BY <1>0, <1>1, <2>1, MessageTypes DEF FirmInv
    <2>2. CASE m \in {Discover, Request} \/ m = Ack(cache.content)
      BY <1>1, <2>2 DEF Discover, Request, Ack
    <2>3. CASE \E c \in Call : pc[c] = "ok" /\ m = Offer(ver[c], c \in alone)
      <3>1. PICK c \in Call : pc[c] = "ok" /\ m = Offer(ver[c], c \in alone)
        BY <2>3
      <3>2. m.ver = ver[c] /\ c \in alone
        BY <1>1, <3>1 DEF Offer
      <3>3. ver[c] \in Version /\ ver[c] # None /\ ver[c] <= current
        BY <3>1 DEF FilesInv, Files!TypeOKOfCalls, Version, None
      <3>4. /\ cache.content \in {None, ver[c]}
            /\ \A d \in Call : ver[d] \in {None, ver[c]}
        BY <3>1, <3>2, <3>3 DEF AloneInv
      <3>5. ver[c] <= ver[c]
        BY <3>3, DhcpdAssumption DEF Version, Files!Version
      <3> QED BY <1>0, <3>2, <3>3, <3>4, <3>5 DEF AtLeast
    <2> QED BY <2>1, <2>2, <2>3, NewMessages
  <1>2. ASSUME cn'.firm
        PROVE  /\ cn'.state = "request" /\ cn'.ver \in Version
               /\ AtLeast(cn.ver)'
               /\ \A m \in net' : m.type = "ACK" => cn'.ver <= m.ver
    <2>1. CASE cn' = cn
      <3>1. cn.state = "request" /\ AtLeast(cn.ver) /\ cn.firm
        BY <1>2, <2>1 DEF FirmInv
      <3>2. cn.ver \in Version /\ AtLeast(cn.ver)'
        BY <1>0, <2>1, <3>1 DEF FirmInv
      <3>3. ASSUME NEW m \in net', m \notin net, m.type = "ACK"
            PROVE  cn.ver <= m.ver
        <4>1. m = Ack(cache.content) /\ Files!Store!Readable(cache)
          BY <3>3, NewMessages DEF Discover, Request, Offer
        <4>2. cache.content # None
          BY <4>1, ReadableKnown, DhcpdAssumption DEF Version, None, Files!Version, Files!None
        <4> QED BY <3>1, <4>1, <4>2 DEF AtLeast, Ack
      <3> QED BY <1>0, <2>1, <3>1, <3>2, <3>3 DEF FirmInv
    <2>2. CASE cn' = Booting
      BY <1>2, <2>2 DEF Booting
    <2>3. CASE \E m \in net : TakeOffer(m) \/ TakeAck(m)
      <3>1. PICK m \in net : TakeOffer(m) \/ TakeAck(m)
        BY <2>3
      <3>2. TakeOffer(m) /\ m.firm /\ cn'.ver = m.ver /\ cn'.state = "request"
        BY <1>2, <3>1 DEF TakeOffer, TakeAck
      <3>3. m.ver \in Version /\ AtLeast(cn.ver)'
        BY <1>0, <3>1, <3>2, MessageTypes DEF FirmInv
      <3>4. \A n \in net' : n.type # "ACK"
        BY <3>2 DEF TakeOffer, Discover, Request
      <3> QED BY <3>2, <3>3, <3>4
    <2> QED BY <2>1, <2>2, <2>3, CnStep
  <1> QED BY <1>1, <1>2 DEF FirmInv

(* An ACK that follows an undisturbed OFFER comes from the same params or  *)
(* from later ones.                                                        *)
THEOREM AckConfirms == Spec => AckConfirmsOffer
  <1>1. Init => IInv
    <2> SUFFICES ASSUME Init PROVE IInv
      OBVIOUS
    <2> QED BY LeaseInvInit DEF Init, Booting, IInv, AloneInv, FirmInv
  <1>2. IInv /\ [Next]_vars => IInv'
    <2> SUFFICES ASSUME IInv, [Next]_vars PROVE IInv'
      OBVIOUS
    <2>1. LeaseInv'
      BY LeaseInvKept DEF IInv
    <2>2. AloneInv'
      BY <2>1, AloneKept DEF IInv, LeaseInv, TypeOK
    <2> QED BY <2>1, <2>2, FirmStep DEF IInv
  <1>3. IInv /\ [Next]_vars =>
            [cn.state = "request" /\ cn.firm /\ cn'.state = "bound" => cn'.ver >= cn.ver]_vars
    <2> SUFFICES ASSUME IInv, [Next]_vars, cn.state = "request", cn.firm, cn'.state = "bound"
                 PROVE  cn'.ver >= cn.ver
      OBVIOUS
    <2>1. PICK m \in net : TakeAck(m)
      BY CnStep DEF Booting, TakeOffer
    <2>2. m.type = "ACK" /\ cn'.ver = m.ver /\ cn.ver <= m.ver
      BY <2>1 DEF TakeAck, IInv, FirmInv
    <2>3. m.ver \in Version /\ cn.ver \in Version \cup {None}
      BY <2>1, <2>2, MessageTypes DEF IInv, LeaseInv, TypeOK, Cn
    <2> QED BY <2>2, <2>3, DhcpdAssumption DEF Version, None, Files!Version, Files!None
  <1> QED BY <1>1, <1>2, <1>3, PTL DEF Spec, AckConfirmsOffer
===============================================================================
