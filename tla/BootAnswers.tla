----------------------------- MODULE BootAnswers ------------------------------
(***************************************************************************)
(* What getBootParams (lib/bootparams.js) promises its callers, with the   *)
(* pipeline, the timer and the cache directory left out:                   *)
(*   - a call is answered at most once;                                    *)
(*   - a fresh answer holds the boot params this very call assembled from  *)
(*     complete answers of NAPI and CNAPI;                                 *)
(*   - a cached answer holds boot params that some call assembled earlier  *)
(*     for the same MAC;                                                   *)
(*   - any other answer is an error.                                       *)
(* A crash of the process loses the calls that are not answered yet.       *)
(***************************************************************************)
EXTENDS Sequences

CONSTANTS Call, Mac, Payload, NoMac, NoPayload

VARIABLES
    asked,      \* the MAC each call is for, NoMac before the call is made
    made,       \* the boot params an unanswered call has assembled
    replies,    \* the answers each call has been given
    lost,       \* the calls a crash of the process left unanswered
    assembled   \* for each MAC, all the boot params assembled so far

vars == <<asked, made, replies, lost, assembled>>

Fresh(p)  == [kind |-> "fresh",  params |-> p]
Cached(p) == [kind |-> "cached", params |-> p]
Error     == [kind |-> "error",  params |-> NoPayload]

Waiting(c) == asked[c] # NoMac /\ replies[c] = <<>> /\ c \notin lost

Init ==
    /\ asked     = [c \in Call |-> NoMac]
    /\ made      = [c \in Call |-> NoPayload]
    /\ replies   = [c \in Call |-> <<>>]
    /\ lost      = {}
    /\ assembled \in [Mac -> SUBSET Payload]

Ask(c, m) ==
    /\ asked[c] = NoMac
    /\ asked' = [asked EXCEPT ![c] = m]
    /\ UNCHANGED <<made, replies, lost, assembled>>

Assemble(c, p) ==
    /\ Waiting(c)
    /\ made[c] = NoPayload
    /\ made' = [made EXCEPT ![c] = p]
    /\ assembled' = [assembled EXCEPT ![asked[c]] = @ \cup {p}]
    /\ UNCHANGED <<asked, replies, lost>>

Reply(c, answer) ==
    /\ Waiting(c)
    /\ \/ made[c] # NoPayload /\ answer = Fresh(made[c])
       \/ \E p \in assembled[asked[c]] : answer = Cached(p)
       \/ answer = Error
    /\ replies' = [replies EXCEPT ![c] = <<answer>>]
    /\ made' = [made EXCEPT ![c] = NoPayload]
    /\ UNCHANGED <<asked, lost, assembled>>

Crash ==
    /\ lost' = lost \cup {c \in Call : Waiting(c)}
    /\ made' = [c \in Call |-> NoPayload]
    /\ UNCHANGED <<asked, replies, assembled>>

Next ==
    \/ \E c \in Call :
          \/ \E m \in Mac : Ask(c, m)
          \/ \E p \in Payload : Assemble(c, p)
          \/ \E p \in Payload \cup {NoPayload} :
                \E a \in {Fresh(p), Cached(p), Error} : Reply(c, a)
    \/ Crash

Spec == Init /\ [][Next]_vars
===============================================================================
