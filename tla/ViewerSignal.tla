---------------------------- MODULE ViewerSignal ----------------------------
(***************************************************************************)
(* What the refetch signal promises a viewer, with the tables, the poll    *)
(* loops and the queues left out: a viewer with a stream is owed word of   *)
(* every change since it last fetched.  The word may be lost, but only     *)
(* openly (a nudge dropped at a full queue, an instance's silent first     *)
(* poll), and what is owed again is no longer lost.                        *)
(***************************************************************************)

CONSTANTS Clients, Events

VARIABLES
    online,  \* viewers with an open stream
    stale,   \* [Clients -> SUBSET Events]: changed since the last fetch
    owed,    \* [Clients -> SUBSET Events]: word on its way
    lost     \* [Clients -> SUBSET Events]: word lost openly

vars == <<online, stale, owed, lost>>

Init ==
    /\ online = {}
    /\ stale = [c \in Clients |-> Events]
    /\ owed = [c \in Clients |-> {}]
    /\ lost = [c \in Clients |-> {}]

(* Data of e changes for the viewers C; every open stream is owed word. *)
Change(e, C) ==
    /\ stale' = [c \in Clients |-> IF c \in C THEN stale[c] \union {e} ELSE stale[c]]
    /\ owed' = [c \in Clients |-> IF c \in online THEN owed[c] \union {e} ELSE owed[c]]
    /\ UNCHANGED <<online, lost>>

(* Word travels on: none disappears without being lost openly. *)
Relay ==
    /\ UNCHANGED <<online, stale>>
    /\ owed' \in [Clients -> SUBSET Events]
    /\ lost' \in [Clients -> SUBSET Events]
    /\ \A c \in Clients :
        /\ owed'[c] \subseteq owed[c]
        /\ owed[c] \subseteq owed'[c] \union lost'[c]
        /\ lost[c] \subseteq owed'[c] \union lost'[c]

(* A viewer that has the word fetches; further word may be on its way. *)
Fetch(c, e) ==
    /\ e \in owed[c]
    /\ stale' = [stale EXCEPT ![c] = @ \ {e}]
    /\ lost' = [lost EXCEPT ![c] = @ \ {e}]
    /\ owed' \in {owed, [owed EXCEPT ![c] = @ \ {e}]}
    /\ UNCHANGED online

Join(c) ==
    /\ c \notin online
    /\ online' = online \union {c}
    /\ owed' = [owed EXCEPT ![c] = Events]
    /\ UNCHANGED <<stale, lost>>

Leave(C) ==
    /\ online' = online \ C
    /\ owed' = [c \in Clients |-> IF c \in C THEN {} ELSE owed[c]]
    /\ lost' = [c \in Clients |-> IF c \in C THEN {} ELSE lost[c]]
    /\ UNCHANGED stale

Next ==
    \/ \E e \in Events, C \in SUBSET Clients : Change(e, C)
    \/ Relay
    \/ \E c \in Clients : Join(c) \/ \E e \in Events : Fetch(c, e)
    \/ \E C \in SUBSET Clients : Leave(C)

Spec == Init /\ [][Next]_vars

TypeOK ==
    /\ online \in SUBSET Clients
    /\ stale \in [Clients -> SUBSET Events]
    /\ owed \in [Clients -> SUBSET Events]
    /\ lost \in [Clients -> SUBSET Events]

(* The promise: a viewer is stale only with word on its way or lost openly. *)
NothingForgotten == \A c \in online : stale[c] \subseteq owed[c] \union lost[c]
=============================================================================
