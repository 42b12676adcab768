---------------------------- MODULE KeyedWrites ----------------------------
(***************************************************************************)
(* What the Idempotency-Key header promises a client, with instances, the  *)
(* pool and the steps of the middleware left out.  A key is closed once,   *)
(* by a response one of its requests has earned; while it is open requests *)
(* may reach a handler, several of them if they overlap; once it is closed *)
(* a request is only told again.  A request has its effect at most once,   *)
(* is told something at most once, and may be told nothing it can rely on. *)
(***************************************************************************)

CONSTANTS
    Requests, Keys,
    KeyOf, PrintOf,    \* the key of a request, or NoKey, and its fingerprint
    NoKey,
    NoEntry,           \* an open key
    NoAnswer,
    Reused,            \* the key was used with another body
    Failed, Lost       \* what no client can rely on

VARIABLES
    inside,    \* requests that have reached their handler
    effects,   \* those whose effect is committed
    kept,      \* what each key is closed with
    told       \* what each request was told

vars == <<inside, effects, kept, told>>

Init ==
    /\ inside = {}
    /\ effects = {}
    /\ kept = [k \in Keys |-> NoEntry]
    /\ told = [r \in Requests |-> NoAnswer]

HasKey(r) == KeyOf[r] # NoKey
Closed(r) == HasKey(r) /\ kept[KeyOf[r]] # NoEntry

Own(r, status) == [status |-> status, by |-> r]

(* Success takes an effect, a refusal does not. *)
Earned(r, status) ==
    /\ r \in inside
    /\ status = "ok" => r \in effects

Tell(R, a) ==
    /\ \A r \in R : told[r] = NoAnswer
    /\ told' = [r \in Requests |-> IF r \in R THEN a ELSE told[r]]
    /\ inside' = inside \ R

Admit(r) ==
    /\ told[r] = NoAnswer
    /\ r \notin inside
    /\ ~Closed(r)
    /\ inside' = inside \union {r}
    /\ UNCHANGED <<effects, kept, told>>

TakeEffect(r) ==
    /\ r \in inside \ effects
    /\ effects' = effects \union {r}
    /\ UNCHANGED <<inside, kept, told>>

(* The word of it may be lost, the key stays closed. *)
Close(r, status) ==
    /\ HasKey(r) /\ ~Closed(r)
    /\ Earned(r, status)
    /\ kept' = [kept EXCEPT ![KeyOf[r]] = [print |-> PrintOf[r], response |-> Own(r, status)]]
    /\ \E a \in {Own(r, status), Lost} : Tell({r}, a)
    /\ UNCHANGED effects

TellAgain(r) ==
    /\ Closed(r)
    /\ r \notin inside
    /\ Tell({r}, IF kept[KeyOf[r]].print = PrintOf[r] THEN kept[KeyOf[r]].response ELSE Reused)
    /\ UNCHANGED <<effects, kept>>

(* Without a key. *)
TellOwn(r, status) ==
    /\ ~HasKey(r)
    /\ Earned(r, status)
    /\ Tell({r}, Own(r, status))
    /\ UNCHANGED <<effects, kept>>

GiveUp(R) ==
    /\ \E a \in {Failed, Lost} : Tell(R, a)
    /\ UNCHANGED <<effects, kept>>

Next ==
    \/ \E r \in Requests :
          \/ Admit(r) \/ TakeEffect(r) \/ TellAgain(r)
          \/ \E status \in {"ok", "refused"} : Close(r, status) \/ TellOwn(r, status)
    \/ \E R \in SUBSET Requests : GiveUp(R)

Spec == Init /\ [][Next]_vars
=============================================================================
