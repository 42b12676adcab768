---------------------------- MODULE LiveStreams ----------------------------
(***************************************************************************)
(* The two broadcast-live pollers (src/app/poller/live_streams.py) with    *)
(* the platform clients they ask (src/app/poller/broadcast.py), while      *)
(* streams go on and off air and owners edit what a roster row or a        *)
(* tournament links to.                                                    *)
(*                                                                         *)
(* A tick reads the links, asks about one channel after the other, then    *)
(* replaces its platform's rows in one transaction.  A channel stands for  *)
(* a Twitch login (a batch of logins is asked at once) or a YouTube        *)
(* reference; what is on air there is a title or Off.                      *)
(***************************************************************************)
EXTENDS Naturals

CONSTANTS
    Rows,          \* roster rows
    Tournaments,   \* tournaments, whose hosts have channels of their own
    TournamentOf,  \* [Rows -> Tournaments]
    Twitch,        \* Twitch channels
    YouTube,       \* YouTube channels
    Handles,       \* those of YouTube whose channel id must be looked up
    Titles,        \* titles (and categories) of a stream
    Off,           \* nothing on air
    Links0,        \* [Rows \union Tournaments -> SUBSET channels]
    MaxEdits,      \* bound on edits and removals
    MaxFailures    \* bound on failed requests, failed ticks, revoked tokens

Keys      == Rows \union Tournaments
Channels  == Twitch \union YouTube
Platforms == {"twitch", "youtube"}

ASSUME AirAssumption ==
    /\ Rows \cap Tournaments = {} /\ Twitch \cap YouTube = {}
    /\ TournamentOf \in [Rows -> Tournaments]
    /\ Handles \subseteq YouTube
    /\ Off \notin Titles
    /\ Links0 \in [Keys -> SUBSET Channels]
    /\ MaxEdits \in Nat /\ MaxFailures \in Nat

VARIABLES
    onAir,     \* the platforms: what each channel is showing
    present,   \* the roster rows and tournaments that exist
    links,     \* the channels their stream URLs name
    rows,      \* live_streams: for each platform the live rows and their titles
    hosts,     \* host_live_streams: for each platform the live tournaments
    tick,      \* the poller of each platform
    token,     \* TwitchLiveClient._token: none, good or revoked by Twitch
    ids,       \* YouTubeLiveClient._channel_id_cache: unknown, known or none
    edits, failures

world   == <<onAir, present, links>>
db      == <<rows, hosts>>
airVars == <<onAir, present, links, rows, hosts, tick, token, ids, edits, failures>>

-----------------------------------------------------------------------------
Narrowed(f, S) == [x \in (DOMAIN f) \cap S |-> f[x]]

Snapshots == UNION {[S -> Titles] : S \in SUBSET Rows}

(* The channels a platform is asked about for an entry: on YouTube, those  *)
(* of entries without any Twitch link.                                     *)
Refs(p, cs) ==
    CASE p = "twitch"                          -> cs \cap Twitch
      [] p = "youtube" /\ cs \cap Twitch = {}  -> cs \cap YouTube
      [] OTHER                                 -> {}

(* A tick: the channels of each entry as they were read, those still to be *)
(* asked about, the answers (and which of them stand for a failed request) *)
(* and, for Twitch, where it is with its token.                            *)
Asked   == UNION {[S -> SUBSET Channels] : S \in SUBSET Keys}
Answers == UNION {[S -> Titles \union {Off}] : S \in SUBSET Channels}
Tick    == [pc : {"idle", "token", "request", "retry"}, refs : Asked,
            todo : SUBSET Channels, seen : Answers, failed : SUBSET Channels]
Idle    == [pc |-> "idle", refs |-> <<>>, todo |-> {}, seen |-> <<>>, failed |-> {}]
Begun(p) ==
    LET refs == [k \in present |-> Refs(p, links[k])]
    IN  [Idle EXCEPT !.pc = "token", !.refs = refs, !.todo = UNION {refs[k] : k \in present}]
Answered(t, c, a) ==
    [t EXCEPT !.pc = "token", !.todo = @ \ {c},
              !.seen = [x \in DOMAIN @ \union {c} |-> IF x = c THEN a ELSE @[x]]]

AirInit ==
    /\ onAir = [c \in Channels |-> Off]
    /\ present = Keys
    /\ links = Links0
    /\ rows = [p \in Platforms |-> <<>>]
    /\ hosts = [p \in Platforms |-> {}]
    /\ tick = [p \in Platforms |-> Idle]
    /\ token = "none"
    /\ ids = [c \in Handles |-> "unknown"]
    /\ edits = 0
    /\ failures = 0

-----------------------------------------------------------------------------
(* The platforms: a stream goes on or off air, or changes its title; a     *)
(* token is revoked.                                                       *)
Broadcast(c, a) ==
    /\ a # onAir[c]
    /\ onAir' = [onAir EXCEPT ![c] = a]
    /\ UNCHANGED <<present, links, db, tick, token, ids, edits, failures>>

Revoke ==
    /\ token = "good"
    /\ failures < MaxFailures
    /\ failures' = failures + 1
    /\ token' = "revoked"
    /\ UNCHANGED <<world, db, tick, ids, edits>>

(* Owners change the links of an entry, or remove one: a tournament goes   *)
(* with its roster, and the live rows cascade.                             *)
Edit(k, cs) ==
    /\ k \in present /\ links[k] # cs
    /\ edits < MaxEdits
    /\ edits' = edits + 1
    /\ links' = [links EXCEPT ![k] = cs]
    /\ UNCHANGED <<onAir, present, db, tick, token, ids, failures>>

Removed(k) == {k} \union {r \in Rows : TournamentOf[r] = k}

Remove(k) ==
    /\ k \in present
    /\ edits < MaxEdits
    /\ edits' = edits + 1
    /\ present' = present \ Removed(k)
    /\ rows' = [p \in Platforms |-> Narrowed(rows[p], present')]
    /\ hosts' = [p \in Platforms |-> hosts[p] \cap present']
    /\ UNCHANGED <<onAir, links, tick, token, ids, failures>>

-----------------------------------------------------------------------------
(* A tick reads the links of the roster and of the tournaments, in a       *)
(* session it closes before it asks.                                       *)
Start(p) ==
    /\ tick[p].pc = "idle"
    /\ tick' = [tick EXCEPT ![p] = Begun(p)]
    /\ UNCHANGED <<world, db, token, ids, edits, failures>>

(* TwitchLiveClient: take the cached token, or mint one when there is none *)
(* or it has expired.                                                      *)
TakeToken ==
    /\ tick["twitch"].pc = "token" /\ tick["twitch"].todo # {}
    /\ tick' = [tick EXCEPT !["twitch"].pc = "request"]
    /\ \/ token # "none" /\ UNCHANGED token
       \/ token' = "good"
    /\ UNCHANGED <<world, db, ids, edits, failures>>

Remint == "good"

(* On a 401 a new token is minted, and the request tried once more; when   *)
(* that is refused as well the tick fails.                                 *)
Unauthorized ==
    /\ tick["twitch"].pc \in {"request", "retry"} /\ token = "revoked"
    /\ IF tick["twitch"].pc = "request"
       THEN /\ token' = Remint
            /\ tick' = [tick EXCEPT !["twitch"].pc = "retry"]
       ELSE /\ tick' = [tick EXCEPT !["twitch"] = Idle]
            /\ UNCHANGED token
    /\ UNCHANGED <<world, db, ids, edits, failures>>

AskTwitch(c) ==
    /\ tick["twitch"].pc \in {"request", "retry"} /\ token = "good"
    /\ c \in tick["twitch"].todo
    /\ tick' = [tick EXCEPT !["twitch"] = Answered(@, c, onAir[c])]
    /\ UNCHANGED <<world, db, token, ids, edits, failures>>

(* YouTubeLiveClient: resolve a handle once and for all, an error included,*)
(* then ask whether the channel is live.                                   *)
LookUp(c) ==
    /\ tick["youtube"].pc = "token"
    /\ c \in tick["youtube"].todo \cap Handles /\ ids[c] = "unknown"
    /\ \/ ids' = [ids EXCEPT ![c] = "known"] /\ UNCHANGED failures
       \/ /\ failures < MaxFailures /\ failures' = failures + 1
          /\ ids' = [ids EXCEPT ![c] = "none"]
    /\ UNCHANGED <<world, db, tick, token, edits>>

Resolved(c) == c \in Handles => ids[c] # "unknown"

AskYouTube(c) ==
    /\ tick["youtube"].pc = "token"
    /\ c \in tick["youtube"].todo /\ Resolved(c)
    /\ LET a == IF c \in Handles /\ ids[c] = "none" THEN Off ELSE onAir[c]
       IN  tick' = [tick EXCEPT !["youtube"] = Answered(@, c, a)]
    /\ UNCHANGED <<world, db, token, ids, edits, failures>>

(* Slip: an error counts as an answer, for Twitch as it does for YouTube. *)
OnErrorOffline(p, c) == [Answered(tick[p], c, Off) EXCEPT !.failed = @ \union {c}]

(* A request fails: the tick of Twitch raises, YouTube's channel is        *)
(* offline for now.                                                        *)
OnError(p, c) ==
    IF p = "twitch" THEN Idle ELSE [Answered(tick[p], c, Off) EXCEPT !.failed = @ \union {c}]

AskFails(p, c) ==
    /\ tick[p].pc # "idle" /\ c \in tick[p].todo
    /\ p = "youtube" => Resolved(c)
    /\ failures < MaxFailures
    /\ failures' = failures + 1
    /\ tick' = [tick EXCEPT ![p] = OnError(p, c)]
    /\ UNCHANGED <<world, db, token, ids, edits>>

-----------------------------------------------------------------------------
(* What the answers say is live.  A row with several channels on air has   *)
(* the title of one of them.                                               *)
LiveOf(p, k) == {c \in tick[p].refs[k] : tick[p].seen[c] # Off}
LiveKeys(p)  == {k \in DOMAIN tick[p].refs : LiveOf(p, k) # {}}

NewHosts(p) == LiveKeys(p) \cap Tournaments
NewRows(p)  ==
    {f \in [LiveKeys(p) \cap Rows -> Titles] :
        \A r \in DOMAIN f : \E c \in LiveOf(p, r) : f[r] = tick[p].seen[c]}

(* Slip: a change of hosts alone is not seen. *)
ChangedRows(p, f) == rows[p] # f

Changed(p, f) == rows[p] # f \/ hosts[p] # NewHosts(p)

(* Slip: what is live is written without the keys it refers to. *)
WritableAlways(p) == TRUE

Writable(p) == LiveKeys(p) \subseteq present

(* _apply_live_sets: nothing if nothing changed; otherwise both tables and *)
(* the nudge, or none of them if an entry has gone meanwhile (its foreign  *)
(* key raises).                                                            *)
Apply(p) ==
    /\ tick[p].pc = "token" /\ tick[p].todo = {}
    /\ \E f \in NewRows(p) :
           IF Changed(p, f) /\ Writable(p)
           THEN /\ rows' = [rows EXCEPT ![p] = f]
                /\ hosts' = [hosts EXCEPT ![p] = NewHosts(p)]
           ELSE UNCHANGED db
    /\ tick' = [tick EXCEPT ![p] = Idle]
    /\ UNCHANGED <<world, token, ids, edits, failures>>

(* Anything else that raises: the loop logs it and sleeps. *)
TickFails(p) ==
    /\ tick[p].pc # "idle"
    /\ failures < MaxFailures
    /\ failures' = failures + 1
    /\ tick' = [tick EXCEPT ![p] = Idle]
    /\ UNCHANGED <<world, db, token, ids, edits>>

-----------------------------------------------------------------------------
TwitchStep  == Start("twitch") \/ TakeToken \/ Unauthorized \/ Apply("twitch")
                  \/ \E c \in Twitch : AskTwitch(c)
YouTubeStep == Start("youtube") \/ Apply("youtube")
                  \/ \E c \in YouTube : LookUp(c) \/ AskYouTube(c)

AirNext ==
    \/ \E c \in Channels, a \in Titles \union {Off} : Broadcast(c, a)
    \/ \E k \in Keys, cs \in SUBSET Channels : Edit(k, cs)
    \/ \E k \in Keys : Remove(k)
    \/ Revoke
    \/ TwitchStep
    \/ YouTubeStep
    \/ \E p \in Platforms, c \in Channels : AskFails(p, c)
    \/ \E p \in Platforms : TickFails(p)

(* The loops go on whatever a tick ended with. *)
Fairness == WF_airVars(TwitchStep) /\ WF_airVars(YouTubeStep)

AirSpec == AirInit /\ [][AirNext]_airVars /\ Fairness

-----------------------------------------------------------------------------
(* Every variable has its type; a live row is of an entry that exists, and *)
(* a tick has an answer for every channel of every entry it has read but   *)
(* those it has still to ask about (live_streams.py:77-105, the foreign    *)
(* keys of models/stream.py).                                              *)
AirTypeOK ==
    /\ onAir \in [Channels -> Titles \union {Off}]
    /\ present \subseteq Keys
    /\ links \in [Keys -> SUBSET Channels]
    /\ rows \in [Platforms -> Snapshots]
    /\ hosts \in [Platforms -> SUBSET Tournaments]
    /\ \A p \in Platforms : DOMAIN rows[p] \union hosts[p] \subseteq present
    /\ tick \in [Platforms -> Tick]
    /\ \A p \in Platforms :
           /\ UNION {tick[p].refs[k] : k \in DOMAIN tick[p].refs}
                  = tick[p].todo \union DOMAIN tick[p].seen
           /\ tick[p].todo \cap DOMAIN tick[p].seen = {}
           /\ tick[p].failed \subseteq DOMAIN tick[p].seen
    /\ token \in {"none", "good", "revoked"}
    /\ ids \in [Handles -> {"unknown", "known", "none"}]
    /\ edits \in 0..MaxEdits /\ failures \in 0..MaxFailures

(* No answer of a Twitch tick stands for a failed request: inductive with  *)
(* AirTypeOK.                                                              *)
TwitchNeverGuesses == tick["twitch"].failed = {}

AirIInv == AirTypeOK /\ TwitchNeverGuesses

(* An outage of Twitch takes nobody off air: a Twitch row or host that a   *)
(* tick clears was answered for, channel by channel, in that very tick     *)
(* (broadcast.py:180-194 raises, live_streams.py:152-164 then writes       *)
(* nothing).                                                               *)
OutageClearsNothing ==
    [][\A k \in present' :
          (k \in DOMAIN rows["twitch"] \union hosts["twitch"]
             /\ k \notin DOMAIN rows'["twitch"] \union hosts'["twitch"])
          => /\ k \in DOMAIN tick["twitch"].refs =>
                    /\ tick["twitch"].refs[k] \cap tick["twitch"].failed = {}
                    /\ \A c \in tick["twitch"].refs[k] : tick["twitch"].seen[c] = Off]_airVars

(* What an entry should show: the title of one of its channels on air, as  *)
(* far as YouTube's cache lets it be found.                                *)
Showing(p, k) ==
    {onAir[c] : c \in {d \in Refs(p, links[k]) :
                          onAir[d] # Off /\ (d \in Handles => ids[d] # "none")}}
OnAirKeys(p) == {k \in present : Showing(p, k) # {}}

Agrees ==
    \A p \in Platforms :
        /\ hosts[p] = OnAirKeys(p) \cap Tournaments
        /\ DOMAIN rows[p] = OnAirKeys(p) \cap Rows
        /\ \A r \in DOMAIN rows[p] : rows[p][r] \in Showing(p, r)

(* The tables follow the air: once streams, links and entries hold still,  *)
(* both tables come to say who is live, title included, through revoked    *)
(* tokens, failures and entries removed during a tick; the only channel    *)
(* never found again is one whose lookup failed once, since that answer is *)
(* cached for the life of the process (broadcast.py:240-250).              *)
FollowsTheAir == <>[][FALSE]_world => <>[]Agrees
=============================================================================
