---------------------------- MODULE MCManagement ----------------------------
(***************************************************************************)
(* One tournament with two owners, a full roster of two and a team; the    *)
(* slug of another one that may be created.                                *)
(***************************************************************************)
EXTENDS Management, TLC

CONSTANTS cup, open, cup0, p1, p2, t0, ann, bob, prof, alt

MCTournaments0 == {[id |-> cup0, slug |-> cup, start |-> 1, end |-> NoDate]}
MCOwners0      == {<<cup0, ann>>, <<cup0, bob>>}
MCPlayers0     == {[id |-> p, tour |-> cup0, profile |-> None] : p \in {p1, p2}}
MCTeams0       == {[id |-> t0, tour |-> cup0]}
MCMembers0     == {<<t0, p1>>, <<t0, p2>>}

MCSymmetry == Permutations(Requests)

By(u, kind) == [kind |-> kind, slug |-> cup, by |-> u]

With(o, f) == [x \in DOMAIN o \union DOMAIN f |-> IF x \in DOMAIN o THEN o[x] ELSE f[x]]

Open(o) == [o EXCEPT !.slug = open]

MCOps == UNION {
    {By(u, k) : u \in {ann, bob}, k \in {"create", "delete", "create_team"}},
    {With(By(u, "revoke"), [user |-> v]) : u \in {ann, bob}, v \in {ann, bob}},
    {With(By(ann, "grant"), [user |-> bob])},
    {Open(By(ann, "create")), Open(With(By(ann, "grant"), [user |-> bob]))},
    {With(By(u, "patch"), [bound |-> b, date |-> 2]) : u \in {ann, bob}, b \in {"start", "end"}},
    {With(By(ann, "patch"), [bound |-> "end", date |-> d]) : d \in {NoDate, 1}},
    {With(By(u, "add"), [profile |-> p]) : u \in {ann, bob}, p \in {prof, None}},
    {With(By(u, "remove"), [player |-> p1]) : u \in {ann, bob}},
    {With(By(u, "link"), [player |-> p, profile |-> prof]) : u \in {ann, bob}, p \in {p1, p2}},
    {With(By(ann, "link"), [player |-> p1, profile |-> alt])},
    {With(By(u, k), [team |-> t0]) : u \in {ann, bob}, k \in {"delete_team", "clear_captain"}},
    {With(By(ann, k), [team |-> t0, player |-> p1]) : k \in {"add_member", "remove_member"}},
    {With(By(u, "set_captain"), [team |-> t0, player |-> p]) : u \in {ann, bob}, p \in {p1, p2}}}
=============================================================================
