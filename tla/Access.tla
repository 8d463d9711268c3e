------------------------------- MODULE Access -------------------------------
(***************************************************************************)
(* Who may do what in a space: tiers, roles, the cached permissions, and   *)
(* moderation.                                                             *)
(*                                                                         *)
(* What a user may do is in the database: the role catalogue and who holds *)
(* which role.  A connection has it cached (Peer.space_perms), and most    *)
(* handlers ask the cache.  Whoever changes a role or an assignment then   *)
(* recomputes the caches concerned, one connection after the other and     *)
(* each over two awaits (refresh_peer_perms).  The older tiers are kept    *)
(* beside the roles: in memory, in a table of their own, and mirrored as   *)
(* the managed roles.                                                      *)
(*                                                                         *)
(* There is one space.  The requests of a connection are handled one at a  *)
(* time: job[p] is how far its handler is and what it keeps.  Permissions  *)
(* are "speak" (what everybody has), "moderate" (kick, ban, time out),     *)
(* "roles" (MANAGE_ROLES), "all" (ADMINISTRATOR) and "owner"               *)
(* (OWNER_BYPASS, never stored).                                           *)
(***************************************************************************)
EXTENDS Integers, FiniteSets, Functions, People

CONSTANTS
    Owner,        \* the user that owns the space
    FirstTiers,   \* the tiers at first: user |-> tier
    Present,      \* the connections in the space at first
    Scripts,      \* what a behaviour consists of: sets of kinds of request
    CustomRoles,  \* roles that may be created
    CustomBits,   \* what they may be given: sets of permissions
    MaxUses,      \* bound on invite_max_uses; 0 is no maximum
    MaxAsks       \* bound on the requests and restarts of a behaviour

Tiers == { "member", "moderator", "admin" }

ASSUME AccessAssumption ==
    /\ Owner \in Users /\ Present \subseteq Devices
    /\ \A p, q \in Present : UserOf[p] = UserOf[q] => p = q    \* see Enter
    /\ Devices \cap Users = {}
    /\ FirstTiers \in [ Users -> Tiers ]
    /\ CustomRoles \cap Tiers = {}
    /\ MaxUses \in Nat /\ MaxAsks \in Nat

VARIABLES
    script,       \* what is asked in this behaviour
    members,      \* Space.member_ids
    inSpace,      \* the connections whose space_id is the space
    mask,         \* Peer.space_perms
    tier,         \* Space.member_roles
    tierRow,      \* space_roles
    catalogue,    \* space_role_defs: role |-> permissions
    holds,        \* space_role_members: <<role, user>>
    bans,         \* bans
    invite,       \* spaces: invite_max_uses, invite_uses; tasks to count a use
    silenced,     \* the connections whose timeout_until is to come
    timeouts,     \* space_timeouts: users; and tasks to store one
    job,          \* the handler of each connection
    asks,         \* requests and restarts so far
    lapsed,       \* history: connections whose cache may be old, see MaskFresh
    odd,          \* history: users whose tier and roles may differ, see TiersAgree
    raced         \* history: users and connections moderated while they joined

spaceVars == << members, inSpace >>
tierVars == << tier, tierRow >>
roleVars == << catalogue, holds >>
outVars == << bans, silenced, timeouts >>
accessVars == << script, spaceVars, mask, tierVars, roleVars, outVars, invite, job, asks,
                 lapsed, odd, raced >>

-----------------------------------------------------------------------------
(* Permissions and tiers. *)

(* The bundles of the managed roles. *)
Bundle(t) ==
    CASE t = "member"    -> { "speak" }
      [] t = "moderator" -> { "speak", "moderate" }
      [] t = "admin"     -> { "speak", "moderate", "roles", "all" }

Has(bits, b) == b \in bits \/ bits \cap { "all", "owner" } # {}

(* load_user_effective_permissions: the roles held, and the default role.  *)
Effective(u) ==
    Bundle("member") \cup UNION { catalogue[r] : r \in { s \in DOMAIN catalogue : << s, u >> \in holds } }

(* What refresh_peer_perms and actor_perms make of it. *)
PermsOf(u) == Effective(u) \cup (IF u = Owner THEN { "owner" } ELSE {})

(* role_for_identity and role_rank. *)
TierOf(u) == IF u = Owner THEN "owner" ELSE tier[u]

Rank(t) == CASE t = "owner" -> 3 [] t = "admin" -> 2 [] t = "moderator" -> 1 [] t = "member" -> 0

(* can_moderate_target. *)
MayModerate(actor, target) == Rank(target) = 0 \/ Rank(actor) > Rank(target)

(* An actor gives only what it has. *)
MayGrant(mine, bits) == bits \subseteq mine \/ Has(mine, "all")

-----------------------------------------------------------------------------
(* Handlers. *)

Idle == [ do |-> "idle", kind |-> "", who |-> Owner, role |-> "", bits |-> {}, mine |-> {},
          rank |-> "", patch |-> FALSE, at |-> {}, todo |-> {}, stale |-> FALSE ]

JoinSteps == { "check ban", "check timeout", "check uses", "enter" }

Quiet == \A p \in Devices : job[p] = Idle

(* A request of p begins, and is over at once, *)
AskOnce(p, kind) ==
    /\ job[p] = Idle /\ kind \in script /\ asks < MaxAsks
    /\ asks' = asks + 1
    /\ UNCHANGED job

(* or goes on from first. *)
Ask(p, kind, first) ==
    /\ job[p] = Idle /\ kind \in script /\ asks < MaxAsks
    /\ asks' = asks + 1
    /\ job' = [ job EXCEPT ![p] = [ first EXCEPT !.kind = kind ] ]

GoOn(p, step) == job' = [ job EXCEPT ![p].do = step ]

Done(p) == job' = [ job EXCEPT ![p] = Idle ]

(* The cache of q is set by p, which goes on as next.  (A computation of   *)
(* it that is under way is an old one from here on.)                       *)
Overtaken(b, q) == IF b.do \in { "load", "store" } /\ q \in b.at THEN [ b EXCEPT !.stale = TRUE ] ELSE b

SetMask(p, q, bits, next) ==
    /\ mask' = [ mask EXCEPT ![q] = bits ]
    /\ job' = [ d \in Devices |-> IF d = p THEN next ELSE Overtaken(job[d], q) ]

-----------------------------------------------------------------------------
(* refresh_peer_perms, for each connection in todo: its space, then what   *)
(* the database says, then the cache.  Which connections: those of a user  *)
(* (refresh_perms_for_user) or all (refresh_perms_for_space).              *)
ListUser(p) ==
    /\ job[p].do = "list user"
    /\ job' = [ job EXCEPT ![p].do = "refresh",
                           ![p].todo = { q \in members : UserOf[q] = job[p].who } ]
    /\ UNCHANGED << script, spaceVars, mask, tierVars, roleVars, outVars, invite, asks, lapsed, odd, raced >>

ListSpace(p) ==
    /\ job[p].do = "list space"
    /\ job' = [ job EXCEPT ![p].do = "refresh", ![p].todo = members ]
    /\ UNCHANGED << script, spaceVars, mask, tierVars, roleVars, outVars, invite, asks, lapsed, odd, raced >>

Refreshed(p) ==
    /\ job[p].do = "refresh" /\ job[p].todo = {}
    /\ Done(p)
    /\ UNCHANGED << script, spaceVars, mask, tierVars, roleVars, outVars, invite, asks, lapsed, odd, raced >>

SeeSpace(p) ==
    /\ job[p].do = "refresh"
    /\ \E q \in job[p].todo :
          LET rest == [ job[p] EXCEPT !.todo = @ \ {q} ] IN
          IF q \in inSpace
          THEN /\ job' = [ job EXCEPT ![p] = [ rest EXCEPT !.do = "load", !.at = {q}, !.stale = FALSE ] ]
               /\ UNCHANGED << mask, lapsed >>
          ELSE /\ SetMask(p, q, {}, rest)
               /\ lapsed' = lapsed \ {q}
    /\ UNCHANGED << script, spaceVars, tierVars, roleVars, outVars, invite, asks, odd, raced >>

LoadPerms(p) ==
    /\ job[p].do = "load"
    /\ \E q \in job[p].at :
          job' = [ job EXCEPT ![p].do = "store", ![p].bits = PermsOf(UserOf[q]) ]
    /\ UNCHANGED << script, spaceVars, mask, tierVars, roleVars, outVars, invite, asks, lapsed, odd, raced >>

StorePerms(p) ==
    /\ job[p].do = "store"
    /\ \E q \in job[p].at :
          /\ SetMask(p, q, job[p].bits, [ job[p] EXCEPT !.do = "refresh", !.at = {}, !.bits = {}, !.stale = FALSE ])
          /\ lapsed' = IF job[p].stale THEN lapsed \cup {q} ELSE lapsed \ {q}
    /\ UNCHANGED << script, spaceVars, tierVars, roleVars, outVars, invite, asks, odd, raced >>

-----------------------------------------------------------------------------
(* handle_join_space: the ban, a timeout to restore, the invite, and the   *)
(* lists under the write lock.                                             *)
Join(p) ==
    /\ Ask(p, "join", [ Idle EXCEPT !.do = "check ban" ])
    /\ raced' = IF \E d \in Devices : job[d].kind = "ban" /\ job[d].who = UserOf[p]
                THEN raced \cup { UserOf[p] } ELSE raced
    /\ UNCHANGED << script, spaceVars, mask, tierVars, roleVars, outVars, invite, lapsed, odd >>

CheckBan(p) ==
    /\ job[p].do = "check ban"
    /\ IF UserOf[p] \in bans THEN Done(p) ELSE GoOn(p, "check timeout")
    /\ UNCHANGED << script, spaceVars, mask, tierVars, roleVars, outVars, invite, asks, lapsed, odd, raced >>

(* Mutant: a timeout is not restored. *)
RestoreNothing(p) ==
    /\ job[p].do = "check timeout"
    /\ GoOn(p, "check uses")
    /\ raced' = raced \ {p}
    /\ UNCHANGED << script, spaceVars, mask, tierVars, roleVars, outVars, invite, asks, lapsed, odd >>

RestoreTimeout(p) ==
    /\ job[p].do = "check timeout"
    /\ silenced' = IF UserOf[p] \in timeouts.rows THEN silenced \cup {p} ELSE silenced
    /\ raced' = IF UserOf[p] \in timeouts.tasks THEN raced \cup {p} ELSE raced \ {p}
    /\ GoOn(p, "check uses")
    /\ UNCHANGED << script, spaceVars, mask, tierVars, roleVars, bans, timeouts, invite, asks, lapsed, odd >>

(* Let in, a use of the invite is counted by a task that nobody awaits.    *)
CheckInvite(p) ==
    /\ job[p].do = "check uses"
    /\ \/ /\ invite.max = 0 \/ invite.uses < invite.max
          /\ invite' = [ invite EXCEPT !.tasks = @ + 1 ]
          /\ GoOn(p, "enter")
       \/ (* used up, or expired *)
          /\ UNCHANGED invite
          /\ Done(p)
    /\ UNCHANGED << script, spaceVars, mask, tierVars, roleVars, outVars, asks, lapsed, odd, raced >>

CountUse ==
    /\ invite.tasks > 0
    /\ invite' = [ invite EXCEPT !.uses = @ + 1, !.tasks = @ - 1 ]
    /\ UNCHANGED << script, spaceVars, mask, tierVars, roleVars, outVars, job, asks, lapsed, odd, raced >>

(* Mutant: the other connections of the user stay listed. *)
EnterBeside(p) ==
    /\ job[p].do = "enter"
    /\ inSpace' = inSpace \cup {p}
    /\ members' = members \cup {p}
    /\ job' = [ job EXCEPT ![p].do = "refresh", ![p].todo = {p} ]
    /\ UNCHANGED << script, mask, tierVars, roleVars, outVars, invite, asks, lapsed, odd, raced >>

(* The joiner's space is set first; other connections of its user make     *)
(* room for it; then the space may be full (see Membership).               *)
Enter(p) ==
    LET others == members \ { q \in Devices \ {p} : UserOf[q] = UserOf[p] } IN
    /\ job[p].do = "enter"
    /\ inSpace' = inSpace \cup {p}
    /\ \/ /\ members' = others \cup {p}
          /\ job' = [ job EXCEPT ![p].do = "refresh", ![p].todo = {p} ]
       \/ /\ p \notin others
          /\ members' = others
          /\ Done(p)
    /\ UNCHANGED << script, mask, tierVars, roleVars, outVars, invite, asks, lapsed, odd, raced >>

(* handle_leave_space: off the list, then the rest. *)
Leave(p) ==
    /\ p \in inSpace
    /\ Ask(p, "leave", [ Idle EXCEPT !.do = "unlist", !.at = {p} ])
    /\ UNCHANGED << script, spaceVars, mask, tierVars, roleVars, outVars, invite, lapsed, odd, raced >>

(* remove_member_from_space takes the same steps with the one removed. *)
Unlist(p) ==
    /\ job[p].do = "unlist"
    /\ members' = members \ job[p].at
    /\ GoOn(p, "clear")
    /\ UNCHANGED << script, inSpace, mask, tierVars, roleVars, outVars, invite, asks, lapsed, odd, raced >>

ClearSpace(p) ==
    /\ job[p].do = "clear"
    /\ \E q \in job[p].at :
          /\ inSpace' = inSpace \ {q}
          /\ SetMask(p, q, {}, Idle)
          /\ lapsed' = lapsed \ {q}
    /\ UNCHANGED << script, members, tierVars, roleVars, outVars, invite, asks, odd, raced >>

(* A client connects anew: nothing of the old connection is left. *)
Reconnect(p) ==
    /\ p \notin inSpace /\ p \notin members /\ p \in silenced /\ job[p] = Idle
    /\ silenced' = silenced \ {p}
    /\ UNCHANGED << script, spaceVars, mask, tierVars, roleVars, bans, timeouts, invite, job, asks,
                    lapsed, odd, raced >>

-----------------------------------------------------------------------------
(* Moderation: the cache is asked, the target is one that is listed, and   *)
(* the tiers are compared.                                                 *)
Moderates(p, q) ==
    /\ p \in inSpace /\ Has(mask[p], "moderate")
    /\ q \in members /\ UserOf[q] # UserOf[p]
    /\ MayModerate(TierOf(UserOf[p]), TierOf(UserOf[q]))

(* handle_kick_member. *)
Kick(p, q) ==
    /\ Moderates(p, q)
    /\ Ask(p, "kick", [ Idle EXCEPT !.do = "unlist", !.at = {q} ])
    /\ UNCHANGED << script, spaceVars, mask, tierVars, roleVars, outVars, invite, lapsed, odd, raced >>

(* handle_ban_member: stored first, then removed; not stored, not removed.  *)
Ban(p, q) ==
    /\ Moderates(p, q)
    /\ Ask(p, "ban", [ Idle EXCEPT !.do = "save ban", !.at = {q}, !.who = UserOf[q] ])
    /\ raced' = IF \E d \in Devices : UserOf[d] = UserOf[q] /\ job[d].do \in JoinSteps
                THEN raced \cup { UserOf[q] } ELSE raced
    /\ UNCHANGED << script, spaceVars, mask, tierVars, roleVars, outVars, invite, lapsed, odd >>

SaveBan(p) ==
    /\ job[p].do = "save ban"
    /\ \/ bans' = bans \cup { job[p].who } /\ GoOn(p, "unlist")
       \/ UNCHANGED bans /\ Done(p)
    /\ UNCHANGED << script, spaceVars, mask, tierVars, roleVars, silenced, timeouts, invite, asks, lapsed, odd, raced >>

(* handle_unban_member. *)
Unban(p, u) ==
    /\ p \in inSpace /\ Has(mask[p], "moderate") /\ u \in bans
    /\ AskOnce(p, "unban")
    /\ bans' = bans \ {u}
    /\ raced' = IF \E d \in Devices : job[d].kind = "ban" /\ job[d].who = u THEN raced ELSE raced \ {u}
    /\ UNCHANGED << script, spaceVars, mask, tierVars, roleVars, silenced, timeouts, invite, lapsed, odd >>

(* handle_timeout_member: the connection, and a task that stores it. *)
Timeout(p, q) ==
    /\ Moderates(p, q)
    /\ Ask(p, "timeout", [ Idle EXCEPT !.do = "silence", !.at = {q} ])
    /\ UNCHANGED << script, spaceVars, mask, tierVars, roleVars, outVars, invite, lapsed, odd, raced >>

Silence(p) ==
    /\ job[p].do = "silence"
    /\ \E q \in job[p].at :
          /\ silenced' = silenced \cup {q}
          /\ timeouts' = [ rows |-> timeouts.rows, tasks |-> timeouts.tasks \cup { UserOf[q] } ]
          /\ raced' = raced \cup { d \in Devices \ {q} :
                         UserOf[d] = UserOf[q] /\ (d \in members \/ job[d].do \in { "check uses", "enter" }) }
    /\ Done(p)
    /\ UNCHANGED << script, spaceVars, mask, tierVars, roleVars, bans, invite, asks, lapsed, odd >>

StoreTimeout ==
    \E u \in timeouts.tasks :
       /\ timeouts' = [ rows |-> timeouts.rows \cup {u}, tasks |-> timeouts.tasks \ {u} ]
       /\ UNCHANGED << script, spaceVars, mask, tierVars, roleVars, bans, silenced, invite, job, asks,
                       lapsed, odd, raced >>

(* handle_set_invite_settings: MANAGE_SPACE is with the admins.  The uses  *)
(* so far stay counted.                                                    *)
SetInvite(p, max) ==
    /\ p \in inSpace /\ Has(mask[p], "all")
    /\ AskOnce(p, "invite")
    /\ invite' = [ invite EXCEPT !.max = max ]
    /\ UNCHANGED << script, spaceVars, mask, tierVars, roleVars, outVars, lapsed, odd, raced >>

-----------------------------------------------------------------------------
(* handle_set_member_role: the tier in memory under the write lock, its    *)
(* row, and the managed roles; then the caches of the user.                *)
TierSteps == { "tier row", "strip", "give" }

SetTier(p, u, t) ==
    /\ p \in inSpace /\ Has(mask[p], "roles") /\ u # UserOf[p] /\ u # Owner
    /\ Ask(p, "tier", [ Idle EXCEPT !.do = "tier", !.who = u, !.role = t, !.rank = TierOf(UserOf[p]) ])
    /\ UNCHANGED << script, spaceVars, mask, tierVars, roleVars, outVars, invite, lapsed, odd, raced >>

(* An admin sets members and moderators, to no more than moderator. *)
CommitTier(p) ==
    LET u == job[p].who
        allowed == \/ job[p].rank = "owner"
                   \/ job[p].rank = "admin" /\ tier[u] # "admin" /\ job[p].role # "admin" IN
    /\ job[p].do = "tier"
    /\ IF allowed /\ tier[u] # job[p].role
       THEN /\ tier' = [ tier EXCEPT ![u] = job[p].role ]
            /\ odd' = IF \E d \in Devices : job[d].do \in TierSteps /\ job[d].who = u
                      THEN odd \cup {u} ELSE odd
            /\ GoOn(p, "tier row")
       ELSE UNCHANGED << tier, odd >> /\ Done(p)
    /\ UNCHANGED << script, spaceVars, mask, tierRow, roleVars, outVars, invite, asks, lapsed, raced >>

(* save_space_role, or delete_space_role for a plain member.  An error is  *)
(* logged, here and below, and what the user is in memory stays.           *)
SaveTier(p) ==
    /\ job[p].do = "tier row"
    /\ \/ tierRow' = [ tierRow EXCEPT ![job[p].who] = job[p].role ] /\ UNCHANGED odd
       \/ UNCHANGED tierRow /\ odd' = odd \cup { job[p].who }
    /\ GoOn(p, "strip")
    /\ UNCHANGED << script, spaceVars, mask, tier, roleVars, outVars, invite, asks, lapsed, raced >>

(* Mutant: the managed roles held before are kept. *)
StripNothing(p) ==
    /\ job[p].do = "strip"
    /\ GoOn(p, "give")
    /\ UNCHANGED << script, spaceVars, mask, tierVars, roleVars, outVars, invite, asks, lapsed, odd, raced >>

(* set_legacy_role_assignment: three deletions (as one: they undo only     *)
(* what was given before), and the role of the tier.                       *)
Strip(p) ==
    /\ job[p].do = "strip"
    /\ \/ /\ holds' = holds \ (Tiers \X { job[p].who })
          /\ GoOn(p, "give") /\ UNCHANGED odd
       \/ /\ UNCHANGED holds
          /\ GoOn(p, "list user") /\ odd' = odd \cup { job[p].who }
    /\ UNCHANGED << script, spaceVars, mask, tierVars, catalogue, outVars, invite, asks, lapsed, raced >>

Give(p) ==
    /\ job[p].do = "give"
    /\ \/ holds' = holds \cup {<< job[p].role, job[p].who >>} /\ UNCHANGED odd
       \/ UNCHANGED holds /\ odd' = odd \cup { job[p].who }
    /\ GoOn(p, "list user")
    /\ UNCHANGED << script, spaceVars, mask, tierVars, catalogue, outVars, invite, asks, lapsed, raced >>

-----------------------------------------------------------------------------
(* The role API.  Each request has what its actor may do from the database *)
(* (actor_perms).                                                          *)
AskRoles(p, kind, first) ==
    /\ p \in inSpace /\ Has(PermsOf(UserOf[p]), "roles")
    /\ Ask(p, kind, [ first EXCEPT !.mine = PermsOf(UserOf[p]) ])

(* handle_create_role. *)
CreateRole(p, r, bits) ==
    /\ MayGrant(PermsOf(UserOf[p]), bits)
    /\ r \notin DOMAIN catalogue
    /\ \A d \in Devices : job[d].role # r
    /\ \A u \in Users : << r, u >> \notin holds
    /\ AskRoles(p, "create", [ Idle EXCEPT !.do = "write def", !.role = r, !.bits = bits ])
    /\ UNCHANGED << script, spaceVars, mask, tierVars, roleVars, outVars, invite, lapsed, odd, raced >>

(* handle_update_role: of its permissions when patch, else of its looks.   *)
UpdateRole(p, r, patch, bits) ==
    /\ AskRoles(p, "update", [ Idle EXCEPT !.do = "read def", !.role = r, !.patch = patch, !.bits = bits ])
    /\ UNCHANGED << script, spaceVars, mask, tierVars, roleVars, outVars, invite, lapsed, odd, raced >>

(* handle_delete_role. *)
DeleteRole(p, r) ==
    /\ AskRoles(p, "delete", [ Idle EXCEPT !.do = "read def", !.role = r ])
    /\ UNCHANGED << script, spaceVars, mask, tierVars, roleVars, outVars, invite, lapsed, odd, raced >>

(* handle_assign_role_to_member. *)
AssignRole(p, r, u) ==
    /\ AskRoles(p, "assign", [ Idle EXCEPT !.do = "read def", !.role = r, !.who = u ])
    /\ UNCHANGED << script, spaceVars, mask, tierVars, roleVars, outVars, invite, lapsed, odd, raced >>

(* handle_unassign_role_from_member. *)
UnassignRole(p, r, u) ==
    /\ AskRoles(p, "unassign", [ Idle EXCEPT !.do = "unhold", !.role = r, !.who = u ])
    /\ UNCHANGED << script, spaceVars, mask, tierVars, roleVars, outVars, invite, lapsed, odd, raced >>

(* The role as it is; which the write below puts back but for the patch.   *)
ReadDef(p) ==
    LET b == job[p]
        r == b.role
        refused == \/ r \notin DOMAIN catalogue
                   \/ b.kind = "update" /\ b.patch /\ (r \in Tiers \/ ~ MayGrant(b.mine, b.bits))
                   \/ b.kind = "delete" /\ r \in Tiers
                   \/ b.kind = "assign" /\ ~ MayGrant(b.mine, catalogue[r]) IN
    /\ b.do = "read def"
    /\ IF refused THEN Done(p)
       ELSE \/ /\ b.kind = "update"
               /\ job' = [ job EXCEPT ![p].do = "write def",
                                      ![p].bits = IF b.patch THEN @ ELSE catalogue[r] ]
            \/ b.kind = "delete" /\ GoOn(p, "delete def")
            \/ b.kind = "assign" /\ GoOn(p, "hold")
    /\ UNCHANGED << script, spaceVars, mask, tierVars, roleVars, outVars, invite, asks, lapsed, odd, raced >>

(* upsert_role_def: the catalogue, with the role as it is now. *)
Upserted(r, bits) ==
    [ s \in DOMAIN catalogue \cup {r} |-> IF s = r THEN bits ELSE catalogue[s] ]

(* Mutant: the caches are left alone after a change of permissions. *)
WriteDefOnly(p) ==
    /\ job[p].do = "write def"
    /\ catalogue' = Upserted(job[p].role, job[p].bits)
    /\ Done(p)
    /\ UNCHANGED << script, spaceVars, mask, tierVars, holds, outVars, invite, asks, lapsed, odd, raced >>

(* The write, and the caches when permissions were given.  (A write  *)
(* of looks alone may bring back older permissions, or a deleted role, and *)
(* no cache is told.)                                                      *)
WriteDef(p) ==
    LET b == job[p]
        untold == b.kind = "update" /\ ~ b.patch /\ Upserted(b.role, b.bits) # catalogue IN
    /\ b.do = "write def"
    /\ catalogue' = Upserted(b.role, b.bits)
    /\ lapsed' = IF untold THEN Devices ELSE lapsed
    /\ job' = [ d \in Devices |->
                  IF d = p THEN IF b.patch THEN [ b EXCEPT !.do = "list space", !.bits = {} ] ELSE Idle
                  ELSE IF untold /\ job[d].do \in { "load", "store" } THEN [ job[d] EXCEPT !.stale = TRUE ]
                  ELSE job[d] ]
    /\ UNCHANGED << script, spaceVars, mask, tierVars, holds, outVars, invite, asks, odd, raced >>

(* delete_role_def: the rows of those that hold it stay. *)
DeleteDef(p) ==
    /\ job[p].do = "delete def"
    /\ catalogue' = Restrict(catalogue, DOMAIN catalogue \ { job[p].role })
    /\ GoOn(p, "list space")
    /\ UNCHANGED << script, spaceVars, mask, tierVars, holds, outVars, invite, asks, lapsed, odd, raced >>

Hold(p) ==
    /\ job[p].do = "hold"
    /\ holds' = holds \cup {<< job[p].role, job[p].who >>}
    /\ odd' = IF job[p].role \in Tiers THEN odd \cup { job[p].who } ELSE odd
    /\ GoOn(p, "list user")
    /\ UNCHANGED << script, spaceVars, mask, tierVars, catalogue, outVars, invite, asks, lapsed, raced >>

Unhold(p) ==
    /\ job[p].do = "unhold"
    /\ holds' = holds \ {<< job[p].role, job[p].who >>}
    /\ odd' = IF job[p].role \in Tiers THEN odd \cup { job[p].who } ELSE odd
    /\ GoOn(p, "list user")
    /\ UNCHANGED << script, spaceVars, mask, tierVars, catalogue, outVars, invite, asks, lapsed, raced >>

(* A write that fails: the first two are given up, the others ignored. *)
RoleWriteFails(p) ==
    /\ \/ job[p].do \in { "write def", "hold" } /\ Done(p)
       \/ job[p].do = "delete def" /\ GoOn(p, "list space")
       \/ job[p].do = "unhold" /\ GoOn(p, "list user")
    /\ UNCHANGED << script, spaceVars, mask, tierVars, roleVars, outVars, invite, asks, lapsed, odd, raced >>

-----------------------------------------------------------------------------
(* The server stops and starts again: connections and tasks are gone, the  *)
(* tiers are those of the table, and migrate_legacy_roles_to_v2 gives the  *)
(* managed roles that go with them.                                        *)
Restart ==
    /\ "restart" \in script /\ asks < MaxAsks
    /\ asks' = asks + 1
    /\ members' = {} /\ inSpace' = {} /\ silenced' = {} /\ lapsed' = {}
    /\ mask' = [ p \in Devices |-> {} ]
    /\ job' = [ p \in Devices |-> Idle ]
    /\ tier' = tierRow
    /\ holds' = holds \cup { << tierRow[u], u >> : u \in { v \in Users : tierRow[v] # "member" } }
    /\ invite' = [ invite EXCEPT !.tasks = 0 ]
    /\ timeouts' = [ timeouts EXCEPT !.tasks = {} ]
    /\ odd' = odd \cup { job[p].who : p \in { d \in Devices : job[d].do \in TierSteps } }
    /\ UNCHANGED << script, tierRow, catalogue, bans, raced >>

-----------------------------------------------------------------------------
AccessInit ==
    /\ script \in Scripts
    /\ members = Present /\ inSpace = Present
    /\ tier = FirstTiers /\ tierRow = FirstTiers
    /\ catalogue = [ t \in Tiers |-> Bundle(t) ]
    /\ holds = { << FirstTiers[u], u >> : u \in { v \in Users : FirstTiers[v] # "member" } }
    /\ mask = [ p \in Devices |-> IF p \in Present THEN PermsOf(UserOf[p]) ELSE {} ]
    /\ bans = {} /\ silenced = {}
    /\ invite = [ max |-> 0, uses |-> 0, tasks |-> 0 ]
    /\ timeouts = [ rows |-> {}, tasks |-> {} ]
    /\ job = [ p \in Devices |-> Idle ]
    /\ asks = 0
    /\ lapsed = {} /\ odd = {} /\ raced = {}

JoinStep(p) ==
    \/ Join(p) \/ CheckBan(p) \/ RestoreTimeout(p) \/ CheckInvite(p) \/ Enter(p)
    \/ Leave(p) \/ Unlist(p) \/ ClearSpace(p) \/ Reconnect(p)
    \/ ListUser(p) \/ ListSpace(p) \/ Refreshed(p) \/ SeeSpace(p) \/ LoadPerms(p) \/ StorePerms(p)

ModerationStep(p) ==
    \/ \E q \in Devices : Kick(p, q) \/ Ban(p, q) \/ Timeout(p, q)
    \/ SaveBan(p) \/ Silence(p)
    \/ \E u \in Users : Unban(p, u)
    \/ \E max \in 0 .. MaxUses : SetInvite(p, max)

RoleStep(p) ==
    \/ \E u \in Users, t \in Tiers : SetTier(p, u, t)
    \/ CommitTier(p) \/ SaveTier(p) \/ Strip(p) \/ Give(p)
    \/ \E r \in CustomRoles, bits \in CustomBits : CreateRole(p, r, bits) \/ UpdateRole(p, r, TRUE, bits)
    \/ \E r \in DOMAIN catalogue : \/ UpdateRole(p, r, FALSE, {}) \/ DeleteRole(p, r)
                                   \/ \E u \in Users : AssignRole(p, r, u) \/ UnassignRole(p, r, u)
    \/ ReadDef(p) \/ WriteDef(p) \/ DeleteDef(p) \/ Hold(p) \/ Unhold(p) \/ RoleWriteFails(p)

AccessNext ==
    \/ \E p \in Devices : JoinStep(p) \/ ModerationStep(p) \/ RoleStep(p)
    \/ CountUse \/ StoreTimeout \/ Restart

AccessSpec == AccessInit /\ [][AccessNext]_accessVars

-----------------------------------------------------------------------------
(* Properties. *)

(* When nothing is under way, the cached permissions of a member are those *)
(* of its roles, and a connection that is in no space has none: unless two *)
(* computations for it overlapped, the one that read first storing last,   *)
(* or an edit of a role's looks undid a change of its permissions.         *)
MaskFresh ==
    Quiet => \A p \in Devices \ lapsed :
        /\ p \in inSpace \cap members => mask[p] = PermsOf(UserOf[p])
        /\ p \notin inSpace => mask[p] = {}

(* The tier in memory, its row and the managed role held go together,      *)
(* across restarts, unless two handlers set a user's tier at once, one of  *)
(* the statements failed, a restart came between them, or the role API was *)
(* used on the managed roles.                                              *)
TiersAgree ==
    \A u \in Users \ odd :
        (\A p \in Devices : job[p].do \in TierSteps => job[p].who # u) =>
            /\ tierRow[u] = tier[u]
            /\ { r \in Tiers : << r, u >> \in holds } \in { {tier[u]}, {tier[u]} \ {"member"} }

(* A user that is banned is not a member, on any of its connections; a     *)
(* member that was timed out is so also after it came back: unless it was  *)
(* joining meanwhile.                                                      *)
ModerationHolds ==
    /\ \A u \in bans \ raced :
          (\A p \in Devices : job[p].kind = "ban" => job[p].who # u) =>
              \A q \in members : UserOf[q] # u
    /\ \A q \in members \ raced : UserOf[q] \in timeouts.rows => q \in silenced
=============================================================================
