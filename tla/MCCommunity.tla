----------------------------- MODULE MCCommunity -----------------------------
(* Friends and blocks, permissions and moderation, identities and logins:  *)
(* they share no state, so a behaviour takes the steps of one (focus).     *)
EXTENDS Social, Access, Accounts, TLC

CONSTANTS d1, d2, d3,   \* devices: d2 and d3 are those of u2
          u1, u2,       \* users: u1 owns the space
          r1,           \* a role
          n1, n2, n3,   \* connections: n1 and n2 are those of k1
          k1, k2        \* clients

VARIABLE focus

MCUserOf == (d1 :> u1) @@ (d2 :> u2) @@ (d3 :> u2)
MCClientOf == (n1 :> k1) @@ (n2 :> k1) @@ (n3 :> k2)

MCFirstTiers == [ u \in {u1, u2} |-> "member" ]
MCCustomBits == {{ "moderate" }, { "roles" }}

MCScripts ==
    { { "join", "leave", "kick", "ban", "unban" },
      { "join", "timeout", "restart" },
      { "invite", "join", "leave" },
      { "tier", "restart", "leave", "join" },
      { "create", "update", "delete" },
      { "create", "update", "assign" },
      { "update", "assign", "tier" },
      { "assign", "unassign", "join" } }

Plan(kinds, conns, registered, n) ==
    [ asks |-> kinds, conns |-> conns, registered |-> registered, calls |-> n ]

MCPlans ==
    { Plan({}, {n1, n2, n3}, {k1}, 0),
      Plan({ "revoke" }, {n1, n2}, {}, 1),
      Plan({ "create", "logout" }, {n1, n2}, {}, 2),
      Plan({ "create", "email", "delete" }, {n1}, {}, 3),
      Plan({ "login" }, {n1, n3}, {}, 3),
      Plan({ "login", "logout" }, {n1, n3}, {k1}, 2),
      Plan({ "login", "revoke" }, {n1, n3}, {k1}, 2) }

MCInit ==
    /\ focus \in { "social", "access", "accounts" }
    /\ SocialInit /\ AccessInit /\ AccountsInit
    /\ focus = "access" \/ script = { "invite", "join", "leave" }
    /\ focus = "accounts" \/ plan.asks = { "revoke" }

MCNext ==
    \/ focus = "social" /\ SocialNext /\ UNCHANGED << accessVars, accountVars, focus >>
    \/ focus = "access" /\ AccessNext /\ UNCHANGED << socialVars, accountVars, focus >>
    \/ focus = "accounts" /\ AccountsNext /\ UNCHANGED << socialVars, accessVars, focus >>

MCSpec == MCInit /\ [][MCNext]_<< socialVars, accessVars, accountVars, focus >>
=============================================================================
