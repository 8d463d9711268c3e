---------------------------- MODULE Access_proofs ---------------------------
(***************************************************************************)
(* Proofs about Access. A user's tier is the same in the row, in memory    *)
(* and among its roles once no handler is at work on it; whom a ban or a   *)
(* timeout is about stays out or silent; and a cached permission mask is   *)
(* the one the roles give. Each is shown by an invariant of its own        *)
(* (TierInv, ModInv, CacheInv) over one description of what a step does to *)
(* the jobs of the handlers.                                               *)
(***************************************************************************)
EXTENDS Access, TLAPS

-----------------------------------------------------------------------------
(* What a step does to the jobs of the handlers. *)

(* The shape of the jobs. *)
JobFields ==
    { "do", "kind", "who", "role", "bits", "mine", "rank", "patch", "at", "todo", "stale" }

IsJob(b) == b = [ x \in JobFields |-> b[x] ]

JobsOK ==
    /\ job = [ d \in Devices |-> job[d] ]
    /\ \A d \in Devices : IsJob(job[d]) /\ job[d].who \in Users

(* What a step of another handler leaves of a job: all but stale. *)
Kept(d) ==
    /\ job'[d].do = job[d].do /\ job'[d].kind = job[d].kind
    /\ job'[d].who = job[d].who /\ job'[d].role = job[d].role
    /\ job'[d].bits = job[d].bits /\ job'[d].patch = job[d].patch
    /\ job'[d].at = job[d].at /\ job'[d].todo = job[d].todo

Moved(p) == JobsOK' /\ \A d \in Devices \ {p} : Kept(d)

(* The job of p goes on, the others stay as they are. *)
Alone(p) == \A d \in Devices \ {p} : job'[d] = job[d]

LEMMA IdleJob ==
  /\ IsJob(Idle) /\ Idle.who \in Users
  /\ Idle.do = "idle" /\ Idle.kind = "" /\ Idle.at = {} /\ Idle.todo = {}
  BY AccessAssumption DEF AccessAssumption, Idle, IsJob, JobFields

LEMMA NextJob ==
  ASSUME JobsOK, NEW p \in Devices, NEW b, IsJob(b), b.who \in Users, job' = [ job EXCEPT ![p] = b ]
  PROVE  Moved(p) /\ Alone(p) /\ job'[p] = b
  BY DEF JobsOK, Moved, Alone, Kept

LEMMA SameJobs ==
  ASSUME JobsOK, UNCHANGED job, NEW p
  PROVE  Moved(p) /\ Alone(p)
  BY DEF JobsOK, Moved, Alone, Kept

LEMMA DoneJob ==
  ASSUME JobsOK, NEW p \in Devices, Done(p)
  PROVE  Moved(p) /\ Alone(p) /\ job'[p] = Idle
  BY NextJob, IdleJob DEF Done

(* Parts of a job that are replaced. *)
LEMMA StepJob ==
  ASSUME NEW b, IsJob(b), NEW x
  PROVE  LET c == [ b EXCEPT !.do = x ] IN
         /\ IsJob(c) /\ c.do = x
         /\ c.kind = b.kind /\ c.who = b.who /\ c.role = b.role /\ c.bits = b.bits
         /\ c.patch = b.patch /\ c.at = b.at /\ c.todo = b.todo /\ c.stale = b.stale
  BY DEF IsJob, JobFields

LEMMA KindJob ==
  ASSUME NEW b, IsJob(b), NEW x
  PROVE  LET c == [ b EXCEPT !.kind = x ] IN
         /\ IsJob(c) /\ c.kind = x
         /\ c.do = b.do /\ c.who = b.who /\ c.role = b.role /\ c.bits = b.bits
         /\ c.patch = b.patch /\ c.at = b.at /\ c.todo = b.todo /\ c.stale = b.stale
  BY DEF IsJob, JobFields

LEMMA MineJob ==
  ASSUME NEW b, IsJob(b), NEW x
  PROVE  LET c == [ b EXCEPT !.mine = x ] IN
         /\ IsJob(c) /\ c.kind = b.kind
         /\ c.do = b.do /\ c.who = b.who /\ c.role = b.role /\ c.bits = b.bits
         /\ c.patch = b.patch /\ c.at = b.at /\ c.todo = b.todo /\ c.stale = b.stale
  BY DEF IsJob, JobFields

LEMMA GoOnJob ==
  ASSUME JobsOK, NEW p \in Devices, NEW x, GoOn(p, x)
  PROVE  /\ Moved(p) /\ Alone(p) /\ job'[p].do = x
         /\ job'[p].kind = job[p].kind /\ job'[p].who = job[p].who /\ job'[p].role = job[p].role
         /\ job'[p].bits = job[p].bits /\ job'[p].at = job[p].at /\ job'[p].todo = job[p].todo
         /\ job'[p].patch = job[p].patch /\ job'[p].stale = job[p].stale
  <1> DEFINE b == [ job[p] EXCEPT !.do = x ]
  <1>1. job' = [ job EXCEPT ![p] = b ]
    BY DEF GoOn, JobsOK
  <1>2. IsJob(job[p]) /\ job[p].who \in Users
    BY DEF JobsOK
  <1>3. /\ IsJob(b) /\ b.do = x
        /\ b.kind = job[p].kind /\ b.who = job[p].who /\ b.role = job[p].role /\ b.bits = job[p].bits
        /\ b.patch = job[p].patch /\ b.at = job[p].at /\ b.todo = job[p].todo /\ b.stale = job[p].stale
    BY <1>2, StepJob
  <1> HIDE DEF b
  <1> QED
    BY <1>1, <1>2, <1>3, NextJob

(* The request that begins in first. *)
Starts(p, kind, first) ==
    /\ Moved(p) /\ Alone(p) /\ job[p] = Idle
    /\ job'[p].kind = kind /\ job'[p].do = first.do /\ job'[p].who = first.who
    /\ job'[p].role = first.role /\ job'[p].bits = first.bits /\ job'[p].at = first.at
    /\ job'[p].todo = first.todo /\ job'[p].patch = first.patch

LEMMA AskJob ==
  ASSUME JobsOK, NEW p \in Devices, NEW kind, NEW first, IsJob(first), first.who \in Users,
         Ask(p, kind, first)
  PROVE  /\ Moved(p) /\ Alone(p) /\ job[p] = Idle
         /\ job'[p].kind = kind /\ job'[p].do = first.do /\ job'[p].who = first.who
         /\ job'[p].role = first.role /\ job'[p].bits = first.bits /\ job'[p].at = first.at
         /\ job'[p].todo = first.todo /\ job'[p].patch = first.patch
  <1> DEFINE b == [ first EXCEPT !.kind = kind ]
  <1>1. job' = [ job EXCEPT ![p] = b ] /\ job[p] = Idle
    BY DEF Ask
  <1>2. /\ IsJob(b) /\ b.kind = kind
        /\ b.do = first.do /\ b.who = first.who /\ b.role = first.role /\ b.bits = first.bits
        /\ b.patch = first.patch /\ b.at = first.at /\ b.todo = first.todo
    BY KindJob
  <1> HIDE DEF b
  <1> QED
    BY <1>1, <1>2, NextJob

LEMMA AskRolesJob ==
  ASSUME JobsOK, NEW p \in Devices, NEW kind, NEW first, IsJob(first), first.who \in Users,
         AskRoles(p, kind, first)
  PROVE  Starts(p, kind, first)
  <1> DEFINE b == [ first EXCEPT !.mine = PermsOf(UserOf[p]) ]
  <1>1. Ask(p, kind, b)
    BY DEF AskRoles
  <1>2. /\ IsJob(b)
        /\ b.do = first.do /\ b.who = first.who /\ b.role = first.role /\ b.bits = first.bits
        /\ b.patch = first.patch /\ b.at = first.at /\ b.todo = first.todo
    BY MineJob
  <1> HIDE DEF b
  <1> QED
    BY <1>1, <1>2, AskJob DEF Starts

LEMMA SetMaskJob ==
  ASSUME JobsOK, NEW p \in Devices, NEW q, NEW bits, NEW next, IsJob(next), next.who \in Users,
         SetMask(p, q, bits, next)
  PROVE  /\ Moved(p) /\ job'[p] = next
         /\ \A d \in Devices \ {p} :
               /\ job[d].do \in { "load", "store" } /\ q \in job[d].at => job'[d].stale = TRUE
               /\ ~(job[d].do \in { "load", "store" } /\ q \in job[d].at) => job'[d] = job[d]
  <1>1. \A d \in Devices \ {p} : job'[d] = Overtaken(job[d], q)
    BY DEF SetMask
  <1>2. job'[p] = next /\ job' = [ d \in Devices |-> job'[d] ]
    BY DEF SetMask
  <1>3. ASSUME NEW d \in Devices \ {p}
        PROVE  /\ Kept(d) /\ IsJob(job'[d]) /\ job'[d].who \in Users
               /\ job[d].do \in { "load", "store" } /\ q \in job[d].at => job'[d].stale = TRUE
               /\ ~(job[d].do \in { "load", "store" } /\ q \in job[d].at) => job'[d] = job[d]
    <2>1. IsJob(job[d]) /\ job[d].who \in Users
      BY DEF JobsOK
    <2>2. CASE job[d].do \in { "load", "store" } /\ q \in job[d].at
      <3>1. job'[d] = [ job[d] EXCEPT !.stale = TRUE ]
        BY <1>1, <2>2 DEF Overtaken
      <3> QED
        BY <2>1, <2>2, <3>1 DEF IsJob, JobFields, Kept
    <2>3. CASE ~(job[d].do \in { "load", "store" } /\ q \in job[d].at)
      <3>1. job'[d] = job[d]
        BY <1>1, <2>3 DEF Overtaken
      <3> QED
        BY <2>1, <2>3, <3>1 DEF Kept
    <2> QED
      BY <2>2, <2>3
  <1> QED
    BY <1>2, <1>3 DEF Moved, JobsOK

LEMMA UserIs == ASSUME NEW p \in Devices PROVE UserOf[p] \in Users
  BY DEF Users

(* The requests. *)
LEMMA TodoJob ==
  ASSUME NEW b, IsJob(b), NEW x
  PROVE  LET c == [ b EXCEPT !.todo = x ] IN
         /\ IsJob(c) /\ c.todo = x
         /\ c.do = b.do /\ c.kind = b.kind /\ c.who = b.who /\ c.role = b.role /\ c.bits = b.bits
         /\ c.patch = b.patch /\ c.at = b.at /\ c.stale = b.stale
  BY DEF IsJob, JobFields

(* A request that has begun: what it was, and where it starts. *)
Began(p, kind, x) ==
    /\ Moved(p) /\ Alone(p) /\ job[p] = Idle
    /\ job'[p].kind = kind /\ job'[p].do = x /\ job'[p].todo = {}

LEMMA JoinJob ==
  ASSUME JobsOK, NEW p \in Devices, Join(p)
  PROVE  Began(p, "join", "check ban")
  <1> DEFINE first == [ Idle EXCEPT !.do = "check ban" ]
  <1>1. Ask(p, "join", first)
    BY DEF Join
  <1>2. /\ IsJob(first)
        /\ first.do = "check ban"
        /\ first.todo = {}
        /\ first.who \in Users
        /\ first.patch = FALSE
    BY IdleJob DEF IsJob, JobFields, Idle
  <1> HIDE DEF first
  <1>3. Moved(p) /\ Alone(p) /\ job[p] = Idle /\ job'[p].kind = "join"
           /\ job'[p].do = first.do /\ job'[p].todo = first.todo
    BY <1>1, <1>2, AskJob
  <1> QED
    BY <1>2, <1>3 DEF Began

LEMMA OutJob ==
  ASSUME JobsOK, NEW p \in Devices
  PROVE  /\ Leave(p) => Began(p, "leave", "unlist") /\ job'[p].at = {p}
         /\ \A q \in Devices :
               /\ Kick(p, q) => Began(p, "kick", "unlist") /\ job'[p].at = {q}
               /\ Timeout(p, q) => Began(p, "timeout", "silence") /\ job'[p].at = {q}
               /\ Ban(p, q) => /\ Began(p, "ban", "save ban") /\ job'[p].at = {q}
                               /\ job'[p].who = UserOf[q]
  <1>1. ASSUME Leave(p) PROVE Began(p, "leave", "unlist") /\ job'[p].at = {p}
    <2> DEFINE first == [ Idle EXCEPT !.do = "unlist", !.at = {p} ]
    <2>1. Ask(p, "leave", first)
      BY <1>1 DEF Leave
    <2>2. /\ IsJob(first)
          /\ first.do = "unlist"
          /\ first.at = {p}
          /\ first.todo = {}
          /\ first.who \in Users
          /\ first.patch = FALSE
      BY IdleJob DEF IsJob, JobFields, Idle
    <2> HIDE DEF first
    <2> QED
      BY <2>1, <2>2, AskJob DEF Began
  <1>2. ASSUME NEW q \in Devices, Kick(p, q)
        PROVE  Began(p, "kick", "unlist") /\ job'[p].at = {q}
    <2> DEFINE first == [ Idle EXCEPT !.do = "unlist", !.at = {q} ]
    <2>1. Ask(p, "kick", first)
      BY <1>2 DEF Kick
    <2>2. /\ IsJob(first)
          /\ first.do = "unlist"
          /\ first.at = {q}
          /\ first.todo = {}
          /\ first.who \in Users
          /\ first.patch = FALSE
      BY IdleJob DEF IsJob, JobFields, Idle
    <2> HIDE DEF first
    <2> QED
      BY <2>1, <2>2, AskJob DEF Began
  <1>3. ASSUME NEW q \in Devices, Timeout(p, q)
        PROVE  Began(p, "timeout", "silence") /\ job'[p].at = {q}
    <2> DEFINE first == [ Idle EXCEPT !.do = "silence", !.at = {q} ]
    <2>1. Ask(p, "timeout", first)
      BY <1>3 DEF Timeout
    <2>2. /\ IsJob(first)
          /\ first.do = "silence"
          /\ first.at = {q}
          /\ first.todo = {}
          /\ first.who \in Users
          /\ first.patch = FALSE
      BY IdleJob DEF IsJob, JobFields, Idle
    <2> HIDE DEF first
    <2> QED
      BY <2>1, <2>2, AskJob DEF Began
  <1>4. ASSUME NEW q \in Devices, Ban(p, q)
        PROVE  Began(p, "ban", "save ban") /\ job'[p].at = {q} /\ job'[p].who = UserOf[q]
    <2> DEFINE first == [ Idle EXCEPT !.do = "save ban", !.at = {q}, !.who = UserOf[q] ]
    <2>1. Ask(p, "ban", first)
      BY <1>4 DEF Ban
    <2>2. /\ IsJob(first)
          /\ first.do = "save ban"
          /\ first.at = {q}
          /\ first.who = UserOf[q]
          /\ first.todo = {}
          /\ first.patch = FALSE
      BY IdleJob DEF IsJob, JobFields, Idle
    <2> HIDE DEF first
    <2>3. first.who \in Users
      BY <2>2, UserIs
    <2>4. /\ Moved(p) /\ Alone(p) /\ job[p] = Idle /\ job'[p].kind = "ban"
          /\ job'[p].do = first.do /\ job'[p].who = first.who
          /\ job'[p].at = first.at /\ job'[p].todo = first.todo
      BY <2>1, <2>2, <2>3, AskJob
    <2> QED
      BY <2>2, <2>4 DEF Began
  <1> QED
    BY <1>1, <1>2, <1>3, <1>4

LEMMA SetTierJob ==
  ASSUME JobsOK, NEW p \in Devices, NEW u \in Users, NEW t \in Tiers, SetTier(p, u, t)
  PROVE  Began(p, "tier", "tier") /\ job'[p].who = u /\ job'[p].role = t
  <1> DEFINE first == [ Idle EXCEPT !.do = "tier", !.who = u, !.role = t, !.rank = TierOf(UserOf[p]) ]
  <1>1. Ask(p, "tier", first)
    BY DEF SetTier
  <1>2. /\ IsJob(first)
        /\ first.do = "tier"
        /\ first.who = u
        /\ first.role = t
        /\ first.todo = {}
        /\ first.patch = FALSE
    BY IdleJob DEF IsJob, JobFields, Idle
  <1> HIDE DEF first
  <1> QED
    BY <1>1, <1>2, AskJob DEF Began

LEMMA RolesJob ==
  ASSUME JobsOK, NEW p \in Devices
  PROVE  /\ \A r, bits : CreateRole(p, r, bits) =>
               /\ Began(p, "create", "write def")
               /\ job'[p].role = r /\ job'[p].bits = bits /\ job'[p].patch = FALSE
         /\ \A r, patch, bits : UpdateRole(p, r, patch, bits) =>
               /\ Began(p, "update", "read def")
               /\ job'[p].role = r /\ job'[p].bits = bits /\ job'[p].patch = patch
         /\ \A r : DeleteRole(p, r) => Began(p, "delete", "read def") /\ job'[p].role = r
         /\ \A r : \A u \in Users : AssignRole(p, r, u) =>
               Began(p, "assign", "read def") /\ job'[p].role = r /\ job'[p].who = u
         /\ \A r : \A u \in Users : UnassignRole(p, r, u) =>
               Began(p, "unassign", "unhold") /\ job'[p].role = r /\ job'[p].who = u
  <1>1. ASSUME NEW r, NEW bits, CreateRole(p, r, bits)
        PROVE  /\ Began(p, "create", "write def")
               /\ job'[p].role = r /\ job'[p].bits = bits /\ job'[p].patch = FALSE
    <2> DEFINE first == [ Idle EXCEPT !.do = "write def", !.role = r, !.bits = bits ]
    <2>1. AskRoles(p, "create", first)
      BY <1>1 DEF CreateRole
    <2>2. /\ IsJob(first)
          /\ first.do = "write def"
          /\ first.role = r
          /\ first.bits = bits
          /\ first.todo = {}
          /\ first.who \in Users
          /\ first.patch = FALSE
      BY IdleJob DEF IsJob, JobFields, Idle
    <2> HIDE DEF first
    <2>3. first.who \in Users
      BY <2>2
    <2>4. Starts(p, "create", first)
      BY <2>1, <2>2, <2>3, AskRolesJob
    <2> QED
      BY <2>2, <2>4 DEF Began, Starts
  <1>2. ASSUME NEW r, NEW patch, NEW bits, UpdateRole(p, r, patch, bits)
        PROVE  /\ Began(p, "update", "read def")
               /\ job'[p].role = r /\ job'[p].bits = bits /\ job'[p].patch = patch
    <2> DEFINE first == [ Idle EXCEPT !.do = "read def", !.role = r, !.patch = patch, !.bits = bits ]
    <2>1. AskRoles(p, "update", first)
      BY <1>2 DEF UpdateRole
    <2>2. /\ IsJob(first)
          /\ first.do = "read def"
          /\ first.role = r
          /\ first.patch = patch
          /\ first.bits = bits
          /\ first.todo = {}
          /\ first.who \in Users
      BY IdleJob DEF IsJob, JobFields, Idle
    <2> HIDE DEF first
    <2>3. first.who \in Users
      BY <2>2
    <2>4. Starts(p, "update", first)
      BY <2>1, <2>2, <2>3, AskRolesJob
    <2> QED
      BY <2>2, <2>4 DEF Began, Starts
  <1>3. ASSUME NEW r, DeleteRole(p, r)
        PROVE  Began(p, "delete", "read def") /\ job'[p].role = r
    <2> DEFINE first == [ Idle EXCEPT !.do = "read def", !.role = r ]
    <2>1. AskRoles(p, "delete", first)
      BY <1>3 DEF DeleteRole
    <2>2. /\ IsJob(first)
          /\ first.do = "read def"
          /\ first.role = r
          /\ first.todo = {}
          /\ first.who \in Users
          /\ first.patch = FALSE
      BY IdleJob DEF IsJob, JobFields, Idle
    <2> HIDE DEF first
    <2>3. first.who \in Users
      BY <2>2
    <2>4. Starts(p, "delete", first)
      BY <2>1, <2>2, <2>3, AskRolesJob
    <2> QED
      BY <2>2, <2>4 DEF Began, Starts
  <1>4. ASSUME NEW r, NEW u \in Users, AssignRole(p, r, u)
        PROVE  Began(p, "assign", "read def") /\ job'[p].role = r /\ job'[p].who = u
    <2> DEFINE first == [ Idle EXCEPT !.do = "read def", !.role = r, !.who = u ]
    <2>1. AskRoles(p, "assign", first)
      BY <1>4 DEF AssignRole
    <2>2. /\ IsJob(first)
          /\ first.do = "read def"
          /\ first.role = r
          /\ first.who = u
          /\ first.todo = {}
          /\ first.patch = FALSE
      BY IdleJob DEF IsJob, JobFields, Idle
    <2> HIDE DEF first
    <2>3. first.who \in Users
      BY <2>2
    <2>4. Starts(p, "assign", first)
      BY <2>1, <2>2, <2>3, AskRolesJob
    <2> QED
      BY <2>2, <2>4 DEF Began, Starts
  <1>5. ASSUME NEW r, NEW u \in Users, UnassignRole(p, r, u)
        PROVE  Began(p, "unassign", "unhold") /\ job'[p].role = r /\ job'[p].who = u
    <2> DEFINE first == [ Idle EXCEPT !.do = "unhold", !.role = r, !.who = u ]
    <2>1. AskRoles(p, "unassign", first)
      BY <1>5 DEF UnassignRole
    <2>2. /\ IsJob(first)
          /\ first.do = "unhold"
          /\ first.role = r
          /\ first.who = u
          /\ first.todo = {}
          /\ first.patch = FALSE
      BY IdleJob DEF IsJob, JobFields, Idle
    <2> HIDE DEF first
    <2>3. first.who \in Users
      BY <2>2
    <2>4. Starts(p, "unassign", first)
      BY <2>1, <2>2, <2>3, AskRolesJob
    <2> QED
      BY <2>2, <2>4 DEF Began, Starts
  <1> QED
    BY <1>1, <1>2, <1>3, <1>4, <1>5

(* The recomputation of the caches. *)
LEMMA ListJob ==
  ASSUME JobsOK, NEW p \in Devices
  PROVE  /\ ListUser(p) => /\ Moved(p) /\ Alone(p) /\ job[p].do = "list user" /\ job'[p].do = "refresh"
                           /\ job'[p].kind = job[p].kind /\ job'[p].who = job[p].who
                           /\ job'[p].role = job[p].role /\ job'[p].at = job[p].at
                           /\ job'[p].todo = { q \in members : UserOf[q] = job[p].who }
         /\ ListSpace(p) => /\ Moved(p) /\ Alone(p) /\ job[p].do = "list space" /\ job'[p].do = "refresh"
                            /\ job'[p].kind = job[p].kind /\ job'[p].who = job[p].who
                            /\ job'[p].role = job[p].role /\ job'[p].at = job[p].at
                            /\ job'[p].todo = members
  <1>0. IsJob(job[p]) /\ job[p].who \in Users /\ job = [ d \in Devices |-> job[d] ]
    BY DEF JobsOK
  <1>1. ASSUME NEW s
        PROVE  LET c == [ job[p] EXCEPT !.do = "refresh", !.todo = s ] IN
               /\ IsJob(c) /\ c.do = "refresh" /\ c.todo = s
               /\ c.kind = job[p].kind /\ c.who = job[p].who /\ c.role = job[p].role /\ c.at = job[p].at
    BY <1>0 DEF IsJob, JobFields
  <1>2. ASSUME NEW s, job' = [ job EXCEPT ![p].do = "refresh", ![p].todo = s ]
        PROVE  /\ Moved(p) /\ Alone(p) /\ job'[p].do = "refresh"
               /\ job'[p].kind = job[p].kind /\ job'[p].who = job[p].who
               /\ job'[p].role = job[p].role /\ job'[p].at = job[p].at /\ job'[p].todo = s
    <2> DEFINE c == [ job[p] EXCEPT !.do = "refresh", !.todo = s ]
    <2>1. job' = [ job EXCEPT ![p] = c ]
      BY <1>0, <1>2
    <2>2. /\ IsJob(c) /\ c.do = "refresh" /\ c.todo = s
          /\ c.kind = job[p].kind /\ c.who = job[p].who /\ c.role = job[p].role /\ c.at = job[p].at
      BY <1>1
    <2> HIDE DEF c
    <2> QED
      BY <1>0, <2>1, <2>2, NextJob
  <1>3. ASSUME ListUser(p)
        PROVE  /\ job[p].do = "list user"
               /\ job' = [ job EXCEPT ![p].do = "refresh",
                                      ![p].todo = { q \in members : UserOf[q] = job[p].who } ]
    BY <1>3 DEF ListUser
  <1>4. ASSUME ListSpace(p)
        PROVE  job[p].do = "list space" /\ job' = [ job EXCEPT ![p].do = "refresh", ![p].todo = members ]
    BY <1>4 DEF ListSpace
  <1> QED
    BY <1>2, <1>3, <1>4

LEMMA EnterJob ==
  ASSUME JobsOK, NEW p \in Devices, Enter(p)
  PROVE  /\ Moved(p) /\ Alone(p) /\ job[p].do = "enter"
         /\ \/ job'[p] = Idle
            \/ job'[p].do = "refresh" /\ job'[p].kind = job[p].kind /\ job'[p].at = job[p].at
               /\ job'[p].who = job[p].who /\ job'[p].role = job[p].role
               /\ job'[p].todo = {p} /\ p \in members'
  <1>0. IsJob(job[p]) /\ job[p].who \in Users /\ job = [ d \in Devices |-> job[d] ]
    BY DEF JobsOK
  <1>1. job[p].do = "enter" /\ (Done(p) \/ /\ job' = [ job EXCEPT ![p].do = "refresh", ![p].todo = {p} ]
                                           /\ p \in members')
    BY DEF Enter
  <1>2. CASE Done(p)
    BY <1>1, <1>2, DoneJob
  <1>3. CASE job' = [ job EXCEPT ![p].do = "refresh", ![p].todo = {p} ] /\ p \in members'
    <2> DEFINE c == [ job[p] EXCEPT !.do = "refresh", !.todo = {p} ]
    <2>1. job' = [ job EXCEPT ![p] = c ]
      BY <1>0, <1>3
    <2>2. /\ IsJob(c) /\ c.do = "refresh" /\ c.todo = {p}
          /\ c.kind = job[p].kind /\ c.at = job[p].at /\ c.who = job[p].who /\ c.role = job[p].role
      BY <1>0 DEF IsJob, JobFields
    <2> HIDE DEF c
    <2> QED
      BY <1>0, <1>1, <1>3, <2>1, <2>2, NextJob
  <1> QED
    BY <1>1, <1>2, <1>3

LEMMA SeeJob ==
  ASSUME JobsOK, NEW p \in Devices, SeeSpace(p)
  PROVE  /\ Moved(p) /\ job[p].do = "refresh"
         /\ job'[p].kind = job[p].kind /\ job'[p].who = job[p].who /\ job'[p].role = job[p].role
         /\ \E q \in job[p].todo :
               /\ job'[p].todo = job[p].todo \ {q}
               /\ \/ /\ q \in inSpace /\ Alone(p)
                     /\ job'[p].do = "load" /\ job'[p].at = {q} /\ job'[p].stale = FALSE
                     /\ UNCHANGED << mask, lapsed >>
                  \/ /\ q \notin inSpace /\ job'[p].do = "refresh" /\ job'[p].at = job[p].at
                     /\ mask' = [ mask EXCEPT ![q] = {} ] /\ lapsed' = lapsed \ {q}
                     /\ \A d \in Devices \ {p} :
                           /\ job[d].do \in { "load", "store" } /\ q \in job[d].at => job'[d].stale = TRUE
                           /\ ~(job[d].do \in { "load", "store" } /\ q \in job[d].at) => job'[d] = job[d]
  <1>0. IsJob(job[p]) /\ job[p].who \in Users /\ job[p].do = "refresh"
    BY DEF JobsOK, SeeSpace
  <1>1. PICK q \in job[p].todo :
          LET rest == [ job[p] EXCEPT !.todo = @ \ {q} ] IN
          IF q \in inSpace
          THEN /\ job' = [ job EXCEPT ![p] = [ rest EXCEPT !.do = "load", !.at = {q}, !.stale = FALSE ] ]
               /\ UNCHANGED << mask, lapsed >>
          ELSE /\ SetMask(p, q, {}, rest)
               /\ lapsed' = lapsed \ {q}
    BY DEF SeeSpace
  <1> DEFINE rest == [ job[p] EXCEPT !.todo = @ \ {q} ]
             next == [ rest EXCEPT !.do = "load", !.at = {q}, !.stale = FALSE ]
  <1>2. /\ IsJob(rest) /\ rest.todo = job[p].todo \ {q}
        /\ rest.do = job[p].do /\ rest.kind = job[p].kind /\ rest.who = job[p].who
        /\ rest.role = job[p].role /\ rest.at = job[p].at
    BY <1>0, TodoJob
  <1>3. q \in inSpace => job' = [ job EXCEPT ![p] = next ] /\ UNCHANGED << mask, lapsed >>
    BY <1>1
  <1>4. q \notin inSpace => SetMask(p, q, {}, rest) /\ lapsed' = lapsed \ {q}
    BY <1>1
  <1> HIDE DEF rest
  <1>5. /\ IsJob(next) /\ next.todo = rest.todo /\ next.do = "load" /\ next.at = {q} /\ next.stale = FALSE
        /\ next.kind = rest.kind /\ next.who = rest.who /\ next.role = rest.role
    BY <1>2 DEF IsJob, JobFields
  <1> HIDE DEF next
  <1>6. CASE q \in inSpace
    <2>1. Moved(p) /\ Alone(p) /\ job'[p] = next
      BY <1>0, <1>2, <1>3, <1>5, <1>6, NextJob
    <2> QED
      BY <1>0, <1>2, <1>3, <1>5, <1>6, <2>1
  <1>7. CASE q \notin inSpace
    <2>1. /\ Moved(p) /\ job'[p] = rest
          /\ \A d \in Devices \ {p} :
               /\ job[d].do \in { "load", "store" } /\ q \in job[d].at => job'[d].stale = TRUE
               /\ ~(job[d].do \in { "load", "store" } /\ q \in job[d].at) => job'[d] = job[d]
      BY <1>0, <1>2, <1>4, <1>7, SetMaskJob
    <2>2. mask' = [ mask EXCEPT ![q] = {} ]
      BY <1>4, <1>7 DEF SetMask
    <2> QED
      BY <1>0, <1>2, <1>4, <1>7, <2>1, <2>2
  <1> QED
    BY <1>6, <1>7

LEMMA LoadJob ==
  ASSUME JobsOK, NEW p \in Devices, LoadPerms(p)
  PROVE  /\ Moved(p) /\ Alone(p) /\ job[p].do = "load" /\ job'[p].do = "store"
         /\ job'[p].kind = job[p].kind /\ job'[p].who = job[p].who /\ job'[p].role = job[p].role
         /\ job'[p].at = job[p].at /\ job'[p].todo = job[p].todo /\ job'[p].stale = job[p].stale
         /\ \E q \in job[p].at : job'[p].bits = PermsOf(UserOf[q])
  <1>0. /\ IsJob(job[p])
        /\ job[p].who \in Users
        /\ job[p].do = "load"
        /\ job = [ d \in Devices |-> job[d] ]
    BY DEF JobsOK, LoadPerms
  <1>1. PICK q \in job[p].at :
          job' = [ job EXCEPT ![p].do = "store", ![p].bits = PermsOf(UserOf[q]) ]
    BY DEF LoadPerms
  <1> DEFINE c == [ job[p] EXCEPT !.do = "store", !.bits = PermsOf(UserOf[q]) ]
  <1>2. job' = [ job EXCEPT ![p] = c ]
    BY <1>0, <1>1
  <1>3. /\ IsJob(c) /\ c.do = "store" /\ c.bits = PermsOf(UserOf[q])
        /\ c.kind = job[p].kind /\ c.who = job[p].who /\ c.role = job[p].role
        /\ c.at = job[p].at /\ c.todo = job[p].todo /\ c.stale = job[p].stale
    BY <1>0 DEF IsJob, JobFields
  <1> HIDE DEF c
  <1>4. Moved(p) /\ Alone(p) /\ job'[p] = c
    BY <1>0, <1>2, <1>3, NextJob
  <1> QED
    BY <1>0, <1>3, <1>4

LEMMA StoreJob ==
  ASSUME JobsOK, NEW p \in Devices, StorePerms(p)
  PROVE  /\ Moved(p) /\ job[p].do = "store" /\ job'[p].do = "refresh"
         /\ job'[p].kind = job[p].kind /\ job'[p].who = job[p].who /\ job'[p].role = job[p].role
         /\ job'[p].at = {} /\ job'[p].todo = job[p].todo
         /\ \E q \in job[p].at :
               /\ mask' = [ mask EXCEPT ![q] = job[p].bits ]
               /\ lapsed' = IF job[p].stale THEN lapsed \cup {q} ELSE lapsed \ {q}
               /\ \A d \in Devices \ {p} :
                     /\ job[d].do \in { "load", "store" } /\ q \in job[d].at => job'[d].stale = TRUE
                     /\ ~(job[d].do \in { "load", "store" } /\ q \in job[d].at) => job'[d] = job[d]
  <1>0. IsJob(job[p]) /\ job[p].who \in Users /\ job[p].do = "store"
    BY DEF JobsOK, StorePerms
  <1> DEFINE next == [ job[p] EXCEPT !.do = "refresh", !.at = {}, !.bits = {}, !.stale = FALSE ]
  <1>1. PICK q \in job[p].at :
          /\ SetMask(p, q, job[p].bits, next)
          /\ lapsed' = IF job[p].stale THEN lapsed \cup {q} ELSE lapsed \ {q}
    BY DEF StorePerms
  <1>2. /\ IsJob(next) /\ next.do = "refresh" /\ next.at = {} /\ next.todo = job[p].todo
        /\ next.kind = job[p].kind /\ next.who = job[p].who /\ next.role = job[p].role
    BY <1>0 DEF IsJob, JobFields
  <1> HIDE DEF next
  <1>3. /\ Moved(p) /\ job'[p] = next
        /\ \A d \in Devices \ {p} :
             /\ job[d].do \in { "load", "store" } /\ q \in job[d].at => job'[d].stale = TRUE
             /\ ~(job[d].do \in { "load", "store" } /\ q \in job[d].at) => job'[d] = job[d]
    BY <1>0, <1>1, <1>2, SetMaskJob
  <1>4. mask' = [ mask EXCEPT ![q] = job[p].bits ]
    BY <1>1 DEF SetMask
  <1> QED
    BY <1>0, <1>1, <1>2, <1>3, <1>4

(* The removal of a member ends. *)
LEMMA ClearJob ==
  ASSUME JobsOK, NEW p \in Devices, ClearSpace(p)
  PROVE  /\ Moved(p) /\ job[p].do = "clear" /\ job'[p] = Idle
         /\ \E q \in job[p].at :
               /\ inSpace' = inSpace \ {q}
               /\ mask' = [ mask EXCEPT ![q] = {} ] /\ lapsed' = lapsed \ {q}
               /\ \A d \in Devices \ {p} :
                     /\ job[d].do \in { "load", "store" } /\ q \in job[d].at => job'[d].stale = TRUE
                     /\ ~(job[d].do \in { "load", "store" } /\ q \in job[d].at) => job'[d] = job[d]
  <1>1. PICK q \in job[p].at :
          inSpace' = inSpace \ {q} /\ SetMask(p, q, {}, Idle) /\ lapsed' = lapsed \ {q}
    BY DEF ClearSpace
  <1>2. /\ Moved(p) /\ job'[p] = Idle
        /\ \A d \in Devices \ {p} :
             /\ job[d].do \in { "load", "store" } /\ q \in job[d].at => job'[d].stale = TRUE
             /\ ~(job[d].do \in { "load", "store" } /\ q \in job[d].at) => job'[d] = job[d]
    BY <1>1, IdleJob, SetMaskJob
  <1>3. mask' = [ mask EXCEPT ![q] = {} ] /\ job[p].do = "clear"
    BY <1>1 DEF SetMask, ClearSpace
  <1> QED
    BY <1>1, <1>2, <1>3

(* The role API. *)
LEMMA ReadJob ==
  ASSUME JobsOK, NEW p \in Devices, ReadDef(p)
  PROVE  /\ Moved(p) /\ Alone(p) /\ job[p].do = "read def"
         /\ \/ job'[p] = Idle
            \/ /\ job[p].role \in DOMAIN catalogue
               /\ job'[p].kind = job[p].kind /\ job'[p].who = job[p].who /\ job'[p].role = job[p].role
               /\ job'[p].patch = job[p].patch /\ job'[p].todo = job[p].todo
               /\ \/ job[p].kind = "update" /\ job'[p].do = "write def"
                  \/ job[p].kind = "delete" /\ job'[p].do = "delete def"
                  \/ job[p].kind = "assign" /\ job'[p].do = "hold"
  <1>0. /\ IsJob(job[p])
        /\ job[p].who \in Users
        /\ job[p].do = "read def"
        /\ job = [ d \in Devices |-> job[d] ]
    BY DEF JobsOK, ReadDef
  <1> DEFINE b == job[p]
             bits == IF b.patch THEN b.bits ELSE catalogue[b.role]
             c == [ b EXCEPT !.do = "write def", !.bits = bits ]
  <1>1. /\ IsJob(c) /\ c.do = "write def" /\ c.kind = b.kind /\ c.who = b.who /\ c.role = b.role
        /\ c.patch = b.patch /\ c.todo = b.todo
    BY <1>0 DEF IsJob, JobFields
  <1>2. [ job EXCEPT ![p].do = "write def", ![p].bits = IF b.patch THEN @ ELSE catalogue[b.role] ]
          = [ job EXCEPT ![p] = c ]
    BY <1>0
  <1>3. \/ Done(p)
        \/ /\ b.role \in DOMAIN catalogue
           /\ \/ b.kind = "update" /\ job' = [ job EXCEPT ![p] = c ]
              \/ b.kind = "delete" /\ GoOn(p, "delete def")
              \/ b.kind = "assign" /\ GoOn(p, "hold")
    BY <1>2 DEF ReadDef
  <1> HIDE DEF c
  <1>4. CASE Done(p)
    BY <1>0, <1>4, DoneJob
  <1>5. CASE b.kind = "update" /\ job' = [ job EXCEPT ![p] = c ] /\ b.role \in DOMAIN catalogue
    <2>1. Moved(p) /\ Alone(p) /\ job'[p] = c
      BY <1>0, <1>1, <1>5, NextJob
    <2> QED
      BY <1>0, <1>1, <1>5, <2>1
  <1>6. CASE b.kind = "delete" /\ GoOn(p, "delete def") /\ b.role \in DOMAIN catalogue
    BY <1>0, <1>6, GoOnJob
  <1>7. CASE b.kind = "assign" /\ GoOn(p, "hold") /\ b.role \in DOMAIN catalogue
    BY <1>0, <1>7, GoOnJob
  <1> QED
    BY <1>3, <1>4, <1>5, <1>6, <1>7

LEMMA WriteJob ==
  ASSUME JobsOK, NEW p \in Devices, WriteDef(p)
  PROVE  LET b == job[p]
             untold == b.kind = "update" /\ ~ b.patch /\ Upserted(b.role, b.bits) # catalogue IN
         /\ Moved(p) /\ job[p].do = "write def"
         /\ b.patch => /\ job'[p].do = "list space" /\ job'[p].kind = b.kind
                       /\ job'[p].who = b.who /\ job'[p].role = b.role
         /\ ~ b.patch => job'[p] = Idle
         /\ \A d \in Devices \ {p} :
               /\ untold /\ job[d].do \in { "load", "store" } => job'[d].stale = TRUE
               /\ ~(untold /\ job[d].do \in { "load", "store" }) => job'[d] = job[d]
  <1> DEFINE b == job[p]
             untold == b.kind = "update" /\ ~ b.patch /\ Upserted(b.role, b.bits) # catalogue
             next == [ b EXCEPT !.do = "list space", !.bits = {} ]
  <1>0. /\ b.do = "write def" /\ IsJob(b) /\ b.who \in Users
        /\ job' = [ d \in Devices |->
                  IF d = p THEN IF b.patch THEN next ELSE Idle
                  ELSE IF untold /\ job[d].do \in { "load", "store" } THEN [ job[d] EXCEPT !.stale = TRUE ]
                  ELSE job[d] ]
    BY DEF JobsOK, WriteDef
  <1> HIDE DEF untold
  <1>1. /\ IsJob(next) /\ next.do = "list space" /\ next.kind = b.kind
        /\ next.who = b.who /\ next.role = b.role
    BY <1>0 DEF IsJob, JobFields
  <1> HIDE DEF next
  <1>2. (b.patch => job'[p] = next) /\ (~ b.patch => job'[p] = Idle)
    BY <1>0
  <1>3. IsJob(job'[p]) /\ job'[p].who \in Users
    BY <1>0, <1>1, <1>2, IdleJob
  <1>4. ASSUME NEW d \in Devices \ {p}
        PROVE  /\ Kept(d) /\ IsJob(job'[d]) /\ job'[d].who \in Users
               /\ untold /\ job[d].do \in { "load", "store" } => job'[d].stale = TRUE
               /\ ~(untold /\ job[d].do \in { "load", "store" }) => job'[d] = job[d]
    <2>1. IsJob(job[d]) /\ job[d].who \in Users
      BY DEF JobsOK
    <2>2. CASE untold /\ job[d].do \in { "load", "store" }
      <3>1. job'[d] = [ job[d] EXCEPT !.stale = TRUE ]
        BY <1>0, <2>2
      <3> QED
        BY <2>1, <2>2, <3>1 DEF IsJob, JobFields, Kept
    <2>3. CASE ~(untold /\ job[d].do \in { "load", "store" })
      <3>1. job'[d] = job[d]
        BY <1>0, <2>3
      <3> QED
        BY <2>1, <2>3, <3>1 DEF Kept
    <2> QED
      BY <2>2, <2>3
  <1>5. JobsOK'
    BY <1>0, <1>3, <1>4 DEF JobsOK
  <1>6. Moved(p)
    BY <1>4, <1>5 DEF Moved
  <1> QED
    BY <1>0, <1>1, <1>2, <1>4, <1>6 DEF untold

-----------------------------------------------------------------------------
(* What each request does to the jobs, step by step. *)

(* The handler of p takes a step of one request, to its end or not. *)
Goes(p, from, to) ==
    /\ Moved(p) /\ job[p].do \in from /\ job'[p].do \in to
    /\ \/ job'[p] = Idle /\ "idle" \in to
       \/ /\ job'[p].do # "idle"
          /\ job'[p].kind = job[p].kind /\ job'[p].who = job[p].who /\ job'[p].role = job[p].role

LEMMA GoOnGoes ==
  ASSUME JobsOK, NEW p \in Devices, NEW x, NEW from, NEW to,
         GoOn(p, x), x # "idle", job[p].do \in from, x \in to
  PROVE  Goes(p, from, to)
  BY GoOnJob DEF Goes

LEMMA DoneGoes ==
  ASSUME JobsOK, NEW p \in Devices, NEW from, NEW to, Done(p), job[p].do \in from, "idle" \in to
  PROVE  Goes(p, from, to)
  BY DoneJob, IdleJob DEF Goes

LEMMA JoinGoes ==
  ASSUME JobsOK, NEW p \in Devices
  PROVE  /\ CheckBan(p) => Goes(p, { "check ban" }, { "idle", "check timeout" })
         /\ RestoreTimeout(p) => Goes(p, { "check timeout" }, { "check uses" })
         /\ CheckInvite(p) => Goes(p, { "check uses" }, { "idle", "enter" })
         /\ Enter(p) => Goes(p, { "enter" }, { "idle", "refresh" })
         /\ Unlist(p) => Goes(p, { "unlist" }, { "clear" })
         /\ ClearSpace(p) => Goes(p, { "clear" }, { "idle" })
  <1>1. CheckBan(p) => Goes(p, { "check ban" }, { "idle", "check timeout" })
    BY GoOnGoes, DoneGoes DEF CheckBan
  <1>2. RestoreTimeout(p) => Goes(p, { "check timeout" }, { "check uses" })
    BY GoOnGoes DEF RestoreTimeout
  <1>3. CheckInvite(p) => Goes(p, { "check uses" }, { "idle", "enter" })
    BY GoOnGoes, DoneGoes DEF CheckInvite
  <1>4. Enter(p) => Goes(p, { "enter" }, { "idle", "refresh" })
    BY EnterJob, IdleJob DEF Goes
  <1>5. Unlist(p) => Goes(p, { "unlist" }, { "clear" })
    BY GoOnGoes DEF Unlist
  <1>6. ClearSpace(p) => Goes(p, { "clear" }, { "idle" })
    BY ClearJob, IdleJob DEF Goes
  <1> QED
    BY <1>1, <1>2, <1>3, <1>4, <1>5, <1>6

LEMMA RefreshGoes ==
  ASSUME JobsOK, NEW p \in Devices
  PROVE  /\ ListUser(p) => Goes(p, { "list user" }, { "refresh" })
         /\ ListSpace(p) => Goes(p, { "list space" }, { "refresh" })
         /\ Refreshed(p) => Goes(p, { "refresh" }, { "idle" })
         /\ SeeSpace(p) => Goes(p, { "refresh" }, { "refresh", "load" })
         /\ LoadPerms(p) => Goes(p, { "load" }, { "store" })
         /\ StorePerms(p) => Goes(p, { "store" }, { "refresh" })
  <1>1. ListUser(p) => Goes(p, { "list user" }, { "refresh" })
    BY ListJob DEF Goes
  <1>2. ListSpace(p) => Goes(p, { "list space" }, { "refresh" })
    BY ListJob DEF Goes
  <1>3. Refreshed(p) => Goes(p, { "refresh" }, { "idle" })
    BY DoneGoes DEF Refreshed
  <1>4. SeeSpace(p) => Goes(p, { "refresh" }, { "refresh", "load" })
    BY SeeJob DEF Goes
  <1>5. LoadPerms(p) => Goes(p, { "load" }, { "store" })
    BY LoadJob DEF Goes
  <1>6. StorePerms(p) => Goes(p, { "store" }, { "refresh" })
    BY StoreJob DEF Goes
  <1> QED
    BY <1>1, <1>2, <1>3, <1>4, <1>5, <1>6

LEMMA ModerationGoes ==
  ASSUME JobsOK, NEW p \in Devices
  PROVE  /\ SaveBan(p) => Goes(p, { "save ban" }, { "idle", "unlist" })
         /\ Silence(p) => Goes(p, { "silence" }, { "idle" })
  <1>1. SaveBan(p) => Goes(p, { "save ban" }, { "idle", "unlist" })
    BY GoOnGoes, DoneGoes DEF SaveBan
  <1>2. Silence(p) => Goes(p, { "silence" }, { "idle" })
    BY DoneGoes DEF Silence
  <1> QED
    BY <1>1, <1>2

LEMMA TierGoes ==
  ASSUME JobsOK, NEW p \in Devices
  PROVE  /\ CommitTier(p) => Goes(p, { "tier" }, { "idle", "tier row" })
         /\ SaveTier(p) => Goes(p, { "tier row" }, { "strip" })
         /\ Strip(p) => Goes(p, { "strip" }, { "give", "list user" })
         /\ Give(p) => Goes(p, { "give" }, { "list user" })
  <1>1. CommitTier(p) => Goes(p, { "tier" }, { "idle", "tier row" })
    BY GoOnGoes, DoneGoes DEF CommitTier
  <1>2. SaveTier(p) => Goes(p, { "tier row" }, { "strip" })
    BY GoOnGoes DEF SaveTier
  <1>3. Strip(p) => Goes(p, { "strip" }, { "give", "list user" })
    BY GoOnGoes DEF Strip
  <1>4. Give(p) => Goes(p, { "give" }, { "list user" })
    BY GoOnGoes DEF Give
  <1> QED
    BY <1>1, <1>2, <1>3, <1>4

LEMMA RoleGoes ==
  ASSUME JobsOK, NEW p \in Devices
  PROVE  /\ ReadDef(p) => Goes(p, { "read def" }, { "idle", "write def", "delete def", "hold" })
         /\ WriteDef(p) => Goes(p, { "write def" }, { "idle", "list space" })
         /\ DeleteDef(p) => Goes(p, { "delete def" }, { "list space" })
         /\ Hold(p) => Goes(p, { "hold" }, { "list user" })
         /\ Unhold(p) => Goes(p, { "unhold" }, { "list user" })
         /\ RoleWriteFails(p) => Goes(p, { "write def", "hold", "delete def", "unhold" }, { "idle", "list space", "list user" })
  <1>1. ReadDef(p) => Goes(p, { "read def" }, { "idle", "write def", "delete def", "hold" })
    BY ReadJob, IdleJob DEF Goes
  <1>2. WriteDef(p) => Goes(p, { "write def" }, { "idle", "list space" })
    BY WriteJob, IdleJob DEF Goes
  <1>3. DeleteDef(p) => Goes(p, { "delete def" }, { "list space" })
    BY GoOnGoes DEF DeleteDef
  <1>4. Hold(p) => Goes(p, { "hold" }, { "list user" })
    BY GoOnGoes DEF Hold
  <1>5. Unhold(p) => Goes(p, { "unhold" }, { "list user" })
    BY GoOnGoes DEF Unhold
  <1>6. RoleWriteFails(p) => Goes(p, { "write def", "hold", "delete def", "unhold" }, { "idle", "list space", "list user" })
    BY GoOnGoes, DoneGoes DEF RoleWriteFails
  <1> QED
    BY <1>1, <1>2, <1>3, <1>4, <1>5, <1>6

(* Which request takes which steps, as far as it matters below. *)
Kinds(b) ==
    /\ b.kind = "ban" => b.do \in { "save ban", "unlist", "clear" }
    /\ b.do = "save ban" => b.kind = "ban"
    /\ b.do \in JoinSteps => b.kind = "join"
    /\ b.do = "write def" => b.kind \in { "create", "update" }

KindInv == JobsOK /\ \A d \in Devices : Kinds(job[d])

LEMMA KindsMoved ==
  ASSUME KindInv, NEW p \in Devices, Moved(p), Kinds(job'[p])
  PROVE  KindInv'
  <1>1. ASSUME NEW d \in Devices PROVE Kinds(job'[d])
    <2>1. CASE d = p
      BY <2>1
    <2>2. CASE d # p
      <3>1. Kinds(job[d]) /\ job'[d].do = job[d].do /\ job'[d].kind = job[d].kind
        BY <2>2 DEF KindInv, Moved, Kept
      <3> QED
        BY <3>1 DEF Kinds
    <2> QED
      BY <2>1, <2>2
  <1> QED
    BY <1>1 DEF KindInv, Moved

LEMMA BeganKinds ==
  ASSUME KindInv, NEW p \in Devices, NEW kind, NEW x, Began(p, kind, x),
         kind = "ban" <=> x = "save ban", x \in JoinSteps => kind = "join",
         x = "write def" => kind = "create"
  PROVE  KindInv'
  <1>1. Kinds(job'[p])
    BY DEF Began, Kinds
  <1> QED
    BY <1>1, KindsMoved DEF Began

LEMMA SameKinds == ASSUME KindInv, UNCHANGED job PROVE KindInv'
  BY DEF KindInv, JobsOK, Kinds

LEMMA JoinKinds == ASSUME KindInv, NEW p \in Devices, JoinStep(p) PROVE KindInv'
  <1> USE DEF Kinds, JoinSteps
  <1>0. JobsOK /\ Kinds(job[p]) /\ Kinds(Idle)
    BY IdleJob DEF KindInv
  <1>1. CASE CheckBan(p)
    <2>1. Moved(p) /\ Kinds(job'[p])
      BY <1>0, <1>1, JoinGoes DEF Goes
    <2> QED
      BY <2>1, KindsMoved
  <1>2. CASE RestoreTimeout(p)
    <2>1. Moved(p) /\ Kinds(job'[p])
      BY <1>0, <1>2, JoinGoes DEF Goes
    <2> QED
      BY <2>1, KindsMoved
  <1>3. CASE CheckInvite(p)
    <2>1. Moved(p) /\ Kinds(job'[p])
      BY <1>0, <1>3, JoinGoes DEF Goes
    <2> QED
      BY <2>1, KindsMoved
  <1>4. CASE Enter(p)
    <2>1. Moved(p) /\ Kinds(job'[p])
      BY <1>0, <1>4, JoinGoes DEF Goes
    <2> QED
      BY <2>1, KindsMoved
  <1>5. CASE Unlist(p)
    <2>1. Moved(p) /\ Kinds(job'[p])
      BY <1>0, <1>5, JoinGoes DEF Goes
    <2> QED
      BY <2>1, KindsMoved
  <1>6. CASE ClearSpace(p)
    <2>1. Moved(p) /\ Kinds(job'[p])
      BY <1>0, <1>6, JoinGoes DEF Goes
    <2> QED
      BY <2>1, KindsMoved
  <1>7. CASE ListUser(p)
    <2>1. Moved(p) /\ Kinds(job'[p])
      BY <1>0, <1>7, RefreshGoes DEF Goes
    <2> QED
      BY <2>1, KindsMoved
  <1>8. CASE ListSpace(p)
    <2>1. Moved(p) /\ Kinds(job'[p])
      BY <1>0, <1>8, RefreshGoes DEF Goes
    <2> QED
      BY <2>1, KindsMoved
  <1>9. CASE Refreshed(p)
    <2>1. Moved(p) /\ Kinds(job'[p])
      BY <1>0, <1>9, RefreshGoes DEF Goes
    <2> QED
      BY <2>1, KindsMoved
  <1>10. CASE SeeSpace(p)
    <2>1. Moved(p) /\ Kinds(job'[p])
      BY <1>0, <1>10, RefreshGoes DEF Goes
    <2> QED
      BY <2>1, KindsMoved
  <1>11. CASE LoadPerms(p)
    <2>1. Moved(p) /\ Kinds(job'[p])
      BY <1>0, <1>11, RefreshGoes DEF Goes
    <2> QED
      BY <2>1, KindsMoved
  <1>12. CASE StorePerms(p)
    <2>1. Moved(p) /\ Kinds(job'[p])
      BY <1>0, <1>12, RefreshGoes DEF Goes
    <2> QED
      BY <2>1, KindsMoved
  <1>13. CASE Join(p)
    BY <1>0, <1>13, JoinJob, BeganKinds
  <1>14. CASE Leave(p)
    BY <1>0, <1>14, OutJob, BeganKinds
  <1>15. CASE Reconnect(p)
    BY <1>15, SameKinds DEF Reconnect
  <1> QED
    BY <1>1, <1>2, <1>3, <1>4, <1>5, <1>6, <1>7, <1>8, <1>9, <1>10, <1>11, <1>12, <1>13,
       <1>14, <1>15 DEF JoinStep

LEMMA ModerationKinds == ASSUME KindInv, NEW p \in Devices, ModerationStep(p) PROVE KindInv'
  <1> USE DEF Kinds, JoinSteps
  <1>0. JobsOK /\ Kinds(job[p]) /\ Kinds(Idle)
    BY IdleJob DEF KindInv
  <1>1. CASE SaveBan(p)
    <2>1. Moved(p) /\ Kinds(job'[p])
      BY <1>0, <1>1, ModerationGoes DEF Goes
    <2> QED
      BY <2>1, KindsMoved
  <1>2. CASE Silence(p)
    <2>1. Moved(p) /\ Kinds(job'[p])
      BY <1>0, <1>2, ModerationGoes DEF Goes
    <2> QED
      BY <2>1, KindsMoved
  <1>3. ASSUME NEW q \in Devices, Kick(p, q) PROVE KindInv'
    BY <1>0, <1>3, OutJob, BeganKinds
  <1>4. ASSUME NEW q \in Devices, Timeout(p, q) PROVE KindInv'
    BY <1>0, <1>4, OutJob, BeganKinds
  <1>5. ASSUME NEW q \in Devices, Ban(p, q) PROVE KindInv'
    BY <1>0, <1>5, OutJob, BeganKinds
  <1>6. ASSUME NEW u, Unban(p, u) PROVE KindInv'
    BY <1>6, SameKinds DEF Unban, AskOnce
  <1>7. ASSUME NEW max, SetInvite(p, max) PROVE KindInv'
    BY <1>7, SameKinds DEF SetInvite, AskOnce
  <1> QED
    BY <1>1, <1>2, <1>3, <1>4, <1>5, <1>6, <1>7 DEF ModerationStep

LEMMA RoleKinds == ASSUME KindInv, NEW p \in Devices, RoleStep(p) PROVE KindInv'
  <1> USE DEF Kinds, JoinSteps
  <1>0. JobsOK /\ Kinds(job[p]) /\ Kinds(Idle)
    BY IdleJob DEF KindInv
  <1>1. CASE CommitTier(p)
    <2>1. Moved(p) /\ Kinds(job'[p])
      BY <1>0, <1>1, TierGoes DEF Goes
    <2> QED
      BY <2>1, KindsMoved
  <1>2. CASE SaveTier(p)
    <2>1. Moved(p) /\ Kinds(job'[p])
      BY <1>0, <1>2, TierGoes DEF Goes
    <2> QED
      BY <2>1, KindsMoved
  <1>3. CASE Strip(p)
    <2>1. Moved(p) /\ Kinds(job'[p])
      BY <1>0, <1>3, TierGoes DEF Goes
    <2> QED
      BY <2>1, KindsMoved
  <1>4. CASE Give(p)
    <2>1. Moved(p) /\ Kinds(job'[p])
      BY <1>0, <1>4, TierGoes DEF Goes
    <2> QED
      BY <2>1, KindsMoved
  <1>5. CASE WriteDef(p)
    <2>1. Moved(p) /\ Kinds(job'[p])
      BY <1>0, <1>5, RoleGoes DEF Goes
    <2> QED
      BY <2>1, KindsMoved
  <1>6. CASE DeleteDef(p)
    <2>1. Moved(p) /\ Kinds(job'[p])
      BY <1>0, <1>6, RoleGoes DEF Goes
    <2> QED
      BY <2>1, KindsMoved
  <1>7. CASE Hold(p)
    <2>1. Moved(p) /\ Kinds(job'[p])
      BY <1>0, <1>7, RoleGoes DEF Goes
    <2> QED
      BY <2>1, KindsMoved
  <1>8. CASE Unhold(p)
    <2>1. Moved(p) /\ Kinds(job'[p])
      BY <1>0, <1>8, RoleGoes DEF Goes
    <2> QED
      BY <2>1, KindsMoved
  <1>9. CASE RoleWriteFails(p)
    <2>1. Moved(p) /\ Kinds(job'[p])
      BY <1>0, <1>9, RoleGoes DEF Goes
    <2> QED
      BY <2>1, KindsMoved
  <1>10. CASE ReadDef(p)
    <2>1. Moved(p) /\ Kinds(job'[p])
      BY <1>0, <1>10, ReadJob
    <2> QED
      BY <2>1, KindsMoved
  <1>11. ASSUME NEW u \in Users, NEW t \in Tiers, SetTier(p, u, t) PROVE KindInv'
    BY <1>0, <1>11, SetTierJob, BeganKinds
  <1>12. ASSUME NEW r, NEW bits, CreateRole(p, r, bits) PROVE KindInv'
    BY <1>0, <1>12, RolesJob, BeganKinds
  <1>13. ASSUME NEW r, NEW patch, NEW bits, UpdateRole(p, r, patch, bits) PROVE KindInv'
    BY <1>0, <1>13, RolesJob, BeganKinds
  <1>14. ASSUME NEW r, DeleteRole(p, r) PROVE KindInv'
    BY <1>0, <1>14, RolesJob, BeganKinds
  <1>15. ASSUME NEW r, NEW u \in Users, AssignRole(p, r, u) PROVE KindInv'
    <2>1. Began(p, "assign", "read def")
      BY <1>0, <1>15, RolesJob
    <2> QED
      BY <2>1, BeganKinds
  <1>16. ASSUME NEW r, NEW u \in Users, UnassignRole(p, r, u) PROVE KindInv'
    <2>1. Began(p, "unassign", "unhold")
      BY <1>0, <1>16, RolesJob
    <2> QED
      BY <2>1, BeganKinds
  <1> QED
    BY <1>1, <1>2, <1>3, <1>4, <1>5, <1>6, <1>7, <1>8, <1>9, <1>10, <1>11, <1>12, <1>13,
       <1>14, <1>15, <1>16 DEF RoleStep

LEMMA RestartKinds == ASSUME Restart PROVE KindInv'
  BY IdleJob DEF Restart, KindInv, JobsOK, Kinds, JoinSteps

LEMMA InitKinds == ASSUME AccessInit PROVE KindInv
  BY IdleJob DEF AccessInit, KindInv, JobsOK, Kinds, JoinSteps

LEMMA KindsKept == KindInv /\ [AccessNext]_accessVars => KindInv'
  <1> SUFFICES ASSUME KindInv, [AccessNext]_accessVars PROVE KindInv'
    OBVIOUS
  <1>1. CASE CountUse \/ StoreTimeout \/ UNCHANGED accessVars
    BY <1>1, SameKinds DEF CountUse, StoreTimeout, accessVars
  <1> QED
    BY <1>1, JoinKinds, ModerationKinds, RoleKinds, RestartKinds DEF AccessNext

-----------------------------------------------------------------------------
(* Tiers: the row, the memory and the roles say the same. *)

(* Tiers. *)
InTier(d, u) == job[d].do \in TierSteps /\ job[d].who = u

HeldTiers(u) == { r \in Tiers : << r, u >> \in holds }

TierTypes ==
    /\ JobsOK
    /\ tier \in [ Users -> Tiers ] /\ tierRow \in [ Users -> Tiers ]
    /\ \A d \in Devices : job[d].do \in TierSteps \cup {"tier"} => job[d].role \in Tiers

TierOfUser(u) ==
    /\ \A d, e \in Devices : InTier(d, u) /\ InTier(e, u) => d = e
    /\ (\A d \in Devices : ~InTier(d, u)) =>
           tierRow[u] = tier[u] /\ HeldTiers(u) \in { {tier[u]}, {tier[u]} \ {"member"} }
    /\ \A d \in Devices : InTier(d, u) =>
           /\ job[d].role = tier[u]
           /\ job[d].do \in { "strip", "give" } => tierRow[u] = tier[u]
           /\ job[d].do = "give" => HeldTiers(u) = {}

TierInv == TierTypes /\ \A u \in Users \ odd : TierOfUser(u)

Untiered(p) ==
    /\ Moved(p)
    /\ job[p].do \notin TierSteps /\ job'[p].do \notin TierSteps
    /\ job'[p].do = "tier" => job'[p].role \in Tiers
    /\ UNCHANGED tierVars
    /\ odd \subseteq odd'
    /\ \A u \in Users \ odd', r \in Tiers : << r, u >> \in holds' <=> << r, u >> \in holds

LEMMA UntieredKeeps == ASSUME TierInv, NEW p \in Devices, Untiered(p) PROVE TierInv'
  <1>1. \A d \in Devices : \A u :
          /\ InTier(d, u)' <=> InTier(d, u)
          /\ InTier(d, u) => job'[d].do = job[d].do /\ job'[d].role = job[d].role
    BY DEF Untiered, Moved, Kept, InTier
  <1>2. TierTypes'
    BY DEF Untiered, TierInv, TierTypes, Moved, Kept, tierVars
  <1>3. \A u \in Users \ odd' : HeldTiers(u)' = HeldTiers(u)
    BY DEF Untiered, HeldTiers
  <1>4. tier' = tier /\ tierRow' = tierRow /\ odd \subseteq odd'
    BY DEF Untiered, tierVars
  <1>5. ASSUME NEW u \in Users \ odd' PROVE TierOfUser(u)'
    <2>1. TierOfUser(u)
      BY <1>4 DEF TierInv
    <2> QED
      BY <1>1, <1>3, <1>4, <2>1 DEF TierOfUser
  <1> QED
    BY <1>2, <1>5 DEF TierInv

USE DEF spaceVars, tierVars, roleVars, outVars

LEMMA BeganUntiered ==
  ASSUME NEW p \in Devices, NEW kind, NEW x, Began(p, kind, x), x \notin TierSteps \cup {"tier"},
         UNCHANGED << tierVars, holds, odd >>
  PROVE  Untiered(p)
  <1>1. job[p].do = "idle"
    BY IdleJob DEF Began
  <1> QED
    BY <1>1 DEF Untiered, Began, TierSteps

LEMMA JoinUntiered ==
  ASSUME JobsOK, NEW p \in Devices, JoinStep(p)
  PROVE  Untiered(p) \/ UNCHANGED << job, tierVars, holds, odd >>
  <1> USE DEF Untiered, TierSteps
  <1>1. CASE Join(p)
    BY <1>1, JoinJob, BeganUntiered DEF Join
  <1>2. CASE CheckBan(p)
    <2>1. Moved(p) /\ job[p].do = "check ban" /\ job'[p].do \in { "idle", "check timeout" }
      BY <1>2, JoinGoes DEF Goes
    <2> QED
      BY <1>2, <2>1 DEF CheckBan
  <1>3. CASE RestoreTimeout(p)
    <2>1. Moved(p) /\ job[p].do = "check timeout" /\ job'[p].do \in { "check uses" }
      BY <1>3, JoinGoes DEF Goes
    <2> QED
      BY <1>3, <2>1 DEF RestoreTimeout
  <1>4. CASE CheckInvite(p)
    <2>1. Moved(p) /\ job[p].do = "check uses" /\ job'[p].do \in { "idle", "enter" }
      BY <1>4, JoinGoes DEF Goes
    <2> QED
      BY <1>4, <2>1 DEF CheckInvite
  <1>5. CASE Enter(p)
    <2>1. Moved(p) /\ job[p].do = "enter" /\ job'[p].do \in { "idle", "refresh" }
      BY <1>5, JoinGoes DEF Goes
    <2> QED
      BY <1>5, <2>1 DEF Enter
  <1>6. CASE Unlist(p)
    <2>1. Moved(p) /\ job[p].do = "unlist" /\ job'[p].do \in { "clear" }
      BY <1>6, JoinGoes DEF Goes
    <2> QED
      BY <1>6, <2>1 DEF Unlist
  <1>7. CASE ClearSpace(p)
    <2>1. Moved(p) /\ job[p].do = "clear" /\ job'[p].do \in { "idle" }
      BY <1>7, JoinGoes DEF Goes
    <2> QED
      BY <1>7, <2>1 DEF ClearSpace
  <1>8. CASE ListUser(p)
    <2>1. Moved(p) /\ job[p].do = "list user" /\ job'[p].do \in { "refresh" }
      BY <1>8, RefreshGoes DEF Goes
    <2> QED
      BY <1>8, <2>1 DEF ListUser
  <1>9. CASE ListSpace(p)
    <2>1. Moved(p) /\ job[p].do = "list space" /\ job'[p].do \in { "refresh" }
      BY <1>9, RefreshGoes DEF Goes
    <2> QED
      BY <1>9, <2>1 DEF ListSpace
  <1>10. CASE Refreshed(p)
    <2>1. Moved(p) /\ job[p].do = "refresh" /\ job'[p].do \in { "idle" }
      BY <1>10, RefreshGoes DEF Goes
    <2> QED
      BY <1>10, <2>1 DEF Refreshed
  <1>11. CASE SeeSpace(p)
    <2>1. Moved(p) /\ job[p].do = "refresh" /\ job'[p].do \in { "refresh", "load" }
      BY <1>11, RefreshGoes DEF Goes
    <2> QED
      BY <1>11, <2>1 DEF SeeSpace
  <1>12. CASE LoadPerms(p)
    <2>1. Moved(p) /\ job[p].do = "load" /\ job'[p].do \in { "store" }
      BY <1>12, RefreshGoes DEF Goes
    <2> QED
      BY <1>12, <2>1 DEF LoadPerms
  <1>13. CASE StorePerms(p)
    <2>1. Moved(p) /\ job[p].do = "store" /\ job'[p].do \in { "refresh" }
      BY <1>13, RefreshGoes DEF Goes
    <2> QED
      BY <1>13, <2>1 DEF StorePerms
  <1>14. CASE Leave(p)
    BY <1>14, OutJob, BeganUntiered DEF Leave
  <1>15. CASE Reconnect(p)
    BY <1>15 DEF Reconnect
  <1> QED
    BY <1>1, <1>2, <1>3, <1>4, <1>5, <1>6, <1>7, <1>8, <1>9, <1>10, <1>11, <1>12, <1>13,
       <1>14, <1>15 DEF JoinStep

LEMMA ModerationUntiered ==
  ASSUME JobsOK, NEW p \in Devices, ModerationStep(p)
  PROVE  Untiered(p) \/ UNCHANGED << job, tierVars, holds, odd >>
  <1> USE DEF Untiered, TierSteps
  <1>1. ASSUME NEW q \in Devices, Kick(p, q) PROVE Untiered(p)
    BY <1>1, OutJob, BeganUntiered DEF Kick
  <1>2. ASSUME NEW q \in Devices, Ban(p, q) PROVE Untiered(p)
    BY <1>2, OutJob, BeganUntiered DEF Ban
  <1>3. ASSUME NEW q \in Devices, Timeout(p, q) PROVE Untiered(p)
    BY <1>3, OutJob, BeganUntiered DEF Timeout
  <1>4. CASE SaveBan(p)
    <2>1. Moved(p) /\ job[p].do = "save ban" /\ job'[p].do \in { "idle", "unlist" }
      BY <1>4, ModerationGoes DEF Goes
    <2> QED
      BY <1>4, <2>1 DEF SaveBan
  <1>5. CASE Silence(p)
    <2>1. Moved(p) /\ job[p].do = "silence" /\ job'[p].do \in { "idle" }
      BY <1>5, ModerationGoes DEF Goes
    <2> QED
      BY <1>5, <2>1 DEF Silence
  <1>6. ASSUME NEW u \in Users, Unban(p, u) PROVE UNCHANGED << job, tierVars, holds, odd >>
    BY <1>6 DEF Unban, AskOnce
  <1>7. ASSUME NEW max, SetInvite(p, max) PROVE UNCHANGED << job, tierVars, holds, odd >>
    BY <1>7 DEF SetInvite, AskOnce
  <1> QED
    BY <1>1, <1>2, <1>3, <1>4, <1>5, <1>6, <1>7 DEF ModerationStep

(* The steps of the role requests but the tier ones. *)
TierStep(p) == CommitTier(p) \/ SaveTier(p) \/ Strip(p) \/ Give(p)

LEMMA RoleUntiered ==
  ASSUME JobsOK, NEW p \in Devices, RoleStep(p)
  PROVE  Untiered(p) \/ TierStep(p)
  <1> USE DEF Untiered, TierSteps
  <1>1. ASSUME NEW u \in Users, NEW t \in Tiers, SetTier(p, u, t) PROVE Untiered(p)
    <2>1. Began(p, "tier", "tier") /\ job'[p].role = t
      BY <1>1, SetTierJob
    <2>2. job[p].do = "idle" /\ Moved(p) /\ job'[p].do = "tier"
      BY <2>1, IdleJob DEF Began
    <2> QED
      BY <1>1, <2>1, <2>2 DEF SetTier
  <1>2. ASSUME NEW r, NEW bits, CreateRole(p, r, bits) PROVE Untiered(p)
    BY <1>2, RolesJob, BeganUntiered DEF CreateRole
  <1>3. ASSUME NEW r, NEW patch, NEW bits, UpdateRole(p, r, patch, bits) PROVE Untiered(p)
    BY <1>3, RolesJob, BeganUntiered DEF UpdateRole
  <1>4. ASSUME NEW r, DeleteRole(p, r) PROVE Untiered(p)
    BY <1>4, RolesJob, BeganUntiered DEF DeleteRole
  <1>5. ASSUME NEW r, NEW u \in Users, AssignRole(p, r, u) PROVE Untiered(p)
    <2>1. Began(p, "assign", "read def")
      BY <1>5, RolesJob
    <2> QED
      BY <1>5, <2>1, BeganUntiered DEF AssignRole
  <1>6. ASSUME NEW r, NEW u \in Users, UnassignRole(p, r, u) PROVE Untiered(p)
    <2>1. Began(p, "unassign", "unhold")
      BY <1>6, RolesJob
    <2> QED
      BY <1>6, <2>1, BeganUntiered DEF UnassignRole
  <1>7. CASE ReadDef(p)
    <2>1. /\ Moved(p)
          /\ job[p].do = "read def"
          /\ job'[p].do \in { "idle", "write def", "delete def", "hold" }
      BY <1>7, RoleGoes DEF Goes
    <2> QED
      BY <1>7, <2>1 DEF ReadDef
  <1>8. CASE WriteDef(p)
    <2>1. Moved(p) /\ job[p].do = "write def" /\ job'[p].do \in { "idle", "list space" }
      BY <1>8, RoleGoes DEF Goes
    <2> QED
      BY <1>8, <2>1 DEF WriteDef
  <1>9. CASE DeleteDef(p)
    <2>1. Moved(p) /\ job[p].do = "delete def" /\ job'[p].do \in { "list space" }
      BY <1>9, RoleGoes DEF Goes
    <2> QED
      BY <1>9, <2>1 DEF DeleteDef
  <1>10. CASE Hold(p)
    <2>1. Moved(p) /\ job[p].do = "hold" /\ job'[p].do \in { "list user" }
      BY <1>10, RoleGoes DEF Goes
    <2> QED
      BY <1>10, <2>1 DEF Hold
  <1>11. CASE Unhold(p)
    <2>1. Moved(p) /\ job[p].do = "unhold" /\ job'[p].do \in { "list user" }
      BY <1>11, RoleGoes DEF Goes
    <2> QED
      BY <1>11, <2>1 DEF Unhold
  <1>12. CASE RoleWriteFails(p)
    <2>1. /\ Moved(p) /\ job[p].do \in { "write def", "hold", "delete def", "unhold" }
          /\ job'[p].do \in { "idle", "list space", "list user" }
      BY <1>12, RoleGoes DEF Goes
    <2> QED
      BY <1>12, <2>1 DEF RoleWriteFails
  <1> QED
    BY <1>1, <1>2, <1>3, <1>4, <1>5, <1>6, <1>7, <1>8, <1>9, <1>10, <1>11,
       <1>12 DEF RoleStep, TierStep

(* The steps that set a tier.  What they leave of the other users. *)
Elsewhere(u) ==
    /\ \A d \in Devices : InTier(d, u)' <=> InTier(d, u)
    /\ \A d \in Devices : InTier(d, u) => job'[d].do = job[d].do /\ job'[d].role = job[d].role
    /\ tier'[u] = tier[u] /\ tierRow'[u] = tierRow[u] /\ HeldTiers(u)' = HeldTiers(u)

LEMMA ElsewhereKeeps == ASSUME NEW u, TierOfUser(u), Elsewhere(u) PROVE TierOfUser(u)'
  BY DEF TierOfUser, Elsewhere

LEMMA CommitKeeps == ASSUME TierInv, NEW p \in Devices, CommitTier(p) PROVE TierInv'
  <1>u. PICK u \in Users : u = job[p].who
    BY DEF TierInv, TierTypes, JobsOK
  <1>0. JobsOK /\ u \in Users /\ job[p].do = "tier" /\ job[p].role \in Tiers
    BY <1>u DEF CommitTier, TierInv, TierTypes, JobsOK
  <1>1. CASE Done(p) /\ UNCHANGED << tier, odd >>
    <2>1. Moved(p) /\ job'[p].do = "idle"
      BY <1>u, <1>0, <1>1, DoneJob, IdleJob
    <2>2. Untiered(p)
      BY <1>u, <1>0, <1>1, <2>1 DEF CommitTier, Untiered, TierSteps
    <2> QED
      BY <1>u, <2>2, UntieredKeeps
  <1>2. CASE /\ GoOn(p, "tier row") /\ tier' = [ tier EXCEPT ![u] = job[p].role ]
             /\ odd' = IF \E d \in Devices : InTier(d, u) THEN odd \cup {u} ELSE odd
    <2>1. /\ Moved(p) /\ job'[p].do = "tier row"
          /\ job'[p].who = u /\ job'[p].role = job[p].role
      BY <1>u, <1>0, <1>2, GoOnJob
    <2>2. tierRow' = tierRow /\ holds' = holds
      BY <1>u DEF CommitTier
    <2>3. tier' \in [ Users -> Tiers ] /\ tier'[u] = job[p].role
      BY <1>u, <1>0, <1>2 DEF TierInv, TierTypes
    <2>4. TierTypes'
      BY <1>u, <1>0, <2>1, <2>2, <2>3 DEF TierInv, TierTypes, Moved, Kept, TierSteps
    <2>5. ASSUME NEW v \in Users \ odd', v # u PROVE TierOfUser(v)'
      <3>1. TierOfUser(v)
        BY <1>u, <1>2, <2>5 DEF TierInv
      <3>2. tier'[v] = tier[v]
        BY <1>u, <1>2, <2>5 DEF TierInv, TierTypes
      <3>3. Elsewhere(v)
        BY <1>u, <2>1, <2>2, <2>5, <3>2 DEF Elsewhere, InTier, HeldTiers, Moved, Kept
      <3> QED
        BY <1>u, <3>1, <3>3, ElsewhereKeeps
    <2>6. ASSUME u \notin odd' PROVE TierOfUser(u)'
      <3>1. \A d \in Devices : ~InTier(d, u)
        BY <1>u, <1>0, <1>2, <2>6
      <3>2. \A d \in Devices : InTier(d, u)' <=> d = p
        BY <1>u, <2>1, <3>1 DEF InTier, Moved, Kept, TierSteps
      <3>3. job'[p].role = tier'[u] /\ job'[p].do = "tier row"
        BY <1>u, <2>1, <2>3
      <3> QED
        BY <1>u, <3>2, <3>3 DEF TierOfUser
    <2> QED
      BY <1>u, <2>4, <2>5, <2>6 DEF TierInv
  <1> QED
    BY <1>u, <1>1, <1>2 DEF CommitTier, InTier

LEMMA SaveTierKeeps == ASSUME TierInv, NEW p \in Devices, SaveTier(p) PROVE TierInv'
  <1>u. PICK u \in Users : u = job[p].who
    BY DEF TierInv, TierTypes, JobsOK
  <1>0. /\ JobsOK
        /\ u \in Users
        /\ job[p].do = "tier row"
        /\ job[p].role \in Tiers
        /\ GoOn(p, "strip")
    BY <1>u DEF SaveTier, TierInv, TierTypes, JobsOK, TierSteps
  <1>1. /\ Moved(p) /\ job'[p].do = "strip"
        /\ job'[p].who = u /\ job'[p].role = job[p].role
    BY <1>u, <1>0, GoOnJob
  <1>2. /\ tier' = tier /\ holds' = holds /\ tierRow' \in [ Users -> Tiers ]
        /\ \A v \in Users : v # u => tierRow'[v] = tierRow[v]
        /\ u \notin odd' => tierRow'[u] = job[p].role
        /\ odd \subseteq odd'
    BY <1>u, <1>0 DEF SaveTier, TierInv, TierTypes
  <1>3. TierTypes'
    BY <1>u, <1>0, <1>1, <1>2 DEF TierInv, TierTypes, Moved, Kept, TierSteps
  <1>4. \A d \in Devices : \A v : InTier(d, v)' <=> InTier(d, v)
    BY <1>u, <1>0, <1>1 DEF InTier, Moved, Kept, TierSteps
  <1>5. ASSUME NEW v \in Users \ odd', v # u PROVE TierOfUser(v)'
    <2>1. TierOfUser(v)
      BY <1>u, <1>2, <1>5 DEF TierInv
    <2>2. Elsewhere(v)
      BY <1>u, <1>1, <1>2, <1>4, <1>5 DEF Elsewhere, InTier, HeldTiers, Moved, Kept
    <2> QED
      BY <1>u, <2>1, <2>2, ElsewhereKeeps
  <1>6. ASSUME u \notin odd' PROVE TierOfUser(u)'
    <2>1. TierOfUser(u) /\ InTier(p, u)
      BY <1>u, <1>0, <1>2, <1>6 DEF TierInv, InTier, TierSteps
    <2>2. tierRow'[u] = tier'[u] /\ job'[p].role = tier'[u] /\ job'[p].do = "strip"
      BY <1>u, <1>1, <1>2, <1>6, <2>1 DEF TierOfUser
    <2>3. \A d \in Devices : InTier(d, u)' <=> d = p
      BY <1>u, <1>4, <2>1 DEF TierOfUser
    <2> QED
      BY <1>u, <2>2, <2>3 DEF TierOfUser
  <1> QED
    BY <1>u, <1>3, <1>5, <1>6 DEF TierInv

LEMMA StripKeeps == ASSUME TierInv, NEW p \in Devices, Strip(p) PROVE TierInv'
  <1>u. PICK u \in Users : u = job[p].who
    BY DEF TierInv, TierTypes, JobsOK
  <1>0. JobsOK /\ u \in Users /\ job[p].do = "strip" /\ job[p].role \in Tiers
    BY <1>u DEF Strip, TierInv, TierTypes, JobsOK, TierSteps
  <1>1. /\ Moved(p) /\ job'[p].do \in { "give", "list user" }
        /\ job'[p].who = u /\ job'[p].role = job[p].role
        /\ u \notin odd' => job'[p].do = "give" /\ holds' = holds \ (Tiers \X {u})
    BY <1>u, <1>0, GoOnJob DEF Strip
  <1>2. /\ tier' = tier /\ tierRow' = tierRow /\ odd \subseteq odd'
        /\ holds' = holds \/ holds' = holds \ (Tiers \X {u})
    BY <1>u DEF Strip
  <1>3. TierTypes'
    BY <1>u, <1>0, <1>1, <1>2 DEF TierInv, TierTypes, Moved, Kept, TierSteps
  <1>4. ASSUME NEW v \in Users \ odd', v # u PROVE TierOfUser(v)'
    <2>1. TierOfUser(v)
      BY <1>u, <1>2, <1>4 DEF TierInv
    <2>2. HeldTiers(v)' = HeldTiers(v)
      BY <1>u, <1>2, <1>4 DEF HeldTiers
    <2>3. Elsewhere(v)
      BY <1>u, <1>0, <1>1, <1>2, <1>4, <2>2 DEF Elsewhere, InTier, Moved, Kept
    <2> QED
      BY <1>u, <2>1, <2>3, ElsewhereKeeps
  <1>5. ASSUME u \notin odd' PROVE TierOfUser(u)'
    <2>1. TierOfUser(u) /\ InTier(p, u)
      BY <1>u, <1>0, <1>2, <1>5 DEF TierInv, InTier, TierSteps
    <2>2. tierRow'[u] = tier'[u] /\ job'[p].role = tier'[u] /\ job'[p].do = "give"
      BY <1>u, <1>0, <1>1, <1>2, <1>5, <2>1 DEF TierOfUser
    <2>3. HeldTiers(u)' = {}
      BY <1>u, <1>1, <1>5 DEF HeldTiers
    <2>4. \A d \in Devices : InTier(d, u) <=> d = p
      BY <2>1 DEF TierOfUser
    <2>5. InTier(p, u)'
      BY <1>u, <1>1, <1>5 DEF InTier, TierSteps
    <2>6. \A d \in Devices \ {p} : InTier(d, u)' <=> InTier(d, u)
      BY <1>1 DEF InTier, Moved, Kept
    <2>7. \A d \in Devices : InTier(d, u)' <=> d = p
      BY <2>4, <2>5, <2>6
    <2> QED
      BY <1>u, <2>2, <2>3, <2>7 DEF TierOfUser
  <1> QED
    BY <1>u, <1>3, <1>4, <1>5 DEF TierInv

LEMMA GiveKeeps == ASSUME TierInv, NEW p \in Devices, Give(p) PROVE TierInv'
  <1>u. PICK u \in Users : u = job[p].who
    BY DEF TierInv, TierTypes, JobsOK
  <1>0. /\ JobsOK
        /\ u \in Users
        /\ job[p].do = "give"
        /\ job[p].role \in Tiers
        /\ GoOn(p, "list user")
    BY <1>u DEF Give, TierInv, TierTypes, JobsOK, TierSteps
  <1>1. Moved(p) /\ job'[p].do = "list user"
    BY <1>u, <1>0, GoOnJob
  <1>2. /\ tier' = tier /\ tierRow' = tierRow /\ odd \subseteq odd'
        /\ holds' = holds \/ holds' = holds \cup {<< job[p].role, u >>}
        /\ u \notin odd' => holds' = holds \cup {<< job[p].role, u >>}
    BY <1>u DEF Give
  <1>3. TierTypes'
    BY <1>u, <1>0, <1>1, <1>2 DEF TierInv, TierTypes, Moved, Kept, TierSteps
  <1>4. ASSUME NEW v \in Users \ odd', v # u PROVE TierOfUser(v)'
    <2>1. TierOfUser(v)
      BY <1>u, <1>2, <1>4 DEF TierInv
    <2>2. HeldTiers(v)' = HeldTiers(v)
      BY <1>u, <1>2, <1>4 DEF HeldTiers
    <2>3. Elsewhere(v)
      BY <1>u, <1>0, <1>1, <1>2, <1>4, <2>2 DEF Elsewhere, InTier, Moved, Kept, TierSteps
    <2> QED
      BY <1>u, <2>1, <2>3, ElsewhereKeeps
  <1>5. ASSUME u \notin odd' PROVE TierOfUser(u)'
    <2>1. TierOfUser(u) /\ InTier(p, u)
      BY <1>u, <1>0, <1>2, <1>5 DEF TierInv, InTier, TierSteps
    <2>2. tierRow'[u] = tier'[u] /\ job[p].role = tier'[u] /\ HeldTiers(u) = {}
      BY <1>u, <1>0, <1>2, <1>5, <2>1 DEF TierOfUser
    <2>3. HeldTiers(u)' = {tier'[u]}
      BY <1>u, <1>0, <1>2, <1>5, <2>2 DEF HeldTiers
    <2>4. \A d \in Devices : ~InTier(d, u)'
      <3>1. \A d \in Devices \ {p} : ~InTier(d, u)
        BY <2>1 DEF TierOfUser
      <3> QED
        BY <1>1, <3>1 DEF InTier, Moved, Kept, TierSteps
    <2> QED
      BY <1>u, <2>2, <2>3, <2>4 DEF TierOfUser
  <1> QED
    BY <1>u, <1>3, <1>4, <1>5 DEF TierInv

LEMMA RestartKeepsTiers == ASSUME TierInv, Restart PROVE TierInv'
  <1>1. /\ job' = [ d \in Devices |-> Idle ] /\ tier' = tierRow /\ tierRow' = tierRow
        /\ holds' = holds \cup { << tierRow[u], u >> : u \in { v \in Users : tierRow[v] # "member" } }
        /\ odd' = odd \cup { job[p].who : p \in { d \in Devices : job[d].do \in TierSteps } }
    BY DEF Restart
  <1>2. TierTypes'
    BY <1>1, IdleJob DEF TierInv, TierTypes, JobsOK, TierSteps
  <1>3. \A d \in Devices : \A u : ~InTier(d, u)'
    BY <1>1, IdleJob DEF InTier, TierSteps
  <1>4. ASSUME NEW u \in Users \ odd' PROVE TierOfUser(u)'
    <2>1. TierOfUser(u) /\ \A d \in Devices : ~InTier(d, u)
      BY <1>1 DEF TierInv, InTier
    <2>2. /\ tierRow[u] = tier[u]
          /\ tier[u] \in Tiers
          /\ HeldTiers(u) \in { {tier[u]}, {tier[u]} \ {"member"} }
      BY <2>1 DEF TierOfUser, TierInv, TierTypes
    <2>3. HeldTiers(u)' = HeldTiers(u) \cup ({tierRow[u]} \ {"member"})
      BY <1>1, <2>2 DEF HeldTiers
    <2>4. /\ HeldTiers(u)' \in { {tier'[u]}, {tier'[u]} \ {"member"} }
          /\ tierRow'[u] = tier'[u]
      BY <1>1, <2>2, <2>3
    <2> QED
      BY <1>3, <2>4 DEF TierOfUser
  <1> QED
    BY <1>2, <1>4 DEF TierInv

LEMMA InitTiers == AccessInit => TierInv
  <1> SUFFICES ASSUME AccessInit PROVE TierInv
    OBVIOUS
  <1>1. /\ job = [ d \in Devices |-> Idle ] /\ tier = FirstTiers /\ tierRow = FirstTiers
        /\ holds = { << FirstTiers[u], u >> : u \in { v \in Users : FirstTiers[v] # "member" } }
        /\ FirstTiers \in [ Users -> Tiers ]
    BY AccessAssumption DEF AccessInit, AccessAssumption
  <1>2. TierTypes
    BY <1>1, IdleJob DEF TierTypes, JobsOK, TierSteps
  <1>3. \A d \in Devices : \A u : ~InTier(d, u)
    BY <1>1, IdleJob DEF InTier, TierSteps
  <1>4. ASSUME NEW u \in Users PROVE TierOfUser(u)
    <2>1. HeldTiers(u) = {tier[u]} \ {"member"}
      BY <1>1 DEF HeldTiers
    <2> QED
      BY <1>1, <1>3, <2>1 DEF TierOfUser
  <1> QED
    BY <1>2, <1>4 DEF TierInv

LEMMA StutterKeepsTiers ==
  ASSUME TierInv, UNCHANGED << job, tier, tierRow, holds, odd >>
  PROVE  TierInv'
  BY DEF TierInv, TierTypes, TierOfUser, InTier, HeldTiers, JobsOK

LEMMA TiersKept == TierInv /\ [AccessNext]_accessVars => TierInv'
  <1> SUFFICES ASSUME TierInv, [AccessNext]_accessVars PROVE TierInv'
    OBVIOUS
  <1>0. JobsOK
    BY DEF TierInv, TierTypes
  <1>1. ASSUME NEW p \in Devices, JoinStep(p) PROVE TierInv'
    BY <1>0, <1>1, JoinUntiered, UntieredKeeps, StutterKeepsTiers
  <1>2. ASSUME NEW p \in Devices, ModerationStep(p) PROVE TierInv'
    BY <1>0, <1>2, ModerationUntiered, UntieredKeeps, StutterKeepsTiers
  <1>3. ASSUME NEW p \in Devices, RoleStep(p) PROVE TierInv'
    BY <1>0, <1>3, RoleUntiered, UntieredKeeps, CommitKeeps, SaveTierKeeps, StripKeeps,
       GiveKeeps DEF TierStep
  <1>4. CASE CountUse \/ StoreTimeout \/ UNCHANGED accessVars
    BY <1>4, StutterKeepsTiers DEF CountUse, StoreTimeout, accessVars
  <1>5. CASE Restart
    BY <1>5, RestartKeepsTiers
  <1> QED
    BY <1>1, <1>2, <1>3, <1>4, <1>5 DEF AccessNext

(* Once handle_set_member_role has finished for a user, the tier in        *)
(* memory, its row and the managed role the user holds say the same, also  *)
(* after a restart read them back: unless two handlers set the tier at     *)
(* once, a statement failed, a restart came between, or the role API was   *)
(* used on managed roles.                                                  *)
THEOREM TiersStayTogether == AccessSpec => []TiersAgree
  <1>1. TierInv => TiersAgree
    <2> SUFFICES ASSUME TierInv, NEW u \in Users \ odd,
                        \A p \in Devices : job[p].do \in TierSteps => job[p].who # u
                 PROVE  /\ tierRow[u] = tier[u]
                        /\ HeldTiers(u) \in { {tier[u]}, {tier[u]} \ {"member"} }
      BY DEF TiersAgree, HeldTiers
    <2> QED
      BY DEF TierInv, TierOfUser, InTier
  <1> QED
    BY <1>1, TiersKept, InitTiers, PTL DEF AccessSpec

-----------------------------------------------------------------------------
(* Bans and timeouts. *)

(* Bans. *)
Bans(d, u) == job[d].kind = "ban" /\ job[d].who = u

Own(u) == { q \in members : UserOf[q] = u }

(* A ban that is under way finds nobody of the user joining, and the one   *)
(* connection that is listed is the one it removes.                        *)
BanOfUser(u) ==
    /\ \A d, e \in Devices : Bans(d, u) /\ UserOf[e] = u => job[e].do \notin JoinSteps
    /\ u \in bans => \A e \in Devices : UserOf[e] = u => job[e].do \notin JoinSteps \ {"check ban"}
    /\ \A d \in Devices : Bans(d, u) =>
          /\ job[d].do \in { "save ban", "unlist" } => Own(u) \subseteq job[d].at
          /\ job[d].do = "clear" => Own(u) = {}
    /\ u \in bans /\ (\A d \in Devices : Bans(d, u) => job[d].do # "unlist") => Own(u) = {}

(* Timeouts. *)
SilentOf(d) ==
    UserOf[d] \in timeouts.rows \cup timeouts.tasks
      /\ (d \in members \/ job[d].do \in { "check uses", "enter" })
        => d \in silenced

OnceListed == \A p, q \in members : UserOf[p] = UserOf[q] => p = q

ModInv ==
    /\ KindInv
    /\ members \subseteq Devices /\ OnceListed
    /\ \A u \in Users \ raced : BanOfUser(u)
    /\ \A d \in Devices \ raced : SilentOf(d)

(* What leaves the bans of a user as they are. *)
NoNearer(u) ==
    /\ \A d \in Devices : Bans(d, u)' =>
          Bans(d, u) /\ job'[d].do = job[d].do /\ job'[d].at = job[d].at
    /\ \A d \in Devices : Bans(d, u) /\ job[d].do = "unlist" => Bans(d, u)'
    /\ \A d \in Devices : UserOf[d] = u =>
          /\ job'[d].do \in JoinSteps => job[d].do \in JoinSteps
          /\ job'[d].do \in JoinSteps \ {"check ban"} => job[d].do \in JoinSteps \ {"check ban"}
    /\ Own(u)' \subseteq Own(u)
    /\ u \in bans' => u \in bans

LEMMA NoNearerKeeps == ASSUME NEW u, BanOfUser(u), NoNearer(u) PROVE BanOfUser(u)'
  <1>1. \A d, e \in Devices : Bans(d, u)' /\ UserOf[e] = u => job'[e].do \notin JoinSteps
    BY DEF BanOfUser, NoNearer
  <1>2. u \in bans' => \A e \in Devices : UserOf[e] = u => job'[e].do \notin JoinSteps \ {"check ban"}
    BY DEF BanOfUser, NoNearer
  <1>3. ASSUME NEW d \in Devices, Bans(d, u)'
        PROVE  /\ job'[d].do \in { "save ban", "unlist" } => Own(u)' \subseteq job'[d].at
               /\ job'[d].do = "clear" => Own(u)' = {}
    BY <1>3 DEF BanOfUser, NoNearer
  <1>4. ASSUME u \in bans', \A d \in Devices : Bans(d, u)' => job'[d].do # "unlist"
        PROVE  Own(u)' = {}
    <2>1. \A d \in Devices : Bans(d, u) => job[d].do # "unlist"
      BY <1>4 DEF NoNearer
    <2> QED
      BY <1>4, <2>1 DEF BanOfUser, NoNearer
  <1> QED
    BY <1>1, <1>2, <1>3, <1>4 DEF BanOfUser

(* What a step of p that is no matter of bans or timeouts leaves. *)
Unbarred(p) ==
    /\ Moved(p)
    /\ job[p].kind # "ban" /\ job'[p].kind # "ban" /\ job'[p].do \notin JoinSteps
    /\ members' \subseteq members
    /\ UNCHANGED << outVars, raced >>

LEMMA UnbarredKeeps == ASSUME ModInv, KindInv', NEW p \in Devices, Unbarred(p) PROVE ModInv'
  <1>1. members' \subseteq Devices /\ OnceListed'
    BY DEF ModInv, Unbarred, OnceListed
  <1>2. ASSUME NEW u \in Users \ raced' PROVE BanOfUser(u)'
    <2>1. BanOfUser(u)
      BY DEF ModInv, Unbarred
    <2>2. NoNearer(u)
      BY DEF Unbarred, NoNearer, Bans, Own, Moved, Kept, outVars
    <2> QED
      BY <2>1, <2>2, NoNearerKeeps
  <1>3. ASSUME NEW d \in Devices \ raced' PROVE SilentOf(d)'
    <2>1. SilentOf(d)
      BY DEF ModInv, Unbarred
    <2> QED
      BY <2>1 DEF SilentOf, Unbarred, Moved, Kept, outVars, JoinSteps
  <1> QED
    BY <1>1, <1>2, <1>3 DEF ModInv

LEMMA BeganUnbarred ==
  ASSUME NEW p \in Devices, NEW kind, NEW x, Began(p, kind, x), kind # "ban", x \notin JoinSteps,
         UNCHANGED << members, outVars, raced >>
  PROVE  Unbarred(p)
  BY IdleJob DEF Unbarred, Began

LEMMA GoesUnbarred ==
  ASSUME KindInv, NEW p \in Devices, NEW from, NEW to, Goes(p, from, to),
         from \cap { "save ban", "unlist", "clear" } = {}, to \cap JoinSteps = {},
         members' \subseteq members, UNCHANGED << outVars, raced >>
  PROVE  Unbarred(p)
  BY IdleJob DEF Unbarred, Goes, KindInv, Kinds

LEMMA SameBarred ==
  ASSUME ModInv, KindInv', UNCHANGED << members, job, outVars, raced >>
  PROVE  ModInv'
  BY DEF ModInv, OnceListed, BanOfUser, Bans, Own, SilentOf, outVars

LEMMA RefreshUnbarred ==
  ASSUME KindInv, NEW p \in Devices,
         ListUser(p) \/ ListSpace(p) \/ Refreshed(p) \/ SeeSpace(p) \/ LoadPerms(p) \/ StorePerms(p)
  PROVE  Unbarred(p)
  <1> USE DEF JoinSteps, spaceVars
  <1>0. JobsOK
    BY DEF KindInv
  <1>1. CASE ListUser(p)
    <2>1. Goes(p, { "list user" }, { "refresh" })
      BY <1>0, <1>1, RefreshGoes
    <2>2. members' = members /\ UNCHANGED << outVars, raced >>
      BY <1>1 DEF ListUser
    <2> QED
      BY <2>1, <2>2, GoesUnbarred
  <1>2. CASE ListSpace(p)
    <2>1. Goes(p, { "list space" }, { "refresh" })
      BY <1>0, <1>2, RefreshGoes
    <2>2. members' = members /\ UNCHANGED << outVars, raced >>
      BY <1>2 DEF ListSpace
    <2> QED
      BY <2>1, <2>2, GoesUnbarred
  <1>3. CASE Refreshed(p)
    <2>1. Goes(p, { "refresh" }, { "idle" })
      BY <1>0, <1>3, RefreshGoes
    <2>2. members' = members /\ UNCHANGED << outVars, raced >>
      BY <1>3 DEF Refreshed
    <2> QED
      BY <2>1, <2>2, GoesUnbarred
  <1>4. CASE SeeSpace(p)
    <2>1. Goes(p, { "refresh" }, { "refresh", "load" })
      BY <1>0, <1>4, RefreshGoes
    <2>2. members' = members /\ UNCHANGED << outVars, raced >>
      BY <1>4 DEF SeeSpace
    <2> QED
      BY <2>1, <2>2, GoesUnbarred
  <1>5. CASE LoadPerms(p)
    <2>1. Goes(p, { "load" }, { "store" })
      BY <1>0, <1>5, RefreshGoes
    <2>2. members' = members /\ UNCHANGED << outVars, raced >>
      BY <1>5 DEF LoadPerms
    <2> QED
      BY <2>1, <2>2, GoesUnbarred
  <1>6. CASE StorePerms(p)
    <2>1. Goes(p, { "store" }, { "refresh" })
      BY <1>0, <1>6, RefreshGoes
    <2>2. members' = members /\ UNCHANGED << outVars, raced >>
      BY <1>6 DEF StorePerms
    <2> QED
      BY <2>1, <2>2, GoesUnbarred
  <1> QED
    BY <1>1, <1>2, <1>3, <1>4, <1>5, <1>6

LEMMA RoleUnbarred == ASSUME KindInv, NEW p \in Devices, RoleStep(p) PROVE Unbarred(p)
  <1> USE DEF JoinSteps, spaceVars
  <1>0. JobsOK
    BY DEF KindInv
  <1>1. CASE CommitTier(p)
    <2>1. Goes(p, { "tier" }, { "idle", "tier row" })
      BY <1>0, <1>1, TierGoes
    <2>2. members' = members /\ UNCHANGED << outVars, raced >>
      BY <1>1 DEF CommitTier
    <2> QED
      BY <2>1, <2>2, GoesUnbarred
  <1>2. CASE SaveTier(p)
    <2>1. Goes(p, { "tier row" }, { "strip" })
      BY <1>0, <1>2, TierGoes
    <2>2. members' = members /\ UNCHANGED << outVars, raced >>
      BY <1>2 DEF SaveTier
    <2> QED
      BY <2>1, <2>2, GoesUnbarred
  <1>3. CASE Strip(p)
    <2>1. Goes(p, { "strip" }, { "give", "list user" })
      BY <1>0, <1>3, TierGoes
    <2>2. members' = members /\ UNCHANGED << outVars, raced >>
      BY <1>3 DEF Strip
    <2> QED
      BY <2>1, <2>2, GoesUnbarred
  <1>4. CASE Give(p)
    <2>1. Goes(p, { "give" }, { "list user" })
      BY <1>0, <1>4, TierGoes
    <2>2. members' = members /\ UNCHANGED << outVars, raced >>
      BY <1>4 DEF Give
    <2> QED
      BY <2>1, <2>2, GoesUnbarred
  <1>5. CASE ReadDef(p)
    <2>1. Goes(p, { "read def" }, { "idle", "write def", "delete def", "hold" })
      BY <1>0, <1>5, RoleGoes
    <2>2. members' = members /\ UNCHANGED << outVars, raced >>
      BY <1>5 DEF ReadDef
    <2> QED
      BY <2>1, <2>2, GoesUnbarred
  <1>6. CASE WriteDef(p)
    <2>1. Goes(p, { "write def" }, { "idle", "list space" })
      BY <1>0, <1>6, RoleGoes
    <2>2. members' = members /\ UNCHANGED << outVars, raced >>
      BY <1>6 DEF WriteDef
    <2> QED
      BY <2>1, <2>2, GoesUnbarred
  <1>7. CASE DeleteDef(p)
    <2>1. Goes(p, { "delete def" }, { "list space" })
      BY <1>0, <1>7, RoleGoes
    <2>2. members' = members /\ UNCHANGED << outVars, raced >>
      BY <1>7 DEF DeleteDef
    <2> QED
      BY <2>1, <2>2, GoesUnbarred
  <1>8. CASE Hold(p)
    <2>1. Goes(p, { "hold" }, { "list user" })
      BY <1>0, <1>8, RoleGoes
    <2>2. members' = members /\ UNCHANGED << outVars, raced >>
      BY <1>8 DEF Hold
    <2> QED
      BY <2>1, <2>2, GoesUnbarred
  <1>9. CASE Unhold(p)
    <2>1. Goes(p, { "unhold" }, { "list user" })
      BY <1>0, <1>9, RoleGoes
    <2>2. members' = members /\ UNCHANGED << outVars, raced >>
      BY <1>9 DEF Unhold
    <2> QED
      BY <2>1, <2>2, GoesUnbarred
  <1>10. CASE RoleWriteFails(p)
    <2>1. Goes(p, { "write def", "hold", "delete def", "unhold" }, { "idle", "list space", "list user" })
      BY <1>0, <1>10, RoleGoes
    <2>2. members' = members /\ UNCHANGED << outVars, raced >>
      BY <1>10 DEF RoleWriteFails
    <2> QED
      BY <2>1, <2>2, GoesUnbarred
  <1>11. ASSUME NEW u \in Users, NEW t \in Tiers, SetTier(p, u, t) PROVE Unbarred(p)
    <2>1. Began(p, "tier", "tier")
      BY <1>0, <1>11, SetTierJob
    <2>2. members' = members /\ UNCHANGED << outVars, raced >>
      BY <1>11 DEF SetTier
    <2> QED
      BY <2>1, <2>2, BeganUnbarred
  <1>12. ASSUME NEW r, NEW bits, CreateRole(p, r, bits) PROVE Unbarred(p)
    <2>1. Began(p, "create", "write def")
      BY <1>0, <1>12, RolesJob
    <2>2. members' = members /\ UNCHANGED << outVars, raced >>
      BY <1>12 DEF CreateRole
    <2> QED
      BY <2>1, <2>2, BeganUnbarred
  <1>13. ASSUME NEW r, NEW patch, NEW bits, UpdateRole(p, r, patch, bits) PROVE Unbarred(p)
    <2>1. Began(p, "update", "read def")
      BY <1>0, <1>13, RolesJob
    <2>2. members' = members /\ UNCHANGED << outVars, raced >>
      BY <1>13 DEF UpdateRole
    <2> QED
      BY <2>1, <2>2, BeganUnbarred
  <1>14. ASSUME NEW r, DeleteRole(p, r) PROVE Unbarred(p)
    <2>1. Began(p, "delete", "read def")
      BY <1>0, <1>14, RolesJob
    <2>2. members' = members /\ UNCHANGED << outVars, raced >>
      BY <1>14 DEF DeleteRole
    <2> QED
      BY <2>1, <2>2, BeganUnbarred
  <1>15. ASSUME NEW r, NEW u \in Users, AssignRole(p, r, u) PROVE Unbarred(p)
    <2>1. Began(p, "assign", "read def")
      BY <1>0, <1>15, RolesJob
    <2>2. members' = members /\ UNCHANGED << outVars, raced >>
      BY <1>15 DEF AssignRole
    <2> QED
      BY <2>1, <2>2, BeganUnbarred
  <1>16. ASSUME NEW r, NEW u \in Users, UnassignRole(p, r, u) PROVE Unbarred(p)
    <2>1. Began(p, "unassign", "unhold")
      BY <1>0, <1>16, RolesJob
    <2>2. members' = members /\ UNCHANGED << outVars, raced >>
      BY <1>16 DEF UnassignRole
    <2> QED
      BY <2>1, <2>2, BeganUnbarred
  <1> QED
    BY <1>1, <1>2, <1>3, <1>4, <1>5, <1>6, <1>7, <1>8, <1>9, <1>10, <1>11, <1>12, <1>13,
       <1>14, <1>15, <1>16 DEF RoleStep

(* A step of p takes nobody further in, and bans nobody. *)
NoFurther(p, u) ==
    \/ UserOf[p] # u
    \/ job'[p].do \notin JoinSteps
    \/ job[p].do \in JoinSteps \ {"check ban"} /\ job'[p].do \in JoinSteps

LEMMA BanStill ==
  ASSUME NEW p \in Devices, NEW u, Moved(p), job[p].kind # "ban", job'[p].kind # "ban",
         NoFurther(p, u),
         Own(u)' \subseteq Own(u), u \in bans' => u \in bans
  PROVE  NoNearer(u)
  <1>1. ASSUME NEW d \in Devices, d # p
        PROVE  /\ job'[d].do = job[d].do /\ job'[d].at = job[d].at
               /\ Bans(d, u)' <=> Bans(d, u)
    BY <1>1 DEF Moved, Kept, Bans
  <1>2. ~Bans(p, u) /\ ~Bans(p, u)'
    BY DEF Bans
  <1> QED
    BY <1>1, <1>2 DEF NoNearer, NoFurther

LEMMA JoinBarred == ASSUME ModInv, KindInv', NEW p \in Devices, Join(p) PROVE ModInv'
  <1>1. /\ Moved(p) /\ job[p].kind = "" /\ job'[p].kind = "join" /\ job'[p].do = "check ban"
        /\ members' = members /\ UNCHANGED outVars
    BY JoinJob, IdleJob DEF ModInv, KindInv, Began, Join
  <1>2. /\ raced \subseteq raced'
        /\ UserOf[p] \notin raced' => \A d \in Devices : ~Bans(d, UserOf[p])
    BY DEF Join, Bans
  <1>3. ASSUME NEW u \in Users \ raced' PROVE BanOfUser(u)'
    <2>1. BanOfUser(u)
      BY <1>2 DEF ModInv
    <2>2. Own(u)' = Own(u) /\ bans' = bans
      BY <1>1 DEF Own
    <2>3. CASE u # UserOf[p]
      <3>1. NoFurther(p, u) /\ Own(u)' \subseteq Own(u) /\ bans' = bans
        BY <1>1, <2>2, <2>3 DEF NoFurther, JoinSteps
      <3>2. NoNearer(u)
        BY <1>1, <3>1, BanStill
      <3> QED
        BY <2>1, <3>2, NoNearerKeeps
    <2>4. CASE u = UserOf[p]
      <3>1. \A d \in Devices : ~Bans(d, u) /\ ~Bans(d, u)'
        BY <1>1, <1>2, <2>4 DEF Bans, Moved, Kept
      <3>2. \A d \in Devices : job'[d].do \in JoinSteps \ {"check ban"} => job[d].do \in JoinSteps \ {"check ban"}
        BY <1>1 DEF Moved, Kept, JoinSteps
      <3> QED
        BY <2>1, <2>2, <3>1, <3>2 DEF BanOfUser
    <2> QED
      BY <2>3, <2>4
  <1>4. ASSUME NEW d \in Devices \ raced' PROVE SilentOf(d)'
    <2>1. SilentOf(d)
      BY <1>2 DEF ModInv
    <2> QED
      BY <1>1, <2>1 DEF SilentOf, Moved, Kept
  <1>5. members' \subseteq Devices /\ OnceListed'
    BY <1>1 DEF ModInv, OnceListed
  <1> QED
    BY <1>3, <1>4, <1>5 DEF ModInv

LEMMA CheckBanBarred ==
  ASSUME ModInv, KindInv', NEW p \in Devices, CheckBan(p)
  PROVE  ModInv'
  <1>1. /\ Moved(p) /\ job[p].do = "check ban" /\ job[p].kind # "ban" /\ job'[p].kind # "ban"
        /\ job'[p].do \in { "idle", "check timeout" }
        /\ members' = members /\ UNCHANGED << outVars, raced >>
        /\ UserOf[p] \in bans => job'[p].do = "idle"
    <2>1. Goes(p, { "check ban" }, { "idle", "check timeout" })
      BY JoinGoes DEF ModInv, KindInv
    <2>2. UserOf[p] \in bans => job'[p].do = "idle"
      BY DoneJob, IdleJob DEF CheckBan, ModInv, KindInv
    <2>3. job[p].kind # "ban" /\ job'[p].kind # "ban"
      BY <2>1, IdleJob DEF ModInv, KindInv, Kinds, JoinSteps, Goes
    <2> QED
      BY <2>1, <2>2, <2>3 DEF Goes, CheckBan
  <1>2. ASSUME NEW u \in Users \ raced' PROVE BanOfUser(u)'
    <2>1. BanOfUser(u)
      BY <1>1 DEF ModInv
    <2>2. Own(u)' = Own(u) /\ bans' = bans
      BY <1>1 DEF Own
    <2>3. CASE u # UserOf[p] \/ job'[p].do = "idle"
      <3>1. NoFurther(p, u) /\ Own(u)' \subseteq Own(u) /\ bans' = bans
        BY <1>1, <2>2, <2>3 DEF NoFurther, JoinSteps
      <3>2. NoNearer(u)
        BY <1>1, <3>1, BanStill
      <3> QED
        BY <2>1, <3>2, NoNearerKeeps
    <2>4. CASE u = UserOf[p] /\ job'[p].do = "check timeout"
      <3>1. u \notin bans'
        BY <1>1, <2>2, <2>4
      <3>2. \A d \in Devices : Bans(d, u)' => FALSE
        <4>1. \A d \in Devices : ~Bans(d, u)
          BY <1>1, <2>1, <2>4 DEF BanOfUser, JoinSteps
        <4> QED
          BY <1>1, <4>1 DEF Bans, Moved, Kept
      <3> QED
        BY <3>1, <3>2 DEF BanOfUser
    <2> QED
      BY <1>1, <2>3, <2>4
  <1>3. ASSUME NEW d \in Devices \ raced' PROVE SilentOf(d)'
    <2>1. SilentOf(d)
      BY <1>1 DEF ModInv
    <2> QED
      BY <1>1, <2>1 DEF SilentOf, Moved, Kept
  <1>4. members' \subseteq Devices /\ OnceListed'
    BY <1>1 DEF ModInv, OnceListed
  <1> QED
    BY <1>2, <1>3, <1>4 DEF ModInv

(* The two steps between. *)
LEMMA AdmitBarred ==
  ASSUME ModInv, KindInv', NEW p \in Devices, RestoreTimeout(p) \/ CheckInvite(p)
  PROVE  ModInv'
  <1>1. /\ Moved(p) /\ job[p].kind # "ban" /\ job'[p].kind # "ban"
        /\ job[p].do \in { "check timeout", "check uses" }
        /\ job'[p].do \in { "idle", "check uses", "enter" }
        /\ members' = members /\ bans' = bans /\ timeouts' = timeouts
        /\ \A x : x # p => (x \in raced' <=> x \in raced) /\ (x \in silenced' <=> x \in silenced)
    <2>1. Goes(p, { "check timeout" }, { "check uses" }) \/ Goes(p, { "check uses" }, { "idle", "enter" })
      BY JoinGoes DEF ModInv, KindInv
    <2>2. job[p].kind # "ban" /\ job'[p].kind # "ban"
      BY <2>1, IdleJob DEF ModInv, KindInv, Kinds, JoinSteps, Goes
    <2> QED
      BY <2>1, <2>2 DEF Goes, RestoreTimeout, CheckInvite
  <1>2. ASSUME NEW u \in Users \ raced' PROVE BanOfUser(u)'
    <2>1. u # p
      BY AccessAssumption DEF AccessAssumption
    <2>2. BanOfUser(u)
      BY <1>1, <2>1 DEF ModInv
    <2>3. Own(u)' = Own(u) /\ bans' = bans
      BY <1>1 DEF Own
    <2>4. NoFurther(p, u) /\ Own(u)' \subseteq Own(u)
      BY <1>1, <2>3 DEF NoFurther, JoinSteps
    <2>5. NoNearer(u)
      BY <1>1, <2>4, BanStill
    <2> QED
      BY <2>2, <2>5, NoNearerKeeps
  <1>3. ASSUME NEW d \in Devices \ raced', d # p PROVE SilentOf(d)'
    <2>1. SilentOf(d)
      BY <1>1, <1>3 DEF ModInv
    <2> QED
      BY <1>1, <1>3, <2>1 DEF SilentOf, Moved, Kept
  <1>4. ASSUME p \notin raced' PROVE SilentOf(p)'
    <2>1. CASE RestoreTimeout(p)
      BY <1>1, <1>4, <2>1 DEF RestoreTimeout, SilentOf
    <2>2. CASE CheckInvite(p)
      <3>1. SilentOf(p) /\ silenced' = silenced /\ job[p].do = "check uses"
        BY <1>4, <2>2 DEF ModInv, CheckInvite
      <3> QED
        BY <1>1, <3>1 DEF SilentOf
    <2> QED
      BY <2>1, <2>2
  <1>5. members' \subseteq Devices /\ OnceListed'
    BY <1>1 DEF ModInv, OnceListed
  <1> QED
    BY <1>2, <1>3, <1>4, <1>5 DEF ModInv

LEMMA EnterBarred == ASSUME ModInv, KindInv', NEW p \in Devices, Enter(p) PROVE ModInv'
  <1> DEFINE others == members \ { q \in Devices \ {p} : UserOf[q] = UserOf[p] }
  <1>1. /\ Moved(p) /\ job[p].do = "enter" /\ job[p].kind # "ban" /\ job'[p].kind # "ban"
        /\ job'[p].do \notin JoinSteps
        /\ UNCHANGED << outVars, raced >>
        /\ members' = others \/ members' = others \cup {p}
    <2>1. Goes(p, { "enter" }, { "idle", "refresh" })
      BY JoinGoes DEF ModInv, KindInv
    <2>2. job[p].kind # "ban" /\ job'[p].kind # "ban"
      BY <2>1, IdleJob DEF ModInv, KindInv, Kinds, JoinSteps, Goes
    <2> QED
      BY <2>1, <2>2 DEF Goes, Enter, JoinSteps
  <1>2. ASSUME NEW u \in Users \ raced' PROVE BanOfUser(u)'
    <2>1. BanOfUser(u)
      BY <1>1 DEF ModInv
    <2>2. CASE u # UserOf[p]
      <3>1. Own(u)' \subseteq Own(u) /\ bans' = bans
        BY <1>1, <2>2 DEF Own
      <3>2. NoFurther(p, u)
        BY <2>2 DEF NoFurther
      <3>3. NoNearer(u)
        BY <1>1, <3>1, <3>2, BanStill
      <3> QED
        BY <2>1, <3>3, NoNearerKeeps
    <2>3. CASE u = UserOf[p]
      <3>1. u \notin bans' /\ \A d \in Devices : ~Bans(d, u)
        BY <1>1, <2>1, <2>3 DEF BanOfUser, JoinSteps
      <3>2. \A d \in Devices : ~Bans(d, u)'
        BY <1>1, <3>1 DEF Bans, Moved, Kept
      <3> QED
        BY <3>1, <3>2 DEF BanOfUser
    <2> QED
      BY <2>2, <2>3
  <1>3. ASSUME NEW d \in Devices \ raced' PROVE SilentOf(d)'
    <2>1. SilentOf(d)
      BY <1>1 DEF ModInv
    <2> QED
      BY <1>1, <2>1 DEF SilentOf, Moved, Kept, JoinSteps
  <1>4. members' \subseteq Devices /\ OnceListed'
    BY <1>1 DEF ModInv, OnceListed
  <1> QED
    BY <1>2, <1>3, <1>4 DEF ModInv

LEMMA ReconnectBarred ==
  ASSUME ModInv, KindInv', NEW p \in Devices, Reconnect(p)
  PROVE  ModInv'
  <1>1. /\ p \notin members /\ silenced' = silenced \ {p} /\ job[p].do = "idle"
        /\ UNCHANGED << members, bans, timeouts, job, raced >>
    BY IdleJob DEF Reconnect
  <1>2. \A u \in Users \ raced' : BanOfUser(u)'
    BY <1>1 DEF ModInv, BanOfUser, Bans, Own
  <1>3. ASSUME NEW d \in Devices \ raced' PROVE SilentOf(d)'
    <2>1. SilentOf(d)
      BY <1>1 DEF ModInv
    <2> QED
      BY <1>1, <2>1 DEF SilentOf
  <1>4. members' \subseteq Devices /\ OnceListed'
    BY <1>1 DEF ModInv, OnceListed
  <1> QED
    BY <1>2, <1>3, <1>4 DEF ModInv

(* A member is removed: it left, was kicked or is banned. *)
LEMMA RemoveBarred ==
  ASSUME ModInv, KindInv', NEW p \in Devices, Unlist(p) \/ ClearSpace(p)
  PROVE  ModInv'
  <1>1. /\ Moved(p) /\ members' \subseteq members /\ UNCHANGED << outVars, raced >>
        /\ job'[p].do \in { "idle", "clear" }
        /\ \/ /\ job[p].do = "unlist" /\ job'[p].do = "clear" /\ members' = members \ job[p].at
              /\ job'[p].kind = job[p].kind /\ job'[p].who = job[p].who
           \/ job[p].do = "clear" /\ job'[p].kind = ""
    <2>1. CASE Unlist(p)
      <3>1. /\ Moved(p) /\ job'[p].do = "clear"
            /\ job'[p].kind = job[p].kind /\ job'[p].who = job[p].who
        BY <2>1, GoOnJob DEF Unlist, ModInv, KindInv
      <3> QED
        BY <2>1, <3>1 DEF Unlist
    <2>2. CASE ClearSpace(p)
      <3>1. Moved(p) /\ job[p].do = "clear" /\ job'[p].do = "idle" /\ job'[p].kind = ""
        BY <2>2, ClearJob, IdleJob DEF ModInv, KindInv
      <3> QED
        BY <2>2, <3>1 DEF ClearSpace
    <2> QED
      BY <2>1, <2>2
  <1>2. ASSUME NEW u \in Users \ raced' PROVE BanOfUser(u)'
    <2>1. BanOfUser(u)
      BY <1>1 DEF ModInv
    <2>2. Own(u)' \subseteq Own(u) /\ bans' = bans
      BY <1>1 DEF Own
    <2>3. \A d \in Devices : d # p => /\ job'[d].do = job[d].do /\ job'[d].at = job[d].at
                                      /\ Bans(d, u)' <=> Bans(d, u)
      BY <1>1 DEF Moved, Kept, Bans
    <2>4. CASE ~Bans(p, u)
      <3>1. ~Bans(p, u)'
        BY <1>1, <2>4 DEF Bans
      <3>2. NoNearer(u)
        BY <1>1, <2>2, <2>3, <2>4, <3>1 DEF NoNearer, JoinSteps
      <3> QED
        BY <2>1, <3>2, NoNearerKeeps
    <2>5. CASE Bans(p, u) /\ job[p].do = "unlist"
      <3>1. Own(u)' = {} /\ job'[p].do = "clear"
        BY <1>1, <2>1, <2>5 DEF BanOfUser, Own
      <3>2. \A d \in Devices : job'[d].do \in JoinSteps => d # p
        BY <3>1 DEF JoinSteps
      <3> QED
        BY <2>1, <2>2, <2>3, <2>5, <3>1, <3>2 DEF BanOfUser
    <2>6. CASE Bans(p, u) /\ job[p].do = "clear"
      <3>1. Own(u)' = {} /\ ~Bans(p, u)'
        BY <1>1, <2>1, <2>2, <2>6 DEF BanOfUser, Bans
      <3>2. \A d \in Devices : job'[d].do \in JoinSteps => d # p
        BY <1>1 DEF JoinSteps
      <3> QED
        BY <2>1, <2>2, <2>3, <2>6, <3>1, <3>2 DEF BanOfUser
    <2> QED
      BY <1>1, <2>4, <2>5, <2>6
  <1>3. ASSUME NEW d \in Devices \ raced' PROVE SilentOf(d)'
    <2>1. SilentOf(d)
      BY <1>1 DEF ModInv
    <2> QED
      BY <1>1, <2>1 DEF SilentOf, Moved, Kept
  <1>4. members' \subseteq Devices /\ OnceListed'
    BY <1>1 DEF ModInv, OnceListed
  <1> QED
    BY <1>2, <1>3, <1>4 DEF ModInv

LEMMA BanBarred ==
  ASSUME ModInv, KindInv', NEW p \in Devices, NEW q \in Devices, Ban(p, q)
  PROVE  ModInv'
  <1>1. /\ Moved(p) /\ job[p].kind = "" /\ job'[p].kind = "ban" /\ job'[p].do = "save ban"
        /\ job'[p].at = {q} /\ job'[p].who = UserOf[q]
    BY OutJob, IdleJob DEF ModInv, KindInv, Began
  <1>2. /\ q \in members /\ members' = members /\ UNCHANGED outVars /\ raced \subseteq raced'
        /\ UserOf[q] \notin raced' => \A d \in Devices : UserOf[d] = UserOf[q] => job[d].do \notin JoinSteps
        /\ \A x : x # UserOf[q] => (x \in raced' <=> x \in raced)
    BY DEF Ban, Moderates
  <1>3. \A d \in Devices : d # p => /\ job'[d].do = job[d].do /\ job'[d].at = job[d].at
                                    /\ \A u : Bans(d, u)' <=> Bans(d, u)
    BY <1>1 DEF Moved, Kept, Bans
  <1>4. ASSUME NEW u \in Users \ raced' PROVE BanOfUser(u)'
    <2>1. BanOfUser(u)
      BY <1>2 DEF ModInv
    <2>2. Own(u)' = Own(u) /\ bans' = bans /\ ~Bans(p, u)
      BY <1>1, <1>2 DEF Own, Bans
    <2>3. CASE u # UserOf[q]
      <3>1. ~Bans(p, u)'
        BY <1>1, <2>3 DEF Bans
      <3>2. NoNearer(u)
        BY <1>1, <1>3, <2>2, <3>1 DEF NoNearer, JoinSteps
      <3> QED
        BY <2>1, <3>2, NoNearerKeeps
    <2>4. CASE u = UserOf[q]
      <3>1. \A d \in Devices : UserOf[d] = u => job'[d].do \notin JoinSteps
        BY <1>1, <1>2, <1>3, <2>4 DEF JoinSteps
      <3>2. Own(u) \subseteq {q}
        BY <1>2, <2>4 DEF Own, ModInv, OnceListed
      <3>3. ASSUME NEW d \in Devices, Bans(d, u)'
            PROVE  /\ job'[d].do \in { "save ban", "unlist" } => Own(u)' \subseteq job'[d].at
                   /\ job'[d].do = "clear" => Own(u)' = {}
        <4>1. CASE d = p
          BY <1>1, <2>2, <3>2, <4>1
        <4>2. CASE d # p
          BY <1>3, <2>1, <2>2, <3>3, <4>2 DEF BanOfUser
        <4> QED
          BY <4>1, <4>2
      <3>4. ASSUME u \in bans', \A d \in Devices : Bans(d, u)' => job'[d].do # "unlist"
            PROVE  Own(u)' = {}
        <4>1. \A d \in Devices : Bans(d, u) => job[d].do # "unlist"
          BY <1>3, <2>2, <3>4
        <4> QED
          BY <2>1, <2>2, <3>4, <4>1 DEF BanOfUser
      <3> QED
        BY <3>1, <3>3, <3>4 DEF BanOfUser
    <2> QED
      BY <2>3, <2>4
  <1>5. ASSUME NEW d \in Devices \ raced' PROVE SilentOf(d)'
    <2>1. SilentOf(d)
      BY <1>2 DEF ModInv
    <2>2. job'[d].do \in { "check uses", "enter" } => job[d].do \in { "check uses", "enter" }
      BY <1>1 DEF Moved, Kept
    <2> QED
      BY <1>2, <2>1, <2>2 DEF SilentOf
  <1>6. members' \subseteq Devices /\ OnceListed'
    BY <1>2 DEF ModInv, OnceListed
  <1> QED
    BY <1>4, <1>5, <1>6 DEF ModInv

LEMMA SaveBanBarred == ASSUME ModInv, KindInv', NEW p \in Devices, SaveBan(p) PROVE ModInv'
  <1>0. PICK w : w = job[p].who
    OBVIOUS
  <1>1. /\ Moved(p) /\ job[p].do = "save ban" /\ job[p].kind = "ban"
        /\ \/ /\ job'[p].do = "unlist" /\ bans' = bans \cup {w}
              /\ job'[p].kind = job[p].kind /\ job'[p].who = w /\ job'[p].at = job[p].at
           \/ job'[p].do = "idle" /\ job'[p].kind = "" /\ bans' = bans
    <2>1. CASE GoOn(p, "unlist") /\ bans' = bans \cup {w}
      <3>1. /\ Moved(p) /\ job'[p].do = "unlist"
            /\ job'[p].kind = job[p].kind /\ job'[p].who = w /\ job'[p].at = job[p].at
        BY <1>0, <2>1, GoOnJob DEF ModInv, KindInv
      <3> QED
        BY <2>1, <3>1 DEF SaveBan, ModInv, KindInv, Kinds
    <2>2. CASE Done(p) /\ bans' = bans
      <3>1. Moved(p) /\ job'[p].do = "idle" /\ job'[p].kind = ""
        BY <2>2, DoneJob, IdleJob DEF ModInv, KindInv
      <3> QED
        BY <2>2, <3>1 DEF SaveBan, ModInv, KindInv, Kinds
    <2> QED
      BY <1>0, <2>1, <2>2 DEF SaveBan
  <1>2. UNCHANGED << members, silenced, timeouts, raced >>
    BY DEF SaveBan
  <1>3. \A d \in Devices : d # p => /\ job'[d].do = job[d].do /\ job'[d].at = job[d].at
                                    /\ \A u : Bans(d, u)' <=> Bans(d, u)
    BY <1>1 DEF Moved, Kept, Bans
  <1>4. ASSUME NEW u \in Users \ raced' PROVE BanOfUser(u)'
    <2>1. BanOfUser(u)
      BY <1>2 DEF ModInv
    <2>2. Own(u)' = Own(u)
      BY <1>2 DEF Own
    <2>3. CASE u # w \/ job'[p].do = "idle"
      <3>1. ~Bans(p, u)' /\ (u \in bans' => u \in bans)
        BY <1>1, <2>3 DEF Bans
      <3>2. NoNearer(u)
        BY <1>1, <1>3, <2>2, <3>1 DEF NoNearer, JoinSteps
      <3> QED
        BY <2>1, <3>2, NoNearerKeeps
    <2>4. CASE u = w /\ job'[p].do # "idle"
      <3>0. /\ Bans(p, u) /\ Bans(p, u)' /\ job'[p].do = "unlist" /\ job'[p].at = job[p].at
        BY <1>0, <1>1, <2>4 DEF Bans
      <3>1. \A d \in Devices : UserOf[d] = u => job'[d].do \notin JoinSteps
        BY <1>3, <2>1, <3>0 DEF BanOfUser, JoinSteps
      <3>2. ASSUME NEW d \in Devices, Bans(d, u)'
            PROVE  /\ job'[d].do \in { "save ban", "unlist" } => Own(u)' \subseteq job'[d].at
                   /\ job'[d].do = "clear" => Own(u)' = {}
        <4>1. CASE d = p
          BY <1>1, <2>1, <2>2, <3>0, <4>1 DEF BanOfUser
        <4>2. CASE d # p
          BY <1>3, <2>1, <2>2, <3>2, <4>2 DEF BanOfUser
        <4> QED
          BY <4>1, <4>2
      <3> QED
        BY <3>0, <3>1, <3>2 DEF BanOfUser
    <2> QED
      BY <2>3, <2>4
  <1>5. ASSUME NEW d \in Devices \ raced' PROVE SilentOf(d)'
    <2>1. SilentOf(d)
      BY <1>2 DEF ModInv
    <2>2. job'[d].do \in { "check uses", "enter" } => job[d].do \in { "check uses", "enter" }
      BY <1>1 DEF Moved, Kept
    <2> QED
      BY <1>2, <2>1, <2>2 DEF SilentOf
  <1>6. members' \subseteq Devices /\ OnceListed'
    BY <1>2 DEF ModInv, OnceListed
  <1> QED
    BY <1>4, <1>5, <1>6 DEF ModInv

LEMMA UnbanBarred ==
  ASSUME ModInv, KindInv', NEW p \in Devices, NEW v \in Users, Unban(p, v)
  PROVE  ModInv'
  <1>1. /\ UNCHANGED << members, silenced, timeouts, job >> /\ bans' = bans \ {v}
        /\ \A x : x # v => (x \in raced' <=> x \in raced)
        /\ v \notin raced' => v \notin raced \/ \A d \in Devices : ~Bans(d, v)
    BY DEF Unban, AskOnce, Bans
  <1>2. ASSUME NEW u \in Users \ raced' PROVE BanOfUser(u)'
    <2>1. CASE u \notin raced
      <3>1. BanOfUser(u)
        BY <2>1 DEF ModInv
      <3> QED
        BY <1>1, <3>1 DEF BanOfUser, Bans, Own
    <2>2. CASE u \in raced
      <3>1. u = v /\ u \notin bans' /\ \A d \in Devices : ~Bans(d, u)'
        BY <1>1, <2>2 DEF Bans
      <3> QED
        BY <3>1 DEF BanOfUser
    <2> QED
      BY <2>1, <2>2
  <1>3. ASSUME NEW d \in Devices \ raced' PROVE SilentOf(d)'
    <2>1. d # v
      BY AccessAssumption DEF AccessAssumption
    <2>2. SilentOf(d)
      BY <1>1, <2>1 DEF ModInv
    <2> QED
      BY <1>1, <2>2 DEF SilentOf
  <1>4. members' \subseteq Devices /\ OnceListed'
    BY <1>1 DEF ModInv, OnceListed
  <1> QED
    BY <1>2, <1>3, <1>4 DEF ModInv

LEMMA SilenceBarred == ASSUME ModInv, KindInv', NEW p \in Devices, Silence(p) PROVE ModInv'
  <1>1. PICK q \in job[p].at :
          /\ silenced' = silenced \cup {q}
          /\ timeouts' = [ rows |-> timeouts.rows, tasks |-> timeouts.tasks \cup { UserOf[q] } ]
          /\ raced' = raced \cup { d \in Devices \ {q} :
                         UserOf[d] = UserOf[q] /\ (d \in members \/ job[d].do \in { "check uses", "enter" }) }
    BY DEF Silence
  <1>2. /\ Moved(p) /\ job[p].do = "silence" /\ job'[p].do = "idle"
        /\ job[p].kind # "ban" /\ job'[p].kind # "ban" /\ UNCHANGED << members, bans >>
    <2>1. Goes(p, { "silence" }, { "idle" }) /\ JobsOK
      BY ModerationGoes DEF ModInv, KindInv
    <2> QED
      BY <2>1, IdleJob DEF Goes, ModInv, KindInv, Kinds, Silence
  <1>3. ASSUME NEW u \in Users \ raced' PROVE BanOfUser(u)'
    <2>1. BanOfUser(u)
      BY <1>1 DEF ModInv
    <2>2. NoFurther(p, u) /\ Own(u)' \subseteq Own(u) /\ bans' = bans
      BY <1>2 DEF NoFurther, JoinSteps, Own
    <2>3. NoNearer(u)
      BY <1>2, <2>2, BanStill
    <2> QED
      BY <2>1, <2>3, NoNearerKeeps
  <1>4. ASSUME NEW d \in Devices \ raced' PROVE SilentOf(d)'
    <2>1. SilentOf(d)
      BY <1>1 DEF ModInv
    <2>2. job'[d].do \in { "check uses", "enter" } => job[d].do \in { "check uses", "enter" }
      BY <1>2 DEF Moved, Kept
    <2>3. UserOf[d] \in timeouts'.rows \cup timeouts'.tasks
            => UserOf[d] \in timeouts.rows \cup timeouts.tasks \/ UserOf[d] = UserOf[q]
      BY <1>1 DEF ModInv
    <2>4. CASE d = q
      BY <1>1, <2>4 DEF SilentOf
    <2>5. CASE d # q /\ UserOf[d] = UserOf[q]
      BY <1>1, <1>2, <2>2, <2>5 DEF SilentOf
    <2>6. CASE UserOf[d] # UserOf[q]
      BY <1>1, <1>2, <2>1, <2>2, <2>3, <2>6 DEF SilentOf
    <2> QED
      BY <2>4, <2>5, <2>6
  <1>5. members' \subseteq Devices /\ OnceListed'
    BY <1>2 DEF ModInv, OnceListed
  <1> QED
    BY <1>3, <1>4, <1>5 DEF ModInv

LEMMA StoreTimeoutBarred == ASSUME ModInv, KindInv', StoreTimeout PROVE ModInv'
  <1>1. /\ UNCHANGED << members, bans, silenced, job, raced >>
        /\ timeouts'.rows \cup timeouts'.tasks = timeouts.rows \cup timeouts.tasks
    BY DEF StoreTimeout
  <1>2. \A u \in Users \ raced' : BanOfUser(u)'
    BY <1>1 DEF ModInv, BanOfUser, Bans, Own
  <1>3. ASSUME NEW d \in Devices \ raced' PROVE SilentOf(d)'
    <2>1. SilentOf(d)
      BY <1>1 DEF ModInv
    <2> QED
      BY <1>1, <2>1 DEF SilentOf
  <1> QED
    BY <1>1, <1>2, <1>3 DEF ModInv, OnceListed

LEMMA RestartBarred == ASSUME ModInv, KindInv', Restart PROVE ModInv'
  <1>1. members' = {} /\ job' = [ d \in Devices |-> Idle ]
    BY DEF Restart
  <1>2. \A u : BanOfUser(u)'
    BY <1>1, IdleJob DEF BanOfUser, Bans, Own, JoinSteps
  <1>3. \A d \in Devices : SilentOf(d)'
    BY <1>1, IdleJob DEF SilentOf
  <1> QED
    BY <1>1, <1>2, <1>3 DEF ModInv, OnceListed

LEMMA InitMod == AccessInit => ModInv
  <1> SUFFICES ASSUME AccessInit PROVE ModInv
    OBVIOUS
  <1>1. /\ members = Present /\ job = [ d \in Devices |-> Idle ] /\ bans = {}
        /\ timeouts.rows = {} /\ timeouts.tasks = {}
    BY DEF AccessInit
  <1>2. \A u : BanOfUser(u)
    BY <1>1, IdleJob DEF BanOfUser, Bans, JoinSteps
  <1>3. \A d : SilentOf(d)
    BY <1>1 DEF SilentOf
  <1> QED
    BY <1>1, <1>2, <1>3, InitKinds, AccessAssumption DEF ModInv, OnceListed,
       AccessAssumption

LEMMA JoinModerated == ASSUME ModInv, KindInv', NEW p \in Devices, JoinStep(p) PROVE ModInv'
  <1>0. KindInv /\ JobsOK
    BY DEF ModInv, KindInv
  <1>1. CASE Leave(p)
    <2>1. Began(p, "leave", "unlist")
      BY <1>0, <1>1, OutJob
    <2>2. members' = members /\ UNCHANGED << outVars, raced >>
      BY <1>1 DEF Leave
    <2>3. Unbarred(p)
      BY <2>1, <2>2, BeganUnbarred DEF JoinSteps
    <2> QED
      BY <2>3, UnbarredKeeps
  <1> QED
    BY <1>0, <1>1, JoinBarred, CheckBanBarred, AdmitBarred, EnterBarred,
       ReconnectBarred, RemoveBarred,
       RefreshUnbarred, UnbarredKeeps DEF JoinStep

LEMMA Moderated ==
  ASSUME ModInv, KindInv', NEW p \in Devices, ModerationStep(p)
  PROVE  ModInv'
  <1>0. KindInv /\ JobsOK
    BY DEF ModInv, KindInv
  <1>1. ASSUME NEW q \in Devices, Kick(p, q) PROVE ModInv'
    <2>1. Began(p, "kick", "unlist")
      BY <1>0, <1>1, OutJob
    <2>2. members' = members /\ UNCHANGED << outVars, raced >>
      BY <1>1 DEF Kick
    <2>3. Unbarred(p)
      BY <2>1, <2>2, BeganUnbarred DEF JoinSteps
    <2> QED
      BY <2>3, UnbarredKeeps
  <1>2. ASSUME NEW q \in Devices, Timeout(p, q) PROVE ModInv'
    <2>1. Began(p, "timeout", "silence")
      BY <1>0, <1>2, OutJob
    <2>2. members' = members /\ UNCHANGED << outVars, raced >>
      BY <1>2 DEF Timeout
    <2>3. Unbarred(p)
      BY <2>1, <2>2, BeganUnbarred DEF JoinSteps
    <2> QED
      BY <2>3, UnbarredKeeps
  <1>3. ASSUME NEW max, SetInvite(p, max) PROVE ModInv'
    BY <1>3, SameBarred DEF SetInvite, AskOnce
  <1> QED
    BY <1>1, <1>2, <1>3, BanBarred, SaveBanBarred, SilenceBarred,
       UnbanBarred DEF ModerationStep

(* After a ban is through no connection of the user is a member, and a     *)
(* member whose timeout was stored is silenced also after it came back:    *)
(* unless the user was joining while it was moderated.                     *)
THEOREM ModerationStands == AccessSpec => []ModerationHolds
  <1>1. ModInv /\ [AccessNext]_accessVars => ModInv'
    <2> SUFFICES ASSUME ModInv, [AccessNext]_accessVars PROVE ModInv'
      OBVIOUS
    <2>0. KindInv /\ KindInv'
      BY KindsKept DEF ModInv
    <2>1. ASSUME NEW p \in Devices, RoleStep(p) PROVE ModInv'
      BY <2>0, <2>1, RoleUnbarred, UnbarredKeeps
    <2>2. CASE CountUse \/ UNCHANGED accessVars
      BY <2>0, <2>2, SameBarred DEF CountUse, accessVars
    <2> QED
      BY <2>0, <2>1, <2>2, JoinModerated, Moderated, StoreTimeoutBarred,
         RestartBarred DEF AccessNext
  <1>2. ModInv => ModerationHolds
    <2> SUFFICES ASSUME ModInv PROVE ModerationHolds
      OBVIOUS
    <2>1. ASSUME NEW u \in bans \ raced, u \in Users,
                 \A p \in Devices : job[p].kind = "ban" => job[p].who # u
          PROVE  \A q \in members : UserOf[q] # u
      <3>1. \A d \in Devices : ~Bans(d, u)
        BY <2>1 DEF Bans
      <3> QED
        BY <2>1, <3>1 DEF ModInv, BanOfUser, Own
    <2>2. \A u : u \notin Users => \A q \in members : UserOf[q] # u
      BY UserIs DEF ModInv
    <2>3. \A q \in members \ raced : UserOf[q] \in timeouts.rows => q \in silenced
      BY DEF ModInv, SilentOf
    <2> QED
      BY <2>1, <2>2, <2>3 DEF ModerationHolds
  <1> QED
    BY <1>1, <1>2, InitMod, PTL DEF AccessSpec

-----------------------------------------------------------------------------
(* The permission caches. *)

(* The roles of a user, and what it may do by them. *)
Roles(u) == { r \in DOMAIN catalogue : << r, u >> \in holds }

LEMMA SamePerms ==
  ASSUME NEW u, Roles(u)' = Roles(u), \A r \in Roles(u) : catalogue'[r] = catalogue[r]
  PROVE  PermsOf(u)' = PermsOf(u)
  <1>1. \A x : x \in Effective(u) <=> x \in Bundle("member") \/ \E r \in Roles(u) : x \in catalogue[r]
    BY DEF Effective, Roles
  <1>2. \A x : x \in Effective(u)' <=> x \in Bundle("member") \/ \E r \in Roles(u)' : x \in catalogue'[r]
    BY DEF Effective, Roles
  <1>3. Effective(u)' = Effective(u)
    <2>1. \A x : x \in Effective(u)' <=> x \in Effective(u)
      BY <1>1, <1>2
    <2>2. /\ Effective(u) = Bundle("member") \cup UNION { catalogue[r] : r \in { s \in DOMAIN catalogue : << s, u >> \in holds } }
          /\ Effective(u)' = Bundle("member") \cup UNION { catalogue'[r] : r \in { s \in DOMAIN catalogue' : << s, u >> \in holds' } }
      BY DEF Effective
    <2> QED
      BY <2>1, <2>2
  <1> QED
    BY <1>3 DEF PermsOf

LEMMA KeptPerms ==
  ASSUME UNCHANGED << catalogue, holds >>, NEW u
  PROVE  PermsOf(u)' = PermsOf(u)
  BY DEF PermsOf, Effective

(* What the caches wait for: a computation that is yet to read, or has     *)
(* read what holds now; and one that has read something else.              *)
Stale(d) == job[d].stale = TRUE

Computes(d, q) == job[d].do \in { "load", "store" } /\ q \in job[d].at

Due(d, q) ==
    \/ job[d].do \in { "give", "list user" } /\ job[d].who = UserOf[q]
    \/ job[d].do = "list space"
    \/ job[d].do \in { "refresh", "load", "store" } /\ q \in job[d].todo
    \/ job[d].do = "load" /\ q \in job[d].at
    \/ job[d].do = "store" /\ q \in job[d].at /\ job[d].bits = PermsOf(UserOf[q])

Old(d, q) == job[d].do = "store" /\ q \in job[d].at /\ job[d].bits # PermsOf(UserOf[q])

Amends(d, q) == Due(d, q) \/ (Old(d, q) /\ Stale(d))

CacheOf(q) ==
    /\ q \notin lapsed /\ q \in inSpace /\ q \in members =>
         mask[q] = PermsOf(UserOf[q]) \/ \E d \in Devices : Amends(d, q)
    /\ q \notin lapsed /\ q \notin inSpace => mask[q] = {}
    /\ q \in members =>
         \A d \in Devices : Old(d, q) /\ ~Stale(d) => \E e \in Devices \ {d} : Amends(e, q)
    /\ \A d \in Devices : Computes(d, q) /\ ~Stale(d) => q \in inSpace

(* A role that is being created is nobody's yet. *)
Creates(d) == job[d].kind = "create" /\ job[d].do = "write def"

Unborn(d) ==
    /\ job[d].role \in CustomRoles /\ job[d].role \notin DOMAIN catalogue
    /\ \A u \in Users : << job[d].role, u >> \notin holds
    /\ \A e \in Devices \ {d} : job[e].role = job[d].role => job[e].do \notin { "write def", "hold" }

Births == \A d \in Devices : Creates(d) => Unborn(d)

(* One cache is computed at a time. *)
Single(b) == b.do \in { "load", "store" } => \A x, y \in b.at : x = y

Caches ==
    /\ mask = [ q \in Devices |-> mask[q] ]
    /\ \A d \in Devices : Single(job[d])
    /\ \A q \in Devices : CacheOf(q)

CacheInv == KindInv /\ Caches /\ Births

-----------------------------------------------------------------------------
(* What the other handlers are for the cache of q stays. *)
Beside(p, q) ==
    \A d \in Devices \ {p} : Kept(d) /\ (Computes(d, q) => job'[d].stale = job[d].stale)

SameCache(q) ==
    /\ mask'[q] = mask[q]
    /\ q \in inSpace' <=> q \in inSpace
    /\ q \in lapsed' <=> q \in lapsed

(* A step of p that passes on what is due. *)
PassesOn(p, q) ==
    /\ Beside(p, q) /\ SameCache(q)
    /\ PermsOf(UserOf[q])' = PermsOf(UserOf[q])
    /\ q \in members' => q \in members /\ (Amends(p, q) => Amends(p, q)')
    /\ Old(p, q)' /\ ~Stale(p)' => Old(p, q) /\ ~Stale(p)
    /\ Computes(p, q)' /\ ~Stale(p)' => q \in inSpace

LEMMA BesideSame ==
  ASSUME NEW p \in Devices, NEW q \in Devices, Beside(p, q), PermsOf(UserOf[q])' = PermsOf(UserOf[q]),
         NEW d \in Devices \ {p}
  PROVE  /\ Due(d, q)' <=> Due(d, q)
         /\ Old(d, q)' <=> Old(d, q)
         /\ Computes(d, q)' <=> Computes(d, q)
         /\ Computes(d, q) => (Stale(d)' <=> Stale(d))
         /\ Amends(d, q)' <=> Amends(d, q)
  <1>1. Kept(d) /\ (Computes(d, q) => job'[d].stale = job[d].stale)
    BY DEF Beside
  <1>2. Due(d, q)' <=> Due(d, q)
    BY <1>1 DEF Due, Kept
  <1>3. Old(d, q)' <=> Old(d, q)
    BY <1>1 DEF Old, Kept
  <1>4. /\ Computes(d, q)' <=> Computes(d, q)
        /\ Computes(d, q) => (Stale(d)' <=> Stale(d))
    BY <1>1 DEF Computes, Kept, Stale
  <1>5. Old(d, q) => Computes(d, q)
    BY DEF Old, Computes
  <1> QED
    BY <1>2, <1>3, <1>4, <1>5 DEF Amends

LEMMA PassesOnKeeps ==
  ASSUME NEW p \in Devices, NEW q \in Devices, CacheOf(q), PassesOn(p, q)
  PROVE  CacheOf(q)'
  <1>0. /\ Beside(p, q) /\ SameCache(q) /\ PermsOf(UserOf[q])' = PermsOf(UserOf[q])
    BY DEF PassesOn
  <1>1. ASSUME NEW d \in Devices, d # p
        PROVE  /\ Old(d, q)' <=> Old(d, q)
               /\ Computes(d, q)' <=> Computes(d, q)
               /\ Computes(d, q) => (Stale(d)' <=> Stale(d))
               /\ Amends(d, q)' <=> Amends(d, q)
               /\ Old(d, q) => Computes(d, q)
    BY <1>0, <1>1, BesideSame DEF Old, Computes
  <1>2. q \in members' => q \in members /\ \A d \in Devices : Amends(d, q) => Amends(d, q)'
    BY <1>1 DEF PassesOn
  <1>3. ASSUME q \notin lapsed', q \in inSpace', q \in members'
        PROVE  mask'[q] = PermsOf(UserOf[q])' \/ \E d \in Devices : Amends(d, q)'
    BY <1>0, <1>2, <1>3 DEF CacheOf, SameCache
  <1>4. q \notin lapsed' /\ q \notin inSpace' => mask'[q] = {}
    BY <1>0 DEF CacheOf, SameCache
  <1>5. ASSUME q \in members', NEW d \in Devices, Old(d, q)', ~Stale(d)'
        PROVE  \E e \in Devices \ {d} : Amends(e, q)'
    <2>1. Old(d, q) /\ ~Stale(d)
      BY <1>1, <1>5 DEF PassesOn
    <2> QED
      BY <1>2, <1>5, <2>1 DEF CacheOf
  <1>6. ASSUME NEW d \in Devices, Computes(d, q)', ~Stale(d)' PROVE q \in inSpace'
    <2>1. CASE d = p
      BY <1>0, <1>6, <2>1 DEF PassesOn, SameCache
    <2>2. CASE d # p
      BY <1>0, <1>1, <1>6, <2>2 DEF CacheOf, SameCache
    <2> QED
      BY <2>1, <2>2
  <1> QED
    BY <1>3, <1>4, <1>5, <1>6 DEF CacheOf

(* A step of p after which p is to compute the cache. *)
TakesUp(p, q) ==
    /\ Beside(p, q)
    /\ Due(p, q)' /\ job'[p].do \notin { "load", "store" }
    /\ q \in inSpace => q \in inSpace'
    /\ q \notin inSpace' /\ q \notin lapsed' => q \notin lapsed /\ mask'[q] = mask[q]

LEMMA TakesUpKeeps ==
  ASSUME NEW p \in Devices, NEW q \in Devices, CacheOf(q), TakesUp(p, q)
  PROVE  CacheOf(q)'
  <1>1. Amends(p, q)' /\ ~Old(p, q)' /\ ~Computes(p, q)'
    BY DEF TakesUp, Amends, Old, Computes
  <1>2. ASSUME NEW d \in Devices, Computes(d, q)', ~Stale(d)' PROVE q \in inSpace'
    <2>1. d # p
      BY <1>1, <1>2
    <2>2. Computes(d, q) /\ ~Stale(d)
      BY <1>2, <2>1 DEF TakesUp, Beside, Kept, Computes, Stale
    <2> QED
      BY <2>2 DEF CacheOf, TakesUp
  <1>3. \A d \in Devices : Old(d, q)' => p \in Devices \ {d}
    BY <1>1
  <1>4. q \notin lapsed' /\ q \notin inSpace' => mask'[q] = {}
    BY DEF CacheOf, TakesUp
  <1> QED
    BY <1>1, <1>2, <1>3, <1>4 DEF CacheOf

(* A step of p that empties the cache of a connection that has no space.   *)
Empties(p, q) ==
    /\ q \notin inSpace' /\ mask'[q] = {}
    /\ job'[p].do \notin { "load", "store" }
    /\ \A d \in Devices \ {p} : Kept(d) /\ (Computes(d, q) => job'[d].stale = TRUE)

LEMMA EmptiesKeeps ==
  ASSUME NEW p \in Devices, NEW q \in Devices, Empties(p, q)
  PROVE  CacheOf(q)'
  <1>1. \A d \in Devices : Computes(d, q)' => Stale(d)'
    BY DEF Empties, Computes, Stale, Kept
  <1>2. \A d \in Devices : Old(d, q)' => Computes(d, q)'
    BY DEF Old, Computes
  <1> QED
    BY <1>1, <1>2 DEF CacheOf, Empties

WorkSteps == { "give", "list user", "list space", "refresh", "load", "store" }

LEMMA SinglesKept ==
  ASSUME Caches, NEW p \in Devices, Moved(p), Single(job'[p]), NEW d \in Devices
  PROVE  Single(job'[d])
  <1>1. CASE d = p
    BY <1>1
  <1>2. CASE d # p
    BY <1>2 DEF Caches, Single, Moved, Kept
  <1> QED
    BY <1>1, <1>2

LEMMA CachesKept ==
  ASSUME Caches, NEW p \in Devices, Moved(p), Single(job'[p]),
         mask' = mask \/ \E q, x : mask' = [ mask EXCEPT ![q] = x ],
         \A q \in Devices : CacheOf(q)'
  PROVE  Caches'
  <1>1. mask' = [ q \in Devices |-> mask'[q] ]
    BY DEF Caches
  <1>2. \A d \in Devices : Single(job'[d])
    BY SinglesKept
  <1> QED
    BY <1>1, <1>2 DEF Caches

LEMMA BirthsKept ==
  ASSUME Births, NEW p \in Devices, Moved(p), job'[p].do \notin { "write def", "hold" },
         DOMAIN catalogue' \subseteq DOMAIN catalogue, holds' \subseteq holds
  PROVE  Births'
  <1>1. ASSUME NEW d \in Devices, Creates(d)' PROVE Unborn(d)'
    <2>1. d # p /\ job'[d].role = job[d].role /\ Creates(d)
      BY <1>1 DEF Creates, Moved, Kept
    <2>2. Unborn(d)
      BY <2>1 DEF Births
    <2>3. \A e \in Devices \ {d} : job'[e].role = job'[d].role => job'[e].do \notin { "write def", "hold" }
      BY <2>1, <2>2 DEF Unborn, Moved, Kept
    <2> QED
      BY <2>1, <2>2, <2>3 DEF Unborn
  <1> QED
    BY <1>1 DEF Births

(* A step of p that is no matter of the caches. *)
Calm(p) ==
    /\ Moved(p) /\ Alone(p)
    /\ job[p].do \notin WorkSteps /\ job'[p].do \notin { "load", "store" }
    /\ members' \subseteq members
    /\ UNCHANGED << inSpace, mask, lapsed, roleVars >>

LEMMA CalmKeeps == ASSUME Caches, NEW p \in Devices, Calm(p) PROVE Caches'
  <1>1. ASSUME NEW q \in Devices PROVE PassesOn(p, q)
    <2>1. ~Amends(p, q) /\ ~Old(p, q)' /\ ~Computes(p, q)'
      BY DEF Calm, WorkSteps, Amends, Due, Old, Computes
    <2>2. PermsOf(UserOf[q])' = PermsOf(UserOf[q])
      BY KeptPerms DEF Calm
    <2>3. Beside(p, q)
      BY DEF Calm, Beside, Moved, Alone
    <2> QED
      BY <2>1, <2>2, <2>3 DEF Calm, PassesOn, SameCache
  <1>2. \A q \in Devices : CacheOf(q)'
    BY <1>1, PassesOnKeeps DEF Caches
  <1> QED
    BY <1>2, CachesKept DEF Calm, Single

LEMMA CalmHolds ==
  ASSUME CacheInv, KindInv', NEW p \in Devices, Calm(p), job'[p].do \notin { "write def", "hold" }
  PROVE  CacheInv'
  BY CalmKeeps, BirthsKept DEF CacheInv, Calm

LEMMA BeganHolds ==
  ASSUME CacheInv, KindInv', NEW p \in Devices, NEW kind, NEW x, Began(p, kind, x),
         x \notin { "load", "store", "write def", "hold" }, UNCHANGED << members, inSpace, mask, lapsed, roleVars >>
  PROVE  CacheInv'
  <1>1. job[p].do = "idle"
    BY IdleJob DEF Began
  <1>2. Calm(p) /\ job'[p].do = x
    BY <1>1 DEF Began, Calm, WorkSteps
  <1> QED
    BY <1>2, CalmHolds

LEMMA GoesHolds ==
  ASSUME CacheInv, KindInv', NEW p \in Devices, NEW from, NEW to, Goes(p, from, to), Alone(p),
         from \cap WorkSteps = {}, to \cap { "load", "store", "write def", "hold" } = {},
         members' \subseteq members, UNCHANGED << inSpace, mask, lapsed, roleVars >>
  PROVE  CacheInv'
  <1>1. Calm(p) /\ job'[p].do \notin { "write def", "hold" }
    BY DEF Goes, Calm
  <1> QED
    BY <1>1, CalmHolds

LEMMA SameHolds ==
  ASSUME CacheInv, KindInv', UNCHANGED << members, inSpace, mask, lapsed, roleVars, job >>
  PROVE  CacheInv'
  <1>1. \A u : PermsOf(u)' = PermsOf(u)
    BY KeptPerms
  <1>2. ASSUME NEW q \in Devices PROVE CacheOf(q)'
    <2>1. PassesOn(q, q)
      <3>1. Beside(q, q)
        BY DEF Beside, Kept
      <3>2. /\ Amends(q, q)' <=> Amends(q, q)
            /\ Old(q, q)' <=> Old(q, q)
            /\ Stale(q)' <=> Stale(q)
            /\ Computes(q, q)' <=> Computes(q, q)
        BY <1>1 DEF Amends, Due, Old, Stale, Computes
      <3> QED
        BY <1>1, <3>1, <3>2 DEF PassesOn, SameCache, CacheInv, Caches, CacheOf
    <2> QED
      BY <2>1, PassesOnKeeps DEF CacheInv, Caches
  <1>3. Births'
    BY DEF CacheInv, Births, Creates, Unborn
  <1> QED
    BY <1>2, <1>3 DEF CacheInv, Caches, Single

LEMMA AloneStep ==
  ASSUME JobsOK, NEW p \in Devices, Done(p) \/ \E x : GoOn(p, x)
  PROVE  Alone(p)
  BY DoneJob, GoOnJob

LEMMA JoinCalm ==
  ASSUME CacheInv, KindInv', NEW p \in Devices,
         Join(p) \/ CheckBan(p) \/ RestoreTimeout(p) \/ CheckInvite(p) \/ Leave(p) \/ Unlist(p) \/ Reconnect(p)
  PROVE  CacheInv'
  <1>0. JobsOK
    BY DEF CacheInv, KindInv
  <1>1. CASE CheckBan(p)
    <2>1. Goes(p, { "check ban" }, { "idle", "check timeout" }) /\ Alone(p)
      BY <1>0, <1>1, JoinGoes, AloneStep DEF CheckBan
    <2>2. members' \subseteq members /\ UNCHANGED << inSpace, mask, lapsed, roleVars >>
      BY <1>1 DEF CheckBan
    <2> QED
      BY <2>1, <2>2, GoesHolds DEF WorkSteps
  <1>2. CASE RestoreTimeout(p)
    <2>1. Goes(p, { "check timeout" }, { "check uses" }) /\ Alone(p)
      BY <1>0, <1>2, JoinGoes, AloneStep DEF RestoreTimeout
    <2>2. members' \subseteq members /\ UNCHANGED << inSpace, mask, lapsed, roleVars >>
      BY <1>2 DEF RestoreTimeout
    <2> QED
      BY <2>1, <2>2, GoesHolds DEF WorkSteps
  <1>3. CASE CheckInvite(p)
    <2>1. Goes(p, { "check uses" }, { "idle", "enter" }) /\ Alone(p)
      BY <1>0, <1>3, JoinGoes, AloneStep DEF CheckInvite
    <2>2. members' \subseteq members /\ UNCHANGED << inSpace, mask, lapsed, roleVars >>
      BY <1>3 DEF CheckInvite
    <2> QED
      BY <2>1, <2>2, GoesHolds DEF WorkSteps
  <1>4. CASE Unlist(p)
    <2>1. Goes(p, { "unlist" }, { "clear" }) /\ Alone(p)
      BY <1>0, <1>4, JoinGoes, AloneStep DEF Unlist
    <2>2. members' \subseteq members /\ UNCHANGED << inSpace, mask, lapsed, roleVars >>
      BY <1>4 DEF Unlist
    <2> QED
      BY <2>1, <2>2, GoesHolds DEF WorkSteps
  <1>5. ASSUME Join(p) PROVE CacheInv'
    <2>1. Began(p, "join", "check ban")
      BY <1>0, <1>5, JoinJob
    <2>2. UNCHANGED << members, inSpace, mask, lapsed, roleVars >>
      BY <1>5 DEF Join
    <2> QED
      BY <2>1, <2>2, BeganHolds
  <1>6. ASSUME Leave(p) PROVE CacheInv'
    <2>1. Began(p, "leave", "unlist")
      BY <1>0, <1>6, OutJob
    <2>2. UNCHANGED << members, inSpace, mask, lapsed, roleVars >>
      BY <1>6 DEF Leave
    <2> QED
      BY <2>1, <2>2, BeganHolds
  <1>7. CASE Reconnect(p)
    BY <1>7, SameHolds DEF Reconnect
  <1> QED
    BY <1>1, <1>2, <1>3, <1>4, <1>5, <1>6, <1>7

LEMMA ModerationCalm ==
  ASSUME CacheInv, KindInv', NEW p \in Devices, ModerationStep(p)
  PROVE  CacheInv'
  <1>0. JobsOK
    BY DEF CacheInv, KindInv
  <1>1. CASE SaveBan(p)
    <2>1. Goes(p, { "save ban" }, { "idle", "unlist" }) /\ Alone(p)
      BY <1>0, <1>1, ModerationGoes, AloneStep DEF SaveBan
    <2>2. members' \subseteq members /\ UNCHANGED << inSpace, mask, lapsed, roleVars >>
      BY <1>1 DEF SaveBan
    <2> QED
      BY <2>1, <2>2, GoesHolds DEF WorkSteps
  <1>2. CASE Silence(p)
    <2>1. Goes(p, { "silence" }, { "idle" }) /\ Alone(p)
      BY <1>0, <1>2, ModerationGoes, AloneStep DEF Silence
    <2>2. members' \subseteq members /\ UNCHANGED << inSpace, mask, lapsed, roleVars >>
      BY <1>2 DEF Silence
    <2> QED
      BY <2>1, <2>2, GoesHolds DEF WorkSteps
  <1>3. ASSUME NEW q \in Devices, Kick(p, q) PROVE CacheInv'
    <2>1. Began(p, "kick", "unlist")
      BY <1>0, <1>3, OutJob
    <2>2. UNCHANGED << members, inSpace, mask, lapsed, roleVars >>
      BY <1>3 DEF Kick
    <2> QED
      BY <2>1, <2>2, BeganHolds
  <1>4. ASSUME NEW q \in Devices, Ban(p, q) PROVE CacheInv'
    <2>1. Began(p, "ban", "save ban")
      BY <1>0, <1>4, OutJob
    <2>2. UNCHANGED << members, inSpace, mask, lapsed, roleVars >>
      BY <1>4 DEF Ban
    <2> QED
      BY <2>1, <2>2, BeganHolds
  <1>5. ASSUME NEW q \in Devices, Timeout(p, q) PROVE CacheInv'
    <2>1. Began(p, "timeout", "silence")
      BY <1>0, <1>5, OutJob
    <2>2. UNCHANGED << members, inSpace, mask, lapsed, roleVars >>
      BY <1>5 DEF Timeout
    <2> QED
      BY <2>1, <2>2, BeganHolds
  <1>6. ASSUME NEW u, Unban(p, u) PROVE CacheInv'
    BY <1>6, SameHolds DEF Unban, AskOnce
  <1>7. ASSUME NEW max, SetInvite(p, max) PROVE CacheInv'
    BY <1>7, SameHolds DEF SetInvite, AskOnce
  <1> QED
    BY <1>1, <1>2, <1>3, <1>4, <1>5, <1>6, <1>7 DEF ModerationStep

LEMMA RoleCalm ==
  ASSUME CacheInv, KindInv', NEW p \in Devices,
         \/ \E u \in Users, t \in Tiers : SetTier(p, u, t)
         \/ CommitTier(p) \/ SaveTier(p) \/ RoleWriteFails(p)
         \/ \E r, patch, bits : UpdateRole(p, r, patch, bits)
         \/ \E r : DeleteRole(p, r) \/ \E u \in Users : AssignRole(p, r, u) \/ UnassignRole(p, r, u)
  PROVE  CacheInv'
  <1>0. JobsOK
    BY DEF CacheInv, KindInv
  <1>1. CASE CommitTier(p)
    <2>1. Goes(p, { "tier" }, { "idle", "tier row" }) /\ Alone(p)
      BY <1>0, <1>1, TierGoes, AloneStep DEF CommitTier
    <2>2. members' \subseteq members /\ UNCHANGED << inSpace, mask, lapsed, roleVars >>
      BY <1>1 DEF CommitTier
    <2> QED
      BY <2>1, <2>2, GoesHolds DEF WorkSteps
  <1>2. CASE SaveTier(p)
    <2>1. Goes(p, { "tier row" }, { "strip" }) /\ Alone(p)
      BY <1>0, <1>2, TierGoes, AloneStep DEF SaveTier
    <2>2. members' \subseteq members /\ UNCHANGED << inSpace, mask, lapsed, roleVars >>
      BY <1>2 DEF SaveTier
    <2> QED
      BY <2>1, <2>2, GoesHolds DEF WorkSteps
  <1>3. CASE RoleWriteFails(p)
    <2>1. /\ Goes(p, { "write def", "hold", "delete def", "unhold" }, { "idle", "list space", "list user" })
          /\ Alone(p)
      BY <1>0, <1>3, RoleGoes, AloneStep DEF RoleWriteFails
    <2>2. members' \subseteq members /\ UNCHANGED << inSpace, mask, lapsed, roleVars >>
      BY <1>3 DEF RoleWriteFails
    <2> QED
      BY <2>1, <2>2, GoesHolds DEF WorkSteps
  <1>4. ASSUME NEW u \in Users, NEW t \in Tiers, SetTier(p, u, t) PROVE CacheInv'
    <2>1. Began(p, "tier", "tier")
      BY <1>0, <1>4, SetTierJob
    <2>2. UNCHANGED << members, inSpace, mask, lapsed, roleVars >>
      BY <1>4 DEF SetTier
    <2> QED
      BY <2>1, <2>2, BeganHolds
  <1>5. ASSUME NEW r, NEW patch, NEW bits, UpdateRole(p, r, patch, bits) PROVE CacheInv'
    <2>1. Began(p, "update", "read def")
      BY <1>0, <1>5, RolesJob
    <2>2. UNCHANGED << members, inSpace, mask, lapsed, roleVars >>
      BY <1>5 DEF UpdateRole
    <2> QED
      BY <2>1, <2>2, BeganHolds
  <1>6. ASSUME NEW r, DeleteRole(p, r) PROVE CacheInv'
    <2>1. Began(p, "delete", "read def")
      BY <1>0, <1>6, RolesJob
    <2>2. UNCHANGED << members, inSpace, mask, lapsed, roleVars >>
      BY <1>6 DEF DeleteRole
    <2> QED
      BY <2>1, <2>2, BeganHolds
  <1>7. ASSUME NEW r, NEW u \in Users, AssignRole(p, r, u) PROVE CacheInv'
    <2>1. Began(p, "assign", "read def")
      BY <1>0, <1>7, RolesJob
    <2>2. UNCHANGED << members, inSpace, mask, lapsed, roleVars >>
      BY <1>7 DEF AssignRole
    <2> QED
      BY <2>1, <2>2, BeganHolds
  <1>8. ASSUME NEW r, NEW u \in Users, UnassignRole(p, r, u) PROVE CacheInv'
    <2>1. Began(p, "unassign", "unhold")
      BY <1>0, <1>8, RolesJob
    <2>2. UNCHANGED << members, inSpace, mask, lapsed, roleVars >>
      BY <1>8 DEF UnassignRole
    <2> QED
      BY <2>1, <2>2, BeganHolds
  <1> QED
    BY <1>1, <1>2, <1>3, <1>4, <1>5, <1>6, <1>7, <1>8

(* The cache of x is set by p: whoever computes it has an old one. *)
Overtakes(p, x) ==
    \A d \in Devices \ {p} :
       /\ job[d].do \in { "load", "store" } /\ x \in job[d].at => job'[d].stale = TRUE
       /\ ~(job[d].do \in { "load", "store" } /\ x \in job[d].at) => job'[d] = job[d]

LEMMA OvertakesBeside ==
  ASSUME Caches, NEW p \in Devices, Moved(p), NEW x, Overtakes(p, x), NEW q \in Devices, q # x
  PROVE  Beside(p, q)
  <1>1. ASSUME NEW d \in Devices \ {p}, Computes(d, q) PROVE job'[d] = job[d]
    <2>1. x \notin job[d].at
      BY <1>1 DEF Computes, Caches, Single
    <2> QED
      BY <2>1 DEF Overtakes
  <1> QED
    BY <1>1 DEF Beside, Moved

LEMMA AloneBeside == ASSUME NEW p, Moved(p), Alone(p), NEW q PROVE Beside(p, q)
  BY DEF Moved, Alone, Beside

LEMMA ListHolds ==
  ASSUME CacheInv, KindInv', NEW p \in Devices, ListUser(p) \/ ListSpace(p) \/ Refreshed(p)
  PROVE  CacheInv'
  <1>0. JobsOK
    BY DEF CacheInv, KindInv
  <1>1. UNCHANGED << members, inSpace, mask, lapsed, roleVars >>
    BY DEF ListUser, ListSpace, Refreshed
  <1>2. /\ Moved(p) /\ Alone(p) /\ job'[p].do \in { "refresh", "idle" }
        /\ \A q \in Devices \cap members : Due(p, q) => Due(p, q)'
        /\ job[p].do # "store"
    <2>1. CASE ListUser(p)
      <3>1. /\ Moved(p) /\ Alone(p) /\ job[p].do = "list user" /\ job'[p].do = "refresh"
            /\ job'[p].todo = { q \in members : UserOf[q] = job[p].who }
        BY <1>0, <2>1, ListJob
      <3> QED
        BY <3>1 DEF Due
    <2>2. CASE ListSpace(p)
      <3>1. /\ Moved(p) /\ Alone(p) /\ job[p].do = "list space" /\ job'[p].do = "refresh"
            /\ job'[p].todo = members
        BY <1>0, <2>2, ListJob
      <3> QED
        BY <3>1 DEF Due
    <2>3. CASE Refreshed(p)
      <3>1. /\ Moved(p) /\ Alone(p) /\ job[p].do = "refresh" /\ job'[p].do = "idle"
            /\ job[p].todo = {}
        BY <1>0, <2>3, DoneJob, IdleJob DEF Refreshed
      <3> QED
        BY <3>1 DEF Due
    <2> QED
      BY <2>1, <2>2, <2>3
  <1>3. ASSUME NEW q \in Devices PROVE CacheOf(q)'
    <2>1. ~Old(p, q) /\ ~Old(p, q)' /\ ~Computes(p, q)'
      BY <1>2 DEF Old, Computes
    <2>2. Beside(p, q) /\ PermsOf(UserOf[q])' = PermsOf(UserOf[q])
      BY <1>1, <1>2, AloneBeside, KeptPerms
    <2>3. q \in members' => q \in members /\ (Amends(p, q) => Amends(p, q)')
      BY <1>1, <1>2, <2>1 DEF Amends
    <2>4. PassesOn(p, q)
      BY <1>1, <2>1, <2>2, <2>3 DEF PassesOn, SameCache
    <2> QED
      BY <2>4, PassesOnKeeps DEF CacheInv, Caches
  <1>4. Caches'
    BY <1>1, <1>2, <1>3, CachesKept DEF CacheInv, Single
  <1>5. Births'
    BY <1>1, <1>2, BirthsKept DEF CacheInv
  <1> QED
    BY <1>4, <1>5 DEF CacheInv

LEMMA LoadHolds ==
  ASSUME CacheInv, KindInv', NEW p \in Devices, LoadPerms(p)
  PROVE  CacheInv'
  <1>0. JobsOK
    BY DEF CacheInv, KindInv
  <1>1. UNCHANGED << members, inSpace, mask, lapsed, roleVars >>
    BY DEF LoadPerms
  <1>2. PICK x \in job[p].at :
          /\ Moved(p) /\ Alone(p) /\ job[p].do = "load" /\ job'[p].do = "store"
          /\ job'[p].at = job[p].at /\ job'[p].todo = job[p].todo /\ job'[p].stale = job[p].stale
          /\ job'[p].bits = PermsOf(UserOf[x])
    BY <1>0, LoadJob
  <1>3. \A q \in job[p].at : q = x
    BY <1>2 DEF CacheInv, Caches, Single
  <1>4. ASSUME NEW q \in Devices PROVE CacheOf(q)'
    <2>1. Beside(p, q) /\ PermsOf(UserOf[q])' = PermsOf(UserOf[q])
      BY <1>1, <1>2, AloneBeside, KeptPerms
    <2>2. ~Old(p, q) /\ ~Old(p, q)'
      BY <1>2, <1>3, <2>1 DEF Old
    <2>3. Due(p, q) => Due(p, q)'
      BY <1>2, <1>3, <2>1 DEF Due
    <2>4. Computes(p, q)' /\ ~Stale(p)' => q \in inSpace
      BY <1>2 DEF Computes, Stale, CacheInv, Caches, CacheOf
    <2>5. PassesOn(p, q)
      BY <1>1, <2>1, <2>2, <2>3, <2>4 DEF PassesOn, SameCache, Amends
    <2> QED
      BY <2>5, PassesOnKeeps DEF CacheInv, Caches
  <1>5. Caches'
    <2>1. Single(job'[p])
      BY <1>2, <1>3 DEF Single
    <2> QED
      BY <1>1, <1>2, <1>4, <2>1, CachesKept DEF CacheInv
  <1>6. Births'
    BY <1>1, <1>2, BirthsKept DEF CacheInv
  <1> QED
    BY <1>5, <1>6 DEF CacheInv

LEMMA SeeHolds == ASSUME CacheInv, KindInv', NEW p \in Devices, SeeSpace(p) PROVE CacheInv'
  <1>0. JobsOK
    BY DEF CacheInv, KindInv
  <1>1. UNCHANGED << members, inSpace, roleVars >>
    BY DEF SeeSpace
  <1>2. PICK x \in job[p].todo :
          /\ Moved(p) /\ job[p].do = "refresh" /\ job'[p].todo = job[p].todo \ {x}
          /\ \/ /\ x \in inSpace /\ Alone(p)
                /\ job'[p].do = "load" /\ job'[p].at = {x} /\ job'[p].stale = FALSE
                /\ UNCHANGED << mask, lapsed >>
             \/ /\ x \notin inSpace /\ job'[p].do = "refresh"
                /\ mask' = [ mask EXCEPT ![x] = {} ] /\ lapsed' = lapsed \ {x}
                /\ Overtakes(p, x)
    BY <1>0, SeeJob DEF Overtakes
  <1>3. ASSUME NEW q \in Devices PROVE CacheOf(q)'
    <2>0. ~Old(p, q) /\ ~Old(p, q)' /\ PermsOf(UserOf[q])' = PermsOf(UserOf[q])
      BY <1>1, <1>2, KeptPerms DEF Old
    <2>1. CASE x \in inSpace
      <3>1. Due(p, q) => Due(p, q)'
        BY <1>2, <2>1 DEF Due
      <3>2. Computes(p, q)' => q \in inSpace
        BY <1>2, <2>1 DEF Computes
      <3>3. Beside(p, q)
        BY <1>2, <2>1, AloneBeside
      <3>4. PassesOn(p, q)
        BY <1>1, <1>2, <2>0, <2>1, <3>1, <3>2, <3>3 DEF PassesOn, SameCache, Amends
      <3> QED
        BY <3>4, PassesOnKeeps DEF CacheInv, Caches
    <2>2. CASE x \notin inSpace /\ q # x
      <3>1. Due(p, q) => Due(p, q)'
        BY <1>2, <2>2 DEF Due
      <3>2. ~Computes(p, q)'
        BY <1>2, <2>2 DEF Computes
      <3>3. Beside(p, q)
        BY <1>2, <2>2, OvertakesBeside DEF CacheInv
      <3>4. SameCache(q)
        BY <1>1, <1>2, <2>2 DEF SameCache, CacheInv, Caches
      <3>5. PassesOn(p, q)
        BY <1>1, <2>0, <3>1, <3>2, <3>3, <3>4 DEF PassesOn, Amends
      <3> QED
        BY <3>5, PassesOnKeeps DEF CacheInv, Caches
    <2>3. CASE x \notin inSpace /\ q = x
      <3>1. mask'[q] = {} /\ q \notin inSpace'
        BY <1>1, <1>2, <2>3 DEF CacheInv, Caches
      <3>2. Empties(p, q)
        BY <1>2, <2>3, <3>1 DEF Empties, Overtakes, Computes, Moved
      <3> QED
        BY <3>2, EmptiesKeeps
    <2> QED
      BY <2>1, <2>2, <2>3
  <1>4. Caches'
    <2>1. Single(job'[p])
      BY <1>2 DEF Single
    <2> QED
      BY <1>1, <1>2, <1>3, <2>1, CachesKept DEF CacheInv
  <1>5. Births'
    BY <1>1, <1>2, BirthsKept DEF CacheInv
  <1> QED
    BY <1>4, <1>5 DEF CacheInv

LEMMA StoreHolds ==
  ASSUME CacheInv, KindInv', NEW p \in Devices, StorePerms(p)
  PROVE  CacheInv'
  <1>0. JobsOK
    BY DEF CacheInv, KindInv
  <1>1. UNCHANGED << members, inSpace, roleVars >>
    BY DEF StorePerms
  <1>a. /\ Moved(p)
        /\ job[p].do = "store"
        /\ job'[p].do = "refresh"
        /\ job'[p].todo = job[p].todo
    BY <1>0, StoreJob
  <1>b. PICK x \in job[p].at :
          /\ mask' = [ mask EXCEPT ![x] = job[p].bits ]
          /\ lapsed' = IF job[p].stale THEN lapsed \cup {x} ELSE lapsed \ {x}
          /\ Overtakes(p, x)
    <2>1. \E x \in job[p].at :
            /\ mask' = [ mask EXCEPT ![x] = job[p].bits ]
            /\ lapsed' = IF job[p].stale THEN lapsed \cup {x} ELSE lapsed \ {x}
            /\ \A d \in Devices \ {p} :
                 /\ job[d].do \in { "load", "store" } /\ x \in job[d].at => job'[d].stale = TRUE
                 /\ ~(job[d].do \in { "load", "store" } /\ x \in job[d].at) => job'[d] = job[d]
      BY <1>0, StoreJob
    <2> QED
      BY <2>1 DEF Overtakes
  <1>2. /\ Moved(p) /\ job[p].do = "store" /\ job'[p].do = "refresh" /\ job'[p].todo = job[p].todo
        /\ mask' = [ mask EXCEPT ![x] = job[p].bits ] /\ x \in job[p].at
        /\ Stale(p) => lapsed' = lapsed \cup {x}
        /\ ~Stale(p) => lapsed' = lapsed \ {x}
        /\ Overtakes(p, x)
    BY <1>a, <1>b DEF Stale
  <1>3. \A q \in job[p].at : q = x
    BY <1>2 DEF CacheInv, Caches, Single
  <1>4. ASSUME NEW q \in Devices PROVE CacheOf(q)'
    <2>0. ~Old(p, q)' /\ ~Computes(p, q)' /\ PermsOf(UserOf[q])' = PermsOf(UserOf[q])
      BY <1>1, <1>2, KeptPerms DEF Old, Computes
    <2>1. CASE q # x
      <3>1. ~Old(p, q) /\ (Due(p, q) => Due(p, q)')
        BY <1>2, <1>3, <2>1 DEF Old, Due
      <3>2. Beside(p, q)
        BY <1>2, <2>1, OvertakesBeside DEF CacheInv
      <3>3. SameCache(q)
        BY <1>1, <1>2, <2>1 DEF SameCache, CacheInv, Caches
      <3>4. PassesOn(p, q)
        BY <1>1, <2>0, <3>1, <3>2, <3>3 DEF PassesOn, Amends
      <3> QED
        BY <3>4, PassesOnKeeps DEF CacheInv, Caches
    <2>2. CASE q = x
      <3>1. \A d \in Devices : Computes(d, q)' => Stale(d)'
        BY <1>2, <2>0, <2>2 DEF Overtakes, Computes, Stale, Moved, Kept
      <3>2. \A d \in Devices : Old(d, q)' => Computes(d, q)'
        BY DEF Old, Computes
      <3>3. ASSUME q \notin lapsed'
            PROVE  /\ q \in inSpace'
                   /\ q \in members' => mask'[q] = PermsOf(UserOf[q])' \/ \E d \in Devices : Amends(d, q)'
        <4>1. ~Stale(p) /\ Computes(p, q)
          BY <1>2, <2>2, <3>3 DEF Stale, Computes
        <4>2. q \in inSpace
          BY <4>1 DEF CacheInv, Caches, CacheOf
        <4>3. mask'[q] = job[p].bits
          BY <1>2, <2>2 DEF CacheInv, Caches
        <4>4. CASE Old(p, q) /\ q \in members
          <5>1. PICK e \in Devices \ {p} : Amends(e, q)
            BY <4>1, <4>4 DEF CacheInv, Caches, CacheOf
          <5>2. Kept(e)
            BY <1>2 DEF Moved
          <5>3. Due(e, q) => Due(e, q)'
            BY <2>0, <5>2 DEF Due, Kept
          <5>4. Old(e, q) => Old(e, q)'
            BY <2>0, <5>2 DEF Old, Kept
          <5>5. Amends(e, q)'
            BY <3>1, <3>2, <5>1, <5>3, <5>4 DEF Amends
          <5> QED
            BY <1>1, <4>2, <5>5
        <4>5. CASE ~Old(p, q)
          BY <1>1, <1>2, <2>0, <2>2, <4>2, <4>3, <4>5 DEF Old
        <4> QED
          BY <1>1, <4>2, <4>4, <4>5
      <3> QED
        BY <3>1, <3>2, <3>3 DEF CacheOf
    <2> QED
      BY <2>1, <2>2
  <1>5. Caches'
    <2>1. Single(job'[p])
      BY <1>2 DEF Single
    <2> QED
      BY <1>1, <1>2, <1>4, <2>1, CachesKept DEF CacheInv
  <1>6. Births'
    BY <1>1, <1>2, BirthsKept DEF CacheInv
  <1> QED
    BY <1>5, <1>6 DEF CacheInv

LEMMA EnterHolds == ASSUME CacheInv, KindInv', NEW p \in Devices, Enter(p) PROVE CacheInv'
  <1>0. JobsOK
    BY DEF CacheInv, KindInv
  <1>1. /\ UNCHANGED << mask, lapsed, roleVars >> /\ inSpace' = inSpace \cup {p}
        /\ \A q : q # p /\ q \in members' => q \in members
    BY DEF Enter
  <1>2. /\ Moved(p) /\ Alone(p) /\ job[p].do = "enter" /\ job'[p].do \in { "idle", "refresh" }
        /\ p \in members' => job'[p].do = "refresh" /\ job'[p].todo = {p}
    <2>1. p \in members' => job' = [ job EXCEPT ![p].do = "refresh", ![p].todo = {p} ]
      BY DEF Enter
    <2>2. p \in members' => job'[p] # Idle
      BY <1>0, <2>1, IdleJob DEF JobsOK, IsJob, JobFields
    <2> QED
      BY <1>0, <2>2, EnterJob, IdleJob
  <1>3. ASSUME NEW q \in Devices PROVE CacheOf(q)'
    <2>0. /\ Beside(p, q) /\ ~Amends(p, q) /\ ~Old(p, q)' /\ ~Computes(p, q)'
          /\ PermsOf(UserOf[q])' = PermsOf(UserOf[q])
      BY <1>1, <1>2, AloneBeside, KeptPerms DEF Amends, Due, Old, Computes
    <2>1. CASE q # p
      <3>1. PassesOn(p, q)
        BY <1>1, <2>0, <2>1 DEF PassesOn, SameCache
      <3> QED
        BY <3>1, PassesOnKeeps DEF CacheInv, Caches
    <2>2. CASE q = p /\ p \in members'
      <3>1. Due(p, q)'
        BY <1>2, <2>2 DEF Due
      <3>2. TakesUp(p, q)
        BY <1>1, <1>2, <2>0, <2>2, <3>1 DEF TakesUp
      <3> QED
        BY <3>2, TakesUpKeeps DEF CacheInv, Caches
    <2>3. CASE q = p /\ p \notin members'
      BY <1>1, <2>3 DEF CacheOf
    <2> QED
      BY <2>1, <2>2, <2>3
  <1>4. Caches'
    BY <1>1, <1>2, <1>3, CachesKept DEF CacheInv, Single
  <1>5. Births'
    BY <1>1, <1>2, BirthsKept DEF CacheInv
  <1> QED
    BY <1>4, <1>5 DEF CacheInv

LEMMA ClearHolds ==
  ASSUME CacheInv, KindInv', NEW p \in Devices, ClearSpace(p)
  PROVE  CacheInv'
  <1>0. JobsOK
    BY DEF CacheInv, KindInv
  <1>1. UNCHANGED << members, roleVars >>
    BY DEF ClearSpace
  <1>2. PICK x \in job[p].at :
          /\ Moved(p) /\ job[p].do = "clear" /\ job'[p].do = "idle"
          /\ inSpace' = inSpace \ {x}
          /\ mask' = [ mask EXCEPT ![x] = {} ] /\ lapsed' = lapsed \ {x}
          /\ Overtakes(p, x)
    <2>1. Moved(p) /\ job[p].do = "clear" /\ job'[p].do = "idle"
      BY <1>0, ClearJob, IdleJob
    <2>2. \E x \in job[p].at :
            /\ inSpace' = inSpace \ {x}
            /\ mask' = [ mask EXCEPT ![x] = {} ] /\ lapsed' = lapsed \ {x}
            /\ \A d \in Devices \ {p} :
                 /\ job[d].do \in { "load", "store" } /\ x \in job[d].at => job'[d].stale = TRUE
                 /\ ~(job[d].do \in { "load", "store" } /\ x \in job[d].at) => job'[d] = job[d]
      BY <1>0, ClearJob
    <2> QED
      BY <2>1, <2>2 DEF Overtakes
  <1>3. ASSUME NEW q \in Devices PROVE CacheOf(q)'
    <2>1. CASE q # x
      <3>1. /\ ~Amends(p, q) /\ ~Old(p, q)' /\ ~Computes(p, q)'
            /\ PermsOf(UserOf[q])' = PermsOf(UserOf[q])
        BY <1>1, <1>2, KeptPerms DEF Amends, Due, Old, Computes
      <3>2. Beside(p, q)
        BY <1>2, <2>1, OvertakesBeside DEF CacheInv
      <3>3. SameCache(q)
        BY <1>2, <2>1 DEF SameCache, CacheInv, Caches
      <3>4. PassesOn(p, q)
        BY <1>1, <3>1, <3>2, <3>3 DEF PassesOn
      <3> QED
        BY <3>4, PassesOnKeeps DEF CacheInv, Caches
    <2>2. CASE q = x
      <3>1. mask'[q] = {} /\ q \notin inSpace'
        BY <1>2, <2>2 DEF CacheInv, Caches
      <3>2. Empties(p, q)
        BY <1>2, <2>2, <3>1 DEF Empties, Overtakes, Computes, Moved
      <3> QED
        BY <3>2, EmptiesKeeps
    <2> QED
      BY <2>1, <2>2
  <1>4. Caches'
    BY <1>2, <1>3, CachesKept DEF CacheInv, Single
  <1>5. Births'
    BY <1>1, <1>2, BirthsKept DEF CacheInv
  <1> QED
    BY <1>4, <1>5 DEF CacheInv

(* A step of p that changes what some users may do, and has it told. *)
Tells(p) ==
    /\ Moved(p) /\ Alone(p)
    /\ job[p].do \notin WorkSteps \ {"give"} /\ job'[p].do \notin { "load", "store" }
    /\ \A q \in Devices : Due(p, q)' \/ (PermsOf(UserOf[q])' = PermsOf(UserOf[q]) /\ ~Due(p, q))
    /\ UNCHANGED << members, inSpace, mask, lapsed >>

LEMMA TellsKeeps == ASSUME Caches, NEW p \in Devices, Tells(p) PROVE Caches'
  <1>1. ASSUME NEW q \in Devices PROVE CacheOf(q)'
    <2>0. Beside(p, q) /\ ~Old(p, q) /\ ~Old(p, q)' /\ ~Computes(p, q)'
      BY AloneBeside DEF Tells, WorkSteps, Old, Computes
    <2>1. CASE Due(p, q)'
      <3>1. TakesUp(p, q)
        BY <2>0, <2>1 DEF TakesUp, Tells
      <3> QED
        BY <3>1, TakesUpKeeps DEF Caches
    <2>2. CASE ~Due(p, q)'
      <3>1. PassesOn(p, q)
        BY <2>0, <2>2 DEF PassesOn, SameCache, Tells, Amends
      <3> QED
        BY <3>1, PassesOnKeeps DEF Caches
    <2> QED
      BY <2>1, <2>2
  <1> QED
    BY <1>1, CachesKept DEF Tells, Single

(* The roles of one user change. *)
LEMMA OthersPerms ==
  ASSUME NEW u, catalogue' = catalogue, \A r, v : v # u => (<< r, v >> \in holds' <=> << r, v >> \in holds),
         NEW v, v # u
  PROVE  PermsOf(v)' = PermsOf(v)
  BY SamePerms DEF Roles

LEMMA StripHolds == ASSUME CacheInv, KindInv', NEW p \in Devices, Strip(p) PROVE CacheInv'
  <1>0. JobsOK
    BY DEF CacheInv, KindInv
  <1>u. PICK u : u = job[p].who
    OBVIOUS
  <1>1. /\ UNCHANGED << members, inSpace, mask, lapsed, catalogue >> /\ holds' \subseteq holds
        /\ \A r, v : v # u => (<< r, v >> \in holds' <=> << r, v >> \in holds)
    BY <1>u DEF Strip
  <1>2. /\ Moved(p) /\ Alone(p) /\ job[p].do = "strip" /\ job'[p].do \in { "give", "list user" }
        /\ job'[p].who = u
    BY <1>0, <1>u, GoOnJob DEF Strip
  <1>3. \A q \in Devices : Due(p, q)' \/ (PermsOf(UserOf[q])' = PermsOf(UserOf[q]) /\ ~Due(p, q))
    BY <1>1, <1>2, OthersPerms DEF Due
  <1>4. Caches'
    BY <1>1, <1>2, <1>3, TellsKeeps DEF CacheInv, Tells, WorkSteps
  <1>5. Births'
    BY <1>1, <1>2, BirthsKept DEF CacheInv
  <1> QED
    BY <1>4, <1>5 DEF CacheInv

(* Something is given, which is not a role that is being created. *)
LEMMA BirthsGiven ==
  ASSUME Births, NEW p \in Devices, Moved(p), job'[p].do \notin { "write def", "hold" },
         catalogue' = catalogue, NEW r, NEW u, holds' \subseteq holds \cup {<< r, u >>},
         \A d \in Devices \ {p} : Creates(d) => job[d].role # r
  PROVE  Births'
  <1>1. ASSUME NEW d \in Devices, Creates(d)' PROVE Unborn(d)'
    <2>1. d \in Devices \ {p} /\ job'[d].role = job[d].role /\ Creates(d)
      BY <1>1 DEF Creates, Moved, Kept
    <2>2. Unborn(d) /\ job[d].role # r
      BY <2>1 DEF Births
    <2>3. \A e \in Devices \ {d} : job'[e].role = job'[d].role => job'[e].do \notin { "write def", "hold" }
      BY <2>1, <2>2 DEF Unborn, Moved, Kept
    <2>4. \A v \in Users : << job'[d].role, v >> \notin holds'
      BY <2>1, <2>2 DEF Unborn
    <2> QED
      BY <2>1, <2>2, <2>3, <2>4 DEF Unborn
  <1> QED
    BY <1>1 DEF Births

(* The three steps that change what one user holds, and go on to its      *)
(* caches.                                                                 *)
LEMMA HandsHolds ==
  ASSUME CacheInv, KindInv', TierInv, NEW p \in Devices, Give(p) \/ Hold(p) \/ Unhold(p)
  PROVE  CacheInv'
  <1>0. JobsOK
    BY DEF CacheInv, KindInv
  <1>u. PICK u, r : u = job[p].who /\ r = job[p].role
    OBVIOUS
  <1>1. /\ UNCHANGED << members, inSpace, mask, lapsed, catalogue >>
        /\ holds' \subseteq holds \cup {<< r, u >>}
        /\ Unhold(p) => holds' \subseteq holds
        /\ \A s, v : v # u => (<< s, v >> \in holds' <=> << s, v >> \in holds)
    BY <1>u DEF Give, Hold, Unhold
  <1>2. /\ Moved(p) /\ Alone(p) /\ job[p].do \in { "give", "hold", "unhold" } /\ job'[p].do = "list user"
        /\ job'[p].who = u
    BY <1>0, <1>u, GoOnJob DEF Give, Hold, Unhold
  <1>3. \A q \in Devices : Due(p, q)' \/ (PermsOf(UserOf[q])' = PermsOf(UserOf[q]) /\ ~Due(p, q))
    BY <1>u, <1>1, <1>2, OthersPerms DEF Due
  <1>4. Caches'
    BY <1>1, <1>2, <1>3, TellsKeeps DEF CacheInv, Tells, WorkSteps
  <1>5. CASE Unhold(p)
    <2>1. Births'
      BY <1>1, <1>2, <1>5, BirthsKept DEF CacheInv
    <2> QED
      BY <1>4, <2>1 DEF CacheInv
  <1>6. CASE Give(p) \/ Hold(p)
    <2>1. \A d \in Devices \ {p} : Creates(d) => job[d].role # r
      <3>1. CASE Give(p)
        <4>1. r \in Tiers
          BY <1>u, <3>1 DEF Give, TierInv, TierTypes, TierSteps
        <4> QED
          BY <4>1, AccessAssumption DEF AccessAssumption, CacheInv, Births, Unborn
      <3>2. CASE Hold(p)
        BY <1>u, <3>2 DEF Hold, CacheInv, Births, Unborn
      <3> QED
        BY <1>6, <3>1, <3>2
    <2>2. Births'
      BY <1>1, <1>2, <2>1, BirthsGiven DEF CacheInv
    <2> QED
      BY <1>4, <2>2 DEF CacheInv
  <1> QED
    BY <1>5, <1>6

LEMMA DeleteHolds ==
  ASSUME CacheInv, KindInv', NEW p \in Devices, DeleteDef(p)
  PROVE  CacheInv'
  <1>0. JobsOK
    BY DEF CacheInv, KindInv
  <1>1. /\ UNCHANGED << members, inSpace, mask, lapsed, holds >>
        /\ DOMAIN catalogue' \subseteq DOMAIN catalogue
    BY DEF DeleteDef, Restrict
  <1>2. Moved(p) /\ Alone(p) /\ job[p].do = "delete def" /\ job'[p].do = "list space"
    BY <1>0, GoOnJob DEF DeleteDef
  <1>3. \A q \in Devices : Due(p, q)'
    BY <1>2 DEF Due
  <1>4. Caches'
    BY <1>1, <1>2, <1>3, TellsKeeps DEF CacheInv, Tells, WorkSteps
  <1>5. Births'
    BY <1>1, <1>2, BirthsKept DEF CacheInv
  <1> QED
    BY <1>4, <1>5 DEF CacheInv

(* Only a role that is in the catalogue is read, and goes on from there.   *)
LEMMA ReadHolds == ASSUME CacheInv, KindInv', NEW p \in Devices, ReadDef(p) PROVE CacheInv'
  <1>0. JobsOK
    BY DEF CacheInv, KindInv
  <1>1. UNCHANGED << members, inSpace, mask, lapsed, roleVars >>
    BY DEF ReadDef
  <1>2. /\ Moved(p) /\ Alone(p) /\ job[p].do = "read def"
        /\ job'[p].do \in { "idle", "write def", "delete def", "hold" }
        /\ \/ job'[p].do = "idle"
           \/ /\ job[p].role \in DOMAIN catalogue /\ job'[p].role = job[p].role
              /\ (job'[p].do = "write def" => job'[p].kind = "update")
    BY <1>0, ReadJob, IdleJob
  <1>3. Caches'
    BY <1>1, <1>2, CalmKeeps DEF CacheInv, Calm, WorkSteps
  <1>4. ASSUME NEW d \in Devices, Creates(d)' PROVE Unborn(d)'
    <2>1. d # p /\ job'[d].role = job[d].role /\ Creates(d)
      BY <1>2, <1>4 DEF Creates, Moved, Kept
    <2>2. Unborn(d)
      BY <2>1 DEF CacheInv, Births
    <2>3. ASSUME NEW e \in Devices \ {d}, job'[e].role = job'[d].role
          PROVE  job'[e].do \notin { "write def", "hold" }
      <3>1. CASE e = p
        BY <1>2, <2>1, <2>2, <2>3, <3>1 DEF Unborn
      <3>2. CASE e # p
        BY <1>2, <2>1, <2>2, <2>3, <3>2 DEF Unborn, Moved, Kept
      <3> QED
        BY <3>1, <3>2
    <2> QED
      BY <1>1, <2>1, <2>2, <2>3 DEF Unborn
  <1> QED
    BY <1>3, <1>4 DEF CacheInv, Births

LEMMA CreateHolds ==
  ASSUME CacheInv, KindInv', NEW p \in Devices, NEW r \in CustomRoles, NEW bits, CreateRole(p, r, bits)
  PROVE  CacheInv'
  <1>0. JobsOK
    BY DEF CacheInv, KindInv
  <1>1. /\ UNCHANGED << members, inSpace, mask, lapsed, roleVars >>
        /\ r \notin DOMAIN catalogue /\ \A u \in Users : << r, u >> \notin holds
        /\ \A d \in Devices : job[d].role # r
    BY DEF CreateRole
  <1>2. Began(p, "create", "write def") /\ job'[p].role = r
    BY <1>0, RolesJob
  <1>3. /\ Moved(p) /\ Alone(p) /\ job[p].do = "idle" /\ job'[p].do = "write def"
    BY <1>2, IdleJob DEF Began
  <1>4. Caches'
    BY <1>1, <1>3, CalmKeeps DEF CacheInv, Calm, WorkSteps
  <1>5. \A d \in Devices \ {p} : job'[d].role = job[d].role /\ job'[d].do = job[d].do /\ job'[d].kind = job[d].kind
    BY <1>3 DEF Moved, Kept
  <1>6. ASSUME NEW d \in Devices, Creates(d)' PROVE Unborn(d)'
    <2>1. CASE d = p
      BY <1>1, <1>2, <1>5, <2>1 DEF Unborn
    <2>2. CASE d # p
      <3>1. Unborn(d) /\ job[d].role # r
        BY <1>1, <1>5, <1>6, <2>2 DEF Creates, CacheInv, Births
      <3> QED
        BY <1>1, <1>2, <1>5, <2>2, <3>1 DEF Unborn
    <2> QED
      BY <2>1, <2>2
  <1> QED
    BY <1>4, <1>6 DEF CacheInv, Births

LEMMA WriteHolds ==
  ASSUME CacheInv, KindInv', NEW p \in Devices, WriteDef(p)
  PROVE  CacheInv'
  <1>0. JobsOK /\ Kinds(job[p])
    BY DEF CacheInv, KindInv
  <1> DEFINE b == job[p]
             untold == b.kind = "update" /\ ~ b.patch /\ Upserted(b.role, b.bits) # catalogue
  <1>1. /\ UNCHANGED << members, inSpace, mask, holds >>
        /\ catalogue' = Upserted(b.role, b.bits)
        /\ lapsed' = IF untold THEN Devices ELSE lapsed
    BY DEF WriteDef
  <1>2. /\ DOMAIN catalogue' = DOMAIN catalogue \cup {b.role}
        /\ \A r \in DOMAIN catalogue : r # b.role => catalogue'[r] = catalogue[r]
    BY <1>1 DEF Upserted
  <1>3. /\ Moved(p) /\ b.do = "write def" /\ job'[p].do \in { "idle", "list space" }
        /\ b.patch => job'[p].do = "list space"
        /\ ~ b.patch => job'[p].do = "idle"
        /\ \A d \in Devices \ {p} :
              /\ untold /\ job[d].do \in { "load", "store" } => job'[d].stale = TRUE
              /\ ~(untold /\ job[d].do \in { "load", "store" }) => job'[d] = job[d]
    BY <1>0, WriteJob, IdleJob
  <1>4. Caches'
    <2>1. CASE b.patch
      <3>1. Alone(p) /\ lapsed' = lapsed
        BY <1>1, <1>3, <2>1 DEF Alone
      <3>2. \A q \in Devices : Due(p, q)'
        BY <1>3, <2>1 DEF Due
      <3>3. Tells(p)
        BY <1>1, <1>3, <3>1, <3>2 DEF Tells, WorkSteps
      <3> QED
        BY <3>3, TellsKeeps DEF CacheInv
    <2>2. CASE ~ b.patch /\ ~ untold
      <3>1. Alone(p) /\ lapsed' = lapsed
        BY <1>1, <1>3, <2>2 DEF Alone
      <3>2. ASSUME NEW u \in Users PROVE PermsOf(u)' = PermsOf(u)
        <4>1. CASE b.kind = "update"
          BY <1>1, <2>2, <4>1, KeptPerms
        <4>2. CASE b.kind = "create"
          <5>1. Unborn(p)
            BY <1>3, <4>2 DEF CacheInv, Births, Creates
          <5>2. Roles(u)' = Roles(u) /\ b.role \notin Roles(u)
            BY <1>1, <1>2, <5>1 DEF Roles, Unborn
          <5> QED
            BY <1>2, <5>2, SamePerms DEF Roles
        <4> QED
          BY <1>0, <1>3, <4>1, <4>2 DEF Kinds
      <3>3. \A q \in Devices : PermsOf(UserOf[q])' = PermsOf(UserOf[q]) /\ ~Due(p, q)
        BY <1>3, <3>2, UserIs DEF Due
      <3>4. Tells(p)
        BY <1>1, <1>3, <3>1, <3>3 DEF Tells, WorkSteps
      <3> QED
        BY <3>4, TellsKeeps DEF CacheInv
    <2>3. CASE untold
      <3>1. lapsed' = Devices /\ ~ b.patch
        BY <1>1, <2>3
      <3>2. \A d \in Devices, q \in Devices : Computes(d, q)' => Stale(d)'
        BY <1>3, <2>3 DEF Computes, Stale
      <3>3. \A d \in Devices, q \in Devices : Old(d, q)' => Computes(d, q)'
        BY DEF Old, Computes
      <3>4. \A q \in Devices : CacheOf(q)'
        BY <3>1, <3>2, <3>3 DEF CacheOf
      <3>5. Single(job'[p])
        BY <1>3 DEF Single
      <3> QED
        BY <1>1, <1>3, <3>4, <3>5, CachesKept DEF CacheInv
    <2> QED
      BY <2>1, <2>2, <2>3
  <1>5. ASSUME NEW d \in Devices, Creates(d)' PROVE Unborn(d)'
    <2>1. d # p /\ job'[d].role = job[d].role /\ Creates(d)
      BY <1>3, <1>5 DEF Creates, Moved, Kept
    <2>2. Unborn(d)
      BY <2>1 DEF CacheInv, Births
    <2>3. job[d].role # b.role
      BY <1>3, <2>1, <2>2 DEF Unborn
    <2>4. \A e \in Devices \ {d} : job'[e].role = job'[d].role => job'[e].do \notin { "write def", "hold" }
      BY <1>3, <2>1, <2>2 DEF Unborn, Moved, Kept
    <2> QED
      BY <1>1, <1>2, <2>1, <2>2, <2>3, <2>4 DEF Unborn
  <1> QED
    BY <1>4, <1>5 DEF CacheInv, Births

LEMMA RestartHolds == ASSUME KindInv', Restart PROVE CacheInv'
  <1>1. /\ members' = {} /\ inSpace' = {} /\ mask' = [ p \in Devices |-> {} ]
        /\ job' = [ d \in Devices |-> Idle ]
    BY DEF Restart
  <1>2. \A d \in Devices : job'[d].do = "idle"
    BY <1>1, IdleJob
  <1>3. \A q \in Devices : CacheOf(q)'
    BY <1>1, <1>2 DEF CacheOf, Computes
  <1>4. Births'
    BY <1>2 DEF Births, Creates
  <1> QED
    BY <1>1, <1>2, <1>3, <1>4 DEF CacheInv, Caches, Single

LEMMA InitCaches == AccessInit => CacheInv
  <1> SUFFICES ASSUME AccessInit PROVE CacheInv
    OBVIOUS
  <1>1. /\ members = Present /\ inSpace = Present /\ lapsed = {}
        /\ mask = [ q \in Devices |-> IF q \in Present THEN PermsOf(UserOf[q]) ELSE {} ]
        /\ job = [ d \in Devices |-> Idle ]
    BY DEF AccessInit
  <1>2. \A d \in Devices : job[d].do = "idle"
    BY <1>1, IdleJob
  <1>3. \A q \in Devices : CacheOf(q)
    BY <1>1, <1>2 DEF CacheOf, Old, Computes
  <1>4. Births
    BY <1>2 DEF Births, Creates
  <1> QED
    BY <1>1, <1>2, <1>3, <1>4, InitKinds DEF CacheInv, Caches, Single

(* When no handler is under way, the permissions cached on a member's      *)
(* connection (Peer.space_perms) are those its roles give, however edits,  *)
(* refreshes, joins and leaves crossed on the way, and a connection in no  *)
(* space has none: unless two computations for it overlapped and the older *)
(* was stored last, or an edit of a role's looks undid a change of its     *)
(* permissions.                                                            *)
THEOREM CachesFollowRoles == AccessSpec => []MaskFresh
  <1>1. AccessSpec => []TierInv
    BY InitTiers, TiersKept, PTL DEF AccessSpec
  <1>2. CacheInv /\ TierInv /\ [AccessNext]_accessVars => CacheInv'
    <2> SUFFICES ASSUME CacheInv, TierInv, [AccessNext]_accessVars PROVE CacheInv'
      OBVIOUS
    <2>0. KindInv'
      BY KindsKept DEF CacheInv
    <2>1. ASSUME NEW p \in Devices, JoinStep(p) PROVE CacheInv'
      BY <2>0, <2>1, JoinCalm, ListHolds, LoadHolds, SeeHolds, StoreHolds, EnterHolds,
         ClearHolds DEF JoinStep
    <2>2. ASSUME NEW p \in Devices, RoleStep(p) PROVE CacheInv'
      BY <2>0, <2>2, RoleCalm, StripHolds, HandsHolds, DeleteHolds, ReadHolds,
         CreateHolds, WriteHolds DEF RoleStep
    <2>3. CASE CountUse \/ StoreTimeout \/ UNCHANGED accessVars
      BY <2>0, <2>3, SameHolds DEF CountUse, StoreTimeout, accessVars
    <2> QED
      BY <2>0, <2>1, <2>2, <2>3, ModerationCalm, RestartHolds DEF AccessNext
  <1>3. CacheInv => MaskFresh
    <2> SUFFICES ASSUME CacheInv, Quiet, NEW q \in Devices \ lapsed
                 PROVE  /\ q \in inSpace \cap members => mask[q] = PermsOf(UserOf[q])
                        /\ q \notin inSpace => mask[q] = {}
      BY DEF MaskFresh
    <2>1. \A d \in Devices : job[d].do = "idle"
      BY IdleJob DEF Quiet
    <2>2. \A d \in Devices : ~Amends(d, q)
      BY <2>1 DEF Amends, Due, Old
    <2> QED
      BY <2>2 DEF CacheInv, Caches, CacheOf
  <1> QED
    BY <1>1, <1>2, <1>3, InitCaches, PTL DEF AccessSpec
=============================================================================
