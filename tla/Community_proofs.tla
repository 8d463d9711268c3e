-------------------------- MODULE Community_proofs --------------------------
(***************************************************************************)
(* Proofs about Social and Accounts, which share no state. Friendships are *)
(* by consent and two users have one tie, by an invariant that says what a *)
(* handler knows at each of its steps; the blocks play no part. Then how   *)
(* many wrong passwords one address can be given before it is locked, when *)
(* every connection tries at once; that who was put out of its sessions    *)
(* has no token that works; and that the only token of an identity without *)
(* an account is not lost.                                                 *)
(***************************************************************************)
EXTENDS Social, Accounts, FiniteSetTheorems, TLAPS

OtherSteps == { "idle", "load", "cacheBlock", "cacheUnblock", "deliver", "deliverBlocked" }

Steps == FriendSteps \cup OtherSteps

AtFriends(p) == doing[p] \in FriendSteps

(* The shape of the state; a handler is about another user than its own.   *)
Types ==
    /\ doing \in [ Devices -> Steps ]
    /\ with \in [ Devices -> Users ]
    /\ \A p \in Devices : AtFriends(p) => with[p] # Me(p)

(* Users have agreed before they are asked for, or made friends. *)
Consent ==
    /\ \A t \in asked : t \in willing
    /\ \A p \in Devices : AtFriends(p) => << Me(p), with[p] >> \in willing
    /\ \A p \in Devices : doing[p] \in { "drop", "befriend" } => << with[p], Me(p) >> \in willing
    /\ FriendsByConsent

ConsentInv == Types /\ Consent

-----------------------------------------------------------------------------
LEMMA MeIsUser == ASSUME NEW p \in Devices PROVE Me(p) \in Users
  BY DEF Me, Users

LEMMA InitConsent == SocialInit => ConsentInv
  <1> SUFFICES ASSUME SocialInit PROVE ConsentInv
    OBVIOUS
  <1>1. Types
    BY MeIsUser, PeopleAssumption
    DEF SocialInit, Types, AtFriends, Steps, FriendSteps, OtherSteps, Me, Users, PeopleAssumption
  <1>2. FriendsByConsent
    <2> SUFFICES ASSUME NEW pair \in Companions, NEW u \in pair, NEW v \in pair, u # v
                 PROVE  << u, v >> \in willing
      BY DEF FriendsByConsent, SocialInit
    <2>1. pair = {u, v} /\ u \in Users /\ v \in Users
      BY SocialAssumption DEF SocialAssumption
    <2>2. << u, v >> \in Users \X Users /\ { << u, v >>[1], << u, v >>[2] } \in Companions
      BY <2>1
    <2> QED
      BY <2>2 DEF SocialInit
  <1>3. \A p \in Devices : doing[p] = "idle"
    BY DEF SocialInit
  <1> QED
    BY <1>1, <1>2, <1>3 DEF ConsentInv, Consent, SocialInit, AtFriends, FriendSteps

-----------------------------------------------------------------------------
(* A request begins, or a handler goes on: Types is kept. *)

LEMMA AboutTypes ==
  ASSUME Types, NEW p \in Devices, NEW v \in Users, NEW step \in Steps, About(p, v, step)
  PROVE  Types'
  BY DEF About, Types, AtFriends, Me

LEMMA ThenTypes ==
  ASSUME Types, NEW p \in Devices, NEW step \in Steps, Then(p, step), with' = with,
         step \in FriendSteps => AtFriends(p)
  PROVE  Types'
  BY DEF Then, Types, AtFriends, Me

LEMMA StepTypes ==
  ASSUME Types, NEW p \in Devices, FriendStep(p) \/ BlockStep(p)
  PROVE  Types'
  <1> USE DEF Steps, FriendSteps, OtherSteps
  <1>1. CASE \E v \in Users : SendFriendRequest(p, v)
    BY <1>1, AboutTypes DEF SendFriendRequest
  <1>2. CASE \E v \in Users : AcceptFriendRequest(p, v)
    BY <1>2, AboutTypes DEF AcceptFriendRequest
  <1>3. CASE \E v \in Users : DeclineFriendRequest(p, v) \/ CancelFriendRequest(p, v) \/ RemoveFriend(p, v)
    BY <1>3, AboutTypes DEF DeclineFriendRequest, CancelFriendRequest, RemoveFriend, Forget
  <1>4. CASE \E v \in Users : SaveBlock(p, v) \/ DeleteBlock(p, v)
    BY <1>4, AboutTypes DEF SaveBlock, DeleteBlock
  <1>5. CASE \E v \in Users : SendDirect(p, v)
    <2>1. PICK v \in Users : SendDirect(p, v)
      BY <1>5
    <2> QED
      BY <2>1, AboutTypes DEF SendDirect
  <1>6. CASE FriendshipExists(p) \/ AlreadyAsked(p) \/ AskedBack(p) \/ Answer(p) \/ StatementFails(p)
    BY <1>6, ThenTypes DEF FriendshipExists, AlreadyAsked, AskedBack, Answer, StatementFails, Looked,
       AtFriends
  <1>7. CASE SaveFriendRequest(p) \/ DropRequest(p) \/ SaveFriendship(p)
    BY <1>7, ThenTypes DEF SaveFriendRequest, DropRequest, SaveFriendship, AtFriends
  <1>8. CASE Authenticate(p) \/ LoadBlocks(p) \/ CacheBlock(p) \/ Deliver(p)
    BY <1>8, ThenTypes DEF Authenticate, LoadBlocks, CacheBlock, Deliver
  <1> QED
    BY <1>1, <1>2, <1>3, <1>4, <1>5, <1>6, <1>7, <1>8 DEF FriendStep, BlockStep

-----------------------------------------------------------------------------
(* Consent is kept by what a request begins with, and by a step that goes  *)
(* on: the request or friendship it adds is one its handler has leave for. *)

LEMMA AboutConsent ==
  ASSUME ConsentInv, NEW p \in Devices, NEW v \in Users, NEW step \in Steps, About(p, v, step),
         step \notin { "drop", "befriend" },
         step \in FriendSteps => << Me(p), v >> \in willing',
         willing \subseteq willing', asked' \subseteq asked, friends' \subseteq friends
  PROVE  Consent'
  <1> USE DEF ConsentInv, Types
  <1>1. /\ doing' = [ doing EXCEPT ![p] = step ] /\ with' = [ with EXCEPT ![p] = v ]
    BY DEF About
  <1>2. \A t \in asked' : t \in willing'
    BY DEF Consent
  <1>3. \A q \in Devices : AtFriends(q)' => << Me(q), with'[q] >> \in willing'
    BY <1>1 DEF Consent, AtFriends, Me
  <1>4. \A q \in Devices : doing'[q] \in { "drop", "befriend" } => << with'[q], Me(q) >> \in willing'
    BY <1>1 DEF Consent, Me
  <1>5. FriendsByConsent'
    BY DEF Consent, FriendsByConsent
  <1> QED
    BY <1>2, <1>3, <1>4, <1>5 DEF Consent, Me

LEMMA ThenConsent ==
  ASSUME ConsentInv, NEW p \in Devices, NEW step \in Steps, Then(p, step),
         with' = with, willing' = willing,
         step \in FriendSteps => AtFriends(p),
         step \in { "drop", "befriend" } => << with[p], Me(p) >> \in willing,
         asked' \subseteq asked \/ (AtFriends(p) /\ asked' \subseteq asked \cup {<< Me(p), with[p] >>}),
         friends' \subseteq friends \/ (doing[p] = "befriend" /\ friends' \subseteq friends \cup {Pair(p)})
  PROVE  Consent'
  <1> USE DEF ConsentInv, Types
  <1>1. doing' = [ doing EXCEPT ![p] = step ]
    BY DEF Then
  <1>2. \A t \in asked' : t \in willing'
    BY DEF Consent
  <1>3. \A q \in Devices : AtFriends(q)' => << Me(q), with'[q] >> \in willing'
    BY <1>1 DEF Consent, AtFriends, Me
  <1>4. \A q \in Devices : doing'[q] \in { "drop", "befriend" } => << with'[q], Me(q) >> \in willing'
    BY <1>1 DEF Consent, Me
  <1>5. FriendsByConsent'
    <2> SUFFICES ASSUME NEW pair \in friends', NEW u \in pair, NEW v \in pair, u # v
                 PROVE  << u, v >> \in willing
      BY DEF FriendsByConsent
    <2>1. CASE pair \in friends
      BY <2>1 DEF Consent, FriendsByConsent
    <2>2. CASE pair = Pair(p) /\ doing[p] = "befriend"
      BY <2>2 DEF Consent, Pair, AtFriends, FriendSteps
    <2> QED
      BY <2>1, <2>2
  <1> QED
    BY <1>2, <1>3, <1>4, <1>5 DEF Consent, Me

LEMMA StepConsent ==
  ASSUME ConsentInv, NEW p \in Devices, FriendStep(p) \/ BlockStep(p)
  PROVE  Consent'
  <1> USE DEF Steps, FriendSteps, OtherSteps
  <1>1. CASE \E v \in Users : SendFriendRequest(p, v)
    BY <1>1, AboutConsent DEF SendFriendRequest, friendVars
  <1>2. CASE \E v \in Users : AcceptFriendRequest(p, v)
    BY <1>2, AboutConsent DEF AcceptFriendRequest, friendVars
  <1>3. CASE \E v \in Users : DeclineFriendRequest(p, v) \/ CancelFriendRequest(p, v) \/ RemoveFriend(p, v)
    BY <1>3, AboutConsent DEF DeclineFriendRequest, CancelFriendRequest, RemoveFriend, Forget
  <1>4. CASE \E v \in Users : SaveBlock(p, v) \/ DeleteBlock(p, v)
    BY <1>4, AboutConsent DEF SaveBlock, DeleteBlock, friendVars
  <1>5. CASE \E v \in Users : SendDirect(p, v)
    <2>1. PICK v \in Users : SendDirect(p, v)
      BY <1>5
    <2> QED
      BY <2>1, AboutConsent DEF SendDirect, friendVars
  <1>6. CASE FriendshipExists(p) \/ AlreadyAsked(p) \/ StatementFails(p)
    BY <1>6, ThenConsent DEF FriendshipExists, AlreadyAsked, StatementFails, Looked, AtFriends, friendVars
  <1>7. CASE AskedBack(p) \/ Answer(p)
    BY <1>7, ThenConsent DEF AskedBack, Answer, Looked, AtFriends, friendVars, ConsentInv, Consent
  <1>8. CASE SaveFriendRequest(p)
    BY <1>8, ThenConsent DEF SaveFriendRequest, AtFriends
  <1>9. CASE DropRequest(p)
    BY <1>9, ThenConsent DEF DropRequest, AtFriends, ConsentInv, Consent
  <1>10. CASE SaveFriendship(p)
    BY <1>10, ThenConsent DEF SaveFriendship, AtFriends
  <1>11. CASE Authenticate(p) \/ LoadBlocks(p) \/ CacheBlock(p) \/ Deliver(p)
    BY <1>11, ThenConsent DEF Authenticate, LoadBlocks, CacheBlock, Deliver, friendVars
  <1> QED
    BY <1>1, <1>2, <1>3, <1>4, <1>5, <1>6, <1>7, <1>8, <1>9, <1>10, <1>11 DEF FriendStep, BlockStep

LEMMA StutterConsent == ASSUME ConsentInv, UNCHANGED socialVars PROVE ConsentInv'
  BY DEF ConsentInv, Types, Consent, FriendsByConsent, AtFriends, Me, socialVars, friendVars

(* Nobody is the friend of a user it never asked nor agreed with. *)
THEOREM FriendsHaveConsented == SocialSpec => []FriendsByConsent
  <1>1. ConsentInv /\ [SocialNext]_socialVars => ConsentInv'
    BY StepTypes, StepConsent, StutterConsent DEF SocialNext, ConsentInv
  <1>2. ConsentInv => FriendsByConsent
    BY DEF ConsentInv, Consent
  <1> QED
    BY InitConsent, <1>1, <1>2, PTL DEF SocialSpec

-----------------------------------------------------------------------------
(* One tie.  While no other handler has been at its pair, a handler knows  *)
(* what it has looked up.                                                  *)

Tie(u, v) ==
    << u, v >> \in asked => (<< v, u >> \notin asked /\ {u, v} \notin friends) \/ {u, v} \in crossed

Knows(p) ==
    AtFriends(p) /\ Pair(p) \notin crossed =>
        /\ doing[p] \in { "checkAsked", "checkBack", "ask", "drop" } => Pair(p) \notin friends
        /\ doing[p] \in { "checkBack", "ask", "drop", "befriend" } => << Me(p), with[p] >> \notin asked
        /\ doing[p] \in { "ask", "befriend" } => << with[p], Me(p) >> \notin asked

(* Two handlers at one pair have crossed it. *)
Alone ==
    \A p, q \in Devices : AtFriends(p) /\ AtFriends(q) /\ p # q /\ Pair(p) = Pair(q) => Pair(p) \in crossed

TieInv == Types /\ Alone /\ (\A p \in Devices : Knows(p)) /\ OneTieUnlessCrossed

(* What a step of p leaves to the others: their handlers, and what is      *)
(* known of other pairs; and either the pair of p is its own, or crossed,  *)
(* or the step is no matter of friends.                                    *)
Apart(p) ==
    /\ \A q \in Devices \ {p} : doing'[q] = doing[q] /\ with'[q] = with[q]
    /\ crossed \subseteq crossed'
    /\ \A u, v \in Users : {u, v} # { Me(p), with'[p] } =>
          (<< u, v >> \in asked' <=> << u, v >> \in asked) /\ ({u, v} \in friends' <=> {u, v} \in friends)
    /\ \/ doing'[p] \notin FriendSteps /\ asked' = asked /\ friends' = friends
       \/ \A q \in Devices \ {p} : AtFriends(q) /\ Pair(q) = { Me(p), with'[p] } => Pair(q) \in crossed'

LEMMA OthersKnow ==
  ASSUME TieInv, NEW p \in Devices, Apart(p)
  PROVE  /\ Alone'
         /\ \A q \in Devices \ {p} : Knows(q)'
         /\ \A u, v \in Users : {u, v} # { Me(p), with'[p] } => Tie(u, v)'
  <1>1. \A q \in Devices : Me(q) \in Users /\ with[q] \in Users
    BY MeIsUser DEF TieInv, Types
  <1>2. \A q \in Devices \ {p} : (AtFriends(q)' <=> AtFriends(q)) /\ Pair(q)' = Pair(q)
    BY DEF Apart, AtFriends, Pair, Me
  <1>3. Pair(p)' = { Me(p), with'[p] }
    BY DEF Pair, Me
  <1>4. Alone'
    <2> SUFFICES ASSUME NEW q \in Devices, NEW r \in Devices, AtFriends(q)', AtFriends(r)', q # r,
                        Pair(q)' = Pair(r)'
                 PROVE  Pair(q)' \in crossed'
      BY DEF Alone
    <2>1. CASE q # p /\ r # p
      BY <2>1, <1>2 DEF TieInv, Alone, Apart
    <2>2. CASE q = p \/ r = p
      BY <2>2, <1>2, <1>3 DEF Apart, AtFriends
    <2> QED
      BY <2>1, <2>2
  <1>5. ASSUME NEW q \in Devices \ {p} PROVE Knows(q)'
    <2> SUFFICES ASSUME AtFriends(q), Pair(q) \notin crossed' PROVE Knows(q)'
      BY <1>2 DEF Knows
    <2>1. Knows(q) /\ Pair(q) \notin crossed
      BY DEF TieInv, Apart
    <2>2. /\ Pair(q) \in friends' <=> Pair(q) \in friends
          /\ << Me(q), with[q] >> \in asked' <=> << Me(q), with[q] >> \in asked
          /\ << with[q], Me(q) >> \in asked' <=> << with[q], Me(q) >> \in asked
      <3>1. Pair(q) = { Me(q), with[q] } /\ Pair(q) = { with[q], Me(q) }
        BY DEF Pair
      <3>2. CASE asked' = asked /\ friends' = friends
        BY <3>2
      <3>3. CASE Pair(q) # { Me(p), with'[p] }
        BY <3>1, <3>3, <1>1 DEF Apart
      <3> QED
        BY <3>2, <3>3 DEF Apart
    <2> QED
      BY <2>1, <2>2, <1>2 DEF Knows, Apart, AtFriends, Me, Pair
  <1>6. ASSUME NEW u \in Users, NEW v \in Users, {u, v} # { Me(p), with'[p] } PROVE Tie(u, v)'
    <2>1. Tie(u, v)
      BY DEF TieInv, OneTieUnlessCrossed, Tie
    <2>2. {v, u} = {u, v}
      OBVIOUS
    <2> QED
      BY <2>1, <2>2, <1>6 DEF Tie, Apart
  <1> QED
    BY <1>4, <1>5, <1>6

(* It is left to show of p itself. *)
LEMMA PairKnown ==
  ASSUME TieInv, NEW p \in Devices, Apart(p), Types', Knows(p)',
         \A v \in Users : v = with'[p] => Tie(Me(p), v)' /\ Tie(v, Me(p))'
  PROVE  TieInv'
  <1>1. ASSUME NEW u \in Users, NEW v \in Users PROVE Tie(u, v)'
    <2>1. CASE u = Me(p) /\ v = with'[p]
      BY <2>1 DEF Tie, Me
    <2>2. CASE u = with'[p] /\ v = Me(p)
      BY <2>2 DEF Tie, Me
    <2>3. CASE {u, v} # { Me(p), with'[p] }
      BY <2>3, OthersKnow
    <2> QED
      BY <2>1, <2>2, <2>3
  <1>2. OneTieUnlessCrossed'
    BY <1>1 DEF OneTieUnlessCrossed, Tie
  <1> QED
    BY <1>2, OthersKnow DEF TieInv

(* The steps that only look, or begin. *)
OnlyPair(p) ==
    \A u, v \in Users : {u, v} # { Me(p), with'[p] } =>
        (<< u, v >> \in asked' <=> << u, v >> \in asked) /\ ({u, v} \in friends' <=> {u, v} \in friends)

LEMMA AboutApart ==
  ASSUME TieInv, NEW p \in Devices, NEW v \in Users, NEW step, About(p, v, step), OnlyPair(p),
         step \in FriendSteps \cup {"idle"} \/ UNCHANGED friendVars
  PROVE  Apart(p)
  <1>1. /\ doing' = [ doing EXCEPT ![p] = step ] /\ with' = [ with EXCEPT ![p] = v ]
    BY DEF About
  <1>2. with'[p] = v /\ doing'[p] = step
    BY <1>1 DEF TieInv, Types
  <1>3. CASE step \in FriendSteps \cup {"idle"}
    <2>1. \A q \in Devices \ {p} : AtFriends(q) /\ Pair(q) = { Me(p), v } => Pair(q) \in crossed'
      BY <1>3 DEF About, AtFriends
    <2> QED
      BY <1>1, <1>2, <2>1 DEF Apart, OnlyPair, About, TieInv, Types
  <1>4. CASE step \notin FriendSteps \cup {"idle"}
    BY <1>1, <1>2, <1>4 DEF Apart, OnlyPair, About, TieInv, Types, friendVars
  <1> QED
    BY <1>3, <1>4

LEMMA ThenApart ==
  ASSUME TieInv, NEW p \in Devices, NEW step, Then(p, step), with' = with, crossed' = crossed,
         OnlyPair(p),
         AtFriends(p) \/ (step \notin FriendSteps /\ UNCHANGED friendVars)
  PROVE  Apart(p)
  <1>1. doing' = [ doing EXCEPT ![p] = step ] /\ doing'[p] = step
    BY DEF Then, TieInv, Types
  <1>2. CASE AtFriends(p)
    <2>1. \A q \in Devices \ {p} : AtFriends(q) /\ Pair(q) = { Me(p), with'[p] } => Pair(q) \in crossed'
      BY <1>2 DEF TieInv, Alone, Pair
    <2> QED
      BY <1>1, <2>1 DEF Apart, OnlyPair
  <1>3. CASE step \notin FriendSteps /\ UNCHANGED friendVars
    BY <1>1, <1>3 DEF Apart, OnlyPair, friendVars
  <1> QED
    BY <1>2, <1>3

(* What p knows after each of its steps, and what holds of its pair. *)
Own(p) == Knows(p)' /\ \A v \in Users : v = with'[p] => Tie(Me(p), v)' /\ Tie(v, Me(p))'

LEMMA PairTied ==
  ASSUME TieInv, NEW p \in Devices, NEW v \in Users
  PROVE  Tie(Me(p), v) /\ Tie(v, Me(p))
  BY MeIsUser DEF TieInv, OneTieUnlessCrossed, Tie

(* A request that begins adds nothing. *)
LEMMA AboutOwn ==
  ASSUME TieInv, NEW p \in Devices, NEW v \in Users, NEW step, About(p, v, step),
         step \notin { "checkAsked", "checkBack", "ask", "drop", "befriend" },
         asked' \subseteq asked, friends' \subseteq friends
  PROVE  Own(p)
  <1>1. with'[p] = v /\ doing'[p] = step /\ crossed \subseteq crossed'
    BY DEF About, TieInv, Types
  <1>2. Knows(p)'
    BY <1>1 DEF Knows
  <1>3. Tie(Me(p), v)' /\ Tie(v, Me(p))'
    BY <1>1, PairTied DEF Tie, Me
  <1> QED
    BY <1>1, <1>2, <1>3 DEF Own

LEMMA ThenOwn ==
  ASSUME TieInv, NEW p \in Devices, NEW step, Then(p, step), with' = with, crossed' = crossed,
         Knows(p)', Tie(Me(p), with[p])', Tie(with[p], Me(p))'
  PROVE  Own(p)
  BY DEF Own, Tie, Me

(* The steps of a handler at a friendship, one by one. *)
LEMMA LookOwn ==
  ASSUME TieInv, NEW p \in Devices, NEW step, AtFriends(p), Then(p, step), Looked, Knows(p)'
  PROVE  Apart(p) /\ Own(p)
  <1>1. with[p] \in Users
    BY DEF TieInv, Types
  <1>2. OnlyPair(p)
    BY DEF OnlyPair, Looked, friendVars
  <1>3. Tie(Me(p), with[p])' /\ Tie(with[p], Me(p))'
    BY <1>1, PairTied DEF Tie, Me, Looked, friendVars
  <1> QED
    BY <1>2, <1>3, ThenApart, ThenOwn DEF Looked

LEMMA LookTie ==
  ASSUME TieInv, NEW p \in Devices,
         FriendshipExists(p) \/ AlreadyAsked(p) \/ AskedBack(p) \/ Answer(p) \/ StatementFails(p)
  PROVE  Apart(p) /\ Own(p)
  <1>1. AtFriends(p) /\ Knows(p) /\ Looked
    BY DEF TieInv, AtFriends, FriendSteps, FriendshipExists, AlreadyAsked, AskedBack, Answer, StatementFails
  <1>2. Me(p)' = Me(p) /\ Pair(p)' = Pair(p) /\ with' = with /\ crossed' = crossed
        /\ asked' = asked /\ friends' = friends
    BY <1>1 DEF Me, Pair, Looked, friendVars
  <1>3. \A step : Then(p, step) => doing'[p] = step
    BY DEF Then, TieInv, Types
  <1> USE DEF Knows, AtFriends, FriendSteps
  <1>4. CASE FriendshipExists(p)
    <2>1. doing[p] \in FriendSteps /\ (Then(p, "idle") \/ (Then(p, "checkAsked") /\ Pair(p) \notin friends))
      BY <1>4 DEF FriendshipExists
    <2>2. Knows(p)'
      BY <1>1, <1>2, <1>3, <1>4, <2>1 DEF FriendshipExists
    <2> QED
      BY <1>1, <2>1, <2>2, LookOwn
  <1>5. CASE AlreadyAsked(p)
    <2>1. doing[p] \in FriendSteps /\ (Then(p, "idle") \/ (Then(p, "checkBack") /\ << Me(p), with[p] >> \notin asked))
      BY <1>5 DEF AlreadyAsked
    <2>2. Knows(p)'
      BY <1>1, <1>2, <1>3, <1>5, <2>1 DEF AlreadyAsked
    <2> QED
      BY <1>1, <2>1, <2>2, LookOwn
  <1>6. CASE AskedBack(p)
    BY <1>1, <1>2, <1>3, <1>6, LookOwn DEF AskedBack
  <1>7. CASE Answer(p)
    <2>1. with[p] \in Users
      BY DEF TieInv, Types
    <2>2. { with[p], Me(p) } = Pair(p)
      BY DEF Pair
    <2>3. Tie(with[p], Me(p))
      BY <2>1, PairTied
    <2>4. Knows(p)'
      BY <1>1, <1>2, <1>3, <1>7, <2>2, <2>3 DEF Answer, Tie
    <2> QED
      BY <1>1, <1>7, <2>4, LookOwn DEF Answer
  <1>8. CASE StatementFails(p)
    BY <1>1, <1>2, <1>3, <1>8, LookOwn DEF StatementFails
  <1> QED
    BY <1>4, <1>5, <1>6, <1>7, <1>8

LEMMA WriteTie ==
  ASSUME TieInv, NEW p \in Devices,
         SaveFriendRequest(p) \/ DropRequest(p) \/ SaveFriendship(p)
  PROVE  Apart(p) /\ Own(p)
  <1>1. AtFriends(p) /\ Knows(p) /\ with[p] \in Users /\ with' = with /\ crossed' = crossed /\ with[p] # Me(p)
    BY DEF TieInv, Types, AtFriends, FriendSteps, SaveFriendRequest, DropRequest, SaveFriendship
  <1>2. Me(p)' = Me(p) /\ Pair(p)' = Pair(p) /\ Pair(p) = { Me(p), with[p] } /\ Pair(p) = { with[p], Me(p) }
    BY <1>1 DEF Me, Pair
  <1>3. \A step : Then(p, step) => doing'[p] = step
    BY DEF Then, TieInv, Types
  <1>4. OnlyPair(p)
    BY <1>1 DEF OnlyPair, SaveFriendRequest, DropRequest, SaveFriendship, Pair
  <1>5. Tie(Me(p), with[p]) /\ Tie(with[p], Me(p))
    BY <1>1, PairTied
  <1>6. CASE SaveFriendRequest(p)
    <2>1. doing[p] = "ask" /\ Then(p, "idle") /\ friends' = friends
          /\ asked' = asked \cup {<< Me(p), with[p] >>}
      BY <1>6 DEF SaveFriendRequest
    <2>2. Knows(p)'
      BY <1>3, <2>1 DEF Knows, AtFriends, FriendSteps
    <2>3. Tie(Me(p), with[p])' /\ Tie(with[p], Me(p))'
      BY <1>1, <1>2, <1>5, <2>1 DEF Knows, Tie
    <2> QED
      BY <1>1, <1>4, <2>1, <2>2, <2>3, ThenApart, ThenOwn
  <1>7. CASE DropRequest(p)
    <2>1. doing[p] = "drop" /\ Then(p, "befriend") /\ friends' = friends
          /\ asked' = asked \ {<< with[p], Me(p) >>}
      BY <1>7 DEF DropRequest
    <2>2. Knows(p)'
      BY <1>1, <1>2, <1>3, <2>1 DEF Knows, AtFriends, FriendSteps
    <2>3. Tie(Me(p), with[p])' /\ Tie(with[p], Me(p))'
      BY <1>1, <1>2, <1>5, <2>1 DEF Tie
    <2> QED
      BY <1>1, <1>4, <2>1, <2>2, <2>3, ThenApart, ThenOwn
  <1>8. CASE SaveFriendship(p)
    <2>1. doing[p] = "befriend" /\ Then(p, "idle") /\ friends' = friends \cup {Pair(p)} /\ asked' = asked
      BY <1>8 DEF SaveFriendship
    <2>2. Knows(p)'
      BY <1>3, <2>1 DEF Knows, AtFriends, FriendSteps
    <2>3. Tie(Me(p), with[p])' /\ Tie(with[p], Me(p))'
      BY <1>1, <1>2, <1>5, <2>1 DEF Knows, Tie
    <2> QED
      BY <1>1, <1>4, <2>1, <2>2, <2>3, ThenApart, ThenOwn
  <1> QED
    BY <1>6, <1>7, <1>8

LEMMA BeginTie ==
  ASSUME TieInv, NEW p \in Devices, NEW v \in Users, NEW step, About(p, v, step),
         step \notin { "checkAsked", "checkBack", "ask", "drop", "befriend" },
         asked' \subseteq asked, friends' \subseteq friends, OnlyPair(p),
         step \in FriendSteps \cup {"idle"} \/ UNCHANGED friendVars
  PROVE  Apart(p) /\ Own(p)
  BY AboutApart, AboutOwn

LEMMA ForgetTie ==
  ASSUME TieInv, NEW p \in Devices, NEW v \in Users,
         DeclineFriendRequest(p, v) \/ CancelFriendRequest(p, v) \/ RemoveFriend(p, v)
  PROVE  Apart(p) /\ Own(p)
  <1>1. with'[p] = v /\ About(p, v, "idle") /\ asked' \subseteq asked /\ friends' \subseteq friends
    BY DEF DeclineFriendRequest, CancelFriendRequest, RemoveFriend, Forget, About, TieInv, Types
  <1>2. OnlyPair(p)
    BY <1>1 DEF OnlyPair, DeclineFriendRequest, CancelFriendRequest, RemoveFriend, Forget
  <1> QED
    BY <1>1, <1>2, BeginTie

LEMMA AskTie ==
  ASSUME TieInv, NEW p \in Devices, NEW v \in Users, NEW step \in Steps, About(p, v, step),
         step \notin { "checkAsked", "checkBack", "ask", "drop", "befriend" }, UNCHANGED friendVars
  PROVE  Apart(p) /\ Own(p)
  <1>1. OnlyPair(p) /\ asked' \subseteq asked /\ friends' \subseteq friends
    BY DEF OnlyPair, friendVars
  <1> QED
    BY <1>1, BeginTie

(* A step that is no matter of friends. *)
LEMMA OtherTie ==
  ASSUME TieInv, NEW p \in Devices, NEW step \in OtherSteps, Then(p, step), with' = with,
         crossed' = crossed, UNCHANGED friendVars
  PROVE  Apart(p) /\ Own(p)
  <1>1. step \notin FriendSteps
    BY DEF OtherSteps, FriendSteps
  <1>2. OnlyPair(p)
    BY DEF OnlyPair, friendVars
  <1>3. doing'[p] = step /\ with[p] \in Users
    BY DEF Then, TieInv, Types
  <1>4. Knows(p)'
    BY <1>1, <1>3 DEF Knows, AtFriends
  <1>5. Tie(Me(p), with[p])' /\ Tie(with[p], Me(p))'
    BY <1>3, PairTied DEF Tie, Me, friendVars
  <1> QED
    BY <1>1, <1>2, <1>4, <1>5, ThenApart, ThenOwn

LEMMA StepTie ==
  ASSUME TieInv, NEW p \in Devices, FriendStep(p) \/ BlockStep(p)
  PROVE  TieInv'
  <1> SUFFICES Apart(p) /\ Own(p)
    BY StepTypes, PairKnown DEF TieInv, Own
  <1>1. CASE \E v \in Users : SendFriendRequest(p, v) \/ AcceptFriendRequest(p, v)
    BY <1>1, AskTie DEF SendFriendRequest, AcceptFriendRequest, Steps, FriendSteps
  <1>2. CASE \E v \in Users : DeclineFriendRequest(p, v) \/ CancelFriendRequest(p, v) \/ RemoveFriend(p, v)
    BY <1>2, ForgetTie
  <1>3. CASE \E v \in Users : SaveBlock(p, v) \/ DeleteBlock(p, v)
    BY <1>3, AskTie DEF SaveBlock, DeleteBlock, Steps, OtherSteps
  <1>4. CASE \E v \in Users : SendDirect(p, v)
    <2>1. PICK v \in Users : SendDirect(p, v)
      BY <1>4
    <2> QED
      BY <2>1, AskTie DEF SendDirect, Steps, OtherSteps
  <1>5. CASE FriendshipExists(p) \/ AlreadyAsked(p) \/ AskedBack(p) \/ Answer(p) \/ StatementFails(p)
    BY <1>5, LookTie
  <1>6. CASE SaveFriendRequest(p) \/ DropRequest(p) \/ SaveFriendship(p)
    BY <1>6, WriteTie
  <1>7. CASE Authenticate(p) \/ LoadBlocks(p) \/ CacheBlock(p) \/ Deliver(p)
    BY <1>7, OtherTie DEF Authenticate, LoadBlocks, CacheBlock, Deliver, OtherSteps
  <1> QED
    BY <1>1, <1>2, <1>3, <1>4, <1>5, <1>6, <1>7 DEF FriendStep, BlockStep

LEMMA InitTie == SocialInit => TieInv
  <1> SUFFICES ASSUME SocialInit PROVE TieInv
    OBVIOUS
  <1>1. Types
    BY InitConsent DEF ConsentInv
  <1>2. \A p \in Devices : ~AtFriends(p)
    BY DEF SocialInit, AtFriends, FriendSteps
  <1> QED
    BY <1>1, <1>2 DEF TieInv, Alone, Knows, OneTieUnlessCrossed, SocialInit

LEMMA StutterTie == ASSUME TieInv, UNCHANGED socialVars PROVE TieInv'
  BY DEF TieInv, Types, Alone, Knows, OneTieUnlessCrossed, AtFriends, Pair, Me, socialVars, friendVars

(* Two users have a friendship, or one request, unless handlers crossed. *)
THEOREM TiesAreSingle == SocialSpec => []OneTieUnlessCrossed
  <1>1. TieInv /\ [SocialNext]_socialVars => TieInv'
    BY StepTie, StutterTie DEF SocialNext
  <1>2. TieInv => OneTieUnlessCrossed
    BY DEF TieInv
  <1> QED
    BY InitTie, <1>1, <1>2, PTL DEF SocialSpec

-----------------------------------------------------------------------------
(* Logins. *)

Fields == { "at", "id", "tok", "new", "email" }

IsRecord(c) == c = [ x \in Fields |-> c[x] ]

(* The shape of the state.  Only connections of the plan ever do anything; *)
(* a login is for an address.                                              *)
Shape ==
    /\ plan \in Plans
    /\ link = [ p \in Conns |-> link[p] ]
    /\ call = [ p \in Conns |-> call[p] ]
    /\ \A p \in Conns : IsRecord(call[p])
    /\ \A p \in Conns : link[p] # "new" \/ call[p].at # "none" => p \in plan.conns
    /\ \A p \in Conns : call[p].at \in { "find email", "failed", "verified" } => call[p].email \in Emails
    /\ fails \in [ Emails -> Nat ] /\ guesses \in [ Emails -> Nat ]

(* Those that have passed the lock of e, and those of them whose wrong     *)
(* password is not counted yet.                                            *)
Failed(e) == { p \in plan.conns : call[p].at = "failed" /\ call[p].email = e }

Looking(e) == { p \in plan.conns : call[p].at \in { "find email", "failed" } /\ call[p].email = e }

Counted ==
    \A e \in Emails :
        /\ guesses[e] <= fails[e] + Cardinality(Failed(e))
        /\ fails[e] + Cardinality(Looking(e)) <= LoginFailLimit + Cardinality(plan.conns) - 1

LoginInv == Shape /\ Counted

-----------------------------------------------------------------------------
LEMMA PlanFinite ==
  ASSUME Shape
  PROVE  /\ plan.conns \subseteq Conns
         /\ IsFiniteSet(plan.conns) /\ Cardinality(plan.conns) \in Nat
         /\ LoginFailLimit \in Nat /\ LoginFailLimit # 0
  <1>1. plan.conns \subseteq Conns /\ IsFiniteSet(Conns) /\ LoginFailLimit \in Nat \ {0}
    BY AccountsAssumption DEF AccountsAssumption, Shape
  <1> QED
    BY <1>1, FS_Subset, FS_CardinalityType

LEMMA TriesFinite ==
  ASSUME Shape, NEW e
  PROVE  /\ IsFiniteSet(Failed(e)) /\ IsFiniteSet(Looking(e))
         /\ Cardinality(Failed(e)) \in Nat /\ Cardinality(Looking(e)) \in Nat
         /\ Cardinality(Failed(e)) <= Cardinality(Looking(e))
         /\ Cardinality(Looking(e)) <= Cardinality(plan.conns)
  <1>1. Looking(e) \subseteq plan.conns /\ Failed(e) \subseteq Looking(e)
    BY DEF Failed, Looking
  <1>2. IsFiniteSet(Looking(e)) /\ Cardinality(Looking(e)) <= Cardinality(plan.conns)
    BY <1>1, PlanFinite, FS_Subset
  <1>3. IsFiniteSet(Failed(e)) /\ Cardinality(Failed(e)) <= Cardinality(Looking(e))
    BY <1>1, <1>2, FS_Subset
  <1> QED
    BY <1>2, <1>3, FS_CardinalityType

(* A step of p that is none of a login's first three. *)
Moves(p) ==
    /\ plan' = plan /\ fails' = fails /\ guesses' = guesses
    /\ link' = [ q \in Conns |-> link'[q] ]
    /\ \A q \in Conns : link'[q] # "new" => q \in plan.conns
    /\ call' = [ q \in Conns |-> IF q = p THEN call'[p] ELSE call[q] ]
    /\ IsRecord(call'[p])
    /\ call'[p].at \notin { "find email", "failed", "verified" }
    /\ call'[p].at # "none" => p \in plan.conns
    /\ call[p].at # "failed"

LEMMA SameCount ==
  ASSUME LoginInv, Shape', plan' = plan, fails' = fails, guesses' = guesses,
         \A e \in Emails : Failed(e)' = Failed(e) /\ Looking(e)' \subseteq Looking(e)
  PROVE  LoginInv'
  <1> SUFFICES ASSUME NEW e \in Emails
               PROVE  /\ guesses[e] <= fails[e] + Cardinality(Failed(e)')
                      /\ fails[e] + Cardinality(Looking(e)') <= LoginFailLimit + Cardinality(plan.conns) - 1
    BY DEF LoginInv, Counted
  <1>1. Failed(e)' = Failed(e) /\ Looking(e)' \subseteq Looking(e)
    OBVIOUS
  <1>2. IsFiniteSet(Looking(e)) /\ Cardinality(Looking(e)) \in Nat
    BY TriesFinite DEF LoginInv
  <1>3. Cardinality(Looking(e)') <= Cardinality(Looking(e)) /\ Cardinality(Looking(e)') \in Nat
    BY <1>1, <1>2, FS_Subset, FS_CardinalityType
  <1>4. fails[e] \in Nat /\ Cardinality(plan.conns) \in Nat /\ LoginFailLimit \in Nat
    BY PlanFinite DEF LoginInv, Shape
  <1>5. /\ guesses[e] <= fails[e] + Cardinality(Failed(e))
        /\ fails[e] + Cardinality(Looking(e)) <= LoginFailLimit + Cardinality(plan.conns) - 1
    BY DEF LoginInv, Counted
  <1> QED
    BY <1>1, <1>2, <1>3, <1>4, <1>5

LEMMA MoveStep == ASSUME LoginInv, NEW p \in Conns, Moves(p) PROVE LoginInv'
  <1>1. \A q \in Conns : q # p => call'[q] = call[q]
    BY DEF Moves
  <1>2. Shape'
    BY <1>1 DEF LoginInv, Shape, Moves
  <1>3. plan.conns \subseteq Conns
    BY PlanFinite DEF LoginInv
  <1>4. \A e \in Emails : Failed(e)' = Failed(e) /\ Looking(e)' \subseteq Looking(e)
    BY <1>1, <1>3 DEF Failed, Looking, Moves
  <1> QED
    BY <1>2, <1>4, SameCount DEF Moves

-----------------------------------------------------------------------------
(* The steps that move: a client's, those of an identity, ... *)

LEMMA NoCallRecord ==
  ASSUME NEW a, NEW u, NEW e
  PROVE  /\ IsRecord(NoCall) /\ NoCall.at = "none"
         /\ IsRecord([ NoCall EXCEPT !.at = a ]) /\ [ NoCall EXCEPT !.at = a ].at = a
         /\ IsRecord([ NoCall EXCEPT !.at = a, !.email = e ]) /\ [ NoCall EXCEPT !.at = a, !.email = e ].at = a
         /\ [ NoCall EXCEPT !.at = a, !.email = e ].email = e
         /\ IsRecord([ NoCall EXCEPT !.at = a, !.id = u ]) /\ [ NoCall EXCEPT !.at = a, !.id = u ].at = a
         /\ IsRecord([ NoCall EXCEPT !.at = a, !.id = u, !.email = e ])
         /\ [ NoCall EXCEPT !.at = a, !.id = u, !.email = e ].at = a
  BY DEF NoCall, IsRecord, Fields

(* A step of a call that is under way: it goes on, or ends. *)
LEMMA CallMoves ==
  ASSUME Shape, NEW p \in Conns, plan' = plan, fails' = fails, guesses' = guesses, link' = link,
         call[p].at \notin { "none", "failed" },
         NEW next, call' = [ call EXCEPT ![p] = next ], IsRecord(next),
         next.at \notin { "find email", "failed", "verified" }
  PROVE  Moves(p)
  <1>1. call'[p] = next /\ p \in plan.conns
    BY DEF Shape
  <1>2. call' = [ q \in Conns |-> IF q = p THEN call'[p] ELSE call[q] ]
    BY DEF Shape
  <1> QED
    BY <1>1, <1>2 DEF Moves, Shape

LEMMA EndMoves ==
  ASSUME Shape, NEW p \in Conns, plan' = plan, fails' = fails, guesses' = guesses, link' = link,
         call[p].at \notin { "none", "failed" }, EndCall(p)
  PROVE  Moves(p)
  BY CallMoves, NoCallRecord DEF EndCall

LEMMA OnMoves ==
  ASSUME Shape, NEW p \in Conns, plan' = plan, fails' = fails, guesses' = guesses, link' = link,
         call[p].at \notin { "none", "failed" }, NEW at, OnTo(p, at),
         at \notin { "find email", "failed", "verified" }
  PROVE  Moves(p)
  <1> DEFINE next == [ call[p] EXCEPT !.at = at ]
  <1>1. call' = [ call EXCEPT ![p] = next ] /\ IsRecord(next) /\ next.at = at
    BY DEF OnTo, Shape, IsRecord, Fields
  <1> HIDE DEF next
  <1> QED
    BY <1>1, CallMoves

(* More of the call changes. *)
LEMMA GoMoves ==
  ASSUME Shape, NEW p \in Conns, plan' = plan, fails' = fails, guesses' = guesses, link' = link,
         call[p].at \notin { "none", "failed" }, NEW at, NEW u, NEW t,
         \/ call' = [ call EXCEPT ![p].at = at, ![p].id = u ]
         \/ call' = [ call EXCEPT ![p].at = at, ![p].new = t ]
         \/ call' = [ call EXCEPT ![p].at = at, ![p].id = u, ![p].new = t ],
         at \notin { "find email", "failed", "verified" }
  PROVE  Moves(p)
  <1>1. PICK next : call' = [ call EXCEPT ![p] = next ] /\ IsRecord(next) /\ next.at = at
    <2> DEFINE n1 == [ call[p] EXCEPT !.at = at, !.id = u ]
               n2 == [ call[p] EXCEPT !.at = at, !.new = t ]
               n3 == [ call[p] EXCEPT !.at = at, !.id = u, !.new = t ]
    <2>1. IsRecord(n1) /\ n1.at = at /\ IsRecord(n2) /\ n2.at = at /\ IsRecord(n3) /\ n3.at = at
      <3>1. call[p] = [ x \in Fields |-> call[p][x] ]
        BY DEF Shape, IsRecord
      <3>2. IsRecord(n1) /\ n1.at = at
        BY <3>1 DEF IsRecord, Fields
      <3>3. IsRecord(n2) /\ n2.at = at
        BY <3>1 DEF IsRecord, Fields
      <3>4. IsRecord(n3) /\ n3.at = at
        BY <3>1 DEF IsRecord, Fields
      <3> QED
        BY <3>2, <3>3, <3>4
    <2>2. call' = [ call EXCEPT ![p] = n1 ] \/ call' = [ call EXCEPT ![p] = n2 ]
          \/ call' = [ call EXCEPT ![p] = n3 ]
      <3>1. call = [ q \in Conns |-> call[q] ]
        BY DEF Shape
      <3>2. [ call EXCEPT ![p].at = at, ![p].id = u ] = [ call EXCEPT ![p] = n1 ]
        BY <3>1
      <3>3. [ call EXCEPT ![p].at = at, ![p].new = t ] = [ call EXCEPT ![p] = n2 ]
        BY <3>1
      <3>4. [ call EXCEPT ![p].at = at, ![p].id = u, ![p].new = t ] = [ call EXCEPT ![p] = n3 ]
        BY <3>1
      <3> HIDE DEF n1, n2, n3
      <3> QED
        BY <3>2, <3>3, <3>4
    <2> HIDE DEF n1, n2, n3
    <2> QED
      BY <2>1, <2>2
  <1> QED
    BY <1>1, CallMoves

LEMMA GoFound ==
  ASSUME Shape, NEW p \in Conns, plan' = plan, fails' = fails, guesses' = guesses, link' = link,
         call[p].at \notin { "none", "failed" }, NEW at, NEW u,
         call' = [ call EXCEPT ![p].at = at, ![p].id = u ],
         at \notin { "find email", "failed", "verified" }
  PROVE  Moves(p)
  BY GoMoves

LEMMA GoWithToken ==
  ASSUME Shape, NEW p \in Conns, plan' = plan, fails' = fails, guesses' = guesses, link' = link,
         call[p].at \notin { "none", "failed" }, NEW at, NEW t,
         call' = [ call EXCEPT ![p].at = at, ![p].new = t ],
         at \notin { "find email", "failed", "verified" }
  PROVE  Moves(p)
  BY GoMoves

LEMMA GoBoth ==
  ASSUME Shape, NEW p \in Conns, plan' = plan, fails' = fails, guesses' = guesses, link' = link,
         call[p].at \notin { "none", "failed" }, NEW at, NEW u, NEW t,
         call' = [ call EXCEPT ![p].at = at, ![p].id = u, ![p].new = t ],
         at \notin { "find email", "failed", "verified" }
  PROVE  Moves(p)
  BY GoMoves

LEMMA ClientKeeps == ASSUME LoginInv, NEW p \in Conns, ClientStep(p) PROVE LoginInv'
  <1>1. plan' = plan /\ call' = call /\ fails' = fails /\ guesses' = guesses
    BY DEF ClientStep, Open, Receive, Close, loginVars
  <1>2. p \in plan.conns /\ (link' = link \/ \E x : link' = [ link EXCEPT ![p] = x ])
    BY DEF ClientStep, Open, Receive, Close, IsOpen, LoginInv, Shape
  <1>3. link' = [ q \in Conns |-> link'[q] ] /\ \A q \in Conns : link'[q] # "new" => q \in plan.conns
    BY <1>2 DEF LoginInv, Shape
  <1>4. Shape'
    BY <1>1, <1>3 DEF LoginInv, Shape
  <1>5. \A e \in Emails : Failed(e)' = Failed(e) /\ Looking(e)' \subseteq Looking(e)
    BY <1>1 DEF Failed, Looking
  <1> QED
    BY <1>1, <1>4, <1>5, SameCount

LEMMA LateKeeps == ASSUME LoginInv, Late \/ UNCHANGED accountVars PROVE LoginInv'
  <1>1. plan' = plan /\ call' = call /\ fails' = fails /\ guesses' = guesses /\ link' = link
    BY DEF Late, loginVars, linkVars, accountVars
  <1>2. Shape'
    BY <1>1 DEF LoginInv, Shape
  <1>3. \A e \in Emails : Failed(e)' = Failed(e) /\ Looking(e)' \subseteq Looking(e)
    BY <1>1 DEF Failed, Looking
  <1> QED
    BY <1>1, <1>2, <1>3, SameCount

LEMMA IdentityMoves == ASSUME Shape, NEW p \in Conns, IdentityStep(p) PROVE Moves(p)
  <1> USE DEF linkVars, loginVars
  <1>1. CASE HandleAuthenticate(p)
    <2> DEFINE a == IF wallet[Mine(p)] = 0 THEN "fresh" ELSE "find"
               next == [ NoCall EXCEPT !.at = a, !.tok = wallet[Mine(p)] ]
    <2>1. /\ plan' = plan /\ fails' = fails /\ guesses' = guesses
          /\ link' = [ link EXCEPT ![p] = "greeted" ] /\ link[p] = "open" /\ call[p] = NoCall
          /\ call' = [ call EXCEPT ![p].at = a, ![p].tok = wallet[Mine(p)] ]
      BY <1>1 DEF HandleAuthenticate
    <2>2. call' = [ call EXCEPT ![p] = next ]
      BY <2>1 DEF Shape
    <2>3. IsRecord(next) /\ next.at = a
      BY DEF NoCall, IsRecord, Fields
    <2>4. call'[p] = next /\ call' = [ q \in Conns |-> IF q = p THEN call'[p] ELSE call[q] ]
      BY <2>2 DEF Shape
    <2>5. a \in { "fresh", "find" } /\ p \in plan.conns
      BY <2>1 DEF Shape
    <2>6. link' = [ q \in Conns |-> link'[q] ] /\ \A q \in Conns : link'[q] # "new" => q \in plan.conns
      BY <2>1, <2>5 DEF Shape
    <2>7. call[p].at # "failed"
      BY <2>1 DEF NoCall
    <2> HIDE DEF next, a
    <2> QED
      BY <2>1, <2>3, <2>4, <2>5, <2>6, <2>7 DEF Moves
  <1>2. CASE FindByToken(p)
    <2>1. /\ call[p].at = "find" /\ plan' = plan /\ fails' = fails /\ guesses' = guesses /\ link' = link
          /\ \/ \E u : call' = [ call EXCEPT ![p].at = "rotate", ![p].id = u ]
             \/ OnTo(p, "fresh")
             \/ EndCall(p)
      BY <1>2 DEF FindByToken, FindKeeps
    <2> QED
      BY <2>1, GoFound, OnMoves, EndMoves
  <1>3. CASE RotateFound(p)
    <2>1. /\ call[p].at = "rotate" /\ plan' = plan /\ fails' = fails /\ guesses' = guesses /\ link' = link
          /\ \E t : call' = [ call EXCEPT ![p].at = "identify", ![p].new = t ]
      BY <1>3 DEF RotateFound
    <2> QED
      BY <2>1, GoWithToken
  <1>4. CASE Identify(p)
    BY <1>4, EndMoves DEF Identify
  <1>5. CASE FreshIdentity(p)
    <2>1. /\ call[p].at = "fresh" /\ plan' = plan /\ fails' = fails /\ guesses' = guesses /\ link' = link
          /\ \E u, t : call' = [ call EXCEPT ![p].at = "save", ![p].id = u, ![p].new = t ]
      BY <1>5 DEF FreshIdentity
    <2> QED
      BY <2>1, GoBoth
  <1>6. CASE SaveUser(p)
    <2>1. /\ call[p].at = "save" /\ plan' = plan /\ fails' = fails /\ guesses' = guesses /\ link' = link
          /\ OnTo(p, "identify") \/ EndCall(p)
      BY <1>6 DEF SaveUser
    <2> QED
      BY <2>1, OnMoves, EndMoves
  <1> QED
    BY <1>1, <1>2, <1>3, <1>4, <1>5, <1>6 DEF IdentityStep

(* ... and those of an account but for a login's first. *)

LEMMA RequestMoves ==
  ASSUME Shape, NEW p \in Conns, NEW kind, NEW first, Request(p, kind, first), UNCHANGED loginVars,
         IsRecord(first), first.at \notin { "find email", "failed", "verified" }
  PROVE  Moves(p)
  <1>1. /\ plan' = plan /\ fails' = fails /\ guesses' = guesses /\ link' = link
        /\ link[p] = "greeted" /\ call[p] = NoCall /\ call' = [ call EXCEPT ![p] = first ]
    BY DEF Request, loginVars, linkVars
  <1>2. call'[p] = first /\ call' = [ q \in Conns |-> IF q = p THEN call'[p] ELSE call[q] ]
    BY <1>1 DEF Shape
  <1>3. link[p] # "new" /\ call[p].at # "failed"
    <2>1. link[p] = "greeted" /\ call[p] = NoCall
      BY <1>1
    <2>2. call[p].at = "none"
      BY <2>1, NoCallRecord
    <2> QED
      BY <2>1, <2>2
  <1>4. p \in plan.conns
    BY <1>3 DEF Shape
  <1> QED
    BY <1>1, <1>2, <1>3, <1>4 DEF Moves, Shape

LEMMA AskMoves ==
  ASSUME Shape, NEW p \in Conns,
         \/ \E e : HandleCreateAccount(p, e) \/ HandleWithPassword(p, "email", e)
         \/ HandleWithPassword(p, "delete", "none") \/ HandleLogout(p) \/ HandleRevokeAll(p)
  PROVE  Moves(p)
  <1>1. ASSUME NEW e, HandleCreateAccount(p, e) PROVE Moves(p)
    <2> DEFINE first == [ NoCall EXCEPT !.at = "create", !.email = e ]
    <2>1. Request(p, "create", first) /\ UNCHANGED loginVars
      BY <1>1 DEF HandleCreateAccount
    <2>2. IsRecord(first) /\ first.at = "create"
      BY NoCallRecord
    <2> HIDE DEF first
    <2> QED
      BY <2>1, <2>2, RequestMoves
  <1>2. ASSUME NEW e, NEW kind \in { "email", "delete" }, HandleWithPassword(p, kind, e) PROVE Moves(p)
    <2> DEFINE first == [ NoCall EXCEPT !.at = kind, !.id = who[p], !.email = e ]
    <2>1. Request(p, kind, first) /\ UNCHANGED loginVars
      BY <1>2 DEF HandleWithPassword
    <2>2. IsRecord(first) /\ first.at = kind
      BY DEF NoCall, IsRecord, Fields
    <2> HIDE DEF first
    <2> QED
      BY <2>1, <2>2, RequestMoves
  <1>3. CASE HandleLogout(p)
    <2> DEFINE a == IF who[p] = 0 THEN "clear" ELSE "logout"
    <2> DEFINE first == [ NoCall EXCEPT !.at = a, !.id = who[p] ]
    <2>1. Request(p, "logout", first) /\ UNCHANGED loginVars
      BY <1>3 DEF HandleLogout
    <2>2. a \in { "clear", "logout" }
      OBVIOUS
    <2> HIDE DEF a
    <2>3. IsRecord(first) /\ first.at = a
      BY NoCallRecord
    <2> HIDE DEF first
    <2> QED
      BY <2>1, <2>2, <2>3, RequestMoves
  <1>4. CASE HandleRevokeAll(p)
    <2> DEFINE first == [ NoCall EXCEPT !.at = "revoke", !.id = who[p] ]
    <2>1. Request(p, "revoke", first) /\ UNCHANGED loginVars
      BY <1>4 DEF HandleRevokeAll
    <2>2. IsRecord(first) /\ first.at = "revoke"
      BY NoCallRecord
    <2> HIDE DEF first
    <2> QED
      BY <2>1, <2>2, RequestMoves
  <1> QED
    BY <1>1, <1>2, <1>3, <1>4

LEMMA AccountMoves ==
  ASSUME Shape, NEW p \in Conns,
         \/ CreateAccount(p) \/ SwitchIdentity(p) \/ RotateLogin(p) \/ InvalidateForLogout(p)
         \/ ClearIdentity(p) \/ InvalidateForRevoke(p) \/ Reissue(p) \/ AnswerRevoked(p)
         \/ SaveEmail(p) \/ DeleteUser(p)
  PROVE  Moves(p)
  <1> USE DEF linkVars, loginVars
  <1>1. CASE CreateAccount(p)
    <2> DEFINE u == ids + 1
               t == tokens + 1
    <2>1. /\ call[p].at = "create" /\ plan' = plan /\ fails' = fails /\ guesses' = guesses /\ link' = link
          /\ \/ call' = [ call EXCEPT ![p].at = "created", ![p].id = u, ![p].new = t ]
             \/ EndCall(p)
      <3>1. call[p].at = "create" /\ plan' = plan /\ fails' = fails /\ guesses' = guesses /\ link' = link
        BY <1>1 DEF CreateAccount
      <3>2. \/ call' = [ call EXCEPT ![p].at = "created", ![p].id = ids + 1, ![p].new = tokens + 1 ]
            \/ EndCall(p)
        <4> HIDE DEF u, t
        <4> QED
          BY <1>1, Zenon DEF CreateAccount
      <3> QED
        BY <3>1, <3>2
    <2> HIDE DEF u, t
    <2>2. CASE EndCall(p)
      BY <2>1, <2>2, EndMoves
    <2>3. CASE call' = [ call EXCEPT ![p].at = "created", ![p].id = u, ![p].new = t ]
      <3>1. "created" \notin { "find email", "failed", "verified" } /\ call[p].at \notin { "none", "failed" }
        BY <2>1
      <3>2. plan' = plan /\ fails' = fails /\ guesses' = guesses /\ link' = link
        BY <2>1
      <3> QED
        BY <2>3, <3>1, <3>2, GoBoth
    <2> QED
      BY <2>1, <2>2, <2>3
  <1>2. CASE SwitchIdentity(p) \/ ClearIdentity(p) \/ AnswerRevoked(p) \/ SaveEmail(p) \/ DeleteUser(p)
    <2>1. /\ call[p].at \notin { "none", "failed" } /\ plan' = plan /\ fails' = fails /\ guesses' = guesses
          /\ link' = link /\ EndCall(p)
      BY <1>2 DEF SwitchIdentity, ClearIdentity, AnswerRevoked, SaveEmail, DeleteUser
    <2> QED
      BY <2>1, EndMoves
  <1>3. CASE RotateLogin(p) \/ Reissue(p)
    <2>1. /\ call[p].at \notin { "none", "failed" } /\ plan' = plan /\ fails' = fails /\ guesses' = guesses
          /\ link' = link
          /\ \E at \in { "logged in", "reissued" } : \E t : call' = [ call EXCEPT ![p].at = at, ![p].new = t ]
      BY <1>3 DEF RotateLogin, Reissue
    <2> QED
      BY <2>1, GoWithToken
  <1>4. CASE InvalidateForLogout(p) \/ InvalidateForRevoke(p)
    <2>1. /\ call[p].at \notin { "none", "failed" } /\ plan' = plan /\ fails' = fails /\ guesses' = guesses
          /\ link' = link
          /\ OnTo(p, "clear") \/ OnTo(p, "reissue") \/ EndCall(p)
      BY <1>4 DEF InvalidateForLogout, InvalidateForRevoke, Invalidate, OnTo
    <2> QED
      BY <2>1, OnMoves, EndMoves
  <1> QED
    BY <1>1, <1>2, <1>3, <1>4

-----------------------------------------------------------------------------
(* The first steps of a login, and the window of the lock. *)

(* The numbers of an address, as they are known to be. *)
LEMMA Numbers ==
  ASSUME LoginInv, NEW e \in Emails
  PROVE  /\ fails[e] \in Nat /\ guesses[e] \in Nat /\ LoginFailLimit \in Nat /\ LoginFailLimit # 0
         /\ Cardinality(plan.conns) \in Nat
         /\ Cardinality(Failed(e)) \in Nat /\ Cardinality(Looking(e)) \in Nat
         /\ Cardinality(Failed(e)) <= Cardinality(Looking(e))
         /\ guesses[e] <= fails[e] + Cardinality(Failed(e))
         /\ fails[e] + Cardinality(Looking(e)) <= LoginFailLimit + Cardinality(plan.conns) - 1
  BY PlanFinite, TriesFinite DEF LoginInv, Shape, Counted

LEMMA LoginStep == ASSUME LoginInv, NEW p \in Conns, NEW e \in Emails, HandleLogin(p, e) PROVE LoginInv'
  <1> DEFINE first == [ NoCall EXCEPT !.at = "find email", !.email = e ]
  <1>1. /\ plan' = plan /\ fails' = fails /\ guesses' = guesses /\ link' = link
        /\ link[p] = "greeted" /\ call[p] = NoCall /\ call' = [ call EXCEPT ![p] = first ]
        /\ fails[e] < LoginFailLimit
    BY DEF HandleLogin, Request, loginVars, linkVars
  <1>2. IsRecord(first) /\ first.at = "find email" /\ first.email = e
    BY DEF NoCall, IsRecord, Fields
  <1> HIDE DEF first
  <1>3. call'[p] = first /\ \A q \in Conns : q # p => call'[q] = call[q]
    BY <1>1 DEF LoginInv, Shape
  <1>4. link[p] # "new" /\ call[p].at = "none"
    <2>1. link[p] = "greeted" /\ call[p] = NoCall
      BY <1>1
    <2> QED
      BY <2>1, NoCallRecord
  <1>5. Shape'
    <2>1. p \in plan.conns
      BY <1>4 DEF LoginInv, Shape
    <2>2. call' = [ q \in Conns |-> call'[q] ]
      BY <1>1 DEF LoginInv, Shape
    <2>3. \A q \in Conns : IsRecord(call'[q])
      BY <1>2, <1>3 DEF LoginInv, Shape
    <2>4. \A q \in Conns : link[q] # "new" \/ call'[q].at # "none" => q \in plan.conns
      BY <1>3, <2>1 DEF LoginInv, Shape
    <2>5. \A q \in Conns : call'[q].at \in { "find email", "failed", "verified" } => call'[q].email \in Emails
      BY <1>2, <1>3 DEF LoginInv, Shape
    <2> QED
      BY <1>1, <2>2, <2>3, <2>4, <2>5 DEF LoginInv, Shape
  <1>6. ASSUME NEW x \in Emails
        PROVE  /\ guesses[x] <= fails[x] + Cardinality(Failed(x)')
               /\ fails[x] + Cardinality(Looking(x)') <= LoginFailLimit + Cardinality(plan.conns) - 1
    <2>1. plan.conns \subseteq Conns
      BY PlanFinite DEF LoginInv
    <2>2. Failed(x)' = Failed(x)
      BY <1>1, <1>2, <1>3, <1>4, <2>1 DEF Failed
    <2>3. CASE x # e
      <3>1. Looking(x)' = Looking(x)
        BY <1>1, <1>2, <1>3, <1>4, <2>1, <2>3 DEF Looking
      <3> QED
        BY <2>2, <3>1, Numbers
    <2>4. CASE x = e
      <3>1. Cardinality(Looking(x)') <= Cardinality(plan.conns) /\ Cardinality(Looking(x)') \in Nat
        <4>1. Looking(x)' \subseteq plan.conns
          BY <1>1 DEF Looking
        <4> QED
          BY <4>1, PlanFinite, FS_Subset, FS_CardinalityType DEF LoginInv
      <3> QED
        BY <1>1, <2>2, <2>4, <3>1, Numbers
    <2> QED
      BY <2>3, <2>4
  <1> QED
    BY <1>1, <1>5, <1>6 DEF LoginInv, Counted

LEMMA FindByEmailStep == ASSUME LoginInv, NEW p \in Conns, FindByEmail(p) PROVE LoginInv'
  <1> DEFINE e == call[p].email
  <1>1. /\ plan' = plan /\ fails' = fails /\ link' = link /\ call[p].at = "find email" /\ e \in Emails
        /\ p \in plan.conns
    BY DEF FindByEmail, linkVars, LoginInv, Shape
  <1>2. PICK next :
        /\ call' = [ call EXCEPT ![p] = next ] /\ IsRecord(next)
        /\ \/ /\ next.at = "failed" /\ next.email = e
              /\ guesses' = [ guesses EXCEPT ![e] = @ + 1 ]
           \/ next.at = "none" /\ guesses' = guesses
           \/ next.at = "verified" /\ next.email = e /\ guesses' = guesses
    <2>1. CASE OnTo(p, "failed") /\ guesses' = [ guesses EXCEPT ![e] = @ + 1 ]
      <3> DEFINE n1 == [ call[p] EXCEPT !.at = "failed" ]
      <3>1. call' = [ call EXCEPT ![p] = n1 ] /\ IsRecord(n1) /\ n1.at = "failed" /\ n1.email = e
        BY <2>1 DEF OnTo, LoginInv, Shape, IsRecord, Fields
      <3> QED
        BY <2>1, <3>1
    <2>2. CASE EndCall(p) /\ guesses' = guesses
      BY <2>2, NoCallRecord DEF EndCall
    <2>3. CASE \E u : call' = [ call EXCEPT ![p].at = "verified", ![p].id = u ] /\ guesses' = guesses
      <3>1. PICK u : call' = [ call EXCEPT ![p].at = "verified", ![p].id = u ] /\ guesses' = guesses
        BY <2>3
      <3> DEFINE n2 == [ call[p] EXCEPT !.at = "verified", !.id = u ]
      <3>2. call[p] = [ x \in Fields |-> call[p][x] ] /\ call = [ q \in Conns |-> call[q] ]
        BY DEF LoginInv, Shape, IsRecord
      <3>3. IsRecord(n2) /\ n2.at = "verified" /\ n2.email = e
        BY <3>2 DEF IsRecord, Fields
      <3>4. [ call EXCEPT ![p].at = "verified", ![p].id = u ] = [ call EXCEPT ![p] = n2 ]
        BY <3>2
      <3> HIDE DEF n2
      <3> QED
        BY <3>1, <3>3, <3>4
    <2> QED
      BY <2>1, <2>2, <2>3 DEF FindByEmail
  <1>3. call'[p] = next /\ \A q \in Conns : q # p => call'[q] = call[q]
    BY <1>2 DEF LoginInv, Shape
  <1> HIDE DEF e
  <1>4. Shape'
    <2>1. call' = [ q \in Conns |-> call'[q] ]
      BY <1>2 DEF LoginInv, Shape
    <2>2. \A q \in Conns : IsRecord(call'[q])
      BY <1>2, <1>3 DEF LoginInv, Shape
    <2>3. \A q \in Conns : link[q] # "new" \/ call'[q].at # "none" => q \in plan.conns
      BY <1>1, <1>3 DEF LoginInv, Shape
    <2>4. \A q \in Conns : call'[q].at \in { "find email", "failed", "verified" } => call'[q].email \in Emails
      <3>1. next.at \in { "find email", "failed", "verified" } => next.email \in Emails
        BY <1>1, <1>2
      <3> QED
        BY <1>3, <3>1 DEF LoginInv, Shape
    <2>5. guesses' \in [ Emails -> Nat ]
      <3>1. guesses' = guesses \/ guesses' = [ guesses EXCEPT ![e] = @ + 1 ]
        BY <1>2
      <3>2. guesses \in [ Emails -> Nat ] /\ e \in Emails
        BY <1>1 DEF LoginInv, Shape
      <3> QED
        BY <3>1, <3>2
    <2> QED
      BY <1>1, <2>1, <2>2, <2>3, <2>4, <2>5 DEF LoginInv, Shape
  <1>5. plan.conns \subseteq Conns
    BY PlanFinite DEF LoginInv
  <1>6. ASSUME NEW x \in Emails PROVE Looking(x)' \subseteq Looking(x)
    BY <1>1, <1>2, <1>3, <1>5 DEF Looking, e
  <1>7. CASE next.at # "failed"
    <2>1. guesses' = guesses
      BY <1>2, <1>7
    <2>2. \A x \in Emails : Failed(x)' = Failed(x)
      BY <1>1, <1>2, <1>3, <1>5, <1>7 DEF Failed
    <2> QED
      BY <1>1, <1>4, <1>6, <2>1, <2>2, SameCount
  <1>8. CASE next.at = "failed"
    <2>1. guesses' = [ guesses EXCEPT ![e] = @ + 1 ] /\ next.email = e
      BY <1>2, <1>8
    <2>2. ASSUME NEW x \in Emails
          PROVE  /\ guesses'[x] <= fails[x] + Cardinality(Failed(x)')
                 /\ fails[x] + Cardinality(Looking(x)') <= LoginFailLimit + Cardinality(plan.conns) - 1
      <3>1. Cardinality(Looking(x)') <= Cardinality(Looking(x)) /\ Cardinality(Looking(x)') \in Nat
        BY <1>6, TriesFinite, FS_Subset, FS_CardinalityType DEF LoginInv
      <3>2. CASE x = e
        <4>1. Failed(x)' = Failed(x) \cup {p} /\ p \notin Failed(x)
          BY <1>1, <1>3, <1>5, <1>8, <2>1, <3>2 DEF Failed
        <4>2. Cardinality(Failed(x)') = Cardinality(Failed(x)) + 1
          BY <4>1, TriesFinite, FS_AddElement DEF LoginInv
        <4>3. guesses'[x] = guesses[x] + 1
          BY <2>1, <3>2 DEF LoginInv, Shape
        <4> QED
          BY <3>1, <4>2, <4>3, Numbers
      <3>3. CASE x # e
        <4>1. Failed(x)' = Failed(x)
          BY <1>1, <1>3, <1>5, <1>8, <2>1, <3>3 DEF Failed
        <4>2. guesses'[x] = guesses[x]
          BY <2>1, <3>3 DEF LoginInv, Shape
        <4> QED
          BY <3>1, <4>1, <4>2, Numbers
      <3> QED
        BY <3>2, <3>3
    <2> QED
      BY <1>1, <1>4, <2>2 DEF LoginInv, Counted
  <1> QED
    BY <1>7, <1>8

LEMMA RecordStep == ASSUME LoginInv, NEW p \in Conns, RecordFailure(p) PROVE LoginInv'
  <1> DEFINE e == call[p].email
  <1>1. /\ plan' = plan /\ guesses' = guesses /\ link' = link /\ call[p].at = "failed" /\ e \in Emails
        /\ p \in plan.conns /\ fails' = [ fails EXCEPT ![e] = @ + 1 ]
        /\ call' = [ call EXCEPT ![p] = NoCall ]
    BY DEF RecordFailure, EndCall, linkVars, LoginInv, Shape
  <1>2. call'[p].at = "none" /\ IsRecord(call'[p]) /\ \A q \in Conns : q # p => call'[q] = call[q]
    BY <1>1, NoCallRecord DEF LoginInv, Shape
  <1> HIDE DEF e
  <1>3. Shape'
    <2>1. fails' \in [ Emails -> Nat ]
      <3>1. fails \in [ Emails -> Nat ]
        BY DEF LoginInv, Shape
      <3>2. e \in Emails /\ fails' = [ fails EXCEPT ![e] = @ + 1 ]
        BY <1>1
      <3> QED
        BY <3>1, <3>2
    <2>2. call' = [ q \in Conns |-> call'[q] ]
      BY <1>1 DEF LoginInv, Shape
    <2> QED
      BY <1>1, <1>2, <2>1, <2>2 DEF LoginInv, Shape
  <1>4. plan.conns \subseteq Conns
    BY PlanFinite DEF LoginInv
  <1>5. ASSUME NEW x \in Emails
        PROVE  /\ guesses[x] <= fails'[x] + Cardinality(Failed(x)')
               /\ fails'[x] + Cardinality(Looking(x)') <= LoginFailLimit + Cardinality(plan.conns) - 1
    <2>1. CASE x = e
      <3>1. Failed(x)' = Failed(x) \ {p} /\ p \in Failed(x)
        BY <1>1, <1>2, <1>4, <2>1 DEF Failed, e
      <3>2. Looking(x)' = Looking(x) \ {p} /\ p \in Looking(x)
        BY <1>1, <1>2, <1>4, <2>1 DEF Looking, e
      <3>3. Cardinality(Failed(x)') = Cardinality(Failed(x)) - 1
            /\ Cardinality(Looking(x)') = Cardinality(Looking(x)) - 1
        BY <3>1, <3>2, TriesFinite, FS_RemoveElement DEF LoginInv
      <3>4. fails'[x] = fails[x] + 1
        BY <1>1, <2>1 DEF LoginInv, Shape
      <3> QED
        BY <3>3, <3>4, Numbers
    <2>2. CASE x # e
      <3>1. Failed(x)' = Failed(x) /\ Looking(x)' = Looking(x)
        BY <1>1, <1>2, <1>4, <2>2 DEF Failed, Looking, e
      <3>2. fails'[x] = fails[x]
        BY <1>1, <2>2 DEF LoginInv, Shape
      <3> QED
        BY <3>1, <3>2, Numbers
    <2> QED
      BY <2>1, <2>2
  <1> QED
    BY <1>1, <1>3, <1>5 DEF LoginInv, Counted

(* The count goes back to 0. *)
LEMMA ResetCount ==
  ASSUME LoginInv, Shape', plan' = plan, NEW e \in Emails,
         fails' = [ fails EXCEPT ![e] = 0 ], guesses' = [ guesses EXCEPT ![e] = 0 ],
         \A x \in Emails : Failed(x)' = Failed(x) /\ Looking(x)' \subseteq Looking(x)
  PROVE  LoginInv'
  <1> SUFFICES ASSUME NEW x \in Emails
               PROVE  /\ guesses'[x] <= fails'[x] + Cardinality(Failed(x)')
                      /\ fails'[x] + Cardinality(Looking(x)') <= LoginFailLimit + Cardinality(plan.conns) - 1
    BY DEF LoginInv, Counted
  <1>1. Cardinality(Looking(x)') <= Cardinality(Looking(x)) /\ Cardinality(Looking(x)') \in Nat
    BY TriesFinite, FS_Subset, FS_CardinalityType DEF LoginInv
  <1>2. Failed(x)' = Failed(x)
    OBVIOUS
  <1>3. \/ fails'[x] = fails[x] /\ guesses'[x] = guesses[x]
        \/ fails'[x] = 0 /\ guesses'[x] = 0
    BY DEF LoginInv, Shape
  <1> QED
    BY <1>1, <1>2, <1>3, Numbers

LEMMA ClearStep == ASSUME LoginInv, NEW p \in Conns, ClearFailures(p) PROVE LoginInv'
  <1> DEFINE e == call[p].email
             next == [ call[p] EXCEPT !.at = "login" ]
  <1>1. /\ plan' = plan /\ link' = link /\ call[p].at = "verified" /\ e \in Emails /\ p \in plan.conns
        /\ fails' = [ fails EXCEPT ![e] = 0 ] /\ guesses' = [ guesses EXCEPT ![e] = 0 ]
        /\ call' = [ call EXCEPT ![p] = next ]
    BY DEF ClearFailures, OnTo, linkVars, LoginInv, Shape
  <1>2. IsRecord(next) /\ next.at = "login"
    BY DEF LoginInv, Shape, IsRecord, Fields
  <1> HIDE DEF next, e
  <1>3. call'[p] = next /\ \A q \in Conns : q # p => call'[q] = call[q]
    BY <1>1 DEF LoginInv, Shape
  <1>4. fails' \in [ Emails -> Nat ] /\ guesses' \in [ Emails -> Nat ]
    BY <1>1 DEF LoginInv, Shape
  <1>5. Shape'
    BY <1>1, <1>2, <1>3, <1>4 DEF LoginInv, Shape
  <1>6. plan.conns \subseteq Conns
    BY PlanFinite DEF LoginInv
  <1>7. \A x \in Emails : Failed(x)' = Failed(x) /\ Looking(x)' \subseteq Looking(x)
    BY <1>1, <1>2, <1>3, <1>6 DEF Failed, Looking
  <1> QED
    BY <1>1, <1>5, <1>7, ResetCount

LEMMA WindowStep == ASSUME LoginInv, NEW e \in Emails, WindowEnds(e) PROVE LoginInv'
  <1>1. /\ plan' = plan /\ link' = link /\ call' = call
        /\ fails' = [ fails EXCEPT ![e] = 0 ] /\ guesses' = [ guesses EXCEPT ![e] = 0 ]
    BY DEF WindowEnds, linkVars
  <1>2. Shape'
    BY <1>1 DEF LoginInv, Shape
  <1>3. \A x \in Emails : Failed(x)' = Failed(x) /\ Looking(x)' \subseteq Looking(x)
    BY <1>1 DEF Failed, Looking
  <1> QED
    BY <1>1, <1>2, <1>3, ResetCount

-----------------------------------------------------------------------------
LEMMA InitLogin == AccountsInit => LoginInv
  <1> SUFFICES ASSUME AccountsInit PROVE LoginInv
    OBVIOUS
  <1>1. /\ plan \in Plans
        /\ link = [ p \in Conns |-> "new" ] /\ call = [ p \in Conns |-> NoCall ]
        /\ fails = [ e \in Emails |-> 0 ] /\ guesses = [ e \in Emails |-> 0 ]
    BY DEF AccountsInit
  <1>2. \A p \in Conns : call[p] = NoCall /\ call[p].at = "none" /\ link[p] = "new" /\ IsRecord(call[p])
    BY <1>1, NoCallRecord
  <1>3. Shape
    BY <1>1, <1>2 DEF Shape
  <1>4. ASSUME NEW e \in Emails
        PROVE  /\ guesses[e] <= fails[e] + Cardinality(Failed(e))
               /\ fails[e] + Cardinality(Looking(e)) <= LoginFailLimit + Cardinality(plan.conns) - 1
    <2>1. Looking(e) = {} /\ Failed(e) = {}
      BY <1>2, <1>3, PlanFinite DEF Looking, Failed
    <2>2. fails[e] = 0 /\ guesses[e] = 0
      BY <1>1
    <2> QED
      BY <2>1, <2>2, <1>3, PlanFinite, FS_EmptySet
  <1> QED
    BY <1>3, <1>4 DEF LoginInv, Counted

LEMMA StepLogin == ASSUME LoginInv, AccountsNext PROVE LoginInv'
  <1>1. CASE \E p \in Conns : ClientStep(p) \/ IdentityStep(p)
    BY <1>1, ClientKeeps, IdentityMoves, MoveStep DEF LoginInv
  <1>2. CASE \E p \in Conns : AccountStep(p)
    <2>1. PICK p \in Conns : AccountStep(p)
      BY <1>2
    <2>2. CASE Moves(p)
      BY <2>2, MoveStep
    <2>3. CASE \E e \in Emails : HandleLogin(p, e)
      BY <2>3, LoginStep
    <2>4. CASE FindByEmail(p) \/ RecordFailure(p) \/ ClearFailures(p)
      BY <2>4, FindByEmailStep, RecordStep, ClearStep
    <2> QED
      BY <2>1, <2>2, <2>3, <2>4, AskMoves, AccountMoves DEF AccountStep, LoginInv
  <1>3. CASE Late \/ \E e \in Emails : WindowEnds(e)
    BY <1>3, LateKeeps, WindowStep
  <1> QED
    BY <1>1, <1>2, <1>3 DEF AccountsNext

(* Wrong passwords in a row, of all connections together. *)
THEOREM GuessesAreBounded == AccountsSpec => []LoginTriesBounded
  <1>1. LoginInv /\ [AccountsNext]_accountVars => LoginInv'
    BY StepLogin, LateKeeps
  <1>2. LoginInv => LoginTriesBounded
    BY Numbers DEF LoginTriesBounded
  <1> QED
    BY InitLogin, <1>1, <1>2, PTL DEF AccountsSpec

-----------------------------------------------------------------------------
(* Accounts.  Every step of a handler is brought to one form (Handles,     *)
(* Works), so that an invariant is shown for that form and not for each.   *)

(* How far a handler is. *)
HandlerSteps ==
    { "none", "find", "rotate", "fresh", "save", "identify", "create", "created", "find email", "failed", "verified",
      "login", "logged in", "logout", "clear", "revoke", "reissue", "reissued", "email", "delete" }

(* The steps at which a handler is about a user. *)
AboutUser ==
    { "rotate", "save", "identify", "created", "verified", "login", "logged in", "logout", "revoke", "reissue", "reissued",
      "email", "delete" }

(* What an answer may say. *)
Kinds == { "authenticated", "created", "logged in", "logged out", "deleted" }

Addresses == Emails \cup { "none" }

CallRecords ==
    [ at : HandlerSteps, id : 0 .. ids, tok : 0 .. tokens, new : 0 .. tokens, email : Addresses ]

LateRecords == [ id : 1 .. ids, tok : 0 .. tokens, insert : BOOLEAN, email : Addresses ]

UserTypes ==
    /\ token \in [ UserIds -> -1 .. tokens ]
    /\ email \in [ UserIds -> Addresses ]
    /\ \A u \in UserIds : u > ids => token[u] = NoRow

(* The shape of the state: users and tokens are those given so far; a      *)
(* client has one connection open, and only an open one has answers.       *)
AccountTypes ==
    /\ ids \in 0 .. MaxUserIds /\ tokens \in Nat
    /\ wallet \in [ Clients -> 0 .. tokens ]
    /\ link \in [ Conns -> { "new", "open", "greeted", "closed" } ]
    /\ mail \in [ Conns -> Seq(Kinds \X (0 .. tokens)) ]
    /\ who \in [ Conns -> 0 .. ids ]
    /\ UserTypes
    /\ call \in [ Conns -> CallRecords ]
    /\ late \subseteq LateRecords
    /\ \A p \in Conns : call[p].at \in { "create", "email" } => call[p].email \in Emails
    /\ \A p \in Conns : call[p].at \in AboutUser => call[p].id # 0
    /\ \A p \in Conns : link[p] = "new" => call[p].at = "none" /\ who[p] = 0
    /\ \A p \in Conns : ~IsOpen(p) => mail[p] = <<>>
    /\ \A p, q \in Conns : p # q /\ Mine(p) = Mine(q) => ~(IsOpen(p) /\ IsOpen(q))

LEMMA Counts == ASSUME AccountTypes PROVE ids \in Nat /\ tokens \in Nat /\ MaxUserIds \in Nat
  BY AccountsAssumption DEF AccountTypes, AccountsAssumption

LEMMA WhoTyped == ASSUME AccountTypes, NEW p \in Conns PROVE who[p] \in 0 .. ids /\ 0 \in 0 .. ids
  <1>1. 0 \in 0 .. ids
    BY Counts
  <1> QED
    BY <1>1 DEF AccountTypes

LEMMA MineIsClient == ASSUME NEW p \in Conns PROVE Mine(p) \in Clients
  BY DEF Mine, Clients

-----------------------------------------------------------------------------
(* What the step of a handler does to its own call, to the answers of its  *)
(* connection and to its identity: it goes on to a, about the user u, with *)
(* the token k that was shown and the token n for the answer.              *)

Record(a, u, k, n, e) == [ at |-> a, id |-> u, tok |-> k, new |-> n, email |-> e ]

Turn(p, c) == call' = [ call EXCEPT ![p] = c ]

Sends(p) ==
    \/ mail' = mail
    \/ IsOpen(p) /\ \E kind \in Kinds, t \in { 0, call[p].new } : mail' = [ mail EXCEPT ![p] = Append(@, << kind, t >>) ]

Handles(p, a, u, k, n, e) ==
    /\ Turn(p, Record(a, u, k, n, e))
    /\ wallet' = wallet /\ link[p] # "new"
    /\ link' = link \/ (link[p] = "open" /\ link' = [ link EXCEPT ![p] = "greeted" ])
    /\ Sends(p)
    /\ who' = who \/ (IsOpen(p) /\ \E w \in { 0, call[p].id, u } : who' = [ who EXCEPT ![p] = w ])
    /\ ids' \in { ids, ids + 1 } /\ tokens' \in { tokens, tokens + 1 }
    /\ k \in { 0, call[p].tok, wallet[Mine(p)] }
    /\ n \in { 0, call[p].new, call[p].tok } \/ (n = tokens' /\ tokens' = tokens + 1)
    /\ u \in 0 .. ids' /\ a \in HandlerSteps /\ e \in Addresses
    /\ a \in { "create", "email" } => e \in Emails
    /\ a \in AboutUser => u # 0

LEMMA Same ==
  ASSUME AccountTypes, NEW p \in Conns
  PROVE  /\ call[p] = Record(call[p].at, call[p].id, call[p].tok, call[p].new, call[p].email)
         /\ call[p].at \in HandlerSteps /\ call[p].id \in 0 .. ids /\ call[p].tok \in 0 .. tokens
         /\ call[p].new \in 0 .. tokens /\ call[p].email \in Addresses
         /\ call = [ q \in Conns |-> call[q] ]
  BY DEF AccountTypes, CallRecords, Record

(* The ways a call is changed. *)
LEMMA Turns ==
  ASSUME AccountTypes, NEW p \in Conns, NEW a, NEW u, NEW n
  PROVE  /\ OnTo(p, a) => Turn(p, Record(a, call[p].id, call[p].tok, call[p].new, call[p].email))
         /\ EndCall(p) => Turn(p, Record("none", 0, 0, 0, "none"))
         /\ call' = [ call EXCEPT ![p].at = a, ![p].id = u ] =>
                Turn(p, Record(a, u, call[p].tok, call[p].new, call[p].email))
         /\ call' = [ call EXCEPT ![p].at = a, ![p].new = n ] =>
                Turn(p, Record(a, call[p].id, call[p].tok, n, call[p].email))
         /\ call' = [ call EXCEPT ![p].at = a, ![p].tok = n ] =>
                Turn(p, Record(a, call[p].id, n, call[p].new, call[p].email))
         /\ call' = [ call EXCEPT ![p].at = a, ![p].id = u, ![p].new = n ] =>
                Turn(p, Record(a, u, call[p].tok, n, call[p].email))
  <1> DEFINE r == call[p]
  <1>1. r = Record(r.at, r.id, r.tok, r.new, r.email) /\ call = [ q \in Conns |-> call[q] ]
    BY Same
  <1>2. OnTo(p, a) => Turn(p, Record(a, call[p].id, call[p].tok, call[p].new, call[p].email))
    BY <1>1 DEF OnTo, Turn, Record
  <1>3. EndCall(p) => Turn(p, Record("none", 0, 0, 0, "none"))
    BY DEF EndCall, Turn, Record, NoCall
  <1>4. call' = [ call EXCEPT ![p].at = a, ![p].id = u ] => Turn(p, Record(a, u, call[p].tok, call[p].new, call[p].email))
    BY <1>1 DEF Turn, Record
  <1>5. call' = [ call EXCEPT ![p].at = a, ![p].new = n ] => Turn(p, Record(a, call[p].id, call[p].tok, n, call[p].email))
    BY <1>1 DEF Turn, Record
  <1>6. call' = [ call EXCEPT ![p].at = a, ![p].tok = n ] => Turn(p, Record(a, call[p].id, n, call[p].new, call[p].email))
    BY <1>1 DEF Turn, Record
  <1>7. call' = [ call EXCEPT ![p].at = a, ![p].id = u, ![p].new = n ] =>
            Turn(p, Record(a, u, call[p].tok, n, call[p].email))
    BY <1>1 DEF Turn, Record
  <1> QED
    BY <1>2, <1>3, <1>4, <1>5, <1>6, <1>7

LEMMA Turned ==
  ASSUME AccountTypes, NEW p \in Conns, NEW a, NEW u, NEW k, NEW n, NEW e, Turn(p, Record(a, u, k, n, e))
  PROVE  /\ call'[p].at = a /\ call'[p].id = u /\ call'[p].tok = k /\ call'[p].new = n /\ call'[p].email = e
         /\ \A q \in Conns : q # p => call'[q] = call[q]
         /\ call' = [ q \in Conns |-> IF q = p THEN Record(a, u, k, n, e) ELSE call[q] ]
  BY Same DEF Turn, Record

LEMMA HandlesTypes ==
  ASSUME AccountTypes, NEW p \in Conns, NEW a, NEW u, NEW k, NEW n, NEW e, Handles(p, a, u, k, n, e),
         ids' <= MaxUserIds,
         UserTypes', late' \subseteq LateRecords'
  PROVE  AccountTypes'
  <1>0. /\ Turn(p, Record(a, u, k, n, e)) /\ wallet' = wallet /\ link[p] # "new"
        /\ link' = link \/ (link[p] = "open" /\ link' = [ link EXCEPT ![p] = "greeted" ])
        /\ Sends(p)
        /\ who' = who \/ (IsOpen(p) /\ \E w \in { 0, call[p].id, u } : who' = [ who EXCEPT ![p] = w ])
        /\ ids' \in { ids, ids + 1 } /\ tokens' \in { tokens, tokens + 1 }
        /\ k \in { 0, call[p].tok, wallet[Mine(p)] }
        /\ n \in { 0, call[p].new, call[p].tok } \/ (n = tokens' /\ tokens' = tokens + 1)
        /\ u \in 0 .. ids' /\ a \in HandlerSteps /\ e \in Addresses
        /\ a \in { "create", "email" } => e \in Emails
        /\ a \in AboutUser => u # 0
    BY DEF Handles
  <1>1. /\ ids' \in 0 .. MaxUserIds /\ tokens' \in Nat /\ ids <= ids' /\ tokens <= tokens'
        /\ 0 .. ids \subseteq 0 .. ids' /\ 0 .. tokens \subseteq 0 .. tokens'
    BY <1>0, AccountsAssumption DEF AccountTypes, AccountsAssumption
  <1>2. wallet' \in [ Clients -> 0 .. tokens' ] /\ wallet[Mine(p)] \in 0 .. tokens
    BY <1>0, <1>1, MineIsClient DEF AccountTypes
  <1>3. /\ link' \in [ Conns -> { "new", "open", "greeted", "closed" } ]
        /\ \A q \in Conns : IsOpen(q)' = IsOpen(q) /\ (link'[q] = "new" <=> link[q] = "new")
    <2>1. link \in [ Conns -> { "new", "open", "greeted", "closed" } ]
      BY DEF AccountTypes
    <2>2. CASE link' = link
      BY <2>1, <2>2 DEF IsOpen
    <2>3. CASE link[p] = "open" /\ link' = [ link EXCEPT ![p] = "greeted" ]
      BY <2>1, <2>3 DEF IsOpen
    <2> QED
      BY <1>0, <2>2, <2>3
  <1>4. mail' \in [ Conns -> Seq(Kinds \X (0 .. tokens')) ] /\ \A q \in Conns : q # p => mail'[q] = mail[q]
    <2>1. mail \in [ Conns -> Seq(Kinds \X (0 .. tokens')) ]
      <3>1. mail \in [ Conns -> Seq(Kinds \X (0 .. tokens)) ]
        BY DEF AccountTypes
      <3>2. ASSUME NEW s \in Seq(Kinds \X (0 .. tokens)) PROVE s \in Seq(Kinds \X (0 .. tokens'))
        <4>1. \A i \in 1 .. Len(s) : s[i] \in Kinds \X (0 .. tokens')
          BY <1>1
        <4> QED
          BY <4>1
      <3> QED
        BY <3>1, <3>2
    <2>2. call[p].new \in 0 .. tokens' /\ 0 \in 0 .. tokens'
      BY <1>1, Same
    <2>3. CASE mail' = mail
      BY <2>1, <2>3
    <2>4. ASSUME NEW kind \in Kinds, NEW t \in { 0, call[p].new }, mail' = [ mail EXCEPT ![p] = Append(@, << kind, t >>) ]
          PROVE  mail' \in [ Conns -> Seq(Kinds \X (0 .. tokens')) ] /\ \A q \in Conns : q # p => mail'[q] = mail[q]
      <3>1. << kind, t >> \in Kinds \X (0 .. tokens')
        BY <2>2
      <3>2. Append(mail[p], << kind, t >>) \in Seq(Kinds \X (0 .. tokens'))
        BY <2>1, <3>1
      <3> QED
        BY <2>1, <2>4, <3>2
    <2> QED
      BY <1>0, <2>3, <2>4 DEF Sends
  <1>5. ~IsOpen(p) => mail' = mail
    BY <1>0 DEF Sends
  <1>6. who' \in [ Conns -> 0 .. ids' ] /\ \A q \in Conns : q # p => who'[q] = who[q]
    <2>1. who \in [ Conns -> 0 .. ids' ] /\ call[p].id \in 0 .. ids' /\ 0 \in 0 .. ids'
      <3>1. who \in [ Conns -> 0 .. ids ] /\ call[p].id \in 0 .. ids
        BY Same DEF AccountTypes
      <3> QED
        BY <1>1, <3>1
    <2> QED
      BY <1>0, <2>1
  <1>7. Record(a, u, k, n, e) \in CallRecords'
    <2>1. k \in 0 .. tokens' /\ n \in 0 .. tokens'
      BY <1>0, <1>1, <1>2, Same
    <2> QED
      BY <1>0, <2>1 DEF CallRecords, Record, Addresses
  <1>8. \A q \in Conns : q # p => call'[q] = call[q]
    BY <1>0, Turned
  <1>9. /\ call'[p].at = a /\ call'[p].id = u /\ call'[p].email = e
        /\ call' = [ q \in Conns |-> IF q = p THEN Record(a, u, k, n, e) ELSE call[q] ]
    BY <1>0, Turned
  <1>10. call' \in [ Conns -> CallRecords' ]
    <2>1. ASSUME NEW q \in Conns PROVE call[q] \in CallRecords'
      <3>1. call[q] \in CallRecords
        BY DEF AccountTypes
      <3> QED
        BY <1>1, <3>1 DEF CallRecords, Addresses
    <2> QED
      BY <2>1, <1>7, <1>9
  <1>11. \A q \in Conns : call'[q].at \in { "create", "email" } => call'[q].email \in Emails
    BY <1>0, <1>8, <1>9 DEF AccountTypes
  <1>12. \A q \in Conns : call'[q].at \in AboutUser => call'[q].id # 0
    BY <1>0, <1>8, <1>9 DEF AccountTypes
  <1>13. \A q \in Conns : link'[q] = "new" => call'[q].at = "none" /\ who'[q] = 0
    BY <1>0, <1>3, <1>6, <1>8 DEF AccountTypes
  <1>14. \A q \in Conns : ~IsOpen(q)' => mail'[q] = <<>>
    BY <1>3, <1>4, <1>5 DEF AccountTypes
  <1>15. \A q, r \in Conns : q # r /\ Mine(q)' = Mine(r)' => ~(IsOpen(q)' /\ IsOpen(r)')
    BY <1>3 DEF AccountTypes, Mine
  <1> QED
    BY <1>1, <1>2, <1>3, <1>4, <1>6, <1>10, <1>11, <1>12, <1>13, <1>14, <1>15 DEF AccountTypes, Addresses

-----------------------------------------------------------------------------
(* Each handler's steps, that way. *)

(* The parts that an action need not say. *)
LEMMA GoesOn ==
  ASSUME AccountTypes, NEW p \in Conns, NEW a \in HandlerSteps, NEW u, NEW n,
         Turn(p, Record(a, u, call[p].tok, n, call[p].email)), call[p].at # "none",
         wallet' = wallet, link' = link, mail' = mail,
         who' = who \/ (IsOpen(p) /\ who' = [ who EXCEPT ![p] = u ]),
         ids' \in { ids, ids + 1 }, tokens' \in { tokens, tokens + 1 }, u \in 0 .. ids',
         n \in { 0, call[p].new, call[p].tok } \/ (n = tokens' /\ tokens' = tokens + 1),
         a \notin { "create", "email" }, a \in AboutUser => u # 0
  PROVE  Handles(p, a, u, call[p].tok, n, call[p].email)
  <1>1. link[p] # "new" /\ call[p].email \in Addresses
    BY Same DEF AccountTypes
  <1> QED
    BY <1>1 DEF Handles, Sends

LEMMA Ends ==
  ASSUME AccountTypes, NEW p \in Conns, EndCall(p), call[p].at # "none",
         wallet' = wallet, link' = link, Sends(p),
         who' = who \/ SetWho(p, call[p].id) \/ SetWho(p, 0),
         ids' \in { ids, ids + 1 }, tokens' \in { tokens, tokens + 1 }
  PROVE  Handles(p, "none", 0, 0, 0, "none")
  <1>1. link[p] # "new" /\ Turn(p, Record("none", 0, 0, 0, "none"))
    BY Turns DEF AccountTypes
  <1>3. who' = who \/ (IsOpen(p) /\ \E w \in { 0, call[p].id, 0 } : who' = [ who EXCEPT ![p] = w ])
    BY DEF SetWho
  <1>4. 0 \in 0 .. ids'
    BY DEF AccountTypes
  <1> QED
    BY <1>1, <1>3, <1>4 DEF Handles, HandlerSteps, Addresses, AboutUser

LEMMA AuthenticateHandles ==
  ASSUME AccountTypes, NEW p \in Conns, HandleAuthenticate(p)
  PROVE  Handles(p, IF wallet[Mine(p)] = 0 THEN "fresh" ELSE "find", 0, wallet[Mine(p)], 0, "none")
  <1> DEFINE a == IF wallet[Mine(p)] = 0 THEN "fresh" ELSE "find"
  <1>1. /\ link[p] = "open" /\ call[p] = NoCall /\ wallet' = wallet /\ link' = [ link EXCEPT ![p] = "greeted" ]
        /\ call' = [ call EXCEPT ![p].at = a, ![p].tok = wallet[Mine(p)] ]
        /\ mail' = mail /\ who' = who /\ ids' = ids /\ tokens' = tokens
    BY DEF HandleAuthenticate, givenVars
  <1>2. call[p].id = 0 /\ call[p].new = 0 /\ call[p].email = "none"
    BY <1>1 DEF NoCall
  <1>3. a \in { "fresh", "find" }
    OBVIOUS
  <1> HIDE DEF a
  <1>4. Turn(p, Record(a, 0, wallet[Mine(p)], 0, "none"))
    BY <1>1, <1>2, Turns
  <1>5. 0 \in 0 .. ids'
    BY <1>1 DEF AccountTypes
  <1> QED
    BY <1>1, <1>3, <1>4, <1>5 DEF Handles, Sends, HandlerSteps, AboutUser, Addresses, a

LEMMA BearersExist ==
  ASSUME AccountTypes, NEW u \in UserIds, token[u] # NoRow
  PROVE  u \in 1 .. ids
  <1>1. ids \in Nat /\ MaxUserIds \in Nat
    BY Counts
  <1>2. u \in Nat /\ u >= 1
    BY <1>1 DEF UserIds
  <1>3. ~(u > ids)
    BY DEF AccountTypes, UserTypes
  <1> QED
    BY <1>1, <1>2, <1>3

LEMMA BearersAre ==
  ASSUME AccountTypes, NEW t \in Int, NEW u \in Bearers(t)
  PROVE  u \in UserIds /\ u \in 1 .. ids /\ token[u] = t /\ t > 0
  <1>1. u \in UserIds /\ token[u] = t /\ t > 0
    BY DEF Bearers
  <1> QED
    BY <1>1, BearersExist DEF NoRow

LEMMA FindHandles ==
  ASSUME AccountTypes, NEW p \in Conns, FindByToken(p)
  PROVE  \/ \E u \in Bearers(call[p].tok) :
                Handles(p, "rotate", u, call[p].tok, call[p].new, call[p].email) /\ forsaken' = forsaken
         \/ /\ Handles(p, "fresh", call[p].id, call[p].tok, call[p].new, call[p].email)
            /\ forsaken' = forsaken \cup Bearers(call[p].tok)
         \/ Handles(p, "none", 0, 0, 0, "none") /\ forsaken' = forsaken
  <1> USE DEF HandlerSteps, AboutUser
  <1>1. /\ call[p].at = "find" /\ wallet' = wallet /\ link' = link /\ mail' = mail /\ who' = who
        /\ ids' = ids /\ tokens' = tokens
    BY DEF FindByToken, FindKeeps, linkVars, givenVars
  <1>2. CASE \E u \in Bearers(call[p].tok) :
                 call' = [ call EXCEPT ![p].at = "rotate", ![p].id = u ] /\ forsaken' = forsaken
    <2>1. PICK u \in Bearers(call[p].tok) :
              call' = [ call EXCEPT ![p].at = "rotate", ![p].id = u ] /\ forsaken' = forsaken
      BY <1>2
    <2>2. u \in 0 .. ids' /\ u # 0
      <3>1. call[p].tok \in Int /\ ids \in Nat
        <4>1. call[p].tok \in 0 .. tokens
          BY Same
        <4> QED
          BY <4>1, Counts
      <3>2. u \in 1 .. ids
        BY <3>1, BearersAre
      <3> QED
        BY <1>1, <3>1, <3>2
    <2>3. Turn(p, Record("rotate", u, call[p].tok, call[p].new, call[p].email))
      BY <2>1, Turns
    <2> QED
      BY <1>1, <2>1, <2>2, <2>3, GoesOn
  <1>3. CASE OnTo(p, "fresh") /\ forsaken' = forsaken \cup Bearers(call[p].tok)
    <2>1. Turn(p, Record("fresh", call[p].id, call[p].tok, call[p].new, call[p].email)) /\ call[p].id \in 0 .. ids'
      BY <1>1, <1>3, Turns, Same
    <2>2. call[p].at # "none" /\ "fresh" \in HandlerSteps /\ "fresh" \notin { "create", "email" }
          /\ "fresh" \notin AboutUser
      BY <1>1
    <2>3. Handles(p, "fresh", call[p].id, call[p].tok, call[p].new, call[p].email)
      BY <1>1, <2>1, <2>2, GoesOn
    <2> QED
      BY <1>3, <2>3
  <1>4. CASE EndCall(p) /\ forsaken' = forsaken
    BY <1>1, <1>4, Ends DEF Sends
  <1> QED
    BY <1>2, <1>3, <1>4 DEF FindByToken

LEMMA RotateHandles ==
  ASSUME AccountTypes, NEW p \in Conns, RotateFound(p)
  PROVE  \E n \in { call[p].tok, tokens + 1 } :
             /\ Handles(p, "identify", call[p].id, call[p].tok, n, call[p].email)
             /\ tokens' = tokens + 1 /\ ids' = ids /\ email' = email /\ outside' = outside /\ mail' = mail
             /\ who' = who
             /\ \/ n = tokens + 1 /\ token' = Updated(call[p].id, tokens + 1) /\ late' = late /\ forsaken' = forsaken
                \/ n = call[p].tok /\ UNCHANGED << token, late, forsaken >>
                \/ /\ n = call[p].tok /\ token' = token
                   /\ TimedOut(call[p].id, tokens + 1, FALSE, "none")
                   /\ forsaken' = forsaken \cup { call[p].id }
  <1> USE DEF HandlerSteps, AboutUser
  <1>1. /\ call[p].at = "rotate" /\ wallet' = wallet /\ link' = link /\ mail' = mail /\ who' = who
        /\ ids' = ids /\ tokens' = tokens + 1 /\ email' = email /\ outside' = outside
    BY DEF RotateFound, linkVars, givenVars
  <1>2. call[p].id \in 0 .. ids' /\ call[p].id # 0
    BY <1>1, Same DEF AccountTypes
  <1>3. ASSUME NEW n \in { call[p].tok, tokens + 1 }, call' = [ call EXCEPT ![p].at = "identify", ![p].new = n ]
        PROVE  Handles(p, "identify", call[p].id, call[p].tok, n, call[p].email)
    <2>1. Turn(p, Record("identify", call[p].id, call[p].tok, n, call[p].email))
      BY <1>3, Turns
    <2> QED
      BY <1>1, <1>2, <2>1, GoesOn
  <1> QED
    BY <1>1, <1>3 DEF RotateFound

LEMMA IdentifyHandles ==
  ASSUME AccountTypes, NEW p \in Conns, Identify(p)
  PROVE  Handles(p, "none", 0, 0, 0, "none")
  <1>1. /\ call[p].at = "identify" /\ wallet' = wallet /\ link' = link /\ ids' = ids /\ tokens' = tokens
        /\ EndCall(p) /\ SetWho(p, call[p].id) /\ Send(p, "authenticated", call[p].new)
    BY DEF Identify, givenVars
  <1>2. Sends(p)
    BY <1>1 DEF Sends, Send, Kinds
  <1> QED
    BY <1>1, <1>2, Ends

LEMMA FreshHandles ==
  ASSUME AccountTypes, NEW p \in Conns, FreshIdentity(p)
  PROVE  Handles(p, "save", ids + 1, call[p].tok, tokens + 1, call[p].email)
  <1> USE DEF HandlerSteps, AboutUser
  <1>1. /\ call[p].at = "fresh" /\ wallet' = wallet /\ link' = link /\ mail' = mail
        /\ SetWho(p, ids + 1) /\ ids' = ids + 1 /\ tokens' = tokens + 1
        /\ call' = [ call EXCEPT ![p].at = "save", ![p].id = ids + 1, ![p].new = tokens + 1 ]
    BY DEF FreshIdentity, linkVars
  <1>2. Turn(p, Record("save", ids + 1, call[p].tok, tokens + 1, call[p].email))
    BY <1>1, Turns
  <1>3. ids + 1 \in 0 .. ids' /\ ids + 1 # 0
    <2>1. ids \in Nat
      BY Counts
    <2> QED
      BY <1>1, <2>1
  <1>4. who' = who \/ (IsOpen(p) /\ who' = [ who EXCEPT ![p] = ids + 1 ])
    BY <1>1 DEF SetWho
  <1> QED
    BY <1>1, <1>2, <1>3, <1>4, GoesOn

LEMMA SaveHandles ==
  ASSUME AccountTypes, NEW p \in Conns, SaveUser(p)
  PROVE  \/ /\ Handles(p, "identify", call[p].id, call[p].tok, call[p].new, call[p].email)
            /\ token' = [ token EXCEPT ![call[p].id] = call[p].new ]
            /\ UNCHANGED << who, late, forsaken >>
         \/ /\ Handles(p, "none", 0, 0, 0, "none")
            /\ token' = token
            /\ \/ SetWho(p, 0) /\ UNCHANGED << late, forsaken >>
               \/ /\ TimedOut(call[p].id, call[p].new, TRUE, "none") /\ who' = who
                  /\ forsaken' = forsaken \cup { call[p].id }
  <1> USE DEF HandlerSteps, AboutUser
  <1>1. /\ call[p].at = "save" /\ wallet' = wallet /\ link' = link /\ mail' = mail
        /\ ids' = ids /\ tokens' = tokens
    BY DEF SaveUser, linkVars, givenVars
  <1>2. CASE OnTo(p, "identify") /\ UNCHANGED << who, late, forsaken >>
             /\ token' = [ token EXCEPT ![call[p].id] = call[p].new ]
    <2>1. Turn(p, Record("identify", call[p].id, call[p].tok, call[p].new, call[p].email))
      BY <1>2, Turns
    <2>2. call[p].id \in 0 .. ids' /\ call[p].id # 0
      BY <1>1, Same DEF AccountTypes
    <2> QED
      BY <1>1, <1>2, <2>1, <2>2, GoesOn
  <1>3. CASE EndCall(p) /\ token' = token /\ SetWho(p, 0) /\ UNCHANGED << late, forsaken >>
    BY <1>1, <1>3, Ends DEF Sends
  <1>4. CASE /\ EndCall(p) /\ token' = token /\ TimedOut(call[p].id, call[p].new, TRUE, "none") /\ who' = who
             /\ forsaken' = forsaken \cup { call[p].id }
    BY <1>1, <1>4, Ends DEF Sends
  <1> QED
    BY <1>2, <1>3, <1>4 DEF SaveUser

(* A request begins with nothing shown and nothing to answer. *)
LEMMA RequestHandles ==
  ASSUME AccountTypes, NEW p \in Conns, NEW kind, NEW a \in HandlerSteps, NEW u \in 0 .. ids, NEW e \in Addresses,
         Request(p, kind, Record(a, u, 0, 0, e)),
         a \in { "create", "email" } => e \in Emails, a \in AboutUser => u # 0
  PROVE  /\ Handles(p, a, u, 0, 0, e) /\ call[p].at = "none"
         /\ UNCHANGED << mail, who, userVars, late, givenVars, forsaken, outside >>
  <1>1. /\ link[p] = "greeted" /\ call[p] = NoCall /\ wallet' = wallet /\ link' = link /\ mail' = mail /\ who' = who
        /\ ids' = ids /\ tokens' = tokens /\ call' = [ call EXCEPT ![p] = Record(a, u, 0, 0, e) ]
        /\ UNCHANGED << userVars, late, givenVars, forsaken, outside >>
    BY DEF Request, linkVars, givenVars
  <1>2. call[p].at = "none"
    BY <1>1 DEF NoCall
  <1> QED
    BY <1>1, <1>2 DEF Handles, Turn, Sends

(* A call is the record of its fields. *)
LEMMA IsThisRecord ==
  ASSUME NEW f, IsRecord(f)
  PROVE  f = Record(f.at, f.id, f.tok, f.new, f.email)
  <1> DEFINE g == Record(f.at, f.id, f.tok, f.new, f.email)
  <1>1. IsRecord(g)
    BY DEF IsRecord, Record, Fields
  <1>2. g.at = f.at /\ g.id = f.id /\ g.tok = f.tok /\ g.new = f.new /\ g.email = f.email
    BY DEF Record
  <1>3. \A x \in Fields : f[x] = g[x]
    BY <1>2 DEF Fields
  <1> HIDE DEF g
  <1>4. f = g
    BY <1>1, <1>3 DEF IsRecord
  <1> QED
    BY <1>4 DEF g

(* The calls that requests begin with. *)
LEMMA FirstRecords ==
  ASSUME NEW a, NEW u, NEW e
  PROVE  /\ [ NoCall EXCEPT !.at = a, !.email = e ] = Record(a, 0, 0, 0, e)
         /\ [ NoCall EXCEPT !.at = a, !.id = u ] = Record(a, u, 0, 0, "none")
         /\ [ NoCall EXCEPT !.at = a, !.id = u, !.email = e ] = Record(a, u, 0, 0, e)
  <1> DEFINE r1 == [ NoCall EXCEPT !.at = a, !.email = e ]
             r2 == [ NoCall EXCEPT !.at = a, !.id = u ]
             r3 == [ NoCall EXCEPT !.at = a, !.id = u, !.email = e ]
  <1>0. IsRecord(r1) /\ IsRecord(r2) /\ IsRecord(r3)
    BY NoCallRecord
  <1>1. r1.at = a /\ r1.id = 0 /\ r1.tok = 0 /\ r1.new = 0 /\ r1.email = e
    BY DEF NoCall
  <1>2. r2.at = a /\ r2.id = u /\ r2.tok = 0 /\ r2.new = 0 /\ r2.email = "none"
    BY DEF NoCall
  <1>3. r3.at = a /\ r3.id = u /\ r3.tok = 0 /\ r3.new = 0 /\ r3.email = e
    BY DEF NoCall
  <1> HIDE DEF r1, r2, r3
  <1>4. r1 = Record(a, 0, 0, 0, e) /\ r2 = Record(a, u, 0, 0, "none") /\ r3 = Record(a, u, 0, 0, e)
    BY <1>0, <1>1, <1>2, <1>3, IsThisRecord
  <1> QED
    BY <1>4 DEF r1, r2, r3

LEMMA AskHandles ==
  ASSUME AccountTypes, NEW p \in Conns,
         \/ \E e \in Emails : HandleCreateAccount(p, e) \/ HandleLogin(p, e) \/ HandleWithPassword(p, "email", e)
         \/ HandleWithPassword(p, "delete", "none") \/ HandleLogout(p) \/ HandleRevokeAll(p)
  PROVE  /\ \E a \in { "create", "find email", "email", "delete", "logout", "clear", "revoke" },
               u \in { 0, who[p] }, e \in Addresses : Handles(p, a, u, 0, 0, e) /\ (a = "revoke" => u = who[p])
         /\ call[p].at = "none"
         /\ UNCHANGED << mail, who, userVars, late, givenVars, forsaken, outside >>
  <1> DEFINE Asks(a, u, e) == \E kind : Request(p, kind, Record(a, u, 0, 0, e))
             Begun(a, u, e) ==
                 /\ Handles(p, a, u, 0, 0, e) /\ call[p].at = "none"
                 /\ UNCHANGED << mail, who, userVars, late, givenVars, forsaken, outside >>
  <1>0. who[p] \in 0 .. ids /\ 0 \in 0 .. ids
    BY WhoTyped
  <1>1. ASSUME NEW a \in HandlerSteps, NEW u \in 0 .. ids, NEW e \in Addresses, Asks(a, u, e),
               a \in { "create", "email" } => e \in Emails, a \in AboutUser => u # 0
        PROVE  Begun(a, u, e)
    <2>1. PICK kind : Request(p, kind, Record(a, u, 0, 0, e))
      BY <1>1
    <2> QED
      BY <1>1, <2>1, RequestHandles
  <1>2. CASE \E e \in Emails : HandleCreateAccount(p, e)
    <2>1. PICK e \in Emails : HandleCreateAccount(p, e)
      BY <1>2
    <2>2. [ NoCall EXCEPT !.at = "create", !.email = e ] = Record("create", 0, 0, 0, e)
      BY FirstRecords
    <2>3. Asks("create", 0, e)
      BY <2>1, <2>2 DEF HandleCreateAccount
    <2>4. "create" \in HandlerSteps /\ e \in Addresses /\ "create" \notin AboutUser
      BY DEF HandlerSteps, AboutUser, Addresses
    <2> HIDE DEF Asks, Begun
    <2>5. Begun("create", 0, e)
      BY <2>3, <2>4, <1>0, <1>1
    <2> QED
      BY <2>4, <2>5 DEF Begun
  <1>3. CASE \E e \in Emails : HandleLogin(p, e)
    <2>1. PICK e \in Emails : HandleLogin(p, e)
      BY <1>3
    <2>2. [ NoCall EXCEPT !.at = "find email", !.email = e ] = Record("find email", 0, 0, 0, e)
      BY FirstRecords
    <2>3. Asks("find email", 0, e)
      BY <2>1, <2>2 DEF HandleLogin
    <2>4. "find email" \in HandlerSteps /\ e \in Addresses /\ "find email" \notin AboutUser
      BY DEF HandlerSteps, AboutUser, Addresses
    <2> HIDE DEF Asks, Begun
    <2>5. Begun("find email", 0, e)
      BY <2>3, <2>4, <1>0, <1>1
    <2> QED
      BY <2>4, <2>5 DEF Begun
  <1>4. CASE \E e \in Emails : HandleWithPassword(p, "email", e)
    <2>1. PICK e \in Emails : HandleWithPassword(p, "email", e)
      BY <1>4
    <2>2. [ NoCall EXCEPT !.at = "email", !.id = who[p], !.email = e ] = Record("email", who[p], 0, 0, e)
      <3> DEFINE w == who[p]
                 r == [ NoCall EXCEPT !.at = "email", !.id = w, !.email = e ]
      <3> HIDE DEF w
      <3>1. IsRecord(r)
        BY NoCallRecord
      <3>2. r.at = "email" /\ r.id = w /\ r.tok = 0 /\ r.new = 0 /\ r.email = e
        BY DEF NoCall
      <3>3. r = Record("email", w, 0, 0, e)
        <4> HIDE DEF r
        <4> QED
          BY <3>1, <3>2, IsThisRecord
      <3> QED
        BY <3>3 DEF w
    <2>3. Asks("email", who[p], e) /\ who[p] # 0
      BY <2>1, <2>2 DEF HandleWithPassword
    <2>4. "email" \in HandlerSteps /\ e \in Addresses
      BY DEF HandlerSteps, AboutUser, Addresses
    <2> HIDE DEF Asks, Begun
    <2>5. Begun("email", who[p], e)
      BY <2>3, <2>4, <1>0, <1>1
    <2> QED
      BY <2>4, <2>5 DEF Begun
  <1>5. CASE HandleWithPassword(p, "delete", "none")
    <2>1. [ NoCall EXCEPT !.at = "delete", !.id = who[p], !.email = "none" ] = Record("delete", who[p], 0, 0, "none")
      BY FirstRecords
    <2>2. Asks("delete", who[p], "none") /\ who[p] # 0
      BY <1>5, <2>1 DEF HandleWithPassword
    <2>3. "delete" \in HandlerSteps /\ "none" \in Addresses
      BY DEF HandlerSteps, AboutUser, Addresses
    <2> HIDE DEF Asks, Begun
    <2>4. Begun("delete", who[p], "none")
      BY <2>2, <2>3, <1>0, <1>1
    <2> QED
      BY <2>3, <2>4 DEF Begun
  <1>6. CASE HandleLogout(p) /\ who[p] = 0
    <2>1. [ NoCall EXCEPT !.at = "clear", !.id = who[p] ] = Record("clear", 0, 0, 0, "none")
      BY <1>6, FirstRecords
    <2>2. Asks("clear", 0, "none")
      BY <1>6, <2>1 DEF HandleLogout
    <2>3. "clear" \in HandlerSteps /\ "none" \in Addresses /\ "clear" \notin AboutUser
      BY DEF HandlerSteps, AboutUser, Addresses
    <2> HIDE DEF Asks, Begun
    <2>4. Begun("clear", 0, "none")
      BY <2>2, <2>3, <1>0, <1>1
    <2> QED
      BY <2>3, <2>4 DEF Begun
  <1>7. CASE HandleLogout(p) /\ who[p] # 0
    <2>1. [ NoCall EXCEPT !.at = "logout", !.id = who[p] ] = Record("logout", who[p], 0, 0, "none")
      BY FirstRecords
    <2>2. Asks("logout", who[p], "none") /\ who[p] # 0
      BY <1>7, <2>1 DEF HandleLogout
    <2>3. "logout" \in HandlerSteps /\ "none" \in Addresses
      BY DEF HandlerSteps, AboutUser, Addresses
    <2> HIDE DEF Asks, Begun
    <2>4. Begun("logout", who[p], "none")
      BY <2>2, <2>3, <1>0, <1>1
    <2> QED
      BY <2>3, <2>4 DEF Begun
  <1>8. CASE HandleRevokeAll(p)
    <2>1. [ NoCall EXCEPT !.at = "revoke", !.id = who[p] ] = Record("revoke", who[p], 0, 0, "none")
      BY FirstRecords
    <2>2. Asks("revoke", who[p], "none") /\ who[p] # 0
      BY <1>8, <2>1 DEF HandleRevokeAll
    <2>3. "revoke" \in HandlerSteps /\ "none" \in Addresses
      BY DEF HandlerSteps, AboutUser, Addresses
    <2> HIDE DEF Asks, Begun
    <2>4. Begun("revoke", who[p], "none")
      BY <2>2, <2>3, <1>0, <1>1
    <2> QED
      BY <2>3, <2>4 DEF Begun
  <1> QED
    BY <1>2, <1>3, <1>4, <1>5, <1>6, <1>7, <1>8

LEMMA CreateHandles ==
  ASSUME AccountTypes, NEW p \in Conns, CreateAccount(p)
  PROVE  /\ ids' = ids + 1 /\ tokens' = tokens + 1 /\ call[p].email \in Emails
         /\ UNCHANGED << who, mail, forsaken, outside >>
         /\ \/ /\ Handles(p, "created", ids + 1, call[p].tok, tokens + 1, call[p].email)
               /\ token' = [ token EXCEPT ![ids + 1] = tokens + 1 ]
               /\ email' = [ email EXCEPT ![ids + 1] = call[p].email ] /\ late' = late
            \/ /\ Handles(p, "none", 0, 0, 0, "none")
               /\ UNCHANGED userVars
               /\ late' = late \/ TimedOut(ids + 1, tokens + 1, TRUE, call[p].email)
  <1> USE DEF HandlerSteps, AboutUser
  <1>1. /\ call[p].at = "create" /\ wallet' = wallet /\ link' = link /\ ids' = ids + 1 /\ tokens' = tokens + 1
        /\ UNCHANGED << who, mail, forsaken, outside >>
    BY DEF CreateAccount, linkVars
  <1>2. call[p].email \in Emails
    BY <1>1 DEF AccountTypes
  <1>3. CASE /\ token' = [ token EXCEPT ![ids + 1] = tokens + 1 ]
             /\ email' = [ email EXCEPT ![ids + 1] = call[p].email ] /\ late' = late
             /\ call' = [ call EXCEPT ![p].at = "created", ![p].id = ids + 1, ![p].new = tokens + 1 ]
    <2>1. Turn(p, Record("created", ids + 1, call[p].tok, tokens + 1, call[p].email))
      BY <1>3, Turns
    <2>2. ids + 1 \in 0 .. ids' /\ ids + 1 # 0
      BY <1>1, Counts
    <2>3. Handles(p, "created", ids + 1, call[p].tok, tokens + 1, call[p].email)
      BY <1>1, <2>1, <2>2, GoesOn
    <2> QED
      BY <1>1, <1>2, <1>3, <2>3
  <1>4. CASE EndCall(p) /\ UNCHANGED userVars
    <2>1. Handles(p, "none", 0, 0, 0, "none")
      BY <1>1, <1>4, Ends DEF Sends
    <2> QED
      BY <1>1, <1>2, <1>4, <2>1 DEF CreateAccount
  <1> QED
    BY <1>3, <1>4 DEF CreateAccount

LEMMA SwitchHandles ==
  ASSUME AccountTypes, NEW p \in Conns, SwitchIdentity(p)
  PROVE  Handles(p, "none", 0, 0, 0, "none")
  <1>1. /\ call[p].at \in { "created", "logged in" } /\ wallet' = wallet /\ link' = link
        /\ ids' = ids /\ tokens' = tokens
        /\ EndCall(p) /\ SetWho(p, call[p].id) /\ Send(p, call[p].at, call[p].new)
    BY DEF SwitchIdentity, givenVars
  <1>2. Sends(p)
    BY <1>1 DEF Sends, Send, Kinds
  <1> QED
    BY <1>1, <1>2, Ends

LEMMA FindByEmailHandles ==
  ASSUME AccountTypes, NEW p \in Conns, FindByEmail(p)
  PROVE  /\ UNCHANGED << linkVars, who, userVars, late, givenVars, forsaken >>
         /\ \/ Handles(p, "failed", call[p].id, call[p].tok, call[p].new, call[p].email) /\ outside' = outside
            \/ \E u \in UserIds :
                   /\ Handles(p, "verified", u, call[p].tok, call[p].new, call[p].email)
                   /\ outside' = outside \ {<< Mine(p), u >>}
            \/ Handles(p, "none", 0, 0, 0, "none") /\ outside' = outside
  <1> USE DEF HandlerSteps, AboutUser
  <1>1. /\ call[p].at = "find email" /\ wallet' = wallet /\ link' = link /\ mail' = mail /\ who' = who
        /\ ids' = ids /\ tokens' = tokens /\ UNCHANGED << linkVars, who, userVars, late, givenVars, forsaken >>
    BY DEF FindByEmail, linkVars, givenVars
  <1>2. CASE OnTo(p, "failed") /\ outside' = outside
    <2>1. Turn(p, Record("failed", call[p].id, call[p].tok, call[p].new, call[p].email)) /\ call[p].id \in 0 .. ids'
      BY <1>1, <1>2, Turns, Same
    <2>2. call[p].at # "none" /\ "failed" \in HandlerSteps /\ "failed" \notin { "create", "email" }
          /\ "failed" \notin AboutUser
      BY <1>1
    <2>3. Handles(p, "failed", call[p].id, call[p].tok, call[p].new, call[p].email)
      BY <1>1, <2>1, <2>2, GoesOn
    <2> QED
      BY <1>1, <1>2, <2>3
  <1>3. CASE \E u \in { v \in UserIds : token[v] # NoRow /\ email[v] = call[p].email } :
                 /\ call' = [ call EXCEPT ![p].at = "verified", ![p].id = u ]
                 /\ outside' = outside \ {<< Mine(p), u >>}
    <2>1. PICK u \in UserIds :
              /\ token[u] # NoRow /\ call' = [ call EXCEPT ![p].at = "verified", ![p].id = u ]
              /\ outside' = outside \ {<< Mine(p), u >>}
      BY <1>3
    <2>2. u \in 0 .. ids' /\ u # 0
      <3>1. u \in 1 .. ids
        BY <2>1, BearersExist
      <3>2. ids \in Nat /\ ids' = ids
        BY <1>1, Counts
      <3> QED
        BY <3>1, <3>2
    <2>3. Turn(p, Record("verified", u, call[p].tok, call[p].new, call[p].email))
      BY <2>1, Turns
    <2>4. Handles(p, "verified", u, call[p].tok, call[p].new, call[p].email)
      BY <1>1, <2>2, <2>3, GoesOn
    <2> QED
      BY <1>1, <2>1, <2>4
  <1>4. CASE EndCall(p) /\ outside' = outside
    <2>1. Handles(p, "none", 0, 0, 0, "none")
      BY <1>1, <1>4, Ends DEF Sends
    <2> QED
      BY <1>1, <1>4, <2>1
  <1> QED
    BY <1>2, <1>3, <1>4 DEF FindByEmail

LEMMA CountHandles ==
  ASSUME AccountTypes, NEW p \in Conns, RecordFailure(p) \/ ClearFailures(p)
  PROVE  /\ UNCHANGED << linkVars, who, userVars, late, givenVars, forsaken, outside >>
         /\ \/ Handles(p, "none", 0, 0, 0, "none")
            \/ Handles(p, "login", call[p].id, call[p].tok, call[p].new, call[p].email) /\ call[p].at = "verified"
  <1> USE DEF HandlerSteps, AboutUser
  <1>1. /\ wallet' = wallet /\ link' = link /\ mail' = mail /\ who' = who
        /\ ids' = ids /\ tokens' = tokens
        /\ UNCHANGED << linkVars, who, userVars, late, givenVars, forsaken, outside >>
    BY DEF RecordFailure, ClearFailures, linkVars, givenVars
  <1>2. CASE RecordFailure(p)
    <2>1. call[p].at = "failed" /\ EndCall(p)
      BY <1>2 DEF RecordFailure
    <2> QED
      BY <1>1, <2>1, Ends DEF Sends
  <1>3. CASE ClearFailures(p)
    <2>1. call[p].at = "verified" /\ OnTo(p, "login")
      BY <1>3 DEF ClearFailures
    <2>2. /\ Turn(p, Record("login", call[p].id, call[p].tok, call[p].new, call[p].email))
          /\ call[p].id \in 0 .. ids' /\ call[p].id # 0
      BY <1>1, <2>1, Turns, Same DEF AccountTypes
    <2>3. Handles(p, "login", call[p].id, call[p].tok, call[p].new, call[p].email)
      BY <1>1, <2>1, <2>2, GoesOn
    <2> QED
      BY <1>1, <2>1, <2>3
  <1> QED
    BY <1>2, <1>3

LEMMA RotatingHandles ==
  ASSUME AccountTypes, NEW p \in Conns, RotateLogin(p) \/ Reissue(p)
  PROVE  /\ \E a \in { "logged in", "reissued" } :
                /\ Handles(p, a, call[p].id, call[p].tok, tokens + 1, call[p].email)
                /\ << call[p].at, a >> \in { << "login", "logged in" >>, << "reissue", "reissued" >> }
         /\ Rotate(p, call[p].id, tokens + 1)
         /\ UNCHANGED << linkVars, who, email, outside >>
  <1> USE DEF HandlerSteps, AboutUser
  <1>1. /\ call[p].at \in { "login", "reissue" } /\ wallet' = wallet /\ link' = link /\ mail' = mail
        /\ who' = who /\ ids' = ids /\ tokens' = tokens + 1
        /\ Rotate(p, call[p].id, tokens + 1)
        /\ UNCHANGED << linkVars, who, email, outside >>
    BY DEF RotateLogin, Reissue, linkVars, Rotate
  <1>2. call[p].id \in 0 .. ids' /\ call[p].id # 0
    BY <1>1, Same DEF AccountTypes
  <1>3. ASSUME NEW a \in { "logged in", "reissued" }, call' = [ call EXCEPT ![p].at = a, ![p].new = tokens + 1 ]
        PROVE  Handles(p, a, call[p].id, call[p].tok, tokens + 1, call[p].email)
    <2>1. Turn(p, Record(a, call[p].id, call[p].tok, tokens + 1, call[p].email))
      BY <1>3, Turns
    <2> QED
      BY <1>1, <1>2, <1>3, <2>1, GoesOn
  <1>4. CASE RotateLogin(p)
    BY <1>1, <1>3, <1>4 DEF RotateLogin
  <1>5. CASE Reissue(p)
    BY <1>1, <1>3, <1>5 DEF Reissue
  <1> QED
    BY <1>4, <1>5

LEMMA InvalidateHandles ==
  ASSUME AccountTypes, NEW p \in Conns, InvalidateForLogout(p) \/ InvalidateForRevoke(p)
  PROVE  /\ call[p].at \in { "logout", "revoke" }
         /\ UNCHANGED << linkVars, who, email, givenVars, forsaken >>
         /\ \/ Handles(p, "none", 0, 0, 0, "none") /\ call[p].at = "revoke"
            \/ /\ Handles(p, "clear", call[p].id, call[p].tok, call[p].new, call[p].email)
               /\ call[p].at = "logout"
            \/ /\ Handles(p, "reissue", call[p].id, call[p].tok, call[p].new, call[p].email)
               /\ call[p].at = "revoke" /\ token' = Updated(call[p].id, Revoked)
         /\ \/ /\ token' = Updated(call[p].id, Revoked) /\ late' = late
               /\ outside' = outside \cup (Outsiders(p, call[p].id) \X { call[p].id })
               /\ call'[p].id = call[p].id
            \/ token' = token /\ outside' = outside /\ (late' = late \/ TimedOut(call[p].id, Revoked, FALSE, "none"))
  <1> USE DEF HandlerSteps, AboutUser
  <1>1. /\ call[p].at \in { "logout", "revoke" } /\ wallet' = wallet /\ link' = link /\ mail' = mail
        /\ who' = who /\ ids' = ids /\ tokens' = tokens
        /\ UNCHANGED << linkVars, who, email, givenVars, forsaken >>
    BY DEF InvalidateForLogout, InvalidateForRevoke, linkVars, givenVars, Invalidate
  <1>2. call[p].id \in 0 .. ids' /\ call[p].id # 0
    BY <1>1, Same DEF AccountTypes
  <1>3. ASSUME NEW a \in { "clear", "reissue" }, call' = [ call EXCEPT ![p].at = a ]
        PROVE  /\ Handles(p, a, call[p].id, call[p].tok, call[p].new, call[p].email)
               /\ call'[p].id = call[p].id
    <2>1. Turn(p, Record(a, call[p].id, call[p].tok, call[p].new, call[p].email))
      BY <1>3, Turns DEF OnTo
    <2>2. Handles(p, a, call[p].id, call[p].tok, call[p].new, call[p].email)
      BY <1>1, <1>2, <1>3, <2>1, GoesOn
    <2> QED
      BY <2>1, <2>2, Turned
  <1>4. CASE InvalidateForLogout(p)
    <2>1. call[p].at = "logout" /\ call' = [ call EXCEPT ![p].at = "clear" ]
      BY <1>4 DEF InvalidateForLogout, Invalidate
    <2>2. /\ Handles(p, "clear", call[p].id, call[p].tok, call[p].new, call[p].email)
          /\ call'[p].id = call[p].id
      BY <2>1, <1>3
    <2> QED
      BY <1>1, <1>4, <2>1, <2>2 DEF InvalidateForLogout, Invalidate
  <1>5. CASE InvalidateForRevoke(p) /\ Invalidate(p, [ call EXCEPT ![p].at = "reissue" ])
    <2>1. call[p].at = "revoke" /\ call' = [ call EXCEPT ![p].at = "reissue" ]
      BY <1>5 DEF InvalidateForRevoke, Invalidate
    <2>2. /\ Handles(p, "reissue", call[p].id, call[p].tok, call[p].new, call[p].email)
          /\ call'[p].id = call[p].id
      BY <2>1, <1>3
    <2> QED
      BY <1>1, <1>5, <2>1, <2>2 DEF Invalidate
  <1>6. CASE InvalidateForRevoke(p) /\ EndCall(p) /\ token' = token /\ outside' = outside
               /\ (late' = late \/ TimedOut(call[p].id, Revoked, FALSE, "none"))
    <2>1. Handles(p, "none", 0, 0, 0, "none") /\ call[p].at = "revoke"
      BY <1>1, <1>6, Ends DEF Sends, InvalidateForRevoke
    <2> QED
      BY <1>1, <1>6, <2>1
  <1> QED
    BY <1>4, <1>5, <1>6 DEF InvalidateForRevoke

(* The last steps of a request. *)
LEMMA LastHandles ==
  ASSUME AccountTypes, NEW p \in Conns, ClearIdentity(p) \/ AnswerRevoked(p) \/ SaveEmail(p) \/ DeleteUser(p)
  PROVE  /\ Handles(p, "none", 0, 0, 0, "none")
         /\ UNCHANGED << wallet, late, givenVars, outside >>
  <1>1. /\ call[p].at # "none" /\ wallet' = wallet /\ link' = link
        /\ ids' = ids /\ tokens' = tokens /\ EndCall(p) /\ UNCHANGED << wallet, late, givenVars, outside >>
        /\ who' = who \/ SetWho(p, 0)
    BY DEF ClearIdentity, AnswerRevoked, SaveEmail, DeleteUser, linkVars, givenVars
  <1>2. Sends(p)
    BY DEF ClearIdentity, AnswerRevoked, SaveEmail, DeleteUser, Sends, Send, Kinds, linkVars
  <1> QED
    BY <1>1, <1>2, Ends

-----------------------------------------------------------------------------
(* What the step writes to the database, at once or later: a row of the    *)
(* user it is about, or of a new one, with no token, a new one, or the one *)
(* that was kept for it.                                                   *)

Written(p, u, t) ==
    /\ u \in 1 .. ids' /\ t \in -1 .. tokens'
    /\ u = call[p].id \/ (u = ids + 1 /\ ids' = ids + 1)
    /\ t \in { -1, 0 } \/ t = tokens + 1 \/ (call[p].at = "save" /\ u = call[p].id /\ t = call[p].new)

Statement(p) ==
    \/ token' = token /\ late' = late
    \/ \E u, t : Written(p, u, t) /\ token' = [ token EXCEPT ![u] = t ] /\ late' = late
    \/ \E u, t : /\ Written(p, u, t) /\ t # -1 /\ token' = token
                 /\ \E b \in BOOLEAN, e \in Addresses : TimedOut(u, t, b, e)

Addressed == email' = email \/ \E u \in UserIds, e \in Addresses : email' = [ email EXCEPT ![u] = e ]

(* A step of the handler of p that leaves it at a, about u. *)
Works(p, a, u) ==
    /\ \E k, n, e : Handles(p, a, u, k, n, e) /\ (a = "save" => u = ids + 1 /\ n = tokens + 1)
    /\ a = "save" => token' = token /\ late' = late
    /\ Statement(p) /\ Addressed
    /\ ids' = ids \/ ids < MaxUserIds

LEMMA WorksTypes ==
  ASSUME AccountTypes, NEW p \in Conns, NEW a, NEW u, Works(p, a, u)
  PROVE  AccountTypes'
  <1>1. PICK k, n, e : Handles(p, a, u, k, n, e)
    BY DEF Works
  <1>2. ids' \in { ids, ids + 1 } /\ tokens' \in { tokens, tokens + 1 }
    BY <1>1 DEF Handles
  <1>3. ids \in Nat /\ tokens \in Nat /\ MaxUserIds \in Nat /\ ids <= MaxUserIds /\ ids' <= MaxUserIds
    BY <1>2, Counts DEF AccountTypes, Works
  <1>4. /\ 1 .. ids' \subseteq UserIds /\ 1 .. ids \subseteq 1 .. ids' /\ 0 .. tokens \subseteq 0 .. tokens'
        /\ -1 .. tokens \subseteq -1 .. tokens' /\ 0 .. tokens' \subseteq -1 .. tokens'
    BY <1>2, <1>3 DEF UserIds
  <1>5. token \in [ UserIds -> -1 .. tokens' ] /\ email \in [ UserIds -> Addresses ]
    BY <1>4 DEF AccountTypes, UserTypes
  <1>6. email' \in [ UserIds -> Addresses' ]
    BY <1>5 DEF Works, Addressed, Addresses
  <1>7. token' = token \/ \E v \in 1 .. ids', t \in -1 .. tokens' : token' = [ token EXCEPT ![v] = t ]
    BY DEF Works, Statement, Written
  <1>8. token' \in [ UserIds -> -1 .. tokens' ]
    BY <1>4, <1>5, <1>7
  <1>9. \A v \in UserIds : v > ids' => token'[v] = NoRow
    <2>1. \A v \in UserIds : v > ids' => token[v] = NoRow
      BY <1>2, <1>3 DEF AccountTypes, UserTypes, UserIds
    <2> QED
      BY <2>1, <1>3, <1>2, <1>5, <1>7 DEF UserIds
  <1>10. late \subseteq LateRecords'
    <2>1. late \subseteq LateRecords
      BY DEF AccountTypes
    <2> QED
      BY <2>1, <1>4 DEF LateRecords, Addresses
  <1>11. late' \subseteq LateRecords'
    <2>1. CASE late' = late
      BY <2>1, <1>10
    <2>2. CASE \E v, t : /\ Written(p, v, t) /\ t # -1
                        /\ \E b \in BOOLEAN, f \in Addresses : TimedOut(v, t, b, f)
      <3>1. PICK v, t : /\ Written(p, v, t) /\ t # -1
                        /\ \E b \in BOOLEAN, f \in Addresses : TimedOut(v, t, b, f)
        BY <2>2
      <3>2. PICK b \in BOOLEAN, f \in Addresses : TimedOut(v, t, b, f)
        BY <3>1
      <3>3. v \in 1 .. ids' /\ t \in 0 .. tokens'
        BY <3>1, <1>2, <1>3 DEF Written
      <3>4. [ id |-> v, tok |-> t, insert |-> b, email |-> f ] \in LateRecords'
        BY <3>3 DEF LateRecords, Addresses
      <3> QED
        BY <3>2, <3>4, <1>10 DEF TimedOut
    <2> QED
      BY <2>1, <2>2 DEF Works, Statement
  <1> QED
    BY <1>1, <1>3, <1>6, <1>8, <1>9, <1>11, HandlesTypes DEF UserTypes

-----------------------------------------------------------------------------
(* The other steps keep the shape: those of the client, a late statement,  *)
(* the end of a window.                                                    *)

LEMMA OpenTypes ==
  ASSUME AccountTypes, NEW p \in Conns, Open(p)
  PROVE  AccountTypes'
  <1>1. /\ link[p] = "new" /\ link' = [ link EXCEPT ![p] = "open" ]
        /\ \A q \in Conns : Mine(q) = Mine(p) => ~IsOpen(q)
        /\ UNCHANGED << wallet, mail, who, token, email, call, late, ids, tokens >>
    BY DEF Open, userVars, givenVars
  <1>2. link' \in [ Conns -> { "new", "open", "greeted", "closed" } ]
    BY <1>1 DEF AccountTypes
  <1>3. link'[p] = "open" /\ (\A q \in Conns : q # p => link'[q] = link[q])
    BY <1>1 DEF AccountTypes
  <1>4. \A q \in Conns : link'[q] = "new" => call'[q].at = "none" /\ who'[q] = 0
    BY <1>1, <1>3 DEF AccountTypes
  <1>5. \A q \in Conns : ~IsOpen(q)' => mail'[q] = <<>>
    BY <1>1, <1>3 DEF AccountTypes, IsOpen
  <1>6. \A q, r \in Conns : q # r /\ Mine(q)' = Mine(r)' => ~(IsOpen(q)' /\ IsOpen(r)')
    BY <1>1, <1>3 DEF AccountTypes, IsOpen, Mine
  <1>7. UserTypes' /\ CallRecords' = CallRecords /\ LateRecords' = LateRecords
    BY <1>1 DEF AccountTypes, UserTypes, CallRecords, LateRecords
  <1> QED
    BY <1>1, <1>2, <1>4, <1>5, <1>6, <1>7 DEF AccountTypes

LEMMA Headed ==
  ASSUME AccountTypes, NEW p \in Conns, mail[p] # <<>>
  PROVE  /\ mail[p] \in Seq(Kinds \X (0 .. tokens))
         /\ Head(mail[p]) = mail[p][1] /\ Head(mail[p]) \in Kinds \X (0 .. tokens)
         /\ 1 \in DOMAIN mail[p] /\ Len(mail[p]) \in Nat /\ Len(mail[p]) > 0
         /\ Tail(mail[p]) \in Seq(Kinds \X (0 .. tokens))
         /\ DOMAIN Tail(mail[p]) = 1 .. Len(mail[p]) - 1 /\ DOMAIN mail[p] = 1 .. Len(mail[p])
         /\ Len(Tail(mail[p])) = Len(mail[p]) - 1
         /\ \A i \in DOMAIN Tail(mail[p]) : i + 1 \in DOMAIN mail[p] /\ Tail(mail[p])[i] = mail[p][i + 1]
  <1> DEFINE s == mail[p]
             S == Kinds \X (0 .. tokens)
  <1>1. s \in Seq(S) /\ s # <<>>
    BY DEF AccountTypes
  <1> HIDE DEF s, S
  <1>2. /\ Head(s) = s[1] /\ Head(s) \in S
        /\ 1 \in DOMAIN s /\ Len(s) \in Nat /\ Len(s) > 0
        /\ Tail(s) \in Seq(S)
        /\ DOMAIN Tail(s) = 1 .. Len(s) - 1 /\ DOMAIN s = 1 .. Len(s)
        /\ Len(Tail(s)) = Len(s) - 1
        /\ \A i \in DOMAIN Tail(s) : i + 1 \in DOMAIN s /\ Tail(s)[i] = s[i + 1]
    BY <1>1
  <1> QED
    BY <1>1, <1>2 DEF s, S

LEMMA ReceiveTypes ==
  ASSUME AccountTypes, NEW p \in Conns, Receive(p)
  PROVE  AccountTypes'
  <1> DEFINE t == Head(mail[p])[2]
  <1>1. /\ IsOpen(p) /\ mail[p] # <<>> /\ mail' = [ mail EXCEPT ![p] = Tail(@) ]
        /\ wallet' = [ wallet EXCEPT ![Mine(p)] = t ]
        /\ link' = link \/ link' = [ link EXCEPT ![p] = "open" ]
        /\ UNCHANGED << who, token, email, call, late, ids, tokens >>
    BY DEF Receive, userVars, givenVars
  <1>2. t \in 0 .. tokens /\ Tail(mail[p]) \in Seq(Kinds \X (0 .. tokens))
    BY <1>1, Headed
  <1>3. /\ link' \in [ Conns -> { "new", "open", "greeted", "closed" } ]
        /\ \A q \in Conns : IsOpen(q)' = IsOpen(q) /\ (link'[q] = "new" <=> link[q] = "new")
    <2>1. link \in [ Conns -> { "new", "open", "greeted", "closed" } ]
      BY DEF AccountTypes
    <2>2. CASE link' = link
      BY <2>1, <2>2 DEF IsOpen
    <2>3. CASE link' = [ link EXCEPT ![p] = "open" ]
      BY <2>1, <2>3, <1>1 DEF IsOpen
    <2> QED
      BY <1>1, <2>2, <2>3
  <1>4. mail' \in [ Conns -> Seq(Kinds \X (0 .. tokens)) ] /\ \A q \in Conns : q # p => mail'[q] = mail[q]
    BY <1>1, <1>2 DEF AccountTypes
  <1>5. \A q \in Conns : ~IsOpen(q)' => mail'[q] = <<>>
    BY <1>1, <1>3, <1>4 DEF AccountTypes
  <1>6. \A q, r \in Conns : q # r /\ Mine(q)' = Mine(r)' => ~(IsOpen(q)' /\ IsOpen(r)')
    BY <1>3 DEF AccountTypes, Mine
  <1>7. UserTypes' /\ CallRecords' = CallRecords /\ LateRecords' = LateRecords
    BY <1>1 DEF AccountTypes, UserTypes, CallRecords, LateRecords
  <1>8. wallet' \in [ Clients -> 0 .. tokens ]
    BY <1>1, <1>2 DEF AccountTypes
  <1> QED
    BY <1>1, <1>3, <1>4, <1>5, <1>6, <1>7, <1>8 DEF AccountTypes

LEMMA CloseTypes ==
  ASSUME AccountTypes, NEW p \in Conns, Close(p)
  PROVE  AccountTypes'
  <1>1. /\ IsOpen(p) /\ mail' = [ mail EXCEPT ![p] = <<>> ]
        /\ link' = [ link EXCEPT ![p] = "closed" ] /\ who' = [ who EXCEPT ![p] = 0 ]
        /\ UNCHANGED << wallet, token, email, call, late, ids, tokens >>
    BY DEF Close, userVars, givenVars
  <1>2. /\ link' \in [ Conns -> { "new", "open", "greeted", "closed" } ]
        /\ link'[p] = "closed" /\ \A q \in Conns : q # p => link'[q] = link[q]
    BY <1>1 DEF AccountTypes
  <1>3. /\ mail' \in [ Conns -> Seq(Kinds \X (0 .. tokens)) ]
        /\ mail'[p] = <<>> /\ \A q \in Conns : q # p => mail'[q] = mail[q]
    BY <1>1 DEF AccountTypes
  <1>4. who' \in [ Conns -> 0 .. ids ] /\ \A q \in Conns : q # p => who'[q] = who[q]
    BY <1>1, WhoTyped DEF AccountTypes
  <1>5. \A q \in Conns : ~IsOpen(q)' => mail'[q] = <<>>
    BY <1>1, <1>2, <1>3 DEF AccountTypes, IsOpen
  <1>6. \A q, r \in Conns : q # r /\ Mine(q)' = Mine(r)' => ~(IsOpen(q)' /\ IsOpen(r)')
    BY <1>2 DEF AccountTypes, Mine, IsOpen
  <1>7. UserTypes' /\ CallRecords' = CallRecords /\ LateRecords' = LateRecords
    BY <1>1 DEF AccountTypes, UserTypes, CallRecords, LateRecords
  <1>8. \A q \in Conns : link'[q] = "new" => call'[q].at = "none" /\ who'[q] = 0
    BY <1>1, <1>2, <1>4 DEF AccountTypes
  <1> QED
    BY <1>1, <1>2, <1>3, <1>4, <1>5, <1>6, <1>7, <1>8 DEF AccountTypes

LEMMA LateTypes ==
  ASSUME AccountTypes, Late
  PROVE  AccountTypes'
  <1>1. PICK s \in late :
            /\ late' = late \ {s}
            /\ token' = IF s.insert THEN [ token EXCEPT ![s.id] = s.tok ] ELSE Updated(s.id, s.tok)
            /\ email' = IF s.insert THEN [ email EXCEPT ![s.id] = s.email ] ELSE email
            /\ UNCHANGED << linkVars, who, call, givenVars >>
    BY DEF Late
  <1>2. UNCHANGED << wallet, link, mail, who, call, ids, tokens >>
    BY <1>1 DEF linkVars, givenVars
  <1>3. s.id \in 1 .. ids /\ s.tok \in 0 .. tokens /\ s.email \in Addresses
    BY DEF AccountTypes, LateRecords
  <1>4. ids \in Nat /\ tokens \in Nat /\ s.tok \in -1 .. tokens
    BY <1>3, Counts
  <1>5. token' = token \/ token' = [ token EXCEPT ![s.id] = s.tok ]
    BY <1>1 DEF Updated
  <1>6. token' \in [ UserIds -> -1 .. tokens ] /\ email' \in [ UserIds -> Addresses ]
    BY <1>1, <1>3, <1>4, <1>5 DEF AccountTypes, UserTypes
  <1>7. ASSUME NEW u \in UserIds, u > ids PROVE token'[u] = NoRow
    <2>1. u # s.id
      BY <1>3, <1>4, <1>7 DEF UserIds
    <2>2. token'[u] = token[u]
      BY <2>1, <1>5 DEF AccountTypes, UserTypes
    <2> QED
      BY <2>2, <1>7 DEF AccountTypes, UserTypes
  <1>8. UserTypes' /\ CallRecords' = CallRecords /\ LateRecords' = LateRecords
    BY <1>2, <1>6, <1>7 DEF UserTypes, CallRecords, LateRecords, Addresses
  <1> QED
    BY <1>1, <1>2, <1>8 DEF AccountTypes, IsOpen, Mine

LEMMA SameTypes ==
  ASSUME AccountTypes, UNCHANGED << wallet, link, mail, who, token, email, call, late, ids, tokens >>
  PROVE  AccountTypes'
  BY DEF AccountTypes, UserTypes, CallRecords, LateRecords, IsOpen, Mine, Addresses

LEMMA InitTypes == AccountsInit => AccountTypes
  <1> SUFFICES ASSUME AccountsInit PROVE AccountTypes
    OBVIOUS
  <1>1. plan.registered \subseteq Clients /\ Cardinality(plan.registered) <= 1 /\ IsFiniteSet(plan.registered)
    <2>1. plan.registered \subseteq Clients /\ Cardinality(plan.registered) <= 1
      BY AccountsAssumption DEF AccountsInit, AccountsAssumption
    <2>2. IsFiniteSet(Clients)
      <3>1. ClientOf \in Surjection(Conns, Clients) /\ IsFiniteSet(Conns)
        BY AccountsAssumption DEF AccountsAssumption, Clients, Surjection
      <3> QED
        BY <3>1, FS_Surjection
    <2> QED
      BY <2>1, <2>2, FS_Subset
  <1>2. ids \in { 0, 1 } /\ tokens = ids /\ ids \in 0 .. MaxUserIds
    <2>1. Cardinality(plan.registered) \in Nat
      BY <1>1, FS_CardinalityType
    <2> QED
      BY <1>1, <2>1, AccountsAssumption DEF AccountsInit, AccountsAssumption
  <1>3. \A c \in Clients : c \in plan.registered => ids = 1
    <2>1. ASSUME NEW c \in plan.registered PROVE Cardinality(plan.registered) # 0
      BY <1>1, FS_EmptySet
    <2> QED
      BY <2>1, <1>2 DEF AccountsInit
  <1>4. wallet \in [ Clients -> 0 .. tokens ]
    BY <1>2, <1>3 DEF AccountsInit
  <1>5. UserTypes
    BY <1>2, AccountsAssumption DEF AccountsInit, UserTypes, UserIds, Addresses, NoRow, AccountsAssumption
  <1>6. call \in [ Conns -> CallRecords ]
    BY <1>2 DEF AccountsInit, CallRecords, NoCall, HandlerSteps, Addresses
  <1>7. \A p \in Conns : call[p].at = "none" /\ link[p] = "new" /\ who[p] = 0 /\ mail[p] = <<>>
    BY DEF AccountsInit, NoCall
  <1>8. mail \in [ Conns -> Seq(Kinds \X (0 .. tokens)) ] /\ who \in [ Conns -> 0 .. ids ]
    BY <1>2 DEF AccountsInit
  <1>9. link \in [ Conns -> { "new", "open", "greeted", "closed" } ] /\ late \subseteq LateRecords
    BY DEF AccountsInit
  <1>10. \A p \in Conns : ~IsOpen(p) /\ call[p].at \notin { "create", "email" } /\ call[p].at \notin AboutUser
    BY <1>7 DEF IsOpen, AboutUser
  <1>11. tokens \in Nat
    BY <1>2
  <1> QED
    BY <1>2, <1>4, <1>5, <1>6, <1>7, <1>8, <1>9, <1>10, <1>11 DEF AccountTypes

-----------------------------------------------------------------------------
(* ... and every step of a handler works that way.  Whom it is about then  *)
(* is no news to the client, or is new, or is shown to be its own.         *)

Familiar(p, u) ==
    u \in { 0, call[p].id, who[p], ids + 1 } \/ u \in Bearers(call[p].tok) \/ << Mine(p), u >> \notin outside'

Revokes(p) ==
    /\ call[p].id # 0 /\ call'[p].id = call[p].id
    /\ token' = Updated(call[p].id, Revoked) /\ late' = late
    /\ outside' = outside \cup (Outsiders(p, call[p].id) \X { call[p].id })

Advances(p, a, u) == Works(p, a, u) /\ Familiar(p, u) /\ (outside' \subseteq outside \/ Revokes(p))

LEMMA Unwritten ==
  ASSUME AccountTypes, NEW p \in Conns, NEW a, NEW u, NEW k, NEW n, NEW e, Handles(p, a, u, k, n, e),
         UNCHANGED << token, email, late, ids, outside >>, Familiar(p, u), a # "save"
  PROVE  Advances(p, a, u)
  BY DEF Advances, Works, Statement, Addressed

LEMMA NextToken ==
  ASSUME AccountTypes, NEW p \in Conns, call[p].id # 0, tokens' = tokens + 1, ids' = ids
  PROVE  Written(p, call[p].id, tokens + 1) /\ tokens + 1 # -1
  <1>1. ids \in Nat /\ tokens \in Nat /\ call[p].id \in 0 .. ids
    BY Counts, Same
  <1>2. tokens + 1 # -1
    BY <1>1
  <1> QED
    BY <1>1, <1>2 DEF Written

LEMMA VoidToken ==
  ASSUME AccountTypes, NEW p \in Conns, call[p].id # 0, tokens' = tokens, ids' = ids
  PROVE  Written(p, call[p].id, Revoked) /\ Written(p, call[p].id, NoRow)
  <1>1. ids \in Nat /\ tokens \in Nat /\ call[p].id \in 0 .. ids
    BY Counts, Same
  <1> QED
    BY <1>1 DEF Written, Revoked, NoRow

LEMMA WrittenStatement ==
  ASSUME AccountTypes, NEW p \in Conns, NEW u, NEW t, Written(p, u, t),
         \/ (token' = [ token EXCEPT ![u] = t ] \/ token' = Updated(u, t)) /\ late' = late
         \/ t # -1 /\ token' = token /\ \E b \in BOOLEAN, e \in Addresses : TimedOut(u, t, b, e)
         \/ token' = token /\ late' = late
  PROVE  Statement(p)
  <1>1. CASE token' = Updated(u, t) /\ late' = late
    <2>1. token' = token \/ token' = [ token EXCEPT ![u] = t ]
      BY <1>1 DEF Updated
    <2> QED
      BY <1>1, <2>1 DEF Statement
  <1>2. CASE token' = [ token EXCEPT ![u] = t ] /\ late' = late
    BY <1>2 DEF Statement
  <1>3. CASE t # -1 /\ token' = token /\ \E b \in BOOLEAN, e \in Addresses : TimedOut(u, t, b, e)
    BY <1>3 DEF Statement
  <1>4. CASE token' = token /\ late' = late
    BY <1>4 DEF Statement
  <1> QED
    BY <1>1, <1>2, <1>3, <1>4

LEMMA NoAddress == "none" \in Addresses /\ TRUE \in BOOLEAN /\ FALSE \in BOOLEAN /\ Revoked # -1
  BY DEF Addresses, Revoked

LEMMA IdentityAdvances ==
  ASSUME AccountTypes, NEW p \in Conns, IdentityStep(p)
  PROVE  \E a, u : Advances(p, a, u)
  <1>1. CASE HandleAuthenticate(p)
    <2>1. UNCHANGED << token, email, late, ids, outside >>
      BY <1>1 DEF HandleAuthenticate, userVars, givenVars
    <2>2. Familiar(p, 0)
      BY DEF Familiar
    <2>3. "fresh" # "save" /\ "find" # "save"
      OBVIOUS
    <2> QED
      BY <1>1, <2>1, <2>2, <2>3, AuthenticateHandles, Unwritten
  <1>2. CASE FindByToken(p)
    <2>1. UNCHANGED << token, email, late, ids, outside >>
      BY <1>2 DEF FindByToken, FindKeeps, userVars, givenVars
    <2>2. CASE \E u \in Bearers(call[p].tok) : Handles(p, "rotate", u, call[p].tok, call[p].new, call[p].email)
      <3>1. PICK u \in Bearers(call[p].tok) : Handles(p, "rotate", u, call[p].tok, call[p].new, call[p].email)
        BY <2>2
      <3>2. Familiar(p, u) /\ "rotate" # "save"
        BY DEF Familiar
      <3> QED
        BY <2>1, <3>1, <3>2, Unwritten
    <2>3. CASE Handles(p, "fresh", call[p].id, call[p].tok, call[p].new, call[p].email)
      <3>1. Familiar(p, call[p].id) /\ "fresh" # "save"
        BY DEF Familiar
      <3> QED
        BY <2>1, <2>3, <3>1, Unwritten
    <2>4. CASE Handles(p, "none", 0, 0, 0, "none")
      <3>1. Familiar(p, 0) /\ "none" # "save"
        BY DEF Familiar
      <3> QED
        BY <2>1, <2>4, <3>1, Unwritten
    <2> QED
      BY <1>2, <2>2, <2>3, <2>4, FindHandles
  <1>3. CASE RotateFound(p)
    <2>1. PICK n \in { call[p].tok, tokens + 1 } :
             /\ Handles(p, "identify", call[p].id, call[p].tok, n, call[p].email)
             /\ tokens' = tokens + 1 /\ ids' = ids /\ email' = email /\ outside' = outside
             /\ \/ token' = Updated(call[p].id, tokens + 1) /\ late' = late
                \/ UNCHANGED << token, late >>
                \/ token' = token /\ TimedOut(call[p].id, tokens + 1, FALSE, "none")
      BY <1>3, RotateHandles
    <2>2. call[p].id # 0
      BY <1>3 DEF AccountTypes, RotateFound, AboutUser
    <2>3. Written(p, call[p].id, tokens + 1) /\ tokens + 1 # -1
      BY <2>1, <2>2, NextToken, Counts
    <2>4. Statement(p)
      BY <2>1, <2>3, NoAddress, WrittenStatement
    <2>5. Familiar(p, call[p].id) /\ "identify" # "save"
      BY DEF Familiar
    <2> QED
      BY <2>1, <2>4, <2>5 DEF Advances, Works, Addressed
  <1>4. CASE Identify(p)
    <2>1. UNCHANGED << token, email, late, ids, outside >>
      BY <1>4 DEF Identify, userVars, givenVars
    <2>2. Familiar(p, 0) /\ "none" # "save"
      BY DEF Familiar
    <2> QED
      BY <1>4, <2>1, <2>2, IdentifyHandles, Unwritten
  <1>5. CASE FreshIdentity(p)
    <2>1. Handles(p, "save", ids + 1, call[p].tok, tokens + 1, call[p].email)
      BY <1>5, FreshHandles
    <2>2. ids' = ids + 1 /\ ids < MaxUserIds /\ UNCHANGED << token, email, late, outside >>
      BY <1>5 DEF FreshIdentity, userVars
    <2>3. Familiar(p, ids + 1)
      BY DEF Familiar
    <2> QED
      BY <2>1, <2>2, <2>3 DEF Advances, Works, Statement, Addressed
  <1>6. CASE SaveUser(p)
    <2>1. /\ call[p].at = "save" /\ call[p].id # 0 /\ ids' = ids /\ tokens' = tokens /\ email' = email
          /\ outside' = outside
      BY <1>6 DEF AccountTypes, SaveUser, AboutUser, givenVars
    <2>2. Written(p, call[p].id, call[p].new) /\ call[p].new # -1
      <3>1. ids \in Nat /\ tokens \in Nat /\ call[p].id \in 0 .. ids /\ call[p].new \in 0 .. tokens
        BY Counts, Same
      <3> QED
        BY <3>1, <2>1 DEF Written
    <2>3. \/ token' = [ token EXCEPT ![call[p].id] = call[p].new ] /\ late' = late
          \/ token' = token /\ late' = late
          \/ token' = token /\ TimedOut(call[p].id, call[p].new, TRUE, "none")
      BY <1>6, SaveHandles
    <2>4. Statement(p)
      BY <2>2, <2>3, NoAddress, WrittenStatement
    <2>5. \/ Handles(p, "identify", call[p].id, call[p].tok, call[p].new, call[p].email)
          \/ Handles(p, "none", 0, 0, 0, "none")
      BY <1>6, SaveHandles
    <2>6. Familiar(p, call[p].id) /\ Familiar(p, 0) /\ "identify" # "save" /\ "none" # "save"
      BY DEF Familiar
    <2> QED
      BY <2>1, <2>4, <2>5, <2>6 DEF Advances, Works, Addressed
  <1> QED
    BY <1>1, <1>2, <1>3, <1>4, <1>5, <1>6 DEF IdentityStep

LEMMA AccountAdvances ==
  ASSUME AccountTypes, NEW p \in Conns, AccountStep(p)
  PROVE  \E a, u : Advances(p, a, u)
  <1> DEFINE Asking == \/ \E e \in Emails : HandleCreateAccount(p, e) \/ HandleLogin(p, e) \/ HandleWithPassword(p, "email", e)
                       \/ HandleWithPassword(p, "delete", "none") \/ HandleLogout(p) \/ HandleRevokeAll(p)
  <1>0. Familiar(p, 0) /\ Familiar(p, call[p].id) /\ Familiar(p, who[p]) /\ Familiar(p, ids + 1)
    BY DEF Familiar
  <1>1. CASE Asking
    <2>1. PICK a \in { "create", "find email", "email", "delete", "logout", "clear", "revoke" }, u \in { 0, who[p] },
               e \in Addresses : Handles(p, a, u, 0, 0, e)
      BY <1>1, AskHandles
    <2>2. UNCHANGED << token, email, late, ids, outside >>
      BY <1>1, AskHandles DEF userVars, givenVars
    <2> QED
      BY <2>1, <2>2, <1>0, Unwritten
  <1>2. CASE CreateAccount(p)
    <2>1. /\ ids' = ids + 1 /\ tokens' = tokens + 1 /\ outside' = outside /\ ids < MaxUserIds
          /\ ids + 1 \in UserIds /\ call[p].email \in Addresses
      <3>1. ids' = ids + 1 /\ tokens' = tokens + 1 /\ outside' = outside /\ call[p].email \in Emails
        BY <1>2, CreateHandles
      <3>2. ids < MaxUserIds
        BY <1>2 DEF CreateAccount
      <3> QED
        BY <3>1, <3>2, Counts DEF UserIds, Addresses
    <2>2. Written(p, ids + 1, tokens + 1) /\ tokens + 1 # -1
      BY <2>1, Counts DEF Written
    <2>3. CASE /\ Handles(p, "created", ids + 1, call[p].tok, tokens + 1, call[p].email)
               /\ token' = [ token EXCEPT ![ids + 1] = tokens + 1 ]
               /\ email' = [ email EXCEPT ![ids + 1] = call[p].email ] /\ late' = late
      <3>1. Statement(p) /\ Addressed /\ "created" # "save"
        BY <2>1, <2>2, <2>3, WrittenStatement DEF Addressed
      <3> QED
        BY <2>1, <2>3, <3>1, <1>0 DEF Advances, Works
    <2>4. CASE /\ Handles(p, "none", 0, 0, 0, "none") /\ UNCHANGED userVars
               /\ late' = late \/ TimedOut(ids + 1, tokens + 1, TRUE, call[p].email)
      <3>1. Statement(p) /\ Addressed /\ "none" # "save"
        BY <2>1, <2>2, <2>4, NoAddress, WrittenStatement DEF Addressed, userVars
      <3> QED
        BY <2>1, <2>4, <3>1, <1>0 DEF Advances, Works
    <2> QED
      BY <1>2, <2>3, <2>4, CreateHandles
  <1>3. CASE SwitchIdentity(p)
    <2>1. UNCHANGED << token, email, late, ids, outside >> /\ "none" # "save"
      BY <1>3 DEF SwitchIdentity, userVars, givenVars
    <2> QED
      BY <1>0, <1>3, <2>1, SwitchHandles, Unwritten
  <1>4. CASE FindByEmail(p)
    <2>1. UNCHANGED << token, email, late, ids >>
      BY <1>4, FindByEmailHandles DEF userVars, givenVars
    <2>2. CASE \E u \in UserIds :
                   /\ Handles(p, "verified", u, call[p].tok, call[p].new, call[p].email)
                   /\ outside' = outside \ {<< Mine(p), u >>}
      <3>1. PICK u \in UserIds :
                   /\ Handles(p, "verified", u, call[p].tok, call[p].new, call[p].email)
                   /\ outside' = outside \ {<< Mine(p), u >>}
        BY <2>2
      <3>2. Familiar(p, u) /\ outside' \subseteq outside /\ "verified" # "save"
        BY <3>1 DEF Familiar
      <3> QED
        BY <2>1, <3>1, <3>2 DEF Advances, Works, Statement, Addressed
    <2>3. CASE Handles(p, "failed", call[p].id, call[p].tok, call[p].new, call[p].email) /\ outside' = outside
      <3>1. "failed" # "save"
        OBVIOUS
      <3> QED
        BY <1>0, <2>1, <2>3, <3>1, Unwritten
    <2>4. CASE Handles(p, "none", 0, 0, 0, "none") /\ outside' = outside
      <3>1. "none" # "save"
        OBVIOUS
      <3> QED
        BY <1>0, <2>1, <2>4, <3>1, Unwritten
    <2> QED
      BY <1>4, <2>2, <2>3, <2>4, FindByEmailHandles
  <1>5. CASE RecordFailure(p) \/ ClearFailures(p)
    <2>1. UNCHANGED << token, email, late, ids, outside >> /\ "none" # "save" /\ "login" # "save"
      BY <1>5, CountHandles DEF userVars, givenVars
    <2> QED
      BY <1>0, <1>5, <2>1, CountHandles, Unwritten
  <1>6. CASE RotateLogin(p) \/ Reissue(p)
    <2>1. PICK a \in { "logged in", "reissued" } :
              Handles(p, a, call[p].id, call[p].tok, tokens + 1, call[p].email)
      BY <1>6, RotatingHandles
    <2>2. /\ Rotate(p, call[p].id, tokens + 1) /\ email' = email /\ outside' = outside /\ call[p].id # 0
          /\ tokens' = tokens + 1 /\ ids' = ids
      BY <1>6, RotatingHandles DEF Rotate, AccountTypes, AboutUser, RotateLogin, Reissue
    <2>3. Written(p, call[p].id, tokens + 1) /\ tokens + 1 # -1
      BY <2>2, NextToken
    <2>4. \/ token' = Updated(call[p].id, tokens + 1) /\ late' = late
          \/ token' = token /\ late' = late
          \/ token' = token /\ TimedOut(call[p].id, tokens + 1, FALSE, "none")
      BY <2>2 DEF Rotate
    <2>5. Statement(p)
      BY <2>3, <2>4, NoAddress, WrittenStatement
    <2> QED
      BY <1>0, <2>1, <2>2, <2>5 DEF Advances, Works, Addressed
  <1>7. CASE InvalidateForLogout(p) \/ InvalidateForRevoke(p)
    <2>1. \E a \in { "none", "clear", "reissue" }, u \in { 0, call[p].id } : \E k, n, e : Handles(p, a, u, k, n, e)
      BY <1>7, InvalidateHandles
    <2>2. PICK a \in { "none", "clear", "reissue" }, u \in { 0, call[p].id } : \E k, n, e : Handles(p, a, u, k, n, e)
      BY <2>1
    <2>3. email' = email /\ ids' = ids /\ tokens' = tokens /\ call[p].id # 0
      BY <1>7, InvalidateHandles DEF AccountTypes, AboutUser, givenVars
    <2>4. Written(p, call[p].id, Revoked)
      BY <2>3, VoidToken
    <2>5. Statement(p) /\ (outside' \subseteq outside \/ Revokes(p))
      BY <1>7, <2>3, <2>4, InvalidateHandles, NoAddress, WrittenStatement DEF Revokes
    <2> QED
      BY <1>0, <2>2, <2>3, <2>5 DEF Advances, Works, Addressed
  <1>8. CASE ClearIdentity(p) \/ AnswerRevoked(p)
    <2>1. UNCHANGED << token, email, late, ids, outside >> /\ "none" # "save"
      BY <1>8 DEF ClearIdentity, AnswerRevoked, userVars, givenVars
    <2> QED
      BY <1>0, <1>8, <2>1, LastHandles, Unwritten
  <1>9. CASE SaveEmail(p)
    <2>1. /\ token' = token /\ late' = late /\ ids' = ids /\ outside' = outside /\ call[p].at = "email"
          /\ email' = email \/ email' = [ email EXCEPT ![call[p].id] = call[p].email ]
      BY <1>9 DEF SaveEmail, givenVars
    <2>2. call[p].id \in UserIds /\ call[p].email \in Addresses
      <3>1. call[p].id \in 0 .. ids /\ call[p].email \in Addresses
        BY Same
      <3>2. call[p].id # 0 /\ ids \in 0 .. MaxUserIds
        BY <2>1 DEF AccountTypes, AboutUser
      <3> QED
        BY <3>1, <3>2, Counts DEF UserIds
    <2>3. Addressed /\ Statement(p) /\ "none" # "save"
      BY <2>1, <2>2 DEF Addressed, Statement
    <2> QED
      BY <1>0, <1>9, <2>1, <2>3, LastHandles DEF Advances, Works
  <1>10. CASE DeleteUser(p)
    <2>1. /\ late' = late /\ ids' = ids /\ tokens' = tokens /\ outside' = outside /\ call[p].at = "delete"
          /\ email' = email
          /\ token' = token \/ token' = [ token EXCEPT ![call[p].id] = NoRow ]
      BY <1>10 DEF DeleteUser, givenVars
    <2>2. call[p].id # 0
      BY <2>1 DEF AccountTypes, AboutUser
    <2>3. Written(p, call[p].id, NoRow)
      BY <2>1, <2>2, VoidToken
    <2>4. Addressed /\ Statement(p) /\ "none" # "save"
      BY <2>1, <2>3, WrittenStatement DEF Addressed
    <2> QED
      BY <1>0, <1>10, <2>1, <2>4, LastHandles DEF Advances, Works
  <1> QED
    BY <1>1, <1>2, <1>3, <1>4, <1>5, <1>6, <1>7, <1>8, <1>9, <1>10 DEF AccountStep

-----------------------------------------------------------------------------
(* Who is out stays out: the tokens a client has, or is given, are its own *)
(* alone, and none of those it has is, or will be, that of a user it is    *)
(* outside of.                                                             *)

InMail(p) == { mail[p][i][2] : i \in DOMAIN mail[p] }

(* t is with c, or on its way to it. *)
Holds(c, t) ==
    \/ wallet[c] = t
    \/ \E p \in Conns : Mine(p) = c /\ (t \in InMail(p) \/ call[p].tok = t \/ call[p].new = t)

(* t is the token of u, or may become it without a rotation. *)
Coming(u, t) ==
    \/ token[u] = t
    \/ \E s \in late : s.id = u /\ s.tok = t
    \/ \E p \in Conns : call[p].at = "save" /\ call[p].id = u /\ call[p].new = t

Private == \A c, d \in Clients, t \in 1 .. tokens : Holds(c, t) /\ Holds(d, t) => c = d

Outside(c, u) ==
    /\ u <= ids
    /\ \A p \in Conns : Mine(p) = c => who[p] # u /\ call[p].id # u
    /\ \A t \in 1 .. tokens : Coming(u, t) => ~Holds(c, t)

Out == \A c \in Clients, u \in UserIds : << c, u >> \in outside => Outside(c, u)

OutInv == AccountTypes /\ Private /\ Out

LEMMA HeldGiven ==
  ASSUME AccountTypes, NEW c \in Clients, NEW t, Holds(c, t)
  PROVE  t \in 0 .. tokens
  <1>1. CASE wallet[c] = t
    BY <1>1 DEF AccountTypes
  <1>2. ASSUME NEW p \in Conns, t \in InMail(p) \/ call[p].tok = t \/ call[p].new = t
        PROVE  t \in 0 .. tokens
    <2>1. CASE t \in InMail(p)
      <3>1. PICK i \in DOMAIN mail[p] : t = mail[p][i][2]
        BY <2>1 DEF InMail
      <3>2. mail[p] \in Seq(Kinds \X (0 .. tokens))
        BY DEF AccountTypes
      <3>3. mail[p][i] \in Kinds \X (0 .. tokens)
        BY <3>2
      <3> QED
        BY <3>1, <3>3
    <2>2. CASE call[p].tok = t \/ call[p].new = t
      BY <2>2, Same
    <2> QED
      BY <1>2, <2>1, <2>2
  <1> QED
    BY <1>1, <1>2 DEF Holds

LEMMA SentMail ==
  ASSUME AccountTypes, NEW p \in Conns, Sends(p), NEW q \in Conns
  PROVE  /\ q # p => mail'[q] = mail[q] /\ InMail(q)' = InMail(q)
         /\ InMail(p)' \subseteq InMail(p) \cup { 0, call[p].new }
         /\ InMail(p) \subseteq InMail(p)'
  <1>1. mail \in [ Conns -> Seq(Kinds \X (0 .. tokens)) ]
    BY DEF AccountTypes
  <1>2. CASE mail' = mail
    BY <1>2 DEF InMail
  <1>3. ASSUME NEW kind, NEW t \in { 0, call[p].new }, mail' = [ mail EXCEPT ![p] = Append(@, << kind, t >>) ]
        PROVE  /\ q # p => mail'[q] = mail[q] /\ InMail(q)' = InMail(q)
               /\ InMail(p)' \subseteq InMail(p) \cup { 0, call[p].new }
               /\ InMail(p) \subseteq InMail(p)'
    <2>1. q # p => mail'[q] = mail[q]
      BY <1>1, <1>3
    <2>2. mail'[p] = Append(mail[p], << kind, t >>)
      BY <1>1, <1>3
    <2>3. /\ DOMAIN mail[p] = 1 .. Len(mail[p]) /\ Len(mail[p]) \in Nat
          /\ DOMAIN mail'[p] = 1 .. Len(mail[p]) + 1
          /\ \A i \in 1 .. Len(mail[p]) : mail'[p][i] = mail[p][i]
          /\ mail'[p][Len(mail[p]) + 1] = << kind, t >>
      BY <1>1, <2>2
    <2>4. InMail(p)' \subseteq InMail(p) \cup { t }
      <3>1. ASSUME NEW i \in DOMAIN mail'[p] PROVE mail'[p][i][2] \in InMail(p) \cup { t }
        <4>1. i \in DOMAIN mail[p] \/ i = Len(mail[p]) + 1
          BY <2>3
        <4> QED
          BY <4>1, <2>3 DEF InMail
      <3> QED
        BY <3>1 DEF InMail
    <2>5. InMail(p) \subseteq InMail(p)'
      <3>1. \A i \in DOMAIN mail[p] : i \in DOMAIN mail'[p] /\ mail'[p][i] = mail[p][i]
        BY <2>3
      <3> QED
        BY <3>1 DEF InMail
    <2> QED
      BY <2>1, <2>4, <2>5 DEF InMail
  <1> QED
    BY <1>2, <1>3 DEF Sends

LEMMA HandledHolds ==
  ASSUME AccountTypes, NEW p \in Conns, NEW a, NEW u, NEW k, NEW n, NEW e, Handles(p, a, u, k, n, e),
         NEW c \in Clients, NEW t \in Nat \ {0}, Holds(c, t)'
  PROVE  Holds(c, t) \/ (c = Mine(p) /\ t = tokens + 1)
  <1>1. /\ wallet' = wallet /\ Sends(p) /\ tokens' \in { tokens, tokens + 1 }
        /\ k \in { 0, call[p].tok, wallet[Mine(p)] }
        /\ n \in { 0, call[p].new, call[p].tok } \/ (n = tokens' /\ tokens' = tokens + 1)
        /\ Turn(p, Record(a, u, k, n, e))
    BY DEF Handles
  <1>2. call'[p].tok = k /\ call'[p].new = n /\ \A q \in Conns : q # p => call'[q] = call[q]
    BY <1>1, Turned
  <1>3. \A q \in Conns : Mine(q)' = Mine(q)
    BY DEF Mine
  <1>4. CASE wallet'[c] = t
    BY <1>1, <1>4 DEF Holds
  <1>5. ASSUME NEW q \in Conns, Mine(q) = c, t \in InMail(q)' \/ call'[q].tok = t \/ call'[q].new = t
        PROVE  Holds(c, t) \/ (c = Mine(p) /\ t = tokens + 1)
    <2>1. CASE q # p
      <3>1. InMail(q)' = InMail(q) /\ call'[q] = call[q]
        BY <2>1, <1>1, <1>2, SentMail
      <3> QED
        BY <3>1, <1>5 DEF Holds
    <2>2. CASE q = p /\ t \in InMail(p)'
      <3>1. t \in InMail(p) \/ t = call[p].new
        BY <2>2, <1>1, SentMail
      <3> QED
        BY <3>1, <2>2, <1>5 DEF Holds
    <2>3. CASE q = p /\ (k = t \/ n = t)
      <3>1. t \in { call[p].tok, call[p].new, wallet[c] } \/ t = tokens + 1
        BY <1>1, <1>5, <2>3
      <3> QED
        BY <3>1, <2>3, <1>5 DEF Holds
    <2> QED
      BY <1>2, <1>5, <2>1, <2>2, <2>3
  <1> QED
    BY <1>3, <1>4, <1>5 DEF Holds

LEMMA HandledPrivate ==
  ASSUME OutInv, NEW p \in Conns, NEW a, NEW u, NEW k, NEW n, NEW e, Handles(p, a, u, k, n, e)
  PROVE  Private'
  <1>0. AccountTypes /\ Private /\ tokens \in Nat /\ tokens' \in { tokens, tokens + 1 }
    BY Counts DEF OutInv, Handles
  <1> SUFFICES ASSUME NEW c \in Clients, NEW d \in Clients, NEW t \in 1 .. tokens', Holds(c, t)', Holds(d, t)'
               PROVE  c = d
    BY DEF Private, Clients
  <1>1. t \in Nat \ {0}
    BY <1>0
  <1>2. CASE t = tokens + 1
    <2>1. ~Holds(c, t) /\ ~Holds(d, t)
      BY <1>0, <1>2, HeldGiven
    <2> QED
      BY <2>1, <1>0, <1>1, HandledHolds
  <1>3. CASE t # tokens + 1
    <2>1. Holds(c, t) /\ Holds(d, t) /\ t \in 1 .. tokens
      BY <1>0, <1>1, <1>3, HandledHolds
    <2> QED
      BY <1>0, <2>1 DEF Private
  <1> QED
    BY <1>2, <1>3

LEMMA ComingGiven ==
  ASSUME AccountTypes, NEW u \in UserIds, NEW t \in Nat, Coming(u, t)
  PROVE  t <= tokens
  <1>0. tokens \in Nat
    BY Counts
  <1>1. CASE token[u] = t
    BY <1>0, <1>1 DEF AccountTypes, UserTypes
  <1>2. CASE \E s \in late : s.id = u /\ s.tok = t
    <2>1. PICK s \in late : s.id = u /\ s.tok = t
      BY <1>2
    <2>2. s.tok \in 0 .. tokens
      BY DEF AccountTypes, LateRecords
    <2> QED
      BY <1>0, <2>1, <2>2
  <1>3. CASE \E p \in Conns : call[p].at = "save" /\ call[p].id = u /\ call[p].new = t
    BY <1>0, <1>3, Same
  <1> QED
    BY <1>1, <1>2, <1>3 DEF Coming

(* What may become the token of a user through the step of a handler: the  *)
(* next token, of one user.                                                *)
LEMMA WorksComing ==
  ASSUME AccountTypes, NEW p \in Conns, NEW a, NEW u, Works(p, a, u)
  PROVE  \E w \in { call[p].id, ids + 1 } : \A v \in UserIds, t \in Nat \ {0} :
             Coming(v, t)' => Coming(v, t) \/ (t = tokens + 1 /\ v = w)
  <1>1. PICK k, n, e : Handles(p, a, u, k, n, e) /\ (a = "save" => u = ids + 1 /\ n = tokens + 1)
    BY DEF Works
  <1>2. /\ call'[p].at = a /\ call'[p].id = u /\ call'[p].new = n
        /\ \A q \in Conns : q # p => call'[q] = call[q]
    BY <1>1, Turned DEF Handles
  <1>3. ASSUME NEW v \in UserIds, NEW t \in Nat \ {0},
               \E q \in Conns : call'[q].at = "save" /\ call'[q].id = v /\ call'[q].new = t
        PROVE  Coming(v, t) \/ (a = "save" /\ t = tokens + 1 /\ v = ids + 1)
    BY <1>1, <1>2, <1>3 DEF Coming
  <1>4. CASE token' = token /\ late' = late
    <2>1. \A v \in UserIds, t \in Nat \ {0} : Coming(v, t)' => Coming(v, t) \/ (t = tokens + 1 /\ v = ids + 1)
      BY <1>3, <1>4 DEF Coming
    <2> QED
      BY <2>1
  <1>5. CASE a # "save" /\ \E w, x : /\ Written(p, w, x) /\ token' = [ token EXCEPT ![w] = x ] /\ late' = late
    <2>1. PICK w, x : Written(p, w, x) /\ token' = [ token EXCEPT ![w] = x ] /\ late' = late
      BY <1>5
    <2>2. ASSUME NEW v \in UserIds, NEW t \in Nat \ {0}, Coming(v, t)'
          PROVE  Coming(v, t) \/ (t = tokens + 1 /\ v = w)
      <3>1. token'[v] = IF v = w THEN x ELSE token[v]
        BY <2>1 DEF AccountTypes, UserTypes
      <3>2. CASE token'[v] = t /\ v = w
        BY <2>1, <3>1, <3>2 DEF Written, Coming
      <3>3. CASE token'[v] = t /\ v # w
        BY <3>1, <3>3 DEF Coming
      <3>4. CASE token'[v] # t
        BY <1>3, <1>5, <2>1, <2>2, <3>4 DEF Coming
      <3> QED
        BY <3>2, <3>3, <3>4
    <2>3. w \in { call[p].id, ids + 1 }
      BY <2>1 DEF Written
    <2> QED
      BY <2>2, <2>3
  <1>6. CASE a # "save" /\ \E w, x : /\ Written(p, w, x) /\ token' = token
                                     /\ \E b \in BOOLEAN, f \in Addresses : TimedOut(w, x, b, f)
    <2>1. PICK w, x : /\ Written(p, w, x) /\ token' = token
                      /\ \E b \in BOOLEAN, f \in Addresses : TimedOut(w, x, b, f)
      BY <1>6
    <2>2. PICK b \in BOOLEAN, f \in Addresses : TimedOut(w, x, b, f)
      BY <2>1
    <2>3. ASSUME NEW v \in UserIds, NEW t \in Nat \ {0}, Coming(v, t)'
          PROVE  Coming(v, t) \/ (t = tokens + 1 /\ v = w)
      <3>1. CASE \E s \in late' : s.id = v /\ s.tok = t
        <4>1. PICK s \in late' : s.id = v /\ s.tok = t
          BY <3>1
        <4>2. CASE s \in late
          BY <4>1, <4>2 DEF Coming
        <4>3. CASE s = [ id |-> w, tok |-> x, insert |-> b, email |-> f ]
          <5>1. s.id = w /\ s.tok = x
            BY <4>3
          <5> QED
            BY <2>1, <4>1, <5>1 DEF Written, Coming
        <4> QED
          BY <2>2, <4>2, <4>3 DEF TimedOut
      <3>2. CASE ~(\E s \in late' : s.id = v /\ s.tok = t)
        BY <1>3, <1>6, <2>1, <2>3, <3>2 DEF Coming
      <3> QED
        BY <3>1, <3>2
    <2>4. w \in { call[p].id, ids + 1 }
      BY <2>1 DEF Written
    <2> QED
      BY <2>3, <2>4
  <1> QED
    BY <1>4, <1>5, <1>6 DEF Works, Statement

LEMMA StaysOutside ==
  ASSUME OutInv, NEW p \in Conns, NEW a, NEW u, Works(p, a, u), Familiar(p, u),
         NEW c \in Clients, NEW v \in UserIds, << c, v >> \in outside, << c, v >> \in outside'
  PROVE  Outside(c, v)'
  <1>0. AccountTypes /\ Outside(c, v) /\ tokens \in Nat /\ ids \in Nat /\ v \in Nat \ {0}
    BY Counts DEF OutInv, Out, UserIds
  <1>1. PICK k, n, e : Handles(p, a, u, k, n, e)
    BY DEF Works
  <1>2. /\ call'[p].id = u /\ \A q \in Conns : q # p => call'[q] = call[q]
        /\ who' = who \/ \E w \in { 0, call[p].id, u } : who' = [ who EXCEPT ![p] = w ]
        /\ ids' \in { ids, ids + 1 } /\ tokens' \in { tokens, tokens + 1 }
    BY <1>0, <1>1, Turned DEF Handles
  <1>3. c = Mine(p) => v # u /\ v # call[p].id /\ v # ids + 1 /\ v # who[p]
    <2> SUFFICES ASSUME c = Mine(p) PROVE v # u /\ v # call[p].id /\ v # ids + 1 /\ v # who[p]
      OBVIOUS
    <2>1. v # call[p].id /\ v # who[p] /\ v <= ids
      BY <1>0 DEF Outside
    <2>2. v # ids + 1 /\ v # 0
      BY <1>0, <2>1
    <2>3. CASE u \in Bearers(call[p].tok)
      <3>1. call[p].tok \in 0 .. tokens /\ Holds(c, call[p].tok)
        BY <1>0, Same DEF Holds
      <3>2. token[u] = call[p].tok /\ call[p].tok > 0
        BY <2>3 DEF Bearers
      <3>3. call[p].tok \in 1 .. tokens
        BY <1>0, <3>1, <3>2
      <3>4. ~Coming(v, call[p].tok)
        BY <1>0, <3>1, <3>3 DEF Outside
      <3>5. v # u
        BY <3>2, <3>4 DEF Coming
      <3> QED
        BY <2>1, <2>2, <3>5
    <2> QED
      BY <2>1, <2>2, <2>3 DEF Familiar
  <1>4. v <= ids'
    BY <1>0, <1>2 DEF Outside
  <1>5. ASSUME NEW q \in Conns, Mine(q) = c PROVE who'[q] # v /\ call'[q].id # v
    <2>1. who[q] # v /\ call[q].id # v /\ v # 0
      BY <1>0, <1>5 DEF Outside
    <2>2. CASE q # p
      BY <1>2, <2>1, <2>2, <1>0 DEF AccountTypes
    <2>3. CASE q = p
      BY <1>2, <1>3, <1>5, <2>1, <2>3, <1>0 DEF AccountTypes
    <2> QED
      BY <2>2, <2>3
  <1>6. ASSUME NEW t \in 1 .. tokens', Coming(v, t)', Holds(c, t)' PROVE FALSE
    <2>0. t \in Nat \ {0}
      BY <1>0, <1>2
    <2>1. Holds(c, t) \/ (c = Mine(p) /\ t = tokens + 1)
      BY <1>0, <1>1, <1>6, <2>0, HandledHolds
    <2>2. Coming(v, t) \/ (t = tokens + 1 /\ v \in { call[p].id, ids + 1 })
      BY <1>0, <1>6, <2>0, WorksComing
    <2>3. CASE Coming(v, t)
      <3>1. t \in 1 .. tokens
        BY <1>0, <2>0, <2>3, ComingGiven
      <3>2. Holds(c, t)
        BY <1>0, <2>1, <3>1
      <3> QED
        BY <1>0, <2>3, <3>1, <3>2 DEF Outside
    <2>4. CASE t = tokens + 1 /\ v \in { call[p].id, ids + 1 }
      <3>1. ~Holds(c, t)
        BY <1>0, <2>4, HeldGiven
      <3> QED
        BY <2>1, <2>4, <3>1, <1>3
    <2> QED
      BY <2>2, <2>3, <2>4
  <1>7. \A q \in Conns : Mine(q)' = Mine(q)
    BY DEF Mine
  <1> QED
    BY <1>4, <1>5, <1>6, <1>7 DEF Outside

LEMMA GoesOut ==
  ASSUME OutInv, NEW p \in Conns, NEW a, NEW u, Works(p, a, u), Revokes(p),
         NEW v, v = call[p].id, NEW c \in Outsiders(p, v)
  PROVE  Outside(c, v)'
  <1>0. AccountTypes /\ Private /\ tokens \in Nat /\ ids \in Nat /\ v \in 1 .. ids /\ v \in UserIds
    <2>1. AccountTypes /\ Private /\ tokens \in Nat /\ ids \in Nat
      BY Counts DEF OutInv
    <2>2. v \in 0 .. ids /\ v # 0 /\ ids \in 0 .. MaxUserIds
      BY <2>1, Same DEF Revokes, AccountTypes
    <2> QED
      BY <2>1, <2>2, Counts DEF UserIds
  <1>1. PICK k, n, e : Handles(p, a, u, k, n, e) /\ (a = "save" => u = ids + 1 /\ n = tokens + 1)
    BY DEF Works
  <1>2. /\ call'[p].at = a /\ call'[p].id = u /\ \A q \in Conns : q # p => call'[q] = call[q]
        /\ who' = who \/ \E w \in { 0, call[p].id, u } : who' = [ who EXCEPT ![p] = w ]
        /\ ids' \in { ids, ids + 1 } /\ tokens' \in { tokens, tokens + 1 }
    BY <1>0, <1>1, Turned DEF Handles
  <1>3. /\ c \in Clients /\ c # Mine(p)
        /\ \A q \in Conns \ {p} : Mine(q) = c => who[q] # v /\ call[q].id # v
        /\ \A s \in late : s.id # v
    BY DEF Outsiders
  <1>4. /\ u = v /\ late' = late /\ token' = Updated(v, Revoked)
    BY <1>2 DEF Revokes
  <1>5. v <= ids'
    BY <1>0, <1>2
  <1>6. ASSUME NEW q \in Conns, Mine(q) = c PROVE who'[q] # v /\ call'[q].id # v
    <2>1. q # p /\ who[q] # v /\ call[q].id # v
      BY <1>3, <1>6
    <2> QED
      BY <2>1, <1>0, <1>2 DEF AccountTypes
  <1>7. ASSUME NEW t \in 1 .. tokens', Coming(v, t)', Holds(c, t)' PROVE FALSE
    <2>0. t \in Nat \ {0}
      BY <1>0, <1>2
    <2>1. Holds(c, t)
      BY <1>0, <1>1, <1>3, <1>7, <2>0, HandledHolds
    <2>2. t \in 1 .. tokens
      BY <1>0, <1>3, <2>0, <2>1, HeldGiven
    <2>3. token'[v] # t
      BY <1>0, <1>4, <2>0 DEF Updated, AccountTypes, UserTypes, Revoked, NoRow
    <2>4. PICK q \in Conns : call'[q].at = "save" /\ call'[q].id = v /\ call'[q].new = t
      BY <1>3, <1>4, <1>7, <2>3 DEF Coming
    <2>5. q # p
      <3>1. u = ids + 1 => FALSE
        BY <1>0, <1>4
      <3> QED
        BY <2>4, <1>1, <1>2, <3>1
    <2>6. call[q].id = v /\ call[q].new = t /\ Mine(q) # c
      BY <2>4, <2>5, <1>2, <1>3
    <2>7. Holds(Mine(q), t) /\ Mine(q) \in Clients
      BY <2>6, MineIsClient DEF Holds
    <2> QED
      BY <1>0, <1>3, <2>1, <2>2, <2>6, <2>7 DEF Private
  <1>8. \A q \in Conns : Mine(q)' = Mine(q)
    BY DEF Mine
  <1>9. \A t \in 1 .. tokens' : Coming(v, t)' => ~Holds(c, t)'
    BY <1>7
  <1> QED
    BY <1>5, <1>6, <1>8, <1>9 DEF Outside

LEMMA HandlerOut ==
  ASSUME OutInv, NEW p \in Conns, IdentityStep(p) \/ AccountStep(p)
  PROVE  OutInv'
  <1>0. AccountTypes
    BY DEF OutInv
  <1>1. PICK a, u : Advances(p, a, u)
    BY <1>0, IdentityAdvances, AccountAdvances
  <1>2. Works(p, a, u) /\ Familiar(p, u) /\ (outside' \subseteq outside \/ Revokes(p))
    BY <1>1 DEF Advances
  <1>3. AccountTypes'
    BY <1>0, <1>2, WorksTypes
  <1>4. Private'
    BY <1>2, HandledPrivate DEF Works
  <1>5. ASSUME NEW c \in Clients, NEW v \in UserIds, << c, v >> \in outside' PROVE Outside(c, v)'
    <2>1. CASE << c, v >> \in outside
      BY <1>2, <1>5, <2>1, StaysOutside
    <2>2. CASE << c, v >> \notin outside
      <3>1. Revokes(p) /\ v = call[p].id /\ c \in Outsiders(p, call[p].id)
        BY <1>2, <1>5, <2>2 DEF Revokes
      <3> QED
        BY <1>2, <3>1, GoesOut
    <2> QED
      BY <2>1, <2>2
  <1> QED
    BY <1>3, <1>4, <1>5 DEF OutInv, Out, Clients, UserIds

(* A step that gives no client a token, and no user either. *)
LEMMA NobodyIn ==
  ASSUME OutInv, tokens' = tokens, ids' = ids, call' = call, outside' = outside,
         \A q \in Conns : who'[q] \in { 0, who[q] },
         \A c \in Clients, t \in Nat \ {0} : Holds(c, t)' => Holds(c, t),
         \A u \in UserIds, t \in Nat \ {0} : Coming(u, t)' => Coming(u, t)
  PROVE  Private' /\ Out'
  <1>0. Private /\ Out /\ tokens \in Nat
    BY Counts DEF OutInv
  <1>1. \A t \in 1 .. tokens' : t \in 1 .. tokens /\ t \in Nat \ {0}
    BY <1>0
  <1>2. Private'
    BY <1>0, <1>1 DEF Private, Clients
  <1>3. ASSUME NEW c \in Clients, NEW u \in UserIds, << c, u >> \in outside' PROVE Outside(c, u)'
    <2>1. Outside(c, u) /\ u # 0
      BY <1>0, <1>3 DEF Out, UserIds
    <2>2. \A q \in Conns : Mine(q)' = Mine(q)
      BY DEF Mine
    <2>3. \A q \in Conns : Mine(q) = c => who'[q] # u /\ call'[q].id # u
      BY <2>1 DEF Outside
    <2>4. \A t \in 1 .. tokens' : Coming(u, t)' => ~Holds(c, t)'
      BY <1>1, <2>1 DEF Outside
    <2> QED
      BY <2>1, <2>2, <2>3, <2>4 DEF Outside
  <1> QED
    BY <1>2, <1>3 DEF Out, Clients, UserIds

LEMMA SameComing ==
  ASSUME token' = token, late' = late, call' = call, NEW u, NEW t
  PROVE  Coming(u, t)' => Coming(u, t)
  BY DEF Coming

LEMMA ClientOut ==
  ASSUME OutInv, NEW p \in Conns, ClientStep(p)
  PROVE  OutInv'
  <1>0. AccountTypes /\ \A q \in Conns : Mine(q)' = Mine(q)
    BY DEF OutInv, Mine
  <1>1. CASE Open(p)
    <2>1. UNCHANGED << wallet, mail, who, token, call, late, ids, tokens, outside >>
      BY <1>1 DEF Open, userVars, givenVars
    <2>2. \A c \in Clients, t \in Nat \ {0} : Holds(c, t)' => Holds(c, t)
      BY <2>1, <1>0 DEF Holds, InMail
    <2>3. \A u \in UserIds, t \in Nat \ {0} : Coming(u, t)' => Coming(u, t)
      BY <2>1, SameComing
    <2> QED
      BY <1>0, <1>1, <2>1, <2>2, <2>3, NobodyIn, OpenTypes DEF OutInv
  <1>2. CASE Receive(p)
    <2>1. /\ mail[p] # <<>> /\ wallet' = [ wallet EXCEPT ![Mine(p)] = Head(mail[p])[2] ]
          /\ mail' = [ mail EXCEPT ![p] = Tail(@) ]
          /\ UNCHANGED << who, token, call, late, ids, tokens, outside >>
      BY <1>2 DEF Receive, userVars, givenVars
    <2>2. /\ Head(mail[p])[2] \in InMail(p)
          /\ \A q \in Conns : InMail(q)' \subseteq InMail(q)
      <3>1. Head(mail[p])[2] \in InMail(p)
        BY <1>0, <2>1, Headed DEF InMail
      <3>2. mail'[p] = Tail(mail[p]) /\ \A q \in Conns : q # p => mail'[q] = mail[q]
        BY <1>0, <2>1 DEF AccountTypes
      <3>3. \A i \in DOMAIN mail'[p] : i + 1 \in DOMAIN mail[p] /\ mail'[p][i] = mail[p][i + 1]
        <4>1. \A i \in DOMAIN Tail(mail[p]) : i + 1 \in DOMAIN mail[p] /\ Tail(mail[p])[i] = mail[p][i + 1]
          BY <1>0, <2>1, Headed
        <4> QED
          BY <3>2, <4>1
      <3>4. InMail(p)' \subseteq InMail(p)
        BY <3>3 DEF InMail
      <3>5. \A q \in Conns : q # p => InMail(q)' = InMail(q)
        BY <3>2 DEF InMail
      <3> QED
        BY <3>1, <3>4, <3>5
    <2>3. \A c \in Clients, t \in Nat \ {0} : Holds(c, t)' => Holds(c, t)
      <3> SUFFICES ASSUME NEW c \in Clients, NEW t \in Nat \ {0}, Holds(c, t)' PROVE Holds(c, t)
        OBVIOUS
      <3>1. CASE wallet'[c] = t
        <4>1. CASE c = Mine(p)
          BY <1>0, <2>1, <2>2, <3>1, <4>1 DEF AccountTypes, Holds
        <4>2. CASE c # Mine(p)
          BY <1>0, <2>1, <3>1, <4>2 DEF AccountTypes, Holds
        <4> QED
          BY <4>1, <4>2
      <3>2. CASE \E q \in Conns : Mine(q) = c /\ (t \in InMail(q)' \/ call'[q].tok = t \/ call'[q].new = t)
        BY <2>1, <2>2, <3>2 DEF Holds
      <3> QED
        BY <1>0, <3>1, <3>2 DEF Holds
    <2>4. \A u \in UserIds, t \in Nat \ {0} : Coming(u, t)' => Coming(u, t)
      BY <2>1, SameComing
    <2> QED
      BY <1>0, <1>2, <2>1, <2>3, <2>4, NobodyIn, ReceiveTypes DEF OutInv
  <1>3. CASE Close(p)
    <2>1. /\ mail' = [ mail EXCEPT ![p] = <<>> ] /\ who' = [ who EXCEPT ![p] = 0 ]
          /\ UNCHANGED << wallet, token, call, late, ids, tokens, outside >>
      BY <1>3 DEF Close, userVars, givenVars
    <2>2. \A q \in Conns : InMail(q)' \subseteq InMail(q)
      <3>1. mail'[p] = <<>> /\ \A q \in Conns : q # p => mail'[q] = mail[q]
        BY <1>0, <2>1 DEF AccountTypes
      <3> QED
        BY <3>1 DEF InMail
    <2>3. \A c \in Clients, t \in Nat \ {0} : Holds(c, t)' => Holds(c, t)
      BY <2>1, <2>2, <1>0 DEF Holds
    <2>4. \A u \in UserIds, t \in Nat \ {0} : Coming(u, t)' => Coming(u, t)
      BY <2>1, SameComing
    <2>5. \A q \in Conns : who'[q] \in { 0, who[q] }
      BY <1>0, <2>1 DEF AccountTypes
    <2> QED
      BY <1>0, <1>3, <2>1, <2>3, <2>4, <2>5, NobodyIn, CloseTypes DEF OutInv
  <1> QED
    BY <1>1, <1>2, <1>3 DEF ClientStep

LEMMA LateOut == ASSUME OutInv, Late PROVE OutInv'
  <1>0. AccountTypes /\ \A q \in Conns : Mine(q)' = Mine(q)
    BY DEF OutInv, Mine
  <1>1. PICK s \in late :
            /\ late' = late \ {s}
            /\ token' = IF s.insert THEN [ token EXCEPT ![s.id] = s.tok ] ELSE Updated(s.id, s.tok)
    BY DEF Late
  <1>2. UNCHANGED << wallet, mail, who, call, ids, tokens, outside >>
    BY DEF Late, linkVars, givenVars
  <1>3. \A c \in Clients, t \in Nat \ {0} : Holds(c, t)' => Holds(c, t)
    BY <1>0, <1>2 DEF Holds, InMail
  <1>4. ASSUME NEW u \in UserIds, NEW t \in Nat \ {0}, Coming(u, t)' PROVE Coming(u, t)
    <2>1. CASE token'[u] = t
      <3>1. token' = token \/ token' = [ token EXCEPT ![s.id] = s.tok ]
        BY <1>1 DEF Updated
      <3>2. token'[u] = token[u] \/ (s.id = u /\ token'[u] = s.tok)
        BY <1>0, <3>1 DEF AccountTypes, UserTypes
      <3> QED
        BY <2>1, <3>2 DEF Coming
    <2>2. CASE token'[u] # t
      BY <1>1, <1>2, <1>4, <2>2 DEF Coming
    <2> QED
      BY <2>1, <2>2
  <1>5. \A q \in Conns : who'[q] \in { 0, who[q] }
    BY <1>2
  <1> QED
    BY <1>0, <1>2, <1>3, <1>4, <1>5, NobodyIn, LateTypes DEF OutInv

LEMMA SameOut ==
  ASSUME OutInv, UNCHANGED << wallet, link, mail, who, token, email, call, late, ids, tokens, outside >>
  PROVE  OutInv'
  <1>1. \A q \in Conns : Mine(q)' = Mine(q)
    BY DEF Mine
  <1>2. \A c \in Clients, t \in Nat \ {0} : Holds(c, t)' => Holds(c, t)
    BY <1>1 DEF Holds, InMail
  <1>3. \A u \in UserIds, t \in Nat \ {0} : Coming(u, t)' => Coming(u, t)
    BY SameComing
  <1>4. \A q \in Conns : who'[q] \in { 0, who[q] }
    OBVIOUS
  <1>5. AccountTypes'
    BY SameTypes DEF OutInv
  <1> QED
    BY <1>2, <1>3, <1>4, <1>5, NobodyIn DEF OutInv

LEMMA InitOut == AccountsInit => OutInv
  <1> SUFFICES ASSUME AccountsInit PROVE OutInv
    OBVIOUS
  <1>1. AccountTypes /\ outside = {}
    BY InitTypes DEF AccountsInit
  <1>2. /\ plan.registered \subseteq Clients /\ Cardinality(plan.registered) <= 1
        /\ IsFiniteSet(plan.registered)
    <2>1. plan.registered \subseteq Clients /\ Cardinality(plan.registered) <= 1
      BY AccountsAssumption DEF AccountsInit, AccountsAssumption
    <2>2. ClientOf \in Surjection(Conns, Clients) /\ IsFiniteSet(Conns)
      BY AccountsAssumption DEF AccountsAssumption, Clients, Surjection
    <2> QED
      BY <2>1, <2>2, FS_Surjection, FS_Subset
  <1>3. ASSUME NEW c \in plan.registered, NEW d \in plan.registered PROVE c = d
    <2>1. IsFiniteSet(plan.registered \ {c}) /\ Cardinality(plan.registered \ {c}) = Cardinality(plan.registered) - 1
      BY <1>2, FS_RemoveElement
    <2>2. Cardinality(plan.registered \ {c}) \in Nat /\ Cardinality(plan.registered) \in Nat
      BY <1>2, <2>1, FS_CardinalityType
    <2>3. plan.registered \ {c} = {}
      BY <1>2, <2>1, <2>2, FS_EmptySet
    <2> QED
      BY <2>3
  <1>4. ASSUME NEW c \in Clients, NEW t \in 1 .. tokens, Holds(c, t) PROVE c \in plan.registered
    <2>1. t # 0
      OBVIOUS
    <2>2. \A p \in Conns : InMail(p) = {} /\ call[p].tok = 0 /\ call[p].new = 0
      BY DEF AccountsInit, NoCall, InMail
    <2>3. wallet[c] = t
      BY <1>4, <2>1, <2>2 DEF Holds
    <2> QED
      BY <2>1, <2>3 DEF AccountsInit
  <1>5. Private
    BY <1>3, <1>4 DEF Private
  <1> QED
    BY <1>1, <1>5 DEF OutInv, Out

LEMMA StepOut == ASSUME OutInv, AccountsNext \/ UNCHANGED accountVars PROVE OutInv'
  <1>1. CASE \E p \in Conns : ClientStep(p)
    BY <1>1, ClientOut
  <1>2. CASE \E p \in Conns : IdentityStep(p) \/ AccountStep(p)
    BY <1>2, HandlerOut
  <1>3. CASE Late
    BY <1>3, LateOut
  <1>4. CASE (\E e \in Emails : WindowEnds(e)) \/ UNCHANGED accountVars
    <2>1. UNCHANGED << wallet, link, mail, who, token, email, call, late, ids, tokens, outside >>
      BY <1>4 DEF WindowEnds, accountVars, linkVars, userVars, givenVars
    <2> QED
      BY <2>1, SameOut
  <1> QED
    BY <1>1, <1>2, <1>3, <1>4 DEF AccountsNext

(* A client that had no connection as u when the sessions of u were        *)
(* revoked, or u was logged out (handle_revoke_all_sessions,               *)
(* handle_logout), holds no token that works before it logs in again.      *)
THEOREM RevokedAreOut == AccountsSpec => []RevokedStaysOut
  <1>1. OutInv /\ [AccountsNext]_accountVars => OutInv'
    BY StepOut
  <1>2. OutInv => RevokedStaysOut
    <2> SUFFICES ASSUME OutInv, NEW c \in Clients, NEW u \in UserIds, << c, u >> \in outside,
                        wallet[c] = token[u], token[u] > 0
                 PROVE  FALSE
      BY DEF RevokedStaysOut
    <2>1. Outside(c, u) /\ AccountTypes /\ tokens \in Nat
      BY Counts DEF OutInv, Out
    <2>2. Holds(c, token[u]) /\ Coming(u, token[u])
      BY DEF Holds, Coming
    <2>3. token[u] \in 1 .. tokens
      BY <2>1 DEF AccountTypes, UserTypes
    <2> QED
      BY <2>1, <2>2, <2>3 DEF Outside
  <1> QED
    BY InitOut, <1>1, <1>2, PTL DEF AccountsSpec

-----------------------------------------------------------------------------
(* Tokens are not lost: of the identities without an account that are not  *)
(* forsaken, each token is with a client, on its way, or about to be sent, *)
(* and what a client is given takes the place of nothing it needs.         *)

OneComer == \A u, v \in UserIds, t \in Nat \ {0} : Coming(u, t) /\ Coming(v, t) => u = v

(* The users there is something to say about. *)
Plain(u) == u \notin forsaken /\ token[u] > 0 /\ email[u] = "none"

(* t is the token of w if of anybody; of nobody. *)
Only(t, w) == \A u \in UserIds : Plain(u) /\ token[u] = t => u = w

Dead(t) == \A u \in UserIds : Plain(u) => token[u] # t

(* The token n may take the place of t. *)
Gone(t, n) == t = n \/ Dead(t)

(* What the client of p will show when it has read its answers, and before *)
(* the answer i. *)
Last(p) == IF mail[p] = <<>> THEN wallet[Mine(p)] ELSE mail[p][Len(mail[p])][2]
Prev(p, i) == IF i = 1 THEN wallet[Mine(p)] ELSE mail[p][i - 1][2]

(* Tokens that are not only kept for a row that is not there yet. *)
Shown(t) ==
    \/ \E c \in Clients : wallet[c] = t
    \/ \E p \in Conns : t \in InMail(p) \/ call[p].tok = t \/ (call[p].new = t /\ call[p].at # "save")

Reserved ==
    \A p \in Conns : call[p].at = "save" =>
        /\ call[p].new # 0 /\ ~Shown(call[p].new) /\ Dead(call[p].new)
        /\ \A q \in Conns : q # p => call[q].new # call[p].new

Stray == \A s \in late : s.tok # 0 => s.id \in forsaken \/ (s.insert /\ s.email # "none")

ChainedTo(p) == \A i \in DOMAIN mail[p] : mail[p][i][1] = "authenticated" => Gone(Prev(p, i), mail[p][i][2])

(* The steps at which a token is ready to be sent. *)
Ready == { "identify", "reissued", "created", "logged in" }

(* What a handler that is heard knows, if it is at a, about u, was shown k *)
(* and has n to send, if the connection is that of o, and if l is what its *)
(* client will show.                                                       *)
Knowing(l, o, a, u, k, n) ==
    /\ a = "find" => Gone(l, k)
    /\ a = "rotate" => Gone(l, k) /\ Only(k, u)
    /\ a \in { "fresh", "save", "reissue" } => Dead(l)
    /\ a \in { "identify", "reissued" } => Gone(l, n)
    /\ a \in Ready => Only(n, u)
    /\ a \in { "revoke", "reissue", "reissued" } => o = u
    /\ o # 0 => Only(l, o)

Hears(p) == Knowing(Last(p), who[p], call[p].at, call[p].id, call[p].tok, call[p].new)

Answering(p, u) == call[p].at \in Ready /\ call[p].id = u /\ call[p].new = token[u]

HeldBySome(u) ==
    \/ \E c \in Clients : wallet[c] = token[u]
    \/ \E p \in Conns : token[u] \in InMail(p)
    \/ \E p \in Conns : Answering(p, u)

Held == \A u \in UserIds : Plain(u) => HeldBySome(u)

TokenInv ==
    /\ AccountTypes /\ OneComer /\ Reserved /\ Stray
    /\ \A p \in Conns : ChainedTo(p)
    /\ \A p \in Conns : IsOpen(p) => Hears(p)
    /\ Held

(* In a step x alone may become the token of one of them, and x was not    *)
(* shown before.                                                           *)
Becomes(x) ==
    /\ \A u \in UserIds : Plain(u)' => (Plain(u) /\ token'[u] = token[u]) \/ (token'[u] = x /\ x # 0)
    /\ x # 0 => ~Shown(x)

LEMMA KeepsDead ==
  ASSUME NEW x, Becomes(x), NEW t, x = 0 \/ t # x
  PROVE  /\ Dead(t) => Dead(t)'
         /\ \A w : Only(t, w) => Only(t, w)'
         /\ \A n : Gone(t, n) => Gone(t, n)'
  <1>1. ASSUME NEW u \in UserIds, Plain(u)', token'[u] = t PROVE Plain(u) /\ token[u] = t
    BY <1>1 DEF Becomes
  <1>2. Dead(t) => Dead(t)'
    BY <1>1 DEF Dead, UserIds
  <1>3. ASSUME NEW w, Only(t, w) PROVE Only(t, w)'
    BY <1>1, <1>3 DEF Only, UserIds
  <1>4. ASSUME NEW n, Gone(t, n) PROVE Gone(t, n)'
    BY <1>2, <1>4 DEF Gone
  <1> QED
    BY <1>2, <1>3, <1>4

LEMMA KeepsShown ==
  ASSUME NEW x, Becomes(x), NEW t, Shown(t)
  PROVE  /\ Dead(t) => Dead(t)'
         /\ \A w : Only(t, w) => Only(t, w)'
         /\ \A n : Gone(t, n) => Gone(t, n)'
  <1>1. x = 0 \/ t # x
    BY DEF Becomes
  <1> QED
    BY <1>1, KeepsDead

LEMMA MailShown ==
  ASSUME AccountTypes, NEW p \in Conns
  PROVE  /\ Shown(Last(p)) /\ Shown(call[p].tok) /\ (call[p].at # "save" => Shown(call[p].new))
         /\ \A i \in DOMAIN mail[p] : Shown(mail[p][i][2]) /\ Shown(Prev(p, i))
         /\ Shown(wallet[Mine(p)])
  <1>1. Shown(wallet[Mine(p)])
    BY MineIsClient DEF Shown
  <1>2. \A i \in DOMAIN mail[p] : Shown(mail[p][i][2])
    BY DEF Shown, InMail
  <1>3. mail[p] \in Seq(Kinds \X (0 .. tokens))
    BY DEF AccountTypes
  <1>4. \A i \in DOMAIN mail[p] : i # 1 => i - 1 \in DOMAIN mail[p]
    BY <1>3
  <1>5. mail[p] # <<>> => Len(mail[p]) \in DOMAIN mail[p]
    BY <1>3
  <1>6. \A i \in DOMAIN mail[p] : Shown(Prev(p, i))
    BY <1>1, <1>2, <1>4 DEF Prev
  <1>7. Shown(Last(p))
    BY <1>1, <1>2, <1>5 DEF Last
  <1>8. Shown(call[p].tok) /\ (call[p].at # "save" => Shown(call[p].new))
    BY DEF Shown
  <1> QED
    BY <1>1, <1>2, <1>6, <1>7, <1>8

LEMMA ShownGiven ==
  ASSUME AccountTypes, NEW t, Shown(t)
  PROVE  t \in 0 .. tokens
  <1>1. \A p \in Conns : Mine(p) \in Clients
    BY MineIsClient
  <1>2. \E c \in Clients : Holds(c, t)
    BY <1>1 DEF Shown, Holds
  <1> QED
    BY <1>2, HeldGiven

LEMMA HandledShown ==
  ASSUME AccountTypes, NEW p \in Conns, NEW a, NEW u, NEW k, NEW n, NEW e, Handles(p, a, u, k, n, e),
         NEW t, Shown(t)'
  PROVE  Shown(t) \/ t \in { 0, call[p].new } \/ (t = tokens + 1 /\ a # "save")
  <1>1. /\ wallet' = wallet /\ Sends(p) /\ tokens' \in { tokens, tokens + 1 }
        /\ k \in { 0, call[p].tok, wallet[Mine(p)] }
        /\ n \in { 0, call[p].new, call[p].tok } \/ (n = tokens' /\ tokens' = tokens + 1)
        /\ Turn(p, Record(a, u, k, n, e))
    BY DEF Handles
  <1>2. /\ call'[p].at = a /\ call'[p].tok = k /\ call'[p].new = n
        /\ \A q \in Conns : q # p => call'[q] = call[q]
    BY <1>1, Turned
  <1>3. CASE \E c \in Clients : wallet'[c] = t
    BY <1>1, <1>3 DEF Shown
  <1>4. CASE \E q \in Conns : t \in InMail(q)'
    <2>1. PICK q \in Conns : t \in InMail(q)'
      BY <1>4
    <2>2. t \in InMail(q) \/ t \in { 0, call[p].new }
      BY <1>1, <2>1, SentMail
    <2> QED
      BY <2>2 DEF Shown
  <1>5. CASE \E q \in Conns \ {p} : call'[q].tok = t \/ (call'[q].new = t /\ call'[q].at # "save")
    BY <1>2, <1>5 DEF Shown
  <1>6. CASE k = t \/ (n = t /\ a # "save")
    <2>1. Shown(call[p].tok) /\ Shown(wallet[Mine(p)])
      BY MailShown
    <2> QED
      BY <1>1, <1>6, <2>1
  <1> QED
    BY <1>2, <1>3, <1>4, <1>5, <1>6 DEF Shown

LEMMA HandledReserved ==
  ASSUME AccountTypes, Reserved, NEW p \in Conns, NEW a, NEW u, NEW k, NEW n, NEW e, Handles(p, a, u, k, n, e),
         a = "save" => n = tokens + 1 /\ forsaken' = forsaken /\ token' = token /\ email' = email,
         NEW x, Becomes(x), x \in { 0, tokens + 1 } \/ (call[p].at = "save" /\ x = call[p].new)
  PROVE  Reserved'
  <1>1. /\ tokens' \in { tokens, tokens + 1 } /\ tokens \in Nat
        /\ n \in { 0, call[p].new, call[p].tok } \/ n = tokens + 1
        /\ Turn(p, Record(a, u, k, n, e))
    BY Counts DEF Handles
  <1>2. /\ call'[p].at = a /\ call'[p].new = n
        /\ \A q \in Conns : q # p => call'[q] = call[q]
    BY <1>1, Turned
  <1>3. \A q \in Conns : call[q].new \in 0 .. tokens
    BY Same
  <1>4. ASSUME NEW q \in Conns, q # p, call[q].at = "save", NEW t, t = call[q].new
        PROVE  t # 0 /\ ~Shown(t)' /\ Dead(t)' /\ \A r \in Conns : r # q => call'[r].new # t
    <2>1. t # 0 /\ ~Shown(t) /\ Dead(t) /\ \A r \in Conns : r # q => call[r].new # t
      BY <1>4 DEF Reserved
    <2>2. t # call[p].new /\ t # tokens + 1 /\ t # call[p].tok
      <3>1. t # call[p].new /\ t # call[p].tok
        BY <1>4, <2>1, MailShown
      <3>2. t \in 0 .. tokens
        BY <1>3, <1>4
      <3> QED
        BY <1>1, <3>1, <3>2
    <2>3. t # x
      BY <2>1, <2>2
    <2>4. t # n
      BY <1>1, <2>1, <2>2
    <2>5. ~Shown(t)' /\ Dead(t)'
      BY <2>1, <2>2, <2>3, HandledShown, KeepsDead
    <2> QED
      BY <1>2, <2>1, <2>4, <2>5
  <1>5. ASSUME a = "save", NEW t, t = n
        PROVE  t # 0 /\ ~Shown(t)' /\ Dead(t)' /\ \A r \in Conns : r # p => call'[r].new # t
    <2>1. t = tokens + 1 /\ forsaken' = forsaken /\ token' = token /\ email' = email
      BY <1>5
    <2>2. t # 0 /\ t \notin 0 .. tokens
      BY <1>1, <2>1
    <2>3. ~Shown(t) /\ t # call[p].new
      BY <1>3, <2>2, ShownGiven
    <2>4. ~Shown(t)'
      BY <1>5, <2>2, <2>3, HandledShown
    <2>5. Dead(t)'
      <3>1. ASSUME NEW v \in UserIds PROVE token'[v] # t
        <4>1. token[v] \in -1 .. tokens
          BY DEF AccountTypes, UserTypes
        <4> QED
          BY <1>1, <2>1, <4>1
      <3> QED
        BY <3>1 DEF Dead, UserIds
    <2>6. \A r \in Conns : r # p => call'[r].new # t
      BY <1>2, <1>3, <2>2
    <2> QED
      BY <2>2, <2>4, <2>5, <2>6
  <1>6. ASSUME NEW q \in Conns, call'[q].at = "save", NEW t, t = call'[q].new
        PROVE  t # 0 /\ ~Shown(t)' /\ Dead(t)' /\ \A r \in Conns : r # q => call'[r].new # t
    <2>1. CASE q = p
      BY <1>2, <1>5, <1>6, <2>1
    <2>2. CASE q # p
      BY <1>2, <1>4, <1>6, <2>2
    <2> QED
      BY <2>1, <2>2
  <1> QED
    BY <1>6 DEF Reserved

(* The answers of p, and what its client will show in the end. *)
LEMMA LastSame ==
  ASSUME NEW q \in Conns, wallet'[Mine(q)] = wallet[Mine(q)], mail'[q] = mail[q]
  PROVE  /\ Last(q)' = Last(q) /\ InMail(q)' = InMail(q)
         /\ \A i : Prev(q, i)' = Prev(q, i)
  <1>1. Mine(q)' = Mine(q)
    BY DEF Mine
  <1>2. Last(q)' = Last(q)
    BY <1>1 DEF Last
  <1>3. InMail(q)' = InMail(q)
    BY DEF InMail
  <1>4. \A i : Prev(q, i)' = Prev(q, i)
    BY <1>1 DEF Prev
  <1> QED
    BY <1>2, <1>3, <1>4

LEMMA LastSent ==
  ASSUME AccountTypes, wallet' = wallet, NEW q \in Conns, NEW kind, NEW t,
         mail' = [ mail EXCEPT ![q] = Append(@, << kind, t >>) ]
  PROVE  /\ Last(q)' = t /\ t \in InMail(q)'
         /\ DOMAIN mail'[q] = 1 .. Len(mail[q]) + 1 /\ DOMAIN mail[q] = 1 .. Len(mail[q]) /\ Len(mail[q]) \in Nat
         /\ \A i \in DOMAIN mail[q] : mail'[q][i] = mail[q][i] /\ Prev(q, i)' = Prev(q, i)
         /\ mail'[q][Len(mail[q]) + 1] = << kind, t >>
         /\ \A i : i = Len(mail[q]) + 1 => Prev(q, i)' = Last(q)
  <1>0. Mine(q)' = Mine(q)
    BY DEF Mine
  <1>1. mail[q] \in Seq(Kinds \X (0 .. tokens)) /\ mail'[q] = Append(mail[q], << kind, t >>)
    BY DEF AccountTypes
  <1>2. /\ DOMAIN mail[q] = 1 .. Len(mail[q]) /\ Len(mail[q]) \in Nat
        /\ DOMAIN mail'[q] = 1 .. Len(mail[q]) + 1 /\ Len(mail'[q]) = Len(mail[q]) + 1
        /\ \A i \in 1 .. Len(mail[q]) : mail'[q][i] = mail[q][i]
        /\ mail'[q][Len(mail[q]) + 1] = << kind, t >> /\ mail'[q] # <<>>
    BY <1>1
  <1>3. mail[q] = <<>> <=> Len(mail[q]) = 0
    BY <1>1
  <1>4. Last(q)' = t
    BY <1>2 DEF Last
  <1>5. t \in InMail(q)'
    <2>1. Len(mail[q]) + 1 \in DOMAIN mail'[q]
      BY <1>2
    <2> QED
      BY <1>2, <2>1 DEF InMail
  <1>6. ASSUME NEW i \in DOMAIN mail[q] PROVE mail'[q][i] = mail[q][i] /\ Prev(q, i)' = Prev(q, i)
    <2>1. i = 1 \/ i - 1 \in 1 .. Len(mail[q])
      BY <1>2
    <2> QED
      BY <1>0, <1>2, <2>1 DEF Prev
  <1>7. ASSUME NEW i, i = Len(mail[q]) + 1 PROVE Prev(q, i)' = Last(q)
    <2>1. CASE Len(mail[q]) = 0
      BY <1>0, <1>2, <1>3, <1>7, <2>1 DEF Prev, Last
    <2>2. CASE Len(mail[q]) # 0
      <3>1. i # 1 /\ i - 1 = Len(mail[q]) /\ i - 1 \in 1 .. Len(mail[q])
        BY <1>2, <1>7, <2>2
      <3> QED
        BY <1>2, <1>3, <2>2, <3>1 DEF Prev, Last
    <2> QED
      BY <2>1, <2>2
  <1> QED
    BY <1>2, <1>4, <1>5, <1>6, <1>7

(* What nobody touched is as it was. *)
LEMMA HearsKept ==
  ASSUME AccountTypes, NEW q \in Conns, Last(q)' = Last(q), call'[q] = call[q], who'[q] = who[q],
         NEW x, Becomes(x), Hears(q)
  PROVE  Hears(q)'
  <1>1. ASSUME NEW t, Shown(t)
        PROVE  (Dead(t) => Dead(t)') /\ (\A w : Only(t, w) => Only(t, w)') /\ (\A n : Gone(t, n) => Gone(t, n)')
    BY <1>1, KeepsShown
  <1>2. ASSUME NEW l, l = Last(q), NEW k, k = call[q].tok, NEW n, n = call[q].new, NEW u, u = call[q].id,
               NEW o, o = who[q], NEW a, a = call[q].at
        PROVE  Knowing(l, o, a, u, k, n)'
    <2>1. Shown(l) /\ Shown(k) /\ (a # "save" => Shown(n))
      BY <1>2, MailShown
    <2>2. a \in Ready => a # "save"
      BY DEF Ready
    <2>3. Knowing(l, o, a, u, k, n)
      BY <1>2 DEF Hears
    <2> QED
      BY <1>1, <2>1, <2>2, <2>3 DEF Knowing
  <1> QED
    BY <1>2 DEF Hears

LEMMA OthersHear ==
  ASSUME AccountTypes, NEW q \in Conns, wallet'[Mine(q)] = wallet[Mine(q)], mail'[q] = mail[q], call'[q] = call[q],
         who'[q] = who[q], NEW x, Becomes(x), ChainedTo(q)
  PROVE  ChainedTo(q)' /\ (Hears(q) => Hears(q)')
  <1>1. Last(q)' = Last(q) /\ \A i : Prev(q, i)' = Prev(q, i)
    BY LastSame
  <1>2. ASSUME NEW i \in DOMAIN mail'[q], mail'[q][i][1] = "authenticated"
        PROVE  Gone(Prev(q, i), mail[q][i][2])'
    <2>1. Gone(Prev(q, i), mail[q][i][2]) /\ Shown(Prev(q, i))
      BY <1>2, MailShown DEF ChainedTo
    <2>2. ASSUME NEW t, t = Prev(q, i), NEW n, n = mail[q][i][2] PROVE Gone(t, n)'
      BY <2>1, <2>2, KeepsShown
    <2> QED
      BY <1>1, <2>2 DEF Gone
  <1> QED
    BY <1>1, <1>2, HearsKept DEF ChainedTo

(* An answer that is sent; one to authenticate takes the place of what the *)
(* client had.                                                             *)
Answers(p) ==
    \/ mail' = mail
    \/ \E kind, t : /\ mail' = [ mail EXCEPT ![p] = Append(@, << kind, t >>) ]
                    /\ kind = "authenticated" => Last(p) = t \/ Dead(Last(p))

LEMMA AnswersChained ==
  ASSUME AccountTypes, NEW p \in Conns, wallet' = wallet, Answers(p), NEW x, Becomes(x), ChainedTo(p)
  PROVE  ChainedTo(p)'
  <1>1. ASSUME NEW t, Shown(t)
        PROVE  (Dead(t) => Dead(t)') /\ (\A n : Gone(t, n) => Gone(t, n)')
    BY <1>1, KeepsShown
  <1>2. CASE mail' = mail
    <2>1. ASSUME NEW i \in DOMAIN mail'[p], mail'[p][i][1] = "authenticated"
          PROVE  Gone(Prev(p, i), mail[p][i][2])'
      <3>1. Gone(Prev(p, i), mail[p][i][2]) /\ Shown(Prev(p, i)) /\ Prev(p, i)' = Prev(p, i)
        BY <1>2, <2>1, MailShown, LastSame DEF ChainedTo
      <3>2. ASSUME NEW t, t = Prev(p, i), NEW n, n = mail[p][i][2] PROVE Gone(t, n)'
        BY <1>1, <3>1, <3>2
      <3> QED
        BY <1>2, <3>1, <3>2 DEF Gone
    <2> QED
      BY <1>2, <2>1 DEF ChainedTo
  <1>3. ASSUME NEW kind, NEW t, mail' = [ mail EXCEPT ![p] = Append(@, << kind, t >>) ],
               kind = "authenticated" => Last(p) = t \/ Dead(Last(p))
        PROVE  ChainedTo(p)'
    <2>1. /\ DOMAIN mail'[p] = 1 .. Len(mail[p]) + 1 /\ DOMAIN mail[p] = 1 .. Len(mail[p]) /\ Len(mail[p]) \in Nat
          /\ \A i \in DOMAIN mail[p] : mail'[p][i] = mail[p][i] /\ Prev(p, i)' = Prev(p, i)
          /\ mail'[p][Len(mail[p]) + 1] = << kind, t >>
          /\ \A i : i = Len(mail[p]) + 1 => Prev(p, i)' = Last(p)
      BY <1>3, LastSent
    <2>2. ASSUME NEW i \in DOMAIN mail'[p], mail'[p][i][1] = "authenticated", NEW y, y = Prev(p, i)', NEW n, n = mail'[p][i][2]
          PROVE  Gone(y, n)'
      <3>1. CASE i \in DOMAIN mail[p]
        <4>1. Gone(y, n) /\ Shown(y)
          BY <2>1, <2>2, <3>1, MailShown DEF ChainedTo
        <4> QED
          BY <1>1, <4>1
      <3>2. CASE i \notin DOMAIN mail[p]
        <4>1. i = Len(mail[p]) + 1
          BY <2>1, <3>2
        <4>2. kind = "authenticated" /\ n = t /\ y = Last(p)
          BY <2>1, <2>2, <4>1
        <4>3. Shown(y)
          BY <4>2, MailShown
        <4>4. Dead(y) => Dead(y)'
          BY <1>1, <4>3
        <4> QED
          BY <1>3, <4>2, <4>4 DEF Gone
      <3> QED
        BY <3>1, <3>2
    <2> QED
      BY <2>2 DEF ChainedTo
  <1> QED
    BY <1>2, <1>3 DEF Answers

(* The users whose token was ready are answered, or still to be; and one   *)
(* that has a new token is to be answered.                                 *)
Delivers(p, x) ==
    \A u \in UserIds : Plain(u)' =>
        /\ token'[u] = x /\ x # 0 => Answering(p, u)'
        /\ Answering(p, u) => token[u] \in InMail(p)' \/ Answering(p, u)'

LEMMA DeliversHeld ==
  ASSUME AccountTypes, Held, NEW p \in Conns, NEW a, NEW w, NEW k, NEW n, NEW e, Handles(p, a, w, k, n, e),
         NEW x, Becomes(x), Delivers(p, x)
  PROVE  Held'
  <1>1. ASSUME NEW u \in UserIds, Plain(u)' PROVE HeldBySome(u)'
    <2>1. CASE token'[u] = x /\ x # 0
      BY <1>1, <2>1 DEF Delivers, HeldBySome
    <2>2. CASE Plain(u) /\ token'[u] = token[u]
      <3>1. HeldBySome(u)
        BY <2>2 DEF Held
      <3>2. wallet' = wallet /\ Sends(p) /\ \A q \in Conns : q # p => call'[q] = call[q]
        BY Turned DEF Handles
      <3>3. CASE \E c \in Clients : wallet[c] = token[u]
        BY <2>2, <3>2, <3>3 DEF HeldBySome, Clients
      <3>4. ASSUME NEW q \in Conns, token[u] \in InMail(q) PROVE HeldBySome(u)'
        <4>1. token[u] \in InMail(q)'
          BY <3>2, <3>4, SentMail
        <4> QED
          BY <2>2, <4>1 DEF HeldBySome
      <3>5. ASSUME NEW q \in Conns, q # p, Answering(q, u) PROVE HeldBySome(u)'
        <4>1. Answering(q, u)'
          BY <2>2, <3>2, <3>5 DEF Answering
        <4> QED
          BY <4>1 DEF HeldBySome
      <3>6. CASE Answering(p, u)
        <4>1. token[u] \in InMail(p)' \/ Answering(p, u)'
          BY <1>1, <3>6 DEF Delivers
        <4> QED
          BY <2>2, <4>1 DEF HeldBySome
      <3> QED
        BY <3>1, <3>3, <3>4, <3>5, <3>6 DEF HeldBySome
    <2> QED
      BY <1>1, <2>1, <2>2 DEF Becomes
  <1> QED
    BY <1>1 DEF Held, UserIds

(* The step of a handler, for the tokens: x is the one that becomes        *)
(* somebody's, if any.                                                     *)
Passes(p, a, w, k, n, e, x) ==
    /\ Handles(p, a, w, k, n, e)
    /\ a = "save" => n = tokens + 1 /\ forsaken' = forsaken /\ token' = token /\ email' = email
    /\ Becomes(x) /\ (x \in { 0, tokens + 1 } \/ (call[p].at = "save" /\ x = call[p].new))
    /\ Answers(p) /\ Delivers(p, x)
    /\ IsOpen(p) => Hears(p)'

LEMMA OneComerKept ==
  ASSUME AccountTypes, OneComer, NEW p \in Conns, NEW a, NEW u, Works(p, a, u)
  PROVE  OneComer'
  <1>0. tokens \in Nat
    BY Counts
  <1>1. PICK w : \A v \in UserIds, t \in Nat \ {0} : Coming(v, t)' => Coming(v, t) \/ (t = tokens + 1 /\ v = w)
    BY WorksComing
  <1>2. ASSUME NEW v \in UserIds, NEW r \in UserIds, NEW t \in Nat \ {0}, Coming(v, t)', Coming(r, t)' PROVE v = r
    <2>1. t = tokens + 1 => ~Coming(v, t) /\ ~Coming(r, t)
      BY <1>0, ComingGiven
    <2> QED
      BY <1>1, <1>2, <2>1 DEF OneComer
  <1> QED
    BY <1>2 DEF OneComer, UserIds

LEMMA HandledTokens ==
  ASSUME TokenInv, NEW p \in Conns, NEW b, NEW v, Works(p, b, v),
         NEW a, NEW w, NEW k, NEW n, NEW e, NEW x, Passes(p, a, w, k, n, e, x), Stray'
  PROVE  TokenInv'
  <1>0. /\ AccountTypes /\ OneComer /\ Reserved /\ Held
        /\ \A q \in Conns : ChainedTo(q) /\ (IsOpen(q) => Hears(q))
    BY DEF TokenInv
  <1>1. /\ Handles(p, a, w, k, n, e)
        /\ a = "save" => n = tokens + 1 /\ forsaken' = forsaken /\ token' = token /\ email' = email
        /\ Becomes(x) /\ (x \in { 0, tokens + 1 } \/ (call[p].at = "save" /\ x = call[p].new))
        /\ Answers(p) /\ Delivers(p, x) /\ (IsOpen(p) => Hears(p)')
    BY DEF Passes
  <1>2. AccountTypes' /\ OneComer'
    BY <1>0, WorksTypes, OneComerKept
  <1>3. Reserved'
    BY <1>0, <1>1, HandledReserved
  <1>4. Held'
    BY <1>0, <1>1, DeliversHeld
  <1>5. /\ wallet' = wallet /\ Sends(p) /\ \A q \in Conns : q # p => call'[q] = call[q]
        /\ link' = link \/ (link[p] = "open" /\ link' = [ link EXCEPT ![p] = "greeted" ])
        /\ who' = who \/ \E y \in { 0, call[p].id, w } : who' = [ who EXCEPT ![p] = y ]
    BY <1>0, <1>1, Turned DEF Handles
  <1>6. \A q \in Conns : IsOpen(q)' => IsOpen(q)
    BY <1>0, <1>5 DEF IsOpen, AccountTypes
  <1>7. \A q \in Conns : q # p => mail'[q] = mail[q] /\ who'[q] = who[q]
    BY <1>0, <1>5, SentMail DEF AccountTypes
  <1>8. \A q \in Conns : q # p => ChainedTo(q)' /\ (Hears(q) => Hears(q)')
    BY <1>0, <1>1, <1>5, <1>7, OthersHear
  <1>9. ChainedTo(p)'
    BY <1>0, <1>1, <1>5, AnswersChained
  <1>10. \A q \in Conns : IsOpen(q)' => Hears(q)'
    BY <1>0, <1>1, <1>6, <1>8
  <1> QED
    BY <1>2, <1>3, <1>4, <1>8, <1>9, <1>10 DEF TokenInv

(* How the rows change. *)
LEMMA LessPlain ==
  ASSUME forsaken \subseteq forsaken', token' = token, email' = email
  PROVE  Becomes(0)
  BY DEF Becomes, Plain

Row(w, x) == token' = token \/ token' = [ token EXCEPT ![w] = x ]

LEMMA RowPlain ==
  ASSUME AccountTypes, forsaken \subseteq forsaken', NEW w, NEW x, Row(w, x),
         email' = email, x > 0 => ~Shown(x)
  PROVE  /\ x > 0 => Becomes(x)
         /\ ~(x > 0) => Becomes(0)
         /\ \A u \in UserIds : u # w => token'[u] = token[u]
         /\ token' # token => \A u \in UserIds : u = w => token'[u] = x
  <1>1. token \in [ UserIds -> -1 .. tokens ]
    BY DEF AccountTypes, UserTypes
  <1>2. /\ \A u \in UserIds : u # w => token'[u] = token[u]
        /\ token' # token => \A u \in UserIds : u = w => token'[u] = x
    BY <1>1 DEF Row
  <1>3. ASSUME NEW u \in UserIds, Plain(u)' PROVE (Plain(u) /\ token'[u] = token[u]) \/ (token'[u] = x /\ x > 0)
    <2>1. u \notin forsaken /\ email[u] = "none" /\ token'[u] > 0
      BY <1>3 DEF Plain
    <2>2. token'[u] = token[u] \/ token'[u] = x
      BY <1>2
    <2> QED
      BY <2>1, <2>2 DEF Plain
  <1>4. ASSUME x > 0 PROVE Becomes(x)
    BY <1>3, <1>4 DEF Becomes
  <1>5. ASSUME ~(x > 0) PROVE Becomes(0)
    BY <1>3, <1>5 DEF Becomes
  <1> QED
    BY <1>2, <1>4, <1>5

LEMMA NoTokens == ~(NoRow > 0) /\ ~(Revoked > 0) /\ Revoked = 0
  <1>1. ~(NoRow > 0)
    BY DEF NoRow
  <1>2. ~(Revoked > 0) /\ Revoked = 0
    BY DEF Revoked
  <1> QED
    BY <1>1, <1>2

LEMMA Unshown ==
  ASSUME AccountTypes
  PROVE  ~Shown(tokens + 1) /\ tokens + 1 > 0 /\ tokens + 1 \in Int /\ tokens + 1 # 0
  <1>1. tokens \in Nat
    BY Counts
  <1>2. tokens + 1 \notin 0 .. tokens
    BY <1>1
  <1> QED
    BY <1>1, <1>2, ShownGiven

(* Statements that are still to be made. *)
LEMMA StrayKept ==
  ASSUME Stray, forsaken \subseteq forsaken',
         late' = late \/ \E u, t, b, e : TimedOut(u, t, b, e) /\ (t # 0 => u \in forsaken' \/ (b /\ e # "none"))
  PROVE  Stray'
  <1>1. CASE late' = late
    BY <1>1 DEF Stray
  <1>2. ASSUME NEW u, NEW t, NEW b, NEW e, TimedOut(u, t, b, e), t # 0 => u \in forsaken' \/ (b /\ e # "none")
        PROVE  Stray'
    BY <1>2 DEF Stray, TimedOut
  <1> QED
    BY <1>1, <1>2

-----------------------------------------------------------------------------
(* Every step of a handler passes. *)

Passed(p) == Stray' /\ \E a, w, k, n, e, x : Passes(p, a, w, k, n, e, x)

LEMMA DeadZero == ASSUME NEW t, t = 0 PROVE Dead(t) /\ Dead(t)'
  BY DEF Dead, Plain

LEMMA NewHears ==
  ASSUME AccountTypes, NEW p \in Conns, NEW a, NEW w, NEW k, NEW n, NEW e, Handles(p, a, w, k, n, e),
         NEW l, l = Last(p)', NEW o, o = who'[p], Knowing(l, o, a, w, k, n)'
  PROVE  Hears(p)'
  <1>1. call'[p].at = a /\ call'[p].id = w /\ call'[p].tok = k /\ call'[p].new = n
    BY Turned DEF Handles
  <1> QED
    BY <1>1 DEF Hears

(* Nothing is written, and nothing is sent. *)
LEMMA QuietPasses ==
  ASSUME TokenInv, NEW p \in Conns, NEW a, NEW w, NEW k, NEW n, NEW e, Handles(p, a, w, k, n, e), a # "save",
         mail' = mail, token' = token, email' = email, forsaken \subseteq forsaken', call[p].at \notin Ready, late' = late,
         \A l, o : /\ IsOpen(p) /\ l = Last(p) /\ o = who'[p] /\ Shown(l)
                  /\ Knowing(l, who[p], call[p].at, call[p].id, call[p].tok, call[p].new)
                  /\ (\A u : Only(l, u) => Only(l, u)')
                  => Knowing(l, o, a, w, k, n)'
  PROVE  Passed(p)
  <1>0. AccountTypes /\ wallet' = wallet /\ (IsOpen(p) => Hears(p)) /\ Stray
    BY DEF TokenInv, Handles
  <1>1. Becomes(0)
    BY LessPlain
  <1>2. Answers(p) /\ Delivers(p, 0)
    BY DEF Answers, Delivers, Answering
  <1>3. ASSUME IsOpen(p) PROVE Hears(p)'
    <2>1. Last(p)' = Last(p) /\ Shown(Last(p)) /\ Hears(p)
      BY <1>0, <1>3, LastSame, MailShown
    <2>2. ASSUME NEW l, l = Last(p), NEW o, o = who'[p] PROVE Knowing(l, o, a, w, k, n)'
      <3>1. \A u : Only(l, u) => Only(l, u)'
        BY <1>1, <2>1, <2>2, KeepsShown
      <3> QED
        BY <1>3, <2>1, <2>2, <3>1 DEF Hears
    <2> QED
      BY <1>0, <2>1, <2>2, NewHears
  <1>4. Passes(p, a, w, k, n, e, 0)
    BY <1>1, <1>2, <1>3 DEF Passes
  <1>5. Stray'
    BY <1>0, StrayKept
  <1> QED
    BY <1>4, <1>5 DEF Passed

LEMMA LessKeeps ==
  ASSUME forsaken \subseteq forsaken', token' = token, email' = email, NEW t
  PROVE  /\ Dead(t) => Dead(t)'
         /\ \A w : Only(t, w) => Only(t, w)'
         /\ \A n : Gone(t, n) => Gone(t, n)'
  BY LessPlain, KeepsDead

LEMMA AuthenticatePasses ==
  ASSUME TokenInv, NEW p \in Conns, HandleAuthenticate(p)
  PROVE  Passed(p)
  <1> DEFINE a == IF wallet[Mine(p)] = 0 THEN "fresh" ELSE "find"
  <1>1. /\ link[p] = "open" /\ call[p] = NoCall /\ wallet' = wallet /\ mail' = mail /\ who' = who
        /\ token' = token /\ email' = email /\ late' = late /\ forsaken' = forsaken \cup Awaited(p)
    BY DEF HandleAuthenticate, userVars
  <1>2. AccountTypes /\ Handles(p, a, 0, wallet[Mine(p)], 0, "none")
    BY AuthenticateHandles DEF TokenInv
  <1>3. a # "save" /\ a \in { "fresh", "find" } /\ (a = "fresh" <=> wallet[Mine(p)] = 0)
    OBVIOUS
  <1>4. call[p].at \notin Ready
    BY <1>1 DEF NoCall, Ready
  <1>5. ASSUME NEW l, l = Last(p) PROVE l = wallet[Mine(p)] \/ Dead(l)'
    <2>1. ASSUME mail[p] # <<>>, NEW u \in UserIds, Plain(u)', token'[u] = l PROVE FALSE
      <3>1. mail[p] \in Seq(Kinds \X (0 .. tokens))
        BY <1>2 DEF AccountTypes
      <3>2. Len(mail[p]) \in DOMAIN mail[p] /\ l = mail[p][Len(mail[p])][2]
        BY <3>1, <2>1, <1>5 DEF Last
      <3>3. u \in Bearers(l)
        BY <1>1, <2>1 DEF Bearers, Plain
      <3>4. u \in Awaited(p)
        BY <3>2, <3>3 DEF Awaited
      <3> QED
        BY <1>1, <2>1, <3>4 DEF Plain
    <2>2. CASE mail[p] = <<>>
      BY <1>5, <2>2 DEF Last
    <2>3. CASE mail[p] # <<>>
      BY <2>1, <2>3 DEF Dead, UserIds
    <2> QED
      BY <2>2, <2>3
  <1>6. ASSUME NEW l, NEW o, l = Last(p), o = who'[p],
               Knowing(l, who[p], call[p].at, call[p].id, call[p].tok, call[p].new), \A u : Only(l, u) => Only(l, u)'
        PROVE  \A y, k : y = a /\ k = wallet[Mine(p)] => Knowing(l, o, y, 0, k, 0)'
    <2>1. o # 0 => Only(l, o)'
      BY <1>1, <1>6 DEF Knowing
    <2>2. a = "fresh" => Dead(l)'
      BY <1>3, <1>5, <1>6, DeadZero
    <2>3. ASSUME NEW k, k = wallet[Mine(p)] PROVE Gone(l, k)'
      BY <1>5, <1>6, <2>3 DEF Gone
    <2>4. a \notin Ready \cup { "rotate", "save", "revoke", "reissue", "reissued", "identify" }
      BY <1>3 DEF Ready
    <2>5. ASSUME NEW y, y = a, NEW k, k = wallet[Mine(p)] PROVE Knowing(l, o, y, 0, k, 0)'
      <3> HIDE DEF a
      <3>1. y \notin Ready \cup { "rotate", "save", "revoke", "reissue", "reissued", "identify" }
            /\ (y = "fresh" => Dead(l)')
        BY <2>2, <2>4, <2>5
      <3> QED
        BY <2>1, <2>3, <2>5, <3>1 DEF Knowing
    <2> QED
      BY <2>5
  <1>7. PICK y, k : y = a /\ k = wallet[Mine(p)]
    OBVIOUS
  <1> HIDE DEF a
  <1>8. Handles(p, y, 0, k, 0, "none") /\ y # "save" /\ forsaken \subseteq forsaken'
    BY <1>1, <1>2, <1>3, <1>7
  <1> QED
    BY <1>1, <1>4, <1>6, <1>7, <1>8, QuietPasses

LEMMA FindPasses ==
  ASSUME TokenInv, NEW p \in Conns, FindByToken(p)
  PROVE  Passed(p)
  <1>1. /\ call[p].at = "find" /\ wallet' = wallet /\ mail' = mail /\ who' = who
        /\ token' = token /\ email' = email /\ late' = late
    BY DEF FindByToken, FindKeeps, linkVars, userVars
  <1>2. AccountTypes /\ OneComer
    BY DEF TokenInv
  <1>3. call[p].at \notin Ready
    BY <1>1 DEF Ready
  <1>4. CASE \E u \in Bearers(call[p].tok) :
                 Handles(p, "rotate", u, call[p].tok, call[p].new, call[p].email) /\ forsaken' = forsaken
    <2>1. PICK u \in Bearers(call[p].tok) :
                 Handles(p, "rotate", u, call[p].tok, call[p].new, call[p].email) /\ forsaken' = forsaken
      BY <1>4
    <2>2. token[u] = call[p].tok /\ call[p].tok > 0 /\ u \in UserIds
      BY <2>1 DEF Bearers
    <2>3. call[p].tok \in Nat \ {0}
      <3>1. call[p].tok \in 0 .. tokens /\ tokens \in Nat
        BY <1>2, Same, Counts
      <3> QED
        BY <2>2, <3>1
    <2>4. ASSUME NEW k, k = call[p].tok PROVE Only(k, u)
      <3>1. ASSUME NEW v \in UserIds, token[v] = k PROVE v = u
        BY <1>2, <2>2, <2>3, <2>4, <3>1 DEF OneComer, Coming
      <3> QED
        BY <3>1 DEF Only
    <2>5. ASSUME NEW l, NEW o, l = Last(p), o = who'[p],
                 Knowing(l, who[p], call[p].at, call[p].id, call[p].tok, call[p].new), \A v : Only(l, v) => Only(l, v)'
          PROVE  \A k, n : k = call[p].tok => Knowing(l, o, "rotate", u, k, n)'
      <3>1. ASSUME NEW k, k = call[p].tok, NEW n PROVE Knowing(l, o, "rotate", u, k, n)'
        <4>1. Gone(l, k) /\ Only(k, u) /\ (o # 0 => Only(l, o))
          BY <1>1, <2>4, <2>5, <3>1 DEF Knowing
        <4>2. Gone(l, k)' /\ Only(k, u)' /\ (o # 0 => Only(l, o)')
          BY <1>1, <2>1, <4>1, LessKeeps
        <4> QED
          BY <4>2 DEF Knowing, Ready
      <3> QED
        BY <3>1
    <2>6. PICK k, n, e : k = call[p].tok /\ n = call[p].new /\ e = call[p].email
      OBVIOUS
    <2>7. Handles(p, "rotate", u, k, n, e) /\ "rotate" # "save" /\ forsaken \subseteq forsaken'
      BY <2>1, <2>6
    <2> QED
      BY <1>1, <1>3, <2>5, <2>6, <2>7, QuietPasses
  <1>5. CASE /\ Handles(p, "fresh", call[p].id, call[p].tok, call[p].new, call[p].email)
             /\ forsaken' = forsaken \cup Bearers(call[p].tok)
    <2>5. ASSUME NEW l, NEW o, l = Last(p), o = who'[p],
                 Knowing(l, who[p], call[p].at, call[p].id, call[p].tok, call[p].new), \A v : Only(l, v) => Only(l, v)'
          PROVE  \A u, k, n : Knowing(l, o, "fresh", u, k, n)'
      <3>1. Gone(l, call[p].tok) /\ (o # 0 => Only(l, o))
        BY <1>1, <2>5 DEF Knowing
      <3>2. Dead(l)'
        <4>1. ASSUME l = call[p].tok, NEW v \in UserIds, Plain(v)', token'[v] = l PROVE FALSE
          BY <1>1, <1>5, <4>1 DEF Bearers, Plain
        <4>2. Dead(l) => Dead(l)'
          BY <1>1, <1>5, LessKeeps
        <4> QED
          BY <3>1, <4>1, <4>2 DEF Gone, Dead, UserIds
      <3>3. o # 0 => Only(l, o)'
        BY <2>5, <3>1
      <3> QED
        BY <3>2, <3>3 DEF Knowing, Ready
    <2>6. "fresh" # "save" /\ forsaken \subseteq forsaken'
      BY <1>5
    <2> QED
      BY <1>1, <1>3, <1>5, <2>5, <2>6, QuietPasses
  <1>6. CASE Handles(p, "none", 0, 0, 0, "none") /\ forsaken' = forsaken
    <2>5. ASSUME NEW l, NEW o, l = Last(p), o = who'[p],
                 Knowing(l, who[p], call[p].at, call[p].id, call[p].tok, call[p].new), \A v : Only(l, v) => Only(l, v)'
          PROVE  Knowing(l, o, "none", 0, 0, 0)'
      BY <1>1, <2>5 DEF Knowing, Ready
    <2>6. "none" # "save" /\ forsaken \subseteq forsaken'
      BY <1>6
    <2> QED
      BY <1>1, <1>3, <1>6, <2>5, <2>6, QuietPasses
  <1> QED
    BY <1>2, <1>4, <1>5, <1>6, FindHandles

(* An answer that ends the call. *)
LEMMA SendPasses ==
  ASSUME TokenInv, NEW p \in Conns, Handles(p, "none", 0, 0, 0, "none"), NEW kind, NEW t, Send(p, kind, t),
         late' = late, Becomes(0),
         call[p].at \in Ready => t = call[p].new,
         IsOpen(p) => /\ kind = "authenticated" => Gone(Last(p), t)
                      /\ \A o : o = who'[p] /\ o # 0 => Only(t, o)
  PROVE  Passed(p)
  <1>0. AccountTypes /\ wallet' = wallet /\ Stray
    BY DEF TokenInv, Handles
  <1>1. forsaken \subseteq forsaken'
    BY DEF Send
  <1>2. ASSUME IsOpen(p) PROVE Answers(p) /\ Delivers(p, 0) /\ Hears(p)'
    <2>1. mail' = [ mail EXCEPT ![p] = Append(@, << kind, t >>) ] /\ Last(p)' = t /\ t \in InMail(p)'
      BY <1>0, <1>2, LastSent DEF Send
    <2>2. Answers(p)
      BY <1>2, <2>1 DEF Answers, Gone
    <2>3. Delivers(p, 0)
      BY <2>1 DEF Delivers, Answering
    <2>4. ASSUME NEW o, o = who'[p] PROVE Knowing(t, o, "none", 0, 0, 0)'
      <3>1. o # 0 => Only(t, o)'
        BY <1>2, <2>4, KeepsDead
      <3> QED
        BY <3>1 DEF Knowing, Ready
    <2>5. Hears(p)'
      BY <1>0, <2>1, <2>4, NewHears
    <2> QED
      BY <2>2, <2>3, <2>5
  <1>3. ASSUME ~IsOpen(p) PROVE Answers(p) /\ Delivers(p, 0)
    <2>1. mail' = mail /\ forsaken' = forsaken \cup Bearers(t)
      BY <1>3 DEF Send
    <2>2. Answers(p)
      BY <2>1 DEF Answers
    <2>3. ASSUME NEW u \in UserIds, Plain(u)', Answering(p, u) PROVE FALSE
      <3>1. Plain(u) /\ token[u] = t
        BY <2>3 DEF Becomes, Answering
      <3>2. u \in Bearers(t)
        BY <3>1 DEF Plain, Bearers
      <3> QED
        BY <2>1, <2>3, <3>2 DEF Plain
    <2>4. Delivers(p, 0)
      BY <2>3 DEF Delivers
    <2> QED
      BY <2>2, <2>4
  <1>4. Answers(p) /\ Delivers(p, 0) /\ (IsOpen(p) => Hears(p)')
    BY <1>2, <1>3
  <1>5. Passes(p, "none", 0, 0, 0, "none", 0)
    BY <1>4 DEF Passes
  <1>6. Stray'
    BY <1>0, <1>1, StrayKept
  <1> QED
    BY <1>5, <1>6 DEF Passed

LEMMA SetsWho ==
  ASSUME AccountTypes, NEW p \in Conns, NEW u, SetWho(p, u), IsOpen(p)
  PROVE  who'[p] = u
  BY DEF SetWho, AccountTypes

LEMMA AnswerPasses ==
  ASSUME TokenInv, NEW p \in Conns,
         Identify(p) \/ SwitchIdentity(p) \/ AnswerRevoked(p) \/ ClearIdentity(p) \/ DeleteUser(p)
  PROVE  Passed(p)
  <1>0. AccountTypes /\ (IsOpen(p) => Hears(p))
    BY DEF TokenInv
  <1>1. Handles(p, "none", 0, 0, 0, "none") /\ late' = late /\ email' = email
    <2>1. Handles(p, "none", 0, 0, 0, "none")
      BY <1>0, IdentifyHandles, SwitchHandles, LastHandles
    <2> QED
      BY <2>1 DEF Identify, SwitchIdentity, AnswerRevoked, ClearIdentity, DeleteUser, userVars
  <1>2. ASSUME token' = token, forsaken \subseteq forsaken' PROVE Becomes(0)
    BY <1>1, <1>2, LessPlain
  <1>3. PICK n, u : n = call[p].new /\ u = call[p].id
    OBVIOUS
  <1>4. CASE Identify(p) \/ SwitchIdentity(p)
    <2>1. /\ call[p].at \in { "identify", "created", "logged in" } /\ SetWho(p, u) /\ token' = token
          /\ \E kind : Send(p, kind, n) /\ (kind = "authenticated" => call[p].at = "identify")
      <3>1. CASE Identify(p)
        BY <1>3, <3>1 DEF Identify, userVars
      <3>2. CASE SwitchIdentity(p)
        BY <1>3, <3>2 DEF SwitchIdentity, userVars
      <3> QED
        BY <1>4, <3>1, <3>2
    <2>2. PICK kind : Send(p, kind, n) /\ (kind = "authenticated" => call[p].at = "identify")
      BY <2>1
    <2>3. Becomes(0)
      BY <1>2, <2>1, <2>2 DEF Send
    <2>4. IsOpen(p) => /\ kind = "authenticated" => Gone(Last(p), n)
                       /\ \A o : o = who'[p] /\ o # 0 => Only(n, o)
      <3> SUFFICES ASSUME IsOpen(p)
                   PROVE  /\ kind = "authenticated" => Gone(Last(p), n)
                          /\ \A o : o = who'[p] /\ o # 0 => Only(n, o)
        OBVIOUS
      <3>1. who'[p] = u
        BY <1>0, <2>1, SetsWho
      <3>2. Only(n, u) /\ (call[p].at = "identify" => Gone(Last(p), n))
        BY <1>0, <1>3, <2>1 DEF Hears, Knowing, Ready
      <3> QED
        BY <2>2, <3>1, <3>2
    <2> QED
      BY <1>1, <1>3, <2>2, <2>3, <2>4, SendPasses
  <1>5. CASE AnswerRevoked(p)
    <2>1. call[p].at = "reissued" /\ Send(p, "authenticated", n) /\ who' = who /\ token' = token
      BY <1>3, <1>5 DEF AnswerRevoked, userVars
    <2>2. Becomes(0)
      BY <1>2, <2>1 DEF Send
    <2>3. IsOpen(p) => /\ Gone(Last(p), n)
                       /\ \A o : o = who'[p] /\ o # 0 => Only(n, o)
      BY <1>0, <1>3, <2>1 DEF Hears, Knowing, Ready
    <2> QED
      BY <1>1, <1>3, <2>1, <2>2, <2>3, SendPasses
  <1>6. CASE ClearIdentity(p) \/ DeleteUser(p)
    <2>1. call[p].at \notin Ready /\ \E kind \in { "logged out", "deleted" } : Send(p, kind, 0)
      BY <1>6 DEF ClearIdentity, DeleteUser, Ready
    <2>2. PICK kind \in { "logged out", "deleted" } : Send(p, kind, 0)
      BY <2>1
    <2>3. token' = token \/ token' = [ token EXCEPT ![u] = NoRow ]
      BY <1>3, <1>6 DEF ClearIdentity, DeleteUser, userVars
    <2>4. Becomes(0)
      <3>1. forsaken \subseteq forsaken'
        BY <2>2 DEF Send
      <3>2. Row(u, NoRow)
        BY <2>3 DEF Row
      <3> QED
        BY <1>0, <1>1, <3>1, <3>2, NoTokens, RowPlain
    <2>5. \A o : Only(0, o)
      BY DeadZero DEF Only, Dead
    <2>6. kind # "authenticated"
      OBVIOUS
    <2> QED
      BY <1>1, <2>1, <2>2, <2>4, <2>5, <2>6, SendPasses
  <1> QED
    BY <1>4, <1>5, <1>6

(* A token is written, or nothing, and nothing is sent. *)
LEMMA WritePasses ==
  ASSUME TokenInv, NEW p \in Conns, NEW a, NEW w, NEW k, NEW n, NEW e, Handles(p, a, w, k, n, e), mail' = mail,
         a = "save" => n = tokens + 1 /\ forsaken' = forsaken /\ token' = token /\ email' = email,
         NEW x, Becomes(x), x \in { 0, tokens + 1 } \/ (call[p].at = "save" /\ x = call[p].new),
         x # 0 => a \in Ready /\ n = x /\ Only(x, w)', call[p].at \notin Ready, Stray',
         \A l, o : /\ IsOpen(p) /\ l = Last(p) /\ o = who'[p] /\ Shown(l)
                   /\ Knowing(l, who[p], call[p].at, call[p].id, call[p].tok, call[p].new)
                   => Knowing(l, o, a, w, k, n)'
  PROVE  Passed(p)
  <1>0. AccountTypes /\ wallet' = wallet /\ (IsOpen(p) => Hears(p))
    BY DEF TokenInv, Handles
  <1>1. call'[p].at = a /\ call'[p].id = w /\ call'[p].new = n
    BY <1>0, Turned DEF Handles
  <1>2. ASSUME NEW u \in UserIds, Plain(u)', token'[u] = x, x # 0 PROVE Answering(p, u)'
    <2>1. u = w
      BY <1>2 DEF Only, UserIds
    <2> QED
      BY <1>1, <1>2, <2>1 DEF Answering
  <1>3. Answers(p) /\ Delivers(p, x)
    BY <1>2 DEF Answers, Delivers, Answering
  <1>4. ASSUME IsOpen(p) PROVE Hears(p)'
    <2>1. Last(p)' = Last(p) /\ Shown(Last(p)) /\ Hears(p)
      BY <1>0, <1>4, LastSame, MailShown
    <2>2. ASSUME NEW l, l = Last(p), NEW o, o = who'[p] PROVE Knowing(l, o, a, w, k, n)'
      BY <1>4, <2>1, <2>2 DEF Hears
    <2> QED
      BY <1>0, <2>1, <2>2, NewHears
  <1>5. Passes(p, a, w, k, n, e, x)
    BY <1>3, <1>4 DEF Passes
  <1> QED
    BY <1>5 DEF Passed

(* A handler that is at none of the steps that matter here. *)
Idle ==
    { "none", "create", "find email", "failed", "verified", "login", "logout", "clear", "email", "delete" }

LEMMA IdleKnows ==
  ASSUME NEW l, NEW o, NEW a \in Idle, NEW u, NEW k, NEW n, o # 0 => Only(l, o)'
  PROVE  Knowing(l, o, a, u, k, n)'
  BY DEF Knowing, Idle, Ready

LEMMA IdleNotReady == ASSUME NEW a \in Idle PROVE a \notin Ready /\ a # "save"
  BY DEF Idle, Ready

(* The rotation of the token of w to n. *)
LEMMA NewToken ==
  ASSUME AccountTypes, NEW w, NEW n, n = tokens + 1, token' = Updated(w, n), email' = email,
         forsaken \subseteq forsaken'
  PROVE  Becomes(n) /\ Only(n, w)' /\ \A t : Only(t, w) /\ Shown(t) => Dead(t)'
  <1>1. ~Shown(n) /\ n > 0 /\ n # 0
    BY Unshown
  <1>2. Row(w, n)
    BY DEF Updated, Row
  <1>3. Becomes(n)
    BY <1>1, <1>2, RowPlain
  <1>4. \A u \in UserIds : u # w => token'[u] = token[u]
    BY <1>1, <1>2, RowPlain
  <1>5. \A u \in UserIds : token[u] # n
    <2>1. \A u \in UserIds : token[u] \in -1 .. tokens
      BY DEF AccountTypes, UserTypes
    <2> QED
      BY <2>1, Counts
  <1>6. Only(n, w)'
    BY <1>4, <1>5 DEF Only, UserIds
  <1>7. ASSUME NEW t, Only(t, w), Shown(t) PROVE Dead(t)'
    <2>1. ASSUME NEW u \in UserIds, Plain(u)', token'[u] = t PROVE FALSE
      <3>1. t # n
        BY <1>1, <1>7
      <3>2. Plain(u) /\ token[u] = t
        BY <1>3, <2>1, <3>1 DEF Becomes
      <3>3. u = w
        BY <1>7, <3>2 DEF Only
      <3>4. token[w] # NoRow
        BY <3>2, <3>3, NoTokens DEF Plain
      <3>5. token'[w] = n
        BY <2>1, <3>3, <3>4 DEF Updated, AccountTypes, UserTypes
      <3> QED
        BY <2>1, <3>1, <3>3, <3>5
    <2> QED
      BY <2>1 DEF Dead, UserIds
  <1> QED
    BY <1>3, <1>6, <1>7

LEMMA NotGiven ==
  ASSUME AccountTypes, NEW n, n = tokens + 1, token' = token
  PROVE  Dead(n)' /\ \A w : Only(n, w)'
  <1>1. \A u \in UserIds : token'[u] # n
    <2>1. \A u \in UserIds : token[u] \in -1 .. tokens
      BY DEF AccountTypes, UserTypes
    <2> QED
      BY <2>1, Counts
  <1> QED
    BY <1>1 DEF Dead, Only, UserIds

LEMMA RotatePasses ==
  ASSUME TokenInv, NEW p \in Conns, RotateFound(p)
  PROVE  Passed(p)
  <1>1. AccountTypes /\ call[p].at = "rotate" /\ call[p].at \notin Ready /\ Stray
    BY DEF TokenInv, RotateFound, Ready
  <1>2. PICK n \in { call[p].tok, tokens + 1 } :
             /\ Handles(p, "identify", call[p].id, call[p].tok, n, call[p].email)
             /\ tokens' = tokens + 1 /\ ids' = ids /\ email' = email /\ outside' = outside /\ mail' = mail
             /\ who' = who
             /\ \/ n = tokens + 1 /\ token' = Updated(call[p].id, tokens + 1) /\ late' = late /\ forsaken' = forsaken
                \/ n = call[p].tok /\ UNCHANGED << token, late, forsaken >>
                \/ /\ n = call[p].tok /\ token' = token
                   /\ TimedOut(call[p].id, tokens + 1, FALSE, "none")
                   /\ forsaken' = forsaken \cup { call[p].id }
    BY <1>1, RotateHandles
  <1>3. PICK w, k, e : w = call[p].id /\ k = call[p].tok /\ e = call[p].email
    OBVIOUS
  <1>4. Handles(p, "identify", w, k, n, e) /\ forsaken \subseteq forsaken'
    BY <1>2, <1>3
  <1>5. Stray'
    <2>1. \/ late' = late
          \/ TimedOut(call[p].id, tokens + 1, FALSE, "none") /\ call[p].id \in forsaken'
      BY <1>2, Zenon
    <2> QED
      BY <1>1, <1>4, <2>1, StrayKept
  <1>7. ASSUME NEW l, NEW o, l = Last(p), o = who'[p], Shown(l),
               Knowing(l, who[p], call[p].at, call[p].id, call[p].tok, call[p].new)
        PROVE  Gone(l, k) /\ Only(k, w) /\ Shown(k) /\ (o # 0 => Only(l, o))
    BY <1>1, <1>2, <1>3, <1>7, MailShown DEF Knowing
  <1>8. CASE n = tokens + 1 /\ token' = Updated(w, tokens + 1)
    <2>1. Becomes(n) /\ Only(n, w)' /\ \A t : Only(t, w) /\ Shown(t) => Dead(t)'
      BY <1>1, <1>2, <1>4, <1>8, NewToken
    <2>2. ASSUME NEW l, NEW o, l = Last(p), o = who'[p], Shown(l),
                 Knowing(l, who[p], call[p].at, call[p].id, call[p].tok, call[p].new)
          PROVE  Knowing(l, o, "identify", w, k, n)'
      <3>1. Dead(l)'
        BY <1>7, <2>1, <2>2, KeepsShown DEF Gone
      <3>2. o # 0 => Only(l, o)'
        BY <1>7, <2>1, <2>2, KeepsShown
      <3> QED
        BY <2>1, <3>1, <3>2 DEF Knowing, Gone
    <2>3. "identify" \in Ready /\ "identify" # "save"
      BY DEF Ready
    <2> QED
      BY <1>1, <1>2, <1>4, <1>5, <1>8, <2>1, <2>2, <2>3, WritePasses
  <1>9. CASE n = k /\ token' = token
    <2>1. Becomes(0)
      BY <1>2, <1>4, <1>9, LessPlain
    <2>2. ASSUME NEW l, NEW o, l = Last(p), o = who'[p], Shown(l),
                 Knowing(l, who[p], call[p].at, call[p].id, call[p].tok, call[p].new)
          PROVE  Knowing(l, o, "identify", w, k, n)'
      <3>1. Gone(l, n)' /\ Only(n, w)' /\ (o # 0 => Only(l, o)')
        BY <1>2, <1>4, <1>7, <1>9, <2>2, LessKeeps
      <3> QED
        BY <3>1 DEF Knowing
    <2>3. "identify" # "save"
      OBVIOUS
    <2> QED
      BY <1>1, <1>2, <1>4, <1>5, <2>1, <2>2, <2>3, WritePasses
  <1> QED
    BY <1>2, <1>3, <1>8, <1>9

LEMMA FreshPasses ==
  ASSUME TokenInv, NEW p \in Conns, FreshIdentity(p)
  PROVE  Passed(p)
  <1>1. AccountTypes /\ Stray /\ call[p].at = "fresh" /\ call[p].at \notin Ready
    BY DEF TokenInv, FreshIdentity, Ready
  <1>2. /\ mail' = mail /\ late' = late /\ forsaken' = forsaken /\ token' = token /\ email' = email
        /\ SetWho(p, ids + 1)
    BY DEF FreshIdentity, linkVars, userVars
  <1>3. PICK w, k, n, e : w = ids + 1 /\ k = call[p].tok /\ n = tokens + 1 /\ e = call[p].email
    OBVIOUS
  <1>4. Handles(p, "save", w, k, n, e)
    BY <1>1, <1>3, FreshHandles
  <1>5. Becomes(0)
    BY <1>2, LessPlain
  <1>6. Stray'
    BY <1>1, <1>2, StrayKept
  <1>7. ASSUME NEW l, NEW o, l = Last(p), Shown(l),
               Knowing(l, who[p], call[p].at, call[p].id, call[p].tok, call[p].new)
        PROVE  Knowing(l, o, "save", w, k, n)'
    <2>1. Dead(l)'
      BY <1>1, <1>5, <1>7, KeepsShown DEF Knowing
    <2> QED
      BY <2>1 DEF Knowing, Ready, Dead, Only
  <1> QED
    BY <1>1, <1>2, <1>3, <1>4, <1>5, <1>6, <1>7, WritePasses

LEMMA SavePasses ==
  ASSUME TokenInv, NEW p \in Conns, SaveUser(p)
  PROVE  Passed(p)
  <1>1. AccountTypes /\ Stray /\ Reserved /\ call[p].at = "save" /\ call[p].at \notin Ready /\ mail' = mail
        /\ email' = email
    BY DEF TokenInv, SaveUser, Ready, linkVars
  <1>2. PICK w, k, n, e : w = call[p].id /\ k = call[p].tok /\ n = call[p].new /\ e = call[p].email
    OBVIOUS
  <1>3. CASE /\ Handles(p, "identify", call[p].id, call[p].tok, call[p].new, call[p].email)
             /\ token' = [ token EXCEPT ![call[p].id] = call[p].new ]
             /\ UNCHANGED << who, late, forsaken >>
    <2>1. Handles(p, "identify", w, k, n, e) /\ Row(w, n)
      BY <1>2, <1>3 DEF Row
    <2>2. n # 0 /\ ~Shown(n) /\ Dead(n) /\ n \in 0 .. tokens
      BY <1>1, <1>2, Same DEF Reserved
    <2>3. n > 0
      BY <2>2
    <2>4. Becomes(n) /\ \A u \in UserIds : u # w => token'[u] = token[u]
      BY <1>1, <1>3, <2>1, <2>2, <2>3, RowPlain
    <2>5. Only(n, w)'
      <3>1. ASSUME NEW u \in UserIds, Plain(u)', token'[u] = n PROVE u = w
        BY <1>1, <1>3, <2>2, <2>4, <3>1 DEF Plain, Dead
      <3> QED
        BY <3>1 DEF Only, UserIds
    <2>6. ASSUME NEW l, NEW o, l = Last(p), o = who'[p], Shown(l),
                 Knowing(l, who[p], call[p].at, call[p].id, call[p].tok, call[p].new)
          PROVE  Knowing(l, o, "identify", w, k, n)'
      <3>1. Dead(l)'
        BY <1>1, <2>4, <2>6, KeepsShown DEF Knowing
      <3> QED
        BY <2>5, <3>1 DEF Knowing, Gone, Dead, Only
    <2>7. "identify" \in Ready /\ "identify" # "save"
      BY DEF Ready
    <2>8. Stray'
      BY <1>1, <1>3, StrayKept
    <2> QED
      BY <1>1, <1>2, <2>1, <2>4, <2>5, <2>6, <2>7, <2>8, WritePasses
  <1>4. CASE /\ Handles(p, "none", 0, 0, 0, "none")
             /\ token' = token
             /\ \/ SetWho(p, 0) /\ UNCHANGED << late, forsaken >>
                \/ /\ TimedOut(call[p].id, call[p].new, TRUE, "none") /\ who' = who
                   /\ forsaken' = forsaken \cup { call[p].id }
    <2>1. forsaken \subseteq forsaken'
      BY <1>4
    <2>2. Becomes(0)
      BY <1>1, <1>4, <2>1, LessPlain
    <2>3. Stray'
      <3>1. \/ late' = late
            \/ TimedOut(call[p].id, call[p].new, TRUE, "none") /\ call[p].id \in forsaken'
        BY <1>4, Zenon
      <3> QED
        BY <1>1, <2>1, <3>1, StrayKept
    <2>4. ASSUME NEW l, NEW o, IsOpen(p), l = Last(p), o = who'[p], Shown(l),
                 Knowing(l, who[p], call[p].at, call[p].id, call[p].tok, call[p].new)
          PROVE  Knowing(l, o, "none", 0, 0, 0)'
      <3>1. Dead(l)'
        BY <1>1, <2>2, <2>4, KeepsShown DEF Knowing
      <3> QED
        BY <3>1 DEF Knowing, Ready, Dead, Only
    <2>5. "none" # "save"
      OBVIOUS
    <2> QED
      BY <1>1, <1>4, <2>2, <2>3, <2>4, <2>5, WritePasses
  <1> QED
    BY <1>1, <1>3, <1>4, SaveHandles

(* What begins, ends or goes on without a token. *)
LEMMA IdlePasses ==
  ASSUME TokenInv, NEW p \in Conns, NEW a \in Idle, NEW w, NEW k, NEW n, NEW e, Handles(p, a, w, k, n, e),
         mail' = mail, who' = who, Becomes(0), call[p].at \notin Ready, Stray'
  PROVE  Passed(p)
  <1>1. a \notin Ready /\ a # "save"
    BY IdleNotReady
  <1>2. ASSUME NEW l, NEW o, l = Last(p), o = who'[p], Shown(l),
               Knowing(l, who[p], call[p].at, call[p].id, call[p].tok, call[p].new)
        PROVE  Knowing(l, o, a, w, k, n)'
    <2>1. o # 0 => Only(l, o)'
      BY <1>2, KeepsShown DEF Knowing
    <2> QED
      BY <2>1, IdleKnows
  <1> QED
    BY <1>1, <1>2, WritePasses

LEMMA AskPasses ==
  ASSUME TokenInv, NEW p \in Conns,
         \/ \E e \in Emails : HandleCreateAccount(p, e) \/ HandleLogin(p, e) \/ HandleWithPassword(p, "email", e)
         \/ HandleWithPassword(p, "delete", "none") \/ HandleLogout(p) \/ HandleRevokeAll(p)
  PROVE  Passed(p)
  <1>1. AccountTypes /\ Stray
    BY DEF TokenInv
  <1>2. /\ \E a \in { "create", "find email", "email", "delete", "logout", "clear", "revoke" },
              u \in { 0, who[p] }, e \in Addresses : Handles(p, a, u, 0, 0, e) /\ (a = "revoke" => u = who[p])
        /\ call[p].at = "none"
        /\ UNCHANGED << mail, who, userVars, late, givenVars, forsaken, outside >>
    BY <1>1, AskHandles
  <1>3. PICK a \in { "create", "find email", "email", "delete", "logout", "clear", "revoke" },
             u \in { 0, who[p] }, e \in Addresses : Handles(p, a, u, 0, 0, e) /\ (a = "revoke" => u = who[p])
    BY <1>2
  <1>4. /\ mail' = mail /\ who' = who /\ token' = token /\ email' = email /\ late' = late /\ forsaken' = forsaken
        /\ call[p].at \notin Ready
    BY <1>2 DEF userVars, Ready
  <1>5. Becomes(0)
    BY <1>4, LessPlain
  <1>6. Stray'
    BY <1>1, <1>4, StrayKept
  <1>7. CASE a # "revoke"
    <2>1. a \in Idle
      BY <1>7 DEF Idle
    <2> QED
      BY <1>3, <1>4, <1>5, <1>6, <2>1, IdlePasses
  <1>8. CASE a = "revoke"
    <2>1. ASSUME NEW l, NEW o, l = Last(p), o = who'[p], Shown(l),
                 Knowing(l, who[p], call[p].at, call[p].id, call[p].tok, call[p].new)
          PROVE  Knowing(l, o, a, u, 0, 0)'
      <3>1. o # 0 => Only(l, o)'
        BY <1>4, <1>5, <2>1, KeepsShown DEF Knowing
      <3>2. o = u
        BY <1>3, <1>4, <1>8, <2>1
      <3> QED
        BY <1>8, <3>1, <3>2 DEF Knowing, Ready
    <2>2. a # "save"
      BY <1>8
    <2> QED
      BY <1>3, <1>4, <1>5, <1>6, <2>1, <2>2, WritePasses
  <1> QED
    BY <1>7, <1>8

LEMMA CreatePasses ==
  ASSUME TokenInv, NEW p \in Conns, CreateAccount(p)
  PROVE  Passed(p)
  <1>1. AccountTypes /\ Stray /\ call[p].at = "create" /\ call[p].at \notin Ready /\ mail' = mail /\ who' = who
        /\ forsaken' = forsaken
    BY DEF TokenInv, CreateAccount, Ready, linkVars
  <1>2. call[p].email \in Emails /\ call[p].email # "none"
    BY <1>1, AccountsAssumption DEF AccountTypes, AccountsAssumption
  <1>3. CASE /\ Handles(p, "created", ids + 1, call[p].tok, tokens + 1, call[p].email)
             /\ token' = [ token EXCEPT ![ids + 1] = tokens + 1 ]
             /\ email' = [ email EXCEPT ![ids + 1] = call[p].email ] /\ late' = late
    <2>1. PICK w, k, n, e : w = ids + 1 /\ k = call[p].tok /\ n = tokens + 1 /\ e = call[p].email
      OBVIOUS
    <2>2. Handles(p, "created", w, k, n, e)
      BY <1>3, <2>1
    <2>3. ASSUME NEW u \in UserIds, Plain(u)' PROVE Plain(u) /\ token'[u] = token[u] /\ token[u] # n
      <3>1. token[u] \in -1 .. tokens /\ tokens \in Nat
        BY <1>1, Counts DEF AccountTypes, UserTypes
      <3>2. u # w
        BY <1>1, <1>2, <1>3, <2>1, <2>3 DEF Plain, AccountTypes, UserTypes
      <3>3. token'[u] = token[u] /\ email'[u] = email[u]
        BY <1>1, <1>3, <2>1, <3>2 DEF AccountTypes, UserTypes
      <3> QED
        BY <1>1, <2>1, <2>3, <3>1, <3>3 DEF Plain
    <2>4. Becomes(0)
      BY <2>3 DEF Becomes
    <2>5. Only(n, w)'
      BY <2>3 DEF Only, UserIds
    <2>6. ASSUME NEW l, NEW o, l = Last(p), o = who'[p], Shown(l),
                 Knowing(l, who[p], call[p].at, call[p].id, call[p].tok, call[p].new)
          PROVE  Knowing(l, o, "created", w, k, n)'
      <3>1. o # 0 => Only(l, o)'
        BY <1>1, <2>4, <2>6, KeepsShown DEF Knowing
      <3> QED
        BY <2>5, <3>1 DEF Knowing
    <2>7. Stray' /\ "created" # "save"
      BY <1>1, <1>3, StrayKept
    <2> QED
      BY <1>1, <2>2, <2>4, <2>6, <2>7, WritePasses
  <1>4. CASE /\ Handles(p, "none", 0, 0, 0, "none") /\ UNCHANGED userVars
             /\ late' = late \/ TimedOut(ids + 1, tokens + 1, TRUE, call[p].email)
    <2>1. Becomes(0)
      BY <1>1, <1>4, LessPlain DEF userVars
    <2>2. Stray'
      BY <1>1, <1>2, <1>4, StrayKept
    <2>3. "none" \in Idle
      BY DEF Idle
    <2> QED
      BY <1>1, <1>4, <2>1, <2>2, <2>3, IdlePasses
  <1> QED
    BY <1>1, <1>3, <1>4, CreateHandles

LEMMA LoginPasses ==
  ASSUME TokenInv, NEW p \in Conns, FindByEmail(p) \/ RecordFailure(p) \/ ClearFailures(p)
  PROVE  Passed(p)
  <1>1. AccountTypes /\ Stray /\ call[p].at \notin Ready /\ "none" \in Idle /\ "failed" \in Idle /\ "verified" \in Idle
        /\ "login" \in Idle
    BY DEF TokenInv, FindByEmail, RecordFailure, ClearFailures, Ready, Idle
  <1>2. /\ UNCHANGED << linkVars, who, userVars, late, givenVars, forsaken >>
        /\ \E a \in Idle : \E w : Handles(p, a, w, call[p].tok, call[p].new, call[p].email) \/ Handles(p, a, 0, 0, 0, "none")
    <2>1. CASE FindByEmail(p)
      BY <1>1, <2>1, FindByEmailHandles
    <2>2. CASE RecordFailure(p) \/ ClearFailures(p)
      BY <1>1, <2>2, CountHandles
    <2> QED
      BY <2>1, <2>2
  <1>3. PICK a \in Idle : \E w : Handles(p, a, w, call[p].tok, call[p].new, call[p].email) \/ Handles(p, a, 0, 0, 0, "none")
    BY <1>2
  <1>4. PICK w : Handles(p, a, w, call[p].tok, call[p].new, call[p].email) \/ Handles(p, a, 0, 0, 0, "none")
    BY <1>3
  <1>5. PICK k, n, e : k = call[p].tok /\ n = call[p].new /\ e = call[p].email
    OBVIOUS
  <1>6. Handles(p, a, w, k, n, e) \/ Handles(p, a, 0, 0, 0, "none")
    BY <1>4, <1>5
  <1>7. mail' = mail /\ who' = who /\ token' = token /\ email' = email /\ late' = late /\ forsaken' = forsaken
    BY <1>2 DEF linkVars, userVars
  <1>8. Becomes(0) /\ Stray'
    BY <1>1, <1>7, LessPlain, StrayKept
  <1> QED
    BY <1>1, <1>6, <1>7, <1>8, IdlePasses

LEMMA RotatingPasses ==
  ASSUME TokenInv, NEW p \in Conns, RotateLogin(p) \/ Reissue(p)
  PROVE  Passed(p)
  <1>1. AccountTypes /\ Stray /\ call[p].at \notin Ready
    BY DEF TokenInv, RotateLogin, Reissue, Ready
  <1>2. PICK a \in { "logged in", "reissued" } :
                /\ Handles(p, a, call[p].id, call[p].tok, tokens + 1, call[p].email)
                /\ << call[p].at, a >> \in { << "login", "logged in" >>, << "reissue", "reissued" >> }
    BY <1>1, RotatingHandles
  <1>3. /\ Rotate(p, call[p].id, tokens + 1)
        /\ mail' = mail /\ who' = who /\ email' = email
    BY <1>1, RotatingHandles DEF linkVars
  <1>4. PICK w, k, n, e : w = call[p].id /\ k = call[p].tok /\ n = tokens + 1 /\ e = call[p].email
    OBVIOUS
  <1>5. Handles(p, a, w, k, n, e) /\ a \in Ready /\ a # "save"
    BY <1>2, <1>4 DEF Ready
  <1>6. \/ token' = Updated(w, n) /\ late' = late /\ forsaken' = forsaken
        \/ token' = token /\ late' = late /\ forsaken' = forsaken \cup {w}
        \/ TimedOut(w, n, FALSE, "none") /\ token' = token /\ forsaken' = forsaken \cup {w}
    BY <1>3, <1>4 DEF Rotate
  <1>7. forsaken \subseteq forsaken'
    BY <1>6
  <1>8. Stray'
    <2>1. CASE late' = late
      BY <1>1, <1>7, <2>1, StrayKept
    <2>2. CASE TimedOut(w, n, FALSE, "none") /\ forsaken' = forsaken \cup {w}
      <3>1. w \in forsaken'
        BY <2>2
      <3> QED
        BY <1>1, <1>7, <2>2, <3>1, StrayKept
    <2> QED
      BY <1>6, <2>1, <2>2
  <1>9. ASSUME NEW x, Becomes(x), Only(n, w)',
               NEW l, NEW o, l = Last(p), o = who'[p], Shown(l),
               Knowing(l, who[p], call[p].at, call[p].id, call[p].tok, call[p].new)
        PROVE  Knowing(l, o, a, w, k, n)'
    <2>1. o # 0 => Only(l, o)'
      BY <1>3, <1>9, KeepsShown DEF Knowing
    <2>2. CASE a = "logged in"
      BY <1>9, <2>1, <2>2 DEF Knowing
    <2>3. CASE a = "reissued" /\ call[p].at = "reissue"
      <3>1. o = w /\ Dead(l)
        BY <1>3, <1>4, <1>9, <2>3 DEF Knowing
      <3>2. Dead(l)'
        BY <1>9, <3>1, KeepsShown
      <3> QED
        BY <1>9, <2>1, <2>3, <3>1, <3>2 DEF Knowing, Gone
    <2> QED
      BY <1>2, <2>2, <2>3
  <1>10. CASE token' = Updated(w, n)
    <2>1. Becomes(n) /\ Only(n, w)'
      BY <1>1, <1>3, <1>4, <1>7, <1>10, NewToken
    <2> QED
      BY <1>1, <1>3, <1>4, <1>5, <1>8, <1>9, <2>1, WritePasses
  <1>11. CASE token' = token
    <2>1. Becomes(0) /\ Only(n, w)'
      BY <1>1, <1>3, <1>4, <1>7, <1>11, LessPlain, NotGiven
    <2> QED
      BY <1>1, <1>3, <1>5, <1>8, <1>9, <2>1, WritePasses
  <1> QED
    BY <1>6, <1>10, <1>11

LEMMA InvalidatePasses ==
  ASSUME TokenInv, NEW p \in Conns, InvalidateForLogout(p) \/ InvalidateForRevoke(p)
  PROVE  Passed(p)
  <1>1. AccountTypes /\ Stray /\ call[p].at \notin Ready /\ call[p].at \in { "logout", "revoke" }
        /\ call[p].id # 0
    BY DEF TokenInv, InvalidateForLogout, InvalidateForRevoke, Ready, AccountTypes, AboutUser
  <1>2. /\ mail' = mail /\ who' = who /\ email' = email /\ forsaken' = forsaken
        /\ token' = token \/ token' = Updated(call[p].id, Revoked)
        /\ late' = late \/ TimedOut(call[p].id, Revoked, FALSE, "none")
    BY <1>1, InvalidateHandles DEF linkVars
  <1>3. PICK w, k, n, e : w = call[p].id /\ k = call[p].tok /\ n = call[p].new /\ e = call[p].email
    OBVIOUS
  <1>4. PICK x : x = Revoked
    OBVIOUS
  <1>5. ~(x > 0) /\ x = 0
    BY <1>4, NoTokens
  <1>6. Row(w, x)
    BY <1>2, <1>3, <1>4 DEF Row, Updated
  <1>7. Becomes(0)
    BY <1>1, <1>2, <1>5, <1>6, RowPlain
  <1>8. Stray'
    BY <1>1, <1>2, <1>4, <1>5, StrayKept
  <1>9. CASE \/ Handles(p, "none", 0, 0, 0, "none")
             \/ Handles(p, "clear", call[p].id, call[p].tok, call[p].new, call[p].email)
    <2>1. Handles(p, "none", 0, 0, 0, "none") \/ Handles(p, "clear", w, k, n, e)
      BY <1>3, <1>9
    <2>2. "none" \in Idle /\ "clear" \in Idle
      BY DEF Idle
    <2> QED
      BY <1>1, <1>2, <1>7, <1>8, <2>1, <2>2, IdlePasses
  <1>10. CASE /\ Handles(p, "reissue", call[p].id, call[p].tok, call[p].new, call[p].email)
              /\ call[p].at = "revoke" /\ token' = Updated(call[p].id, Revoked)
    <2>1. Handles(p, "reissue", w, k, n, e) /\ "reissue" # "save"
      BY <1>3, <1>10
    <2>2. ASSUME NEW l, NEW o, l = Last(p), o = who'[p], Shown(l),
                 Knowing(l, who[p], call[p].at, call[p].id, call[p].tok, call[p].new)
          PROVE  Knowing(l, o, "reissue", w, k, n)'
      <3>1. o = w /\ Only(l, w)
        BY <1>1, <1>2, <1>3, <1>10, <2>2 DEF Knowing
      <3>2. ASSUME NEW u \in UserIds, Plain(u)', token'[u] = l PROVE FALSE
        <4>1. Plain(u) /\ token[u] = l /\ u = w
          BY <1>7, <3>1, <3>2 DEF Becomes, Only
        <4>2. token[w] # NoRow
          BY <4>1, NoTokens DEF Plain
        <4>3. token'[w] = x
          BY <1>1, <1>3, <1>4, <1>10, <4>1, <4>2 DEF Updated, AccountTypes, UserTypes
        <4> QED
          BY <1>5, <3>2, <4>1, <4>3 DEF Plain
      <3>3. Dead(l)'
        BY <3>2 DEF Dead, UserIds
      <3> QED
        BY <3>1, <3>3 DEF Knowing, Ready, Dead, Only
    <2> QED
      BY <1>1, <1>2, <1>7, <1>8, <2>1, <2>2, WritePasses
  <1> QED
    BY <1>1, <1>9, <1>10, InvalidateHandles

LEMMA EmailPasses ==
  ASSUME TokenInv, NEW p \in Conns, SaveEmail(p)
  PROVE  Passed(p)
  <1>1. AccountTypes /\ Stray /\ call[p].at = "email" /\ call[p].at \notin Ready /\ "none" \in Idle
    BY DEF TokenInv, SaveEmail, Ready, Idle
  <1>2. /\ mail' = mail /\ who' = who /\ token' = token /\ late' = late /\ forsaken' = forsaken
        /\ email' = email \/ email' = [ email EXCEPT ![call[p].id] = call[p].email ]
    BY DEF SaveEmail, linkVars
  <1>3. call[p].email # "none"
    BY <1>1, AccountsAssumption DEF AccountTypes, AccountsAssumption
  <1>4. \A u \in UserIds : email'[u] = "none" => email[u] = "none"
    BY <1>1, <1>2, <1>3 DEF AccountTypes, UserTypes
  <1>5. Becomes(0)
    BY <1>2, <1>4 DEF Becomes, Plain
  <1>6. Stray'
    BY <1>1, <1>2, StrayKept
  <1>7. Handles(p, "none", 0, 0, 0, "none")
    BY <1>1, LastHandles
  <1> QED
    BY <1>1, <1>2, <1>5, <1>6, <1>7, IdlePasses

LEMMA HandlerTokens ==
  ASSUME TokenInv, NEW p \in Conns, IdentityStep(p) \/ AccountStep(p)
  PROVE  TokenInv'
  <1>1. AccountTypes
    BY DEF TokenInv
  <1>2. PICK b, v : Works(p, b, v)
    BY <1>1, IdentityAdvances, AccountAdvances DEF Advances
  <1>3. Passed(p)
    BY AuthenticatePasses, FindPasses, RotatePasses, AnswerPasses, FreshPasses, SavePasses, AskPasses, CreatePasses,
       LoginPasses, RotatingPasses, InvalidatePasses, EmailPasses DEF IdentityStep, AccountStep
  <1>4. PICK a, w, k, n, e, x : Passes(p, a, w, k, n, e, x)
    BY <1>3 DEF Passed
  <1>5. Stray'
    BY <1>3 DEF Passed
  <1> QED
    BY <1>2, <1>4, <1>5, HandledTokens

-----------------------------------------------------------------------------
(* The other steps: the client, and a statement that is made after all. *)

LEMMA StepTokens ==
  ASSUME TokenInv, AccountTypes', call' = call, Becomes(0), forsaken \subseteq forsaken', late' \subseteq late,
         \A u \in UserIds, t \in Nat \ {0} : Coming(u, t)' => Coming(u, t),
         \A t : Shown(t)' => Shown(t),
         \A q \in Conns : ChainedTo(q)' /\ (IsOpen(q)' => Hears(q)'), Held'
  PROVE  TokenInv'
  <1>1. OneComer'
    BY DEF TokenInv, OneComer, UserIds
  <1>2. Stray'
    BY DEF TokenInv, Stray
  <1>3. Reserved'
    <2>1. ASSUME NEW p \in Conns, call[p].at = "save", NEW t, t = call[p].new
          PROVE  t # 0 /\ ~Shown(t)' /\ Dead(t)' /\ \A q \in Conns : q # p => call[q].new # t
      <3>1. t # 0 /\ ~Shown(t) /\ Dead(t) /\ \A q \in Conns : q # p => call[q].new # t
        BY <2>1 DEF TokenInv, Reserved
      <3> QED
        BY <3>1, KeepsDead
    <2> QED
      BY <2>1 DEF Reserved
  <1> QED
    BY <1>1, <1>2, <1>3 DEF TokenInv

(* Who held its token has it still, if the answers that are gone are not   *)
(* needed.                                                                 *)
LEMMA HeldStill ==
  ASSUME Held, call' = call, Becomes(0),
         \A u \in UserIds : Plain(u) /\ Plain(u)' =>
             /\ \A c \in Clients : wallet[c] = token[u] => \E d \in Clients : wallet'[d] = token[u]
             /\ \A p \in Conns : token[u] \in InMail(p) =>
                   (\E d \in Clients : wallet'[d] = token[u]) \/ token[u] \in InMail(p)'
  PROVE  Held'
  <1>1. ASSUME NEW u \in UserIds, Plain(u)' PROVE HeldBySome(u)'
    <2>1. Plain(u) /\ token'[u] = token[u]
      BY <1>1 DEF Becomes
    <2>2. HeldBySome(u)
      BY <2>1 DEF Held
    <2>3. \A p \in Conns : Answering(p, u) => Answering(p, u)'
      BY <2>1 DEF Answering
    <2> QED
      BY <1>1, <2>1, <2>2, <2>3 DEF HeldBySome, Clients
  <1> QED
    BY <1>1 DEF Held, UserIds

LEMMA SameTokens ==
  ASSUME TokenInv, AccountTypes', UNCHANGED << wallet, mail, who, token, email, call, late >>,
         forsaken \subseteq forsaken',
         \A q \in Conns : IsOpen(q)' => IsOpen(q) \/ (call[q].at = "none" /\ who[q] = 0)
  PROVE  TokenInv'
  <1>1. AccountTypes /\ Held /\ \A q \in Conns : ChainedTo(q) /\ (IsOpen(q) => Hears(q))
    BY DEF TokenInv
  <1>2. Becomes(0)
    BY LessPlain
  <1>3. \A u \in UserIds, t \in Nat \ {0} : Coming(u, t)' => Coming(u, t)
    BY SameComing
  <1>4. \A q \in Conns : InMail(q)' = InMail(q)
    BY DEF InMail
  <1>5. \A t : Shown(t)' => Shown(t)
    BY <1>4 DEF Shown, Clients
  <1>6. ASSUME NEW q \in Conns PROVE ChainedTo(q)' /\ (IsOpen(q)' => Hears(q)')
    <2>1. ChainedTo(q)' /\ (Hears(q) => Hears(q)')
      BY <1>1, <1>2, OthersHear
    <2>2. call[q].at = "none" /\ who[q] = 0 => Hears(q)'
      BY DEF Hears, Knowing, Ready
    <2> QED
      BY <1>1, <2>1, <2>2
  <1>7. Held'
    BY <1>1, <1>2, <1>4, HeldStill
  <1> QED
    BY <1>2, <1>3, <1>5, <1>6, <1>7, StepTokens

LEMMA OpenTokens ==
  ASSUME TokenInv, NEW p \in Conns, Open(p)
  PROVE  TokenInv'
  <1>1. AccountTypes /\ AccountTypes'
    BY OpenTypes DEF TokenInv
  <1>2. /\ UNCHANGED << wallet, mail, who, token, email, call, late, forsaken >>
        /\ link[p] = "new" /\ link' = [ link EXCEPT ![p] = "open" ]
    BY DEF Open, userVars
  <1>3. \A q \in Conns : IsOpen(q)' => IsOpen(q) \/ q = p
    BY <1>1, <1>2 DEF IsOpen, AccountTypes
  <1>4. call[p].at = "none" /\ who[p] = 0
    BY <1>1, <1>2 DEF AccountTypes
  <1> QED
    BY <1>1, <1>2, <1>3, <1>4, SameTokens

LEMMA CloseTokens ==
  ASSUME TokenInv, NEW p \in Conns, Close(p)
  PROVE  TokenInv'
  <1>1. AccountTypes /\ AccountTypes' /\ Held /\ \A q \in Conns : ChainedTo(q) /\ (IsOpen(q) => Hears(q))
    BY CloseTypes DEF TokenInv
  <1>2. /\ UNCHANGED << wallet, token, email, call, late >>
        /\ link' = [ link EXCEPT ![p] = "closed" ] /\ mail' = [ mail EXCEPT ![p] = <<>> ]
        /\ who' = [ who EXCEPT ![p] = 0 ] /\ forsaken' = forsaken \cup Awaited(p)
    BY DEF Close, userVars
  <1>3. /\ link'[p] = "closed" /\ mail'[p] = <<>>
        /\ \A q \in Conns : q # p => link'[q] = link[q] /\ mail'[q] = mail[q] /\ who'[q] = who[q]
    BY <1>1, <1>2 DEF AccountTypes
  <1>4. Becomes(0) /\ forsaken \subseteq forsaken'
    BY <1>2, LessPlain
  <1>5. \A u \in UserIds, t \in Nat \ {0} : Coming(u, t)' => Coming(u, t)
    BY <1>2, SameComing
  <1>6. InMail(p)' = {} /\ \A q \in Conns : q # p => InMail(q)' = InMail(q)
    BY <1>3 DEF InMail
  <1>7. \A t : Shown(t)' => Shown(t)
    BY <1>2, <1>6 DEF Shown, Clients
  <1>8. ASSUME NEW q \in Conns PROVE ChainedTo(q)' /\ (IsOpen(q)' => Hears(q)')
    <2>1. CASE q = p
      BY <1>3, <2>1 DEF ChainedTo, IsOpen
    <2>2. CASE q # p
      <3>1. ChainedTo(q)' /\ (Hears(q) => Hears(q)')
        BY <1>1, <1>2, <1>3, <1>4, <2>2, OthersHear
      <3>2. IsOpen(q)' = IsOpen(q)
        BY <1>3, <2>2 DEF IsOpen
      <3> QED
        BY <1>1, <3>1, <3>2
    <2> QED
      BY <2>1, <2>2
  <1>9. Held'
    <2>1. ASSUME NEW u \in UserIds, Plain(u), Plain(u)', token[u] \in InMail(p) PROVE FALSE
      <3>1. PICK i \in DOMAIN mail[p] : mail[p][i][2] = token[u]
        BY <2>1 DEF InMail
      <3>2. u \in Bearers(mail[p][i][2])
        BY <2>1, <3>1 DEF Bearers, Plain
      <3> QED
        BY <1>2, <2>1, <3>2 DEF Awaited, Plain
    <2> QED
      BY <1>1, <1>2, <1>4, <1>6, <2>1, HeldStill
  <1> QED
    BY <1>1, <1>2, <1>4, <1>5, <1>7, <1>8, <1>9, StepTokens

(* An answer is read: what comes after it is as it was. *)
LEMMA Reads ==
  ASSUME AccountTypes, AccountTypes', NEW p \in Conns, mail[p] # <<>>, mail' = [ mail EXCEPT ![p] = Tail(@) ],
         wallet' = [ wallet EXCEPT ![Mine(p)] = Head(mail[p])[2] ]
  PROVE  /\ Last(p)' = Last(p) /\ wallet'[Mine(p)] = mail[p][1][2] /\ 1 \in DOMAIN mail[p]
         /\ \A i \in DOMAIN mail'[p] : /\ i + 1 \in DOMAIN mail[p] /\ mail'[p][i] = mail[p][i + 1]
                                      /\ Prev(p, i)' = Prev(p, i + 1)
         /\ \A i \in DOMAIN mail[p] : i = 1 \/ mail[p][i][2] \in InMail(p)'
         /\ \A q \in Conns : q # p => mail'[q] = mail[q]
         /\ \A c \in Clients : c # Mine(p) => wallet'[c] = wallet[c]
  <1>1. mail'[p] = Tail(mail[p]) /\ \A q \in Conns : q # p => mail'[q] = mail[q]
    BY DEF AccountTypes
  <1>2. Mine(p)' = Mine(p) /\ Mine(p) \in Clients
    BY MineIsClient DEF Mine
  <1>3. wallet'[Mine(p)] = mail[p][1][2] /\ \A c \in Clients : c # Mine(p) => wallet'[c] = wallet[c]
    BY <1>2, Headed DEF AccountTypes
  <1>4. /\ 1 \in DOMAIN mail[p] /\ Len(mail[p]) \in Nat /\ Len(mail[p]) > 0 /\ DOMAIN mail[p] = 1 .. Len(mail[p])
        /\ DOMAIN mail'[p] = 1 .. Len(mail[p]) - 1 /\ Len(mail'[p]) = Len(mail[p]) - 1
        /\ \A i \in DOMAIN mail'[p] : i + 1 \in DOMAIN mail[p] /\ mail'[p][i] = mail[p][i + 1]
    BY <1>1, Headed
  <1>5. ASSUME NEW i \in DOMAIN mail'[p] PROVE Prev(p, i)' = Prev(p, i + 1)
    <2>1. i \in Nat /\ i + 1 # 1 /\ (i + 1) - 1 = i
      BY <1>4, <1>5
    <2>2. Prev(p, i + 1) = mail[p][i][2]
      BY <2>1 DEF Prev
    <2>3. CASE i = 1
      BY <1>2, <1>3, <2>2, <2>3 DEF Prev
    <2>4. CASE i # 1
      <3>1. i - 1 \in DOMAIN mail'[p] /\ (i - 1) + 1 = i
        BY <1>4, <1>5, <2>1, <2>4
      <3>2. mail'[p][i - 1] = mail[p][i]
        BY <1>4, <3>1
      <3> QED
        BY <2>2, <2>4, <3>2 DEF Prev
    <2> QED
      BY <2>3, <2>4
  <1>6. ASSUME NEW i \in DOMAIN mail[p], i # 1 PROVE mail[p][i][2] \in InMail(p)'
    <2>1. i - 1 \in DOMAIN mail'[p] /\ (i - 1) + 1 = i
      BY <1>4, <1>6
    <2>2. mail'[p][i - 1] = mail[p][i]
      BY <1>4, <2>1
    <2> QED
      BY <2>1, <2>2 DEF InMail
  <1>7. Last(p)' = Last(p)
    <2>1. mail'[p] \in Seq(Kinds \X (0 .. tokens)')
      BY DEF AccountTypes
    <2>2. CASE Len(mail[p]) = 1
      <3>1. mail'[p] = <<>>
        BY <1>4, <2>1, <2>2
      <3> QED
        BY <1>2, <1>3, <2>2, <3>1 DEF Last
    <2>3. CASE Len(mail[p]) # 1
      <3>0. PICK m \in Nat : m = Len(mail[p])
        BY <1>4
      <3>1. /\ Len(mail'[p]) = m - 1 /\ DOMAIN mail'[p] = 1 .. m - 1 /\ m - 1 \in 1 .. m - 1
            /\ Len(mail'[p]) + 1 = Len(mail[p]) /\ Len(mail'[p]) # 0
        <4>1. m > 0 /\ m # 1
          BY <1>4, <2>3, <3>0
        <4>2. m - 1 \in 1 .. m - 1 /\ (m - 1) + 1 = m /\ m - 1 # 0
          BY <4>1
        <4>3. Len(mail'[p]) = m - 1
          BY <1>4, <3>0
        <4>4. DOMAIN mail'[p] = 1 .. m - 1
          BY <1>4, <3>0
        <4> QED
          BY <3>0, <4>2, <4>3, <4>4
      <3>4. mail'[p] # <<>> /\ Len(mail'[p]) \in DOMAIN mail'[p]
        BY <3>1
      <3>2. mail'[p][Len(mail'[p])] = mail[p][Len(mail[p])]
        BY <1>4, <3>1, <3>4
      <3> QED
        BY <3>1, <3>2, <3>4 DEF Last
    <2> QED
      BY <2>2, <2>3
  <1> QED
    BY <1>1, <1>3, <1>4, <1>5, <1>6, <1>7

LEMMA ReceiveTokens ==
  ASSUME TokenInv, NEW p \in Conns, Receive(p)
  PROVE  TokenInv'
  <1>1. AccountTypes /\ AccountTypes' /\ Held /\ \A q \in Conns : ChainedTo(q) /\ (IsOpen(q) => Hears(q))
    BY ReceiveTypes DEF TokenInv
  <1>2. PICK t : t = Head(mail[p])[2]
    OBVIOUS
  <1>3. /\ IsOpen(p) /\ mail[p] # <<>> /\ mail' = [ mail EXCEPT ![p] = Tail(@) ]
        /\ wallet' = [ wallet EXCEPT ![Mine(p)] = Head(mail[p])[2] ]
        /\ link' = link \/ link' = [ link EXCEPT ![p] = "open" ]
        /\ UNCHANGED << who, token, email, call, late >>
        /\ forsaken' = IF Head(mail[p])[1] = "authenticated" THEN forsaken
                       ELSE forsaken \cup (Bearers(wallet[Mine(p)]) \ Bearers(t))
    BY <1>2 DEF Receive, userVars
  <1>4. /\ Last(p)' = Last(p) /\ wallet'[Mine(p)] = mail[p][1][2] /\ 1 \in DOMAIN mail[p]
        /\ \A i \in DOMAIN mail'[p] : /\ i + 1 \in DOMAIN mail[p] /\ mail'[p][i] = mail[p][i + 1]
                                     /\ Prev(p, i)' = Prev(p, i + 1)
        /\ \A i \in DOMAIN mail[p] : i = 1 \/ mail[p][i][2] \in InMail(p)'
        /\ \A q \in Conns : q # p => mail'[q] = mail[q]
        /\ \A c \in Clients : c # Mine(p) => wallet'[c] = wallet[c]
    BY <1>1, <1>3, Reads
  <1>5. Head(mail[p]) = mail[p][1] /\ mail[p][1][2] = t
    BY <1>1, <1>2, <1>3, Headed
  <1>6. Becomes(0) /\ forsaken \subseteq forsaken'
    BY <1>3, LessPlain
  <1>7. \A u \in UserIds, y \in Nat \ {0} : Coming(u, y)' => Coming(u, y)
    BY <1>3, SameComing
  <1>8. InMail(p)' \subseteq InMail(p) /\ t \in InMail(p) /\ \A q \in Conns : q # p => InMail(q)' = InMail(q)
    BY <1>4, <1>5 DEF InMail
  <1>9. \A y : Shown(y)' => Shown(y)
    <2>1. \A c \in Clients : wallet'[c] = wallet[c] \/ wallet'[c] = t
      BY <1>4, <1>5
    <2> QED
      BY <1>3, <1>8, <2>1 DEF Shown, Clients
  <1>10. ASSUME NEW q \in Conns, q # p PROVE ChainedTo(q)' /\ (IsOpen(q)' => Hears(q)')
    <2>1. IsOpen(q)' = IsOpen(q)
      BY <1>1, <1>3, <1>10 DEF IsOpen, AccountTypes
    <2>2. CASE Mine(q) = Mine(p)
      <3>1. ~IsOpen(q) /\ mail'[q] = <<>>
        BY <1>1, <1>3, <1>4, <1>10, <2>2 DEF AccountTypes
      <3> QED
        BY <2>1, <3>1 DEF ChainedTo
    <2>3. CASE Mine(q) # Mine(p)
      <3>1. wallet'[Mine(q)] = wallet[Mine(q)]
        BY <1>4, <2>3, MineIsClient
      <3>2. ChainedTo(q)' /\ (Hears(q) => Hears(q)')
        BY <1>1, <1>3, <1>4, <1>6, <1>10, <3>1, OthersHear
      <3> QED
        BY <1>1, <2>1, <3>2
    <2> QED
      BY <2>2, <2>3
  <1>11. ChainedTo(p)' /\ Hears(p)'
    <2>1. Hears(p)'
      BY <1>1, <1>3, <1>4, <1>6, HearsKept
    <2>2. ASSUME NEW i \in DOMAIN mail'[p], mail'[p][i][1] = "authenticated", NEW y, y = Prev(p, i)', NEW n, n = mail'[p][i][2]
          PROVE  Gone(y, n)'
      <3>1. y = Prev(p, i + 1) /\ Gone(y, n) /\ Shown(y)
        BY <1>1, <1>4, <2>2, MailShown DEF ChainedTo
      <3> QED
        BY <1>6, <3>1, KeepsShown
    <2> QED
      BY <2>1, <2>2 DEF ChainedTo
  <1>12. Held'
    <2> SUFFICES ASSUME NEW u \in UserIds, Plain(u), Plain(u)'
                 PROVE  /\ \A c \in Clients : wallet[c] = token[u] => \E d \in Clients : wallet'[d] = token[u]
                        /\ \A q \in Conns : token[u] \in InMail(q) =>
                             (\E d \in Clients : wallet'[d] = token[u]) \/ token[u] \in InMail(q)'
      BY <1>1, <1>3, <1>6, HeldStill
    <2>0. Mine(p) \in Clients /\ wallet'[Mine(p)] = t
      BY <1>4, <1>5, MineIsClient
    <2>1. ASSUME wallet[Mine(p)] = token[u] PROVE t = token[u]
      <3>1. CASE mail[p][1][1] = "authenticated"
        <4>1. Gone(Prev(p, 1), mail[p][1][2]) /\ Prev(p, 1) = wallet[Mine(p)]
          BY <1>1, <1>4, <3>1 DEF ChainedTo, Prev
        <4>2. wallet[Mine(p)] = t \/ Dead(wallet[Mine(p)])
          BY <1>5, <4>1 DEF Gone
        <4> QED
          BY <2>1, <4>2 DEF Dead
      <3>2. CASE mail[p][1][1] # "authenticated"
        <4>1. u \notin Bearers(wallet[Mine(p)]) \ Bearers(t)
          BY <1>3, <1>5, <3>2 DEF Plain
        <4>2. u \in Bearers(wallet[Mine(p)])
          BY <2>1 DEF Bearers, Plain
        <4> QED
          BY <4>1, <4>2 DEF Bearers
      <3> QED
        BY <3>1, <3>2
    <2>2. ASSUME token[u] \in InMail(p) PROVE t = token[u] \/ token[u] \in InMail(p)'
      <3>1. PICK i \in DOMAIN mail[p] : mail[p][i][2] = token[u]
        BY <2>2 DEF InMail
      <3> QED
        BY <1>4, <1>5, <3>1
    <2> QED
      BY <1>4, <1>8, <2>0, <2>1, <2>2
  <1>13. IsOpen(p)' => Hears(p)'
    BY <1>11
  <1>14. \A q \in Conns : ChainedTo(q)' /\ (IsOpen(q)' => Hears(q)')
    BY <1>10, <1>11
  <1> QED
    BY <1>1, <1>3, <1>6, <1>7, <1>9, <1>12, <1>14, StepTokens

LEMMA LateTokens ==
  ASSUME TokenInv, Late
  PROVE  TokenInv'
  <1>1. AccountTypes /\ AccountTypes' /\ Held /\ Stray /\ \A q \in Conns : ChainedTo(q) /\ (IsOpen(q) => Hears(q))
    BY LateTypes DEF TokenInv
  <1>2. PICK s \in late :
            /\ late' = late \ {s}
            /\ token' = IF s.insert THEN [ token EXCEPT ![s.id] = s.tok ] ELSE Updated(s.id, s.tok)
            /\ email' = IF s.insert THEN [ email EXCEPT ![s.id] = s.email ] ELSE email
    BY DEF Late
  <1>3. UNCHANGED << wallet, mail, who, call, forsaken, link >>
    BY DEF Late, linkVars
  <1>4. ASSUME NEW u \in UserIds, u # s.id PROVE token'[u] = token[u] /\ email'[u] = email[u]
    <2>1. token' = token \/ token' = [ token EXCEPT ![s.id] = s.tok ]
      BY <1>2 DEF Updated
    <2>2. email' = email \/ email' = [ email EXCEPT ![s.id] = s.email ]
      BY <1>2
    <2> QED
      BY <1>1, <1>4, <2>1, <2>2 DEF AccountTypes, UserTypes
  <1>5. ASSUME NEW u \in UserIds, u = s.id, Plain(u)' PROVE Plain(u) /\ token'[u] = token[u]
    <2>1. u \notin forsaken /\ token'[u] > 0 /\ email'[u] = "none"
      BY <1>3, <1>5 DEF Plain
    <2>2. CASE s.insert
      <3>1. token'[u] = s.tok /\ email'[u] = s.email
        BY <1>1, <1>2, <1>5, <2>2 DEF AccountTypes, UserTypes
      <3>2. s.tok # 0
        BY <2>1, <3>1
      <3> QED
        BY <1>1, <1>5, <2>1, <3>1, <3>2 DEF Stray
    <2>3. CASE ~s.insert
      <3>1. s.tok = 0
        BY <1>1, <1>5, <2>1, <2>3 DEF Stray
      <3>2. token' = token \/ token'[u] = s.tok
        BY <1>1, <1>2, <1>5, <2>3 DEF AccountTypes, UserTypes, Updated
      <3>3. token' = token /\ email' = email
        BY <1>2, <2>1, <2>3, <3>1, <3>2
      <3> QED
        BY <2>1, <3>3 DEF Plain
    <2> QED
      BY <2>2, <2>3
  <1>6. Becomes(0)
    <2>1. ASSUME NEW u \in UserIds, u # s.id, Plain(u)' PROVE Plain(u) /\ token'[u] = token[u]
      BY <1>3, <1>4, <2>1 DEF Plain
    <2> QED
      BY <1>5, <2>1 DEF Becomes
  <1>7. ASSUME NEW u \in UserIds, NEW t \in Nat \ {0}, Coming(u, t)' PROVE Coming(u, t)
    <2>1. CASE token'[u] = t
      <3>1. token' = token \/ token' = [ token EXCEPT ![s.id] = s.tok ]
        BY <1>2 DEF Updated
      <3>2. token'[u] = token[u] \/ (s.id = u /\ token'[u] = s.tok)
        BY <1>1, <3>1 DEF AccountTypes, UserTypes
      <3> QED
        BY <2>1, <3>2 DEF Coming
    <2>2. CASE token'[u] # t
      BY <1>2, <1>3, <1>7, <2>2 DEF Coming
    <2> QED
      BY <2>1, <2>2
  <1>8. \A q \in Conns : InMail(q)' = InMail(q) /\ IsOpen(q)' = IsOpen(q)
    BY <1>3 DEF InMail, IsOpen
  <1>9. \A t : Shown(t)' => Shown(t)
    BY <1>3, <1>8 DEF Shown, Clients
  <1>10. \A q \in Conns : ChainedTo(q)' /\ (IsOpen(q)' => Hears(q)')
    BY <1>1, <1>3, <1>6, <1>8, OthersHear
  <1>11. Held'
    BY <1>1, <1>3, <1>6, <1>8, HeldStill
  <1> QED
    BY <1>1, <1>2, <1>3, <1>6, <1>7, <1>9, <1>10, <1>11, StepTokens

LEMMA InitTokens == AccountsInit => TokenInv
  <1> SUFFICES ASSUME AccountsInit PROVE TokenInv
    OBVIOUS
  <1>1. AccountTypes /\ ids \in Nat
    BY InitTypes, Counts
  <1>2. ids <= 1
    BY AccountsAssumption DEF AccountsInit, AccountsAssumption
  <1>3. ASSUME NEW u \in UserIds PROVE ~Plain(u)
    <2>1. CASE u <= ids
      BY <2>1, AccountsAssumption DEF AccountsInit, Plain, AccountsAssumption
    <2>2. CASE ~(u <= ids)
      BY <2>2, NoTokens DEF AccountsInit, Plain
    <2> QED
      BY <2>1, <2>2
  <1>4. \A t : Dead(t) /\ \A w : Only(t, w)
    BY <1>3 DEF Dead, Only
  <1>5. OneComer
    <2>1. ASSUME NEW u \in UserIds, NEW t \in Nat \ {0}, Coming(u, t) PROVE u = 1
      <3>1. token[u] = t
        BY <2>1 DEF AccountsInit, NoCall, Coming
      <3>2. u <= ids
        BY <2>1, <3>1 DEF AccountsInit, NoRow
      <3> QED
        BY <1>1, <1>2, <3>2 DEF UserIds
    <2> QED
      BY <2>1 DEF OneComer
  <1>6. \A p \in Conns : call[p].at = "none" /\ DOMAIN mail[p] = {}
    BY DEF AccountsInit, NoCall
  <1>7. Reserved /\ Stray /\ \A p \in Conns : ChainedTo(p) /\ ~IsOpen(p)
    BY <1>6 DEF AccountsInit, Reserved, Stray, ChainedTo, IsOpen
  <1>8. Held
    BY <1>3 DEF Held
  <1> QED
    BY <1>1, <1>5, <1>7, <1>8 DEF TokenInv

LEMMA StepTokensKept == ASSUME TokenInv, AccountsNext \/ UNCHANGED accountVars PROVE TokenInv'
  <1>1. CASE \E p \in Conns : ClientStep(p)
    BY <1>1, OpenTokens, ReceiveTokens, CloseTokens DEF ClientStep
  <1>2. CASE \E p \in Conns : IdentityStep(p) \/ AccountStep(p)
    BY <1>2, HandlerTokens
  <1>3. CASE Late
    BY <1>3, LateTokens
  <1>4. CASE (\E e \in Emails : WindowEnds(e)) \/ UNCHANGED accountVars
    <2>1. UNCHANGED << wallet, link, mail, who, token, email, call, late, ids, tokens, forsaken >>
      BY <1>4 DEF WindowEnds, accountVars, linkVars, userVars, givenVars
    <2>2. AccountTypes'
      BY <2>1, SameTypes DEF TokenInv
    <2>3. \A q \in Conns : IsOpen(q)' = IsOpen(q)
      BY <2>1 DEF IsOpen
    <2> QED
      BY <2>1, <2>2, <2>3, SameTokens
  <1> QED
    BY <1>1, <1>2, <1>3, <1>4 DEF AccountsNext

(* An identity without an account is not lost (handle_authenticate,        *)
(* rotate_user_session, save_auth_token_async): when nothing about it is   *)
(* under way some client has its token, unless it went one of the ways     *)
(* that SomeoneHoldsToken names.                                           *)
THEOREM TokensAreHeld == AccountsSpec => []SomeoneHoldsToken
  <1>1. TokenInv /\ [AccountsNext]_accountVars => TokenInv'
    BY StepTokensKept
  <1>2. TokenInv => SomeoneHoldsToken
    <2> SUFFICES ASSUME TokenInv, NEW u \in UserIds \ forsaken, token[u] > 0, email[u] = "none", Settled(u)
                 PROVE  \E c \in Clients : wallet[c] = token[u]
      BY DEF SomeoneHoldsToken
    <2>1. HeldBySome(u)
      BY DEF TokenInv, Held, Plain
    <2>2. \A p \in Conns : call[p].id # u /\ DOMAIN mail[p] = {}
      BY DEF Settled
    <2> QED
      BY <2>1, <2>2 DEF HeldBySome, InMail, Answering
  <1> QED
    BY InitTokens, <1>1, <1>2, PTL DEF AccountsSpec
=============================================================================
