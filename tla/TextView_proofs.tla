-------------------------- MODULE TextView_proofs --------------------------
(***************************************************************************)
(* Proof about TextView, for any channels, friends, groups and spaces and  *)
(* any number of events: once all is quiet, a client that has settled on a *)
(* text channel shows what the server has.                                 *)
(***************************************************************************)
EXTENDS TextView, TLAPS

-----------------------------------------------------------------------------
(* Types. *)
Msgs == [ id : Nat, mine : BOOLEAN, edited : BOOLEAN, pinned : BOOLEAN, likes : Int ]

(* What is sent to the client. *)
Letters ==
    [ sig : { "selected" }, of : Talks, history : SUBSET Msgs ]
        \cup [ sig : { "posted" }, of : Talks, message : Msgs ]
        \cup [ sig : Touches, of : Talks, id : Nat ]
        \cup [ sig : { "gone" }, of : Boards ]
        \cup [ sig : { "joined" }, of : Places, list : SUBSET Boards ]
        \cup [ sig : { "made", "closed", "out" }, of : Places ]
        \cup [ sig : { "grouped" }, of : Groups ]
        \cup [ sig : { "unknown" } ]

Requests ==
    [ kind : { "select", "write" }, of : Talks ] \cup [ kind : Touches, of : Talks, id : Nat ]
        \cup [ kind : { "join", "create" }, of : Places ] \cup [ kind : { "leave", "group" }, of : { Nowhere } ]

Windows ==
    [ chat : BOOLEAN, space : Places \cup { Nowhere }, chan : Boards \cup Buddies \cup { Nowhere },
      direct : BOOLEAN, group : Groups \cup { Nowhere } ]

States ==
    [ chat : BOOLEAN, space : Places \cup { Nowhere }, known : SUBSET Boards,
      selected : Boards \cup { Nowhere }, direct : Buddies \cup { Nowhere },
      group : Groups \cup { Nowhere }, groups : SUBSET Groups, unread : SUBSET Talks ]

ServerTypes ==
    /\ nextId \in Nat /\ kept \in [ Talks -> SUBSET Msgs ]
    /\ places \subseteq Places /\ boards \subseteq Boards /\ groups \subseteq Groups
    /\ \A b \in boards : HomeOf[b] \in places
    /\ memberOf \subseteq Places /\ here \in memberOf \cup { Nowhere }

MailTypes == reply \in Letters \cup { NoReply } /\ news \subseteq Letters /\ lane \in Seq(Letters)

ClientTypes ==
    /\ win \in Windows /\ app \in States
    /\ win.chan \in (IF win.direct THEN Buddies ELSE Boards) \cup { Nowhere }
    /\ DOMAIN shown \subseteq Nat

TextTypes == ServerTypes /\ MailTypes /\ ClientTypes /\ asks \subseteq Requests

-----------------------------------------------------------------------------
(* Conversations, letters and requests. *)

LEMMA Boarded ==
  ASSUME NEW b
  PROVE  /\ Board(b)[1] = "board" /\ Board(b)[2] = b
         /\ \A c : Board(c) = Board(b) => c = b
         /\ \A x : Board(b) # << "direct", x >> /\ Board(b) # << "group", x >>
  BY DEF Board

LEMMA TalkKinds ==
  ASSUME NEW t \in Talks
  PROVE  /\ t[1] \in { "board", "direct", "group" }
         /\ t[1] = "board" => t[2] \in Boards /\ t = Board(t[2])
         /\ t[1] = "direct" => t[2] \in Buddies /\ t = << "direct", t[2] >>
         /\ t[1] = "group" => t[2] \in Groups /\ t = << "group", t[2] >>
  BY DEF Talks, Board

LEMMA TalksMade ==
  /\ \A b \in Boards : Board(b) \in Talks
  /\ \A x \in Buddies : << "direct", x >> \in Talks
  /\ \A g \in Groups : << "group", g >> \in Talks
  BY DEF Talks

LEMMA LetterKinds ==
  ASSUME NEW e \in Letters
  PROVE  /\ e # NoReply /\ e.sig # "none"
         /\ e.sig = "selected" => e.of \in Talks /\ e.history \subseteq Msgs
         /\ e.sig = "posted" => e.of \in Talks /\ e.message \in Msgs
         /\ e.sig \in Touches => e.of \in Talks /\ e.id \in Nat
         /\ e.sig = "gone" => e.of \in Boards
         /\ e.sig = "joined" => e.of \in Places /\ e.list \subseteq Boards
         /\ e.sig \in { "made", "closed", "out" } => e.of \in Places
         /\ e.sig = "grouped" => e.of \in Groups
  BY DEF Letters, NoReply, Touches

LEMMA RequestKinds ==
  ASSUME NEW a \in Requests
  PROVE  /\ a.kind \in { "select", "write" } => a.of \in Talks
         /\ a.kind \in Touches => a.of \in Talks /\ a.id \in Nat
         /\ a.kind \in { "join", "create" } => a.of \in Places
  BY DEF Requests, Touches

LEMMA AsksMade ==
  /\ \A t \in Talks : Ask("select", t) \in Requests /\ Ask("write", t) \in Requests
  /\ \A s \in Places : Ask("join", s) \in Requests /\ Ask("create", s) \in Requests
  /\ Ask("leave", Nowhere) \in Requests /\ Ask("group", Nowhere) \in Requests
  /\ \A t \in Talks, id \in Nat, how \in Touches : [ kind |-> how, of |-> t, id |-> id ] \in Requests
  BY DEF Ask, Requests

LEMMA MessageMade ==
  ASSUME NEW id \in Nat, NEW mine \in BOOLEAN
  PROVE  /\ Message(id, mine) \in Msgs /\ Message(id, mine).id = id /\ Message(id, mine).mine = mine
         /\ ~Message(id, mine).edited /\ ~Message(id, mine).pinned
  BY DEF Message, Msgs

LEMMA MessageTouched ==
  ASSUME NEW m \in Msgs, NEW how \in Touches \ { "delete" }
  PROVE  /\ Touched(m, how) \in Msgs /\ Touched(m, how).id = m.id /\ Touched(m, how).mine = m.mine
         /\ Touched(m, how).edited = (m.edited \/ how = "edit")
         /\ Touched(m, how).pinned = (m.pinned \/ how = "pin")
  <1>1. CASE how = "edit"
    BY <1>1 DEF Touched, Msgs
  <1>2. CASE how = "pin"
    BY <1>2 DEF Touched, Msgs
  <1>3. CASE how = "like"
    BY <1>3 DEF Touched, Msgs
  <1> QED
    BY <1>1, <1>2, <1>3 DEF Touches

-----------------------------------------------------------------------------
(* A list of messages against what the server has (K) and what is still to *)
(* come about the conversation (M): each entry is the server's message,    *)
(* but for an edit or a pin that is to come, or its deletion is to come.   *)
Posts(M) == { e.message : e \in { f \in M : f.sig = "posted" } }
Comes(sig, id, M) == \E e \in M : e.sig = sig /\ e.id = id

Likens(k, m, M) ==
    /\ k.id = m.id /\ k.mine = m.mine
    /\ (m.edited => k.edited) /\ (k.edited => m.edited \/ Comes("edit", m.id, M))
    /\ (m.pinned => k.pinned) /\ (k.pinned => m.pinned \/ Comes("pin", m.id, M))

Entry(m, K, M) == Comes("delete", m.id, M) \/ \E k \in K : Likens(k, m, M)

(* Entries, none of which is to come again. *)
Listed(D, K, M) ==
    /\ \A d \in D : Entry(d, K, M)
    /\ \A d \in D, x \in Posts(M) : d.id # x.id

(* What the server has is in the list or to come. *)
Found(k, D, M) == \E d \in D \cup Posts(M) : d.id = k.id

(* A change that is to come has been made. *)
Agreed(K, M) ==
    \A e \in M, k \in K :
        e.sig \in { "edit", "pin", "delete" } /\ e.id = k.id =>
            e.sig # "delete" /\ (e.sig = "edit" => k.edited) /\ (e.sig = "pin" => k.pinned)

Distinct(K) == \A k, m \in K : k.id = m.id => k = m
Below(D, next) == \A d \in D : d.id < next

(* What a step of the server does to a conversation: nothing; a message is *)
(* stored and its letter written; or one is changed and its letter written.*)
Letter(t, how, id) == [ sig |-> how, of |-> t, id |-> id ]
Replaced(K, x, how) == (K \ { x }) \cup (IF how = "delete" THEN {} ELSE { Touched(x, how) })

StoredOne(t, K, M, K2, M2, x) == K2 = K \cup { x } /\ M2 = M \cup { Posted(t, x) }
TouchedOne(t, K, M, K2, M2, x, how) == K2 = Replaced(K, x, how) /\ M2 = M \cup { Letter(t, how, x.id) }

Moves(t, K, M, K2, M2, next) ==
    \/ K2 = K /\ M2 = M
    \/ \E x \in Msgs : x.id = next /\ StoredOne(t, K, M, K2, M2, x)
    \/ \E x \in K, how \in Touches : TouchedOne(t, K, M, K2, M2, x, how)

LEMMA LetterPosted ==
  ASSUME NEW t, NEW x
  PROVE  /\ Posted(t, x).sig = "posted" /\ Posted(t, x).of = t /\ Posted(t, x).message = x
  BY DEF Posted

LEMMA LetterTouch ==
  ASSUME NEW t, NEW how, NEW id
  PROVE  /\ Letter(t, how, id).sig = how /\ Letter(t, how, id).of = t /\ Letter(t, how, id).id = id
  BY DEF Letter

LEMMA TouchesAre == Touches = { "edit", "pin", "like", "delete" }
  BY DEF Touches

LEMMA PostsAre ==
  ASSUME NEW M, NEW m
  PROVE  m \in Posts(M) <=> \E e \in M : e.sig = "posted" /\ e.message = m
  BY DEF Posts

LEMMA PostsPosted ==
  ASSUME NEW M, NEW t, NEW x
  PROVE  Posts(M \cup { Posted(t, x) }) = Posts(M) \cup { x }
  <1> SUFFICES ASSUME NEW m PROVE m \in Posts(M \cup { Posted(t, x) }) <=> m \in Posts(M) \/ m = x
    OBVIOUS
  <1> QED
    BY PostsAre, LetterPosted

LEMMA PostsTouch ==
  ASSUME NEW M, NEW t, NEW how \in Touches, NEW id
  PROVE  Posts(M \cup { Letter(t, how, id) }) = Posts(M)
  <1> SUFFICES ASSUME NEW m PROVE m \in Posts(M \cup { Letter(t, how, id) }) <=> m \in Posts(M)
    OBVIOUS
  <1> QED
    BY PostsAre, LetterTouch, TouchesAre

LEMMA PostsGrow ==
  ASSUME NEW M, NEW N, M \subseteq N
  PROVE  Posts(M) \subseteq Posts(N)
  BY DEF Posts

LEMMA EntryGrows ==
  ASSUME NEW K, NEW M, NEW K2, NEW M2, NEW d, K \subseteq K2, M \subseteq M2, Entry(d, K, M)
  PROVE  Entry(d, K2, M2)
  BY DEF Entry, Likens, Comes

(* A letter about another message, or one nobody waits for, may go. *)
LEMMA EntryWithout ==
  ASSUME NEW K, NEW M, NEW N, NEW d, NEW e, M \subseteq N \cup { e }, Entry(d, K, M),
         e.sig \in Touches => e.id # d.id \/ e.sig = "like"
  PROVE  Entry(d, K, N)
  <1>1. \A sig \in { "edit", "pin", "delete" } : Comes(sig, d.id, M) => Comes(sig, d.id, N)
    BY DEF Comes, Touches
  <1> QED
    BY <1>1 DEF Entry, Likens

LEMMA EntryTouched ==
  ASSUME NEW t, NEW K \in SUBSET Msgs, NEW M, NEW x \in K, NEW how \in Touches, NEW d, Entry(d, K, M)
  PROVE  Entry(d, Replaced(K, x, how), M \cup { Letter(t, how, x.id) })
  <1> DEFINE N == M \cup { Letter(t, how, x.id) }
  <1>1. CASE Comes("delete", d.id, M)
    BY <1>1 DEF Entry, Comes
  <1>2. CASE \E k \in K : Likens(k, d, M)
    <2>1. PICK k \in K : Likens(k, d, M)
      BY <1>2
    <2>2. CASE k # x
      <3>1. k \in Replaced(K, x, how)
        BY <2>2 DEF Replaced
      <3> QED
        BY <2>1, <3>1 DEF Entry, Likens, Comes
    <2>3. CASE k = x /\ how = "delete"
      <3>1. Comes("delete", d.id, N)
        BY <2>1, <2>3, LetterTouch DEF Comes, Likens
      <3> QED
        BY <3>1 DEF Entry
    <2>4. CASE k = x /\ how # "delete"
      <3> DEFINE y == Touched(x, how)
      <3>1. y \in Replaced(K, x, how)
        BY <2>4 DEF Replaced
      <3>2. y.id = x.id /\ y.mine = x.mine /\ y.edited = (x.edited \/ how = "edit")
            /\ y.pinned = (x.pinned \/ how = "pin")
        BY <2>4, MessageTouched
      <3>3. /\ \A sig : Comes(sig, d.id, M) => Comes(sig, d.id, N)
            /\ Comes(how, d.id, N)
        BY <2>1, <2>4, LetterTouch DEF Comes, Likens
      <3>4. Likens(y, d, N)
        BY <2>1, <2>4, <3>2, <3>3 DEF Likens
      <3> QED
        BY <3>1, <3>4 DEF Entry
    <2> QED
      BY <2>2, <2>3, <2>4
  <1> QED
    BY <1>1, <1>2 DEF Entry

LEMMA ReplacedIds ==
  ASSUME NEW K \in SUBSET Msgs, NEW x \in K, NEW how \in Touches, Distinct(K)
  PROVE  /\ \A k \in Replaced(K, x, how) : \/ k = Touched(x, how) /\ k.id = x.id /\ how # "delete"
                                           \/ k \in K /\ k.id # x.id
         /\ \A k \in K : k = x \/ k \in Replaced(K, x, how)
         /\ Replaced(K, x, how) \subseteq Msgs
  <1>1. how # "delete" => Touched(x, how) \in Msgs /\ Touched(x, how).id = x.id
    BY MessageTouched
  <1> QED
    BY <1>1 DEF Replaced, Distinct

LEMMA MovesEntry ==
  ASSUME NEW t, NEW K \in SUBSET Msgs, NEW M, NEW K2, NEW M2, NEW next,
         Moves(t, K, M, K2, M2, next), NEW d, Entry(d, K, M)
  PROVE  Entry(d, K2, M2)
  <1>1. CASE K \subseteq K2 /\ M \subseteq M2
    BY <1>1, EntryGrows
  <1>2. CASE \E x \in K, how \in Touches : TouchedOne(t, K, M, K2, M2, x, how)
    BY <1>2, EntryTouched DEF TouchedOne
  <1> QED
    BY <1>1, <1>2 DEF Moves, StoredOne

LEMMA MovesPosts ==
  ASSUME NEW t, NEW K, NEW M, NEW K2, NEW M2, NEW next \in Nat, Moves(t, K, M, K2, M2, next)
  PROVE  /\ \A m \in Posts(M2) : m \in Posts(M) \/ (m.id = next /\ m \in K2 /\ m \in Msgs)
         /\ Posts(M) \subseteq Posts(M2)
  <1>1. CASE \E x \in K, how \in Touches : TouchedOne(t, K, M, K2, M2, x, how)
    BY <1>1, PostsTouch DEF TouchedOne
  <1>2. CASE \E x \in Msgs : x.id = next /\ StoredOne(t, K, M, K2, M2, x)
    <2>1. PICK x \in Msgs : x.id = next /\ StoredOne(t, K, M, K2, M2, x)
      BY <1>2
    <2> QED
      BY <2>1, PostsPosted DEF StoredOne
  <1> QED
    BY <1>1, <1>2 DEF Moves

LEMMA MovesListed ==
  ASSUME NEW t, NEW K \in SUBSET Msgs, NEW M, NEW K2, NEW M2, NEW next \in Nat,
         Moves(t, K, M, K2, M2, next), NEW D, Listed(D, K, M), Below(D, next), D \subseteq Msgs
  PROVE  Listed(D, K2, M2)
  <1>1. \A d \in D : Entry(d, K2, M2)
    BY MovesEntry DEF Listed
  <1>2. \A d \in D : d.id # next
    BY DEF Below, Msgs
  <1> QED
    BY <1>1, <1>2, MovesPosts DEF Listed

LEMMA MovesFound ==
  ASSUME NEW t, NEW K \in SUBSET Msgs, NEW M, NEW K2, NEW M2, NEW next \in Nat,
         Moves(t, K, M, K2, M2, next), Distinct(K), NEW D, NEW k \in K2
  PROVE  \/ Found(k, D, M2)
         \/ \E m \in K : m.mine = k.mine /\ (Found(m, D, M) => Found(k, D, M2))
  <1>0. \A m : m.id = k.id /\ Found(m, D, M) => Found(k, D, M2)
    BY MovesPosts DEF Found
  <1>1. CASE k \in K
    BY <1>0, <1>1
  <1>2. CASE \E x \in Msgs : x.id = next /\ StoredOne(t, K, M, K2, M2, x)
    <2>1. PICK x \in Msgs : StoredOne(t, K, M, K2, M2, x)
      BY <1>2
    <2>2. x \in Posts(M2)
      BY <2>1, PostsPosted DEF StoredOne
    <2>3. CASE k = x
      BY <2>2, <2>3 DEF Found
    <2> QED
      BY <1>1, <2>1, <2>3 DEF StoredOne
  <1>3. CASE \E x \in K, how \in Touches : TouchedOne(t, K, M, K2, M2, x, how)
    <2>1. PICK x \in K, how \in Touches : TouchedOne(t, K, M, K2, M2, x, how)
      BY <1>3
    <2>2. k \in K \/ (k = Touched(x, how) /\ how # "delete")
      BY <2>1, ReplacedIds DEF TouchedOne
    <2>3. CASE k = Touched(x, how) /\ how # "delete"
      <3>1. k.id = x.id /\ k.mine = x.mine
        BY <2>1, <2>3, MessageTouched
      <3> QED
        BY <1>0, <3>1
    <2> QED
      BY <1>1, <2>2, <2>3
  <1> QED
    BY <1>1, <1>2, <1>3 DEF Moves

LEMMA MovesAgreed ==
  ASSUME NEW t, NEW K \in SUBSET Msgs, NEW M, NEW K2, NEW M2, NEW next \in Nat,
         Moves(t, K, M, K2, M2, next), Distinct(K), Below(K, next), Agreed(K, M),
         \A e \in M : e.sig \in Touches => e.id \in Nat /\ e.id < next
  PROVE  Agreed(K2, M2)
  <1>1. CASE K2 = K /\ M2 = M
    BY <1>1
  <1>2. CASE \E x \in Msgs : x.id = next /\ StoredOne(t, K, M, K2, M2, x)
    <2>1. PICK x \in Msgs : x.id = next /\ StoredOne(t, K, M, K2, M2, x)
      BY <1>2
    <2>2. \A e \in M2 : e.sig \in { "edit", "pin", "delete" } => e \in M /\ e.id # x.id
      BY <2>1, LetterPosted, TouchesAre DEF StoredOne
    <2> QED
      BY <2>1, <2>2 DEF Agreed, StoredOne
  <1>3. CASE \E x \in K, how \in Touches : TouchedOne(t, K, M, K2, M2, x, how)
    <2>1. PICK x \in K, how \in Touches : TouchedOne(t, K, M, K2, M2, x, how)
      BY <1>3
    <2> DEFINE l == Letter(t, how, x.id)
               y == Touched(x, how)
    <2> SUFFICES ASSUME NEW e \in M2, NEW k \in K2, e.sig \in { "edit", "pin", "delete" }, e.id = k.id
                 PROVE  e.sig # "delete" /\ (e.sig = "edit" => k.edited) /\ (e.sig = "pin" => k.pinned)
      BY DEF Agreed
    <2>2. e \in M \/ (e = l /\ e.sig = how /\ e.id = x.id)
      BY <2>1, LetterTouch DEF TouchedOne
    <2>3. \/ k = y /\ k.id = x.id /\ how # "delete"
          \/ k \in K /\ k.id # x.id
      BY <2>1, ReplacedIds DEF TouchedOne
    <2>4. how # "delete" => y.edited = (x.edited \/ how = "edit") /\ y.pinned = (x.pinned \/ how = "pin")
      BY MessageTouched
    <2>5. e \in M /\ e.id = x.id =>
              e.sig # "delete" /\ (e.sig = "edit" => x.edited) /\ (e.sig = "pin" => x.pinned)
      BY DEF Agreed
    <2>6. CASE k = y /\ k.id = x.id /\ how # "delete" /\ e \in M
      BY <2>4, <2>5, <2>6
    <2>7. CASE k = y /\ how # "delete" /\ e.sig = how
      BY <2>4, <2>7
    <2>8. CASE k \in K /\ k.id # x.id
      <3>1. e \in M
        BY <2>2, <2>8
      <3> QED
        BY <2>8, <3>1 DEF Agreed
    <2> QED
      BY <2>2, <2>3, <2>6, <2>7, <2>8
  <1> QED
    BY <1>1, <1>2, <1>3 DEF Moves

LEMMA MovesKept ==
  ASSUME NEW t, NEW K \in SUBSET Msgs, NEW M, NEW K2, NEW M2, NEW next \in Nat,
         Moves(t, K, M, K2, M2, next), Distinct(K), Below(K, next)
  PROVE  K2 \in SUBSET Msgs /\ Distinct(K2) /\ (Below(K2, next) \/ Below(K2, next + 1))
  <1>0. \A k \in K : k.id \in Nat /\ k.id < next
    BY DEF Below, Msgs
  <1>1. CASE K2 = K
    BY <1>1
  <1>2. CASE \E x \in Msgs : x.id = next /\ StoredOne(t, K, M, K2, M2, x)
    BY <1>0, <1>2 DEF StoredOne, Distinct, Below
  <1>3. CASE \E x \in K, how \in Touches : TouchedOne(t, K, M, K2, M2, x, how)
    <2>1. PICK x \in K, how \in Touches : TouchedOne(t, K, M, K2, M2, x, how)
      BY <1>3
    <2>2. /\ \A k \in K2 : (k = Touched(x, how) /\ k.id = x.id) \/ (k \in K /\ k.id # x.id)
          /\ K2 \subseteq Msgs
      BY <2>1, ReplacedIds DEF TouchedOne
    <2> QED
      BY <1>0, <2>2 DEF Distinct, Below
  <1> QED
    BY <1>1, <1>2, <1>3 DEF Moves

(* What reading a letter does to a list: M is what is to come, N what is   *)
(* left of it.                                                             *)
LEMMA CopyListed ==
  ASSUME NEW K, Distinct(K)
  PROVE  Listed(K, K, {}) /\ \A k \in K : Found(k, K, {})
  <1>1. \A k \in K : Entry(k, K, {})
    <2> SUFFICES ASSUME NEW k \in K PROVE Entry(k, K, {})
      OBVIOUS
    <2>1. Likens(k, k, {})
      BY DEF Likens
    <2> QED
      BY <2>1 DEF Entry
  <1>2. Posts({}) = {}
    BY DEF Posts
  <1> QED
    BY <1>1, <1>2 DEF Listed, Found

(* N is what is left of M.  A letter leaves the rows alone; touches those  *)
(* of a message; removes them.                                             *)
Rest(e, M, N) == e \in M /\ N \subseteq M /\ M \subseteq N \cup { e }

Apart(D, e) ==
    \/ e.sig = "posted"
    \/ e.sig \in Touches /\ \A d \in D : e.id # d.id \/ e.sig = "like"

Redone(D, e, D2) ==
    /\ \A d2 \in D2 : \E d \in D :
         /\ d2.id = d.id /\ d2.mine = d.mine /\ (d.id # e.id => d2 = d)
         /\ d.id = e.id => /\ d2.edited = (d.edited \/ e.sig = "edit")
                           /\ d2.pinned = (d.pinned \/ e.sig = "pin")
    /\ \A d \in D : \E d2 \in D2 : d2.id = d.id

Without(D, id) == { d \in D : d.id # id }

LEMMA ReadNothing ==
  ASSUME NEW D, NEW K, NEW M, NEW N, NEW e, Rest(e, M, N), Listed(D, K, M), Apart(D, e)
  PROVE  /\ Listed(D, K, N)
         /\ \A k : Found(k, D, M) => Found(k, D, N) \/ (e.sig = "posted" /\ e.message.id = k.id)
  <1> USE DEF Rest
  <1>0. e.sig \in Touches \cup { "posted" } /\ \A d \in D : e.sig \in Touches => e.id # d.id \/ e.sig = "like"
    BY TouchesAre DEF Apart
  <1>1. \A d \in D : Entry(d, K, N)
    BY <1>0, EntryWithout DEF Listed
  <1>2. \A m \in Posts(M) : m \in Posts(N) \/ (e.sig = "posted" /\ e.message = m)
    BY PostsAre
  <1>3. Posts(N) \subseteq Posts(M)
    BY PostsGrow
  <1> QED
    BY <1>1, <1>2, <1>3 DEF Listed, Found

LEMMA ReadPosted ==
  ASSUME NEW D, NEW K, NEW M, NEW N, NEW e, Rest(e, M, N), Listed(D, K, M),
         e.sig = "posted", Entry(e.message, K, N), \A x \in Posts(N) : x.id # e.message.id
  PROVE  /\ Listed(D \cup { e.message }, K, N) /\ \A d \in D : d.id # e.message.id
         /\ \A k : Found(k, D, M) => Found(k, D \cup { e.message }, N)
  <1> USE DEF Rest
  <1>1. e.sig \notin Touches
    BY TouchesAre
  <1>2. \A d \in D : Entry(d, K, N)
    BY <1>1, EntryWithout DEF Listed
  <1>3. \A m \in Posts(M) : m \in Posts(N) \/ e.message = m
    BY PostsAre
  <1>4. Posts(N) \subseteq Posts(M) /\ e.message \in Posts(M)
    BY PostsGrow, PostsAre
  <1> QED
    BY <1>2, <1>3, <1>4 DEF Listed, Found

LEMMA EntryRead ==
  ASSUME NEW K, NEW M, NEW N, NEW e \in M, M \subseteq N \cup { e }, Agreed(K, M),
         NEW d, Entry(d, K, M), e.id = d.id, e.sig \in { "edit", "pin", "like" },
         NEW d2, d2.id = d.id, d2.mine = d.mine,
         d2.edited = (d.edited \/ e.sig = "edit"), d2.pinned = (d.pinned \/ e.sig = "pin")
  PROVE  Entry(d2, K, N)
  <1>1. Comes("delete", d.id, M) => Comes("delete", d2.id, N)
    BY DEF Comes
  <1>2. ASSUME NEW k \in K, Likens(k, d, M)
        PROVE  Likens(k, d2, N)
    <2>1. (e.sig = "edit" => k.edited) /\ (e.sig = "pin" => k.pinned)
      BY <1>2 DEF Likens, Agreed
    <2>2. /\ Comes("edit", d.id, M) => Comes("edit", d2.id, N) \/ d2.edited
          /\ Comes("pin", d.id, M) => Comes("pin", d2.id, N) \/ d2.pinned
      BY DEF Comes
    <2> QED
      BY <1>2, <2>1, <2>2 DEF Likens
  <1> QED
    BY <1>1, <1>2 DEF Entry

LEMMA ReadTouch ==
  ASSUME NEW D, NEW K, NEW M, NEW N, NEW e, NEW D2, Rest(e, M, N), Listed(D, K, M), Agreed(K, M),
         Redone(D, e, D2), e.sig \in { "edit", "pin", "like" }
  PROVE  Listed(D2, K, N) /\ \A k : Found(k, D, M) => Found(k, D2, N)
  <1> USE DEF Rest, Redone
  <1>0. Posts(M) = Posts(N)
    <2> SUFFICES ASSUME NEW m PROVE m \in Posts(M) <=> m \in Posts(N)
      OBVIOUS
    <2> QED
      BY PostsAre
  <1>1. ASSUME NEW d2 \in D2
        PROVE  Entry(d2, K, N)
    <2>1. PICK d \in D : /\ d2.id = d.id /\ d2.mine = d.mine /\ (d.id # e.id => d2 = d)
                         /\ d.id = e.id => /\ d2.edited = (d.edited \/ e.sig = "edit")
                                           /\ d2.pinned = (d.pinned \/ e.sig = "pin")
      OBVIOUS
    <2>2. Entry(d, K, M)
      BY DEF Listed
    <2>3. CASE d.id = e.id
      BY <2>1, <2>2, <2>3, EntryRead
    <2>4. CASE d.id # e.id
      BY <2>1, <2>2, <2>4, EntryWithout
    <2> QED
      BY <2>3, <2>4
  <1> QED
    BY <1>0, <1>1 DEF Listed, Found

LEMMA ReadDelete ==
  ASSUME NEW D, NEW K, NEW M, NEW N, NEW e, Rest(e, M, N), Listed(D, K, M), Agreed(K, M), e.sig = "delete"
  PROVE  /\ Listed(Without(D, e.id), K, N)
         /\ \A k \in K : Found(k, D, M) => Found(k, Without(D, e.id), N)
  <1> USE DEF Rest, Without
  <1>0. Posts(M) = Posts(N)
    <2> SUFFICES ASSUME NEW m PROVE m \in Posts(M) <=> m \in Posts(N)
      OBVIOUS
    <2> QED
      BY PostsAre
  <1>1. \A k \in K : k.id # e.id
    BY DEF Agreed
  <1>2. \A d \in D : d.id # e.id => Entry(d, K, N)
    BY EntryWithout DEF Listed
  <1> QED
    BY <1>0, <1>1, <1>2 DEF Listed, Found

-----------------------------------------------------------------------------
(* What the client has not read past position p of the lane, and what of   *)
(* it is about the messages of conversation t.                             *)
Mail(p) == { lane[i] : i \in p + 1 .. Len(lane) } \cup news \cup ({ reply } \ { NoReply })
Matters(e, t) == e.sig \in Touches \cup { "posted" } /\ e.of = t
Due(t, p) == { e \in Mail(p) : Matters(e, t) }

LEMMA MailAre ==
  ASSUME MailTypes, NEW p \in Nat
  PROVE  /\ Mail(p) \subseteq Letters
         /\ \A i \in 1 .. Len(lane) : lane[i] \in Letters /\ (i > p => lane[i] \in Mail(p))
         /\ \A e : e \in Mail(p) <=> \/ \E i \in 1 .. Len(lane) : i > p /\ e = lane[i]
                                     \/ e \in news
                                     \/ e = reply /\ reply # NoReply
  <1>1. \A i \in 1 .. Len(lane) : lane[i] \in Letters
    BY DEF MailTypes
  <1>2. Len(lane) \in Nat
    BY DEF MailTypes
  <1>3. \A i : i \in p + 1 .. Len(lane) <=> i \in 1 .. Len(lane) /\ i > p
    BY <1>2
  <1>4. \A e : e \in Mail(p) <=> \/ \E i \in 1 .. Len(lane) : i > p /\ e = lane[i]
                                 \/ e \in news
                                 \/ e = reply /\ reply # NoReply
    BY <1>3 DEF Mail
  <1> QED
    BY <1>1, <1>4 DEF MailTypes

LEMMA MailGrows ==
  ASSUME NEW p \in Nat, NEW q \in Nat, p <= q, MailTypes
  PROVE  Mail(q) \subseteq Mail(p) /\ \A t : Due(t, q) \subseteq Due(t, p)
  <1>1. \A i \in 1 .. Len(lane) : i > q => i > p
    BY DEF MailTypes
  <1>2. Mail(q) \subseteq Mail(p)
    BY <1>1, MailAre
  <1> QED
    BY <1>2 DEF Due

(* A letter is written: the client's handler holds it, or one of another's.*)
Tells(e) ==
    /\ lane' = lane
    /\ \/ reply = NoReply /\ reply' = e /\ news' = news
       \/ reply' = reply /\ news' = news \cup { e }

LEMMA MailSame ==
  ASSUME UNCHANGED << lane, news, reply >>
  PROVE  \A p : Mail(p)' = Mail(p) /\ \A t : Due(t, p)' = Due(t, p)
  BY DEF Mail, Due

LEMMA MailTold ==
  ASSUME NEW e \in Letters, Tells(e)
  PROVE  \A p : Mail(p)' = Mail(p) \cup { e }
  <1> SUFFICES ASSUME NEW p PROVE Mail(p)' = Mail(p) \cup { e }
    OBVIOUS
  <1>1. e # NoReply
    BY LetterKinds
  <1> QED
    BY <1>1 DEF Tells, Mail

LEMMA MailAnswer ==
  ASSUME MailTypes, Answer, NEW n, n = Len(lane)
  PROVE  /\ Len(lane') = Len(lane) + 1 /\ reply \in Letters /\ lane'[Len(lane) + 1] = reply
         /\ \A i \in 1 .. Len(lane) : lane'[i] = lane[i]
         /\ \A p \in 0 .. Len(lane) : Mail(p)' = Mail(p) /\ \A t : Due(t, p)' = Due(t, p)
         /\ Mail(n + 1)' = news
         /\ MailTypes'
  <1>1. /\ reply \in Letters /\ reply' = NoReply /\ lane' = Append(lane, reply) /\ news' = news /\ n \in Nat
        /\ reply # NoReply
    BY DEF MailTypes, Answer
  <1>2. /\ Len(lane') = n + 1 /\ lane'[n + 1] = reply /\ \A i \in 1 .. n : lane'[i] = lane[i]
        /\ lane' \in Seq(Letters)
    BY <1>1 DEF MailTypes
  <1>3. MailTypes'
    BY <1>1, <1>2 DEF MailTypes
  <1>4. ASSUME NEW p \in 0 .. n PROVE Mail(p)' = Mail(p)
    <2>0. p \in Nat /\ p < n + 1 /\ \A i : i \in 1 .. n + 1 <=> i \in 1 .. n \/ i = n + 1
      BY <1>1
    <2>1. \A e : e \in Mail(p)' <=> \/ \E i \in 1 .. n + 1 : i > p /\ e = lane'[i]
                                    \/ e \in news
      <3>1. \A e : e \in Mail(p)' <=> \/ \E i \in p + 1 .. n + 1 : e = lane'[i]
                                      \/ e \in news
        BY <1>1, <1>2 DEF Mail
      <3>2. \A i : i \in p + 1 .. n + 1 <=> i \in 1 .. n + 1 /\ i > p
        BY <1>1
      <3> QED
        BY <3>1, <3>2
    <2>2. \A e : e \in Mail(p) <=> \/ \E i \in 1 .. n : i > p /\ e = lane[i]
                                   \/ e \in news \/ e = reply
      BY <1>1, <2>0, MailAre
    <2> QED
      BY <1>2, <2>0, <2>1, <2>2
  <1>5. Mail(n + 1)' = news
    BY <1>1, <1>2 DEF Mail
  <1> QED
    BY <1>1, <1>2, <1>3, <1>4, <1>5 DEF Due

LEMMA MailBroadcast ==
  ASSUME MailTypes, NEW e \in news, Broadcast(e), NEW n, n = Len(lane)
  PROVE  /\ e \in Letters /\ MailTypes'
         /\ \A i \in 1 .. Len(lane) : lane'[i] = lane[i]
         /\ Addressed(e) =>
              /\ Len(lane') = Len(lane) + 1 /\ lane'[Len(lane) + 1] = e
              /\ \A p \in 0 .. Len(lane) : Mail(p)' = Mail(p) /\ \A t : Due(t, p)' = Due(t, p)
              /\ Mail(n + 1)' = (news \ { e }) \cup ({ reply } \ { NoReply })
         /\ ~Addressed(e) =>
              /\ lane' = lane
              /\ \A p \in 0 .. Len(lane) : Mail(p)' \subseteq Mail(p) /\ Mail(p) \subseteq Mail(p)' \cup { e }
  <1>1. /\ e \in Letters /\ reply' = reply /\ news' = news \ { e } /\ n \in Nat
        /\ lane' = (IF Addressed(e) THEN Append(lane, e) ELSE lane)
    BY DEF MailTypes, Broadcast
  <1>2. Addressed(e) => /\ Len(lane') = n + 1 /\ lane'[n + 1] = e /\ \A i \in 1 .. n : lane'[i] = lane[i]
                        /\ lane' \in Seq(Letters)
    BY <1>1 DEF MailTypes
  <1>3. MailTypes'
    BY <1>1, <1>2 DEF MailTypes
  <1>4. CASE Addressed(e)
    <2>1. ASSUME NEW p \in 0 .. n PROVE Mail(p)' = Mail(p)
      <3>0. p \in Nat /\ p < n + 1 /\ \A i : i \in 1 .. n + 1 <=> i \in 1 .. n \/ i = n + 1
        BY <1>1
      <3>1. \A f : f \in Mail(p)' <=> \/ \E i \in 1 .. n + 1 : i > p /\ f = lane'[i]
                                      \/ f \in news \ { e }
                                      \/ f = reply /\ reply # NoReply
        <4>1. \A f : f \in Mail(p)' <=> \/ \E i \in p + 1 .. n + 1 : f = lane'[i]
                                        \/ f \in news \ { e }
                                        \/ f = reply /\ reply # NoReply
          BY <1>1, <1>2, <1>4 DEF Mail
        <4>2. \A i : i \in p + 1 .. n + 1 <=> i \in 1 .. n + 1 /\ i > p
          BY <1>1
        <4> QED
          BY <4>1, <4>2
      <3>2. \A f : f \in Mail(p) <=> \/ \E i \in 1 .. n : i > p /\ f = lane[i]
                                     \/ f \in news
                                     \/ f = reply /\ reply # NoReply
        BY <1>1, <3>0, MailAre
      <3> QED
        BY <1>2, <1>4, <3>0, <3>1, <3>2
    <2>2. Mail(n + 1)' = (news \ { e }) \cup ({ reply } \ { NoReply })
      BY <1>1, <1>2, <1>4 DEF Mail
    <2> QED
      BY <1>1, <1>2, <1>3, <1>4, <2>1, <2>2 DEF Due
  <1>5. CASE ~Addressed(e)
    <2>1. lane' = lane
      BY <1>1, <1>5
    <2>2. \A p : Mail(p)' \subseteq Mail(p) /\ Mail(p) \subseteq Mail(p)' \cup { e }
      BY <1>1, <2>1 DEF Mail
    <2> QED
      BY <1>1, <1>3, <1>5, <2>1, <2>2
  <1> QED
    BY <1>4, <1>5

LEMMA MailReceive ==
  ASSUME MailTypes, lane # << >>, lane' = Tail(lane), UNCHANGED << news, reply >>
  PROVE  /\ MailTypes' /\ Head(lane) \in Letters /\ Head(lane) = lane[1] /\ Len(lane) \in Nat \ { 0 }
         /\ Len(lane') = Len(lane) - 1
         /\ \A i \in 1 .. Len(lane) - 1 : lane'[i] = lane[i + 1]
         /\ \A p \in Nat : Mail(p)' = Mail(p + 1) /\ \A t : Due(t, p)' = Due(t, p + 1)
         /\ Mail(0) = { Head(lane) } \cup Mail(1)
         /\ \A t : Due(t, 0) = (IF Matters(Head(lane), t) THEN { Head(lane) } ELSE {}) \cup Due(t, 1)
  <1> DEFINE n == Len(lane)
  <1>1. /\ n \in Nat \ { 0 } /\ Head(lane) = lane[1] /\ lane[1] \in Letters
        /\ Len(lane') = n - 1 /\ lane' \in Seq(Letters)
        /\ \A i \in 1 .. n - 1 : lane'[i] = lane[i + 1]
    BY DEF MailTypes
  <1>2. MailTypes'
    BY <1>1 DEF MailTypes
  <1>3. ASSUME NEW p \in Nat PROVE Mail(p)' = Mail(p + 1)
    <2>2. { lane'[i] : i \in p + 1 .. n - 1 } = { lane[i] : i \in p + 2 .. n }
      <3>1. \A i \in p + 1 .. n - 1 : lane'[i] = lane[i + 1] /\ i + 1 \in p + 2 .. n
        BY <1>1
      <3>2. \A j \in p + 2 .. n : j - 1 \in p + 1 .. n - 1 /\ lane[j] = lane'[j - 1]
        BY <1>1
      <3> DEFINE A == { lane'[i] : i \in p + 1 .. n - 1 }
                 B == { lane[i] : i \in p + 2 .. n }
      <3>3. A \subseteq B
        BY <3>1
      <3>4. B \subseteq A
        BY <3>2
      <3> HIDE DEF A, B
      <3>5. A = B
        BY <3>3, <3>4
      <3> QED
        BY <3>5 DEF A, B
    <2>3. p + 1 + 1 = p + 2
      OBVIOUS
    <2>4. /\ Mail(p)' = { lane'[i] : i \in p + 1 .. n - 1 } \cup news \cup ({ reply } \ { NoReply })
          /\ Mail(p + 1) = { lane[i] : i \in p + 2 .. n } \cup news \cup ({ reply } \ { NoReply })
      BY <1>1, <2>3 DEF Mail
    <2> QED
      BY <2>2, <2>4
  <1>4. Mail(0) = { lane[1] } \cup Mail(1)
    <2>1. \A i : i \in 1 .. n <=> i = 1 \/ (i \in 1 .. n /\ i > 1)
      BY <1>1
    <2>2. \A e : e \in Mail(0) <=> \/ \E i \in 1 .. n : e = lane[i]
                                   \/ e \in news \/ (e = reply /\ reply # NoReply)
      BY <1>1, MailAre
    <2>3. \A e : e \in Mail(1) <=> \/ \E i \in 1 .. n : i > 1 /\ e = lane[i]
                                   \/ e \in news \/ (e = reply /\ reply # NoReply)
      BY MailAre
    <2> QED
      BY <2>1, <2>2, <2>3
  <1>5. \A t : Due(t, 0) = (IF Matters(Head(lane), t) THEN { Head(lane) } ELSE {}) \cup Due(t, 1)
    BY <1>1, <1>4 DEF Due
  <1>6. \A p \in Nat : \A t : Due(t, p)' = Due(t, p + 1)
    BY <1>3 DEF Due
  <1> QED
    BY <1>1, <1>2, <1>3, <1>4, <1>5, <1>6

-----------------------------------------------------------------------------
(* The inductive invariant.                                                *)

(* Ids come from the counter, and a message has one.                       *)
LetterFresh(e, next) ==
    /\ e.sig = "posted" => e.message.id < next
    /\ e.sig \in Touches => e.id < next
    /\ e.sig = "selected" => Below(e.history, next) /\ Distinct(e.history)

FreshIds ==
    /\ \A t \in Talks : Below(kept[t], nextId) /\ Distinct(kept[t])
    /\ \A id \in DOMAIN shown : id < nextId
    /\ \A e \in Mail(0) : LetterFresh(e, nextId)

(* A channel missing from the list the client has of its space, or will    *)
(* have once it has read a letter, is no more.                             *)
Buries(e, b) ==
    \/ e.sig = "gone" /\ e.of = b
    \/ e.sig = "joined" /\ e.of = HomeOf[b] /\ b \notin e.list
    \/ e.sig = "made" /\ e.of = HomeOf[b]

Lost(b) == HomeOf[b] = app.space /\ b \notin app.known
Buried == \A b \in Boards : Lost(b) \/ (\E e \in Mail(0) : Buries(e, b)) => b \notin boards
LostBy(b, p) == Lost(b) \/ \E i \in 1 .. p : Buries(lane[i], b)

(* Of a channel where nothing overlapped: the handlers hold one letter at  *)
(* most, what is told of a message is done, and what was written is there, *)
(* or was, and is told once.                                               *)
Single(t) ==
    /\ t \in About(reply) => \A e \in news : t \notin About(e)
    /\ \A e, f \in news : t \in About(e) /\ t \in About(f) => e = f

Steady(p) == \A e \in Mail(p) : e.sig \notin { "joined", "made" }

PostedIs(e, b) == e.sig = "posted" /\ e.of = Board(b)

LanePosted(b) ==
    \A i \in 1 .. Len(lane) : PostedIs(lane[i], b) =>
        /\ HomeOf[b] = here /\ Steady(i) => Entry(lane[i].message, kept[Board(b)], Due(Board(b), i))
        /\ \A x \in Posts(Due(Board(b), i)) : x.id # lane[i].message.id

HeldTrue(b) ==
    /\ \A e \in news \cup { reply } : PostedIs(e, b) => e.message \in kept[Board(b)]
    /\ reply.sig = "selected" /\ reply.of = Board(b) => reply.history = kept[Board(b)]

TalkTrue(b) ==
    Board(b) \notin raced =>
        /\ Single(Board(b)) /\ Agreed(kept[Board(b)], Due(Board(b), 0))
        /\ LanePosted(b) /\ HeldTrue(b)

(* A list D of channel b, once the lane is read up to p.                   *)
Claim(D, b, p) ==
    /\ Listed(D, kept[Board(b)], Due(Board(b), p))
    /\ Posts(Due(Board(b), p)) # {} => ~LostBy(b, p)

(* A history on its way is of the space the client is in and will be true. *)
LaneTrue ==
    \A p \in 1 .. Len(lane), b \in Boards :
        lane[p].sig = "selected" /\ here # Nowhere /\ Steady(p) /\ lane[p].of = Board(b) =>
            /\ HomeOf[b] = here
            /\ Board(b) \notin raced =>
                /\ Claim(lane[p].history, b, p)
                /\ \A k \in kept[Board(b)] : Found(k, lane[p].history, Due(Board(b), p))

ReplyTrue ==
    /\ \A b \in Boards :
          reply.sig = "selected" /\ here # Nowhere /\ reply.of = Board(b) => HomeOf[b] = here
    /\ \A e \in news : e.sig # "selected"

(* The window and AppState agree, unless a history is asked for or coming. *)
Pending == (\E a \in asks : a.kind = "select") \/ \E e \in Mail(0) : e.sig = "selected"
Unsure == Pending \/ refused
OnBoard == ~win.direct /\ win.chan # Nowhere
Agreeing == app.selected = win.chan \/ app.space = Nowhere
WindowTrue == OnBoard => app.group = Nowhere /\ (Unsure \/ (win.group = Nowhere /\ Agreeing))

(* The rows on display. *)
Row(id) == shown[id][1]
Rows == { Row(id) : id \in DOMAIN shown }
RowsTidy == \A id \in DOMAIN shown : shown[id] = << Row(id) >> /\ Row(id) \in Msgs /\ Row(id).id = id

Display(b) ==
    /\ HomeOf[b] = here
    /\ Board(b) \notin raced =>
        /\ RowsTidy /\ Claim(Rows, b, 0)
        /\ \A k \in kept[Board(b)] :
               Found(k, Rows, Due(Board(b), 0)) \/ k.mine \/ Board(b) \in app.unread

Rested == OnBoard /\ ~Unsure /\ here # Nowhere /\ app.space = here /\ Steady(0)
ShownTrue == Rested => Display(win.chan)

TalksTrue == \A b \in Boards : TalkTrue(b)
TextInv ==
    /\ TextTypes /\ FreshIds /\ Buried /\ TalksTrue
    /\ LaneTrue /\ ReplyTrue /\ WindowTrue /\ ShownTrue

-----------------------------------------------------------------------------
(* What a step of a handler of the server amounts to.                      *)
Races(t) == raced' = (IF Busy(t) THEN raced \cup { t } ELSE raced)

Writes ==
    \E t \in Talks, x \in Msgs :
        /\ x.id = nextId /\ nextId' = nextId + 1 /\ kept' = [ kept EXCEPT ![t] = @ \cup { x } ]
        /\ Races(t) /\ Tells(Posted(t, x)) /\ (t[1] = "board" => t[2] \in boards)
        /\ UNCHANGED << viewWorld, here, memberOf >>

Changes ==
    \E t \in Talks : \E x \in kept[t], how \in Touches :
        /\ nextId' = nextId /\ kept' = [ kept EXCEPT ![t] = Replaced(@, x, how) ]
        /\ Races(t) /\ Tells(Letter(t, how, x.id))
        /\ UNCHANGED << viewWorld, here, memberOf >>

Selects ==
    \E t \in Talks :
        /\ reply = NoReply /\ Tells([ sig |-> "selected", of |-> t, history |-> kept[t] ])
        /\ reply' = [ sig |-> "selected", of |-> t, history |-> kept[t] ]
        /\ Races(t) /\ (t[1] = "board" => HomeOf[t[2]] = here)
        /\ UNCHANGED << nextId, kept, viewWorld, here, memberOf >>

Announces ==
    \E e \in Letters :
        /\ e.sig \notin Touches \cup { "posted", "selected" }
        /\ Tells(e) /\ UNCHANGED << nextId, kept, raced >>
        /\ boards' \subseteq boards /\ \A b \in Boards : Buries(e, b) => b \notin boards'
        /\ here' \in { here, Nowhere } \/ (e.sig \in { "joined", "made" } /\ reply' = e)

Silent ==
    /\ UNCHANGED << nextId, kept, raced, reply, news, lane >>
    /\ boards' \subseteq boards /\ here' \in { here, Nowhere }

Serves ==
    /\ Writes \/ Changes \/ Selects \/ Announces \/ Silent
    /\ UNCHANGED << win, app, shown >>

LEMMA WorldSame ==
  ASSUME UNCHANGED viewWorld
  PROVE  places' = places /\ ended' = ended /\ boards' = boards /\ groups' = groups
  BY DEF viewWorld

LEMMA LettersMade ==
  /\ \A t \in Talks : \A x \in Msgs : Posted(t, x) \in Letters
  /\ \A t \in Talks, how \in Touches, id \in Nat : Letter(t, how, id) \in Letters
  /\ \A t \in Talks, D \in SUBSET Msgs : [ sig |-> "selected", of |-> t, history |-> D ] \in Letters
  /\ \A b \in Boards : [ sig |-> "gone", of |-> b ] \in Letters
  /\ \A g \in Groups : [ sig |-> "grouped", of |-> g ] \in Letters
  /\ \A s \in Places : /\ [ sig |-> "made", of |-> s ] \in Letters
                       /\ [ sig |-> "out", of |-> s ] \in Letters
                       /\ [ sig |-> "closed", of |-> s ] \in Letters
  /\ \A s \in Places, bs \in SUBSET Boards : [ sig |-> "joined", of |-> s, list |-> bs ] \in Letters
  /\ [ sig |-> "unknown" ] \in Letters
  <1>1. \A t \in Talks : \A x \in Msgs : Posted(t, x) \in Letters
    BY DEF Posted, Letters
  <1>2. \A t \in Talks, how \in Touches, id \in Nat : Letter(t, how, id) \in Letters
    BY DEF Letter, Letters
  <1> QED
    BY <1>1, <1>2 DEF Letters

LEMMA SelectServes ==
  ASSUME TextTypes, reply = NoReply, NEW t \in Talks, HandleSelect(t),
         UNCHANGED << viewWorld, here, memberOf, news, lane >>
  PROVE  /\ Selects \/ (Silent /\ refused')
         /\ Selects => refused' = refused
  <1>1. CASE Reaches(t)
    <2>1. t[1] = "board" => HomeOf[t[2]] = here
      BY <1>1 DEF Reaches
    <2>2. Selects
      BY <1>1, <2>1 DEF HandleSelect, Selects, Tells, Races
    <2> QED
      BY <1>1, <2>2 DEF HandleSelect
  <1>2. CASE ~Reaches(t)
    <2>1. Silent /\ refused'
      BY <1>2, WorldSame DEF HandleSelect, Silent
    <2>2. ~Selects
      <3>1. reply' = NoReply
        BY <1>2 DEF HandleSelect
      <3> QED
        BY <3>1 DEF Selects, NoReply
    <2> QED
      BY <2>1, <2>2
  <1> QED
    BY <1>1, <1>2

LEMMA WriteServes ==
  ASSUME TextTypes, reply = NoReply, NEW t \in Talks, HandleWrite(t),
         UNCHANGED << viewWorld, here, memberOf, news, lane >>
  PROVE  (Writes \/ Silent) /\ refused' = refused
  <1>1. CASE Reaches(t)
    <2> DEFINE x == Message(nextId, TRUE)
    <2>1. x \in Msgs /\ x.id = nextId
      BY MessageMade DEF TextTypes, ServerTypes
    <2>2. t[1] = "board" => t[2] \in boards
      BY <1>1 DEF Reaches
    <2>3. /\ nextId' = nextId + 1 /\ kept' = [ kept EXCEPT ![t] = @ \cup { x } ]
          /\ Races(t) /\ Tells(Posted(t, x)) /\ UNCHANGED refused
      BY <1>1 DEF HandleWrite, StoreMessage, Stored, Races, Tells
    <2> HIDE DEF x
    <2>4. Writes
      BY <2>1, <2>2, <2>3 DEF Writes
    <2> QED
      BY <2>3, <2>4
  <1>2. CASE ~Reaches(t)
    BY <1>2, WorldSame DEF HandleWrite, Silent
  <1> QED
    BY <1>1, <1>2

LEMMA TouchServes ==
  ASSUME TextTypes, reply = NoReply, NEW a \in Requests, a.kind \in Touches, HandleTouch(a),
         UNCHANGED << viewWorld, here, memberOf, news, lane >>
  PROVE  (Changes \/ Silent) /\ refused' = refused
  <1>1. a.of \in Talks /\ a.id \in Nat
    BY RequestKinds
  <1>2. CASE \E m \in kept[a.of] : m.id = a.id /\ Reaches(a.of) /\ (a.kind = "edit" => m.mine)
    <2>1. PICK x \in kept[a.of] : x.id = a.id /\ StoreTouch(a.of, x, a.kind)
      BY <1>2 DEF HandleTouch
    <2>2. /\ reply' = Letter(a.of, a.kind, x.id) /\ refused' = refused
      BY <1>2, <2>1 DEF HandleTouch, Letter
    <2>3. /\ nextId' = nextId /\ kept' = [ kept EXCEPT ![a.of] = Replaced(@, x, a.kind) ]
          /\ Races(a.of)
      BY <2>1 DEF StoreTouch, Stored, Races, Replaced
    <2>4. Tells(Letter(a.of, a.kind, x.id))
      BY <2>2 DEF Tells
    <2> QED
      BY <1>1, <2>2, <2>3, <2>4 DEF Changes
  <1>3. CASE ~\E m \in kept[a.of] : m.id = a.id /\ Reaches(a.of) /\ (a.kind = "edit" => m.mine)
    BY <1>3, WorldSame DEF HandleTouch, Silent
  <1> QED
    BY <1>2, <1>3

LEMMA TellsAnnounces ==
  ASSUME NEW e \in Letters, e.sig \notin Touches \cup { "posted", "selected" }, Tells(e),
         UNCHANGED << nextId, kept, raced >>, boards' \subseteq boards,
         \A b \in Boards : Buries(e, b) => b \notin boards',
         here' \in { here, Nowhere } \/ (e.sig \in { "joined", "made" } /\ reply' = e)
  PROVE  Announces
  BY DEF Announces

LEMMA ElseServes ==
  ASSUME TextTypes, reply = NoReply, NEW a \in Requests, ServeElse(a), UNCHANGED << news, lane >>
  PROVE  (Announces \/ Silent) /\ refused' = refused /\ ServerTypes'
  <1> USE DEF TextTypes, ServerTypes
  <1>1. CASE a.kind = "join" /\ HandleJoin(a.of)
    <2>0. a.of \in Places
      BY <1>1, RequestKinds
    <2>1. CASE a.of \in places
      <3> DEFINE e == [ sig |-> "joined", of |-> a.of, list |-> boards \cap BoardsOf(a.of) ]
      <3>1. e \in Letters /\ e.sig = "joined" /\ e.of = a.of /\ e.list = boards \cap BoardsOf(a.of)
        BY <2>0, LettersMade
      <3>2. /\ reply' = e /\ here' = a.of /\ memberOf' = memberOf \cup { a.of }
            /\ UNCHANGED << nextId, kept, raced, refused, viewWorld >>
        BY <1>1, <2>1 DEF HandleJoin, ServeElse
      <3>3. Tells(e)
        BY <3>2 DEF Tells
      <3>4. boards' = boards /\ places' = places /\ groups' = groups
        BY <3>2, WorldSame
      <3>5. \A b \in Boards : Buries(e, b) => b \notin boards'
        BY <3>1, <3>4 DEF Buries, BoardsOf
      <3> HIDE DEF e
      <3>6. Announces
        BY <3>1, <3>2, <3>3, <3>4, <3>5, TellsAnnounces, TouchesAre
      <3> QED
        BY <2>0, <3>2, <3>4, <3>6
    <2>2. CASE a.of \notin places
      <3> DEFINE e == [ sig |-> "unknown" ]
      <3>1. e \in Letters /\ e.sig = "unknown"
        BY LettersMade
      <3>2. /\ reply' = e /\ here' = here /\ memberOf' = memberOf
            /\ UNCHANGED << nextId, kept, raced, refused, viewWorld >>
        BY <1>1, <2>2 DEF HandleJoin, ServeElse
      <3>3. Tells(e)
        BY <3>2 DEF Tells
      <3>4. boards' = boards /\ places' = places /\ groups' = groups
        BY <3>2, WorldSame
      <3> HIDE DEF e
      <3>5. \A b \in Boards : Buries(e, b) => b \notin boards'
        BY <3>1 DEF Buries
      <3>6. Announces
        BY <3>1, <3>2, <3>3, <3>4, <3>5, TellsAnnounces, TouchesAre
      <3> QED
        BY <3>2, <3>4, <3>6
    <2> QED
      BY <2>1, <2>2
  <1>2. CASE a.kind = "create" /\ HandleCreate(a.of)
    <2>0. a.of \in Places
      BY <1>2, RequestKinds
    <2>1. CASE a.of \in places \cup ended
      BY <1>2, <2>1 DEF HandleCreate, ServeElse, Silent
    <2>2. CASE a.of \notin places \cup ended
      <3> DEFINE e == [ sig |-> "made", of |-> a.of ]
      <3>1. e \in Letters /\ e.sig = "made" /\ e.of = a.of
        BY <2>0, LettersMade
      <3>2. /\ reply' = e /\ here' = a.of /\ memberOf' = memberOf \cup { a.of } /\ places' = places \cup { a.of }
            /\ UNCHANGED << nextId, kept, raced, refused, boards, groups >>
        BY <1>2, <2>2 DEF HandleCreate, ServeElse
      <3>3. Tells(e)
        BY <3>2 DEF Tells
      <3> HIDE DEF e
      <3>5. \A b \in Boards : Buries(e, b) => b \notin boards'
        BY <2>2, <3>1, <3>2 DEF Buries
      <3>6. Announces
        BY <3>1, <3>2, <3>3, <3>5, TellsAnnounces, TouchesAre
      <3> QED
        BY <2>0, <3>2, <3>6
    <2> QED
      BY <2>1, <2>2
  <1>3. CASE a.kind = "leave" /\ HandleLeave
    BY <1>3, WorldSame DEF HandleLeave, ServeElse, Silent
  <1>4. CASE a.kind = "group" /\ HandleGroup
    <2>0. UNCHANGED << nextId, kept, raced, refused, places, boards, here, memberOf >>
      BY <1>4 DEF HandleGroup, ServeElse
    <2>1. ASSUME NEW g \in Groups, groups' = groups \cup { g }, reply' = [ sig |-> "grouped", of |-> g ]
          PROVE  Announces
      <3> DEFINE e == [ sig |-> "grouped", of |-> g ]
      <3>1. e \in Letters /\ e.sig = "grouped"
        BY LettersMade
      <3>3. Tells(e)
        BY <2>1 DEF Tells
      <3> HIDE DEF e
      <3>5. \A b \in Boards : Buries(e, b) => b \notin boards'
        BY <3>1 DEF Buries
      <3> QED
        BY <2>0, <3>1, <3>3, <3>5, TellsAnnounces, TouchesAre
    <2>2. CASE UNCHANGED << groups, reply >>
      BY <2>0, <2>2 DEF Silent
    <2> QED
      BY <1>4, <2>0, <2>1, <2>2 DEF HandleGroup
  <1> QED
    BY <1>1, <1>2, <1>3, <1>4 DEF ServeElse

LEMMA HandleServes ==
  ASSUME TextTypes, NEW a \in asks, ViewHandle(a)
  PROVE  /\ Serves /\ asks' = asks \ { a } /\ (refused => refused')
         /\ a.kind = "select" => Selects \/ refused'
         /\ places' \subseteq Places /\ boards' \subseteq Boards /\ groups' \subseteq Groups
         /\ (\A b \in boards' : HomeOf[b] \in places')
         /\ memberOf' \subseteq Places /\ here' \in memberOf' \cup { Nowhere }
  <1>0. /\ a \in Requests /\ reply = NoReply /\ asks' = asks \ { a }
        /\ UNCHANGED << news, lane, win, app, shown >>
    BY DEF TextTypes, ViewHandle, viewClient
  <1>1. CASE ServeElse(a)
    <2>1. (Announces \/ Silent) /\ refused' = refused /\ ServerTypes'
      BY <1>0, <1>1, ElseServes
    <2>2. a.kind # "select"
      BY <1>1 DEF ServeElse
    <2> QED
      BY <1>0, <2>1, <2>2 DEF Serves, ServerTypes
  <1>2. CASE Serve(a)
    <2>0. UNCHANGED << viewWorld, here, memberOf >>
      BY <1>2 DEF Serve
    <2>1. places' = places /\ boards' = boards /\ groups' = groups
      BY <2>0, WorldSame
    <2>2. CASE \E t \in Talks : a.kind = "select" /\ HandleSelect(t)
      <3>1. PICK t \in Talks : HandleSelect(t)
        BY <2>2
      <3>2. (Selects \/ (Silent /\ refused')) /\ (Selects => refused' = refused)
        BY <1>0, <2>0, <3>1, SelectServes
      <3> QED
        BY <1>0, <2>0, <2>1, <3>2 DEF Serves, TextTypes, ServerTypes
    <2>3. CASE a.kind = "write" /\ HandleWrite(a.of)
      <3>1. a.of \in Talks
        BY <1>0, <2>3, RequestKinds
      <3>2. (Writes \/ Silent) /\ refused' = refused
        BY <1>0, <2>0, <2>3, <3>1, WriteServes
      <3> QED
        BY <1>0, <2>0, <2>1, <2>3, <3>2 DEF Serves, TextTypes, ServerTypes
    <2>4. CASE a.kind \in Touches /\ HandleTouch(a)
      <3>1. (Changes \/ Silent) /\ refused' = refused
        BY <1>0, <2>0, <2>4, TouchServes
      <3>2. a.kind # "select"
        BY <2>4, TouchesAre
      <3> QED
        BY <1>0, <2>0, <2>1, <3>1, <3>2 DEF Serves, TextTypes, ServerTypes
    <2>5. a.kind = "select" => \E t \in Talks : HandleSelect(t)
      <3> SUFFICES ASSUME a.kind = "select" PROVE \E t \in Talks : HandleSelect(t)
        OBVIOUS
      <3>0. a.of \in Talks
        BY <1>0, RequestKinds
      <3>1. \/ a.of[1] = "board" /\ SelectTextChannel(a.of[2])
            \/ a.of[1] = "direct" /\ SelectDirectMessage(a.of[2])
            \/ a.of[1] = "group" /\ SelectGroupDM(a.of[2])
        BY <1>2, TouchesAre DEF Serve
      <3> QED
        BY <3>0, <3>1, TalkKinds DEF SelectTextChannel, SelectDirectMessage, SelectGroupDM
    <2> QED
      BY <1>2, <2>2, <2>3, <2>4, <2>5 DEF Serve
  <1> QED
    BY <1>0, <1>1, <1>2 DEF ViewHandle

LEMMA NewsServes ==
  ASSUME TextTypes, ViewNews
  PROVE  /\ Serves /\ asks' = asks /\ refused' = refused /\ reply' = reply /\ ~Selects
         /\ places' \subseteq Places /\ boards' \subseteq Boards /\ groups' \subseteq Groups
         /\ (\A b \in boards' : HomeOf[b] \in places')
         /\ memberOf' \subseteq Places /\ here' \in memberOf' \cup { Nowhere }
  <1>0. /\ UNCHANGED << reply, asks, lane, win, app, shown, refused >>
        /\ reply' = reply
    BY DEF ViewNews, viewClient
  <1>00. ~Selects
    <2> SUFFICES ASSUME Selects PROVE FALSE
      OBVIOUS
    <2>1. reply' = NoReply
      BY <1>0 DEF Selects
    <2>2. reply'.sig = "selected"
      BY DEF Selects
    <2> QED
      BY <2>1, <2>2 DEF NoReply
  <1> DEFINE OK == /\ Writes \/ Changes \/ Announces \/ Silent
                   /\ places' \subseteq Places /\ boards' \subseteq Boards /\ groups' \subseteq Groups
                   /\ (\A b \in boards' : HomeOf[b] \in places')
                   /\ memberOf' \subseteq Places /\ here' \in memberOf' \cup { Nowhere }
  <1>1. ASSUME NEW t \in Talks, OthersWrite(t)
        PROVE  OK
    <2> DEFINE x == Message(nextId, FALSE)
    <2>1. x \in Msgs /\ x.id = nextId
      BY MessageMade DEF TextTypes, ServerTypes
    <2>2. /\ t[1] = "board" => t[2] \in boards
          /\ nextId' = nextId + 1 /\ kept' = [ kept EXCEPT ![t] = @ \cup { x } ]
          /\ Races(t) /\ Tells(Posted(t, x)) /\ UNCHANGED << viewWorld, here, memberOf >>
      BY <1>0, <1>1 DEF OthersWrite, StoreMessage, Stored, Races, Tells
    <2> HIDE DEF x
    <2>3. Writes
      BY <2>1, <2>2 DEF Writes
    <2> QED
      BY <2>2, <2>3, WorldSame DEF TextTypes, ServerTypes
  <1>2. ASSUME NEW t \in Talks, NEW x \in kept[t], NEW how \in Touches, OthersTouch(t, x, how)
        PROVE  OK
    <2>1. news' = news \cup { Letter(t, how, x.id) }
      BY <1>2 DEF OthersTouch, Letter
    <2>2. /\ nextId' = nextId /\ kept' = [ kept EXCEPT ![t] = Replaced(@, x, how) ]
          /\ Races(t) /\ UNCHANGED << viewWorld, here, memberOf >>
      BY <1>2 DEF OthersTouch, StoreTouch, Stored, Races, Replaced
    <2>3. Tells(Letter(t, how, x.id))
      BY <1>0, <2>1 DEF Tells
    <2>4. Changes
      BY <2>2, <2>3 DEF Changes
    <2> QED
      BY <2>2, <2>4, WorldSame DEF TextTypes, ServerTypes
  <1>3. ASSUME NEW e \in Letters, e.sig \in { "gone", "grouped", "out", "closed" },
               Announcing(e), boards' \subseteq boards, e.sig = "gone" => e.of \notin boards',
               here' \in { here, Nowhere }
        PROVE  Announces
    <2>1. Tells(e) /\ UNCHANGED << nextId, kept, raced >>
      BY <1>0, <1>3 DEF Announcing, Tells
    <2>2. \A b \in Boards : Buries(e, b) => b \notin boards'
      BY <1>3 DEF Buries
    <2> QED
      BY <1>3, <2>1, <2>2, TellsAnnounces, TouchesAre
  <1>4. ASSUME NEW b \in Boards, OthersDelete(b)
        PROVE  OK
    <2>1. /\ boards' = boards \ { b } /\ places' = places /\ groups' = groups /\ here' = here /\ memberOf' = memberOf
      BY <1>4 DEF OthersDelete
    <2>2. CASE HomeOf[b] \in memberOf
      <3> DEFINE e == [ sig |-> "gone", of |-> b ]
      <3>1. e \in Letters /\ e.sig = "gone" /\ e.of = b
        BY LettersMade
      <3>2. Announcing(e)
        BY <1>4, <2>2 DEF OthersDelete
      <3> HIDE DEF e
      <3>3. Announces
        BY <1>3, <2>1, <3>1, <3>2
      <3> QED
        BY <2>1, <3>3 DEF TextTypes, ServerTypes
    <2>3. CASE HomeOf[b] \notin memberOf
      <3>1. UNCHANGED << news, nextId, kept, raced >>
        BY <1>4, <2>3 DEF OthersDelete
      <3>2. Silent
        BY <1>0, <2>1, <3>1 DEF Silent
      <3> QED
        BY <2>1, <3>2 DEF TextTypes, ServerTypes
    <2> QED
      BY <2>2, <2>3
  <1>5. ASSUME NEW g \in Groups, OthersGroup(g)
        PROVE  OK
    <2> DEFINE e == [ sig |-> "grouped", of |-> g ]
    <2>1. e \in Letters /\ e.sig = "grouped"
      BY LettersMade
    <2>2. /\ boards' = boards /\ places' = places /\ here' = here /\ memberOf' = memberOf /\ groups' = groups \cup { g }
          /\ Announcing(e)
      BY <1>5 DEF OthersGroup
    <2> HIDE DEF e
    <2>3. Announces
      BY <1>3, <2>1, <2>2
    <2> QED
      BY <2>2, <2>3 DEF TextTypes, ServerTypes
  <1>6. ASSUME NEW s \in Places, OthersPutOut(s)
        PROVE  OK
    <2> DEFINE e == [ sig |-> "out", of |-> s ]
    <2>1. e \in Letters /\ e.sig = "out"
      BY LettersMade
    <2>2. /\ here' = Nowhere /\ memberOf' = memberOf \ { s } /\ Announcing(e) /\ UNCHANGED viewWorld
      BY <1>6 DEF OthersPutOut
    <2>3. boards' = boards /\ places' = places /\ groups' = groups
      BY <2>2, WorldSame
    <2> HIDE DEF e
    <2>4. Announces
      BY <1>3, <2>1, <2>2, <2>3
    <2> QED
      BY <2>2, <2>3, <2>4 DEF TextTypes, ServerTypes
  <1>7. ASSUME NEW s \in Places, OthersClose(s)
        PROVE  OK
    <2> DEFINE e == [ sig |-> "closed", of |-> s ]
    <2>1. e \in Letters /\ e.sig = "closed"
      BY LettersMade
    <2>2. /\ here' = Nowhere /\ memberOf' = memberOf \ { s } /\ Announcing(e) /\ groups' = groups
          /\ places' = places \ { s } /\ boards' = boards \ BoardsOf(s)
      BY <1>7 DEF OthersClose
    <2> HIDE DEF e
    <2>4. Announces
      BY <1>3, <2>1, <2>2
    <2>5. \A b \in boards' : HomeOf[b] \in places'
      BY <2>2 DEF BoardsOf, TextTypes, ServerTypes
    <2> QED
      BY <2>2, <2>4, <2>5 DEF TextTypes, ServerTypes
  <1>8. \/ \E t \in Talks : OthersWrite(t)
        \/ \E t \in Talks : \E m \in kept[t], how \in Touches : OthersTouch(t, m, how)
        \/ \E b \in Boards : OthersDelete(b)
        \/ \E g \in Groups : OthersGroup(g)
        \/ \E s \in Places : OthersPutOut(s) \/ OthersClose(s)
    BY DEF ViewNews
  <1> HIDE DEF OK
  <1>9. OK
    BY <1>1, <1>2, <1>4, <1>5, <1>6, <1>7, <1>8
  <1> QED
    BY <1>0, <1>00, <1>9 DEF Serves, OK

LEMMA TellsTypes ==
  ASSUME MailTypes, NEW e \in Letters, Tells(e)
  PROVE  MailTypes'
  BY DEF MailTypes, Tells

LEMMA ServesTypes ==
  ASSUME TextTypes, Serves
  PROVE  MailTypes' /\ ClientTypes' /\ nextId' \in Nat /\ kept' \in [ Talks -> SUBSET Msgs ]
  <1>0. MailTypes /\ nextId \in Nat /\ kept \in [ Talks -> SUBSET Msgs ]
    BY DEF TextTypes, ServerTypes
  <1>1. ClientTypes'
    BY DEF TextTypes, ClientTypes, Serves
  <1>2. CASE Writes
    <2>1. PICK t \in Talks, x \in Msgs :
            /\ nextId' = nextId + 1 /\ kept' = [ kept EXCEPT ![t] = @ \cup { x } ] /\ Tells(Posted(t, x))
      BY <1>2 DEF Writes
    <2>2. MailTypes'
      BY <1>0, <2>1, LettersMade, TellsTypes
    <2> QED
      BY <1>0, <1>1, <2>1, <2>2
  <1>3. CASE Changes
    <2>1. PICK t \in Talks : \E x \in kept[t], how \in Touches :
            /\ nextId' = nextId /\ kept' = [ kept EXCEPT ![t] = Replaced(@, x, how) ]
            /\ Tells(Letter(t, how, x.id))
      BY <1>3 DEF Changes
    <2>2. PICK x \in kept[t], how \in Touches :
            /\ nextId' = nextId /\ kept' = [ kept EXCEPT ![t] = Replaced(@, x, how) ]
            /\ Tells(Letter(t, how, x.id))
      BY <2>1
    <2>3. kept[t] \subseteq Msgs /\ x \in Msgs /\ x.id \in Nat
      BY <1>0 DEF Msgs
    <2>4. Replaced(kept[t], x, how) \subseteq Msgs
      <3>1. how # "delete" => Touched(x, how) \in Msgs
        BY <2>3, MessageTouched
      <3> QED
        BY <2>3, <3>1 DEF Replaced
    <2>5. MailTypes'
      BY <1>0, <2>2, <2>3, LettersMade, TellsTypes
    <2> QED
      BY <1>0, <1>1, <2>2, <2>4, <2>5
  <1>4. CASE Selects
    <2>1. PICK t \in Talks : /\ Tells([ sig |-> "selected", of |-> t, history |-> kept[t] ])
                             /\ UNCHANGED << nextId, kept >>
      BY <1>4 DEF Selects
    <2>2. [ sig |-> "selected", of |-> t, history |-> kept[t] ] \in Letters
      BY <1>0, LettersMade
    <2> QED
      BY <1>0, <1>1, <2>1, <2>2, TellsTypes
  <1>5. CASE Announces
    BY <1>0, <1>1, <1>5, TellsTypes DEF Announces
  <1>6. CASE Silent
    BY <1>0, <1>1, <1>6 DEF Silent, MailTypes
  <1> QED
    BY <1>2, <1>3, <1>4, <1>5, <1>6 DEF Serves

-----------------------------------------------------------------------------
(* A step of a handler of the server: the conversations. *)

LEMMA DueTold ==
  ASSUME NEW e \in Letters, Tells(e)
  PROVE  \A t, p : /\ Matters(e, t) => Due(t, p)' = Due(t, p) \cup { e }
                   /\ ~Matters(e, t) => Due(t, p)' = Due(t, p)
  <1> SUFFICES ASSUME NEW t, NEW p
               PROVE  /\ Matters(e, t) => Due(t, p)' = Due(t, p) \cup { e }
                      /\ ~Matters(e, t) => Due(t, p)' = Due(t, p)
    OBVIOUS
  <1>1. Mail(p)' = Mail(p) \cup { e }
    BY MailTold
  <1> QED
    BY <1>1 DEF Due

LEMMA TalkNames ==
  ASSUME NEW t \in Talks, NEW u \in Talks, NEW x, NEW how, NEW id
  PROVE  /\ Matters(Posted(u, x), t) <=> t = u
         /\ how \in Touches => (Matters(Letter(u, how, id), t) <=> t = u)
  BY LetterPosted, LetterTouch DEF Matters

LEMMA WritesMoves ==
  ASSUME TextTypes, Writes, NEW t \in Talks
  PROVE  \A p : Moves(t, kept[t], Due(t, p), kept'[t], Due(t, p)', nextId)
  <1>1. PICK u \in Talks, x \in Msgs :
          x.id = nextId /\ kept' = [ kept EXCEPT ![u] = @ \cup { x } ] /\ Tells(Posted(u, x))
    BY DEF Writes
  <1>2. \A p : /\ Matters(Posted(u, x), t) => Due(t, p)' = Due(t, p) \cup { Posted(u, x) }
               /\ ~Matters(Posted(u, x), t) => Due(t, p)' = Due(t, p)
    BY <1>1, LettersMade, DueTold
  <1>3. CASE t = u
    <2>1. kept'[t] = kept[t] \cup { x }
      BY <1>1, <1>3 DEF TextTypes, ServerTypes
    <2>2. Matters(Posted(u, x), t)
      BY <1>3, TalkNames
    <2>3. \A p : Due(t, p)' = Due(t, p) \cup { Posted(t, x) }
      BY <1>2, <1>3, <2>2
    <2> QED
      BY <1>1, <2>1, <2>3 DEF Moves, StoredOne
  <1>4. CASE t # u
    <2>1. kept'[t] = kept[t] /\ \A p : Due(t, p)' = Due(t, p)
      BY <1>1, <1>2, <1>4, TalkNames DEF TextTypes, ServerTypes
    <2> QED
      BY <2>1 DEF Moves
  <1> QED
    BY <1>3, <1>4

LEMMA ChangesMoves ==
  ASSUME TextTypes, Changes, NEW t \in Talks
  PROVE  \A p : Moves(t, kept[t], Due(t, p), kept'[t], Due(t, p)', nextId)
  <1>1. PICK u \in Talks : \E x \in kept[u], how \in Touches :
          kept' = [ kept EXCEPT ![u] = Replaced(@, x, how) ] /\ Tells(Letter(u, how, x.id))
    BY DEF Changes
  <1>2. PICK x \in kept[u], how \in Touches :
          kept' = [ kept EXCEPT ![u] = Replaced(kept[u], x, how) ] /\ Tells(Letter(u, how, x.id))
    BY <1>1
  <1> DEFINE e == Letter(u, how, x.id)
  <1>3. e \in Letters
    <2>1. x.id \in Nat
      BY DEF TextTypes, ServerTypes, Msgs
    <2> QED
      BY <2>1, LettersMade
  <1>4. \A p : /\ Matters(e, t) => Due(t, p)' = Due(t, p) \cup { e }
               /\ ~Matters(e, t) => Due(t, p)' = Due(t, p)
    BY <1>2, <1>3, DueTold
  <1>5. CASE t = u
    <2>1. kept'[t] = Replaced(kept[t], x, how)
      BY <1>2, <1>5 DEF TextTypes, ServerTypes
    <2>2. Matters(e, t)
      BY <1>5, TalkNames
    <2>3. \A p : Due(t, p)' = Due(t, p) \cup { Letter(t, how, x.id) }
      BY <1>4, <1>5, <2>2
    <2> QED
      BY <1>5, <2>1, <2>3 DEF Moves, TouchedOne
  <1>6. CASE t # u
    <2>1. kept'[t] = kept[t] /\ \A p : Due(t, p)' = Due(t, p)
      BY <1>2, <1>4, <1>6, TalkNames DEF TextTypes, ServerTypes
    <2> QED
      BY <2>1 DEF Moves
  <1> QED
    BY <1>5, <1>6

LEMMA ServesMoves ==
  ASSUME TextTypes, Serves, NEW t \in Talks
  PROVE  \A p : Moves(t, kept[t], Due(t, p), kept'[t], Due(t, p)', nextId)
  <1>1. CASE Writes
    BY <1>1, WritesMoves
  <1>2. CASE Changes
    BY <1>2, ChangesMoves
  <1>3. ASSUME NEW e \in Letters, Tells(e), e.sig \notin Touches \cup { "posted" }, kept' = kept
        PROVE  \A p : Moves(t, kept[t], Due(t, p), kept'[t], Due(t, p)', nextId)
    <2>1. \A p : Due(t, p)' = Due(t, p)
      BY <1>3, DueTold DEF Matters
    <2> QED
      BY <1>3, <2>1 DEF Moves
  <1>4. CASE Selects
    <2>1. PICK u \in Talks : Tells([ sig |-> "selected", of |-> u, history |-> kept[u] ]) /\ kept' = kept
      BY <1>4 DEF Selects
    <2> DEFINE e == [ sig |-> "selected", of |-> u, history |-> kept[u] ]
    <2>2. e \in Letters /\ e.sig \notin Touches \cup { "posted" }
      BY LettersMade, TouchesAre DEF TextTypes, ServerTypes
    <2> QED
      BY <1>3, <2>1, <2>2
  <1>5. CASE Announces
    BY <1>3, <1>5 DEF Announces
  <1>6. CASE Silent
    <2>1. kept' = kept /\ \A p : Due(t, p)' = Due(t, p)
      BY <1>6, MailSame DEF Silent
    <2> QED
      BY <2>1 DEF Moves
  <1> QED
    BY <1>1, <1>2, <1>4, <1>5, <1>6 DEF Serves

(* What is written, if anything is. *)
LEMMA ServesTells ==
  ASSUME TextTypes, FreshIds, Serves
  PROVE  /\ nextId' \in { nextId, nextId + 1 } /\ lane' = lane
         /\ boards' \subseteq boards /\ raced \subseteq raced'
         /\ \/ UNCHANGED << reply, news, kept >> /\ here' \in { here, Nowhere }
            \/ \E e \in Letters :
                 /\ Tells(e) /\ LetterFresh(e, nextId')
                 /\ \A b \in Boards : Buries(e, b) => b \notin boards'
                 /\ here' \in { here, Nowhere } \/ (e.sig \in { "joined", "made" } /\ reply' = e)
                 /\ \A t \in Talks : t \in About(e) /\ Busy(t) => t \in raced'
                 /\ \A t \in Talks : kept'[t] = kept[t] \/ t \in About(e)
                 /\ e.sig = "posted" => e.message \in kept'[e.of]
                 /\ e.sig = "selected" => /\ reply' = e /\ news' = news /\ e.history = kept[e.of] /\ kept' = kept
                                         /\ \A b : e.of = Board(b) => HomeOf[b] = here'
  <1>0. nextId \in Nat /\ kept \in [ Talks -> SUBSET Msgs ]
    BY DEF TextTypes, ServerTypes
  <1>1. CASE Writes
    <2>1. PICK u \in Talks, x \in Msgs :
            /\ x.id = nextId /\ nextId' = nextId + 1 /\ kept' = [ kept EXCEPT ![u] = @ \cup { x } ]
            /\ Races(u) /\ Tells(Posted(u, x))
            /\ UNCHANGED << viewWorld, here, memberOf >>
      BY <1>1 DEF Writes
    <2> DEFINE e == Posted(u, x)
    <2>2. e \in Letters /\ e.sig = "posted" /\ e.of = u /\ e.message = x
      BY LettersMade, LetterPosted
    <2>3. LetterFresh(e, nextId') /\ \A b \in Boards : ~Buries(e, b)
      BY <1>0, <2>1, <2>2, TouchesAre DEF LetterFresh, Buries
    <2>4. \A t \in Talks : t \in About(e) => t = u
      BY <2>2 DEF About
    <2>5. boards' = boards /\ lane' = lane /\ here' = here
      BY <2>1, WorldSame DEF Tells
    <2> HIDE DEF e
    <2>6. raced \subseteq raced' /\ (Busy(u) => u \in raced')
      BY <2>1 DEF Races
    <2>7. (\A t \in Talks : kept'[t] = kept[t] \/ t = u) /\ x \in kept'[u] /\ u \in About(e)
      BY <1>0, <2>1, <2>2 DEF About
    <2> QED
      BY <1>0, <2>1, <2>2, <2>3, <2>4, <2>5, <2>6, <2>7 DEF e
  <1>2. CASE Changes
    <2>1. PICK u \in Talks : \E x \in kept[u], how \in Touches :
            /\ nextId' = nextId /\ kept' = [ kept EXCEPT ![u] = Replaced(@, x, how) ]
            /\ Races(u) /\ Tells(Letter(u, how, x.id))
            /\ UNCHANGED << viewWorld, here, memberOf >>
      BY <1>2 DEF Changes
    <2>2. PICK x \in kept[u], how \in Touches :
            /\ nextId' = nextId /\ kept' = [ kept EXCEPT ![u] = Replaced(@, x, how) ]
            /\ Races(u) /\ Tells(Letter(u, how, x.id))
            /\ UNCHANGED << viewWorld, here, memberOf >>
      BY <2>1
    <2> DEFINE e == Letter(u, how, x.id)
    <2>3. x.id \in Nat /\ x.id < nextId
      BY <1>0 DEF Msgs, FreshIds, Below
    <2>4. e \in Letters /\ e.sig = how /\ e.of = u /\ e.id = x.id
      BY <2>3, LettersMade, LetterTouch
    <2>5. LetterFresh(e, nextId') /\ \A b \in Boards : ~Buries(e, b)
      BY <2>2, <2>3, <2>4, TouchesAre DEF LetterFresh, Buries
    <2>6. \A t \in Talks : t \in About(e) => t = u
      BY <2>4 DEF About
    <2>7. boards' = boards /\ lane' = lane /\ here' = here
      BY <2>2, WorldSame DEF Tells
    <2>8. raced \subseteq raced' /\ (Busy(u) => u \in raced')
      BY <2>2 DEF Races
    <2>9. e.sig \notin { "posted", "selected" } /\ u \in About(e)
      BY <2>4, TouchesAre DEF About
    <2>10. \A t \in Talks : kept'[t] = kept[t] \/ t = u
      BY <1>0, <2>2
    <2> HIDE DEF e
    <2> QED
      BY <1>0, <2>2, <2>4, <2>5, <2>6, <2>7, <2>8, <2>9, <2>10 DEF e
  <1>3. CASE Selects
    <2>1. PICK u \in Talks : /\ Tells([ sig |-> "selected", of |-> u, history |-> kept[u] ]) /\ Races(u)
                             /\ reply = NoReply /\ reply' = [ sig |-> "selected", of |-> u, history |-> kept[u] ]
                             /\ (u[1] = "board" => HomeOf[u[2]] = here)
                             /\ UNCHANGED << nextId, kept, viewWorld, here >>
      BY <1>3 DEF Selects
    <2> DEFINE e == [ sig |-> "selected", of |-> u, history |-> kept[u] ]
    <2>2. e \in Letters /\ e.sig = "selected" /\ e.of = u /\ e.history = kept[u]
      BY <1>0, LettersMade
    <2>3. LetterFresh(e, nextId') /\ \A b \in Boards : ~Buries(e, b)
      BY <2>1, <2>2, TouchesAre DEF LetterFresh, Buries, FreshIds
    <2>4. \A t \in Talks : t \in About(e) => t = u
      BY <2>2 DEF About
    <2>5. boards' = boards /\ lane' = lane /\ here' = here
      BY <2>1, WorldSame DEF Tells
    <2>6. raced \subseteq raced' /\ (Busy(u) => u \in raced')
      BY <2>1 DEF Races
    <2>7. \A b : u = Board(b) => HomeOf[b] = here'
      BY <2>1, <2>5, Boarded
    <2>8. reply' = e /\ news' = news
      <3>1. e # NoReply
        BY <2>2, LetterKinds
      <3> QED
        BY <2>1, <3>1 DEF Tells
    <2> HIDE DEF e
    <2> QED
      BY <1>0, <2>1, <2>2, <2>3, <2>4, <2>5, <2>6, <2>7, <2>8 DEF e
  <1>4. CASE Announces
    <2>1. PICK e \in Letters :
            /\ e.sig \notin Touches \cup { "posted", "selected" }
            /\ Tells(e) /\ UNCHANGED << nextId, kept, raced >>
            /\ boards' \subseteq boards /\ \A b \in Boards : Buries(e, b) => b \notin boards'
            /\ here' \in { here, Nowhere } \/ (e.sig \in { "joined", "made" } /\ reply' = e)
      BY <1>4 DEF Announces
    <2>2. LetterFresh(e, nextId') /\ About(e) = {}
      BY <2>1, TouchesAre DEF LetterFresh, About
    <2> QED
      BY <2>1, <2>2 DEF Tells
  <1>5. CASE Silent
    BY <1>5 DEF Silent
  <1> QED
    BY <1>1, <1>2, <1>3, <1>4, <1>5 DEF Serves

LEMMA BelowGrows ==
  ASSUME NEW D, NEW n \in Nat, NEW m \in Nat, n <= m, Below(D, n), D \subseteq Msgs
  PROVE  Below(D, m)
  BY DEF Below, Msgs

LEMMA FreshGrows ==
  ASSUME NEW e \in Letters, NEW n \in Nat, NEW m \in Nat, n <= m, LetterFresh(e, n)
  PROVE  LetterFresh(e, m)
  <1>1. /\ e.sig = "posted" => e.message.id \in Nat
        /\ e.sig \in Touches => e.id \in Nat
        /\ e.sig = "selected" => e.history \subseteq Msgs
    BY LetterKinds DEF Msgs
  <1> QED
    BY <1>1, BelowGrows DEF LetterFresh

LEMMA ServesFresh ==
  ASSUME TextTypes, FreshIds, Serves
  PROVE  FreshIds'
  <1>0. nextId \in Nat /\ kept \in [ Talks -> SUBSET Msgs ] /\ MailTypes /\ DOMAIN shown \subseteq Nat
    BY DEF TextTypes, ServerTypes, ClientTypes
  <1>1. nextId' \in { nextId, nextId + 1 } /\ lane' = lane
    BY ServesTells
  <1>2. nextId' \in Nat /\ nextId <= nextId'
    BY <1>0, <1>1
  <1>3. ASSUME NEW t \in Talks
        PROVE  Below(kept'[t], nextId') /\ Distinct(kept'[t])
    <2>0. kept[t] \in SUBSET Msgs /\ Below(kept[t], nextId) /\ Distinct(kept[t])
      BY <1>0 DEF FreshIds
    <2>1. Below(kept[t], nextId')
      BY <1>0, <1>2, <2>0, BelowGrows
    <2>2. CASE Writes
      <3>1. PICK u \in Talks, x \in Msgs :
              x.id = nextId /\ nextId' = nextId + 1 /\ kept' = [ kept EXCEPT ![u] = @ \cup { x } ]
        BY <2>2 DEF Writes
      <3>2. kept'[t] \subseteq kept[t] \cup { x }
        BY <1>0, <3>1
      <3>3. \A k \in kept[t] : k.id \in Nat /\ k.id < nextId
        BY <2>0 DEF Below, Msgs
      <3> QED
        BY <1>0, <2>0, <3>1, <3>2, <3>3 DEF Below, Distinct
    <2>3. CASE Changes
      <3>1. PICK u \in Talks : \E x \in kept[u], how \in Touches :
                                  kept' = [ kept EXCEPT ![u] = Replaced(@, x, how) ]
        BY <2>3 DEF Changes
      <3>2. CASE t = u
        <4>1. PICK x \in kept[t], how \in Touches : kept'[t] = Replaced(kept[t], x, how)
          BY <1>0, <3>1, <3>2
        <4>2. \A k \in kept'[t] : \/ k = Touched(x, how) /\ k.id = x.id /\ how # "delete"
                                  \/ k \in kept[t] /\ k.id # x.id
          BY <2>0, <4>1, ReplacedIds
        <4>3. \A k \in kept'[t] : \E m \in kept[t] : m.id = k.id
          BY <4>1, <4>2
        <4> QED
          BY <2>0, <2>1, <4>2, <4>3 DEF Below, Distinct
      <3>3. CASE t # u
        BY <1>0, <2>0, <2>1, <3>1, <3>3
      <3> QED
        BY <3>2, <3>3
    <2>4. CASE kept' = kept
      BY <2>0, <2>1, <2>4
    <2> QED
      BY <2>2, <2>3, <2>4 DEF Serves, Selects, Announces, Silent
  <1>4. \A id \in DOMAIN shown' : id < nextId'
    <2>1. shown' = shown
      BY DEF Serves
    <2> QED
      BY <1>0, <1>2, <2>1 DEF FreshIds
  <1>5. \A e \in Mail(0) : LetterFresh(e, nextId')
    BY <1>0, <1>2, MailAre, FreshGrows DEF FreshIds
  <1>6. \A e \in Mail(0)' : LetterFresh(e, nextId')
    <2>1. \/ Mail(0)' = Mail(0)
          \/ \E e \in Letters : LetterFresh(e, nextId') /\ Mail(0)' = Mail(0) \cup { e }
      BY <1>1, ServesTells, MailSame, MailTold
    <2> QED
      BY <1>5, <2>1
  <1> QED
    BY <1>3, <1>4, <1>6 DEF FreshIds

LEMMA ServesBuried ==
  ASSUME TextTypes, FreshIds, Buried, Serves
  PROVE  Buried'
  <1>0. lane' = lane /\ app' = app /\ boards' \subseteq boards
    BY ServesTells DEF Serves
  <1>1. \/ Mail(0)' = Mail(0)
        \/ \E e \in Letters : /\ Mail(0)' = Mail(0) \cup { e }
                              /\ \A b \in Boards : Buries(e, b) => b \notin boards'
    BY <1>0, ServesTells, MailSame, MailTold
  <1>2. \A b : Lost(b)' <=> Lost(b)
    BY <1>0 DEF Lost
  <1> QED
    BY <1>0, <1>1, <1>2 DEF Buried

LEMMA ServesSteady ==
  ASSUME TextTypes, FreshIds, Serves, NEW p, Steady(p)', here' # Nowhere
  PROVE  Steady(p) /\ here' = here
  <1>0. lane' = lane
    BY ServesTells
  <1>1. \/ Mail(p)' = Mail(p) /\ here' \in { here, Nowhere }
        \/ \E e \in Letters : /\ Mail(p)' = Mail(p) \cup { e }
                              /\ here' \in { here, Nowhere } \/ e.sig \in { "joined", "made" }
    BY <1>0, ServesTells, MailSame, MailTold
  <1> QED
    BY <1>1 DEF Steady

(* A claim about a list survives, whatever the server does. *)
LEMMA LostBySame ==
  ASSUME MailTypes, app' = app, \A i \in 1 .. Len(lane) : lane'[i] = lane[i]
  PROVE  \A b : \A p \in 0 .. Len(lane) : LostBy(b, p)' <=> LostBy(b, p)
  <1> SUFFICES ASSUME NEW b, NEW p \in 0 .. Len(lane)
               PROVE  LostBy(b, p)' <=> LostBy(b, p)
    OBVIOUS
  <1>1. \A i \in 1 .. p : i \in 1 .. Len(lane)
    BY DEF MailTypes
  <1>2. \A i \in 1 .. p : Buries(lane'[i], b) <=> Buries(lane[i], b)
    BY <1>1
  <1> QED
    BY <1>2 DEF LostBy, Lost

LEMMA NotLost ==
  ASSUME MailTypes, Buried, NEW b \in Boards, b \in boards, NEW p \in 0 .. Len(lane)
  PROVE  ~LostBy(b, p)
  <1>1. \A i \in 1 .. p : i \in 1 .. Len(lane) /\ i > 0
    BY DEF MailTypes
  <1>2. \A i \in 1 .. p : lane[i] \in Mail(0)
    BY <1>1, MailAre
  <1> QED
    BY <1>2 DEF Buried, LostBy

LEMMA ServesPosts ==
  ASSUME TextTypes, Serves, NEW b \in Boards, NEW p, Posts(Due(Board(b), p)') # Posts(Due(Board(b), p))
  PROVE  b \in boards
  <1> DEFINE t == Board(b)
  <1>0. t \in Talks
    BY TalksMade
  <1>1. CASE Writes
    <2>1. PICK u \in Talks, x \in Msgs : Tells(Posted(u, x)) /\ (u[1] = "board" => u[2] \in boards)
      BY <1>1 DEF Writes
    <2>2. t = u
      BY <1>0, <2>1, LettersMade, DueTold, TalkNames
    <2> QED
      BY <2>1, <2>2, Boarded
  <1>2. CASE ~Writes
    <2> SUFFICES ASSUME TRUE PROVE FALSE
      OBVIOUS
    <2>1. CASE Changes
      <3>1. PICK u \in Talks : \E x \in kept[u], how \in Touches : Tells(Letter(u, how, x.id))
        BY <2>1 DEF Changes
      <3>2. PICK x \in kept[u], how \in Touches : Tells(Letter(u, how, x.id))
        BY <3>1
      <3>3. x.id \in Nat
        BY DEF TextTypes, ServerTypes, Msgs
      <3>4. \/ Due(t, p)' = Due(t, p)
            \/ Due(t, p)' = Due(t, p) \cup { Letter(u, how, x.id) }
        BY <3>2, <3>3, LettersMade, DueTold
      <3> QED
        BY <3>2, <3>4, PostsTouch
    <2>2. ASSUME NEW e \in Letters, Tells(e), e.sig \notin Touches \cup { "posted" }
          PROVE  FALSE
      BY <2>2, DueTold DEF Matters
    <2>3. CASE Selects
      <3>1. PICK u \in Talks : Tells([ sig |-> "selected", of |-> u, history |-> kept[u] ])
        BY <2>3 DEF Selects
      <3> DEFINE e == [ sig |-> "selected", of |-> u, history |-> kept[u] ]
      <3>2. e \in Letters /\ e.sig \notin Touches \cup { "posted" }
        BY LettersMade, TouchesAre DEF TextTypes, ServerTypes
      <3> QED
        BY <2>2, <3>1, <3>2
    <2>4. CASE Announces
      BY <2>2, <2>4 DEF Announces
    <2>5. CASE Silent
      BY <2>5, MailSame DEF Silent
    <2> QED
      BY <1>2, <2>1, <2>3, <2>4, <2>5 DEF Serves
  <1> QED
    BY <1>1, <1>2

LEMMA ClaimServes ==
  ASSUME TextTypes, FreshIds, Buried, Serves, NEW b \in Boards, NEW p \in 0 .. Len(lane),
         NEW D \in SUBSET Msgs, Below(D, nextId), Claim(D, b, p)
  PROVE  /\ Listed(D, kept'[Board(b)], Due(Board(b), p)')
         /\ Posts(Due(Board(b), p)') # {} => ~LostBy(b, p)
  <1> DEFINE t == Board(b)
  <1>0. t \in Talks /\ nextId \in Nat /\ kept[t] \in SUBSET Msgs /\ MailTypes
    BY TalksMade DEF TextTypes, ServerTypes
  <1>1. Moves(t, kept[t], Due(t, p), kept'[t], Due(t, p)', nextId)
    BY <1>0, ServesMoves
  <1>2. Listed(D, kept'[t], Due(t, p)')
    BY <1>0, <1>1, MovesListed DEF Claim
  <1>3. Posts(Due(t, p)') # {} => ~LostBy(b, p)
    <2>1. CASE Posts(Due(t, p)') = Posts(Due(t, p))
      BY <2>1 DEF Claim
    <2>2. CASE Posts(Due(t, p)') # Posts(Due(t, p))
      BY <1>0, <2>2, ServesPosts, NotLost
    <2> QED
      BY <2>1, <2>2
  <1> QED
    BY <1>2, <1>3

LEMMA FoundServes ==
  ASSUME TextTypes, FreshIds, Serves, NEW b \in Boards, NEW p, NEW D, NEW k \in kept'[Board(b)]
  PROVE  \/ Found(k, D, Due(Board(b), p)')
         \/ \E m \in kept[Board(b)] :
               m.mine = k.mine /\ (Found(m, D, Due(Board(b), p)) => Found(k, D, Due(Board(b), p)'))
  <1> DEFINE t == Board(b)
  <1>0. t \in Talks /\ nextId \in Nat /\ kept[t] \in SUBSET Msgs /\ Distinct(kept[t])
    BY TalksMade DEF TextTypes, ServerTypes, FreshIds
  <1>1. Moves(t, kept[t], Due(t, p), kept'[t], Due(t, p)', nextId)
    BY <1>0, ServesMoves
  <1> QED
    BY <1>0, <1>1, MovesFound

LEMMA AboutWhat ==
  /\ About(NoReply) = {} /\ NoReply.sig = "none"
  /\ \A e, t : Matters(e, t) => t \in About(e)
  /\ \A e, b : PostedIs(e, b) => Matters(e, Board(b)) /\ Board(b) \in About(e)
  /\ \A e, t : e.sig = "selected" => (t \in About(e) <=> e.of = t)
  BY TouchesAre DEF About, NoReply, Matters, PostedIs

LEMMA BusyNot ==
  ASSUME NEW t, ~Busy(t)
  PROVE  t \notin About(reply) /\ \A e \in news : t \notin About(e)
  BY DEF Busy, Events

LEMMA ServesSingle ==
  ASSUME TextTypes, FreshIds, Serves, NEW t \in Talks, t \notin raced', Single(t)
  PROVE  Single(t)'
  <1>1. CASE UNCHANGED << reply, news >>
    BY <1>1 DEF Single
  <1>2. ASSUME NEW e \in Letters, Tells(e), t \in About(e) /\ Busy(t) => t \in raced'
        PROVE  Single(t)'
    <2>1. CASE t \in About(e)
      <3>1. t \notin About(reply) /\ \A f \in news : t \notin About(f)
        BY <1>2, <2>1, BusyNot
      <3> QED
        BY <1>2, <3>1 DEF Single, Tells
    <2>2. CASE t \notin About(e)
      BY <1>2, <2>2 DEF Single, Tells
    <2> QED
      BY <2>1, <2>2
  <1> QED
    BY <1>1, <1>2, ServesTells

LEMMA ServesHeld ==
  ASSUME TextTypes, FreshIds, Serves, NEW b \in Boards, Board(b) \notin raced', HeldTrue(b)
  PROVE  HeldTrue(b)'
  <1> DEFINE t == Board(b)
  <1>0. t \in Talks /\ news \subseteq Letters /\ reply \in Letters \cup { NoReply }
    BY TalksMade DEF TextTypes, MailTypes
  <1>1. CASE UNCHANGED << reply, news, kept >>
    BY <1>1 DEF HeldTrue
  <1>2. ASSUME NEW e \in Letters, Tells(e), t \in About(e) /\ Busy(t) => t \in raced',
               kept'[t] = kept[t] \/ t \in About(e), e.sig = "posted" => e.message \in kept'[e.of],
               e.sig = "selected" => reply' = e /\ e.history = kept[e.of] /\ kept' = kept
        PROVE  HeldTrue(b)'
    <2>1. e.sig = "selected" /\ e.of = t => e.history = kept'[t]
      BY <1>2
    <2>2. PostedIs(e, b) => e.message \in kept'[t]
      BY <1>2 DEF PostedIs
    <2>3. CASE t \in About(e)
      <3>1. t \notin About(reply) /\ \A f \in news : t \notin About(f)
        BY <1>2, <2>3, BusyNot
      <3>2. (\A f \in news \cup { reply } : ~PostedIs(f, b)) /\ ~(reply.sig = "selected" /\ reply.of = t)
        BY <1>0, <3>1, AboutWhat DEF PostedIs
      <3> QED
        BY <1>2, <2>1, <2>2, <3>2 DEF HeldTrue, Tells
    <2>4. CASE t \notin About(e)
      <3>1. kept'[t] = kept[t]
        BY <1>2, <2>4
      <3> QED
        BY <1>2, <2>1, <2>2, <3>1 DEF HeldTrue, Tells
    <2> QED
      BY <2>3, <2>4
  <1> QED
    BY <1>0, <1>1, <1>2, ServesTells

LEMMA ServesLanePosted ==
  ASSUME TextTypes, FreshIds, Serves, NEW b \in Boards, LanePosted(b)
  PROVE  LanePosted(b)'
  <1> DEFINE t == Board(b)
  <1>0. t \in Talks /\ nextId \in Nat /\ kept[t] \in SUBSET Msgs /\ lane' = lane /\ MailTypes
    BY TalksMade, ServesTells DEF TextTypes, ServerTypes
  <1> SUFFICES ASSUME NEW i \in 1 .. Len(lane), PostedIs(lane[i], b)
               PROVE  /\ HomeOf[b] = here' /\ Steady(i)' => Entry(lane[i].message, kept'[t], Due(t, i)')
                      /\ \A x \in Posts(Due(t, i)') : x.id # lane[i].message.id
    BY <1>0 DEF LanePosted
  <1>1. Moves(t, kept[t], Due(t, i), kept'[t], Due(t, i)', nextId)
    BY <1>0, ServesMoves
  <1>2. /\ HomeOf[b] = here /\ Steady(i) => Entry(lane[i].message, kept[t], Due(t, i))
        /\ \A x \in Posts(Due(t, i)) : x.id # lane[i].message.id
    BY DEF LanePosted
  <1>3. HomeOf[b] = here' /\ Steady(i)' => HomeOf[b] = here /\ Steady(i)
    BY ServesSteady, TextAssumption
  <1>4. lane[i].message.id < nextId /\ lane[i].message.id \in Nat
    <2>1. lane[i] \in Letters /\ lane[i] \in Mail(0)
      BY <1>0, MailAre
    <2>2. LetterFresh(lane[i], nextId) /\ lane[i].sig = "posted"
      BY <2>1 DEF FreshIds, PostedIs
    <2> QED
      BY <2>1, <2>2, LetterKinds DEF LetterFresh, Msgs
  <1>5. HomeOf[b] = here' /\ Steady(i)' => Entry(lane[i].message, kept'[t], Due(t, i)')
    BY <1>0, <1>1, <1>2, <1>3, MovesEntry
  <1>6. ASSUME NEW x \in Posts(Due(t, i)') PROVE x.id # lane[i].message.id
    <2>1. x \in Posts(Due(t, i)) \/ x.id = nextId
      BY <1>0, <1>1, MovesPosts
    <2> QED
      BY <1>0, <1>2, <1>4, <2>1
  <1> QED
    BY <1>5, <1>6

LEMMA ServesAgreed ==
  ASSUME TextTypes, FreshIds, Serves, NEW t \in Talks, Agreed(kept[t], Due(t, 0))
  PROVE  Agreed(kept'[t], Due(t, 0)')
  <1>0. /\ nextId \in Nat /\ kept[t] \in SUBSET Msgs /\ MailTypes
        /\ Distinct(kept[t]) /\ Below(kept[t], nextId)
    BY DEF TextTypes, ServerTypes, FreshIds
  <1>1. Moves(t, kept[t], Due(t, 0), kept'[t], Due(t, 0)', nextId)
    BY <1>0, ServesMoves
  <1>2. \A e \in Due(t, 0) : e.sig \in Touches => e.id \in Nat /\ e.id < nextId
    BY <1>0, MailAre, LetterKinds DEF Due, FreshIds, LetterFresh
  <1> QED
    BY <1>0, <1>1, <1>2, MovesAgreed

LEMMA ServesTalks ==
  ASSUME TextTypes, FreshIds, TalksTrue, Serves
  PROVE  TalksTrue'
  <1> SUFFICES ASSUME NEW b \in Boards, Board(b) \notin raced'
               PROVE  /\ Single(Board(b))' /\ Agreed(kept'[Board(b)], Due(Board(b), 0)')
                      /\ LanePosted(b)' /\ HeldTrue(b)'
    BY DEF TalksTrue, TalkTrue
  <1>1. Board(b) \in Talks /\ Board(b) \notin raced
    BY TalksMade, ServesTells
  <1>2. /\ Single(Board(b)) /\ Agreed(kept[Board(b)], Due(Board(b), 0))
        /\ LanePosted(b) /\ HeldTrue(b)
    BY <1>1 DEF TalksTrue, TalkTrue
  <1> QED
    BY <1>1, <1>2, ServesSingle, ServesAgreed, ServesLanePosted, ServesHeld

LEMMA ServesReply ==
  ASSUME TextTypes, FreshIds, ReplyTrue, Serves
  PROVE  ReplyTrue'
  <1>1. CASE UNCHANGED << reply, news >> /\ here' \in { here, Nowhere }
    BY <1>1 DEF ReplyTrue
  <1>2. ASSUME NEW e \in Letters, Tells(e),
               here' \in { here, Nowhere } \/ (e.sig \in { "joined", "made" } /\ reply' = e),
               e.sig = "selected" => /\ reply' = e /\ news' = news
                                     /\ \A b : e.of = Board(b) => HomeOf[b] = here'
        PROVE  ReplyTrue'
    <2>0. \A f \in news' : f.sig # "selected"
      BY <1>2 DEF ReplyTrue, Tells
    <2>1. CASE reply' = e
      BY <1>2, <2>0, <2>1 DEF ReplyTrue
    <2>2. CASE reply' = reply /\ reply' # e
      BY <1>2, <2>0, <2>2 DEF ReplyTrue
    <2> QED
      BY <1>2, <2>1, <2>2 DEF Tells
  <1> QED
    BY <1>1, <1>2, ServesTells

LEMMA ServesLane ==
  ASSUME TextTypes, FreshIds, Buried, LaneTrue, Serves
  PROVE  LaneTrue'
  <1>0. lane' = lane /\ app' = app /\ raced \subseteq raced' /\ MailTypes
    BY ServesTells DEF Serves, TextTypes
  <1> SUFFICES ASSUME NEW p \in 1 .. Len(lane), NEW b \in Boards,
                      lane[p].sig = "selected", here' # Nowhere, Steady(p)', lane[p].of = Board(b)
               PROVE  /\ HomeOf[b] = here'
                      /\ Board(b) \notin raced' =>
                           /\ Listed(lane[p].history, kept'[Board(b)], Due(Board(b), p)')
                           /\ Posts(Due(Board(b), p)') # {} => ~LostBy(b, p)'
                           /\ \A k \in kept'[Board(b)] : Found(k, lane[p].history, Due(Board(b), p)')
    BY <1>0 DEF LaneTrue, Claim
  <1>1. Steady(p) /\ here' = here
    BY ServesSteady
  <1>2. /\ HomeOf[b] = here
        /\ Board(b) \notin raced =>
             /\ Claim(lane[p].history, b, p)
             /\ \A k \in kept[Board(b)] : Found(k, lane[p].history, Due(Board(b), p))
    BY <1>1 DEF LaneTrue
  <1>3. p \in 0 .. Len(lane) /\ p \in Nat
    BY <1>0 DEF MailTypes
  <1>4. lane[p].history \in SUBSET Msgs /\ Below(lane[p].history, nextId)
    BY <1>0, MailAre, LetterKinds DEF FreshIds, LetterFresh
  <1>5. LostBy(b, p)' <=> LostBy(b, p)
    BY <1>0, <1>3, LostBySame
  <1>6. Board(b) \notin raced =>
          /\ Listed(lane[p].history, kept'[Board(b)], Due(Board(b), p)')
          /\ Posts(Due(Board(b), p)') # {} => ~LostBy(b, p)
    BY <1>2, <1>3, <1>4, ClaimServes
  <1>7. Board(b) \notin raced =>
          \A k \in kept'[Board(b)] : Found(k, lane[p].history, Due(Board(b), p)')
    <2> SUFFICES ASSUME Board(b) \notin raced, NEW k \in kept'[Board(b)]
                 PROVE  Found(k, lane[p].history, Due(Board(b), p)')
      OBVIOUS
    <2> QED
      BY <1>2, FoundServes
  <1> QED
    BY <1>0, <1>1, <1>2, <1>5, <1>6, <1>7

LEMMA ServesWindow ==
  ASSUME WindowTrue, Serves, Unsure => Unsure'
  PROVE  WindowTrue'
  BY DEF WindowTrue, Serves, OnBoard, Agreeing

LEMMA RowsBelow ==
  ASSUME FreshIds, RowsTidy
  PROVE  Rows \in SUBSET Msgs /\ Below(Rows, nextId) /\ Distinct(Rows)
  BY DEF FreshIds, RowsTidy, Rows, Below, Distinct

LEMMA ServesShown ==
  ASSUME TextTypes, FreshIds, Buried, ShownTrue, Serves, Unsure => Unsure'
  PROVE  ShownTrue'
  <1>0. /\ lane' = lane /\ win' = win /\ app' = app /\ shown' = shown /\ raced \subseteq raced' /\ MailTypes
        /\ 0 \in 0 .. Len(lane)
    BY ServesTells DEF Serves, TextTypes, MailTypes
  <1> SUFFICES ASSUME Rested', NEW b, b = win.chan
               PROVE  /\ HomeOf[b] = here'
                      /\ Board(b) \notin raced' =>
                           /\ RowsTidy' /\ Listed(Rows', kept'[Board(b)], Due(Board(b), 0)')
                           /\ Posts(Due(Board(b), 0)') # {} => ~LostBy(b, 0)'
                           /\ \A k \in kept'[Board(b)] :
                                Found(k, Rows', Due(Board(b), 0)') \/ k.mine \/ Board(b) \in app.unread
    BY <1>0 DEF ShownTrue, Display, Claim
  <1>1. Steady(0) /\ here' = here
    BY ServesSteady DEF Rested
  <1>2. Rested
    BY <1>0, <1>1 DEF Rested, OnBoard
  <1>3. Display(b)
    BY <1>2 DEF ShownTrue
  <1>4. b \in Boards
    BY <1>2 DEF Rested, OnBoard, TextTypes, ClientTypes
  <1>5. RowsTidy' <=> RowsTidy
    BY <1>0 DEF RowsTidy, Row
  <1>6. Rows' = Rows
    BY <1>0 DEF Rows, Row
  <1>7. LostBy(b, 0)' <=> LostBy(b, 0)
    BY <1>0, LostBySame
  <1> SUFFICES ASSUME Board(b) \notin raced'
               PROVE  /\ RowsTidy /\ Listed(Rows, kept'[Board(b)], Due(Board(b), 0)')
                      /\ Posts(Due(Board(b), 0)') # {} => ~LostBy(b, 0)
                      /\ \A k \in kept'[Board(b)] :
                           Found(k, Rows, Due(Board(b), 0)') \/ k.mine \/ Board(b) \in app.unread
    BY <1>0, <1>1, <1>3, <1>5, <1>6, <1>7 DEF Display
  <1>8. /\ RowsTidy /\ Claim(Rows, b, 0)
        /\ \A k \in kept[Board(b)] :
               Found(k, Rows, Due(Board(b), 0)) \/ k.mine \/ Board(b) \in app.unread
    BY <1>0, <1>3 DEF Display
  <1>9. Rows \in SUBSET Msgs /\ Below(Rows, nextId)
    BY <1>8, RowsBelow
  <1>10. /\ Listed(Rows, kept'[Board(b)], Due(Board(b), 0)')
         /\ Posts(Due(Board(b), 0)') # {} => ~LostBy(b, 0)
    BY <1>0, <1>4, <1>8, <1>9, ClaimServes
  <1>11. \A k \in kept'[Board(b)] :
            Found(k, Rows, Due(Board(b), 0)') \/ k.mine \/ Board(b) \in app.unread
    BY <1>4, <1>8, FoundServes
  <1> QED
    BY <1>8, <1>10, <1>11

(* What is asked for is answered or refused. *)
LEMMA HandleUnsure ==
  ASSUME TextTypes, FreshIds, Unsure, NEW a \in asks, ViewHandle(a)
  PROVE  Unsure'
  <1>1. /\ Serves /\ asks' = asks \ { a } /\ (refused => refused')
        /\ a.kind = "select" => Selects \/ refused'
    BY HandleServes
  <1>2. Mail(0) \subseteq Mail(0)'
    BY <1>1, ServesTells, MailSame, MailTold
  <1>3. CASE refused'
    BY <1>3 DEF Unsure
  <1>4. CASE Selects
    <2>1. PICK t \in Talks : Tells([ sig |-> "selected", of |-> t, history |-> kept[t] ])
      BY <1>4 DEF Selects
    <2> DEFINE e == [ sig |-> "selected", of |-> t, history |-> kept[t] ]
    <2>2. e \in Letters /\ e.sig = "selected"
      BY LettersMade DEF TextTypes, ServerTypes
    <2>3. Mail(0)' = Mail(0) \cup { e }
      BY <2>1, <2>2, MailTold
    <2> HIDE DEF e
    <2>4. Pending'
      BY <2>2, <2>3 DEF Pending
    <2> QED
      BY <2>4 DEF Unsure
  <1>5. CASE Pending /\ a.kind # "select"
    BY <1>1, <1>2, <1>5 DEF Pending, Unsure
  <1> QED
    BY <1>1, <1>3, <1>4, <1>5 DEF Unsure

LEMMA NewsUnsure ==
  ASSUME TextTypes, FreshIds, Unsure, ViewNews
  PROVE  Unsure'
  <1>1. Serves /\ asks' = asks /\ refused' = refused
    BY NewsServes
  <1>2. Mail(0) \subseteq Mail(0)'
    BY <1>1, ServesTells, MailSame, MailTold
  <1> QED
    BY <1>1, <1>2 DEF Unsure, Pending

LEMMA ServesInv ==
  ASSUME TextInv, Serves, Unsure => Unsure', TextTypes'
  PROVE  TextInv'
  BY ServesFresh, ServesBuried, ServesTalks, ServesReply, ServesLane, ServesWindow, ServesShown DEF TextInv

LEMMA HandleInv ==
  ASSUME TextInv, NEW a \in asks, ViewHandle(a)
  PROVE  TextInv'
  <1>1. TextTypes /\ FreshIds
    BY DEF TextInv
  <1>2. Serves /\ asks' = asks \ { a }
    BY <1>1, HandleServes
  <1>3. ServerTypes'
    BY <1>1, <1>2, HandleServes, ServesTypes DEF ServerTypes
  <1>4. TextTypes'
    BY <1>1, <1>2, <1>3, ServesTypes DEF TextTypes
  <1> QED
    BY <1>1, <1>2, <1>4, HandleUnsure, ServesInv

LEMMA NewsInv ==
  ASSUME TextInv, ViewNews
  PROVE  TextInv'
  <1>1. TextTypes /\ FreshIds
    BY DEF TextInv
  <1>2. Serves /\ asks' = asks
    BY <1>1, NewsServes
  <1>3. ServerTypes'
    BY <1>1, <1>2, NewsServes, ServesTypes DEF ServerTypes
  <1>4. TextTypes'
    BY <1>1, <1>2, <1>3, ServesTypes DEF TextTypes
  <1> QED
    BY <1>1, <1>2, <1>4, NewsUnsure, ServesInv

-----------------------------------------------------------------------------
(* A letter joins the lane, after all that is there. *)
Delivers(e) ==
    /\ e \in Letters /\ MailTypes'
    /\ Len(lane') = Len(lane) + 1 /\ lane'[Len(lane) + 1] = e
    /\ \A i \in 1 .. Len(lane) : lane'[i] = lane[i]
    /\ \A p \in 0 .. Len(lane) : Mail(p)' = Mail(p) /\ \A t : Due(t, p)' = Due(t, p)
    /\ UNCHANGED << nextId, kept, viewWorld, here, memberOf, raced, asks, win, app, shown, refused >>

(* What is known of it, when nothing overlapped. *)
Sound(e, b, n) ==
    /\ e.sig = "selected" /\ e.of = Board(b) /\ here # Nowhere => HomeOf[b] = here
    /\ Board(b) \notin raced /\ Board(b) \in About(e) =>
        /\ Due(Board(b), n + 1)' = {}
        /\ PostedIs(e, b) => e.message \in kept[Board(b)]
        /\ e.sig = "selected" => e.history = kept[Board(b)]

LEMMA DeliversTypes ==
  ASSUME TextTypes, NEW e, Delivers(e)
  PROVE  TextTypes'
  BY WorldSame DEF Delivers, TextTypes, ServerTypes, ClientTypes

LEMMA DeliversFresh ==
  ASSUME MailTypes, FreshIds, NEW e, Delivers(e)
  PROVE  FreshIds'
  <1>1. Mail(0)' = Mail(0)
    BY DEF Delivers, MailTypes
  <1> QED
    BY <1>1 DEF Delivers, FreshIds

LEMMA DeliversBuried ==
  ASSUME MailTypes, Buried, NEW e, Delivers(e)
  PROVE  Buried'
  <1>1. Mail(0)' = Mail(0) /\ app' = app /\ boards' = boards
    BY WorldSame DEF Delivers, MailTypes
  <1>2. \A b : Lost(b)' <=> Lost(b)
    BY <1>1 DEF Lost
  <1> QED
    BY <1>1, <1>2 DEF Buried

LEMMA DeliversUnsure ==
  ASSUME MailTypes, NEW e, Delivers(e)
  PROVE  (Unsure' <=> Unsure) /\ (WindowTrue => WindowTrue')
  <1>1. Mail(0)' = Mail(0) /\ win' = win /\ app' = app /\ asks' = asks /\ refused' = refused
    BY DEF Delivers, MailTypes
  <1>2. Unsure' <=> Unsure
    BY <1>1 DEF Unsure, Pending
  <1> QED
    BY <1>1, <1>2 DEF WindowTrue, OnBoard, Agreeing

LEMMA DeliversShown ==
  ASSUME MailTypes, ShownTrue, NEW e, Delivers(e)
  PROVE  ShownTrue'
  <1>0. /\ win' = win /\ app' = app /\ shown' = shown /\ raced' = raced /\ here' = here /\ kept' = kept
        /\ Mail(0)' = Mail(0) /\ \A t : Due(t, 0)' = Due(t, 0)
    BY DEF Delivers, MailTypes
  <1>1. Rested' <=> Rested
    BY <1>0, DeliversUnsure DEF Rested, OnBoard, Steady
  <1>2. \A b : Display(b)' <=> Display(b)
    <2> SUFFICES ASSUME NEW b PROVE Display(b)' <=> Display(b)
      OBVIOUS
    <2>1. (RowsTidy' <=> RowsTidy) /\ Rows' = Rows
      BY <1>0 DEF RowsTidy, Rows, Row
    <2>2. LostBy(b, 0)' <=> LostBy(b, 0)
      BY <1>0, LostBySame DEF Delivers, MailTypes
    <2>3. Claim(Rows, b, 0)' <=> Claim(Rows, b, 0)
      BY <1>0, <2>1, <2>2 DEF Claim
    <2> QED
      BY <1>0, <2>1, <2>3 DEF Display
  <1> QED
    BY <1>0, <1>1, <1>2 DEF ShownTrue

LEMMA DeliversLanePosted ==
  ASSUME MailTypes, NEW b \in Boards, LanePosted(b), Board(b) \notin raced, NEW e, Delivers(e),
         NEW n, n = Len(lane), Sound(e, b, n)
  PROVE  LanePosted(b)'
  <1> DEFINE t == Board(b)
  <1>0. /\ n \in Nat /\ Len(lane') = n + 1 /\ kept' = kept /\ here' = here
        /\ \A i \in 1 .. n + 1 : i \in 1 .. n \/ i = n + 1
    BY DEF Delivers, MailTypes
  <1>1. ASSUME NEW i \in 1 .. n, PostedIs(lane[i], b)
        PROVE  /\ HomeOf[b] = here /\ Steady(i)' => Entry(lane[i].message, kept[t], Due(t, i)')
               /\ \A x \in Posts(Due(t, i)') : x.id # lane[i].message.id
    <2>1. Mail(i)' = Mail(i) /\ Due(t, i)' = Due(t, i)
      BY <1>0 DEF Delivers
    <2>2. Steady(i)' <=> Steady(i)
      BY <2>1 DEF Steady
    <2> QED
      BY <1>1, <2>1, <2>2 DEF LanePosted
  <1>2. ASSUME PostedIs(e, b)
        PROVE  /\ Entry(e.message, kept[t], Due(t, n + 1)')
               /\ \A x \in Posts(Due(t, n + 1)') : x.id # e.message.id
    <2>1. t \in About(e)
      BY <1>2, AboutWhat
    <2>2. Due(t, n + 1)' = {} /\ e.message \in kept[t]
      BY <1>2, <2>1 DEF Sound
    <2>3. Posts({}) = {}
      BY DEF Posts
    <2>4. Likens(e.message, e.message, {})
      BY DEF Likens
    <2> QED
      BY <2>2, <2>3, <2>4 DEF Entry
  <1>3. ASSUME NEW i \in 1 .. n + 1, PostedIs(lane'[i], b)
        PROVE  /\ HomeOf[b] = here /\ Steady(i)' => Entry(lane'[i].message, kept[t], Due(t, i)')
               /\ \A x \in Posts(Due(t, i)') : x.id # lane'[i].message.id
    <2>1. CASE i \in 1 .. n
      <3>1. lane'[i] = lane[i]
        BY <2>1 DEF Delivers
      <3> QED
        BY <1>1, <1>3, <2>1, <3>1
    <2>2. CASE i = n + 1
      <3>1. lane'[i] = e
        BY <2>2 DEF Delivers
      <3> QED
        BY <1>2, <1>3, <2>2, <3>1
    <2> QED
      BY <1>0, <2>1, <2>2
  <1> QED
    BY <1>0, <1>3 DEF LanePosted

LEMMA DeliversLane ==
  ASSUME MailTypes, FreshIds, LaneTrue, NEW e, Delivers(e),
         NEW n, n = Len(lane), \A b \in Boards : Sound(e, b, n)
  PROVE  LaneTrue'
  <1>0. /\ n \in Nat /\ Len(lane') = n + 1 /\ kept' = kept /\ here' = here /\ raced' = raced /\ app' = app
        /\ \A i \in 1 .. n + 1 : i \in 1 .. n \/ i = n + 1
    BY DEF Delivers, MailTypes
  <1> SUFFICES ASSUME NEW p \in 1 .. n + 1, NEW b \in Boards,
                      lane'[p].sig = "selected", here # Nowhere, Steady(p)', lane'[p].of = Board(b)
               PROVE  /\ HomeOf[b] = here
                      /\ Board(b) \notin raced =>
                           /\ Listed(lane'[p].history, kept[Board(b)], Due(Board(b), p)')
                           /\ Posts(Due(Board(b), p)') # {} => ~LostBy(b, p)'
                           /\ \A k \in kept[Board(b)] : Found(k, lane'[p].history, Due(Board(b), p)')
    BY <1>0 DEF LaneTrue, Claim
  <1>1. CASE p \in 1 .. n
    <2>1. /\ lane'[p] = lane[p] /\ Mail(p)' = Mail(p) /\ Due(Board(b), p)' = Due(Board(b), p)
          /\ p \in 0 .. n
      BY <1>0, <1>1 DEF Delivers
    <2>2. LostBy(b, p)' <=> LostBy(b, p)
      BY <1>0, <2>1, LostBySame DEF Delivers
    <2>3. Steady(p)
      BY <2>1 DEF Steady
    <2> QED
      BY <1>1, <2>1, <2>2, <2>3 DEF LaneTrue, Claim
  <1>2. CASE p = n + 1
    <2>1. lane'[p] = e
      BY <1>2 DEF Delivers
    <2>2. Board(b) \in About(e) /\ HomeOf[b] = here
      BY <2>1, AboutWhat DEF Sound
    <2>3. Board(b) \notin raced => e.history = kept[Board(b)] /\ Due(Board(b), p)' = {}
      BY <1>2, <2>1, <2>2 DEF Sound
    <2>4. Distinct(kept[Board(b)])
      BY TalksMade DEF FreshIds
    <2>5. Posts({}) = {}
      BY DEF Posts
    <2> QED
      BY <2>1, <2>2, <2>3, <2>4, <2>5, CopyListed
  <1> QED
    BY <1>0, <1>1, <1>2

LEMMA DeliversInv ==
  ASSUME TextInv, NEW e, Delivers(e), NEW n, n = Len(lane), \A b \in Boards : Sound(e, b, n),
         reply' \in { reply, NoReply }, news' \subseteq news
  PROVE  TextInv'
  <1>0. MailTypes /\ TextTypes
    BY DEF TextInv, TextTypes
  <1>1. TextTypes' /\ FreshIds' /\ Buried' /\ LaneTrue' /\ WindowTrue' /\ ShownTrue'
    BY <1>0, DeliversTypes, DeliversFresh, DeliversBuried, DeliversLane, DeliversUnsure, DeliversShown DEF TextInv
  <1>2. ReplyTrue'
    BY AboutWhat DEF TextInv, ReplyTrue, Delivers
  <1>3. ASSUME NEW b \in Boards, Board(b) \notin raced
        PROVE  /\ Single(Board(b))' /\ Agreed(kept'[Board(b)], Due(Board(b), 0)')
               /\ LanePosted(b)' /\ HeldTrue(b)'
    <2>0. TalkTrue(b)
      BY DEF TextInv, TalksTrue
    <2>1. Single(Board(b))'
      BY <1>3, <2>0, AboutWhat DEF TalkTrue, Single
    <2>2. kept' = kept /\ Due(Board(b), 0)' = Due(Board(b), 0)
      BY <1>0 DEF Delivers, MailTypes
    <2>3. HeldTrue(b)'
      BY <1>3, <2>0, <2>2, AboutWhat DEF TalkTrue, HeldTrue, PostedIs
    <2>4. LanePosted(b)'
      BY <1>0, <1>3, <2>0, DeliversLanePosted DEF TalkTrue
    <2> QED
      BY <1>3, <2>0, <2>1, <2>2, <2>3, <2>4 DEF TalkTrue
  <1>4. TalksTrue'
    BY <1>3 DEF TalksTrue, TalkTrue, Delivers
  <1> QED
    BY <1>1, <1>2, <1>4 DEF TextInv

(* A held letter about a channel where nothing overlapped is alone.        *)
LEMMA HeldSound ==
  ASSUME TextInv, NEW e \in Letters, NEW n, NEW b \in Boards,
         Mail(n + 1)' \subseteq news \cup ({ reply } \ { NoReply }),
         \/ e \in news /\ e \notin Mail(n + 1)'
         \/ e = reply /\ Mail(n + 1)' \subseteq news
  PROVE  Sound(e, b, n)
  <1> DEFINE t == Board(b)
  <1>1. e.sig = "selected" => e = reply
    BY DEF TextInv, ReplyTrue
  <1>2. ASSUME t \notin raced, t \in About(e) PROVE Due(t, n + 1)' = {}
    <2>1. Single(t)
      BY <1>2 DEF TextInv, TalksTrue, TalkTrue
    <2>2. ASSUME NEW f \in Mail(n + 1)', t \in About(f) PROVE FALSE
      <3>1. CASE e = reply /\ Mail(n + 1)' \subseteq news
        BY <1>2, <2>1, <2>2, <3>1 DEF Single
      <3>2. CASE e \in news /\ e \notin Mail(n + 1)' /\ f \in news
        BY <1>2, <2>1, <2>2, <3>2 DEF Single
      <3>3. CASE e \in news /\ f = reply
        BY <1>2, <2>1, <2>2, <3>3 DEF Single
      <3> QED
        BY <2>2, <3>1, <3>2, <3>3
    <2> QED
      BY <2>2, AboutWhat DEF Due
  <1>3. t \notin raced => HeldTrue(b)
    BY DEF TextInv, TalksTrue, TalkTrue
  <1>4. t \notin raced /\ PostedIs(e, b) => e.message \in kept[t]
    BY <1>3 DEF HeldTrue
  <1>5. t \notin raced /\ t \in About(e) /\ e.sig = "selected" => e.history = kept[t]
    BY <1>1, <1>3, AboutWhat DEF HeldTrue
  <1>6. e.sig = "selected" /\ e.of = t /\ here # Nowhere => HomeOf[b] = here
    BY <1>1 DEF TextInv, ReplyTrue
  <1> QED
    BY <1>2, <1>4, <1>5, <1>6 DEF Sound

LEMMA AnswerInv ==
  ASSUME TextInv, Answer
  PROVE  TextInv'
  <1>0. MailTypes
    BY DEF TextInv, TextTypes
  <1> SUFFICES ASSUME NEW n, n = Len(lane) PROVE TextInv'
    OBVIOUS
  <1>1. Delivers(reply) /\ reply \in Letters /\ Mail(n + 1)' = news
    BY <1>0, MailAnswer DEF Delivers, Answer, viewClient, viewCounts
  <1>2. \A b \in Boards : Sound(reply, b, n)
    BY <1>1, HeldSound
  <1>3. reply' = NoReply /\ news' = news
    BY DEF Answer
  <1> QED
    BY <1>1, <1>2, <1>3, DeliversInv

(* A letter nobody is to get goes: nothing the client is in is missing it. *)
LEMMA DropsInv ==
  ASSUME TextInv, NEW e \in news, Broadcast(e), ~Addressed(e)
  PROVE  TextInv'
  <1>0. /\ MailTypes /\ TextTypes
        /\ UNCHANGED << nextId, kept, viewWorld, here, memberOf, reply, raced, asks, win, app, shown, refused >>
        /\ news' = news \ { e }
    BY DEF TextInv, TextTypes, Broadcast, viewClient, viewCounts
  <1> SUFFICES ASSUME NEW n, n = Len(lane) PROVE TextInv'
    OBVIOUS
  <1>1. /\ e \in Letters /\ MailTypes' /\ lane' = lane /\ n \in Nat
        /\ \A p \in 0 .. n : Mail(p)' \subseteq Mail(p) /\ Mail(p) \subseteq Mail(p)' \cup { e }
    BY <1>0, MailBroadcast DEF MailTypes
  <1>2. e.sig \in Touches \cup { "posted" } /\ e.of[1] = "board" /\ HomeOf[e.of[2]] \notin memberOf
    BY DEF Addressed
  <1>3. e.sig \notin { "joined", "made", "selected" }
    BY <1>2, TouchesAre
  <1>4. \A p \in 0 .. n : \A t : Due(t, p)' \subseteq Due(t, p)
    BY <1>1 DEF Due
  <1>5. ASSUME NEW b \in Boards, HomeOf[b] = here, NEW p \in 0 .. n
        PROVE  Due(Board(b), p)' = Due(Board(b), p)
    <2>1. here \in memberOf
      BY <1>0, <1>5, TextAssumption DEF TextTypes, ServerTypes
    <2>2. e.of # Board(b)
      BY <1>2, <1>5, <2>1, Boarded
    <2> QED
      BY <1>1, <2>2 DEF Due, Matters
  <1>6. \A p \in 0 .. n : Steady(p)' => Steady(p)
    BY <1>1, <1>3 DEF Steady
  <1>7. \A b : \A p \in 0 .. n : LostBy(b, p)' <=> LostBy(b, p)
    BY <1>0, <1>1, LostBySame
  <1>8. 0 \in 0 .. n /\ \A p \in 1 .. n : p \in 0 .. n
    BY <1>1
  <1>9. TextTypes'
    BY <1>0, <1>1, WorldSame DEF TextTypes, ServerTypes, ClientTypes
  <1>10. FreshIds'
    BY <1>0, <1>1, <1>8 DEF TextInv, FreshIds
  <1>11. Buried'
    <2>1. \A b : Lost(b)' <=> Lost(b)
      BY <1>0 DEF Lost
    <2> QED
      BY <1>0, <1>1, <1>8, <2>1, WorldSame DEF TextInv, Buried
  <1>12. ReplyTrue'
    BY <1>0 DEF TextInv, ReplyTrue
  <1>13. Unsure => Unsure'
    <2>1. \A f \in Mail(0) : f.sig = "selected" => f \in Mail(0)'
      BY <1>1, <1>3, <1>8
    <2> QED
      BY <1>0, <2>1 DEF Unsure, Pending
  <1>14. WindowTrue'
    BY <1>0, <1>13 DEF TextInv, WindowTrue, OnBoard, Agreeing
  <1>15. ASSUME NEW b \in Boards, Board(b) \notin raced
         PROVE  /\ Single(Board(b))' /\ Agreed(kept'[Board(b)], Due(Board(b), 0)')
                /\ LanePosted(b)' /\ HeldTrue(b)'
    <2>0. /\ Single(Board(b)) /\ Agreed(kept[Board(b)], Due(Board(b), 0))
          /\ LanePosted(b) /\ HeldTrue(b)
      BY <1>15 DEF TextInv, TalksTrue, TalkTrue
    <2>1. Single(Board(b))' /\ HeldTrue(b)'
      BY <1>0, <2>0 DEF Single, HeldTrue
    <2>2. Agreed(kept'[Board(b)], Due(Board(b), 0)')
      BY <1>0, <1>4, <1>8, <2>0 DEF Agreed
    <2>3. ASSUME NEW i \in 1 .. n, PostedIs(lane[i], b)
          PROVE  /\ HomeOf[b] = here /\ Steady(i)' => Entry(lane[i].message, kept[Board(b)], Due(Board(b), i)')
                 /\ \A x \in Posts(Due(Board(b), i)') : x.id # lane[i].message.id
      <3>1. i \in 0 .. n /\ Due(Board(b), i)' \subseteq Due(Board(b), i)
        BY <1>4, <1>8
      <3>2. Posts(Due(Board(b), i)') \subseteq Posts(Due(Board(b), i))
        BY <3>1, PostsGrow
      <3>3. /\ HomeOf[b] = here /\ Steady(i) => Entry(lane[i].message, kept[Board(b)], Due(Board(b), i))
            /\ \A x \in Posts(Due(Board(b), i)) : x.id # lane[i].message.id
        BY <2>0, <2>3 DEF LanePosted
      <3>4. HomeOf[b] = here /\ Steady(i)' => Entry(lane[i].message, kept[Board(b)], Due(Board(b), i)')
        BY <1>5, <1>6, <3>1, <3>3
      <3> QED
        BY <3>2, <3>3, <3>4
    <2>4. LanePosted(b)'
      BY <1>0, <1>1, <2>3 DEF LanePosted
    <2> QED
      BY <2>1, <2>2, <2>4
  <1>16. TalksTrue'
    BY <1>0, <1>15 DEF TalksTrue, TalkTrue
  <1>17. LaneTrue'
    <2> SUFFICES ASSUME NEW p \in 1 .. n, NEW b \in Boards,
                        lane[p].sig = "selected", here # Nowhere, Steady(p)', lane[p].of = Board(b)
                 PROVE  /\ HomeOf[b] = here
                        /\ Board(b) \notin raced =>
                             /\ Listed(lane[p].history, kept[Board(b)], Due(Board(b), p)')
                             /\ Posts(Due(Board(b), p)') # {} => ~LostBy(b, p)'
                             /\ \A k \in kept[Board(b)] : Found(k, lane[p].history, Due(Board(b), p)')
      BY <1>0, <1>1 DEF LaneTrue, Claim
    <2>1. p \in 0 .. n /\ Steady(p) /\ (LostBy(b, p)' <=> LostBy(b, p))
      BY <1>6, <1>7, <1>8
    <2>2. /\ HomeOf[b] = here
          /\ Board(b) \notin raced =>
               /\ Claim(lane[p].history, b, p)
               /\ \A k \in kept[Board(b)] : Found(k, lane[p].history, Due(Board(b), p))
      BY <2>1 DEF TextInv, LaneTrue
    <2>3. Due(Board(b), p)' = Due(Board(b), p)
      BY <1>5, <2>1, <2>2
    <2> QED
      BY <2>1, <2>2, <2>3 DEF Claim
  <1>18. ShownTrue'
    <2> SUFFICES ASSUME Rested', NEW b, b = win.chan
                 PROVE  /\ HomeOf[b] = here
                        /\ Board(b) \notin raced =>
                             /\ RowsTidy' /\ Listed(Rows', kept[Board(b)], Due(Board(b), 0)')
                             /\ Posts(Due(Board(b), 0)') # {} => ~LostBy(b, 0)'
                             /\ \A k \in kept[Board(b)] :
                                  Found(k, Rows', Due(Board(b), 0)') \/ k.mine \/ Board(b) \in app.unread
      BY <1>0 DEF ShownTrue, Display, Claim
    <2>1. Rested
      BY <1>0, <1>6, <1>8, <1>13 DEF Rested, OnBoard
    <2>2. b \in Boards /\ Display(b)
      BY <1>0, <2>1 DEF TextInv, ShownTrue, Rested, OnBoard, TextTypes, ClientTypes
    <2>3. Due(Board(b), 0)' = Due(Board(b), 0) /\ (LostBy(b, 0)' <=> LostBy(b, 0))
      BY <1>5, <1>7, <1>8, <2>2 DEF Display
    <2>4. (RowsTidy' <=> RowsTidy) /\ Rows' = Rows
      BY <1>0 DEF RowsTidy, Rows, Row
    <2> QED
      BY <2>2, <2>3, <2>4 DEF Display, Claim
  <1> QED
    BY <1>9, <1>10, <1>11, <1>12, <1>14, <1>16, <1>17, <1>18 DEF TextInv

LEMMA BroadcastInv ==
  ASSUME TextInv, NEW e \in news, Broadcast(e)
  PROVE  TextInv'
  <1>0. MailTypes
    BY DEF TextInv, TextTypes
  <1> SUFFICES ASSUME NEW n, n = Len(lane), Addressed(e) PROVE TextInv'
    BY DropsInv
  <1>1. /\ Delivers(e) /\ e \in Letters /\ reply' = reply /\ news' = news \ { e }
        /\ Mail(n + 1)' = (news \ { e }) \cup ({ reply } \ { NoReply })
    BY <1>0, MailBroadcast DEF Delivers, Broadcast, viewClient, viewCounts
  <1>2. CASE e # reply
    <2>1. \A b \in Boards : Sound(e, b, n)
      BY <1>1, <1>2, HeldSound
    <2> QED
      BY <1>1, <2>1, DeliversInv
  <1>3. CASE e = reply
    <2>1. \A b \in Boards : Sound(e, b, n)
      <3> SUFFICES ASSUME NEW b \in Boards PROVE Sound(e, b, n)
        OBVIOUS
      <3>1. Board(b) \notin raced => Board(b) \notin About(e)
        BY <1>3 DEF TextInv, TalksTrue, TalkTrue, Single
      <3>2. e.sig # "selected"
        BY DEF TextInv, ReplyTrue
      <3> QED
        BY <3>1, <3>2 DEF Sound
    <2> QED
      BY <1>1, <2>1, DeliversInv

  <1> QED
    BY <1>2, <1>3

-----------------------------------------------------------------------------
(* The user. *)
LEMMA ClicksInv ==
  ASSUME TextInv, UNCHANGED << viewServer, lane, refused >>, ClientTypes', asks' \subseteq Requests,
         \A b \in Boards : Lost(b)' => Lost(b), DOMAIN shown' \subseteq DOMAIN shown, WindowTrue', ShownTrue'
  PROVE  TextInv'
  <1>0. /\ UNCHANGED << nextId, kept, viewWorld, here, memberOf, reply, news, raced >>
        /\ boards' = boards /\ MailTypes
    BY WorldSame DEF viewServer, TextInv, TextTypes
  <1>1. \A p : Mail(p)' = Mail(p) /\ (Steady(p)' <=> Steady(p)) /\ \A t : Due(t, p)' = Due(t, p)
    BY <1>0, MailSame DEF Steady
  <1>2. \A b \in Boards : \A p : LostBy(b, p)' => LostBy(b, p)
    BY DEF LostBy
  <1>3. TextTypes'
    BY <1>0, WorldSame DEF TextInv, TextTypes, ServerTypes, MailTypes
  <1>4. FreshIds' /\ Buried' /\ ReplyTrue'
    BY <1>0, <1>1 DEF TextInv, FreshIds, Buried, ReplyTrue
  <1>5. TalksTrue'
    <2>1. \A b : LanePosted(b) => LanePosted(b)'
      BY <1>0, <1>1 DEF LanePosted
    <2>2. \A b : (HeldTrue(b) => HeldTrue(b)') /\ \A t : Single(t) => Single(t)'
      BY <1>0 DEF HeldTrue, Single
    <2> QED
      BY <1>0, <1>1, <2>1, <2>2 DEF TextInv, TalksTrue, TalkTrue
  <1>6. LaneTrue'
    <2>1. \A b \in Boards : \A D, p : Claim(D, b, p) => Claim(D, b, p)'
      BY <1>0, <1>1, <1>2 DEF Claim
    <2> QED
      BY <1>0, <1>1, <2>1 DEF TextInv, LaneTrue
  <1> QED
    BY <1>3, <1>4, <1>5, <1>6 DEF TextInv

(* A click that asks for a history: nothing is promised until it is here. *)
LEMMA AsksFor ==
  ASSUME TextInv, UNCHANGED << viewServer, lane, refused >>, ClientTypes',
         NEW t \in Talks, asks' = asks \cup { Ask("select", t) }, DOMAIN shown' \subseteq DOMAIN shown,
         app'.space = app.space, app'.known = app.known, OnBoard' => app'.group = Nowhere
  PROVE  TextInv'
  <1>1. Unsure'
    <2>1. Ask("select", t) \in asks' /\ Ask("select", t).kind = "select"
      BY DEF Ask
    <2> QED
      BY <2>1 DEF Unsure, Pending
  <1>2. WindowTrue' /\ ShownTrue'
    BY <1>1 DEF WindowTrue, ShownTrue, Rested
  <1>3. asks' \subseteq Requests
    BY AsksMade DEF TextInv, TextTypes
  <1>4. \A b : Lost(b)' => Lost(b)
    BY DEF Lost
  <1> QED
    BY <1>2, <1>3, <1>4, ClicksInv

(* One that leaves the conversation alone. *)
LEMMA LeavesBe ==
  ASSUME TextInv, UNCHANGED << viewServer, lane, refused >>, ClientTypes',
         asks \subseteq asks', asks' \subseteq Requests, shown' = shown,
         win'.chan = win.chan, win'.direct = win.direct, win'.group = win.group,
         app'.space = app.space, app'.known = app.known, app'.selected = app.selected,
         app'.group = app.group, app'.unread = app.unread
  PROVE  TextInv'
  <1>0. /\ UNCHANGED << kept, here, reply, news, raced >> /\ 0 \in Nat
        /\ Mail(0)' = Mail(0) /\ \A t : Due(t, 0)' = Due(t, 0)
    BY MailSame DEF viewServer
  <1>1. \A b : Lost(b)' <=> Lost(b)
    BY DEF Lost
  <1>2. Unsure => Unsure'
    BY <1>0 DEF Unsure, Pending
  <1>3. WindowTrue'
    BY <1>2 DEF TextInv, WindowTrue, OnBoard, Agreeing
  <1>4. ShownTrue'
    <2> SUFFICES ASSUME Rested', NEW b, b = win.chan
                 PROVE  /\ HomeOf[b] = here
                        /\ Board(b) \notin raced =>
                             /\ RowsTidy' /\ Listed(Rows', kept[Board(b)], Due(Board(b), 0)')
                             /\ Posts(Due(Board(b), 0)') # {} => ~LostBy(b, 0)'
                             /\ \A k \in kept[Board(b)] :
                                  Found(k, Rows', Due(Board(b), 0)') \/ k.mine \/ Board(b) \in app.unread
      BY <1>0 DEF ShownTrue, Display, Claim
    <2>1. Rested
      BY <1>0, <1>2 DEF Rested, OnBoard, Steady
    <2>2. Display(b)
      BY <2>1 DEF TextInv, ShownTrue
    <2>3. LostBy(b, 0)' => LostBy(b, 0)
      BY <1>1 DEF LostBy
    <2>4. (RowsTidy' <=> RowsTidy) /\ Rows' = Rows
      BY DEF RowsTidy, Rows, Row
    <2> QED
      BY <1>0, <2>2, <2>3, <2>4 DEF Display, Claim
  <1> QED
    BY <1>1, <1>3, <1>4, ClicksInv

LEMMA EmptiedTypes ==
  ASSUME ClientTypes, Emptied
  PROVE  ClientTypes' /\ ~OnBoard' /\ \A b \in Boards : ~Lost(b)'
  <1>1. ~OnBoard' /\ app'.space = Nowhere
    BY DEF ClientTypes, Windows, States, Emptied, OnBoard
  <1>2. win' \in Windows
    BY DEF ClientTypes, Windows, Emptied
  <1>3. app' \in States
    <2>1. { t \in app.unread : t[1] # "board" } \in SUBSET Talks
      BY DEF ClientTypes, States
    <2> QED
      BY <2>1 DEF ClientTypes, States, Emptied
  <1>4. win'.chan = Nowhere /\ shown' = shown
    BY DEF ClientTypes, Windows, Emptied
  <1> QED
    BY <1>1, <1>2, <1>3, <1>4, TextAssumption DEF ClientTypes, Lost

LEMMA ClickInv ==
  ASSUME TextInv, ViewClick
  PROVE  TextInv'
  <1> USE DEF viewClient
  <1>0. /\ UNCHANGED << viewServer, lane, refused >> /\ ClientTypes /\ asks \subseteq Requests
        /\ win \in Windows /\ app \in States /\ DOMAIN shown \subseteq Nat
        /\ win.chan \in (IF win.direct THEN Buddies ELSE Boards) \cup { Nowhere }
    BY DEF ViewClick, TextInv, TextTypes, ClientTypes
  <1>w. OnBoard => app.group = Nowhere
    BY DEF TextInv, WindowTrue
  <1>1. ASSUME NEW b \in Boards, ClickBoard(b) PROVE TextInv'
    <2>1. /\ win' = [ win EXCEPT !.chat = TRUE, !.chan = b, !.direct = FALSE ]
          /\ app' = [ app EXCEPT !.chat = TRUE, !.selected = b, !.direct = Nowhere, !.group = Nowhere,
                                 !.unread = @ \ { Board(b) } ]
          /\ shown' = Listing({}) /\ asks' = asks \cup { Ask("select", Board(b)) }
      BY <1>1 DEF ClickBoard, Prepared
    <2>2. DOMAIN shown' = {}
      BY <2>1 DEF Listing, Ids
    <2>3. win' \in Windows /\ win'.chan = b /\ win'.direct = FALSE
      BY <1>0, <2>1 DEF Windows
    <2>4. app' \in States /\ app'.space = app.space /\ app'.known = app.known /\ app'.group = Nowhere
      BY <1>0, <2>1 DEF States
    <2>5. ClientTypes'
      BY <2>2, <2>3, <2>4 DEF ClientTypes
    <2> QED
      BY <1>0, <2>1, <2>2, <2>4, <2>5, AsksFor, TalksMade
  <1>2. ASSUME NEW x \in Buddies, ClickDirect(x) PROVE TextInv'
    <2>1. asks' = asks \cup { Ask("select", << "direct", x >>) } /\ UNCHANGED << win, app, shown >>
      BY <1>2 DEF ClickDirect
    <2>2. ClientTypes' /\ (OnBoard' => app'.group = Nowhere) /\ DOMAIN shown' \subseteq DOMAIN shown
      BY <1>0, <1>w, <2>1 DEF ClientTypes, OnBoard
    <2>3. app'.space = app.space /\ app'.known = app.known
      BY <2>1
    <2> QED
      BY <1>0, <2>1, <2>2, <2>3, AsksFor, TalksMade
  <1>3. ASSUME NEW g \in Groups, ClickGroup(g) PROVE TextInv'
    <2>1. /\ win' = [ win EXCEPT !.group = g ]
          /\ app' = [ app EXCEPT !.direct = Nowhere, !.group = Nowhere, !.unread = @ \ { << "group", g >> } ]
          /\ asks' = asks \cup { Ask("select", << "group", g >>) } /\ shown' = shown
      BY <1>3 DEF ClickGroup
    <2>2. win' \in Windows /\ win'.chan = win.chan /\ win'.direct = win.direct
      BY <1>0, <2>1 DEF Windows
    <2>3. app' \in States /\ app'.space = app.space /\ app'.known = app.known /\ app'.group = Nowhere
      BY <1>0, <2>1 DEF States
    <2>4. ClientTypes' /\ DOMAIN shown' \subseteq DOMAIN shown
      BY <1>0, <2>1, <2>2, <2>3 DEF ClientTypes
    <2> QED
      BY <1>0, <2>1, <2>3, <2>4, AsksFor, TalksMade
  <1>4. ASSUME NEW t \in Talks, Switch(t) PROVE TextInv'
    <2>1. /\ win' = [ win EXCEPT !.chat = TRUE, !.group = IF t[1] = "group" THEN t[2] ELSE @ ]
          /\ asks' = asks \cup { Ask("select", t) } /\ UNCHANGED << app, shown >>
      BY <1>4 DEF Switch
    <2>2. win' \in Windows /\ win'.chan = win.chan /\ win'.direct = win.direct
      BY <1>0, <2>1, TalkKinds DEF Windows
    <2>3. ClientTypes' /\ (OnBoard' => app'.group = Nowhere) /\ DOMAIN shown' \subseteq DOMAIN shown
      BY <1>0, <1>w, <2>1, <2>2 DEF ClientTypes, OnBoard
    <2>4. app'.space = app.space /\ app'.known = app.known
      BY <2>1
    <2> QED
      BY <1>0, <2>1, <2>3, <2>4, AsksFor
  <1>5. ASSUME asks \subseteq asks', asks' \subseteq Requests, shown' = shown,
               NEW c \in BOOLEAN, NEW d \in BOOLEAN, NEW s \in Places \cup { Nowhere },
               win' = [ win EXCEPT !.chat = c, !.space = s ], app' = [ app EXCEPT !.chat = d ]
        PROVE  TextInv'
    <2>1. win' \in Windows /\ win'.chan = win.chan /\ win'.direct = win.direct /\ win'.group = win.group
      BY <1>0, <1>5 DEF Windows
    <2>2. /\ app' \in States /\ app'.space = app.space /\ app'.known = app.known /\ app'.selected = app.selected
          /\ app'.group = app.group /\ app'.unread = app.unread
      BY <1>0, <1>5 DEF States
    <2>3. ClientTypes'
      BY <1>0, <1>5, <2>1, <2>2 DEF ClientTypes
    <2> QED
      BY <1>0, <1>5, <2>1, <2>2, <2>3, LeavesBe
  <1>6. ASSUME UNCHANGED viewClient, asks \subseteq asks', asks' \subseteq Requests PROVE TextInv'
    <2>1. ClientTypes' /\ UNCHANGED << win, app, shown >>
      BY <1>0, <1>6 DEF ClientTypes
    <2>2. /\ win'.chan = win.chan /\ win'.direct = win.direct /\ win'.group = win.group
          /\ app'.space = app.space /\ app'.known = app.known /\ app'.selected = app.selected
          /\ app'.group = app.group /\ app'.unread = app.unread
      BY <2>1
    <2> QED
      BY <1>0, <1>6, <2>1, <2>2, LeavesBe
  <1>7. ASSUME Navigate PROVE TextInv'
    <2>1. /\ win' = [ win EXCEPT !.chat = ~win.chat, !.space = win.space ]
          /\ app' = [ app EXCEPT !.chat = ~win.chat ] /\ asks' = asks /\ shown' = shown
      BY <1>0, <1>7 DEF Navigate, Windows
    <2>2. (~win.chat) \in BOOLEAN
      OBVIOUS
    <2>3. win.space \in Places \cup { Nowhere }
      BY <1>0 DEF Windows
    <2>4. asks \subseteq asks' /\ asks' \subseteq Requests
      BY <1>0, <2>1
    <2> DEFINE c == ~win.chat
    <2> HIDE DEF c
    <2> QED
      BY <1>5, <2>1, <2>2, <2>3, <2>4 DEF c
  <1>8. ASSUME NEW s \in Places, SelectSpace(s) PROVE TextInv'
    <2>1. /\ win' = [ win EXCEPT !.chat = FALSE, !.space = s ] /\ app' = [ app EXCEPT !.chat = FALSE ]
          /\ shown' = shown
          /\ asks' = asks \/ asks' = asks \cup { Ask("join", s) }
      BY <1>8 DEF SelectSpace
    <2>2. asks \subseteq asks' /\ asks' \subseteq Requests
      BY <1>0, <2>1, AsksMade
    <2> QED
      BY <1>5, <2>1, <2>2
  <1>9. ASSUME NEW s \in Places, UseInvite(s) \/ MakeSpace(s) PROVE TextInv'
    BY <1>0, <1>6, <1>9, AsksMade DEF UseInvite, MakeSpace
  <1>10. ASSUME MakeGroup PROVE TextInv'
    BY <1>0, <1>6, <1>10, AsksMade DEF MakeGroup
  <1>11. ASSUME QuitSpace PROVE TextInv'
    <2>1. Emptied /\ asks' = asks \cup { Ask("leave", Nowhere) } /\ shown' = shown
      BY <1>11 DEF QuitSpace, Emptied
    <2>2. ClientTypes' /\ ~OnBoard' /\ app'.space = Nowhere
      BY <1>0, <2>1, EmptiedTypes DEF Emptied, States
    <2>3. WindowTrue' /\ ShownTrue'
      BY <2>2 DEF WindowTrue, ShownTrue, Rested
    <2>4. asks' \subseteq Requests /\ \A b \in Boards : ~Lost(b)'
      BY <1>0, <2>1, EmptiedTypes, AsksMade
    <2> QED
      BY <1>0, <2>1, <2>2, <2>3, <2>4, ClicksInv
  <1>12. ASSUME Write PROVE TextInv'
    <2>1. Written \in Talks
      <3>1. CASE win.group # Nowhere
        BY <1>0, <3>1, TalksMade DEF Written, Windows
      <3>2. CASE win.group = Nowhere /\ win.chan # Nowhere
        BY <1>0, <3>2, TalksMade DEF Written
      <3> QED
        BY <1>12, <3>1, <3>2 DEF Write
    <2> QED
      BY <1>0, <1>6, <1>12, <2>1, AsksMade DEF Write
  <1>13. ASSUME NEW id \in DOMAIN shown, NEW how \in Touches, Touch(id, how) PROVE TextInv'
    <2>1. Pointed \in Talks
      BY <1>0, <1>13, TalksMade DEF Touch, Pointed
    <2> QED
      BY <1>0, <1>6, <1>13, <2>1, AsksMade DEF Touch
  <1>14. ASSUME NEW id \in DOMAIN shown, ClickEdit(id) \/ ClickPin(id) \/ ClickDelete(id) \/ ClickReact(id)
         PROVE  TextInv'
    BY <1>13, <1>14, TouchesAre DEF ClickEdit, ClickPin, ClickDelete, ClickReact
  <1> QED
    BY <1>1, <1>2, <1>3, <1>4, <1>7, <1>8, <1>9, <1>10, <1>11, <1>12, <1>14 DEF ViewClick

-----------------------------------------------------------------------------
(* The client reads a letter. *)

(* What is to be shown of the display after the letter.                    *)
NextDisplay(b) ==
    /\ HomeOf[b] = here
    /\ Board(b) \notin raced =>
        /\ RowsTidy' /\ Listed(Rows', kept[Board(b)], Due(Board(b), 1))
        /\ Posts(Due(Board(b), 1)) # {} => ~Lost(b)'
        /\ \A k \in kept[Board(b)] :
               Found(k, Rows', Due(Board(b), 1)) \/ k.mine \/ Board(b) \in app'.unread

Reads == lane # << >> /\ lane' = Tail(lane) /\ UNCHANGED << viewServer, viewCounts >>

LEMMA ReadsFacts ==
  ASSUME TextInv, Reads
  PROVE  /\ MailTypes /\ MailTypes' /\ ServerTypes'
         /\ UNCHANGED << nextId, kept, viewWorld, boards, here, memberOf, reply, news, raced, refused >>
         /\ Head(lane) = lane[1] /\ Head(lane) \in Letters /\ Head(lane) \in Mail(0)
         /\ LetterFresh(Head(lane), nextId)
         /\ 1 \in 1 .. Len(lane) /\ 0 \in 0 .. Len(lane) /\ 1 \in 0 .. Len(lane)
         /\ \A p \in Nat : Mail(p)' = Mail(p + 1) /\ \A t : Due(t, p)' = Due(t, p + 1)
         /\ Mail(0)' = Mail(1) /\ \A t : Due(t, 0)' = Due(t, 1)
         /\ Mail(0) = { Head(lane) } \cup Mail(1)
         /\ \A t : /\ Matters(Head(lane), t) => Due(t, 0) = { Head(lane) } \cup Due(t, 1)
                   /\ ~Matters(Head(lane), t) => Due(t, 0) = Due(t, 1)
  <1>0. /\ MailTypes /\ lane # << >> /\ lane' = Tail(lane)
        /\ UNCHANGED << nextId, kept, viewWorld, here, memberOf, reply, news, raced, refused >>
    BY DEF TextInv, TextTypes, Reads, viewServer, viewCounts
  <1>1. /\ MailTypes' /\ Head(lane) \in Letters /\ Head(lane) = lane[1] /\ Len(lane) \in Nat \ { 0 }
        /\ \A p \in Nat : Mail(p)' = Mail(p + 1) /\ \A t : Due(t, p)' = Due(t, p + 1)
        /\ Mail(0) = { Head(lane) } \cup Mail(1)
        /\ \A t : Due(t, 0) = (IF Matters(Head(lane), t) THEN { Head(lane) } ELSE {}) \cup Due(t, 1)
    BY <1>0, MailReceive
  <1>2. ServerTypes' /\ boards' = boards
    BY <1>0, WorldSame DEF TextInv, TextTypes, ServerTypes
  <1>3. LetterFresh(Head(lane), nextId) /\ Head(lane) \in Mail(0)
    BY <1>1 DEF TextInv, FreshIds
  <1>4. 0 + 1 = 1 /\ 0 \in Nat /\ 1 \in 1 .. Len(lane) /\ 0 \in 0 .. Len(lane) /\ 1 \in 0 .. Len(lane)
    BY <1>1
  <1>5. Mail(0)' = Mail(1) /\ \A t : Due(t, 0)' = Due(t, 1)
    BY <1>1, <1>4
  <1>6. \A t : /\ Matters(Head(lane), t) => Due(t, 0) = { Head(lane) } \cup Due(t, 1)
               /\ ~Matters(Head(lane), t) => Due(t, 0) = Due(t, 1)
    BY <1>1
  <1> QED
    BY <1>0, <1>1, <1>2, <1>3, <1>4, <1>5, <1>6

LEMMA ReadsLostBy ==
  ASSUME TextInv, Reads, \A b \in Boards : Lost(b)' => Lost(b) \/ Buries(Head(lane), b)
  PROVE  \A b \in Boards : \A p \in 0 .. Len(lane) - 1 : LostBy(b, p)' => LostBy(b, p + 1)
  <1> SUFFICES ASSUME NEW b \in Boards, NEW p \in 0 .. Len(lane) - 1, LostBy(b, p)'
               PROVE  LostBy(b, p + 1)
    OBVIOUS
  <1>0. MailTypes /\ lane # << >> /\ lane' = Tail(lane) /\ Len(lane) \in Nat
    BY DEF TextInv, TextTypes, Reads, MailTypes
  <1>1. Head(lane) = lane[1] /\ 1 \in 1 .. p + 1
    BY <1>0, ReadsFacts
  <1>2. \A i \in 1 .. p : lane'[i] = lane[i + 1] /\ i + 1 \in 1 .. p + 1
    BY <1>0 DEF MailTypes
  <1>3. CASE Lost(b)'
    BY <1>1, <1>3 DEF LostBy
  <1>4. CASE \E i \in 1 .. p : Buries(lane'[i], b)
    BY <1>2, <1>4 DEF LostBy
  <1> QED
    BY <1>3, <1>4 DEF LostBy

LEMMA ReadsTalks ==
  ASSUME TextInv, Reads
  PROVE  TalksTrue'
  <1>0. /\ UNCHANGED << kept, here, reply, news, raced >> /\ MailTypes /\ MailTypes'
        /\ \A p \in Nat : Mail(p)' = Mail(p + 1) /\ \A t : Due(t, p)' = Due(t, p + 1)
        /\ \A t : Due(t, 0)' = Due(t, 1)
    BY ReadsFacts
  <1>1. Len(lane) \in Nat /\ Len(lane') = Len(lane) - 1
        /\ \A i \in 1 .. Len(lane') : lane'[i] = lane[i + 1] /\ i + 1 \in 1 .. Len(lane) /\ i \in Nat
    BY <1>0 DEF MailTypes, Reads
  <1>2. \A t : Due(t, 1) \subseteq Due(t, 0)
    BY <1>0, MailGrows
  <1>3. ASSUME NEW b \in Boards, LanePosted(b) PROVE LanePosted(b)'
    <2> SUFFICES ASSUME NEW i \in 1 .. Len(lane'), PostedIs(lane'[i], b)
                 PROVE  /\ HomeOf[b] = here /\ Steady(i)' =>
                             Entry(lane'[i].message, kept[Board(b)], Due(Board(b), i)')
                        /\ \A x \in Posts(Due(Board(b), i)') : x.id # lane'[i].message.id
      BY <1>0 DEF LanePosted
    <2>1. lane'[i] = lane[i + 1] /\ i + 1 \in 1 .. Len(lane) /\ i \in Nat
      BY <1>1
    <2>2. Due(Board(b), i)' = Due(Board(b), i + 1) /\ (Steady(i)' <=> Steady(i + 1))
      BY <1>0, <2>1 DEF Steady
    <2> QED
      BY <1>3, <2>1, <2>2 DEF LanePosted
  <1>4. ASSUME NEW b \in Boards
        PROVE  (HeldTrue(b) => HeldTrue(b)') /\ (Single(Board(b)) => Single(Board(b))')
    BY <1>0 DEF HeldTrue, Single
  <1>5. \A t : Agreed(kept[t], Due(t, 0)) => Agreed(kept'[t], Due(t, 0)')
    BY <1>0, <1>2 DEF Agreed
  <1> QED
    BY <1>0, <1>3, <1>4, <1>5 DEF TextInv, TalksTrue, TalkTrue

LEMMA ReadsLane ==
  ASSUME TextInv, Reads, \A b \in Boards : Lost(b)' => Lost(b) \/ Buries(Head(lane), b)
  PROVE  LaneTrue'
  <1>0. /\ UNCHANGED << kept, here, raced >> /\ MailTypes /\ MailTypes'
        /\ \A p \in Nat : Mail(p)' = Mail(p + 1) /\ \A t : Due(t, p)' = Due(t, p + 1)
    BY ReadsFacts
  <1>1. Len(lane) \in Nat /\ Len(lane') = Len(lane) - 1
        /\ \A i \in 1 .. Len(lane') : /\ lane'[i] = lane[i + 1] /\ i + 1 \in 1 .. Len(lane) /\ i \in Nat
                                      /\ i \in 0 .. Len(lane) - 1
    BY <1>0 DEF MailTypes, Reads
  <1> SUFFICES ASSUME NEW p \in 1 .. Len(lane'), NEW b \in Boards,
                      lane'[p].sig = "selected", here # Nowhere, Steady(p)', lane'[p].of = Board(b)
               PROVE  /\ HomeOf[b] = here
                      /\ Board(b) \notin raced =>
                           /\ Listed(lane'[p].history, kept[Board(b)], Due(Board(b), p)')
                           /\ Posts(Due(Board(b), p)') # {} => ~LostBy(b, p)'
                           /\ \A k \in kept[Board(b)] : Found(k, lane'[p].history, Due(Board(b), p)')
    BY <1>0 DEF LaneTrue, Claim
  <1>2. lane'[p] = lane[p + 1] /\ p + 1 \in 1 .. Len(lane) /\ p \in Nat /\ p \in 0 .. Len(lane) - 1
    BY <1>1
  <1>3. Due(Board(b), p)' = Due(Board(b), p + 1) /\ Steady(p + 1)
    BY <1>0, <1>2 DEF Steady
  <1>4. /\ HomeOf[b] = here
        /\ Board(b) \notin raced =>
             /\ Claim(lane[p + 1].history, b, p + 1)
             /\ \A k \in kept[Board(b)] : Found(k, lane[p + 1].history, Due(Board(b), p + 1))
    BY <1>2, <1>3 DEF TextInv, LaneTrue
  <1>5. LostBy(b, p)' => LostBy(b, p + 1)
    BY <1>2, ReadsLostBy
  <1> QED
    BY <1>2, <1>3, <1>4, <1>5 DEF Claim

LEMMA ReadsInv ==
  ASSUME TextInv, Reads, ClientTypes', asks' \subseteq Requests, \A id \in DOMAIN shown' : id < nextId,
         \A b \in Boards : Lost(b)' => Lost(b) \/ Buries(Head(lane), b), WindowTrue',
         \A b : Rested' /\ b = win'.chan => NextDisplay(b)
  PROVE  TextInv'
  <1>0. /\ MailTypes /\ MailTypes' /\ ServerTypes'
        /\ UNCHANGED << nextId, kept, boards, here, reply, news, raced >>
        /\ Mail(0)' = Mail(1) /\ \A t : Due(t, 0)' = Due(t, 1)
        /\ Mail(0) = { Head(lane) } \cup Mail(1)
    BY ReadsFacts
  <1>1. TextTypes'
    BY <1>0 DEF TextTypes
  <1>2. FreshIds'
    BY <1>0 DEF TextInv, FreshIds
  <1>3. Buried'
    BY <1>0 DEF TextInv, Buried
  <1>4. ReplyTrue'
    BY <1>0 DEF TextInv, ReplyTrue
  <1>5. ShownTrue'
    <2> SUFFICES ASSUME Rested', NEW b, b = win'.chan
                 PROVE  /\ HomeOf[b] = here
                        /\ Board(b) \notin raced =>
                             /\ RowsTidy' /\ Listed(Rows', kept[Board(b)], Due(Board(b), 0)')
                             /\ Posts(Due(Board(b), 0)') # {} => ~LostBy(b, 0)'
                             /\ \A k \in kept[Board(b)] :
                                  Found(k, Rows', Due(Board(b), 0)') \/ k.mine \/ Board(b) \in app'.unread
      BY <1>0 DEF ShownTrue, Display, Claim
    <2>1. NextDisplay(b)
      OBVIOUS
    <2>2. LostBy(b, 0)' => Lost(b)'
      BY DEF LostBy
    <2> QED
      BY <1>0, <2>1, <2>2 DEF NextDisplay
  <1> QED
    BY <1>1, <1>2, <1>3, <1>4, <1>5, ReadsTalks, ReadsLane DEF TextInv


-----------------------------------------------------------------------------
(* The rows on display after a letter. *)
LEMMA ListingAre ==
  ASSUME NEW D \in SUBSET Msgs, Distinct(D)
  PROVE  /\ DOMAIN Listing(D) = Ids(D) /\ Ids(D) \subseteq Nat
         /\ \A id \in Ids(D) : \E m \in D : Listing(D)[id] = << m >> /\ m.id = id
         /\ \A m \in D : m.id \in Ids(D) /\ Listing(D)[m.id] = << m >>
  <1>1. DOMAIN Listing(D) = Ids(D) /\ Ids(D) \subseteq Nat
    BY DEF Listing, Ids, Msgs
  <1>2. ASSUME NEW m \in D PROVE m.id \in Ids(D) /\ Listing(D)[m.id] = << m >>
    <2>1. m.id \in Ids(D)
      BY DEF Ids
    <2>2. (CHOOSE x \in D : x.id = m.id) = m
      BY DEF Distinct
    <2> QED
      BY <2>1, <2>2 DEF Listing
  <1>3. \A id \in Ids(D) : \E m \in D : m.id = id
    BY DEF Ids
  <1> QED
    BY <1>1, <1>2, <1>3

LEMMA RowsCopied ==
  ASSUME NEW D \in SUBSET Msgs, Distinct(D), shown' = Listing(D)
  PROVE  RowsTidy' /\ Rows' = D
  <1>1. \A id \in DOMAIN shown' : \E m \in D : shown'[id] = << m >> /\ m.id = id
    BY ListingAre
  <1>2. \A m \in D : m.id \in DOMAIN shown' /\ shown'[m.id] = << m >>
    BY ListingAre
  <1>3. \A m : << m >>[1] = m
    OBVIOUS
  <1>4. RowsTidy'
    BY <1>1, <1>3 DEF RowsTidy, Row
  <1>5. Rows' = { shown'[id][1] : id \in DOMAIN shown' }
    BY DEF Rows, Row
  <1> QED
    BY <1>1, <1>2, <1>3, <1>4, <1>5

LEMMA RowsAppended ==
  ASSUME RowsTidy, NEW m \in Msgs, m.id \notin DOMAIN shown, shown' = Appended(m)
  PROVE  RowsTidy' /\ Rows' = Rows \cup { m }
  <1>1. /\ DOMAIN shown' = DOMAIN shown \cup { m.id } /\ shown'[m.id] = << m >>
        /\ \A id \in DOMAIN shown : shown'[id] = shown[id]
    BY DEF Appended
  <1>2. << m >>[1] = m
    OBVIOUS
  <1>3. RowsTidy'
    BY <1>1, <1>2 DEF RowsTidy, Row
  <1>4. /\ Rows' = { shown'[id][1] : id \in DOMAIN shown' }
        /\ Rows = { shown[id][1] : id \in DOMAIN shown }
    BY DEF Rows, Row
  <1> QED
    BY <1>1, <1>2, <1>3, <1>4

LEMMA RowsReplaced ==
  ASSUME RowsTidy, NEW id \in DOMAIN shown, NEW y \in Msgs, y.id = id,
         shown' = [ shown EXCEPT ![id] = << y >> ]
  PROVE  /\ RowsTidy' /\ Row(id)' = y /\ \A i \in DOMAIN shown : i # id => Row(i)' = Row(i)
         /\ DOMAIN shown' = DOMAIN shown
  <1>1. /\ DOMAIN shown' = DOMAIN shown /\ shown'[id] = << y >>
        /\ \A i \in DOMAIN shown : i # id => shown'[i] = shown[i]
    OBVIOUS
  <1>2. << y >>[1] = y
    OBVIOUS
  <1>3. RowsTidy'
    BY <1>1, <1>2 DEF RowsTidy, Row
  <1> QED
    BY <1>1, <1>2, <1>3 DEF Row

(* A letter that leaves the conversation of the window and of AppState. *)
LEMMA WindowKept ==
  ASSUME TextInv, Reads, Head(lane).sig \notin { "selected", "joined", "made" }, asks \subseteq asks',
         win'.direct = win.direct, win'.chan = win.chan, win'.group = win.group, app'.space = app.space,
         app'.selected = app.selected, app'.group = app.group
  PROVE  /\ WindowTrue'
         /\ Rested' => /\ Display(win.chan) /\ win.chan \in Boards /\ ~win.direct /\ here = app.space
                       /\ app.group = Nowhere /\ app.selected = win.chan /\ app.space # Nowhere /\ Steady(1)
  <1>0. /\ refused' = refused /\ here' = here /\ Mail(0)' = Mail(1) /\ Mail(0) = { Head(lane) } \cup Mail(1)
    BY ReadsFacts
  <1>1. Unsure => Unsure'
    BY <1>0 DEF Unsure, Pending
  <1>2. WindowTrue'
    BY <1>1 DEF TextInv, WindowTrue, OnBoard, Agreeing
  <1>3. ASSUME Rested' PROVE Rested /\ Steady(1)
    BY <1>0, <1>1, <1>3 DEF Rested, OnBoard, Steady
  <1>4. ASSUME Rested'
        PROVE  /\ Display(win.chan) /\ win.chan \in Boards /\ ~win.direct /\ here = app.space
               /\ app.group = Nowhere /\ app.selected = win.chan /\ app.space # Nowhere /\ Steady(1)
    <2>1. Rested /\ Steady(1)
      BY <1>3, <1>4
    <2>2. Display(win.chan)
      BY <2>1 DEF TextInv, ShownTrue
    <2>3. win.chan \in Boards
      BY <2>1 DEF Rested, OnBoard, TextInv, TextTypes, ClientTypes
    <2>4. app.group = Nowhere /\ Agreeing
      BY <2>1 DEF Rested, TextInv, WindowTrue
    <2> QED
      BY <2>1, <2>2, <2>3, <2>4 DEF Rested, OnBoard, Agreeing
  <1> QED
    BY <1>2, <1>4

(* A history is shown. *)
LEMMA BoardSelectedInv ==
  ASSUME TextInv, Reads, NEW e, e = Head(lane), e.sig = "selected", e.of[1] = "board",
         BoardSelected(e.of[2], e.history)
  PROVE  TextInv'
  <1> DEFINE b == e.of[2]
  <1>0. /\ e \in Letters /\ e = lane[1] /\ 1 \in 1 .. Len(lane) /\ ClientTypes /\ LetterFresh(e, nextId)
        /\ here' = here /\ Mail(0)' = Mail(1) /\ win \in Windows /\ app \in States /\ asks \subseteq Requests
    BY ReadsFacts DEF TextInv, TextTypes, ClientTypes
  <1>1. /\ e.of \in Talks /\ e.history \in SUBSET Msgs /\ Below(e.history, nextId) /\ Distinct(e.history)
    BY <1>0, LetterKinds DEF LetterFresh
  <1>2. b \in Boards /\ e.of = Board(b)
    BY <1>1, TalkKinds
  <1>3. /\ win' = [ win EXCEPT !.chat = TRUE, !.chan = b, !.direct = FALSE, !.group = Nowhere ]
        /\ app' = [ app EXCEPT !.chat = TRUE, !.direct = Nowhere, !.group = Nowhere,
                               !.selected = IF app.space = Nowhere THEN app.selected ELSE b,
                               !.unread = app.unread \ { Board(b) } ]
        /\ shown' = Listing(e.history) /\ asks' = asks
    BY <1>0 DEF BoardSelected, States
  <1>4. win' \in Windows /\ win'.chan = b /\ win'.direct = FALSE /\ win'.group = Nowhere
    BY <1>0, <1>2, <1>3 DEF Windows
  <1>5. /\ app' \in States /\ app'.space = app.space /\ app'.known = app.known /\ app'.group = Nowhere
        /\ app'.selected = (IF app.space = Nowhere THEN app.selected ELSE b)
    BY <1>0, <1>2, <1>3 DEF States
  <1>6. DOMAIN shown' \subseteq Nat /\ \A id \in DOMAIN shown' : id < nextId
    <2>1. DOMAIN shown' \subseteq Nat /\ \A id \in DOMAIN shown' : \E m \in e.history : m.id = id
      BY <1>1, <1>3, ListingAre
    <2> QED
      BY <1>1, <2>1 DEF Below
  <1>7. ClientTypes'
    BY <1>2, <1>4, <1>5, <1>6 DEF ClientTypes
  <1>8. \A c \in Boards : Lost(c)' <=> Lost(c)
    BY <1>5 DEF Lost
  <1>9. WindowTrue'
    BY <1>4, <1>5 DEF WindowTrue, Agreeing
  <1>10. ASSUME Rested' PROVE NextDisplay(b)
    <2>1. here # Nowhere /\ Steady(1)
      BY <1>0, <1>10 DEF Rested, Steady
    <2>2. /\ HomeOf[b] = here
          /\ Board(b) \notin raced =>
              /\ Claim(e.history, b, 1)
              /\ \A k \in kept[Board(b)] : Found(k, e.history, Due(Board(b), 1))
      BY <1>0, <1>2, <2>1 DEF TextInv, LaneTrue
    <2>3. RowsTidy' /\ Rows' = e.history
      BY <1>1, <1>3, RowsCopied
    <2> QED
      BY <1>2, <1>8, <2>2, <2>3 DEF NextDisplay, Claim, LostBy
  <1> QED
    BY <1>0, <1>3, <1>4, <1>6, <1>7, <1>8, <1>9, <1>10, ReadsInv

(* A friend's, a group's: nothing is said of those. *)
LEMMA ElsewhereInv ==
  ASSUME TextInv, Reads, ClientTypes', asks' = asks, \A id \in DOMAIN shown' : id < nextId,
         app'.space = app.space, app'.known = app.known, win'.direct = TRUE
  PROVE  TextInv'
  <1>1. ~OnBoard'
    BY DEF OnBoard
  <1>2. WindowTrue' /\ ~Rested'
    BY <1>1 DEF WindowTrue, Rested
  <1>3. \A b \in Boards : Lost(b)' => Lost(b)
    BY DEF Lost
  <1>4. asks' \subseteq Requests
    BY DEF TextInv, TextTypes
  <1> QED
    BY <1>2, <1>3, <1>4, ReadsInv

LEMMA DirectSelectedInv ==
  ASSUME TextInv, Reads, NEW e, e = Head(lane), e.sig = "selected", e.of[1] = "direct",
         DirectSelected(e.of[2], e.history)
  PROVE  TextInv'
  <1> DEFINE x == e.of[2]
  <1>0. /\ e \in Letters /\ ClientTypes /\ LetterFresh(e, nextId) /\ win \in Windows /\ app \in States
    BY ReadsFacts DEF TextInv, TextTypes, ClientTypes
  <1>1. /\ e.of \in Talks /\ e.history \in SUBSET Msgs /\ Below(e.history, nextId) /\ Distinct(e.history)
    BY <1>0, LetterKinds DEF LetterFresh
  <1>2. x \in Buddies /\ << "direct", x >> \in Talks
    BY <1>1, TalkKinds, TalksMade
  <1>3. /\ win' = [ win EXCEPT !.chat = TRUE, !.chan = x, !.direct = TRUE, !.group = Nowhere ]
        /\ app' = [ app EXCEPT !.direct = x, !.unread = app.unread \ { << "direct", x >> }, !.chat = TRUE ]
        /\ shown' = Listing(e.history) /\ asks' = asks
    BY <1>0 DEF DirectSelected, ReadDirect, States
  <1>4. win' \in Windows /\ win'.chan = x /\ win'.direct = TRUE
    BY <1>0, <1>2, <1>3 DEF Windows
  <1>5. app' \in States /\ app'.space = app.space /\ app'.known = app.known
    BY <1>0, <1>2, <1>3 DEF States
  <1>6. DOMAIN shown' \subseteq Nat /\ \A id \in DOMAIN shown' : id < nextId
    <2>1. DOMAIN shown' \subseteq Nat /\ \A id \in DOMAIN shown' : \E m \in e.history : m.id = id
      BY <1>1, <1>3, ListingAre
    <2> QED
      BY <1>1, <2>1 DEF Below
  <1>7. ClientTypes'
    BY <1>2, <1>4, <1>5, <1>6 DEF ClientTypes
  <1> QED
    BY <1>3, <1>4, <1>5, <1>6, <1>7, ElsewhereInv

LEMMA GroupTypes ==
  ASSUME ClientTypes, NEW g \in Groups, GroupOpened(g), DOMAIN shown' \subseteq Nat
  PROVE  /\ ClientTypes' /\ asks' = asks /\ app'.space = app.space /\ app'.known = app.known
         /\ win'.direct = TRUE
  <1>0. /\ win \in Windows /\ app \in States
    BY DEF ClientTypes
  <1>1. /\ win' = [ win EXCEPT !.chat = TRUE, !.chan = Nowhere, !.direct = TRUE, !.group = g ]
        /\ app' = [ app EXCEPT !.chat = TRUE, !.direct = Nowhere, !.group = g, !.groups = app.groups \cup { g },
                               !.unread = app.unread \ { << "group", g >> } ]
        /\ asks' = asks
    BY <1>0 DEF GroupOpened, States
  <1>2. win' \in Windows /\ win'.chan = Nowhere /\ win'.direct = TRUE
    BY <1>0, <1>1 DEF Windows
  <1>3. app' \in States /\ app'.space = app.space /\ app'.known = app.known
    BY <1>0, <1>1 DEF States
  <1> QED
    BY <1>1, <1>2, <1>3 DEF ClientTypes

LEMMA GroupSelectedInv ==
  ASSUME TextInv, Reads, NEW e, e = Head(lane), e.sig = "selected", e.of[1] = "group",
         GroupSelected(e.of[2], e.history)
  PROVE  TextInv'
  <1>0. /\ e \in Letters /\ ClientTypes /\ LetterFresh(e, nextId)
    BY ReadsFacts DEF TextInv, TextTypes
  <1>1. /\ e.of \in Talks /\ e.history \in SUBSET Msgs /\ Below(e.history, nextId) /\ Distinct(e.history)
    BY <1>0, LetterKinds DEF LetterFresh
  <1>2. e.of[2] \in Groups
    BY <1>1, TalkKinds
  <1>3. GroupOpened(e.of[2]) /\ shown' = Listing(e.history)
    BY DEF GroupSelected
  <1>4. DOMAIN shown' \subseteq Nat /\ \A id \in DOMAIN shown' : id < nextId
    <2>1. DOMAIN shown' \subseteq Nat /\ \A id \in DOMAIN shown' : \E m \in e.history : m.id = id
      BY <1>1, <1>3, ListingAre
    <2> QED
      BY <1>1, <2>1 DEF Below
  <1>5. /\ ClientTypes' /\ asks' = asks /\ app'.space = app.space /\ app'.known = app.known
        /\ win'.direct = TRUE
    BY <1>0, <1>2, <1>3, <1>4, GroupTypes
  <1> QED
    BY <1>4, <1>5, ElsewhereInv

LEMMA GroupCreatedInv ==
  ASSUME TextInv, Reads, NEW e, e = Head(lane), e.sig = "grouped", GroupCreated(e.of)
  PROVE  TextInv'
  <1>0. /\ e \in Letters /\ ClientTypes /\ FreshIds
    BY ReadsFacts DEF TextInv, TextTypes
  <1>1. e.of \in Groups
    BY <1>0, LetterKinds
  <1>2. GroupOpened(e.of) /\ shown' = shown
    BY DEF GroupCreated
  <1>3. /\ ClientTypes' /\ asks' = asks /\ app'.space = app.space /\ app'.known = app.known
        /\ win'.direct = TRUE
    BY <1>0, <1>1, <1>2, GroupTypes DEF ClientTypes
  <1>4. \A id \in DOMAIN shown' : id < nextId
    BY <1>0, <1>2 DEF FreshIds
  <1> QED
    BY <1>3, <1>4, ElsewhereInv

(* A message comes in. *)
LEMMA MessageInShown ==
  ASSUME TextInv, Reads, NEW e, e = Head(lane), e.sig = "posted", MessageIn(e.of, e.message),
         NEW b, b = win.chan, Display(b), b \in Boards, ~win.direct, here = app.space,
         app.group = Nowhere, Steady(1), app'.known = app.known, app'.space = app.space,
         app'.unread = (IF ~Open(e.of) /\ Counted(e.of, e.message) THEN app.unread \cup { e.of }
                        ELSE IF e.of[1] = "direct" THEN app.unread \ { e.of } ELSE app.unread)
  PROVE  NextDisplay(b)
  <1> DEFINE t == e.of
             m == e.message
             K == kept[Board(b)]
             M == Due(Board(b), 0)
             N == Due(Board(b), 1)
  <1>0. /\ e \in Letters /\ e = lane[1] /\ 1 \in 1 .. Len(lane) /\ FreshIds /\ Board(b) \in Talks
        /\ (Matters(e, Board(b)) => M = { e } \cup N) /\ (~Matters(e, Board(b)) => M = N)
    BY ReadsFacts, TalksMade DEF TextInv
  <1>1. t \in Talks /\ m \in Msgs
    BY <1>0, LetterKinds
  <1>2. shown' = IF Open(t) THEN Appended(m) ELSE shown
    BY DEF MessageIn
  <1>3. Lost(b)' <=> Lost(b)
    BY DEF Lost
  <1> SUFFICES ASSUME Board(b) \notin raced
               PROVE  /\ RowsTidy' /\ Listed(Rows', K, N)
                      /\ Posts(N) # {} => ~Lost(b)
                      /\ \A k \in K : Found(k, Rows', N) \/ k.mine \/ Board(b) \in app'.unread
    BY <1>3 DEF NextDisplay, Display
  <1>4. /\ RowsTidy /\ Listed(Rows, K, M) /\ (Posts(M) # {} => ~Lost(b)) /\ HomeOf[b] = here
        /\ \A k \in K : Found(k, Rows, M) \/ k.mine \/ Board(b) \in app.unread
    BY DEF Display, Claim, LostBy
  <1>5. CASE t = Board(b)
    <2>1. Matters(e, Board(b)) /\ M = { e } \cup N
      BY <1>0, <1>5 DEF Matters
    <2>2. Entry(m, K, N) /\ \A x \in Posts(N) : x.id # m.id
      <3>1. TalkTrue(b) /\ PostedIs(lane[1], b)
        BY <1>0, <1>5 DEF TextInv, TalksTrue, PostedIs
      <3>2. LanePosted(b)
        BY <3>1 DEF TalkTrue
      <3> QED
        BY <1>0, <1>4, <3>1, <3>2 DEF LanePosted
    <2>3. m \in Posts(M)
      BY <2>1, PostsAre
    <2>4. /\ e \in M /\ N \subseteq M /\ M \subseteq N \cup { e }
      BY <2>1
    <2>5. ~Lost(b) /\ b \in app.known
      BY <1>4, <2>3 DEF Lost
    <2>6. CASE Open(t)
      <3>1. /\ Listed(Rows \cup { m }, K, N) /\ \A d \in Rows : d.id # m.id
            /\ \A k : Found(k, Rows, M) => Found(k, Rows \cup { m }, N)
        <4>1. /\ Rest(e, M, N) /\ Listed(Rows, K, M) /\ Entry(e.message, K, N)
              /\ \A x \in Posts(N) : x.id # e.message.id
          BY <1>4, <2>2, <2>4 DEF Rest
        <4> HIDE DEF K, M, N
        <4> QED
          BY <4>1, ReadPosted
      <3>2. m.id \notin DOMAIN shown
        BY <1>4, <3>1 DEF RowsTidy, Rows
      <3>3. RowsTidy' /\ Rows' = Rows \cup { m }
        BY <1>1, <1>2, <1>4, <2>6, <3>2, RowsAppended
      <3>4. app'.unread = app.unread
        BY <1>5, <2>6, Boarded
      <3> QED
        BY <1>4, <2>5, <3>1, <3>3, <3>4
    <2>7. CASE ~Open(t)
      <3>1. RowsTidy' /\ Rows' = Rows
        BY <1>2, <1>4, <2>7 DEF RowsTidy, Rows, Row
      <3>2. /\ Listed(Rows, K, N) /\ \A k : Found(k, Rows, M) => Found(k, Rows, N) \/ m.id = k.id
        <4>1. Rest(e, M, N) /\ Listed(Rows, K, M) /\ Apart(Rows, e)
          BY <1>4, <2>4 DEF Rest, Apart
        <4> HIDE DEF K, M, N
        <4> QED
          BY <4>1, ReadNothing
      <3>3. CASE m.mine
        <4>1. \A k \in K : m.id = k.id => k.mine
          <5> SUFFICES ASSUME NEW k \in K, m.id = k.id PROVE k.mine
            OBVIOUS
          <5>1. Distinct(K) /\ Agreed(K, M)
            BY <1>0 DEF FreshIds, TextInv, TalksTrue, TalkTrue
          <5>2. ~Comes("delete", m.id, N)
            BY <2>4, <5>1 DEF Comes, Agreed
          <5>3. PICK k2 \in K : Likens(k2, m, N)
            BY <2>2, <5>2 DEF Entry
          <5>4. k2.id = m.id /\ k2.mine = m.mine
            BY <5>3 DEF Likens
          <5> QED
            BY <3>3, <5>1, <5>4 DEF Distinct
        <4>2. app.unread \subseteq app'.unread
          BY <1>5, Boarded
        <4> QED
          BY <1>4, <2>5, <3>1, <3>2, <4>1, <4>2
      <3>4. CASE ~m.mine
        <4>1. Counted(t, m)
          BY <1>5, <2>5, <3>4, Boarded DEF Counted
        <4>2. Board(b) \in app'.unread
          BY <1>5, <2>7, <4>1
        <4> QED
          BY <2>5, <3>1, <3>2, <4>2
      <3> QED
        BY <3>3, <3>4
    <2> QED
      BY <2>6, <2>7
  <1>6. CASE t # Board(b)
    <2>1. M = N
      BY <1>0, <1>6 DEF Matters
    <2>2. ~Open(t)
      <3>1. CASE t[1] = "board"
        BY <1>1, <1>6, <3>1, TalkKinds DEF Open, BoardOpen
      <3>2. CASE t[1] = "direct"
        BY <3>2 DEF Open
      <3>3. CASE t[1] = "group"
        BY <1>1, <3>3, TalkKinds, TextAssumption DEF Open
      <3> QED
        BY <1>1, <3>1, <3>2, <3>3, TalkKinds
    <2>3. RowsTidy' /\ Rows' = Rows
      BY <1>2, <1>4, <2>2 DEF RowsTidy, Rows, Row
    <2>4. Board(b) \in app.unread => Board(b) \in app'.unread
      BY <1>6
    <2> QED
      BY <1>4, <2>1, <2>3, <2>4
  <1> QED
    BY <1>5, <1>6

LEMMA MessageInInv ==
  ASSUME TextInv, Reads, NEW e, e = Head(lane), e.sig = "posted", MessageIn(e.of, e.message)
  PROVE  TextInv'
  <1> DEFINE u == IF ~Open(e.of) /\ Counted(e.of, e.message) THEN app.unread \cup { e.of }
                  ELSE IF e.of[1] = "direct" THEN app.unread \ { e.of } ELSE app.unread
  <1>0. /\ e \in Letters /\ ClientTypes /\ FreshIds /\ LetterFresh(e, nextId) /\ asks \subseteq Requests
        /\ win \in Windows /\ app \in States
    BY ReadsFacts DEF TextInv, TextTypes, ClientTypes
  <1>1. e.of \in Talks /\ e.message \in Msgs
    BY <1>0, LetterKinds
  <1>2. app' = [ app EXCEPT !.unread = u ] /\ win' = win /\ asks' = asks
    BY <1>0 DEF MessageIn, States
  <1>3. u \in SUBSET Talks
    BY <1>0, <1>1 DEF States
  <1>4. /\ app' \in States /\ app'.space = app.space /\ app'.known = app.known /\ app'.unread = u
        /\ app'.selected = app.selected /\ app'.group = app.group
    <2> HIDE DEF u
    <2> QED
      BY <1>0, <1>2, <1>3 DEF States
  <1>5. DOMAIN shown' \subseteq DOMAIN shown \cup { e.message.id }
    BY DEF MessageIn, Appended
  <1>6. \A id \in DOMAIN shown' : id < nextId
    BY <1>0, <1>5 DEF FreshIds, LetterFresh
  <1>7. ClientTypes'
    BY <1>0, <1>1, <1>2, <1>4, <1>5 DEF ClientTypes, Msgs
  <1>8. \A b \in Boards : Lost(b)' => Lost(b)
    BY <1>4 DEF Lost
  <1>9. /\ WindowTrue'
        /\ Rested' => /\ Display(win.chan) /\ win.chan \in Boards /\ ~win.direct /\ here = app.space
                      /\ app.group = Nowhere /\ app.selected = win.chan /\ app.space # Nowhere /\ Steady(1)
    BY <1>2, <1>4, WindowKept
  <1>10. \A b : Rested' /\ b = win'.chan => NextDisplay(b)
    <2> SUFFICES ASSUME Rested', NEW b, b = win.chan PROVE NextDisplay(b)
      BY <1>2
    <2> HIDE DEF u
    <2> QED
      BY <1>4, <1>9, MessageInShown DEF u
  <1> QED
    BY <1>0, <1>2, <1>6, <1>7, <1>8, <1>9, <1>10, ReadsInv

(* A change of a message comes in: of another conversation or of a message *)
(* that is not on display, nothing is shown.                               *)
LEMMA ChangeUnseen ==
  ASSUME TextInv, Reads, NEW e, e = Head(lane), e.sig \in Touches, NEW b, b = win.chan, Display(b),
         b \in Boards, app' = app, shown' = shown, e.of # Board(b) \/ e.id \notin DOMAIN shown
  PROVE  NextDisplay(b)
  <1> DEFINE K == kept[Board(b)]
             M == Due(Board(b), 0)
             N == Due(Board(b), 1)
  <1>0. (Matters(e, Board(b)) => M = { e } \cup N) /\ (~Matters(e, Board(b)) => M = N)
    BY ReadsFacts
  <1>1. (Lost(b)' <=> Lost(b)) /\ (RowsTidy' <=> RowsTidy) /\ Rows' = Rows
    BY DEF Lost, RowsTidy, Rows, Row
  <1> SUFFICES ASSUME Board(b) \notin raced
               PROVE  /\ Listed(Rows, K, N) /\ (Posts(N) # {} => ~Lost(b))
                      /\ \A k \in K : Found(k, Rows, N) \/ k.mine \/ Board(b) \in app.unread
    BY <1>1 DEF NextDisplay, Display
  <1>2. /\ RowsTidy /\ Listed(Rows, K, M) /\ (Posts(M) # {} => ~Lost(b)) /\ HomeOf[b] = here
        /\ \A k \in K : Found(k, Rows, M) \/ k.mine \/ Board(b) \in app.unread
    BY DEF Display, Claim, LostBy
  <1>3. CASE M = N
    BY <1>2, <1>3
  <1>4. CASE M # N
    <2>1. e.of = Board(b) /\ M = { e } \cup N /\ N \subseteq M /\ M \subseteq N \cup { e }
      BY <1>0, <1>4 DEF Matters
    <2>2. \A d \in Rows : e.id # d.id
      BY <1>2, <2>1 DEF RowsTidy, Rows
    <2>3. e.sig # "posted" /\ e.sig \in Touches \cup { "posted" }
      BY TouchesAre
    <2>4. Listed(Rows, K, N) /\ \A k : Found(k, Rows, M) => Found(k, Rows, N)
      <3>1. Rest(e, M, N) /\ Listed(Rows, K, M) /\ Apart(Rows, e)
        BY <1>2, <2>1, <2>2 DEF Rest, Apart, Matters
      <3> HIDE DEF K, M, N
      <3>2. /\ Listed(Rows, K, N)
            /\ \A k : Found(k, Rows, M) => Found(k, Rows, N) \/ (e.sig = "posted" /\ e.message.id = k.id)
        BY <3>1, ReadNothing
      <3> QED
        BY <2>3, <3>2
    <2>5. Posts(N) \subseteq Posts(M)
      <3> HIDE DEF K, M, N
      <3> QED
        BY <2>1, PostsGrow
    <2> QED
      BY <1>2, <2>4, <2>5
  <1> QED
    BY <1>3, <1>4

LEMMA TouchInShown ==
  ASSUME TextInv, Reads, NEW e, e = Head(lane), e.sig \in { "edit", "pin", "like" },
         NEW b, b = win.chan, Display(b), b \in Boards, app' = app, e.of = Board(b), e.id \in DOMAIN shown,
         RowsTidy => \E y \in Msgs :
             /\ y.id = e.id /\ y.mine = Row(e.id).mine
             /\ y.edited = (Row(e.id).edited \/ e.sig = "edit")
             /\ y.pinned = (Row(e.id).pinned \/ e.sig = "pin")
             /\ shown' = [ shown EXCEPT ![e.id] = << y >> ]
  PROVE  NextDisplay(b)
  <1> DEFINE K == kept[Board(b)]
             M == Due(Board(b), 0)
             N == Due(Board(b), 1)
  <1>0. Matters(e, Board(b)) => M = { e } \cup N
    BY ReadsFacts
  <1>1. Lost(b)' <=> Lost(b)
    BY DEF Lost
  <1> SUFFICES ASSUME Board(b) \notin raced
               PROVE  /\ RowsTidy' /\ Listed(Rows', K, N) /\ (Posts(N) # {} => ~Lost(b))
                      /\ \A k \in K : Found(k, Rows', N) \/ k.mine \/ Board(b) \in app.unread
    BY <1>1 DEF NextDisplay, Display
  <1>2. /\ RowsTidy /\ Listed(Rows, K, M) /\ (Posts(M) # {} => ~Lost(b)) /\ HomeOf[b] = here
        /\ \A k \in K : Found(k, Rows, M) \/ k.mine \/ Board(b) \in app.unread
    BY DEF Display, Claim, LostBy
  <1>3. M = { e } \cup N
    BY <1>0, TouchesAre DEF Matters
  <1>4. Agreed(K, M)
    BY DEF TextInv, TalksTrue, TalkTrue
  <1>5. PICK y \in Msgs :
             /\ y.id = e.id /\ y.mine = Row(e.id).mine
             /\ y.edited = (Row(e.id).edited \/ e.sig = "edit")
             /\ y.pinned = (Row(e.id).pinned \/ e.sig = "pin")
             /\ shown' = [ shown EXCEPT ![e.id] = << y >> ]
    BY <1>2
  <1>6. /\ RowsTidy' /\ Row(e.id)' = y /\ \A i \in DOMAIN shown : i # e.id => Row(i)' = Row(i)
        /\ DOMAIN shown' = DOMAIN shown
    BY <1>2, <1>5, RowsReplaced
  <1>7. Rows' = { Row(i)' : i \in DOMAIN shown }
    BY <1>6 DEF Rows, Row
  <1>8. \A i \in DOMAIN shown : Row(i) \in Rows /\ Row(i)' \in Rows' /\ Row(i).id = i /\ Row(i)'.id = i
    BY <1>2, <1>6, <1>7 DEF Rows, RowsTidy
  <1>9. \A d2 \in Rows' : \E d \in Rows :
             /\ d2.id = d.id /\ d2.mine = d.mine /\ (d.id # e.id => d2 = d)
             /\ d.id = e.id => /\ d2.edited = (d.edited \/ e.sig = "edit")
                               /\ d2.pinned = (d.pinned \/ e.sig = "pin")
    <2> SUFFICES ASSUME NEW i \in DOMAIN shown, NEW d2, d2 = Row(i)'
                 PROVE  \E d \in Rows :
                          /\ d2.id = d.id /\ d2.mine = d.mine /\ (d.id # e.id => d2 = d)
                          /\ d.id = e.id => /\ d2.edited = (d.edited \/ e.sig = "edit")
                                            /\ d2.pinned = (d.pinned \/ e.sig = "pin")
      BY <1>7
    <2>1. CASE i = e.id
      BY <1>5, <1>6, <1>8, <2>1
    <2>2. CASE i # e.id
      BY <1>6, <1>8, <2>2
    <2> QED
      BY <2>1, <2>2
  <1>10. \A d \in Rows : \E d2 \in Rows' : d2.id = d.id
    BY <1>8 DEF Rows
  <1>11. Listed(Rows', K, N) /\ \A k : Found(k, Rows, M) => Found(k, Rows', N)
    <2>1. e \in M /\ N \subseteq M /\ M \subseteq N \cup { e }
      BY <1>3
    <2> DEFINE D2 == Rows'
    <2>2. Listed(D2, K, N) /\ \A k : Found(k, Rows, M) => Found(k, D2, N)
      <3>1. Redone(Rows, e, D2) /\ Rest(e, M, N)
        BY <1>9, <1>10, <2>1 DEF Redone, Rest
      <3>2. Listed(Rows, K, M) /\ Agreed(K, M)
        BY <1>2, <1>4
      <3> HIDE DEF K, M, N, D2
      <3> QED
        BY <3>1, <3>2, ReadTouch
    <2> QED
      BY <2>2
  <1>12. Posts(N) \subseteq Posts(M)
    BY <1>3, PostsGrow
  <1> QED
    BY <1>2, <1>6, <1>11, <1>12

LEMMA DeletedInShown ==
  ASSUME TextInv, Reads, NEW e, e = Head(lane), e.sig = "delete",
         NEW b, b = win.chan, Display(b), b \in Boards, app' = app, e.of = Board(b), e.id \in DOMAIN shown,
         shown' = IF Len(shown[e.id]) > 1 THEN [ shown EXCEPT ![e.id] = Tail(@) ]
                  ELSE [ id \in DOMAIN shown \ { e.id } |-> shown[id] ]
  PROVE  NextDisplay(b)
  <1> DEFINE K == kept[Board(b)]
             M == Due(Board(b), 0)
             N == Due(Board(b), 1)
  <1>0. Matters(e, Board(b)) => M = { e } \cup N
    BY ReadsFacts
  <1>1. Lost(b)' <=> Lost(b)
    BY DEF Lost
  <1> SUFFICES ASSUME Board(b) \notin raced
               PROVE  /\ RowsTidy' /\ Listed(Rows', K, N) /\ (Posts(N) # {} => ~Lost(b))
                      /\ \A k \in K : Found(k, Rows', N) \/ k.mine \/ Board(b) \in app.unread
    BY <1>1 DEF NextDisplay, Display
  <1>2. /\ RowsTidy /\ Listed(Rows, K, M) /\ (Posts(M) # {} => ~Lost(b)) /\ HomeOf[b] = here
        /\ \A k \in K : Found(k, Rows, M) \/ k.mine \/ Board(b) \in app.unread
    BY DEF Display, Claim, LostBy
  <1>3. M = { e } \cup N /\ e \in M /\ N \subseteq M /\ M \subseteq N \cup { e }
    BY <1>0, TouchesAre DEF Matters
  <1>4. Agreed(K, M)
    BY DEF TextInv, TalksTrue, TalkTrue
  <1>5. shown' = [ id \in DOMAIN shown \ { e.id } |-> shown[id] ]
    <2>1. shown[e.id] = << Row(e.id) >>
      BY <1>2 DEF RowsTidy
    <2>2. \A r : Len(<< r >>) = 1
      OBVIOUS
    <2>3. ~(Len(shown[e.id]) > 1)
      BY <2>1, <2>2
    <2> QED
      BY <2>3
  <1>6. DOMAIN shown' = DOMAIN shown \ { e.id } /\ \A i \in DOMAIN shown' : shown'[i] = shown[i]
    BY <1>5
  <1>7. RowsTidy' /\ Rows' = Without(Rows, e.id)
    <2>1. RowsTidy'
      BY <1>2, <1>6 DEF RowsTidy, Row
    <2>2. Rows' = { shown[i][1] : i \in DOMAIN shown \ { e.id } }
      BY <1>6 DEF Rows, Row
    <2>3. \A i \in DOMAIN shown : shown[i][1].id = i
      BY <1>2 DEF RowsTidy, Row
    <2>4. \A d : d \in Rows <=> \E i \in DOMAIN shown : d = shown[i][1]
      BY DEF Rows, Row
    <2>5. \A d : d \in Rows' <=> \E i \in DOMAIN shown : i # e.id /\ d = shown[i][1]
      BY <2>2
    <2>6. \A d : d \in Without(Rows, e.id) <=> d \in Rows /\ d.id # e.id
      BY DEF Without
    <2>7. \A d : d \in Rows' <=> d \in Without(Rows, e.id)
      BY <2>3, <2>4, <2>5, <2>6
    <2>8. Rows' = Without(Rows, e.id)
      <3> DEFINE A == Rows'
                 B == Without(Rows, e.id)
      <3>1. \A d : d \in A <=> d \in B
        BY <2>7
      <3> HIDE DEF A, B
      <3>2. A = B
        BY <3>1
      <3> QED
        BY <3>2 DEF A, B
    <2> QED
      BY <2>1, <2>8
  <1>8. /\ Listed(Without(Rows, e.id), K, N)
        /\ \A k \in K : Found(k, Rows, M) => Found(k, Without(Rows, e.id), N)
    <2>1. Listed(Rows, K, M) /\ Rest(e, M, N)
      BY <1>2, <1>3 DEF Rest
    <2> HIDE DEF K, M, N
    <2> QED
      BY <1>4, <2>1, ReadDelete
  <1>9. Posts(N) \subseteq Posts(M)
    BY <1>3, PostsGrow
  <1> QED
    BY <1>2, <1>7, <1>8, <1>9

LEMMA ChangeInInv ==
  ASSUME TextInv, Reads, NEW e, e = Head(lane),
         \/ e.sig = "edit" /\ EditedIn(e)
         \/ e.sig = "pin" /\ PinnedIn(e)
         \/ e.sig = "like" /\ LikedIn(e)
         \/ e.sig = "delete" /\ DeletedIn(e)
  PROVE  TextInv'
  <1> DEFINE seen == Pointed = e.of /\ e.id \in DOMAIN shown
  <1>0. /\ ClientTypes /\ FreshIds /\ asks \subseteq Requests /\ win' = win /\ app' = app /\ asks' = asks
        /\ e.sig \in Touches
    BY TouchesAre DEF TextInv, TextTypes, EditedIn, PinnedIn, LikedIn, DeletedIn, OnDisplay
  <1>1. DOMAIN shown' \subseteq DOMAIN shown
    BY DEF EditedIn, PinnedIn, LikedIn, DeletedIn, OnDisplay
  <1>2. ClientTypes' /\ \A id \in DOMAIN shown' : id < nextId
    BY <1>0, <1>1 DEF ClientTypes, FreshIds
  <1>3. \A b \in Boards : Lost(b)' => Lost(b)
    BY <1>0 DEF Lost
  <1>4. /\ WindowTrue'
        /\ Rested' => /\ Display(win.chan) /\ win.chan \in Boards /\ ~win.direct /\ here = app.space
                      /\ app.group = Nowhere /\ app.selected = win.chan /\ app.space # Nowhere /\ Steady(1)
    BY <1>0, TouchesAre, WindowKept
  <1>5. ASSUME Rested', NEW b, b = win.chan PROVE NextDisplay(b)
    <2>1. Display(b) /\ b \in Boards /\ Pointed = Board(b)
      BY <1>4, <1>5 DEF Pointed
    <2>2. CASE ~seen
      <3>1. shown' = shown
        BY <2>2 DEF EditedIn, PinnedIn, LikedIn, DeletedIn, OnDisplay
      <3> QED
        BY <1>0, <1>5, <2>1, <2>2, <3>1, ChangeUnseen
    <2>3. CASE seen /\ e.sig = "delete"
      BY <1>0, <1>5, <2>1, <2>3, DeletedInShown DEF DeletedIn, OnDisplay
    <2>4. CASE seen /\ e.sig # "delete"
      <3>1. e.sig \in { "edit", "pin", "like" }
        BY <1>0, <2>4, TouchesAre
      <3>2. ASSUME RowsTidy, NEW y
            PROVE  [ shown EXCEPT ![e.id] = [ shown[e.id] EXCEPT ![1] = y ] ] = [ shown EXCEPT ![e.id] = << y >> ]
        <4>1. shown[e.id] = << Row(e.id) >>
          BY <2>4, <3>2 DEF RowsTidy
        <4>2. \A r : [ << r >> EXCEPT ![1] = y ] = << y >>
          OBVIOUS
        <4> QED
          BY <4>1, <4>2
      <3>3. ASSUME RowsTidy PROVE Row(e.id) \in Msgs /\ Row(e.id).id = e.id
        BY <2>4, <3>3 DEF RowsTidy
      <3>4. ASSUME RowsTidy, e.sig \in { "edit", "pin" }
            PROVE  \E y \in Msgs :
                     /\ y.id = e.id /\ y.mine = Row(e.id).mine
                     /\ y.edited = (Row(e.id).edited \/ e.sig = "edit")
                     /\ y.pinned = (Row(e.id).pinned \/ e.sig = "pin")
                     /\ shown' = [ shown EXCEPT ![e.id] = << y >> ]
        <4> DEFINE y == Touched(Row(e.id), e.sig)
        <4>1. shown' = [ shown EXCEPT ![e.id] = [ shown[e.id] EXCEPT ![1] = y ] ]
          BY <2>4, <3>4 DEF EditedIn, PinnedIn, OnDisplay, Row
        <4>2. /\ y \in Msgs /\ y.id = e.id /\ y.mine = Row(e.id).mine
              /\ y.edited = (Row(e.id).edited \/ e.sig = "edit")
              /\ y.pinned = (Row(e.id).pinned \/ e.sig = "pin")
          BY <1>0, <3>3, <3>4, MessageTouched
        <4> HIDE DEF y
        <4> QED
          BY <3>2, <3>4, <4>1, <4>2
      <3>5. ASSUME RowsTidy, e.sig = "like"
            PROVE  \E y \in Msgs :
                     /\ y.id = e.id /\ y.mine = Row(e.id).mine
                     /\ y.edited = (Row(e.id).edited \/ e.sig = "edit")
                     /\ y.pinned = (Row(e.id).pinned \/ e.sig = "pin")
                     /\ shown' = [ shown EXCEPT ![e.id] = << y >> ]
        <4> DEFINE y == [ Row(e.id) EXCEPT !.likes = @ + 1 ]
        <4>1. shown' = [ shown EXCEPT ![e.id] = [ shown[e.id] EXCEPT ![1] = y ] ]
          BY <2>4, <3>5 DEF LikedIn, OnDisplay, Row
        <4>2. /\ y \in Msgs /\ y.id = e.id /\ y.mine = Row(e.id).mine
              /\ y.edited = Row(e.id).edited /\ y.pinned = Row(e.id).pinned
          BY <3>3, <3>5 DEF Msgs
        <4>3. y.edited \in BOOLEAN /\ y.pinned \in BOOLEAN
          BY <4>2 DEF Msgs
        <4> HIDE DEF y
        <4> QED
          BY <3>2, <3>5, <4>1, <4>2, <4>3
      <3>6. RowsTidy => \E y \in Msgs :
                     /\ y.id = e.id /\ y.mine = Row(e.id).mine
                     /\ y.edited = (Row(e.id).edited \/ e.sig = "edit")
                     /\ y.pinned = (Row(e.id).pinned \/ e.sig = "pin")
                     /\ shown' = [ shown EXCEPT ![e.id] = << y >> ]
        BY <3>1, <3>4, <3>5
      <3>7. e.of = Board(b) /\ e.id \in DOMAIN shown
        BY <2>1, <2>4
      <3> QED
        BY <1>0, <1>5, <2>1, <3>1, <3>6, <3>7, TouchInShown
    <2> QED
      BY <2>2, <2>3, <2>4
  <1>6. \A b : Rested' /\ b = win'.chan => NextDisplay(b)
    BY <1>0, <1>5
  <1> QED
    BY <1>0, <1>2, <1>3, <1>4, <1>6, ReadsInv

(* A letter that is not about the messages. *)
LEMMA Undisturbed ==
  ASSUME TextInv, Reads, Head(lane).sig \notin Touches \cup { "posted" }, NEW b, Display(b), shown' = shown,
         Lost(b)' => Lost(b), Board(b) \in app.unread => Board(b) \in app'.unread
  PROVE  NextDisplay(b)
  <1>1. Due(Board(b), 0) = Due(Board(b), 1)
    BY ReadsFacts DEF Matters
  <1>2. (RowsTidy' <=> RowsTidy) /\ Rows' = Rows
    BY DEF RowsTidy, Rows, Row
  <1> QED
    BY <1>1, <1>2 DEF NextDisplay, Display, Claim, LostBy

(* The text channels and the spaces come and go. *)
LEMMA BoardGoneInv ==
  ASSUME TextInv, Reads, NEW e, e = Head(lane), e.sig = "gone", BoardGone(e.of)
  PROVE  TextInv'
  <1>0. /\ e \in Letters /\ ClientTypes /\ FreshIds /\ asks \subseteq Requests /\ win \in Windows /\ app \in States
    BY ReadsFacts DEF TextInv, TextTypes, ClientTypes
  <1>1. e.of \in Boards
    BY <1>0, LetterKinds
  <1> DEFINE c == app.chat /\ ~(app.selected = e.of /\ ~win.direct)
             d == win.chat /\ ~app.chat
             x == IF app.selected = e.of THEN Nowhere ELSE app.selected
  <1>2. /\ app' = [ app EXCEPT !.known = app.known \ { e.of }, !.unread = app.unread \ { Board(e.of) },
                               !.selected = x, !.chat = c ]
        /\ win' = IF app.selected # e.of \/ win.direct THEN win ELSE [ win EXCEPT !.chan = Nowhere, !.chat = d ]
        /\ asks' = asks /\ shown' = shown
    BY <1>0 DEF BoardGone, States, Windows
  <1>3. c \in BOOLEAN /\ d \in BOOLEAN /\ x \in Boards \cup { Nowhere }
    BY <1>0 DEF States
  <1>4. /\ app' \in States /\ app'.space = app.space /\ app'.known = app.known \ { e.of }
        /\ app'.unread = app.unread \ { Board(e.of) } /\ app'.group = app.group /\ app'.selected = x
    <2> HIDE DEF c, x
    <2> QED
      BY <1>0, <1>2, <1>3 DEF States
  <1>5. \A b \in Boards : Lost(b)' => Lost(b) \/ Buries(e, b)
    BY <1>4 DEF Lost, Buries
  <1>6. \A id \in DOMAIN shown' : id < nextId
    BY <1>0, <1>2 DEF FreshIds
  <1>7. CASE app.selected = e.of /\ ~win.direct
    <2>1. win' = [ win EXCEPT !.chan = Nowhere, !.chat = d ]
      BY <1>2, <1>7
    <2>2. win' \in Windows /\ win'.chan = Nowhere
      <3> HIDE DEF d
      <3> QED
        BY <1>0, <1>3, <2>1 DEF Windows
    <2>3. ClientTypes'
      BY <1>0, <1>2, <1>4, <2>2 DEF ClientTypes
    <2>4. WindowTrue' /\ ~Rested'
      BY <2>2 DEF WindowTrue, Rested, OnBoard
    <2> QED
      BY <1>0, <1>2, <1>5, <1>6, <2>3, <2>4, ReadsInv
  <1>8. CASE win.direct
    <2>1. win' = win
      BY <1>2, <1>8
    <2>2. ClientTypes'
      BY <1>0, <1>2, <1>4, <2>1 DEF ClientTypes
    <2>3. WindowTrue' /\ ~Rested'
      BY <1>8, <2>1 DEF WindowTrue, Rested, OnBoard
    <2> QED
      BY <1>0, <1>2, <1>5, <1>6, <2>2, <2>3, ReadsInv
  <1>9. CASE app.selected # e.of /\ ~win.direct
    <2>1. win' = win /\ app'.selected = app.selected
      BY <1>2, <1>4, <1>9
    <2>2. ClientTypes'
      BY <1>0, <1>2, <1>4, <2>1 DEF ClientTypes
    <2>3. /\ WindowTrue'
          /\ Rested' => /\ Display(win.chan) /\ win.chan \in Boards /\ ~win.direct /\ here = app.space
                        /\ app.group = Nowhere /\ app.selected = win.chan /\ app.space # Nowhere /\ Steady(1)
      BY <1>2, <1>4, <2>1, WindowKept
    <2>4. ASSUME Rested', NEW b, b = win.chan PROVE NextDisplay(b)
      <3>1. Display(b) /\ b # e.of
        BY <1>9, <2>3, <2>4
      <3>2. Lost(b)' => Lost(b)
        BY <1>4, <3>1 DEF Lost
      <3>3. Board(b) # Board(e.of)
        BY <3>1, Boarded
      <3>4. Board(b) \in app.unread => Board(b) \in app'.unread
        BY <1>4, <3>3
      <3>5. e.sig \notin Touches \cup { "posted" }
        BY TouchesAre
      <3> QED
        BY <1>2, <3>1, <3>2, <3>4, <3>5, Undisturbed
    <2> QED
      BY <1>0, <1>2, <1>5, <1>6, <2>1, <2>2, <2>3, <2>4, ReadsInv
  <1> QED
    BY <1>7, <1>8, <1>9

LEMMA SpaceUnknownInv ==
  ASSUME TextInv, Reads, NEW e, e = Head(lane), e.sig = "unknown", SpaceUnknown
  PROVE  TextInv'
  <1>0. /\ ClientTypes /\ FreshIds /\ asks \subseteq Requests /\ win \in Windows /\ app \in States
        /\ asks' = asks /\ shown' = shown
    BY DEF TextInv, TextTypes, ClientTypes, SpaceUnknown
  <1>1. /\ win' = win \/ win' = [ win EXCEPT !.space = Nowhere ]
        /\ app' = app \/ app' = [ app EXCEPT !.chat = FALSE ]
    BY DEF SpaceUnknown
  <1>2. win' \in Windows /\ win'.chan = win.chan /\ win'.direct = win.direct /\ win'.group = win.group
    BY <1>0, <1>1 DEF Windows
  <1>3. /\ app' \in States /\ app'.space = app.space /\ app'.known = app.known /\ app'.unread = app.unread
        /\ app'.group = app.group /\ app'.selected = app.selected
    BY <1>0, <1>1 DEF States
  <1>4. ClientTypes'
    BY <1>0, <1>2, <1>3 DEF ClientTypes
  <1>5. \A b : Lost(b)' => Lost(b)
    BY <1>3 DEF Lost
  <1>6. \A id \in DOMAIN shown' : id < nextId
    BY <1>0 DEF FreshIds
  <1>7. /\ WindowTrue'
        /\ Rested' => /\ Display(win.chan) /\ win.chan \in Boards /\ ~win.direct /\ here = app.space
                      /\ app.group = Nowhere /\ app.selected = win.chan /\ app.space # Nowhere /\ Steady(1)
    BY <1>0, <1>2, <1>3, WindowKept
  <1>8. e.sig \notin Touches \cup { "posted" }
    BY TouchesAre
  <1>9. \A b : Rested' /\ b = win'.chan => NextDisplay(b)
    BY <1>0, <1>2, <1>3, <1>5, <1>7, <1>8, Undisturbed
  <1> QED
    BY <1>0, <1>4, <1>5, <1>6, <1>7, <1>9, ReadsInv

LEMMA SpaceMadeInv ==
  ASSUME TextInv, Reads, NEW e, e = Head(lane), e.sig = "made", SpaceMade(e.of)
  PROVE  TextInv'
  <1>0. /\ e \in Letters /\ ClientTypes /\ FreshIds /\ asks \subseteq Requests /\ win \in Windows /\ app \in States
    BY ReadsFacts DEF TextInv, TextTypes, ClientTypes
  <1>1. e.of \in Places
    BY <1>0, LetterKinds
  <1> DEFINE u == { t \in app.unread : t[1] # "board" }
  <1>2. /\ win' = [ win EXCEPT !.chat = FALSE, !.space = e.of, !.chan = Nowhere, !.direct = FALSE ]
        /\ app' = [ app EXCEPT !.chat = FALSE, !.space = e.of, !.known = {}, !.selected = Nowhere,
                               !.direct = Nowhere, !.group = Nowhere, !.unread = u ]
        /\ asks' = asks /\ shown' = shown
    BY <1>0 DEF SpaceMade, States
  <1>3. u \in SUBSET Talks
    BY <1>0 DEF States
  <1>4. app' \in States /\ app'.space = e.of
    <2> HIDE DEF u
    <2> QED
      BY <1>0, <1>1, <1>2, <1>3 DEF States
  <1>5. win' \in Windows /\ win'.chan = Nowhere
    BY <1>0, <1>1, <1>2 DEF Windows
  <1>6. ClientTypes'
    BY <1>0, <1>2, <1>4, <1>5 DEF ClientTypes
  <1>7. \A b : Lost(b)' => Lost(b) \/ Buries(e, b)
    BY <1>4 DEF Lost, Buries
  <1>8. \A id \in DOMAIN shown' : id < nextId
    BY <1>0, <1>2 DEF FreshIds
  <1>9. WindowTrue' /\ ~Rested'
    BY <1>5 DEF WindowTrue, Rested, OnBoard
  <1> QED
    BY <1>0, <1>2, <1>6, <1>7, <1>8, <1>9, ReadsInv

LEMMA SpaceLeftInv ==
  ASSUME TextInv, Reads, Emptied, asks' = asks
  PROVE  TextInv'
  <1>0. ClientTypes /\ FreshIds /\ asks \subseteq Requests /\ shown' = shown
    BY DEF TextInv, TextTypes, Emptied
  <1>1. ClientTypes' /\ ~OnBoard' /\ \A b \in Boards : ~Lost(b)'
    BY <1>0, EmptiedTypes
  <1>2. WindowTrue' /\ ~Rested'
    BY <1>1 DEF WindowTrue, Rested
  <1>3. \A id \in DOMAIN shown' : id < nextId
    BY <1>0 DEF FreshIds
  <1> QED
    BY <1>0, <1>1, <1>2, <1>3, ReadsInv

LEMMA SpaceInInv ==
  ASSUME TextInv, Reads, NEW e, e = Head(lane), e.sig = "joined", SpaceIn(e.of, e.list)
  PROVE  TextInv'
  <1> DEFINE keeps == Stays(e.of, e.list) /\ win.space = e.of
             u == IF win.space = e.of /\ app.space = e.of THEN app.unread
                  ELSE { t \in app.unread : t[1] # "board" }
  <1>0. /\ e \in Letters /\ ClientTypes /\ FreshIds /\ asks \subseteq Requests /\ win \in Windows /\ app \in States
    BY ReadsFacts DEF TextInv, TextTypes, ClientTypes
  <1>1. e.of \in Places /\ e.list \subseteq Boards
    BY <1>0, LetterKinds
  <1>2. PICK b \in Restored(e.of, e.list) :
         /\ win' = [ win EXCEPT !.space = e.of,
                                !.chat = IF keeps THEN app.chat ELSE b # Nowhere,
                                !.chan = IF keeps THEN win.chan ELSE b,
                                !.direct = keeps /\ win.direct ]
         /\ app' = [ app EXCEPT !.space = e.of, !.known = e.list, !.selected = b,
                                !.chat = IF keeps THEN app.chat ELSE b # Nowhere,
                                !.direct = Nowhere, !.group = Nowhere, !.unread = u ]
         /\ asks' = (IF b = Nowhere THEN asks ELSE asks \cup { Ask("select", Board(b)) })
         /\ shown' = shown
    BY <1>0 DEF SpaceIn, Windows, States
  <1>3. b \in Boards \cup { Nowhere } /\ (keeps => b \in Boards)
    BY <1>1, <1>2 DEF Restored, Stays
  <1>4. u \in SUBSET Talks
    BY <1>0 DEF States
  <1> DEFINE c == IF keeps THEN app.chat ELSE b # Nowhere
             d == keeps /\ win.direct
             x == IF keeps THEN win.chan ELSE b
  <1>5. c \in BOOLEAN /\ d \in BOOLEAN /\ x \in Boards \cup Buddies \cup { Nowhere }
    <2>1. (b # Nowhere) \in BOOLEAN /\ app.chat \in BOOLEAN
      BY <1>0 DEF States
    <2> QED
      BY <1>0, <1>3, <2>1 DEF Windows
  <1>6. app' \in States /\ app'.space = e.of /\ app'.known = e.list /\ app'.group = Nowhere
    <2>1. app' = [ app EXCEPT !.space = e.of, !.known = e.list, !.selected = b, !.chat = c,
                              !.direct = Nowhere, !.group = Nowhere, !.unread = u ]
      BY <1>2
    <2> HIDE DEF u, c
    <2> QED
      BY <1>0, <1>1, <1>3, <1>4, <1>5, <2>1 DEF States
  <1>7. win' \in Windows /\ win'.chan = x /\ win'.direct = d
    <2>1. win' = [ win EXCEPT !.space = e.of, !.chat = c, !.chan = x, !.direct = d ]
      BY <1>2
    <2> HIDE DEF c, d, x
    <2> QED
      BY <1>0, <1>1, <1>5, <2>1 DEF Windows
  <1>8. x \in (IF d THEN Buddies ELSE Boards) \cup { Nowhere }
    BY <1>0, <1>3 DEF ClientTypes
  <1>9. ClientTypes'
    BY <1>0, <1>2, <1>6, <1>7, <1>8 DEF ClientTypes
  <1>10. \A k : Lost(k)' => Lost(k) \/ Buries(e, k)
    BY <1>6 DEF Lost, Buries
  <1>11. \A id \in DOMAIN shown' : id < nextId
    BY <1>0, <1>2 DEF FreshIds
  <1>12. CASE b = Nowhere
    <2>1. asks' = asks
      BY <1>2, <1>12
    <2>2. ~OnBoard'
      <3>1. CASE keeps
        BY <1>3, <1>12, <3>1, TextAssumption
      <3> QED
        BY <1>7, <1>12, <3>1 DEF OnBoard
    <2>3. WindowTrue' /\ ~Rested'
      BY <2>2 DEF WindowTrue, Rested
    <2> QED
      BY <1>0, <1>9, <1>10, <1>11, <2>1, <2>3, ReadsInv
  <1>13. CASE b # Nowhere
    <2>1. b \in Boards /\ asks' = asks \cup { Ask("select", Board(b)) }
      BY <1>2, <1>3, <1>13
    <2>2. asks' \subseteq Requests
      BY <1>0, <2>1, AsksMade, TalksMade
    <2>3. Ask("select", Board(b)) \in asks' /\ Ask("select", Board(b)).kind = "select"
      BY <2>1 DEF Ask
    <2>4. Unsure'
      BY <2>3 DEF Unsure, Pending
    <2>5. WindowTrue' /\ ~Rested'
      BY <1>6, <2>4 DEF WindowTrue, Rested
    <2> QED
      BY <1>0, <1>9, <1>10, <1>11, <2>2, <2>5, ReadsInv
  <1> QED
    BY <1>12, <1>13

LEMMA ReceiveInv ==
  ASSUME TextInv, ViewReceive
  PROVE  TextInv'
  <1> DEFINE e == Head(lane)
  <1>0. Reads
    BY DEF ViewReceive, Reads
  <1> HIDE DEF e
  <1>e. e = Head(lane)
    BY DEF e
  <1>1. \/ e.sig = "selected" /\ e.of[1] = "board" /\ BoardSelected(e.of[2], e.history)
        \/ e.sig = "selected" /\ e.of[1] = "direct" /\ DirectSelected(e.of[2], e.history)
        \/ e.sig = "selected" /\ e.of[1] = "group" /\ GroupSelected(e.of[2], e.history)
        \/ e.sig = "grouped" /\ GroupCreated(e.of)
        \/ e.sig = "posted" /\ MessageIn(e.of, e.message)
        \/ e.sig = "edit" /\ EditedIn(e)
        \/ e.sig = "pin" /\ PinnedIn(e)
        \/ e.sig = "like" /\ LikedIn(e)
        \/ e.sig = "delete" /\ DeletedIn(e)
        \/ e.sig = "gone" /\ BoardGone(e.of)
        \/ e.sig = "joined" /\ SpaceIn(e.of, e.list)
        \/ e.sig = "made" /\ SpaceMade(e.of)
        \/ e.sig = "unknown" /\ SpaceUnknown
        \/ e.sig = "closed" /\ SpaceGone
        \/ e.sig = "out" /\ Kicked
    BY <1>e DEF ViewReceive
  <1>2. CASE e.sig = "selected" /\ e.of[1] = "board" /\ BoardSelected(e.of[2], e.history)
    BY <1>0, <1>e, <1>2, BoardSelectedInv
  <1>3. CASE e.sig = "selected" /\ e.of[1] = "direct" /\ DirectSelected(e.of[2], e.history)
    BY <1>0, <1>e, <1>3, DirectSelectedInv
  <1>4. CASE e.sig = "selected" /\ e.of[1] = "group" /\ GroupSelected(e.of[2], e.history)
    BY <1>0, <1>e, <1>4, GroupSelectedInv
  <1>5. CASE e.sig = "grouped" /\ GroupCreated(e.of)
    BY <1>0, <1>e, <1>5, GroupCreatedInv
  <1>6. CASE e.sig = "posted" /\ MessageIn(e.of, e.message)
    BY <1>0, <1>e, <1>6, MessageInInv
  <1>7. CASE \/ e.sig = "edit" /\ EditedIn(e)
             \/ e.sig = "pin" /\ PinnedIn(e)
             \/ e.sig = "like" /\ LikedIn(e)
             \/ e.sig = "delete" /\ DeletedIn(e)
    BY <1>0, <1>e, <1>7, ChangeInInv
  <1>8. CASE e.sig = "gone" /\ BoardGone(e.of)
    BY <1>0, <1>e, <1>8, BoardGoneInv
  <1>9. CASE e.sig = "joined" /\ SpaceIn(e.of, e.list)
    BY <1>0, <1>e, <1>9, SpaceInInv
  <1>10. CASE e.sig = "made" /\ SpaceMade(e.of)
    BY <1>0, <1>e, <1>10, SpaceMadeInv
  <1>11. CASE e.sig = "unknown" /\ SpaceUnknown
    BY <1>0, <1>e, <1>11, SpaceUnknownInv
  <1>12. CASE (e.sig = "closed" /\ SpaceGone) \/ (e.sig = "out" /\ Kicked)
    BY <1>0, <1>12, SpaceLeftInv DEF SpaceGone, Kicked
  <1> QED
    BY <1>1, <1>2, <1>3, <1>4, <1>5, <1>6, <1>7, <1>8, <1>9, <1>10, <1>11, <1>12

-----------------------------------------------------------------------------
(* The invariant holds, and says what is promised. *)
LEMMA TextInitInv ==
  ASSUME TextInit
  PROVE  TextInv
  <1>0. /\ nextId = 1 /\ kept = [ t \in Talks |-> {} ] /\ groups \subseteq Groups /\ places \subseteq Places
        /\ boards = { b \in Boards : HomeOf[b] \in places } /\ asks = {} /\ reply = NoReply /\ news = {}
        /\ lane = << >> /\ shown = Listing({}) /\ refused = FALSE
    BY DEF TextInit
  <1>1. PICK b \in boards :
        /\ here = HomeOf[b] /\ memberOf = { here }
        /\ win = [ chat |-> TRUE, space |-> here, chan |-> b, direct |-> FALSE, group |-> Nowhere ]
        /\ app = [ chat |-> TRUE, space |-> here, known |-> BoardsOf(here), selected |-> b,
                   direct |-> Nowhere, group |-> Nowhere, groups |-> groups, unread |-> {} ]
    BY DEF TextInit
  <1>2. b \in Boards /\ here \in Places /\ BoardsOf(here) \subseteq Boards
    BY <1>0, <1>1 DEF Places, BoardsOf
  <1>3. \A t \in Talks : kept[t] = {}
    BY <1>0
  <1>4. DOMAIN shown = {}
    BY <1>0 DEF Listing, Ids
  <1>5. Len(lane) = 0 /\ 1 .. Len(lane) = {} /\ 0 + 1 .. Len(lane) = {}
    BY <1>0
  <1>6. Mail(0) = {} /\ \A t : Due(t, 0) = {}
    BY <1>0, <1>5 DEF Mail, Due
  <1>7. NoReply.sig = "none"
    BY DEF NoReply
  <1>8. TextTypes
    <2>1. ServerTypes
      BY <1>0, <1>1, <1>2 DEF ServerTypes
    <2>2. MailTypes
      BY <1>0 DEF MailTypes
    <2>3. win \in Windows /\ app \in States
      BY <1>0, <1>1, <1>2 DEF Windows, States
    <2>4. ClientTypes
      BY <1>1, <1>2, <1>4, <2>3 DEF ClientTypes
    <2> QED
      BY <1>0, <2>1, <2>2, <2>4 DEF TextTypes
  <1>9. FreshIds
    BY <1>3, <1>4, <1>6 DEF FreshIds, Below, Distinct
  <1>10. \A c \in Boards : ~Lost(c)
    BY <1>1 DEF Lost, BoardsOf
  <1>11. Buried
    BY <1>6, <1>10 DEF Buried
  <1>12. TalksTrue
    <2> SUFFICES ASSUME NEW c \in Boards PROVE TalkTrue(c)
      BY DEF TalksTrue
    <2>1. Single(Board(c))
      BY <1>0, <1>7 DEF Single, About
    <2>2. kept[Board(c)] = {} /\ Agreed(kept[Board(c)], Due(Board(c), 0))
      BY <1>3, <1>6, TalksMade DEF Agreed
    <2>3. LanePosted(c)
      BY <1>5 DEF LanePosted
    <2>4. HeldTrue(c)
      BY <1>0, <1>7 DEF HeldTrue, PostedIs
    <2> QED
      BY <2>1, <2>2, <2>3, <2>4 DEF TalkTrue
  <1>13. LaneTrue
    BY <1>5 DEF LaneTrue
  <1>14. ReplyTrue
    BY <1>0, <1>7 DEF ReplyTrue
  <1>15. WindowTrue
    BY <1>1 DEF WindowTrue, Agreeing
  <1>16. ShownTrue
    <2>1. win.chan = b /\ HomeOf[b] = here
      BY <1>1
    <2>2. RowsTidy /\ Rows = {}
      BY <1>4 DEF RowsTidy, Rows
    <2>3. Posts({}) = {}
      BY DEF Posts
    <2>4. Claim({}, b, 0)
      BY <1>6, <2>3 DEF Claim, Listed
    <2>5. kept[Board(b)] = {}
      BY <1>2, <1>3, TalksMade
    <2>6. Display(b)
      BY <2>1, <2>2, <2>4, <2>5 DEF Display
    <2> QED
      BY <2>1, <2>6 DEF ShownTrue
  <1> QED
    BY <1>8, <1>9, <1>11, <1>12, <1>13, <1>14, <1>15, <1>16 DEF TextInv

LEMMA TextStepInv ==
  ASSUME TextInv, [TextNext]_textVars
  PROVE  TextInv'
  <1>1. CASE ViewClick
    BY <1>1, ClickInv
  <1>2. ASSUME NEW a \in asks, ViewHandle(a) PROVE TextInv'
    BY <1>2, HandleInv
  <1>3. CASE Answer
    BY <1>3, AnswerInv
  <1>4. CASE ViewNews
    BY <1>4, NewsInv
  <1>5. ASSUME NEW e \in news, Broadcast(e) PROVE TextInv'
    BY <1>5, BroadcastInv
  <1>6. CASE ViewReceive
    BY <1>6, ReceiveInv
  <1>7. CASE UNCHANGED textVars
    <2>1. UNCHANGED << viewServer, lane, refused >> /\ asks' = asks /\ win' = win /\ app' = app /\ shown' = shown
      BY <1>7 DEF textVars, viewClient, viewCounts
    <2>2. ClientTypes' /\ asks' \subseteq Requests
      BY <2>1 DEF TextInv, TextTypes, ClientTypes
    <2> QED
      BY <2>1, <2>2, LeavesBe
  <1> QED
    BY <1>1, <1>2, <1>3, <1>4, <1>5, <1>6, <1>7 DEF TextNext

(* A row that is the server's message but for its pills. *)
LEMMA FacesAgree ==
  ASSUME NEW k \in Msgs, NEW m \in Msgs, Likens(k, m, {})
  PROVE  Faces(m) = Faces(k)
  <1>1. /\ k.id = m.id /\ k.mine = m.mine /\ (m.edited <=> k.edited) /\ (m.pinned <=> k.pinned)
    BY DEF Likens, Comes
  <1>2. /\ k.edited = m.edited /\ k.pinned = m.pinned
    BY <1>1 DEF Msgs
  <1> QED
    BY <1>1, <1>2 DEF Faces, Msgs

LEMMA TextInvView ==
  ASSUME TextInv
  PROVE  ChannelViewTrue
  <1> SUFFICES ASSUME Settled, ~win.direct, win.chan # Nowhere, NEW t, t = Board(win.chan),
                      NEW seen, seen = { Faces(Row(id)) : id \in DOMAIN shown },
                      NEW known, known = { Faces(m) : m \in kept[t] }
               PROVE  /\ Written = t
                      /\ t \notin raced =>
                           /\ seen \subseteq known
                           /\ \A id \in DOMAIN shown : Len(shown[id]) = 1
                           /\ \A m \in known \ seen : m.mine \/ t \in app.unread
    BY DEF ChannelViewTrue, Row
  <1>1. asks = {} /\ reply = NoReply /\ news = {} /\ lane = << >> /\ ~refused /\ here = app.space /\ here # Nowhere
    BY DEF Settled, Quiet
  <1>2. Mail(0) = {} /\ \A u : Due(u, 0) = {}
    <2>1. 0 + 1 .. Len(lane) = {}
      BY <1>1
    <2> QED
      BY <1>1, <2>1 DEF Mail, Due
  <1>3. OnBoard /\ ~Unsure /\ Steady(0)
    BY <1>1, <1>2 DEF OnBoard, Unsure, Pending, Steady
  <1>4. Rested /\ win.group = Nowhere
    BY <1>1, <1>3 DEF Rested, TextInv, WindowTrue
  <1>5. Written = t
    BY <1>4 DEF Written
  <1> SUFFICES ASSUME t \notin raced
               PROVE  /\ seen \subseteq known
                      /\ \A id \in DOMAIN shown : Len(shown[id]) = 1
                      /\ \A m \in known \ seen : m.mine \/ t \in app.unread
    BY <1>5
  <1>6. win.chan \in Boards /\ t \in Talks
    BY <1>3, TalksMade DEF OnBoard, TextInv, TextTypes, ClientTypes
  <1>7. /\ RowsTidy /\ Listed(Rows, kept[t], {})
        /\ \A k \in kept[t] : Found(k, Rows, {}) \/ k.mine \/ t \in app.unread
    BY <1>2, <1>4 DEF TextInv, ShownTrue, Display, Claim
  <1>8. kept[t] \subseteq Msgs /\ Distinct(kept[t])
    BY <1>6 DEF TextInv, TextTypes, ServerTypes, FreshIds
  <1>9. \A id \in DOMAIN shown : Len(shown[id]) = 1
    <2>1. \A r : Len(<< r >>) = 1
      OBVIOUS
    <2> QED
      BY <1>7, <2>1 DEF RowsTidy
  <1>10. ASSUME NEW id \in DOMAIN shown
         PROVE  \E k \in kept[t] : k.id = id /\ Faces(Row(id)) = Faces(k)
    <2>1. Row(id) \in Rows /\ Row(id) \in Msgs /\ Row(id).id = id
      BY <1>7 DEF RowsTidy, Rows
    <2>2. Entry(Row(id), kept[t], {})
      BY <1>7, <2>1 DEF Listed
    <2>3. PICK k \in kept[t] : Likens(k, Row(id), {})
      BY <2>2 DEF Entry, Comes
    <2>4. k.id = id
      BY <2>1, <2>3 DEF Likens
    <2> QED
      BY <1>8, <2>1, <2>3, <2>4, FacesAgree
  <1>11. ASSUME NEW k \in kept[t], Found(k, Rows, {})
         PROVE  \E id \in DOMAIN shown : Faces(k) = Faces(Row(id))
    <2>1. Posts({}) = {}
      BY DEF Posts
    <2>2. PICK id \in DOMAIN shown : Row(id).id = k.id
      BY <1>11, <2>1 DEF Found, Rows
    <2>3. id = k.id
      BY <1>7, <2>2 DEF RowsTidy
    <2>4. PICK j \in kept[t] : j.id = id /\ Faces(Row(id)) = Faces(j)
      BY <1>10
    <2> QED
      BY <1>8, <2>3, <2>4 DEF Distinct
  <1>12. seen \subseteq known
    BY <1>10
  <1>13. ASSUME NEW f \in known \ seen PROVE f.mine \/ t \in app.unread
    <2>1. PICK k \in kept[t] : f = Faces(k)
      OBVIOUS
    <2>2. f.mine = k.mine
      BY <1>8, <2>1 DEF Faces, Msgs
    <2>3. ~Found(k, Rows, {})
      BY <1>11, <1>13, <2>1
    <2> QED
      BY <1>7, <2>2, <2>3
  <1> QED
    BY <1>9, <1>12, <1>13

(* Once all is quiet, a client that has settled on a text channel of the   *)
(* space the server has it in writes to the channel it shows; and unless   *)
(* changes overlapped there, it shows the server's messages of that        *)
(* channel, each once, up to its own and to those that marked it unread.   *)
(* (handle_text_channel_selected and the handlers of what comes in.)       *)
THEOREM ViewIsTrue == TextSpec => []ChannelViewTrue
  <1>1. TextInit => TextInv
    BY TextInitInv
  <1>2. TextInv /\ [TextNext]_textVars => TextInv'
    BY TextStepInv
  <1>3. TextInv => ChannelViewTrue
    BY TextInvView
  <1> QED
    BY <1>1, <1>2, <1>3, PTL DEF TextSpec
=============================================================================
