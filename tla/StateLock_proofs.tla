--------------------------- MODULE StateLock_proofs ---------------------------
(***************************************************************************)
(* Proofs about StateLock, for any number of tasks: handlers that take one *)
(* guard at a time never leave the server stuck behind its fair lock.      *)
(***************************************************************************)
EXTENDS StateLock, SequenceTheorems, TLAPS

-----------------------------------------------------------------------------
(* What is left of a flat program when an operation is made. *)

LEMMA RestTail ==
    ASSUME NEW q \in Seq(Operations), q # <<>>, NEW inside \in BOOLEAN, Rest(q, inside)
    PROVE  /\ inside <=> Head(q) \notin Acquire
           /\ Head(q) = "free" => Rest(Tail(q), FALSE)
           /\ Head(q) # "free" => Rest(Tail(q), TRUE)
  <1> DEFINE n == Len(q)
  <1>1. n \in Nat \ {0} /\ Head(q) = q[1]
    OBVIOUS
  <1>2. Len(Tail(q)) = n - 1 /\ \A i \in 1 .. n - 1 : Tail(q)[i] = q[i + 1]
    BY <1>1
  <1>3. \A i \in 1 .. n : q[i] \in Acquire <=> IF i = 1 THEN ~inside ELSE q[i - 1] = "free"
    BY DEF Rest
  <1>4. q[n] = "free"
    BY DEF Rest
  <1>5. inside <=> q[1] \notin Acquire
    BY <1>1, <1>3
  <1>6. \A i \in 1 .. n - 1 :
           Tail(q)[i] \in Acquire
             <=> IF i = 1 THEN q[1] = "free" ELSE Tail(q)[i - 1] = "free"
    <2> TAKE i \in 1 .. n - 1
    <2>1. i + 1 \in 1 .. n /\ i + 1 # 1 /\ (i + 1) - 1 = i
      BY <1>1
    <2>2. q[i + 1] \in Acquire <=> q[i] = "free"
      BY <1>3, <2>1
    <2>3. i # 1 => i - 1 \in 1 .. n - 1 /\ (i - 1) + 1 = i
      BY <1>1
    <2> QED
      BY <1>2, <2>2, <2>3
  <1>7. Tail(q) = <<>> => n = 1
    <2> SUFFICES ASSUME Tail(q) = <<>> PROVE n = 1
      OBVIOUS
    <2>1. Len(<<>>) = 0
      BY EmptySeq
    <2>2. Len(Tail(q)) = 0
      BY <2>1, Zenon
    <2> QED
      BY <2>2, <1>1, <1>2
  <1>8. Tail(q) # <<>> => n > 1 /\ Tail(q)[n - 1] = "free"
    BY <1>1, <1>2, <1>4
  <1> QED
    BY <1>1, <1>2, <1>4, <1>5, <1>6, <1>7, <1>8 DEF Rest

-----------------------------------------------------------------------------
LEMMA LockInvInit == LockInit => LockInv
  <1> SUFFICES ASSUME LockInit PROVE LockInv
    OBVIOUS
  <1> USE ProgramAssumption
  <1>1. LockTypeOK
    BY DEF LockInit, LockTypeOK
  <1>2. NobodyTwice /\ WaitersAsk
    BY DEF LockInit, NobodyTwice, WaitersAsk, Waiting
  <1>3. Rest(<<>>, FALSE)
    <2>1. Len(<<>>) = 0
      BY EmptySeq
    <2> QED
      BY <2>1 DEF Rest
  <1>4. ASSUME NEW t \in Tasks PROVE todo[t] = <<>> /\ ~Holding(t)
    <2>1. todo[t] = <<>> /\ readers[t] = 0 /\ writer # t
      BY DEF LockInit
    <2> QED
      BY <2>1 DEF Holding
  <1>5. ASSUME NEW t \in Tasks PROVE Rest(todo[t], Holding(t))
    BY <1>3, <1>4 DEF Rest
  <1>6. InSections
    BY <1>5 DEF LockInit, InSections
  <1> QED
    BY <1>1, <1>2, <1>6 DEF LockInv

(* The first in the queue goes: it does not wait any more, the others do   *)
(* as before.                                                              *)
LEMMA Dequeue ==
    ASSUME LockTypeOK, NobodyTwice, NEW t \in Tasks,
           queue # <<>>, Head(queue) = t, queue' = Tail(queue)
    PROVE  /\ queue' \in Seq(Tasks)
           /\ NobodyTwice'
           /\ ~Waiting(t)'
           /\ \A u \in Tasks : Waiting(u)' => Waiting(u)
  <1>1. queue \in Seq(Tasks)
    BY DEF LockTypeOK
  <1>2. /\ Tail(queue) \in Seq(Tasks) /\ Head(queue) = queue[1]
        /\ Len(queue) \in Nat \ {0}
        /\ Len(Tail(queue)) = Len(queue) - 1
        /\ \A i \in 1 .. Len(queue) - 1 : Tail(queue)[i] = queue[i + 1]
    BY <1>1
  <1>3. NobodyTwice'
    <2> SUFFICES ASSUME NEW i \in 1 .. Len(queue) - 1, NEW j \in 1 .. Len(queue) - 1,
                        Tail(queue)[i] = Tail(queue)[j]
                 PROVE  i = j
      BY <1>2 DEF NobodyTwice
    <2>1. queue[i + 1] = queue[j + 1] /\ i + 1 \in 1 .. Len(queue) /\ j + 1 \in 1 .. Len(queue)
      BY <1>2
    <2> QED
      BY <2>1 DEF NobodyTwice
  <1>4. ~Waiting(t)'
    <2> SUFFICES ASSUME NEW i \in 1 .. Len(queue) - 1, Tail(queue)[i] = queue[1]
                 PROVE  FALSE
      BY <1>2 DEF Waiting
    <2>1. queue[i + 1] = queue[1] /\ i + 1 \in 1 .. Len(queue) /\ 1 \in 1 .. Len(queue) /\ i + 1 # 1
      BY <1>2
    <2> QED
      BY <2>1 DEF NobodyTwice
  <1>5. ASSUME NEW u \in Tasks, Waiting(u)' PROVE Waiting(u)
    <2>1. PICK i \in 1 .. Len(queue) - 1 : Tail(queue)[i] = u
      BY <1>2, <1>5 DEF Waiting
    <2>2. i + 1 \in 1 .. Len(queue) /\ queue[i + 1] = u
      BY <1>2, <2>1
    <2> QED
      BY <2>2 DEF Waiting
  <1> QED
    BY <1>2, <1>3, <1>4, <1>5

(* A step in which only t makes an operation, outside the queue. *)
LEMMA Elsewhere ==
    ASSUME LockInv, NEW t \in Tasks, LockTypeOK', NobodyTwice',
           \A u \in Tasks : Waiting(u)' => Waiting(u),
           ~Waiting(t)',
           \A u \in Tasks \ {t} : /\ todo'[u] = todo[u] /\ readers'[u] = readers[u]
                                  /\ writer' = u <=> writer = u,
           Rest(todo'[t], Holding(t)'),
           readers'[t] \in {0, 1}, readers'[t] = 1 => writer' # t
    PROVE  LockInv'
  <1>1. WaitersAsk'
    BY DEF LockInv, WaitersAsk, At
  <1>2. ASSUME NEW u \in Tasks
        PROVE  /\ Rest(todo'[u], Holding(u)')
               /\ readers'[u] \in {0, 1}
               /\ readers'[u] = 1 => writer' # u
    <2>1. CASE u = t
      BY <2>1
    <2>2. CASE u # t
      <3>1. Holding(u)' <=> Holding(u)
        BY <2>2 DEF Holding
      <3>2. Rest(todo'[u], Holding(u)')
        BY <2>2, <3>1 DEF LockInv, InSections, Rest
      <3> QED
        BY <2>2, <3>2 DEF LockInv, InSections
    <2> QED
      BY <2>1, <2>2
  <1> QED
    BY <1>1, <1>2 DEF LockInv, InSections

(* The first in the queue takes its guard and goes on: it was between two  *)
(* sections, and is in one now.                                            *)
LEMMA Granted ==
    ASSUME LockInv, NEW t \in Tasks, At(t, "read") \/ At(t, "write")
    PROVE  /\ ~Holding(t)
           /\ readers[t] = 0 /\ writer # t
           /\ Rest(Tail(todo[t]), TRUE)
  <1>1. todo[t] \in Seq(Operations) /\ todo[t] # <<>> /\ readers[t] \in Nat
    BY DEF LockInv, LockTypeOK, At
  <1>2. Rest(todo[t], Holding(t)) /\ Holding(t) \in BOOLEAN
    BY DEF LockInv, InSections, Holding
  <1>3. Head(todo[t]) \in Acquire /\ Head(todo[t]) # "free"
    BY DEF At, Acquire
  <1>4. ~Holding(t) /\ Rest(Tail(todo[t]), TRUE)
    BY <1>1, <1>2, <1>3, RestTail
  <1>5. readers[t] = 0 /\ writer # t
    BY <1>1, <1>4 DEF Holding
  <1> QED
    BY <1>4, <1>5

(* A task that holds a guard has it for what it is about to do: it is in a *)
(* section, and waits for nothing.                                         *)
LEMMA Inside ==
    ASSUME LockInv, NEW t \in Tasks, todo[t] # <<>>, Head(todo[t]) \notin Acquire
    PROVE  /\ Holding(t) /\ ~Waiting(t)
           /\ Head(todo[t]) = "free" => Rest(Tail(todo[t]), FALSE)
           /\ Head(todo[t]) # "free" => Rest(Tail(todo[t]), TRUE)
  <1>1. todo[t] \in Seq(Operations)
    BY DEF LockInv, LockTypeOK
  <1>2. Rest(todo[t], Holding(t)) /\ Holding(t) \in BOOLEAN
    BY DEF LockInv, InSections, Holding
  <1>3. ~Waiting(t)
    BY DEF LockInv, WaitersAsk, At, Acquire
  <1> QED
    BY <1>1, <1>2, <1>3, RestTail

(* Every operation preserves the invariant, when all programs are flat. *)
LEMMA LockInvNext ==
    ASSUME Flat, LockInv, [LockNext]_lockVars
    PROVE  LockInv'
  <1> USE ProgramAssumption
  <1>1. /\ todo \in [ Tasks -> Seq(Operations) ] /\ queue \in Seq(Tasks)
        /\ readers \in [ Tasks -> Nat ] /\ writer \in Tasks \cup {None}
        /\ present \in BOOLEAN /\ NobodyTwice
    BY DEF LockInv, LockTypeOK
  <1>2. ASSUME NEW t \in Tasks, Start(t) PROVE LockInv'
    <2>1. LockTypeOK'
      BY <1>1, <1>2 DEF Start, LockTypeOK
    <2>2. NobodyTwice'
      BY <1>1, <1>2 DEF Start, NobodyTwice
    <2>3. \A u \in Tasks : Waiting(u)' => Waiting(u)
      BY <1>2 DEF Start, Waiting
    <2>4. ~Waiting(t)
      BY <1>2 DEF Start, LockInv, WaitersAsk, At
    <2>5. Rest(todo[t], Holding(t)) /\ todo[t] = <<>>
      BY <1>2 DEF Start, LockInv, InSections
    <2>6. ~Holding(t) /\ ~Holding(t)'
      BY <1>2, <2>5 DEF Start, Rest, Holding
    <2>7. todo'[t] = Program[t] /\ Rest(Program[t], FALSE)
      BY <1>1, <1>2 DEF Start, Flat
    <2>8. Rest(todo'[t], Holding(t)')
      BY <2>6, <2>7 DEF Rest
    <2>9. /\ readers'[t] \in {0, 1}
          /\ readers'[t] = 1 => writer' # t
      BY <1>2 DEF Start, LockInv, InSections
    <2>10. \A u \in Tasks \ {t} : /\ todo'[u] = todo[u] /\ readers'[u] = readers[u]
                                  /\ writer' = u <=> writer = u
      BY <1>1, <1>2 DEF Start
    <2> QED
      BY <2>1, <2>2, <2>3, <2>4, <2>8, <2>9, <2>10, Elsewhere
  <1>3. ASSUME NEW t \in Tasks, Ask(t) PROVE LockInv'
    <2>1. /\ Append(queue, t) \in Seq(Tasks)
          /\ Len(Append(queue, t)) = Len(queue) + 1 /\ Len(queue) \in Nat
          /\ \A i \in 1 .. Len(queue) : Append(queue, t)[i] = queue[i]
          /\ Append(queue, t)[Len(queue) + 1] = t
      BY <1>1
    <2>2. LockTypeOK'
      BY <1>1, <1>3, <2>1 DEF Ask, LockTypeOK
    <2>3. \A i \in 1 .. Len(queue) : queue[i] # t
      BY <1>3 DEF Ask, Waiting
    <2>4. NobodyTwice'
      <3> SUFFICES ASSUME NEW i \in 1 .. Len(queue) + 1, NEW j \in 1 .. Len(queue) + 1,
                          Append(queue, t)[i] = Append(queue, t)[j]
                   PROVE  i = j
        BY <1>3, <2>1 DEF Ask, NobodyTwice
      <3>1. CASE i \in 1 .. Len(queue) /\ j \in 1 .. Len(queue)
        BY <1>1, <2>1, <3>1 DEF NobodyTwice
      <3>2. CASE i = Len(queue) + 1 \/ j = Len(queue) + 1
        BY <2>1, <2>3, <3>2
      <3> QED
        BY <2>1, <3>1, <3>2
    <2>5. WaitersAsk'
      <3> SUFFICES ASSUME NEW u \in Tasks, Waiting(u)'
                   PROVE  At(u, "read") \/ At(u, "write")
        BY <1>3 DEF Ask, WaitersAsk, At
      <3>1. u = t \/ Waiting(u)
        BY <1>3, <2>1 DEF Ask, Waiting
      <3> QED
        BY <1>3, <3>1 DEF Ask, LockInv, WaitersAsk
    <2>6. InSections'
      BY <1>3 DEF Ask, LockInv, InSections, Rest, Holding
    <2> QED
      BY <2>2, <2>4, <2>5, <2>6 DEF LockInv
  <1>4. ASSUME NEW t \in Tasks, GrantRead(t) PROVE LockInv'
    <2>1. /\ queue' \in Seq(Tasks) /\ NobodyTwice' /\ ~Waiting(t)'
          /\ \A u \in Tasks : Waiting(u)' => Waiting(u)
      BY <1>4, Dequeue DEF GrantRead, LockInv
    <2>2. readers[t] = 0 /\ writer # t /\ Rest(Tail(todo[t]), TRUE)
      BY <1>4, Granted DEF GrantRead
    <2>3. Tail(todo[t]) \in Seq(Operations)
      BY <1>1, <1>4 DEF GrantRead, At
    <2>4. todo'[t] = Tail(todo[t]) /\ readers'[t] = 1 /\ writer' # t
      BY <1>1, <1>4, <2>2 DEF GrantRead, Advance
    <2>5. Rest(todo'[t], Holding(t)')
      BY <2>2, <2>4 DEF Rest, Holding
    <2>6. LockTypeOK'
      <3>1. todo' \in [ Tasks -> Seq(Operations) ]
        BY <1>1, <1>4, <2>3 DEF GrantRead, Advance
      <3>2. readers' \in [ Tasks -> Nat ]
        BY <1>1, <1>4, <2>2 DEF GrantRead
      <3>3. queue' \in Seq(Tasks)
        BY <2>1
      <3>4. writer' \in Tasks \cup {None} /\ present' \in BOOLEAN
        BY <1>1, <1>4 DEF GrantRead
      <3> QED
        BY <3>1, <3>2, <3>3, <3>4 DEF LockTypeOK
    <2>7. \A u \in Tasks \ {t} : /\ todo'[u] = todo[u] /\ readers'[u] = readers[u]
                                 /\ writer' = u <=> writer = u
      BY <1>1, <1>4 DEF GrantRead, Advance
    <2> QED
      BY <2>1, <2>4, <2>5, <2>6, <2>7, Elsewhere
  <1>5. ASSUME NEW t \in Tasks, GrantWrite(t) PROVE LockInv'
    <2>1. /\ queue' \in Seq(Tasks) /\ NobodyTwice' /\ ~Waiting(t)'
          /\ \A u \in Tasks : Waiting(u)' => Waiting(u)
      BY <1>5, Dequeue DEF GrantWrite, LockInv
    <2>2. readers[t] = 0 /\ Rest(Tail(todo[t]), TRUE)
      BY <1>5, Granted DEF GrantWrite
    <2>3. Tail(todo[t]) \in Seq(Operations)
      BY <1>1, <1>5 DEF GrantWrite, At
    <2>4. todo'[t] = Tail(todo[t]) /\ readers'[t] = 0 /\ writer' = t
      BY <1>1, <1>5, <2>2 DEF GrantWrite, Advance
    <2>5. Rest(todo'[t], Holding(t)')
      BY <2>2, <2>4 DEF Rest, Holding
    <2>6. LockTypeOK'
      <3>1. todo' \in [ Tasks -> Seq(Operations) ]
        BY <1>1, <1>5, <2>3 DEF GrantWrite, Advance
      <3>2. readers' \in [ Tasks -> Nat ]
        BY <1>1, <1>5 DEF GrantWrite
      <3>3. queue' \in Seq(Tasks)
        BY <2>1
      <3>4. writer' \in Tasks \cup {None} /\ present' \in BOOLEAN
        BY <1>1, <1>5 DEF GrantWrite
      <3> QED
        BY <3>1, <3>2, <3>3, <3>4 DEF LockTypeOK
    <2>7. \A u \in Tasks \ {t} : /\ todo'[u] = todo[u] /\ readers'[u] = readers[u]
                                 /\ writer' = u <=> writer = u
      BY <1>1, <1>5 DEF GrantWrite, Free, Advance
    <2>8. readers'[t] \in {0, 1} /\ (readers'[t] = 1 => writer' # t)
      BY <2>4
    <2> QED
      BY <2>1, <2>5, <2>6, <2>7, <2>8, Elsewhere
  <1>6. ASSUME NEW t \in Tasks, DropRead(t) PROVE LockInv'
    <2>1. /\ Holding(t) /\ ~Waiting(t)
          /\ Rest(Tail(todo[t]), FALSE)
      BY <1>6, Inside DEF DropRead, At, Acquire
    <2>2. readers[t] = 1 /\ writer # t
      BY <1>6 DEF DropRead, LockInv, InSections
    <2>3. Tail(todo[t]) \in Seq(Operations)
      BY <1>1, <1>6 DEF DropRead, At
    <2>4. todo'[t] = Tail(todo[t]) /\ readers'[t] = 0 /\ writer' # t
      BY <1>1, <1>6, <2>2 DEF DropRead, Advance
    <2>5. Rest(todo'[t], Holding(t)')
      BY <2>1, <2>4 DEF Rest, Holding
    <2>6. LockTypeOK'
      <3>1. todo' \in [ Tasks -> Seq(Operations) ]
        BY <1>1, <1>6, <2>3 DEF DropRead, Advance
      <3>2. readers' \in [ Tasks -> Nat ]
        BY <1>1, <1>6, <2>2 DEF DropRead
      <3>3. queue' \in Seq(Tasks)
        BY <1>1, <1>6 DEF DropRead
      <3>4. writer' \in Tasks \cup {None} /\ present' \in BOOLEAN
        BY <1>1, <1>6 DEF DropRead
      <3> QED
        BY <3>1, <3>2, <3>3, <3>4 DEF LockTypeOK
    <2>7. \A u \in Tasks \ {t} : /\ todo'[u] = todo[u] /\ readers'[u] = readers[u]
                                 /\ writer' = u <=> writer = u
      BY <1>1, <1>6 DEF DropRead, Advance
    <2>8. NobodyTwice' /\ ~Waiting(t)' /\ \A u \in Tasks : Waiting(u)' => Waiting(u)
      BY <1>1, <1>6, <2>1 DEF DropRead, NobodyTwice, Waiting
    <2> QED
      BY <2>4, <2>5, <2>6, <2>7, <2>8, Elsewhere
  <1>7. ASSUME NEW t \in Tasks, DropWrite(t) PROVE LockInv'
    <2>1. /\ Holding(t) /\ ~Waiting(t)
          /\ Rest(Tail(todo[t]), FALSE)
      BY <1>7, Inside DEF DropWrite, At, Acquire
    <2>3. Tail(todo[t]) \in Seq(Operations)
      BY <1>1, <1>7 DEF DropWrite, At
    <2>4. todo'[t] = Tail(todo[t]) /\ readers'[t] = 0 /\ writer' # t
      BY <1>1, <1>7 DEF DropWrite, Advance
    <2>5. Rest(todo'[t], Holding(t)')
      BY <2>1, <2>4 DEF Rest, Holding
    <2>6. LockTypeOK'
      <3>1. todo' \in [ Tasks -> Seq(Operations) ]
        BY <1>1, <1>7, <2>3 DEF DropWrite, Advance
      <3>2. readers' \in [ Tasks -> Nat ]
        BY <1>1, <1>7 DEF DropWrite
      <3>3. queue' \in Seq(Tasks)
        BY <1>1, <1>7 DEF DropWrite
      <3>4. writer' \in Tasks \cup {None} /\ present' \in BOOLEAN
        BY <1>1, <1>7 DEF DropWrite
      <3> QED
        BY <3>1, <3>2, <3>3, <3>4 DEF LockTypeOK
    <2>7. \A u \in Tasks \ {t} : /\ todo'[u] = todo[u] /\ readers'[u] = readers[u]
                                 /\ writer' = u <=> writer = u
      BY <1>1, <1>7 DEF DropWrite, Advance
    <2>8. NobodyTwice' /\ ~Waiting(t)' /\ \A u \in Tasks : Waiting(u)' => Waiting(u)
      BY <1>1, <1>7, <2>1 DEF DropWrite, NobodyTwice, Waiting
    <2> QED
      BY <2>4, <2>5, <2>6, <2>7, <2>8, Elsewhere
  <1>8. ASSUME NEW t \in Tasks, Lookup(t) PROVE LockInv'
    <2>1. /\ Holding(t) /\ ~Waiting(t)
          /\ Rest(Tail(todo[t]), TRUE)
      BY <1>8, Inside DEF Lookup, At, Acquire
    <2>2. OnMissing[t] \in Seq(Operations) /\ Rest(OnMissing[t], TRUE)
      BY DEF Flat
    <2>3. Tail(todo[t]) \in Seq(Operations)
      BY <1>1, <1>8 DEF Lookup, At
    <2>4. todo'[t] \in {Tail(todo[t]), OnMissing[t]} /\ UNCHANGED <<readers, writer>>
      BY <1>1, <1>8 DEF Lookup
    <2>5. Rest(todo'[t], Holding(t)')
      BY <2>1, <2>2, <2>4 DEF Rest, Holding
    <2>6. LockTypeOK'
      <3>1. todo' \in [ Tasks -> Seq(Operations) ]
        BY <1>1, <1>8, <2>3, <2>2 DEF Lookup
      <3>2. readers' \in [ Tasks -> Nat ]
        BY <1>1, <1>8 DEF Lookup
      <3>3. queue' \in Seq(Tasks)
        BY <1>1, <1>8 DEF Lookup
      <3>4. writer' \in Tasks \cup {None} /\ present' \in BOOLEAN
        BY <1>1, <1>8 DEF Lookup
      <3> QED
        BY <3>1, <3>2, <3>3, <3>4 DEF LockTypeOK
    <2>7. \A u \in Tasks \ {t} : /\ todo'[u] = todo[u] /\ readers'[u] = readers[u]
                                 /\ writer' = u <=> writer = u
      BY <1>1, <1>8 DEF Lookup
    <2>8. NobodyTwice' /\ ~Waiting(t)' /\ \A u \in Tasks : Waiting(u)' => Waiting(u)
      BY <1>1, <1>8, <2>1 DEF Lookup, NobodyTwice, Waiting
    <2>9. readers'[t] \in {0, 1} /\ (readers'[t] = 1 => writer' # t)
      BY <2>4 DEF LockInv, InSections
    <2> QED
      BY <2>5, <2>6, <2>7, <2>8, <2>9, Elsewhere
  <1>9. ASSUME NEW t \in Tasks, RemoveSpace(t) PROVE LockInv'
    <2>1. /\ Holding(t) /\ ~Waiting(t)
          /\ Rest(Tail(todo[t]), TRUE)
      BY <1>9, Inside DEF RemoveSpace, At, Acquire
    <2>3. Tail(todo[t]) \in Seq(Operations)
      BY <1>1, <1>9 DEF RemoveSpace, At
    <2>4. todo'[t] = Tail(todo[t]) /\ UNCHANGED <<readers, writer>>
      BY <1>1, <1>9 DEF RemoveSpace, Advance
    <2>5. Rest(todo'[t], Holding(t)')
      BY <2>1, <2>4 DEF Rest, Holding
    <2>6. LockTypeOK'
      <3>1. todo' \in [ Tasks -> Seq(Operations) ]
        BY <1>1, <1>9, <2>3 DEF RemoveSpace, Advance
      <3>2. readers' \in [ Tasks -> Nat ]
        BY <1>1, <1>9 DEF RemoveSpace
      <3>3. queue' \in Seq(Tasks)
        BY <1>1, <1>9 DEF RemoveSpace
      <3>4. writer' \in Tasks \cup {None} /\ present' \in BOOLEAN
        BY <1>1, <1>9 DEF RemoveSpace
      <3> QED
        BY <3>1, <3>2, <3>3, <3>4 DEF LockTypeOK
    <2>7. \A u \in Tasks \ {t} : /\ todo'[u] = todo[u] /\ readers'[u] = readers[u]
                                 /\ writer' = u <=> writer = u
      BY <1>1, <1>9 DEF RemoveSpace, Advance
    <2>8. NobodyTwice' /\ ~Waiting(t)' /\ \A u \in Tasks : Waiting(u)' => Waiting(u)
      BY <1>1, <1>9, <2>1 DEF RemoveSpace, NobodyTwice, Waiting
    <2>9. readers'[t] \in {0, 1} /\ (readers'[t] = 1 => writer' # t)
      BY <2>4 DEF LockInv, InSections
    <2> QED
      BY <2>5, <2>6, <2>7, <2>8, <2>9, Elsewhere
  <1>10. CASE UNCHANGED lockVars
    BY <1>10 DEF lockVars, LockInv, LockTypeOK, NobodyTwice, WaitersAsk, InSections,
                 Waiting, Holding, At, Rest
  <1> QED
    BY <1>2, <1>3, <1>4, <1>5, <1>6, <1>7, <1>8, <1>9, <1>10 DEF LockNext, Go

-----------------------------------------------------------------------------
(* With flat programs the invariant always holds. *)
THEOREM LockInvariant == Flat => (LockSpec => []LockInv)
  <1> SUFFICES ASSUME Flat PROVE LockSpec => []LockInv
    OBVIOUS
  <1>1. LockInv /\ [LockNext]_lockVars => LockInv'
    BY LockInvNext
  <1> QED
    BY <1>1, LockInvInit, PTL DEF LockSpec

(* With flat programs no task ever waits for a guard while it holds one:   *)
(* the lock the handlers share cannot make a task wait for itself.         *)
THEOREM NeverWaitsInside == Flat => (LockSpec => []NoGuardWhileWaiting)
  <1> SUFFICES ASSUME Flat PROVE LockSpec => []NoGuardWhileWaiting
    OBVIOUS
  <1>1. LockInv => NoGuardWhileWaiting
    <2> SUFFICES ASSUME LockInv, NEW t \in Tasks, Waiting(t) PROVE ~Holding(t)
      BY DEF NoGuardWhileWaiting
    <2>1. At(t, "read") \/ At(t, "write")
      BY DEF LockInv, WaitersAsk
    <2> QED
      BY <2>1, Granted
  <1>2. LockSpec => []LockInv
    BY LockInvariant
  <1> QED
    BY <1>1, <1>2, PTL

(* With flat programs the server is never stuck behind its lock: as long   *)
(* as somebody waits, the first in the queue can have its guard, or a task *)
(* that holds one can go on.                                               *)
THEOREM NeverStuck == Flat => (LockSpec => []NoDeadlock)
  <1> SUFFICES ASSUME Flat PROVE LockSpec => []NoDeadlock
    OBVIOUS
  <1>1. LockInv => NoDeadlock
    <2> SUFFICES ASSUME LockInv, queue # <<>>
                 PROVE  \/ At(Head(queue), "read") /\ writer = None
                        \/ At(Head(queue), "write") /\ Free
                        \/ \E t \in Tasks : Holding(t) /\ ~Waiting(t) /\ todo[t] # <<>>
      BY DEF NoDeadlock
    <2>1. CASE \E t \in Tasks : Holding(t)
      <3>1. PICK t \in Tasks : Holding(t)
        BY <2>1
      <3>2. Rest(todo[t], Holding(t))
        BY DEF LockInv, InSections
      <3>3. todo[t] # <<>>
        BY <3>1, <3>2 DEF Rest
      <3>4. ~Waiting(t)
        BY <3>1, Granted DEF LockInv, WaitersAsk
      <3> QED
        BY <3>1, <3>3, <3>4
    <2>2. CASE \A t \in Tasks : ~Holding(t)
      <3>1. queue \in Seq(Tasks) /\ readers \in [ Tasks -> Nat ] /\ writer \in Tasks \cup {None}
        BY DEF LockInv, LockTypeOK
      <3>2. writer = None /\ Free
        BY <2>2, <3>1 DEF Holding, Free
      <3>3. Head(queue) \in Tasks /\ Waiting(Head(queue))
        BY <3>1 DEF Waiting
      <3>4. At(Head(queue), "read") \/ At(Head(queue), "write")
        BY <3>3 DEF LockInv, WaitersAsk
      <3> QED
        BY <3>2, <3>4
    <2> QED
      BY <2>1, <2>2
  <1>2. LockSpec => []LockInv
    BY LockInvariant
  <1> QED
    BY <1>1, <1>2, PTL
=============================================================================
