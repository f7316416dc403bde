----------------------------- MODULE ShmProofs -----------------------------
(***************************************************************************)
(* The containers of shared memory, for any number of processes, segments,  *)
(* timers and ids: processes that use the container of one name use the     *)
(* same one (OneContainer), their pointers are NULL only if they came while *)
(* the creator was at it (NullOnlyIfEarly), and no timer is lost or handed  *)
(* out twice (Conserved), whatever dies between two steps.                 *)
(*                                                                         *)
(* OneContainer needs that every segment but the one that has the name has  *)
(* lost it.  Conserved needs three things of the code: only one process is  *)
(* in an operation of a segment, what it still has to erase is still there, *)
(* and the number of an add() is that of one timer only.                   *)
(***************************************************************************)
EXTENDS ShmTimerQueue, FiniteSetTheorems, TLAPS

\* What a process has mapped once it has opened or created a segment.
Mapped == {"wait", "init", "construct", "find", "check", "in", "assert", "null"}

SegmentInv ==
    /\ link \in 0..segments
    /\ link = 0 => segments < MaxSegments
    /\ \A s \in 1..segments : s = link \/ s \in removed
    /\ \A p \in Procs : at[p] \in 0..segments
    /\ \A p \in Procs : pc[p] \in Mapped => at[p] # 0

\* An operation that is under way.
WorkInv ==
    /\ \A p \in Procs : work[p] # Idle => pc[p] = "in" /\ at[p] \in Segments
    /\ \A p, q \in Procs : work[p] # Idle /\ work[q] # Idle /\ at[p] = at[q] => p = q
    /\ \A p \in Procs : work[p].op = "none" => work[p] = Idle
    /\ \A p \in Procs : work[p].op = "add" =>
          \E t \in Timers : work[p] = Adding(t) /\ t.number <= adds
    /\ \A p \in Procs : work[p].op = "expire" =>
          /\ work[p].items \subseteq inserted
          /\ work[p].left \subseteq work[p].items
          /\ work[p].left \subseteq timers[at[p]]

\* The number of an add() is that of one timer.
NumberInv ==
    /\ \A t \in inserted : t.number <= adds
    /\ \A t, u \in inserted : t.number = u.number => t = u
    /\ \A p \in Procs : work[p].op = "add" =>
          \A t \in work[p].items : \A u \in inserted : t.number # u.number
    /\ \A p, q \in Procs : work[p].op = "add" /\ work[q].op = "add" =>
          \A t \in work[p].items : \A u \in work[q].items : t.number = u.number => p = q
    /\ \A n \in 1..MaxAdds : handed[n] # 0 => \E t \in inserted : t.number = n

\* A timer that add() has inserted is somewhere...
Somewhere(t) ==
    \/ \E s \in Segments : t \in timers[s]
    \/ \E p \in Procs : t \in Held(p)
    \/ handed[t.number] = 1
    \/ t \in cancelled
    \/ t \in lost

\* ... and in no two places.
Stored(t) == \E s \in Segments : t \in timers[s]
Taken(t) == \E p \in Procs : t \in Held(p)

Once(t) ==
    /\ \A r, s \in Segments : t \in timers[r] /\ t \in timers[s] => r = s
    /\ \A p, q \in Procs : t \in Held(p) /\ t \in Held(q) => p = q
    /\ handed[t.number] \in {0, 1}
    /\ Stored(t) => ~Taken(t) /\ handed[t.number] = 0 /\ t \notin cancelled /\ t \notin lost
    /\ Taken(t) => handed[t.number] = 0 /\ t \notin cancelled /\ t \notin lost
    /\ handed[t.number] = 1 => t \notin cancelled /\ t \notin lost
    /\ t \in cancelled => t \notin lost

PlaceInv ==
    /\ \A s \in Segments : timers[s] \subseteq inserted
    /\ cancelled \subseteq inserted
    /\ lost \subseteq inserted
    /\ \A t \in inserted : Somewhere(t) /\ Once(t)

-----------------------------------------------------------------------------
(* Type correctness.                                                       *)

LEMMA LenNames == Len(Names) \in Nat \ {0} /\ \A i \in 1..Len(Names) : Names[i] \in Objects
<1>1. Names \in Seq(STRING) /\ Len(Names) >= 1
  BY ShmAssumption
<1>. QED  BY <1>1 DEF Objects

LEMMA MaxAddsType == MaxAdds \in Nat /\ \A n \in 1..MaxAdds : Asked[n] \in Nat
<1>1. Asked \in Seq(Nat)
  BY TimersAssumption
<1>. QED  BY <1>1 DEF MaxAdds

LEMMA TypeInit == ASSUME Init PROVE TypeOK
<1>1. ShmTypeOK
  BY LenNames, ShmAssumption DEF Init, ShmInit, ShmTypeOK, Pcs, Segments
<1>2. Idle \in Works
  BY DEF Idle, Works
<1>. QED
  BY <1>1, <1>2, MaxAddsType, TimersAssumption DEF Init, TypeOK, Ids

\* The two lemmas about containers hold for any object in them.
LEMMA AttachType ==
  ASSUME ShmTypeOK, SegmentInv, NEW p \in Procs,
         \/ Begin(p) \/ Open(p) \/ Wait(p) \/ Create(p) \/ Initialize(p)
         \/ Construct(p) \/ Find(p) \/ Check(p)
  PROVE  /\ ShmTypeOK' /\ SegmentInv'
         /\ pc[p] # "in"
         /\ \A q \in Procs \ {p} : at'[q] = at[q] /\ pc'[q] = pc[q]
<1>. USE ShmAssumption, LenNames DEF ShmTypeOK, SegmentInv, Mapped, Pcs, Segments, Goto
<1>1. CASE Begin(p)
  BY <1>1 DEF Begin
<1>2. CASE Open(p)
  BY <1>2 DEF Open
<1>3. CASE Wait(p)
  BY <1>3 DEF Wait
<1>4. CASE Create(p)
  <2>1. CASE link = 0
    <3>1. /\ pc[p] = "create"
          /\ link' = segments + 1 /\ segments' = segments + 1
          /\ at' = [at EXCEPT ![p] = segments + 1]
          /\ pc' = [pc EXCEPT ![p] = "init"]
          /\ UNCHANGED <<ready, objects, step, has, removed, early>>
      BY <1>4, <2>1 DEF Create
    <3>2. ShmTypeOK'
      <4>1. segments + 1 \in 0..MaxSegments
        BY <2>1
      <4>2. at' \in [Procs -> 0..MaxSegments]
        BY <3>1, <4>1
      <4>3. pc' \in [Procs -> Pcs]
        BY <3>1
      <4>. QED  BY <3>1, <4>1, <4>2, <4>3
    <3>3. SegmentInv'
      BY <2>1, <3>1
    <3>. QED  BY <3>1, <3>2, <3>3
  <2>2. CASE link # 0
    BY <1>4, <2>2 DEF Create
  <2>. QED  BY <2>1, <2>2
<1>5. CASE Initialize(p)
  <2>1. at[p] \in Segments
    BY <1>5 DEF Initialize
  <2>. QED  BY <1>5, <2>1 DEF Initialize
<1>6. CASE Construct(p)
  BY <1>6 DEF Construct, Advance
<1>7. CASE Find(p)
  BY <1>7 DEF Find, Advance
<1>8. CASE Check(p)
  BY <1>8 DEF Check
<1>. QED  BY <1>1, <1>2, <1>3, <1>4, <1>5, <1>6, <1>7, <1>8

LEMMA LeavesType ==
  ASSUME ShmTypeOK, SegmentInv, NEW p \in Procs, Leaves(p)
  PROVE  /\ ShmTypeOK' /\ SegmentInv'
         /\ \A q \in Procs \ {p} : at'[q] = at[q] /\ pc'[q] = pc[q]
BY ShmAssumption, LenNames DEF ShmTypeOK, SegmentInv, Mapped, Pcs, Segments, Goto, Leaves

LEMMA RemoveType ==
  ASSUME ShmTypeOK, SegmentInv, Remove
  PROVE  ShmTypeOK' /\ SegmentInv' /\ UNCHANGED <<at, pc>>
BY ShmAssumption DEF ShmTypeOK, SegmentInv, Mapped, Segments, Remove

-----------------------------------------------------------------------------
(* The steps that leave the operations alone.                              *)

QueueInv == TypeOK /\ SegmentInv /\ WorkInv /\ NumberInv /\ PlaceInv

\* A step that keeps the operations under way where they are, and the data.
LEMMA DataKept ==
  ASSUME QueueInv, ShmTypeOK', SegmentInv',
         nextId' \in [Segments -> Ids],
         UNCHANGED <<timers, work, adds, inserted, handed, cancelled, lost>>,
         \A q \in Procs : work[q] # Idle => at'[q] = at[q] /\ pc'[q] = pc[q]
  PROVE  QueueInv'
<1>1. TypeOK'
  BY DEF QueueInv, TypeOK
<1>2. WorkInv'
  <2>1. \A q \in Procs : work[q].op = "expire" => work[q] # Idle
    BY DEF Idle
  <2>. QED  BY <2>1 DEF QueueInv, WorkInv
<1>3. NumberInv'
  BY DEF QueueInv, NumberInv
<1>4. PlaceInv'
  BY DEF QueueInv, PlaceInv, Somewhere, Once, Stored, Taken, Held
<1>. QED  BY <1>1, <1>2, <1>3, <1>4 DEF QueueInv

LEMMA AttachKeeps ==
  ASSUME QueueInv, NEW p \in Procs, Attach(p)
  PROVE  QueueInv'
<1>1. /\ UNCHANGED <<timers, work, adds, inserted, handed, cancelled, lost>>
      /\ nextId' \in [Segments -> Ids]
  <2>1. CASE ConstructObjects(p)
    <3>1. 1 \in Ids
      BY TimersAssumption DEF Ids
    <3>. QED  BY <2>1, <3>1 DEF ConstructObjects, QueueInv, TypeOK
  <2>2. CASE UNCHANGED dataVars
    BY <2>2 DEF dataVars, QueueInv, TypeOK
  <2>. QED  BY <2>1, <2>2 DEF Attach
<1>2. /\ ShmTypeOK' /\ SegmentInv'
      /\ pc[p] # "in"
      /\ \A q \in Procs \ {p} : at'[q] = at[q] /\ pc'[q] = pc[q]
  BY AttachType DEF Attach, ConstructObjects, QueueInv, TypeOK
<1>3. work[p] = Idle
  BY <1>2 DEF QueueInv, WorkInv
<1>. QED  BY <1>1, <1>2, <1>3, DataKept

LEMMA DetachKeeps ==
  ASSUME QueueInv, NEW p \in Procs, DetachQueue(p)
  PROVE  QueueInv'
<1>1. /\ UNCHANGED <<timers, work, adds, inserted, handed, cancelled, lost>>
      /\ nextId' \in [Segments -> Ids] /\ work[p] = Idle /\ Leaves(p)
  BY DEF DetachQueue, Detach, dataVars, QueueInv, TypeOK
<1>2. /\ ShmTypeOK' /\ SegmentInv'
      /\ \A q \in Procs \ {p} : at'[q] = at[q] /\ pc'[q] = pc[q]
  BY <1>1, LeavesType DEF QueueInv, TypeOK
<1>. QED  BY <1>1, <1>2, DataKept

LEMMA RemoveKeeps ==
  ASSUME QueueInv, RemoveQueue
  PROVE  QueueInv'
<1>1. /\ UNCHANGED <<timers, work, adds, inserted, handed, cancelled, lost>>
      /\ nextId' \in [Segments -> Ids]
  BY DEF RemoveQueue, dataVars, QueueInv, TypeOK
<1>2. ShmTypeOK' /\ SegmentInv' /\ UNCHANGED <<at, pc>>
  BY RemoveType DEF RemoveQueue, QueueInv, TypeOK
<1>. QED  BY <1>1, <1>2, DataKept

-----------------------------------------------------------------------------
(* What a process holds.                                                   *)

LEMMA HeldFacts ==
  ASSUME QueueInv, NEW p \in Procs
  PROVE  /\ work[p] \in Works
         /\ Held(p) \subseteq inserted /\ Held(p) \subseteq Timers
         /\ work[p].op # "expire" => Held(p) = {}
         /\ work[p].op # "none" => work[p] # Idle /\ pc[p] = "in" /\ at[p] \in Segments
<1>1. work[p] \in Works
  BY DEF QueueInv, TypeOK
<1>2. work[p].op = "add" => Held(p) = {}
  <2>1. ASSUME NEW t \in Timers, work[p] = Adding(t)
        PROVE  work[p].items = work[p].left
    BY <2>1 DEF Adding
  <2>. QED  BY <2>1 DEF QueueInv, WorkInv, Held
<1>3. work[p].op = "none" => Held(p) = {}
  BY DEF QueueInv, WorkInv, Idle, Held
<1>4. work[p].op = "expire" => Held(p) \subseteq inserted
  BY DEF QueueInv, WorkInv, Held
<1>5. work[p].op # "none" => work[p] # Idle
  BY DEF Idle
<1>. QED  BY <1>1, <1>2, <1>3, <1>4, <1>5 DEF QueueInv, WorkInv, Works, Held

-----------------------------------------------------------------------------
(* A death in the middle of an operation.                                  *)

LEMMA CrashKeeps ==
  ASSUME QueueInv, NEW p \in Procs, CrashQueue(p)
  PROVE  QueueInv'
<1>1. /\ work' = [work EXCEPT ![p] = Idle]
      /\ lost' = lost \cup Held(p)
      /\ UNCHANGED <<nextId, timers, adds, inserted, handed, cancelled>>
      /\ Leaves(p)
  BY DEF CrashQueue, Crash
<1>2. /\ ShmTypeOK' /\ SegmentInv'
      /\ \A q \in Procs \ {p} : at'[q] = at[q] /\ pc'[q] = pc[q]
  BY <1>1, LeavesType DEF QueueInv, TypeOK
<1>3. /\ work' \in [Procs -> Works]
      /\ work'[p] = Idle /\ \A q \in Procs \ {p} : work'[q] = work[q]
  <2>1. Idle \in Works
    BY DEF Idle, Works
  <2>. QED  BY <1>1, <2>1 DEF QueueInv, TypeOK
<1>4. Held(p) \subseteq inserted /\ Held(p) \subseteq Timers
  BY HeldFacts
<1>5. /\ Held(p)' = {} /\ \A q \in Procs \ {p} : Held(q)' = Held(q)
  BY <1>3 DEF Held, Idle
<1>6. TypeOK'
  BY <1>1, <1>2, <1>3, <1>4 DEF QueueInv, TypeOK
<1>7. WorkInv'
  <2>1. \A q \in Procs : work[q].op = "expire" => work[q] # Idle
    BY DEF Idle
  <2>2. Idle.op = "none"
    BY DEF Idle
  <2>. QED  BY <1>1, <1>2, <1>3, <2>1, <2>2 DEF QueueInv, WorkInv
<1>8. NumberInv'
  <2>1. Idle.op = "none"
    BY DEF Idle
  <2>. QED  BY <1>1, <1>3, <2>1 DEF QueueInv, NumberInv
<1>9. PlaceInv'
  BY <1>1, <1>4, <1>5 DEF QueueInv, PlaceInv, Somewhere, Once, Stored, Taken
<1>. QED  BY <1>2, <1>6, <1>7, <1>8, <1>9 DEF QueueInv

-----------------------------------------------------------------------------
(* add().                                                                  *)

LEMMA NewTimerType ==
  ASSUME TypeOK, adds < MaxAdds, NEW p \in Procs, at[p] \in Segments,
         NEW id, id = IF nextId[at[p]] = 0 THEN 1 ELSE nextId[at[p]]
  PROVE  /\ [number |-> adds + 1, id |-> id, expiration |-> Asked[adds + 1]] \in Timers
         /\ (id + 1) % IdModulus \in Ids
<1>1. id \in Ids
  BY TimersAssumption DEF TypeOK, Ids
<1>2. adds + 1 \in 1..MaxAdds /\ Asked[adds + 1] \in Nat
  BY MaxAddsType DEF TypeOK
<1>3. (id + 1) % IdModulus \in Ids
  BY <1>1, TimersAssumption DEF Ids
<1>. QED  BY <1>1, <1>2, <1>3 DEF Timers

LEMMA TakeIdKeeps ==
  ASSUME QueueInv, NEW p \in Procs, TakeId(p)
  PROVE  QueueInv'
<1>1. /\ UNCHANGED <<link, segments, ready, objects, at, step, has, removed, early,
                     timers, inserted, handed, cancelled, lost>>
      /\ pc[p] = "in" /\ ~Busy(at[p])
  BY DEF TakeId, Enters
<1>2. at[p] \in Segments
  BY <1>1, ShmAssumption DEF QueueInv, TypeOK, ShmTypeOK, SegmentInv, Mapped, Segments
<1>3. work[p] = Idle /\ \A q \in Procs : at[q] = at[p] => work[q] = Idle
  BY <1>1 DEF Busy
<1>4. CASE "IntNextId" \notin has[p]
  <2>1. pc' = [pc EXCEPT ![p] = "null"] /\ UNCHANGED <<nextId, work, adds>>
    BY <1>4 DEF TakeId, Goto
  <2>2. ShmTypeOK' /\ SegmentInv'
    BY <1>1, <1>2, <2>1 DEF QueueInv, TypeOK, ShmTypeOK, SegmentInv, Pcs, Mapped, Segments
  <2>3. \A q \in Procs : work[q] # Idle => at'[q] = at[q] /\ pc'[q] = pc[q]
    BY <1>1, <1>3, <2>1 DEF QueueInv, TypeOK, ShmTypeOK
  <2>. QED  BY <1>1, <2>1, <2>2, <2>3, DataKept DEF QueueInv, TypeOK
<1>5. CASE "IntNextId" \in has[p]
  <2>. DEFINE id == IF nextId[at[p]] = 0 THEN 1 ELSE nextId[at[p]]
              t == [number |-> adds + 1, id |-> id, expiration |-> Asked[adds + 1]]
  <2>1. /\ adds < MaxAdds /\ adds' = adds + 1
        /\ nextId' = [nextId EXCEPT ![at[p]] = (id + 1) % IdModulus]
        /\ work' = [work EXCEPT ![p] = Adding(t)]
        /\ UNCHANGED pc
    BY <1>5 DEF TakeId
  <2>2. t \in Timers /\ (id + 1) % IdModulus \in Ids /\ t.number = adds + 1
    BY <1>2, <2>1, NewTimerType DEF QueueInv
  <2>. HIDE DEF t, id
  <2>3. /\ Adding(t) \in Works /\ Adding(t).op = "add" /\ Adding(t) # Idle
        /\ Adding(t).items = {t} /\ Adding(t).left = {t}
    BY <2>2 DEF Adding, Works, Idle
  <2>4. /\ work' \in [Procs -> Works] /\ work'[p] = Adding(t)
        /\ \A q \in Procs \ {p} : work'[q] = work[q]
    BY <2>1, <2>3 DEF QueueInv, TypeOK
  <2>5. ShmTypeOK' /\ SegmentInv'
    BY <1>1, <2>1 DEF QueueInv, TypeOK, ShmTypeOK, SegmentInv
  <2>6. \A q \in Procs : Held(q)' = Held(q)
    <3>1. Held(p) = {} /\ Held(p)' = {}
      BY <1>3, <2>3, <2>4 DEF Held, Idle
    <3>. QED  BY <2>4, <3>1 DEF Held
  <2>7. TypeOK'
    BY <1>1, <1>2, <2>1, <2>2, <2>4, <2>5, MaxAddsType DEF QueueInv, TypeOK
  <2>8. WorkInv'
    <3>1. /\ \A q \in Procs : work'[q] # Idle => pc'[q] = "in" /\ at'[q] \in Segments
          /\ \A q \in Procs \ {p} : work'[q] # Idle => at'[q] # at'[p]
      BY <1>1, <1>2, <1>3, <2>1, <2>4 DEF QueueInv, WorkInv
    <3>2. \A q, r \in Procs : work'[q] # Idle /\ work'[r] # Idle /\ at'[q] = at'[r] => q = r
      BY <1>1, <2>4, <3>1 DEF QueueInv, WorkInv
    <3>3. \A q \in Procs : work'[q].op = "none" => work'[q] = Idle
      BY <2>3, <2>4 DEF QueueInv, WorkInv
    <3>4. \A q \in Procs : work'[q].op = "add" =>
             \E u \in Timers : work'[q] = Adding(u) /\ u.number <= adds'
      <4>1. work'[p] = Adding(t) /\ t \in Timers /\ t.number <= adds'
        BY <2>1, <2>2, <2>4 DEF QueueInv, TypeOK
      <4>2. ASSUME NEW q \in Procs \ {p}, work'[q].op = "add"
            PROVE  \E u \in Timers : work'[q] = Adding(u) /\ u.number <= adds'
        <5>1. PICK u \in Timers : work[q] = Adding(u) /\ u.number <= adds
          BY <2>4, <4>2 DEF QueueInv, WorkInv
        <5>2. u.number <= adds'
          BY <2>1, <5>1 DEF QueueInv, TypeOK, Timers
        <5>. QED  BY <2>4, <5>1, <5>2
      <4>. QED  BY <4>1, <4>2
    <3>5. \A q \in Procs : work'[q].op = "expire" =>
             /\ work'[q].items \subseteq inserted'
             /\ work'[q].left \subseteq work'[q].items
             /\ work'[q].left \subseteq timers'[at'[q]]
      BY <1>1, <2>3, <2>4 DEF QueueInv, WorkInv
    <3>. QED  BY <3>1, <3>2, <3>3, <3>4, <3>5 DEF WorkInv
  <2>9. NumberInv'
    <3>1. \A u \in inserted : u.number <= adds /\ u.number \in Nat
      BY DEF QueueInv, NumberInv, TypeOK, Timers
    <3>2. \A q \in Procs : work[q].op = "add" =>
             \A u \in work[q].items : u.number <= adds /\ u.number \in Nat
      <4>1. ASSUME NEW q \in Procs, work[q].op = "add", NEW u \in work[q].items
            PROVE  u.number <= adds /\ u.number \in Nat
        <5>1. PICK v \in Timers : work[q] = Adding(v) /\ v.number <= adds
          BY <4>1 DEF QueueInv, WorkInv
        <5>2. u = v
          BY <4>1, <5>1 DEF Adding
        <5>. QED  BY <5>1, <5>2 DEF Timers
      <4>. QED  BY <4>1
    <3>3. \A u \in work'[p].items : u.number = adds + 1
      BY <2>2, <2>3, <2>4
    <3>4. adds \in Nat /\ adds' = adds + 1
      BY <2>1 DEF QueueInv, TypeOK
    <3>5. \A u \in inserted' : u.number <= adds'
      BY <1>1, <3>1, <3>4
    <3>6. \A q \in Procs : work'[q].op = "add" =>
             \A u \in work'[q].items : \A v \in inserted' : u.number # v.number
      BY <1>1, <2>4, <3>1, <3>3, <3>4 DEF QueueInv, NumberInv
    <3>7. \A q, r \in Procs : work'[q].op = "add" /\ work'[r].op = "add" =>
             \A u \in work'[q].items : \A v \in work'[r].items : u.number = v.number => q = r
      BY <2>4, <3>2, <3>3, <3>4 DEF QueueInv, NumberInv
    <3>. QED  BY <1>1, <3>5, <3>6, <3>7 DEF QueueInv, NumberInv
  <2>10. PlaceInv'
    BY <1>1, <2>6 DEF QueueInv, PlaceInv, Somewhere, Once, Stored, Taken
  <2>. QED  BY <2>5, <2>7, <2>8, <2>9, <2>10 DEF QueueInv
<1>. QED  BY <1>4, <1>5

\* The timer that add() inserts is new; the others are where they were.
LEMMA InsertedKeeps ==
  ASSUME QueueInv, NEW p \in Procs, work[p].op = "add",
         NEW t \in Timers, work[p] = Adding(t), t.number <= adds,
         timers' = [timers EXCEPT ![at[p]] = @ \cup {t}],
         inserted' = inserted \cup {t},
         work' = [work EXCEPT ![p] = Idle],
         UNCHANGED <<shmVars, nextId, adds, handed, cancelled, lost>>
  PROVE  TypeOK' /\ WorkInv' /\ NumberInv' /\ PlaceInv'
<1>1. /\ at[p] \in Segments /\ UNCHANGED <<at, pc>> /\ t \in work[p].items
      /\ \A q \in Procs \ {p} : work[q] # Idle => at[q] # at[p]
  <2>1. work[p] # Idle /\ at[p] \in Segments
    BY HeldFacts
  <2>2. t \in work[p].items
    BY DEF Adding
  <2>. QED  BY <2>1, <2>2 DEF shmVars, QueueInv, WorkInv
<1>2. /\ work' \in [Procs -> Works] /\ work'[p] = Idle
      /\ \A q \in Procs \ {p} : work'[q] = work[q]
  BY DEF QueueInv, TypeOK, Works, Idle
<1>3. \A q \in Procs : Held(q)' = Held(q)
  <2>1. Held(p) = {} /\ Held(p)' = {}
    BY <1>2, HeldFacts DEF Held, Idle
  <2>. QED  BY <1>2, <2>1 DEF Held
<1>4. /\ timers'[at[p]] = timers[at[p]] \cup {t}
      /\ \A s \in Segments \ {at[p]} : timers'[s] = timers[s]
      /\ timers' \in [Segments -> SUBSET Timers]
  BY <1>1 DEF QueueInv, TypeOK
<1>5. t \notin inserted /\ handed[t.number] = 0
  <2>1. \A u \in inserted : u.number # t.number
    BY <1>1 DEF QueueInv, NumberInv
  <2>2. t.number \in 1..MaxAdds
    BY DEF Timers
  <2>. QED  BY <2>1, <2>2 DEF QueueInv, NumberInv
<1>6. Idle.op = "none"
  BY DEF Idle
<1>7. TypeOK'
  BY <1>2, <1>4 DEF QueueInv, TypeOK, shmVars, ShmTypeOK
<1>8. WorkInv'
  <2>1. \A q \in Procs : work'[q].op # "none" => q # p
    BY <1>2, <1>6
  <2>. QED
    BY <1>1, <1>2, <1>4, <1>6, <2>1, HeldFacts DEF QueueInv, WorkInv
<1>9. NumberInv'
  <2>1. \A u \in inserted' : u.number <= adds'
    BY DEF QueueInv, NumberInv
  <2>2. \A u, v \in inserted' : u.number = v.number => u = v
    BY <1>1 DEF QueueInv, NumberInv
  <2>3. \A q \in Procs : work'[q].op = "add" =>
           /\ q # p /\ work[q] = work'[q]
           /\ \A u \in work[q].items : u.number # t.number
    BY <1>1, <1>2, <1>6 DEF QueueInv, NumberInv
  <2>4. \A q \in Procs : work'[q].op = "add" =>
           \A u \in work'[q].items : \A v \in inserted' : u.number # v.number
    BY <2>3 DEF QueueInv, NumberInv
  <2>5. \A q, r \in Procs : work'[q].op = "add" /\ work'[r].op = "add" =>
           \A u \in work'[q].items : \A v \in work'[r].items : u.number = v.number => q = r
    BY <2>3 DEF QueueInv, NumberInv
  <2>6. \A n \in 1..MaxAdds : handed'[n] # 0 => \E u \in inserted' : u.number = n
    BY DEF QueueInv, NumberInv
  <2>. QED  BY <2>1, <2>2, <2>4, <2>5, <2>6 DEF NumberInv
<1>10. PlaceInv'
  <2>1. /\ \A s \in Segments : t \notin timers[s]
        /\ t \notin cancelled /\ t \notin lost /\ \A q \in Procs : t \notin Held(q)
    BY <1>5, HeldFacts DEF QueueInv, PlaceInv
  <2>2. Somewhere(t)' /\ Once(t)'
    BY <1>1, <1>3, <1>4, <1>5, <2>1 DEF Somewhere, Once, Stored, Taken
  <2>3. ASSUME NEW u \in inserted, u # t
        PROVE  Somewhere(u)' /\ Once(u)'
    <3>1. \A s \in Segments : u \in timers'[s] <=> u \in timers[s]
      BY <1>4, <2>3
    <3>. QED  BY <1>3, <3>1 DEF QueueInv, PlaceInv, Somewhere, Once, Stored, Taken
  <2>4. \A s \in Segments : timers'[s] \subseteq inserted'
    BY <1>4 DEF QueueInv, PlaceInv
  <2>5. cancelled' \subseteq inserted' /\ lost' \subseteq inserted'
    BY DEF QueueInv, PlaceInv
  <2>6. \A u \in inserted' : Somewhere(u)' /\ Once(u)'
    BY <2>2, <2>3
  <2>. QED  BY <2>4, <2>5, <2>6 DEF PlaceInv
<1>. QED  BY <1>7, <1>8, <1>9, <1>10

\* The id was in use, or the segment was full: the timer is dropped.
LEMMA RefusedKeeps ==
  ASSUME QueueInv, NEW p \in Procs, work[p].op = "add",
         work' = [work EXCEPT ![p] = Idle],
         UNCHANGED <<shmVars, timers, inserted, nextId, adds, handed, cancelled, lost>>
  PROVE  TypeOK' /\ WorkInv' /\ NumberInv' /\ PlaceInv'
<1>1. /\ work' \in [Procs -> Works] /\ work'[p] = Idle
      /\ \A q \in Procs \ {p} : work'[q] = work[q]
  BY DEF QueueInv, TypeOK, Works, Idle
<1>2. \A q \in Procs : Held(q)' = Held(q)
  <2>1. Held(p) = {} /\ Held(p)' = {}
    BY <1>1, HeldFacts DEF Held, Idle
  <2>. QED  BY <1>1, <2>1 DEF Held
<1>3. Idle.op = "none"
  BY DEF Idle
<1>4. TypeOK'
  BY <1>1 DEF QueueInv, TypeOK, shmVars, ShmTypeOK
<1>5. WorkInv'
  BY <1>1, <1>3, HeldFacts DEF QueueInv, WorkInv, shmVars
<1>6. NumberInv'
  BY <1>1, <1>3 DEF QueueInv, NumberInv
<1>7. PlaceInv'
  BY <1>2 DEF QueueInv, PlaceInv, Somewhere, Once, Stored, Taken
<1>. QED  BY <1>4, <1>5, <1>6, <1>7

LEMMA InsertKeeps ==
  ASSUME QueueInv, NEW p \in Procs, Insert(p)
  PROVE  QueueInv'
<1>1. work[p].op = "add"
  BY DEF Insert
<1>2. PICK t \in Timers : work[p] = Adding(t) /\ t.number <= adds
  BY <1>1 DEF QueueInv, WorkInv
<1>3. work[p].items = {t}
  BY <1>2 DEF Adding
<1>4. SegmentInv'
  BY DEF Insert, shmVars, QueueInv, SegmentInv
<1>5. CASE timers' = [timers EXCEPT ![at[p]] = @ \cup {t}] /\ inserted' = inserted \cup {t}
  <2>1. /\ work' = [work EXCEPT ![p] = Idle]
        /\ UNCHANGED <<shmVars, nextId, adds, handed, cancelled, lost>>
    BY DEF Insert
  <2>2. TypeOK' /\ WorkInv' /\ NumberInv' /\ PlaceInv'
    BY <1>1, <1>2, <1>5, <2>1, InsertedKeeps
  <2>. QED  BY <1>4, <2>2 DEF QueueInv
<1>6. CASE UNCHANGED <<timers, inserted>>
  <2>1. /\ work' = [work EXCEPT ![p] = Idle]
        /\ UNCHANGED <<shmVars, timers, inserted, nextId, adds, handed, cancelled, lost>>
    BY <1>6 DEF Insert
  <2>2. TypeOK' /\ WorkInv' /\ NumberInv' /\ PlaceInv'
    BY <1>1, <2>1, RefusedKeeps
  <2>. QED  BY <1>4, <2>2 DEF QueueInv
<1>. QED  BY <1>3, <1>5, <1>6 DEF Insert

-----------------------------------------------------------------------------
(* erase() and getExpirationTimer().                                       *)

LEMMA EraseKeeps ==
  ASSUME QueueInv, NEW p \in Procs, NEW id \in Ids, Erase(p, id)
  PROVE  QueueInv'
<1>. DEFINE these == {t \in timers[at[p]] : t.id = id}
<1>1. /\ timers' = [timers EXCEPT ![at[p]] = @ \ these]
      /\ cancelled' = cancelled \cup these
      /\ UNCHANGED <<shmVars, nextId, work, adds, inserted, handed, lost>>
      /\ pc[p] = "in" /\ ~Busy(at[p])
  BY DEF Erase, Enters
<1>2. at[p] \in Segments
  BY <1>1, ShmAssumption DEF QueueInv, TypeOK, ShmTypeOK, SegmentInv, Mapped, Segments
<1>3. \A q \in Procs : work[q].op # "none" => at[q] # at[p]
  BY <1>1, HeldFacts DEF Busy
<1>4. these \subseteq timers[at[p]]
  OBVIOUS
<1>. HIDE DEF these
<1>5. /\ timers'[at[p]] = timers[at[p]] \ these
      /\ \A s \in Segments \ {at[p]} : timers'[s] = timers[s]
      /\ timers' \in [Segments -> SUBSET Timers]
      /\ these \subseteq Timers /\ these \subseteq inserted
  BY <1>1, <1>2, <1>4 DEF QueueInv, TypeOK, PlaceInv
<1>6. TypeOK'
  BY <1>1, <1>5 DEF QueueInv, TypeOK, shmVars, ShmTypeOK
<1>7. SegmentInv'
  BY <1>1 DEF QueueInv, SegmentInv, shmVars
<1>8. WorkInv'
  <2>1. \A q \in Procs : work[q].op = "expire" => timers'[at[q]] = timers[at[q]]
    BY <1>3, <1>5, HeldFacts
  <2>. QED  BY <1>1, <2>1 DEF QueueInv, WorkInv, shmVars
<1>9. NumberInv'
  BY <1>1 DEF QueueInv, NumberInv
<1>10. PlaceInv'
  <2>1. \A q \in Procs : Held(q)' = Held(q)
    BY <1>1 DEF Held
  <2>2. ASSUME NEW t \in inserted, t \in these
        PROVE  Somewhere(t)' /\ Once(t)'
    <3>1. \A s \in Segments : t \notin timers'[s]
      BY <1>2, <1>4, <1>5, <2>2 DEF QueueInv, PlaceInv, Once
    <3>2. Stored(t) /\ ~Stored(t)' /\ t \in cancelled'
      BY <1>1, <1>2, <1>4, <2>2, <3>1 DEF Stored
    <3>. QED  BY <1>1, <2>1, <3>1, <3>2 DEF QueueInv, PlaceInv, Somewhere, Once, Taken
  <2>3. ASSUME NEW t \in inserted, t \notin these
        PROVE  Somewhere(t)' /\ Once(t)'
    <3>1. \A s \in Segments : t \in timers'[s] <=> t \in timers[s]
      BY <1>5, <2>3
    <3>2. t \in cancelled' <=> t \in cancelled
      BY <1>1, <2>3
    <3>. QED  BY <1>1, <2>1, <3>1, <3>2 DEF QueueInv, PlaceInv, Somewhere, Once, Stored, Taken
  <2>4. /\ \A s \in Segments : timers'[s] \subseteq inserted'
        /\ cancelled' \subseteq inserted' /\ lost' \subseteq inserted'
    BY <1>1, <1>5 DEF QueueInv, PlaceInv
  <2>. QED  BY <1>1, <2>2, <2>3, <2>4 DEF PlaceInv
<1>. QED  BY <1>6, <1>7, <1>8, <1>9, <1>10 DEF QueueInv

LEMMA CopyKeeps ==
  ASSUME QueueInv, NEW p \in Procs, NEW now, Copy(p, now)
  PROVE  QueueInv'
<1>. DEFINE expired == {t \in timers[at[p]] : t.expiration <= now}
<1>1. /\ work' = [work EXCEPT ![p] = Expiring(expired)]
      /\ UNCHANGED <<shmVars, nextId, timers, adds, inserted, handed, cancelled, lost>>
      /\ pc[p] = "in" /\ ~Busy(at[p])
  BY DEF Copy, Enters
<1>2. at[p] \in Segments
  BY <1>1, ShmAssumption DEF QueueInv, TypeOK, ShmTypeOK, SegmentInv, Mapped, Segments
<1>3. work[p] = Idle /\ \A q \in Procs : work[q] # Idle => at[q] # at[p]
  BY <1>1 DEF Busy
<1>4. expired \subseteq timers[at[p]]
  OBVIOUS
<1>. HIDE DEF expired
<1>5. /\ Expiring(expired) \in Works /\ Expiring(expired).op = "expire"
      /\ Expiring(expired).items = expired /\ Expiring(expired).left = expired
  BY <1>2, <1>4 DEF Expiring, Works, QueueInv, TypeOK
<1>6. /\ work' \in [Procs -> Works] /\ work'[p] = Expiring(expired)
      /\ \A q \in Procs \ {p} : work'[q] = work[q]
  BY <1>1, <1>5 DEF QueueInv, TypeOK
<1>7. \A q \in Procs : Held(q)' = Held(q)
  <2>1. Held(p) = {} /\ Held(p)' = {}
    BY <1>3, <1>5, <1>6 DEF Held, Idle
  <2>. QED  BY <1>6, <2>1 DEF Held
<1>8. TypeOK'
  BY <1>1, <1>6 DEF QueueInv, TypeOK, shmVars, ShmTypeOK
<1>9. SegmentInv'
  BY <1>1 DEF QueueInv, SegmentInv, shmVars
<1>10. WorkInv'
  <2>1. expired \subseteq inserted
    BY <1>2, <1>4 DEF QueueInv, PlaceInv
  <2>. QED
    BY <1>1, <1>2, <1>3, <1>4, <1>5, <1>6, <2>1, HeldFacts DEF QueueInv, WorkInv, shmVars
<1>11. NumberInv'
  BY <1>1, <1>5, <1>6 DEF QueueInv, NumberInv
<1>12. PlaceInv'
  BY <1>1, <1>7 DEF QueueInv, PlaceInv, Somewhere, Once, Stored, Taken
<1>. QED  BY <1>8, <1>9, <1>10, <1>11, <1>12 DEF QueueInv

LEMMA EraseCopiedKeeps ==
  ASSUME QueueInv, NEW p \in Procs, EraseCopied(p)
  PROVE  QueueInv'
<1>1. PICK t \in work[p].left :
         /\ timers' = [timers EXCEPT ![at[p]] = @ \ {t}]
         /\ work' = [work EXCEPT ![p].left = @ \ {t}]
  BY DEF EraseCopied
<1>2. /\ work[p].op = "expire"
      /\ UNCHANGED <<shmVars, nextId, adds, inserted, handed, cancelled, lost>>
  BY DEF EraseCopied
<1>3. /\ at[p] \in Segments /\ work[p] \in Works /\ work[p] # Idle
      /\ \A q \in Procs \ {p} : work[q].op # "none" => at[q] # at[p]
  BY <1>2, HeldFacts DEF QueueInv, WorkInv
<1>4. /\ t \in work[p].items /\ t \in timers[at[p]] /\ t \in inserted
      /\ work[p].items \subseteq inserted
      /\ work[p].left \subseteq work[p].items /\ work[p].left \subseteq timers[at[p]]
  BY <1>2 DEF QueueInv, WorkInv
<1>5. /\ work' \in [Procs -> Works]
      /\ work'[p].op = "expire" /\ work'[p].items = work[p].items
      /\ work'[p].left = work[p].left \ {t}
      /\ \A q \in Procs \ {p} : work'[q] = work[q]
  BY <1>1, <1>2, <1>3 DEF QueueInv, TypeOK, Works
<1>6. /\ timers'[at[p]] = timers[at[p]] \ {t}
      /\ \A s \in Segments \ {at[p]} : timers'[s] = timers[s]
      /\ timers' \in [Segments -> SUBSET Timers]
  BY <1>1, <1>3 DEF QueueInv, TypeOK
<1>7. Held(p)' = Held(p) \cup {t} /\ \A q \in Procs \ {p} : Held(q)' = Held(q)
  BY <1>4, <1>5 DEF Held
<1>8. TypeOK'
  BY <1>2, <1>5, <1>6 DEF QueueInv, TypeOK, shmVars, ShmTypeOK
<1>9. SegmentInv'
  BY <1>2 DEF QueueInv, SegmentInv, shmVars
<1>10. WorkInv'
  <2>1. \A q \in Procs \ {p} : work[q].op = "expire" => timers'[at[q]] = timers[at[q]]
    BY <1>3, <1>6, HeldFacts
  <2>2. work'[p] # Idle
    BY <1>5 DEF Idle
  <2>3. /\ work'[p].items \subseteq inserted' /\ work'[p].left \subseteq work'[p].items
        /\ work'[p].left \subseteq timers'[at'[p]]
    BY <1>2, <1>4, <1>5, <1>6 DEF shmVars
  <2>4. \A q \in Procs : work'[q] # Idle => work[q] # Idle
    BY <1>3, <1>5
  <2>. QED  BY <1>2, <1>5, <2>1, <2>2, <2>3, <2>4 DEF QueueInv, WorkInv, shmVars
<1>11. NumberInv'
  BY <1>2, <1>5 DEF QueueInv, NumberInv
<1>12. PlaceInv'
  <2>1. Somewhere(t)' /\ Once(t)'
    <3>1. \A s \in Segments : t \notin timers'[s]
      BY <1>3, <1>4, <1>6 DEF QueueInv, PlaceInv, Once
    <3>2. Stored(t) /\ ~Taken(t) /\ handed[t.number] = 0 /\ t \notin cancelled /\ t \notin lost
      BY <1>3, <1>4 DEF QueueInv, PlaceInv, Once, Stored
    <3>3. \A q \in Procs : t \in Held(q)' <=> q = p
      BY <1>7, <3>2 DEF Taken
    <3>. QED  BY <1>2, <3>1, <3>2, <3>3 DEF Somewhere, Once, Stored, Taken
  <2>2. ASSUME NEW u \in inserted, u # t
        PROVE  Somewhere(u)' /\ Once(u)'
    <3>1. /\ \A s \in Segments : u \in timers'[s] <=> u \in timers[s]
          /\ \A q \in Procs : u \in Held(q)' <=> u \in Held(q)
      BY <1>6, <1>7, <2>2
    <3>. QED  BY <1>2, <3>1 DEF QueueInv, PlaceInv, Somewhere, Once, Stored, Taken
  <2>3. /\ \A s \in Segments : timers'[s] \subseteq inserted'
        /\ cancelled' \subseteq inserted' /\ lost' \subseteq inserted'
    BY <1>2, <1>6 DEF QueueInv, PlaceInv
  <2>. QED  BY <1>2, <2>1, <2>2, <2>3 DEF PlaceInv
<1>. QED  BY <1>8, <1>9, <1>10, <1>11, <1>12 DEF QueueInv

LEMMA HandOutKeeps ==
  ASSUME QueueInv, NEW p \in Procs, HandOut(p)
  PROVE  QueueInv'
<1>1. /\ work[p].op = "expire" /\ work[p].left = {}
      /\ handed' = [n \in 1..MaxAdds |->
            IF \E t \in work[p].items : t.number = n THEN handed[n] + 1 ELSE handed[n]]
      /\ work' = [work EXCEPT ![p] = Idle]
      /\ UNCHANGED <<shmVars, nextId, timers, adds, inserted, cancelled, lost>>
  BY DEF HandOut
<1>2. /\ work' \in [Procs -> Works] /\ work'[p] = Idle
      /\ \A q \in Procs \ {p} : work'[q] = work[q]
  BY <1>1 DEF QueueInv, TypeOK, Works, Idle
<1>3. Idle.op = "none"
  BY DEF Idle
<1>4. /\ Held(p) = work[p].items /\ Held(p) \subseteq inserted
      /\ Held(p)' = {} /\ \A q \in Procs \ {p} : Held(q)' = Held(q)
  BY <1>1, <1>2, HeldFacts DEF Held, Idle
<1>5. TypeOK'
  <2>1. handed' \in [1..MaxAdds -> Nat]
    BY <1>1 DEF QueueInv, TypeOK
  <2>. QED  BY <1>1, <1>2, <2>1 DEF QueueInv, TypeOK, shmVars, ShmTypeOK
<1>6. SegmentInv'
  BY <1>1 DEF QueueInv, SegmentInv, shmVars
<1>7. WorkInv'
  BY <1>1, <1>2, <1>3, HeldFacts DEF QueueInv, WorkInv, shmVars
<1>8. NumberInv'
  <2>1. ASSUME NEW n \in 1..MaxAdds, handed'[n] # 0
        PROVE  \E u \in inserted' : u.number = n
    <3>1. CASE \E u \in work[p].items : u.number = n
      BY <1>1, <1>4, <3>1
    <3>2. CASE ~ \E u \in work[p].items : u.number = n
      BY <1>1, <2>1, <3>2 DEF QueueInv, NumberInv
    <3>. QED  BY <3>1, <3>2
  <2>. QED  BY <1>1, <1>2, <1>3, <2>1 DEF QueueInv, NumberInv
<1>9. PlaceInv'
  <2>1. \A u \in inserted : u.number \in 1..MaxAdds
    BY DEF QueueInv, TypeOK, Timers
  <2>2. ASSUME NEW u \in inserted, u \in Held(p)
        PROVE  Somewhere(u)' /\ Once(u)'
    <3>1. Taken(u)
      BY <2>2 DEF Taken
    <3>2. handed[u.number] = 0 /\ ~Stored(u) /\ u \notin cancelled /\ u \notin lost
      BY <3>1 DEF QueueInv, PlaceInv, Once
    <3>3. handed'[u.number] = 1
      BY <1>1, <1>4, <2>1, <2>2, <3>2
    <3>4. ~Taken(u)' /\ ~Stored(u)'
      BY <1>1, <1>4, <2>2, <3>2 DEF QueueInv, PlaceInv, Once, Taken, Stored
    <3>. QED  BY <1>1, <3>2, <3>3, <3>4 DEF Somewhere, Once, Stored, Taken
  <2>3. ASSUME NEW u \in inserted, u \notin Held(p)
        PROVE  Somewhere(u)' /\ Once(u)'
    <3>1. \A t \in work[p].items : t.number # u.number
      BY <1>4, <2>3 DEF QueueInv, NumberInv
    <3>2. handed'[u.number] = handed[u.number]
      BY <1>1, <2>1, <3>1
    <3>3. \A q \in Procs : u \in Held(q)' <=> u \in Held(q)
      BY <1>4, <2>3
    <3>. QED  BY <1>1, <3>2, <3>3 DEF QueueInv, PlaceInv, Somewhere, Once, Stored, Taken
  <2>. QED  BY <1>1, <2>2, <2>3 DEF QueueInv, PlaceInv
<1>. QED  BY <1>5, <1>6, <1>7, <1>8, <1>9 DEF QueueInv

-----------------------------------------------------------------------------
(* The theorems.                                                           *)

LEMMA QueueInvInit == ASSUME Init PROVE QueueInv
<1>1. TypeOK
  BY TypeInit
<1>2. SegmentInv
  BY ShmAssumption DEF Init, ShmInit, SegmentInv, Mapped
<1>3. WorkInv
  BY DEF Init, ShmInit, WorkInv, Idle
<1>4. NumberInv
  BY DEF Init, NumberInv, Idle
<1>5. PlaceInv
  BY DEF Init, PlaceInv
<1>. QED  BY <1>1, <1>2, <1>3, <1>4, <1>5 DEF QueueInv

LEMMA QueueInvNext == ASSUME QueueInv, [Next]_vars PROVE QueueInv'
<1>1. CASE UNCHANGED vars
  <2>1. /\ ShmTypeOK' /\ SegmentInv' /\ nextId' \in [Segments -> Ids] /\ UNCHANGED <<at, pc>>
    BY <1>1 DEF vars, shmVars, dataVars, QueueInv, TypeOK, ShmTypeOK, SegmentInv
  <2>. QED  BY <1>1, <2>1, DataKept DEF vars, dataVars
<1>2. CASE RemoveQueue
  BY <1>2, RemoveKeeps
<1>3. ASSUME NEW p \in Procs, Operation(p)
      PROVE  QueueInv'
  <2>1. CASE TakeId(p)
    BY <2>1, TakeIdKeeps
  <2>2. CASE Insert(p)
    BY <2>2, InsertKeeps
  <2>3. CASE \E id \in Ids : Erase(p, id)
    BY <2>3, EraseKeeps
  <2>4. CASE \E now \in 0..MaxTime : Copy(p, now)
    BY <2>4, CopyKeeps
  <2>5. CASE EraseCopied(p)
    BY <2>5, EraseCopiedKeeps
  <2>6. CASE HandOut(p)
    BY <2>6, HandOutKeeps
  <2>. QED  BY <1>3, <2>1, <2>2, <2>3, <2>4, <2>5, <2>6 DEF Operation
<1>4. ASSUME NEW p \in Procs, Attach(p) \/ DetachQueue(p) \/ CrashQueue(p)
      PROVE  QueueInv'
  BY <1>4, AttachKeeps, DetachKeeps, CrashKeeps
<1>. QED  BY <1>1, <1>2, <1>3, <1>4 DEF Next

LEMMA AlwaysQueueInv == Spec => []QueueInv
BY QueueInvInit, QueueInvNext, PTL DEF Spec

\* Every variable has its type, the timers of every segment and of every
\* process under way among them (container.hpp 469-533).
THEOREM TypeCorrect == Spec => []TypeOK
<1>1. QueueInv => TypeOK
  BY DEF QueueInv
<1>. QED  BY <1>1, AlwaysQueueInv, PTL

\* Processes in the container of one name are in the same segment, unless
\* ShmRemove took the name from one of theirs.
THEOREM OneContainerAlways == Spec => []OneContainer
<1>1. ASSUME QueueInv, NEW p \in Procs, NEW q \in Procs,
             pc[p] = "in", pc[q] = "in", at[p] # at[q]
      PROVE  {at[p], at[q]} \cap removed # {}
  <2>1. at[p] \in 1..segments /\ at[q] \in 1..segments
    BY <1>1 DEF QueueInv, SegmentInv, Mapped, TypeOK, ShmTypeOK
  <2>2. \A s \in 1..segments : s = link \/ s \in removed
    BY <1>1 DEF QueueInv, SegmentInv
  <2>3. at[p] \in removed \/ at[q] \in removed
    BY <1>1, <2>1, <2>2, Zenon
  <2>4. at[p] \in {at[p], at[q]} /\ at[q] \in {at[p], at[q]}
    OBVIOUS
  <2>. QED  BY <2>3, <2>4, Zenon
<1>2. QueueInv => OneContainer
  BY <1>1 DEF OneContainer
<1>. QED  BY <1>2, AlwaysQueueInv, PTL

\* A timer that add() has inserted is in exactly one place: in one segment, with
\* one process, handed out, erased, or lost with a process that died.
THEOREM ConservedAlways == Spec => []Conserved
<1>1. ASSUME QueueInv, NEW t \in inserted
      PROVE  \E place \in Places(t) : Places(t) = {place}
  <2>1. Somewhere(t) /\ Once(t)
    BY <1>1 DEF QueueInv, PlaceInv
  <2>2. CASE handed[t.number] = 1
    <3>1. /\ \A s \in Segments : t \notin timers[s]
          /\ \A p \in Procs : t \notin Held(p)
          /\ t \notin cancelled /\ t \notin lost
      BY <2>1, <2>2 DEF Once, Stored, Taken
    <3>2. 1..handed[t.number] = {1}
      BY <2>2
    <3>3. Places(t) = {<<"handed out", 1>>}
      BY <3>1, <3>2, Zenon DEF Places
    <3>. QED  BY <3>3
  <2>3. CASE handed[t.number] = 0
    <3>1. 1..handed[t.number] = {}
      BY <2>3
    <3>2. CASE \E s \in Segments : t \in timers[s]
      <4>1. PICK s \in Segments : t \in timers[s]
        BY <3>2
      <4>2. /\ \A r \in Segments : t \in timers[r] <=> r = s
            /\ \A p \in Procs : t \notin Held(p)
            /\ t \notin cancelled /\ t \notin lost
        BY <2>1, <4>1 DEF Once, Stored, Taken
      <4>3. Places(t) = {<<"segment", s>>}
        BY <3>1, <4>1, <4>2, Zenon DEF Places
      <4>. QED  BY <4>3
    <3>3. CASE \E p \in Procs : t \in Held(p)
      <4>1. PICK p \in Procs : t \in Held(p)
        BY <3>3
      <4>2. /\ \A s \in Segments : t \notin timers[s]
            /\ \A q \in Procs : t \in Held(q) <=> q = p
            /\ t \notin cancelled /\ t \notin lost
        BY <2>1, <4>1 DEF Once, Stored, Taken
      <4>3. Places(t) = {<<"held", p>>}
        BY <3>1, <4>1, <4>2, Zenon DEF Places
      <4>. QED  BY <4>3
    <3>4. CASE t \in cancelled
      <4>1. /\ \A s \in Segments : t \notin timers[s]
            /\ \A q \in Procs : t \notin Held(q)
            /\ t \notin lost
        BY <2>1, <3>4 DEF Once, Stored, Taken
      <4>2. Places(t) = {<<"erased", 0>>}
        BY <3>1, <3>4, <4>1, Zenon DEF Places
      <4>. QED  BY <4>2
    <3>5. CASE t \in lost
      <4>1. /\ \A s \in Segments : t \notin timers[s]
            /\ \A q \in Procs : t \notin Held(q)
            /\ t \notin cancelled
        BY <2>1, <3>5 DEF Once, Stored, Taken
      <4>2. Places(t) = {<<"lost", 0>>}
        BY <3>1, <3>5, <4>1, Zenon DEF Places
      <4>. QED  BY <4>2
    <3>. QED  BY <2>1, <2>3, <3>2, <3>3, <3>4, <3>5 DEF Somewhere
  <2>. QED  BY <2>1, <2>2, <2>3 DEF Once
<1>2. QueueInv => Conserved
  BY <1>1 DEF Conserved
<1>. QED  BY <1>2, AlwaysQueueInv, PTL

-----------------------------------------------------------------------------
(* The pointers of a process are NULL only if it came too early.           *)

\* The objects that p has constructed or looked for.
Done(p) == {Names[i] : i \in 1..(step[p] - 1)}

PointersOf(p) ==
    /\ pc[p] \in {"out", "open", "create", "wait", "init"} => step[p] = 1 /\ has[p] = {}
    /\ pc[p] = "construct" => has[p] = Done(p)
    /\ pc[p] = "find" /\ p \notin early => objects[at[p]] = Objects /\ has[p] = Done(p)
    /\ pc[p] \in {"check", "in"} /\ p \notin early => has[p] = Objects
    /\ pc[p] \in {"assert", "null"} => p \in early

PointerInv == \A p \in Procs : PointersOf(p)

\* What Advance leaves done is what was done and the object of the step.
LEMMA AdvanceDone ==
  ASSUME ShmTypeOK, NEW p \in Procs, NEW where, Advance(p, where)
  PROVE  \/ /\ pc' = [pc EXCEPT ![p] = where]
            /\ Done(p)' = Done(p) \cup {Names[step[p]]}
         \/ /\ pc' = [pc EXCEPT ![p] = "check"]
            /\ Objects = Done(p) \cup {Names[step[p]]}
<1>1. step[p] \in 1..Len(Names) /\ Len(Names) \in Nat
  BY LenNames DEF ShmTypeOK
<1>2. CASE step[p] = Len(Names)
  <2>1. Objects = Done(p) \cup {Names[step[p]]}
    <3>1. 1..Len(Names) = 1..(step[p] - 1) \cup {step[p]}
      BY <1>1, <1>2
    <3>. QED  BY <3>1 DEF Objects, Done
  <2>. QED  BY <1>2, <2>1 DEF Advance, Goto
<1>3. CASE step[p] # Len(Names)
  <2>1. step'[p] = step[p] + 1
    BY <1>3 DEF Advance, ShmTypeOK
  <2>2. 1..(step'[p] - 1) = 1..(step[p] - 1) \cup {step[p]}
    BY <1>1, <2>1
  <2>3. Done(p)' = Done(p) \cup {Names[step[p]]}
    BY <2>2 DEF Done
  <2>. QED  BY <1>3, <2>3 DEF Advance, Goto
<1>. QED  BY <1>2, <1>3

\* A process that does not move keeps its pointers; objects are only added.
LEMMA OtherPointers ==
  ASSUME ShmTypeOK, ShmTypeOK', PointerInv, NEW q \in Procs,
         pc'[q] = pc[q], at'[q] = at[q], step'[q] = step[q], has'[q] = has[q],
         q \in early <=> q \in early', at[q] \in Segments \/ pc[q] \notin Mapped,
         \A s \in Segments : objects[s] \subseteq objects'[s]
  PROVE  PointersOf(q)'
<1>1. Done(q)' = Done(q)
  BY DEF Done
<1>2. pc[q] = "find" => objects'[at[q]] \subseteq Objects /\ objects[at[q]] \subseteq objects'[at[q]]
  BY DEF ShmTypeOK, Mapped
<1>3. pc[q] = "find" /\ objects[at[q]] = Objects => objects'[at[q]] = Objects
  BY <1>2
<1>. QED  BY <1>1, <1>3 DEF PointerInv, PointersOf

LEMMA AttachPointers ==
  ASSUME ShmTypeOK, SegmentInv, PointerInv, ShmTypeOK', NEW p \in Procs,
         \/ Begin(p) \/ Open(p) \/ Wait(p) \/ Create(p) \/ Initialize(p)
         \/ Construct(p) \/ Find(p) \/ Check(p)
  PROVE  PointerInv'
<1>1. at[p] \in Segments \/ pc[p] \notin Mapped
  BY DEF SegmentInv, ShmTypeOK, Segments
<1>2. ASSUME NEW q \in Procs \ {p}
      PROVE  /\ pc'[q] = pc[q] /\ at'[q] = at[q] /\ step'[q] = step[q] /\ has'[q] = has[q]
             /\ q \in early <=> q \in early'
             /\ at[q] \in Segments \/ pc[q] \notin Mapped
  <2>1. at[q] \in Segments \/ pc[q] \notin Mapped
    BY DEF SegmentInv, ShmTypeOK, Segments
  <2>2. pc'[q] = pc[q] /\ at'[q] = at[q]
    BY AttachType
  <2>3. step'[q] = step[q] /\ has'[q] = has[q] /\ (q \in early <=> q \in early')
    BY DEF Begin, Open, Wait, Create, Initialize, Construct, Find, Check, Advance, ShmTypeOK
  <2>. QED  BY <2>1, <2>2, <2>3
<1>3. \A s \in Segments : objects[s] \subseteq objects'[s]
  <2>1. CASE Construct(p)
    BY <2>1 DEF Construct, ShmTypeOK
  <2>2. CASE UNCHANGED objects
    BY <2>2
  <2>. QED  BY <2>1, <2>2 DEF Begin, Open, Wait, Create, Initialize, Find, Check
<1>4. PointersOf(p)'
  <2>1. CASE Begin(p)
    BY <2>1 DEF Begin, Goto, PointerInv, PointersOf, ShmTypeOK
  <2>2. CASE Open(p)
    BY <2>2 DEF Open, Goto, PointerInv, PointersOf, ShmTypeOK
  <2>3. CASE Wait(p)
    <3>1. /\ pc'[p] = "find" /\ step'[p] = 1 /\ has'[p] = {} /\ UNCHANGED <<objects, at>>
          /\ p \notin early' => objects[at[p]] = Objects
      BY <2>3 DEF Wait, Goto, PointerInv, PointersOf, ShmTypeOK
    <3>2. Done(p)' = {}
      BY <3>1 DEF Done
    <3>. QED  BY <3>1, <3>2 DEF PointersOf
  <2>4. CASE Create(p)
    BY <2>4 DEF Create, Goto, PointerInv, PointersOf, ShmTypeOK
  <2>5. CASE Initialize(p)
    <3>1. pc'[p] = "construct" /\ step'[p] = 1 /\ has'[p] = {}
      BY <2>5 DEF Initialize, Goto, PointerInv, PointersOf, ShmTypeOK
    <3>2. Done(p)' = {}
      BY <3>1 DEF Done
    <3>. QED  BY <3>1, <3>2 DEF PointersOf
  <2>6. CASE Construct(p)
    <3>1. /\ has[p] = Done(p) /\ has'[p] = has[p] \cup {Names[step[p]]}
          /\ Advance(p, "construct")
      BY <2>6 DEF Construct, PointerInv, PointersOf, ShmTypeOK
    <3>2. CASE pc' = [pc EXCEPT ![p] = "construct"] /\ Done(p)' = Done(p) \cup {Names[step[p]]}
      BY <3>1, <3>2 DEF ShmTypeOK, PointersOf
    <3>3. CASE pc' = [pc EXCEPT ![p] = "check"] /\ Objects = Done(p) \cup {Names[step[p]]}
      BY <3>1, <3>3 DEF ShmTypeOK, PointersOf
    <3>. QED  BY <3>1, <3>2, <3>3, AdvanceDone
  <2>7. CASE Find(p)
    <3>1. /\ has'[p] = has[p] \cup ({Names[step[p]]} \cap objects[at[p]])
          /\ Advance(p, "find") /\ UNCHANGED <<objects, at, early>> /\ pc[p] = "find"
      BY <2>7 DEF Find, ShmTypeOK
    <3>2. Names[step[p]] \in Objects
      BY LenNames DEF ShmTypeOK
    <3>3. p \notin early => /\ objects[at[p]] = Objects /\ has[p] = Done(p)
                            /\ has'[p] = Done(p) \cup {Names[step[p]]}
      BY <3>1, <3>2 DEF PointerInv, PointersOf
    <3>4. CASE pc' = [pc EXCEPT ![p] = "find"] /\ Done(p)' = Done(p) \cup {Names[step[p]]}
      BY <3>1, <3>3, <3>4 DEF ShmTypeOK, PointersOf
    <3>5. CASE pc' = [pc EXCEPT ![p] = "check"] /\ Objects = Done(p) \cup {Names[step[p]]}
      BY <3>1, <3>3, <3>5 DEF ShmTypeOK, PointersOf
    <3>. QED  BY <3>1, <3>4, <3>5, AdvanceDone
  <2>8. CASE Check(p)
    <3>1. Names[1] \in Objects
      BY LenNames
    <3>. QED  BY <2>8, <3>1 DEF Check, Goto, PointerInv, PointersOf, ShmTypeOK
  <2>. QED  BY <2>1, <2>2, <2>3, <2>4, <2>5, <2>6, <2>7, <2>8
<1>5. ASSUME NEW q \in Procs, q # p
      PROVE  PointersOf(q)'
  BY <1>2, <1>3, <1>5, OtherPointers
<1>. QED  BY <1>4, <1>5 DEF PointerInv

\* The steps that move no process but p, and p to where it has no pointers left
\* or is known to have come too early.
LEMMA PointersKept ==
  ASSUME QueueInv, PointerInv, ShmTypeOK', UNCHANGED <<objects, at, step, has, early, pc>>
  PROVE  PointerInv'
<1>1. \A q \in Procs : Done(q)' = Done(q)
  BY DEF Done
<1>. QED  BY <1>1 DEF PointerInv, PointersOf

LEMMA LeavesPointers ==
  ASSUME QueueInv, PointerInv, NEW p \in Procs, Leaves(p)
  PROVE  PointerInv'
<1>1. /\ pc' = [pc EXCEPT ![p] = "out"] /\ at' = [at EXCEPT ![p] = 0]
      /\ step' = [step EXCEPT ![p] = 1] /\ has' = [has EXCEPT ![p] = {}]
      /\ early' = early \ {p} /\ UNCHANGED objects
  BY DEF Leaves, Goto
<1>2. PointersOf(p)'
  BY <1>1 DEF PointersOf, QueueInv, TypeOK, ShmTypeOK
<1>3. ASSUME NEW q \in Procs \ {p}
      PROVE  PointersOf(q)'
  <2>1. Done(q)' = Done(q)
    BY <1>1 DEF Done, QueueInv, TypeOK, ShmTypeOK
  <2>. QED  BY <1>1, <2>1 DEF PointerInv, PointersOf, QueueInv, TypeOK, ShmTypeOK
<1>. QED  BY <1>2, <1>3 DEF PointerInv

LEMMA TakeIdPointers ==
  ASSUME QueueInv, PointerInv, NEW p \in Procs, TakeId(p), ShmTypeOK'
  PROVE  PointerInv'
<1>1. pc[p] = "in" /\ UNCHANGED <<objects, at, step, has, early>>
  BY DEF TakeId, Enters
<1>2. CASE "IntNextId" \in has[p]
  <2>1. UNCHANGED pc
    BY <1>2 DEF TakeId
  <2>. QED  BY <1>1, <2>1, PointersKept
<1>3. CASE "IntNextId" \notin has[p]
  <2>1. pc' = [pc EXCEPT ![p] = "null"]
    BY <1>3 DEF TakeId, Goto
  <2>2. p \in early
    BY <1>1, <1>3, TimersAssumption DEF PointerInv, PointersOf
  <2>3. \A q \in Procs : Done(q)' = Done(q)
    BY <1>1 DEF Done
  <2>4. PointersOf(p)'
    BY <1>1, <2>1, <2>2 DEF PointersOf, QueueInv, TypeOK, ShmTypeOK
  <2>5. \A q \in Procs \ {p} : PointersOf(q)'
    BY <1>1, <2>1, <2>3 DEF PointerInv, PointersOf, QueueInv, TypeOK, ShmTypeOK
  <2>. QED  BY <2>4, <2>5 DEF PointerInv
<1>. QED  BY <1>2, <1>3

LEMMA PointerInvNext ==
  ASSUME QueueInv, QueueInv', PointerInv, [Next]_vars
  PROVE  PointerInv'
<1>. ShmTypeOK /\ ShmTypeOK' /\ SegmentInv
  BY DEF QueueInv, TypeOK
<1>1. CASE UNCHANGED vars
  BY <1>1, PointersKept DEF vars, shmVars
<1>2. CASE RemoveQueue
  BY <1>2, PointersKept DEF RemoveQueue, Remove
<1>3. ASSUME NEW p \in Procs, Attach(p)
      PROVE  PointerInv'
  BY <1>3, AttachPointers DEF Attach, ConstructObjects
<1>4. ASSUME NEW p \in Procs, DetachQueue(p) \/ CrashQueue(p)
      PROVE  PointerInv'
  BY <1>4, LeavesPointers DEF DetachQueue, CrashQueue, Detach, Crash
<1>5. ASSUME NEW p \in Procs, Operation(p)
      PROVE  PointerInv'
  <2>1. CASE TakeId(p)
    BY <2>1, TakeIdPointers
  <2>2. CASE UNCHANGED shmVars
    BY <2>2, PointersKept DEF shmVars
  <2>. QED
    BY <1>5, <2>1, <2>2 DEF Operation, Insert, Erase, Copy, EraseCopied, HandOut
<1>. QED  BY <1>1, <1>2, <1>3, <1>4, <1>5 DEF Next

\* A pointer of a container is NULL, and the assert of the constructor fails or
\* add() faults, only in a process that looked at an unfinished segment.
THEOREM NullOnlyIfEarlyAlways == Spec => []NullOnlyIfEarly
<1>1. Init => PointerInv
  BY DEF Init, ShmInit, PointerInv, PointersOf
<1>2. QueueInv /\ QueueInv' /\ PointerInv /\ [Next]_vars => PointerInv'
  BY PointerInvNext
<1>3. PointerInv => NullOnlyIfEarly
  BY DEF PointerInv, PointersOf, NullOnlyIfEarly
<1>. QED  BY <1>1, <1>2, <1>3, AlwaysQueueInv, PTL DEF Spec
=============================================================================
