--------------------------- MODULE ShmTimerQueue ---------------------------
(***************************************************************************)
(* boostshm::TimerQueue (src/tornado/shm/container.hpp): timers that outlive *)
(* the process, kept in a shared memory segment with the next id, attached   *)
(* to as in module ShmContainer with the two objects Names.                  *)
(*                                                                         *)
(* There is no lock.  As with any container, two processes in it at once are *)
(* a data race, so the callers are taken to let one in at a time; a process  *)
(* may still die inside, between two statements.  A timer is the number of   *)
(* its add() (ghost), its id and its expiration.                             *)
(***************************************************************************)
EXTENDS ShmContainer

CONSTANTS
    IdModulus,  \* 2^32
    Room,       \* timers that fit in the segment
    Asked,      \* the expirations asked for, one for each call of add()
    MaxTime     \* bound: the times getExpirationTimer is called with

ASSUME TimersAssumption ==
    /\ IdModulus \in Nat \ {0, 1}
    /\ Room \in Nat /\ Asked \in Seq(Nat) /\ MaxTime \in Nat
    /\ "IntNextId" \in Objects

VARIABLES
    nextId,    \* *nextId_, for each segment
    timers,    \* *timers_, for each segment
    work,      \* the operation each process is in
    adds,      \* history: calls of add()
    inserted,  \* history: timers that add() has inserted
    handed,    \* history: how often each timer was handed out
    cancelled, \* history: timers erased
    lost       \* history: timers that died in the items of a process

dataVars == <<nextId, timers, work, adds, inserted, handed, cancelled, lost>>
vars == <<shmVars, dataVars>>

Ids == 0..(IdModulus - 1)
MaxAdds == Len(Asked)
Timers == [number : 1..MaxAdds, id : Ids, expiration : Nat]

\* An operation has the timers it is about (the one to add; items) and, of these,
\* those it still has to insert or to erase.
Works ==
    [op : {"none", "add", "expire"}, items : SUBSET Timers, left : SUBSET Timers]

Idle == [op |-> "none", items |-> {}, left |-> {}]

Adding(t) == [op |-> "add", items |-> {t}, left |-> {t}]

Expiring(ts) == [op |-> "expire", items |-> ts, left |-> ts]

\* The timers that a process has taken out of a segment and not handed out.
Held(p) == work[p].items \ work[p].left

Init ==
    /\ ShmInit
    /\ nextId = [s \in Segments |-> 0]
    /\ timers = [s \in Segments |-> {}]
    /\ work = [p \in Procs |-> Idle]
    /\ adds = 0
    /\ inserted = {}
    /\ handed = [t \in 1..MaxAdds |-> 0]
    /\ cancelled = {}
    /\ lost = {}

-----------------------------------------------------------------------------
(* Attaching, where it touches the data.                                   *)

\* "IntNextId" is constructed with 1, "TimerQueue" empty.
ConstructObjects(p) ==
    /\ Construct(p)
    /\ nextId' = IF Names[step[p]] = "IntNextId" THEN [nextId EXCEPT ![at[p]] = 1] ELSE nextId
    /\ UNCHANGED <<timers, work, adds, inserted, handed, cancelled, lost>>

Attach(p) ==
    \/ /\ Begin(p) \/ Open(p) \/ Wait(p) \/ Create(p) \/ Initialize(p) \/ Find(p) \/ Check(p)
       /\ UNCHANGED dataVars
    \/ ConstructObjects(p)

DetachQueue(p) == work[p] = Idle /\ Detach(p) /\ UNCHANGED dataVars

\* What a process has copied and erased dies with it.
CrashQueue(p) ==
    /\ Crash(p)
    /\ work' = [work EXCEPT ![p] = Idle]
    /\ lost' = lost \cup Held(p)
    /\ UNCHANGED <<nextId, timers, adds, inserted, handed, cancelled>>

RemoveQueue == Remove /\ UNCHANGED dataVars

-----------------------------------------------------------------------------
(* The operations.                                                         *)

Busy(s) == \E p \in Procs : at[p] = s /\ work[p] # Idle

Enters(p) == pc[p] = "in" /\ ~Busy(at[p])

InUse(s, id) == \E t \in timers[s] : t.id = id

\* add: an id, 0 skipped.  nextId_ may be NULL: it is looked for and not checked.
TakeId(p) ==
    /\ Enters(p)
    /\ \/ /\ "IntNextId" \notin has[p]
          /\ Goto(p, "null")
          /\ UNCHANGED <<nextId, work, adds>>
       \/ /\ "IntNextId" \in has[p]
          /\ adds < MaxAdds
          /\ adds' = adds + 1
          /\ LET id == IF nextId[at[p]] = 0 THEN 1 ELSE nextId[at[p]] IN
             /\ nextId' = [nextId EXCEPT ![at[p]] = (id + 1) % IdModulus]
             /\ work' = [work EXCEPT ![p] =
                   Adding([number |-> adds + 1, id |-> id, expiration |-> Asked[adds + 1]])]
          /\ UNCHANGED pc
    /\ UNCHANGED <<link, segments, ready, objects, at, step, has, removed, early,
                   timers, inserted, handed, cancelled, lost>>

\* The insert of add: refused without a word when the id is in use, and throws
\* when the segment is full.
Insert(p) ==
    /\ work[p].op = "add"
    /\ \E t \in work[p].items :
          IF Cardinality(timers[at[p]]) < Room /\ ~InUse(at[p], t.id)
          THEN /\ timers' = [timers EXCEPT ![at[p]] = @ \cup {t}]
               /\ inserted' = inserted \cup {t}
          ELSE UNCHANGED <<timers, inserted>>
    /\ work' = [work EXCEPT ![p] = Idle]
    /\ UNCHANGED <<shmVars, nextId, adds, handed, cancelled, lost>>

\* erase(id): whatever add() the timer of that id came from.
Erase(p, id) ==
    /\ Enters(p)
    /\ InUse(at[p], id)
    /\ LET these == {t \in timers[at[p]] : t.id = id} IN
       /\ timers' = [timers EXCEPT ![at[p]] = @ \ these]
       /\ cancelled' = cancelled \cup these
    /\ UNCHANGED <<shmVars, nextId, work, adds, inserted, handed, lost>>

\* getExpirationTimer: what has expired is copied to items...
Copy(p, now) ==
    /\ Enters(p)
    /\ LET expired == {t \in timers[at[p]] : t.expiration <= now} IN
       /\ expired # {}
       /\ work' = [work EXCEPT ![p] = Expiring(expired)]
    /\ UNCHANGED <<shmVars, nextId, timers, adds, inserted, handed, cancelled, lost>>

\* Mutant of EraseCopied: what was copied stays.
EraseCopiedNot(p) ==
    /\ work[p].op = "expire"
    /\ \E t \in work[p].left :
          /\ \A u \in work[p].left : t.expiration <= u.expiration
          /\ work' = [work EXCEPT ![p].left = @ \ {t}]
    /\ UNCHANGED <<shmVars, timers, nextId, adds, inserted, handed, cancelled, lost>>

\* ... then erased, node by node, the first to expire first...
EraseCopied(p) ==
    /\ work[p].op = "expire"
    /\ \E t \in work[p].left :
          /\ \A u \in work[p].left : t.expiration <= u.expiration
          /\ timers' = [timers EXCEPT ![at[p]] = @ \ {t}]
          /\ work' = [work EXCEPT ![p].left = @ \ {t}]
    /\ UNCHANGED <<shmVars, nextId, adds, inserted, handed, cancelled, lost>>

\* ... and handed to the caller.
HandOut(p) ==
    /\ work[p].op = "expire" /\ work[p].left = {}
    /\ handed' = [n \in 1..MaxAdds |->
          IF \E t \in work[p].items : t.number = n THEN handed[n] + 1 ELSE handed[n]]
    /\ work' = [work EXCEPT ![p] = Idle]
    /\ UNCHANGED <<shmVars, nextId, timers, adds, inserted, cancelled, lost>>

Operation(p) ==
    \/ TakeId(p)
    \/ Insert(p)
    \/ \E id \in Ids : Erase(p, id)
    \/ \E now \in 0..MaxTime : Copy(p, now)
    \/ EraseCopied(p)
    \/ HandOut(p)

Next ==
    \/ RemoveQueue
    \/ \E p \in Procs : Attach(p) \/ DetachQueue(p) \/ CrashQueue(p) \/ Operation(p)

Spec == Init /\ [][Next]_vars

(* Fairness: a process that runs goes on with its constructor.              *)

FairSpec ==
    /\ Spec
    /\ \A p \in Procs : WF_vars(pc[p] # "out" /\ Attach(p))

-----------------------------------------------------------------------------
(* Properties.                                                             *)

TypeOK ==
    /\ ShmTypeOK
    /\ nextId \in [Segments -> Ids]
    /\ timers \in [Segments -> SUBSET Timers]
    /\ work \in [Procs -> Works]
    /\ adds \in 0..MaxAdds
    /\ inserted \in SUBSET Timers
    /\ handed \in [1..MaxAdds -> Nat]
    /\ cancelled \in SUBSET Timers
    /\ lost \in SUBSET Timers

\* Where an inserted timer is, with its copies.
Places(t) ==
    {<<"segment", s>> : s \in {x \in Segments : t \in timers[x]}}
      \cup {<<"held", p>> : p \in {q \in Procs : t \in Held(q)}}
      \cup {<<"handed out", n>> : n \in 1..handed[t.number]}
      \cup {<<"erased", 0>> : x \in {t} \cap cancelled}
      \cup {<<"lost", 0>> : x \in {t} \cap lost}

\* A timer that add() has inserted is in exactly one place, through detaching,
\* attaching and dying: in a segment, in the items of one process, handed out,
\* erased, or dead with the process that held it.  So none is handed out twice,
\* by the same process or by the one that takes over after a death between the
\* copy and the last erase, nor after erase() (container.hpp 496-524).
Conserved == \A t \in inserted : \E place \in Places(t) : Places(t) = {place}

\* The segment p waits for has a creator that is at it, or is initialised.
HasCreator(s) == s \in ready \/ \E q \in Procs : pc[q] = "init" /\ at[q] = s

\* A constructor ends, in a container, an exception or an assert, unless the
\* segment was left uninitialised by a creator that died: then it waits for ever.
AttachResolves ==
    \A p \in Procs :
       pc[p] = "open" ~> (pc[p] \in {"out", "in", "assert"} \/ (pc[p] = "wait" /\ ~HasCreator(at[p])))
=============================================================================
