---------------------------- MODULE ShmContainer ----------------------------
(***************************************************************************)
(* How the containers of src/tornado/shm/container.hpp are attached to: each *)
(* constructor opens the named shared memory segment, creates it when that   *)
(* throws, and constructs its objects in it or finds those of the creator.   *)
(* Several processes do this at once, and may die between any two steps.     *)
(*                                                                         *)
(* boost::interprocess is external.  open_only throws when there is no       *)
(* segment of that name and waits while its creator initialises it,          *)
(* create_only throws when there is one, construct and find are atomic,      *)
(* remove takes the name away and leaves the memory to those who map it.     *)
(* All processes give the same size, which is not 0.                         *)
(***************************************************************************)
EXTENDS Integers, Sequences, FiniteSets

CONSTANTS
    Procs,       \* processes
    Names,       \* the objects a container constructs, in this order
    MaxSegments  \* bound: segments created, the last of which is not removed

ASSUME ShmAssumption ==
    /\ MaxSegments \in Nat \ {0}
    /\ Names \in Seq(STRING) /\ Len(Names) >= 1

Segments == 1..MaxSegments
Objects == {Names[i] : i \in 1..Len(Names)}

VARIABLES
    link,      \* the segment that has the name, 0 for none
    segments,  \* segments created
    ready,     \* the initialised ones
    objects,   \* for each segment, the objects constructed in it
    pc,        \* where each process is
    at,        \* the segment each process maps (m_pSegment), 0 for none
    step,      \* the object it constructs or looks for next
    has,       \* its pointers that are not NULL
    removed,   \* history: segments whose name was removed
    early      \* history: processes that looked in a segment that lacked an object

shmVars == <<link, segments, ready, objects, pc, at, step, has, removed,
             early>>

\* "out" before the constructor, after the destructor or an exception, and after
\* a death; "in" when the container can be used.
Pcs == {"out", "open", "wait", "create", "init", "construct", "find", "check", "in",
        "assert", "null"}

ShmInit ==
    /\ link = 0
    /\ segments = 0
    /\ ready = {}
    /\ objects = [s \in Segments |-> {}]
    /\ pc = [p \in Procs |-> "out"]
    /\ at = [p \in Procs |-> 0]
    /\ step = [p \in Procs |-> 1]
    /\ has = [p \in Procs |-> {}]
    /\ removed = {}
    /\ early = {}

Goto(p, where) == pc' = [pc EXCEPT ![p] = where]

-----------------------------------------------------------------------------
(* The constructor.                                                        *)

Begin(p) ==
    /\ pc[p] = "out"
    /\ Goto(p, "open")
    /\ UNCHANGED <<link, segments, ready, objects, at, step, has, removed, early>>

\* new ManagedSharedMemory(open_only): throws, or maps what has the name.
Open(p) ==
    /\ pc[p] = "open"
    /\ \/ /\ link = 0
          /\ Goto(p, "create")
          /\ UNCHANGED at
       \/ /\ link # 0
          /\ Goto(p, "wait")
          /\ at' = [at EXCEPT ![p] = link]
    /\ UNCHANGED <<link, segments, ready, objects, step, has, removed, early>>

Wait(p) ==
    /\ pc[p] = "wait"
    /\ at[p] \in ready
    /\ Goto(p, "find")
    /\ early' = IF objects[at[p]] = Objects THEN early ELSE early \cup {p}
    /\ UNCHANGED <<link, segments, ready, objects, at, step, has, removed>>

\* Mutant of Create: the name is taken over (remove, then create).
CreateReplaces(p) ==
    /\ pc[p] = "create"
    /\ segments < MaxSegments
    /\ link' = segments + 1
    /\ segments' = segments + 1
    /\ at' = [at EXCEPT ![p] = segments + 1]
    /\ Goto(p, "init")
    /\ UNCHANGED <<ready, objects, step, has, removed, early>>

\* Mutant of Create: it waits until the name is free.
CreateWaits(p) ==
    /\ pc[p] = "create" /\ link = 0
    /\ link' = segments + 1
    /\ segments' = segments + 1
    /\ at' = [at EXCEPT ![p] = segments + 1]
    /\ Goto(p, "init")
    /\ UNCHANGED <<ready, objects, step, has, removed, early>>

\* In the catch block, create_only: throws when another process was faster, and
\* the constructor with it.
Create(p) ==
    /\ pc[p] = "create"
    /\ \/ /\ link = 0
          /\ link' = segments + 1
          /\ segments' = segments + 1
          /\ at' = [at EXCEPT ![p] = segments + 1]
          /\ Goto(p, "init")
       \/ /\ link # 0
          /\ Goto(p, "out")
          /\ UNCHANGED <<link, segments, at>>
    /\ UNCHANGED <<ready, objects, step, has, removed, early>>

Initialize(p) ==
    /\ pc[p] = "init"
    /\ ready' = ready \cup {at[p]}
    /\ Goto(p, "construct")
    /\ UNCHANGED <<link, segments, objects, at, step, has, removed, early>>

\* The next object, or the asserts.
Advance(p, where) ==
    /\ step' = [step EXCEPT ![p] = IF @ = Len(Names) THEN 1 ELSE @ + 1]
    /\ Goto(p, IF step[p] = Len(Names) THEN "check" ELSE where)

Construct(p) ==
    /\ pc[p] = "construct"
    /\ objects' = [objects EXCEPT ![at[p]] = @ \cup {Names[step[p]]}]
    /\ has' = [has EXCEPT ![p] = @ \cup {Names[step[p]]}]
    /\ Advance(p, "construct")
    /\ UNCHANGED <<link, segments, ready, at, removed, early>>

\* Mutant of Find: the same object for every pointer.
FindFirst(p) ==
    /\ pc[p] = "find"
    /\ has' = [has EXCEPT ![p] = @ \cup ({Names[1]} \cap objects[at[p]])]
    /\ Advance(p, "find")
    /\ UNCHANGED <<link, segments, ready, objects, at, removed, early>>

\* find(...).first is NULL when the creator has not got there.
Find(p) ==
    /\ pc[p] = "find"
    /\ has' = [has EXCEPT ![p] = @ \cup ({Names[step[p]]} \cap objects[at[p]])]
    /\ Advance(p, "find")
    /\ UNCHANGED <<link, segments, ready, objects, at, removed, early>>

\* The assert is about the first object only.
Check(p) ==
    /\ pc[p] = "check"
    /\ Goto(p, IF Names[1] \in has[p] THEN "in" ELSE "assert")
    /\ UNCHANGED <<link, segments, ready, objects, at, step, has, removed, early>>

-----------------------------------------------------------------------------
(* The end of a process, and of the objects.                               *)

Leaves(p) ==
    /\ Goto(p, "out")
    /\ at' = [at EXCEPT ![p] = 0]
    /\ step' = [step EXCEPT ![p] = 1]
    /\ has' = [has EXCEPT ![p] = {}]
    /\ early' = early \ {p}
    /\ UNCHANGED <<link, segments, ready, objects, removed>>

\* The destructor deletes the mapping and leaves the objects.
Detach(p) == pc[p] = "in" /\ Leaves(p)

\* The process dies, of itself or of an assert, and another one takes its place.
Crash(p) == pc[p] # "out" /\ Leaves(p)

\* ShmRemove, its constructor and its destructor; the last segment keeps its name.
Remove ==
    /\ link # 0 /\ segments < MaxSegments
    /\ link' = 0
    /\ removed' = removed \cup {link}
    /\ UNCHANGED <<segments, ready, objects, pc, at, step, has, early>>

AttachStep(p) ==
    Open(p) \/ Wait(p) \/ Create(p) \/ Initialize(p) \/ Construct(p) \/ Find(p) \/ Check(p)

-----------------------------------------------------------------------------
(* Properties.                                                             *)

ShmTypeOK ==
    /\ link \in 0..MaxSegments
    /\ segments \in 0..MaxSegments
    /\ ready \in SUBSET Segments
    /\ objects \in [Segments -> SUBSET Objects]
    /\ pc \in [Procs -> Pcs]
    /\ at \in [Procs -> 0..MaxSegments]
    /\ step \in [Procs -> 1..Len(Names)]
    /\ has \in [Procs -> SUBSET Objects]
    /\ removed \in SUBSET Segments
    /\ early \in SUBSET Procs

\* Processes that use the container of one name use the same one, whoever of
\* them was first and whatever died on the way, unless ShmRemove took the name
\* from one of the segments: two that find no segment cannot both create one.
OneContainer ==
    \A p, q \in Procs :
       pc[p] = "in" /\ pc[q] = "in" /\ at[p] # at[q] => {at[p], at[q]} \cap removed # {}

\* A pointer is NULL, and the assert of the constructor fails (container.hpp
\* 482) or, since it forgets nextId_, add() faults (498), only in a process that
\* looked while the creator was between create and its last construct, or had
\* died there.
NullOnlyIfEarly ==
    \A p \in Procs :
       pc[p] \in {"assert", "null"} \/ (pc[p] = "in" /\ has[p] # Objects) => p \in early
=============================================================================
