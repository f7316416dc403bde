------------------------- MODULE TimeoutQueueProofs -------------------------
(***************************************************************************)
(* TimeoutQueue keeps its type, gives every timer one fate, keeps the ids   *)
(* of pending timers apart and fires by the rules of TimeoutQueue.h, for    *)
(* every modulus of the ids, every set of times and delays and any number   *)
(* of timers.  The properties are not inductive: Bookkeeping adds what a    *)
(* run relies on between its steps.                                        *)
(***************************************************************************)
EXTENDS TimeoutQueue, TLAPS

\* Stamps come from add(), a queue at rest holds nothing of a run, and what a
\* run still has to call is due and, in runOnce, neither new nor out of order.
Bookkeeping ==
    /\ \A e \in Everything : e.stamp \in 1..adds
    /\ during \subseteq 1..adds
    /\ run.mode = "idle" => batch = {} /\ called = << >> /\ during = {}
    /\ \A e \in batch : e.expiration <= run.now
    /\ run.mode = "once" =>
         \A e \in batch : e.stamp \notin during /\ \A i \in DOMAIN called : Before(called[i], e)
    /\ run.mode # "idle" => \A e \in Due(run.now) : e.stamp \in during

\* Until the counter wraps an id is the number of the add() call.
IdsAreStamps ==
    adds < IdModulus =>
      /\ nextId = IF adds + 1 = IdModulus THEN 0 ELSE adds + 1
      /\ \A e \in timeouts : e.id = e.stamp
      /\ dropped = {}

IInv == TypeOK /\ OneFate /\ UniqueIds /\ FiringDiscipline /\ Bookkeeping

-----------------------------------------------------------------------------
(* Facts about the operators.                                              *)

\* IdOf never gives 0, and the next counter is in range.
LEMMA IdType ==
  ASSUME nextId \in 0..(IdModulus - 1)
  PROVE  /\ IdOf(nextId) \in Nat \ {0}
         /\ After(IdOf(nextId)) \in 0..(IdModulus - 1)
BY TimeoutQueueAssumption DEF IdOf, After

\* A callback that is called joins the events called, once.
LEMMA CalledGrows ==
  ASSUME called \in Seq(Event), NEW e \in Event, called' = Append(called, e)
  PROVE  /\ CalledEvents' = CalledEvents \cup {e}
         /\ called' \in Seq(Event)
         /\ DOMAIN called' = 1..(Len(called) + 1)
         /\ DOMAIN called = 1..Len(called)
         /\ \A i \in DOMAIN called : called'[i] = called[i]
         /\ called'[Len(called) + 1] = e
<1>1. /\ called' \in Seq(Event)
      /\ DOMAIN called' = 1..(Len(called) + 1)
      /\ DOMAIN called = 1..Len(called)
      /\ \A i \in DOMAIN called : called'[i] = called[i]
      /\ called'[Len(called) + 1] = e
      /\ Len(called) \in Nat
  OBVIOUS
<1>2. CalledEvents' = CalledEvents \cup {e}
  BY <1>1 DEF CalledEvents
<1>. QED  BY <1>1, <1>2

\* A sequence that stays has the same events.
LEMMA CalledStays ==
  ASSUME called' = called
  PROVE  CalledEvents' = CalledEvents
BY DEF CalledEvents

\* What is called is an event.
LEMMA CalledType ==
  ASSUME called \in Seq(Event)
  PROVE  CalledEvents \subseteq Event
BY DEF CalledEvents

-----------------------------------------------------------------------------

LEMMA InitIInv == Init => IInv
<1>. SUFFICES ASSUME Init PROVE IInv
  OBVIOUS
<1>1. CalledEvents = {}
  BY DEF Init, CalledEvents
<1>2. TypeOK
  BY TimeoutQueueAssumption DEF Init, TypeOK, Idle
<1>3. OneFate /\ Bookkeeping
  BY <1>1 DEF Init, OneFate, Bookkeeping, Everything, Idle
<1>4. UniqueIds /\ FiringDiscipline
  BY DEF Init, UniqueIds, FiringDiscipline, Idle
<1>. QED  BY <1>2, <1>3, <1>4 DEF IInv

LEMMA AddIInv ==
  ASSUME IInv, NEW now \in Int, NEW delay \in Int, Add(now, delay)
  PROVE  IInv'
<1>. DEFINE e == [id |-> IdOf(nextId), expiration |-> now + delay, stamp |-> adds + 1]
<1>1. /\ TypeOK /\ OneFate /\ UniqueIds /\ FiringDiscipline /\ Bookkeeping
  BY DEF IInv
<1>2. /\ e \in Event /\ e.id # 0 /\ e.stamp = adds + 1 /\ e.id = IdOf(nextId)
      /\ After(e.id) \in 0..(IdModulus - 1)
  BY <1>1, IdType DEF TypeOK, Event
<1>3. /\ adds' = adds + 1 /\ adds \in Nat
      /\ nextId' = After(e.id)
      /\ during' = IF run.mode = "idle" THEN {} ELSE during \cup {adds + 1}
      /\ UNCHANGED <<run, batch, called, done, erased>>
      /\ \/ ~IdInUse(e.id) /\ timeouts' = timeouts \cup {e} /\ dropped' = dropped
         \/ IdInUse(e.id) /\ dropped' = dropped \cup {e} /\ timeouts' = timeouts
  BY <1>1 DEF Add, TypeOK
<1>4. CalledEvents' = CalledEvents /\ CalledEvents \subseteq Event
  BY <1>1, <1>3, CalledStays, CalledType DEF TypeOK
<1>. HIDE DEF e
<1>5. Everything' = Everything \cup {e}
  BY <1>3, <1>4 DEF Everything
<1>6. \A f \in Everything : f.stamp \in 1..adds
  BY <1>1 DEF Bookkeeping
<1>7. e \notin Everything
  BY <1>2, <1>3, <1>6
<1>8. TypeOK'
  <2>1. timeouts' \subseteq Event /\ dropped' \subseteq Event
    BY <1>1, <1>2, <1>3 DEF TypeOK
  <2>2. adds' \in Nat /\ during' \subseteq Nat /\ nextId' \in 0..(IdModulus - 1)
    <3>1. adds' \in Nat /\ nextId' \in 0..(IdModulus - 1)
      BY <1>2, <1>3
    <3>2. during \subseteq Nat /\ during' \subseteq during \cup {adds + 1} /\ adds + 1 \in Nat
      BY <1>1, <1>3 DEF TypeOK
    <3>. QED  BY <3>1, <3>2
  <2>3. run' = run /\ batch' = batch /\ called' = called /\ done' = done /\ erased' = erased
    BY <1>3
  <2>. QED  BY <1>1, <2>1, <2>2, <2>3 DEF TypeOK
<1>9. OneFate'
  <2>1. \A n \in 1..adds' : \E f \in Everything' : f.stamp = n
    <3>1. \A n \in 1..adds : \E f \in Everything : f.stamp = n
      BY <1>1 DEF OneFate
    <3>. QED  BY <3>1, <1>2, <1>3, <1>5
  <2>2. \A f, g \in Everything' : f.stamp = g.stamp => f = g
    <3>1. \A f, g \in Everything : f.stamp = g.stamp => f = g
      BY <1>1 DEF OneFate
    <3>. QED  BY <3>1, <1>2, <1>3, <1>5, <1>6
  <2>. QED  BY <2>1, <2>2, <1>1, <1>3, <1>4, <1>7 DEF OneFate, Everything
<1>10. UniqueIds'
  BY <1>1, <1>2, <1>3 DEF UniqueIds, IdInUse
<1>11. FiringDiscipline'
  <2>1. \A i \in DOMAIN called : called[i].stamp # adds + 1
    BY <1>3, <1>6 DEF Everything, CalledEvents
  <2>2. ASSUME NEW i, NEW j PROVE Before(called[i], called[j])' = Before(called[i], called[j])
    BY <1>3 DEF Before
  <2>. QED  BY <2>1, <2>2, <1>1, <1>3 DEF FiringDiscipline
<1>12. Bookkeeping'
  <2>1. \A f \in batch : f.stamp # adds + 1
    BY <1>3, <1>6 DEF Everything
  <2>2. \A f \in Everything' : f.stamp \in 1..adds'
    BY <1>2, <1>3, <1>5, <1>6
  <2>3. during' \subseteq 1..adds'
    <3>1. during \subseteq 1..adds
      BY <1>1 DEF Bookkeeping
    <3>2. during' \subseteq during \cup {adds + 1} /\ adds' = adds + 1 /\ adds \in Nat
      BY <1>3
    <3>3. adds + 1 \in 1..(adds + 1) /\ 1..adds \subseteq 1..(adds + 1)
      BY <3>2
    <3>. QED  BY <3>1, <3>2, <3>3
  <2>4. ASSUME NEW i, NEW f PROVE Before(called[i], f)' = Before(called[i], f)
    BY <1>3 DEF Before
  <2>5. ASSUME run.mode # "idle", NEW f \in timeouts', f.expiration <= run.now
        PROVE  f.stamp \in during'
    <3>1. during' = during \cup {adds + 1}
      BY <1>3, <2>5
    <3>2. CASE f \in timeouts
      BY <1>1, <2>5, <3>1, <3>2 DEF Bookkeeping, Due
    <3>3. CASE f = e
      BY <1>2, <3>1, <3>3
    <3>. QED  BY <1>3, <2>5, <3>2, <3>3
  <2>6. run'.mode # "idle" => \A f \in Due(run.now)' : f.stamp \in during'
    BY <2>5, <1>3 DEF Due
  <2>. QED  BY <2>1, <2>2, <2>3, <2>4, <2>6, <1>1, <1>3 DEF Bookkeeping
<1>. QED  BY <1>8, <1>9, <1>10, <1>11, <1>12 DEF IInv
-----------------------------------------------------------------------------
LEMMA EraseIInv ==
  ASSUME IInv, NEW id \in Nat, Erase(id)
  PROVE  IInv'
<1>1. /\ TypeOK /\ OneFate /\ UniqueIds /\ FiringDiscipline /\ Bookkeeping
  BY DEF IInv
<1>2. PICK e \in timeouts : timeouts' = timeouts \ {e} /\ erased' = erased \cup {e}
  BY DEF Erase
<1>3. UNCHANGED <<nextId, run, batch, adds, called, during, done, dropped>>
  BY DEF Erase
<1>4. CalledEvents' = CalledEvents /\ e \in Event
  BY <1>1, <1>2, <1>3, CalledStays DEF TypeOK
<1>5. Everything' = Everything
  BY <1>2, <1>3, <1>4 DEF Everything
<1>6. TypeOK'
  BY <1>1, <1>2, <1>3, <1>4 DEF TypeOK
<1>7. OneFate'
  <2>1. /\ \A n \in 1..adds' : \E f \in Everything' : f.stamp = n
        /\ \A f, g \in Everything' : f.stamp = g.stamp => f = g
    BY <1>1, <1>3, <1>5 DEF OneFate
  <2>2. \A i, j \in DOMAIN called' : called'[i] = called'[j] => i = j
    BY <1>1, <1>3 DEF OneFate
  <2>. QED  BY <2>1, <2>2, <1>1, <1>2, <1>3, <1>4 DEF OneFate
<1>8. UniqueIds'
  BY <1>1, <1>2 DEF UniqueIds
<1>9. ASSUME NEW f, NEW g PROVE Before(f, g)' = Before(f, g)
  BY DEF Before
<1>10. FiringDiscipline'
  BY <1>1, <1>3, <1>9 DEF FiringDiscipline
<1>11. Bookkeeping'
  <2>1. \A f \in Everything' : f.stamp \in 1..adds'
    BY <1>1, <1>3, <1>5 DEF Bookkeeping
  <2>2. \A n \in Int : Due(n)' \subseteq Due(n)
    BY <1>2 DEF Due
  <2>3. run'.mode # "idle" => \A f \in Due(run.now)' : f.stamp \in during'
    BY <2>2, <1>1, <1>3 DEF Bookkeeping, TypeOK
  <2>. QED  BY <2>1, <2>3, <1>1, <1>3, <1>9 DEF Bookkeeping
<1>. QED  BY <1>6, <1>7, <1>8, <1>10, <1>11 DEF IInv

\* A pass moves the due events to the batch and touches no other.
LEMMA TakeDueIInv ==
  ASSUME IInv, NEW now \in Int,
         batch = {}, batch' = Due(now), timeouts' = timeouts \ Due(now),
         UNCHANGED <<nextId, history>>,
         run' \in [mode : {"idle", "once", "loop"}, now : Int, calling : BOOLEAN],
         run'.mode # "idle", run'.now = now,
         run.mode # "idle" => run.now = now,
         run'.mode = "once" => called = << >> /\ during = {}
  PROVE  IInv'
<1>1. /\ TypeOK /\ OneFate /\ UniqueIds /\ FiringDiscipline /\ Bookkeeping
  BY DEF IInv
<1>2. Due(now) \subseteq timeouts /\ \A e \in Due(now) : e.expiration <= now
  BY DEF Due
<1>3. UNCHANGED <<adds, called, during, done, erased, dropped, nextId>>
  BY DEF history
<1>4. CalledEvents' = CalledEvents
  BY <1>3, CalledStays
<1>5. Everything' = Everything
  BY <1>2, <1>3, <1>4 DEF Everything
<1>6. TypeOK'
  BY <1>1, <1>2, <1>3 DEF TypeOK
<1>7. OneFate'
  <2>1. /\ \A n \in 1..adds' : \E f \in Everything' : f.stamp = n
        /\ \A f, g \in Everything' : f.stamp = g.stamp => f = g
    BY <1>1, <1>3, <1>5 DEF OneFate
  <2>2. \A i, j \in DOMAIN called' : called'[i] = called'[j] => i = j
    BY <1>1, <1>3 DEF OneFate
  <2>. QED  BY <2>1, <2>2, <1>1, <1>2, <1>3, <1>4 DEF OneFate
<1>8. UniqueIds'
  BY <1>1 DEF UniqueIds
<1>9. FiringDiscipline'
  <2>1. \A i \in DOMAIN called : called[i].expiration <= now
    BY <1>1 DEF FiringDiscipline, Bookkeeping
  <2>. QED  BY <2>1, <1>3 DEF FiringDiscipline
<1>10. Bookkeeping'
  <2>1. (\A f \in Everything' : f.stamp \in 1..adds') /\ during' \subseteq 1..adds'
    BY <1>1, <1>3, <1>5 DEF Bookkeeping
  <2>2. \A f \in Due(run.now)' : f.stamp \in during'
    BY DEF Due
  <2>3. \A f \in batch' : f.expiration <= run'.now
    BY <1>2
  <2>4. run'.mode = "once" => called' = << >> /\ during' = {}
    BY <1>3
  <2>5. run'.mode = "once" => \A f \in batch' :
            f.stamp \notin during' /\ \A i \in DOMAIN called' : Before(called[i], f)'
    BY <2>4
  <2>. QED  BY <2>1, <2>2, <2>3, <2>5 DEF Bookkeeping
<1>. QED  BY <1>6, <1>7, <1>8, <1>9, <1>10 DEF IInv

LEMMA StartRunIInv ==
  ASSUME IInv, NEW mode \in {"once", "loop"}, NEW now \in Int, StartRun(mode, now)
  PROVE  IInv'
<1>1. batch = {} /\ called = << >> /\ during = {}
  BY DEF IInv, Bookkeeping, StartRun
<1>. QED  BY <1>1, TakeDueIInv DEF StartRun

LEMMA NextPassIInv ==
  ASSUME IInv, NextPass
  PROVE  IInv'
<1>1. run.mode = "loop" /\ run.now \in Int
  BY DEF NextPass, Again, IInv, TypeOK
<1>2. /\ run' \in [mode : {"idle", "once", "loop"}, now : Int, calling : BOOLEAN]
      /\ run'.mode = "loop" /\ run'.now = run.now
  BY <1>1 DEF NextPass, IInv, TypeOK
<1>. QED  BY <1>1, <1>2, TakeDueIInv DEF NextPass

LEMMA FireIInv ==
  ASSUME IInv, Fire
  PROVE  IInv'
<1>1. /\ TypeOK /\ OneFate /\ UniqueIds /\ FiringDiscipline /\ Bookkeeping
  BY DEF IInv
<1>2. PICK e \in batch : /\ \A f \in batch \ {e} : Before(e, f)
                         /\ batch' = batch \ {e}
                         /\ called' = Append(called, e)
  BY DEF Fire
<1>3. /\ UNCHANGED <<timeouts, nextId, adds, during, done, erased, dropped>>
      /\ run.mode # "idle"
  BY DEF Fire
<1>4. /\ run' \in [mode : {"idle", "once", "loop"}, now : Int, calling : BOOLEAN]
      /\ run'.mode = run.mode /\ run'.now = run.now
  BY <1>1 DEF Fire, TypeOK
<1>5. e \in Event /\ called \in Seq(Event)
  BY <1>1, <1>2 DEF TypeOK
<1>6. /\ CalledEvents' = CalledEvents \cup {e}
      /\ called' \in Seq(Event)
      /\ DOMAIN called' = 1..(Len(called) + 1)
      /\ DOMAIN called = 1..Len(called)
      /\ \A i \in DOMAIN called : called'[i] = called[i]
      /\ called'[Len(called) + 1] = e
      /\ Len(called) \in Nat
  BY <1>2, <1>5, CalledGrows
<1>7. Everything' = Everything
  BY <1>2, <1>3, <1>6 DEF Everything
<1>8. TypeOK'
  BY <1>1, <1>2, <1>3, <1>4, <1>6 DEF TypeOK
<1>9. OneFate'
  <2>1. /\ \A n \in 1..adds' : \E f \in Everything' : f.stamp = n
        /\ \A f, g \in Everything' : f.stamp = g.stamp => f = g
    BY <1>1, <1>3, <1>7 DEF OneFate
  <2>2. \A i, j \in DOMAIN called' : called'[i] = called'[j] => i = j
    <3>1. \A i \in DOMAIN called : called[i] # e
      BY <1>1, <1>2 DEF OneFate, CalledEvents
    <3>2. \A i, j \in DOMAIN called : called[i] = called[j] => i = j
      BY <1>1 DEF OneFate
    <3>3. \A i \in DOMAIN called' : i \in DOMAIN called \/ i = Len(called) + 1
      BY <1>6
    <3>. QED  BY <3>1, <3>2, <3>3, <1>6
  <2>. QED  BY <2>1, <2>2, <1>1, <1>2, <1>3, <1>6 DEF OneFate
<1>10. UniqueIds'
  BY <1>1, <1>3 DEF UniqueIds
<1>11. ASSUME NEW f, NEW g PROVE Before(f, g)' = Before(f, g)
  BY DEF Before
<1>12. \A i \in DOMAIN called' : (i \in DOMAIN called /\ called'[i] = called[i])
                                 \/ (i = Len(called) + 1 /\ called'[i] = e)
  BY <1>6
<1>13. FiringDiscipline'
  <2>1. \A i \in DOMAIN called' : called'[i].expiration <= run'.now
    BY <1>1, <1>2, <1>4, <1>12 DEF FiringDiscipline, Bookkeeping
  <2>2. ASSUME run.mode = "once"
        PROVE  \A i \in DOMAIN called' : called'[i].stamp \notin during'
    BY <2>2, <1>1, <1>2, <1>3, <1>12 DEF FiringDiscipline, Bookkeeping
  <2>3. ASSUME run.mode = "once", NEW i \in DOMAIN called', NEW j \in DOMAIN called', i < j
        PROVE  Before(called'[i], called'[j])
    <3>1. i \in DOMAIN called
      BY <2>3, <1>6
    <3>2. CASE j \in DOMAIN called
      BY <2>3, <3>1, <3>2, <1>1, <1>6 DEF FiringDiscipline
    <3>3. CASE j = Len(called) + 1
      BY <2>3, <3>1, <3>3, <1>1, <1>2, <1>6 DEF Bookkeeping
    <3>. QED  BY <3>2, <3>3, <1>12
  <2>. QED  BY <2>1, <2>2, <2>3, <1>4, <1>11 DEF FiringDiscipline
<1>14. Bookkeeping'
  <2>1. ASSUME run.mode = "once", NEW f \in batch'
        PROVE  f.stamp \notin during' /\ \A i \in DOMAIN called' : Before(called'[i], f)
    BY <2>1, <1>1, <1>2, <1>3, <1>12 DEF Bookkeeping
  <2>2. (\A f \in Everything' : f.stamp \in 1..adds') /\ during' \subseteq 1..adds'
    BY <1>1, <1>3, <1>7 DEF Bookkeeping
  <2>3. Due(run.now)' = Due(run.now)
    BY <1>3, <1>4 DEF Due
  <2>4. \A f \in Due(run.now)' : f.stamp \in during'
    BY <2>3, <1>1, <1>3 DEF Bookkeeping
  <2>5. \A f \in batch' : f.expiration <= run'.now
    BY <1>1, <1>2, <1>4 DEF Bookkeeping
  <2>. QED  BY <2>1, <2>2, <2>4, <2>5, <1>3, <1>4, <1>11 DEF Bookkeeping
<1>. QED  BY <1>8, <1>9, <1>10, <1>13, <1>14 DEF IInv

LEMMA EndRunIInv ==
  ASSUME IInv, EndRun
  PROVE  IInv'
<1>1. /\ TypeOK /\ OneFate /\ UniqueIds /\ FiringDiscipline /\ Bookkeeping
  BY DEF IInv
<1>2. /\ run' = Idle /\ batch = {} /\ batch' = {}
      /\ done' = done \cup CalledEvents
      /\ called' = << >> /\ during' = {}
      /\ UNCHANGED <<timeouts, nextId, adds, erased, dropped>>
  BY DEF EndRun
<1>3. CalledEvents' = {} /\ CalledEvents \subseteq Event
  BY <1>1, <1>2, CalledType DEF CalledEvents, TypeOK
<1>4. Everything' = Everything
  BY <1>2, <1>3 DEF Everything
<1>5. TypeOK'
  BY <1>1, <1>2, <1>3 DEF TypeOK, Idle
<1>6. OneFate'
  <2>1. /\ \A n \in 1..adds' : \E f \in Everything' : f.stamp = n
        /\ \A f, g \in Everything' : f.stamp = g.stamp => f = g
    BY <1>1, <1>2, <1>4 DEF OneFate
  <2>2. \A i, j \in DOMAIN called' : called'[i] = called'[j] => i = j
    BY <1>2
  <2>. QED  BY <2>1, <2>2, <1>1, <1>2, <1>3 DEF OneFate
<1>7. UniqueIds'
  BY <1>1, <1>2 DEF UniqueIds
<1>8. FiringDiscipline'
  BY <1>2 DEF FiringDiscipline, Idle
<1>9. Bookkeeping'
  BY <1>1, <1>2, <1>4 DEF Bookkeeping, Idle
<1>. QED  BY <1>5, <1>6, <1>7, <1>8, <1>9 DEF IInv

\* A step that changes nothing.
LEMMA StutterIInv ==
  ASSUME IInv, UNCHANGED vars
  PROVE  IInv'
<1>1. /\ timeouts' = timeouts /\ nextId' = nextId /\ run' = run /\ batch' = batch
      /\ adds' = adds /\ called' = called /\ during' = during /\ done' = done
      /\ erased' = erased /\ dropped' = dropped
  BY DEF vars, history
<1>2. CalledEvents' = CalledEvents
  BY <1>1, CalledStays
<1>3. Everything' = Everything
  BY <1>1, <1>2 DEF Everything
<1>4. TypeOK' = TypeOK
  BY <1>1 DEF TypeOK
<1>5. OneFate' = OneFate
  BY <1>1, <1>2, <1>3 DEF OneFate
<1>6. UniqueIds' = UniqueIds
  BY <1>1 DEF UniqueIds
<1>7. FiringDiscipline' = FiringDiscipline
  BY <1>1 DEF FiringDiscipline, Before
<1>8. Bookkeeping' = Bookkeeping
  BY <1>1, <1>3 DEF Bookkeeping, Before, Due
<1>. QED  BY <1>4, <1>5, <1>6, <1>7, <1>8 DEF IInv

\* IInv is inductive: one step per operation of the queue.
THEOREM Invariance == Spec => []IInv
<1>1. Init => IInv
  BY InitIInv
<1>2. ASSUME IInv, [Next]_vars
      PROVE  IInv'
  <2>1. ASSUME NEW now \in Times, NEW delay \in Delays, Add(now, delay)
        PROVE  IInv'
    BY <1>2, <2>1, AddIInv, TimeoutQueueAssumption
  <2>2. ASSUME NEW id \in 1..(IdModulus - 1), Erase(id)
        PROVE  IInv'
    BY <1>2, <2>2, EraseIInv
  <2>3. ASSUME NEW mode \in {"once", "loop"}, NEW now \in Times, StartRun(mode, now)
        PROVE  IInv'
    BY <1>2, <2>3, StartRunIInv, TimeoutQueueAssumption
  <2>4. CASE Fire
    BY <1>2, <2>4, FireIInv
  <2>5. CASE NextPass
    BY <1>2, <2>5, NextPassIInv
  <2>6. CASE EndRun
    BY <1>2, <2>6, EndRunIInv
  <2>7. CASE UNCHANGED vars
    BY <1>2, <2>7, StutterIInv
  <2>. QED  BY <1>2, <2>1, <2>2, <2>3, <2>4, <2>5, <2>6, <2>7 DEF Next
<1>. QED  BY <1>1, <1>2, PTL DEF Spec

\* The queue keeps its type: the id counter stays within 64 bits, and what it
\* holds are events.
THEOREM TypeCorrect == Spec => []TypeOK
<1>1. IInv => TypeOK
  BY DEF IInv
<1>. QED  BY <1>1, Invariance, PTL

\* Every timer has exactly one fate, whatever the interleaving of add, erase and
\* the runs, and however often the ids wrap.
THEOREM FateIsOne == Spec => []OneFate
<1>1. IInv => OneFate
  BY DEF IInv
<1>. QED  BY <1>1, Invariance, PTL

\* The ids of pending timers are distinct and never 0.
THEOREM IdsAreUnique == Spec => []UniqueIds
<1>1. IInv => UniqueIds
  BY DEF IInv
<1>. QED  BY <1>1, Invariance, PTL

\* Timers fire when they are due and not before, and runOnce calls each of those
\* that were due once, in order, and none that was added meanwhile.
THEOREM FiringIsDisciplined == Spec => []FiringDiscipline
<1>1. IInv => FiringDiscipline
  BY DEF IInv
<1>. QED  BY <1>1, Invariance, PTL
-----------------------------------------------------------------------------
\* A run ends with nothing due but what was added during it, and runLoop with
\* nothing due at all.
THEOREM RunsEndDrained == Spec => RunsDrain
<1>1. ASSUME IInv, [Next]_vars, run.mode # "idle", run'.mode = "idle"
      PROVE  /\ run.mode = "loop" => Due(run.now) = {}
             /\ \A e \in Due(run.now) : e.stamp \in during
  <2>1. EndRun
    <3>1. CASE UNCHANGED vars
      BY <1>1, <3>1 DEF vars
    <3>2. CASE Fire
      BY <1>1, <3>2 DEF Fire, IInv, TypeOK
    <3>3. CASE NextPass
      BY <1>1, <3>3 DEF NextPass, IInv, TypeOK
    <3>4. CASE \/ \E now \in Times, delay \in Delays : Add(now, delay)
               \/ \E id \in 1..(IdModulus - 1) : Erase(id)
      BY <1>1, <3>4 DEF Add, Erase
    <3>5. CASE \E mode \in {"once", "loop"}, now \in Times : StartRun(mode, now)
      BY <1>1, <3>5 DEF StartRun
    <3>. QED  BY <1>1, <3>1, <3>2, <3>3, <3>4, <3>5 DEF Next
  <2>. QED  BY <1>1, <2>1 DEF EndRun, Again, IInv, Bookkeeping
<1>. QED  BY <1>1, Invariance, PTL DEF Spec, RunsDrain

LEMMA IdsInductive ==
  ASSUME IInv, IdsAreStamps, [Next]_vars
  PROVE  IdsAreStamps'
<1>. SUFFICES ASSUME adds' < IdModulus
              PROVE  /\ nextId' = IF adds' + 1 = IdModulus THEN 0 ELSE adds' + 1
                     /\ \A e \in timeouts' : e.id = e.stamp
                     /\ dropped' = {}
  BY DEF IdsAreStamps
<1>1. /\ adds \in Nat /\ IdModulus \in Nat /\ IdModulus >= 2
      /\ \A e \in timeouts : e.stamp \in 1..adds
  BY TimeoutQueueAssumption DEF IInv, TypeOK, Bookkeeping, Everything
<1>2. ASSUME NEW now \in Times, NEW delay \in Delays, Add(now, delay)
      PROVE  /\ nextId' = IF adds' + 1 = IdModulus THEN 0 ELSE adds' + 1
             /\ \A e \in timeouts' : e.id = e.stamp
             /\ dropped' = {}
  <2>1. adds' = adds + 1
    BY <1>2 DEF Add
  <2>2. nextId = adds + 1 /\ IdOf(nextId) = adds + 1
        /\ (\A e \in timeouts : e.id = e.stamp) /\ dropped = {}
    <3>1. adds < IdModulus /\ adds + 1 # IdModulus
      BY <2>1, <1>1
    <3>2. nextId = adds + 1 /\ (\A e \in timeouts : e.id = e.stamp) /\ dropped = {}
      BY <3>1 DEF IdsAreStamps
    <3>. QED  BY <3>2, <1>1 DEF IdOf
  <2>3. ~IdInUse(IdOf(nextId))
    BY <2>2, <1>1 DEF IdInUse
  <2>4. nextId' = (adds + 2) % IdModulus
    BY <1>1, <1>2, <2>2 DEF Add, After
  <2>5. (adds + 2) % IdModulus = IF adds + 2 = IdModulus THEN 0 ELSE adds + 2
    BY <1>1, <2>1
  <2>6. /\ timeouts' = timeouts \cup {[id |-> adds + 1, expiration |-> now + delay,
                                       stamp |-> adds + 1]}
        /\ dropped' = dropped
    BY <1>2, <2>2, <2>3 DEF Add
  <2>. QED  BY <1>1, <2>1, <2>2, <2>4, <2>5, <2>6
<1>3. ASSUME ~\E now \in Times, delay \in Delays : Add(now, delay)
      PROVE  /\ UNCHANGED <<nextId, adds, dropped>>
             /\ timeouts' \subseteq timeouts
  <2>1. CASE UNCHANGED vars
    BY <2>1 DEF vars, history
  <2>2. CASE Next
    BY <1>3, <2>2 DEF Next, Erase, StartRun, Fire, NextPass, EndRun, history
  <2>. QED  BY <2>1, <2>2
<1>. QED  BY <1>2, <1>3 DEF IdsAreStamps

\* No timer is refused before all the ids have been used once.
THEOREM RefusalNeedsWrap == Spec => []RefusedOnlyAfterWrap
<1>1. Init => IdsAreStamps
  BY TimeoutQueueAssumption DEF Init, IdsAreStamps
<1>2. IInv /\ IdsAreStamps /\ [Next]_vars => IdsAreStamps'
  BY IdsInductive
<1>3. IInv /\ IdsAreStamps => RefusedOnlyAfterWrap
  BY TimeoutQueueAssumption DEF IdsAreStamps, RefusedOnlyAfterWrap, IInv, TypeOK
<1>. QED  BY <1>1, <1>2, <1>3, Invariance, PTL DEF Spec
=============================================================================
