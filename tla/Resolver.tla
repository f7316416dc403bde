------------------------------ MODULE Resolver ------------------------------
(***************************************************************************)
(* tornado::Resolver (src/tornado/Resolver.h, Resolver.cpp): host names     *)
(* looked up by c-ares, driven by the IOLoop.                               *)
(*                                                                         *)
(* A Resolver has one cb_, one timer_ and one state_; c-ares may have       *)
(* several queries under way and several sockets open.  c-ares runs only    *)
(* inside gethostbyname, process_fd, on_timer and the destructor, and calls *)
(* back from there: `stack` holds these calls, the innermost first.  c-ares *)
(* is external: it may open and close sockets and end queries in any order  *)
(* its library allows.  So is the IOLoop: its timers (module TimeoutQueue), *)
(* its table of handlers and epoll's interest.  Time is abstracted to the   *)
(* choice of which timers fall due together.                                *)
(***************************************************************************)
EXTENDS Integers, Sequences, FiniteSets

CONSTANTS
    Sockets,     \* the descriptors c-ares can be given
    MaxLookups   \* bound: calls of gethostbyname

ASSUME ResolverAssumption == MaxLookups \in Nat

Lookups == 1..MaxLookups

VARIABLES
    channel,     \* channel_: "none", "ready" or "destroyed"
    cb,          \* cb_: the lookup whose callback it is, 0 for none
    timer,       \* timer_: a timer is named after the lookup that set it
    state,       \* state_
    stack,       \* the calls in progress, the innermost first
    queries,     \* c-ares: the lookups it has not answered
    open,        \* c-ares: its open sockets
    armed,       \* IOLoop: the timers set
    due,         \* IOLoop: the timers of the batch runOnce has taken
    handlers,    \* IOLoop: the sockets with an entry in handlers_
    interest,    \* epoll: the events watched for each watched socket
    lookups,     \* history: calls of gethostbyname
    called,      \* history: the answers each callback was called with
    strained,    \* history: which of Strains has happened
    aborted      \* the assert that has failed, or "no"

loopVars == <<armed, due, handlers, interest>>
vars == <<channel, cb, timer, state, stack, queries, open, loopVars,
          lookups, called, strained, aborted>>

\* What goes beyond one lookup, one socket and one timer at a time: a lookup
\* that begins before the callback of another has returned; a socket opened
\* beside another; an answer inside gethostbyname, before the timer is set; an
\* answer (from ~Resolver, in a timer callback) when the loop has taken the timer.
Strains == {"overlap", "sockets", "early", "taken"}

Frames ==
    [kind : {"lookup"}, of : Lookups]          \* gethostbyname, in c-ares
      \cup [kind : {"process"}, of : {0, 1}]   \* ares_process_fd; 1: with a socket
      \cup [kind : {"callback"}, of : Lookups] \* cb_(...), in run_callback
      \cup [kind : {"destroy"}, of : {0}]      \* ares_destroy

Push(kind, of) == stack' = << [kind |-> kind, of |-> of] >> \o stack

Top(kind) == stack # << >> /\ Head(stack).kind = kind

Alive == aborted = "no"

Init ==
    /\ channel = "none"
    /\ cb = 0
    /\ timer = 0
    /\ state = {}
    /\ stack = << >>
    /\ queries = {}
    /\ open = {}
    /\ armed = {}
    /\ due = {}
    /\ handlers = {}
    /\ interest = << >>
    /\ lookups = 0
    /\ called = [n \in Lookups |-> << >>]
    /\ strained = {}
    /\ aborted = "no"

-----------------------------------------------------------------------------
(* The Resolver.                                                           *)

\* Resolver::init; ares_init_options may fail, and then there is no channel.
InitChannel ==
    /\ Alive /\ stack = << >>
    /\ channel = "none"
    /\ channel' = "ready"
    /\ UNCHANGED <<cb, timer, state, stack, queries, open, loopVars, lookups,
                   called, strained, aborted>>

\* gethostbyname, as far as c-ares: called from application code, which is a
\* callback of the loop or the callback of another lookup.
GetHostByName ==
    /\ Alive /\ channel = "ready"
    /\ stack = << >> \/ Top("callback")
    /\ \A i \in DOMAIN stack : stack[i].kind # "destroy"
    /\ lookups < MaxLookups
    /\ lookups' = lookups + 1
    /\ cb' = lookups + 1
    /\ queries' = queries \cup {lookups + 1}
    /\ strained' = IF stack = << >> /\ queries = {} THEN strained
                   ELSE strained \cup {"overlap"}
    /\ Push("lookup", lookups + 1)
    /\ UNCHANGED <<channel, timer, state, open, loopVars, called, aborted>>

\* The last statement of gethostbyname.
SetTimer(n) ==
    /\ armed' = armed \cup {n}
    /\ timer' = n

\* Mutant of RemoveTimer: the loop keeps the timer.
RemoveTimerForgets ==
    /\ timer' = 0
    /\ UNCHANGED armed

\* remove_timer(): a timer of the batch that runs is called all the same.
RemoveTimer ==
    /\ timer' = 0
    /\ armed' = armed \ {timer}

\* Mutant of RunCallback: the one callback is kept for the next answer.
RunCallbackKeeps(n) ==
    /\ RemoveTimer
    /\ \/ /\ cb # 0
          /\ called' = [called EXCEPT ![cb] = Append(@, n)]
       \/ cb = 0 /\ UNCHANGED called
    /\ UNCHANGED <<stack, cb>>

\* run_callback with the answer to lookup n.
RunCallback(n) ==
    /\ RemoveTimer
    /\ \/ /\ cb # 0
          /\ called' = [called EXCEPT ![cb] = Append(@, n)]
          /\ Push("callback", cb)
       \/ cb = 0 /\ UNCHANGED <<called, stack>>
    /\ UNCHANGED cb

\* The callback has returned to run_callback.
CallbackReturns ==
    /\ Alive /\ Top("callback")
    /\ cb' = 0
    /\ stack' = Tail(stack)
    /\ UNCHANGED <<channel, timer, state, queries, open, loopVars, lookups,
                   called, strained, aborted>>

\* on_timer, with its assert; after ~Resolver the timer has no object.
OnTimer(t) ==
    /\ Alive /\ stack = << >>
    /\ t \in due
    /\ due' = due \ {t}
    /\ \/ /\ channel = "destroyed"
          /\ aborted' = "dangling"
          /\ UNCHANGED <<timer, stack>>
       \/ /\ channel = "ready" /\ t = timer
          /\ timer' = 0
          /\ Push("process", 0)
          /\ UNCHANGED aborted
       \/ /\ channel = "ready" /\ t # timer
          /\ aborted' = "timer"
          /\ UNCHANGED <<timer, stack>>
    /\ UNCHANGED <<channel, cb, state, queries, open, armed, handlers, interest,
                   lookups, called, strained>>

\* process_fd: c-ares is given the socket only for the events that are there.
ProcessFd(s, events) ==
    /\ Alive /\ stack = << >> /\ due = {}
    /\ s \in handlers \cap DOMAIN interest
    /\ events # {} /\ events \subseteq interest[s]
    /\ Push("process", IF events \cap {"READ", "WRITE"} # {} THEN 1 ELSE 0)
    /\ UNCHANGED <<channel, cb, timer, state, queries, open, loopVars, lookups,
                   called, strained, aborted>>

With(s, events) == [f \in DOMAIN interest \cup {s} |-> IF f = s THEN events ELSE interest[f]]

Without(s) == [f \in DOMAIN interest \ {s} |-> interest[f]]

\* What epoll watches after sock_state_callback.  A socket c-ares wants nothing
\* of is closed next, and that alone takes it out of epoll.
Watches(s, wants) ==
    LET events == wants \cup {"ERROR"} IN
    CASE wants = {} -> Without(s)
      [] wants # {} /\ (state = {} \/ (state # events /\ s \in DOMAIN interest)) -> With(s, events)
      [] OTHER -> interest

\* Mutant of SockState: state_ outlives the handler.
SockStateStays(s, wants) ==
    \/ /\ wants = {} /\ state # {}
       /\ handlers' = handlers \ {s}
       /\ UNCHANGED <<state, aborted>>
    \/ /\ state = {} /\ s \notin handlers
       /\ state' = wants \cup {"ERROR"}
       /\ handlers' = handlers \cup {s}
       /\ UNCHANGED aborted
    \/ /\ wants # {} /\ state # {}
       /\ state' = wants \cup {"ERROR"}
       /\ UNCHANGED <<handlers, aborted>>

\* sock_state_callback: the first socket is added to the loop; what comes after
\* updates or removes, whichever socket it is about.  addHandler asserts that
\* the entry is free.
SockState(s, wants) ==
    \/ /\ wants = {} /\ state # {}
       /\ state' = {}
       /\ handlers' = handlers \ {s}
       /\ UNCHANGED aborted
    \/ /\ state = {} /\ s \notin handlers
       /\ state' = wants \cup {"ERROR"}
       /\ handlers' = handlers \cup {s}
       /\ UNCHANGED aborted
    \/ /\ state = {} /\ s \in handlers
       /\ aborted' = "handler"
       /\ UNCHANGED <<state, handlers>>
    \/ /\ wants # {} /\ state # {}
       /\ state' = wants \cup {"ERROR"}
       /\ UNCHANGED <<handlers, aborted>>

\* ~Resolver, which ends what is under way through ares_destroy.
Destroy ==
    /\ Alive /\ stack = << >>
    /\ channel = "ready"
    /\ Push("destroy", 0)
    /\ UNCHANGED <<channel, cb, timer, state, queries, open, loopVars, lookups,
                   called, strained, aborted>>

-----------------------------------------------------------------------------
(* c-ares.                                                                 *)

InAres == Alive /\ (Top("lookup") \/ Top("process") \/ Top("destroy"))

\* The queries that c-ares can end in this call: in gethostbyname only the one
\* that was asked (the hosts file, a literal address, no server to send to).
Endable == IF Top("lookup") THEN {Head(stack).of} \cap queries ELSE queries

EndsQuery(n) ==
    /\ InAres
    /\ n \in Endable
    /\ queries' = queries \ {n}
    /\ RunCallback(n)
    /\ strained' = strained \cup (IF Top("lookup") THEN {"early"} ELSE {})
                             \cup (IF timer \in due THEN {"taken"} ELSE {})
    /\ UNCHANGED <<channel, state, open, due, handlers, interest, lookups, aborted>>

\* A query is sent: to the first server, or to another one after a failure.
OpensSocket(s) ==
    /\ InAres /\ ~Top("destroy")
    /\ queries # {}
    /\ s \notin open
    /\ open' = open \cup {s}
    /\ strained' = IF open = {} THEN strained ELSE strained \cup {"sockets"}
    /\ SockState(s, {"READ"})
    /\ interest' = Watches(s, {"READ"})
    /\ UNCHANGED <<channel, cb, timer, stack, queries, armed, due, lookups, called>>

\* Over TCP, what is queued waits for the socket to become writable.
WantsEvents(s, wants) ==
    /\ InAres /\ ~Top("destroy")
    /\ s \in open
    /\ SockState(s, wants)
    /\ interest' = Watches(s, wants)
    /\ UNCHANGED <<channel, cb, timer, stack, queries, open, armed, due, lookups,
                   called, strained>>

\* A server that fails loses its socket; all are closed with the last query.
\* Closing a descriptor takes it out of epoll, whatever handlers_ says.
ClosesSocket(s) ==
    /\ InAres /\ (queries = {} \/ Top("process"))
    /\ s \in open
    /\ open' = open \ {s}
    /\ SockState(s, {})
    /\ interest' = Watches(s, {})
    /\ UNCHANGED <<channel, cb, timer, stack, queries, armed, due, lookups,
                   called, strained>>

\* c-ares comes back once a query under way has a socket, and no socket is left
\* without a query.
Settled ==
    /\ Top("lookup") => (Head(stack).of \in queries => open # {})
    /\ Len(stack) = 1 => ((queries = {}) <=> (open = {}))

AresReturns ==
    /\ InAres /\ Settled
    /\ Top("destroy") => queries = {}
    /\ stack' = Tail(stack)
    /\ IF Top("lookup") THEN SetTimer(Head(stack).of) ELSE UNCHANGED <<timer, armed>>
    /\ IF Top("destroy") THEN channel' = "destroyed" /\ cb' = 0 ELSE UNCHANGED <<channel, cb>>
    /\ UNCHANGED <<state, queries, open, due, handlers, interest, lookups, called,
                   strained, aborted>>

-----------------------------------------------------------------------------
(* The IOLoop.                                                             *)

\* runOnce takes the timers that are due, before it polls.
TimersFallDue ==
    /\ Alive /\ stack = << >> /\ due = {}
    /\ \E some \in SUBSET armed :
          /\ some # {}
          /\ due' = some
          /\ armed' = armed \ some
    /\ UNCHANGED <<channel, cb, timer, state, stack, queries, open, handlers,
                   interest, lookups, called, strained, aborted>>

Events == {"READ", "WRITE", "ERROR"}

Next ==
    \/ InitChannel \/ GetHostByName \/ CallbackReturns \/ Destroy \/ AresReturns
    \/ TimersFallDue
    \/ \E t \in Lookups : OnTimer(t)
    \/ \E s \in Sockets, events \in SUBSET Events : ProcessFd(s, events)
    \/ \E n \in Lookups : EndsQuery(n)
    \/ \E s \in Sockets : OpensSocket(s) \/ ClosesSocket(s)
    \/ \E s \in Sockets, wants \in {{"READ"}, {"READ", "WRITE"}} : WantsEvents(s, wants)

Spec == Init /\ [][Next]_vars

(* Fairness: what has begun goes on, the loop runs its timers, and a name    *)
(* server answers a query whose socket is watched: the socket is reported    *)
(* readable again and again and c-ares, given the socket, ends a query.      *)

Fairness ==
    /\ WF_vars(CallbackReturns)
    /\ SF_vars(AresReturns)
    /\ WF_vars(open = {} /\ \E s \in Sockets : OpensSocket(s))
    /\ WF_vars(Top("destroy") /\ \E n \in Lookups : EndsQuery(n))
    /\ WF_vars(\E t \in Lookups : OnTimer(t))
    /\ WF_vars(\E s \in Sockets : ClosesSocket(s))
    /\ \A s \in Sockets : SF_vars(\E events \in SUBSET Events : "READ" \in events /\ ProcessFd(s, events))
    /\ SF_vars(Top("process") /\ Head(stack).of = 1 /\ \E n \in Lookups : EndsQuery(n))

FairSpec == Spec /\ Fairness

-----------------------------------------------------------------------------
(* Properties.                                                             *)

TypeOK ==
    /\ channel \in {"none", "ready", "destroyed"}
    /\ cb \in 0..MaxLookups
    /\ timer \in 0..MaxLookups
    /\ state \in SUBSET Events
    /\ stack \in Seq(Frames)
    /\ queries \in SUBSET Lookups
    /\ open \in SUBSET Sockets
    /\ armed \in SUBSET Lookups
    /\ due \in SUBSET Lookups
    /\ handlers \in SUBSET Sockets
    /\ DOMAIN interest \in SUBSET handlers
    /\ \A s \in DOMAIN interest : interest[s] \in SUBSET Events
    /\ lookups \in 0..MaxLookups
    /\ called \in [Lookups -> Seq(Lookups)]
    /\ strained \in SUBSET Strains
    /\ aborted \in {"no", "timer", "handler", "dangling"}

\* No callback is called twice, and while lookups do not overlap a callback is
\* given the answer to its own name: run_callback knows one cb_ only, and which
\* answer it gets depends on who set cb_ last (Resolver.cpp 177, 219-220).
OwnAnswer ==
    \A n \in Lookups :
       /\ Len(called[n]) <= 1
       /\ "overlap" \notin strained => \A i \in DOMAIN called[n] : called[n][i] = n

\* The assert of on_timer (Resolver.cpp 153) can fail only after lookups have
\* overlapped or one was answered before its timer was set, a timer outlives
\* the resolver only then, and addHandler's (IOLoop.cpp 29) only after two
\* sockets have been open at once.
AssertsExplained ==
    /\ aborted = "timer" => {"overlap", "early"} \cap strained # {}
    /\ aborted = "dangling" => {"overlap", "early", "taken"} \cap strained # {}
    /\ aborted = "handler" => "sockets" \in strained

\* Between lookups the resolver has nothing in the loop: no handler for a socket
\* that c-ares has closed, no events in state_ to make the next socket an update,
\* and, unless a timer was overwritten or set late, no timer.
IdleIsClean ==
    stack = << >> /\ queries = {} /\ Alive =>
       /\ "sockets" \notin strained => handlers = {} /\ state = {}
       /\ strained = {} => armed = {} /\ timer = 0

\* A lookup whose server answers has its callback called, as long as lookups do
\* not overlap and c-ares keeps to one socket: the socket stays registered with
\* the loop from its opening to the answer.
LookupResolves ==
    \A n \in Lookups :
       (n \in queries /\ strained \subseteq {"early"})
          ~> (called[n] # << >> \/ ~(strained \subseteq {"early"}) \/ ~Alive)

\* Resolver.cpp 153: assert(tid == timer_).
TimerAssertHolds == aborted # "timer"
=============================================================================
