------------------------------ MODULE MCIOLoop ------------------------------
(* Two descriptors of which one epoll_wait reports one, two callbacks, a    *)
(* timer that is due in the middle of the longest sleep.                    *)
EXTENDS IOLoop

CONSTANTS f1, f2, c1, c2

MCFDs == {f1, f2}
MCCallbacks == {c1, c2}
MCRequests == {{}, {"READ"}}
=============================================================================
