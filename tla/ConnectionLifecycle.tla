------------------------ MODULE ConnectionLifecycle ------------------------
(***************************************************************************)
(* What the event loop promises about each client descriptor, without its  *)
(* tables: the life of the connection that holds the number, and whether a *)
(* CGI job works for it.  A connection reads one request, answers it from  *)
(* the server or through a CGI, and reads the next request only when the   *)
(* CGI of the previous one is gone.                                        *)
(***************************************************************************)
CONSTANT Fd

VARIABLES
  state,   \* the connection of each descriptor, "FREE" when there is none
  cgi      \* whether a CGI job belongs to it

lifeVars == <<state, cgi>>

LifeInit ==
  /\ state = [f \in Fd |-> "FREE"]
  /\ cgi = [f \in Fd |-> FALSE]

Become(fd, new, running) ==
  /\ state' = [state EXCEPT ![fd] = new]
  /\ cgi' = [cgi EXCEPT ![fd] = running]

Accept(fd) == state[fd] = "FREE" /\ Become(fd, "READING", FALSE)

Answer(fd) == state[fd] = "READING" /\ Become(fd, "WRITING", FALSE)

StartCgi(fd) == state[fd] = "READING" /\ Become(fd, "CGI_RUNNING", TRUE)

\* The CGI's headers are out; its body is relayed as it comes.
StreamCgi(fd) == state[fd] = "CGI_RUNNING" /\ Become(fd, "WRITING", TRUE)

EndCgi(fd) == cgi[fd] /\ Become(fd, "WRITING", FALSE)

NextRequest(fd) == state[fd] = "WRITING" /\ ~cgi[fd] /\ Become(fd, "READING", FALSE)

Close(fd) == state[fd] # "FREE" /\ Become(fd, "FREE", FALSE)

\* The server exits.
CloseAll == LifeInit'

LifeNext ==
  \/ \E fd \in Fd :
       \/ Accept(fd) \/ Answer(fd) \/ NextRequest(fd) \/ Close(fd)
       \/ StartCgi(fd) \/ StreamCgi(fd) \/ EndCgi(fd)
  \/ CloseAll

LifeSpec == LifeInit /\ [][LifeNext]_lifeVars
=============================================================================
