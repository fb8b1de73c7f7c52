----------------------------- MODULE ForkServer -----------------------------
(***************************************************************************)
(* The server process of main.c and server.c and the children it forks,    *)
(* one per connection: which process holds which descriptor, and who reaps *)
(* whom.                                                                   *)
(*                                                                         *)
(* What a child does with its connection is ConnectionHandler's matter;    *)
(* here it is a phase that may end well, end by a signal, or never end.    *)
(*                                                                         *)
(* accept is restarted after a signal (SA_RESTART), and an accept that     *)
(* fails without taking a connection off the queue goes round the loop     *)
(* with the state unchanged: both are stuttering steps.                    *)
(***************************************************************************)
EXTENDS Integers, Sequences, FiniteSets

CONSTANTS
  Clients,     \* the connections that may arrive, named for their sockets
  backlog,     \* config.backlog, the length of the accept queue
  MaxProcs,    \* children, zombies included, the process table has room for
  NoClient     \* client_fd when no connection is in hand

ASSUME ForkServerAssumption ==
  /\ IsFiniteSet(Clients)
  /\ backlog \in Nat \ {0}
  /\ MaxProcs \in Nat
  /\ NoClient \notin Clients
  /\ Clients \cap {"server.fd", "server.root_fd"} = {}

VARIABLES
  pc,            \* where the server process is in main
  client_fd,     \* the connection main has in hand
  parent_fds,    \* descriptors the server process holds
  arrived,       \* connections made so far
  queue,         \* established connections nobody has accepted
  child,         \* the life of the process forked for each connection
  child_fds,     \* descriptors that process holds
  sigchld,       \* SIGCHLD is pending; signals do not queue, so one bit
  in_handler     \* reap_children is running, on top of main

process == << pc, client_fd, parent_fds >>
network == << arrived, queue >>
children == << child, child_fds >>
signals == << sigchld, in_handler >>
vars == << process, network, children, signals >>

Listeners == {"server.fd", "server.root_fd"}

(* Processes that exist, dead ones not yet waited for included.            *)
Processes == {c \in Clients : child[c] \notin {"none", "reaped"}}

ParentRuns == pc \notin {"failed", "killed"}

Init ==
  /\ pc = "sigaction"
  /\ client_fd = NoClient
  /\ parent_fds = {}
  /\ arrived = {}
  /\ queue = << >>
  /\ child = [c \in Clients |-> "none"]
  /\ child_fds = [c \in Clients |-> {}]
  /\ sigchld = FALSE
  /\ in_handler = FALSE

-----------------------------------------------------------------------------
(* main up to its loop: every failure returns EXIT_FAILURE                 *)

(* sigaction.                                                              *)
InstallHandler ==
  /\ pc = "sigaction" /\ ~in_handler
  /\ pc' \in {"config", "failed"}
  /\ UNCHANGED << client_fd, parent_fds, network, children, signals >>

(* config_init and config_parse_args.                                      *)
ParseArgs ==
  /\ pc = "config" /\ ~in_handler
  /\ pc' \in {"init", "failed"}
  /\ UNCHANGED << client_fd, parent_fds, network, children, signals >>

(* socket may fail; when the document root cannot be opened the socket is  *)
(* closed again.                                                           *)
server_init ==
  /\ pc = "init" /\ ~in_handler
  /\ \/ pc' = "start" /\ parent_fds' = parent_fds \cup Listeners
     \/ pc' = "failed" /\ UNCHANGED parent_fds
  /\ UNCHANGED << client_fd, network, children, signals >>

(* bind and listen; after a failure main calls server_destroy.             *)
server_start ==
  /\ pc = "start" /\ ~in_handler
  /\ \/ pc' = "accept" /\ UNCHANGED parent_fds
     \/ pc' = "failed" /\ parent_fds' = parent_fds \ Listeners
  /\ UNCHANGED << client_fd, network, children, signals >>

-----------------------------------------------------------------------------
(* The accept loop                                                         *)

BackToAccept ==
  /\ pc' = "accept"
  /\ parent_fds' = parent_fds \ {client_fd}
  /\ client_fd' = NoClient

(* server_accept: accept.                                                  *)
Accept ==
  /\ pc = "accept" /\ ~in_handler
  /\ queue # << >>
  /\ client_fd' = Head(queue)
  /\ parent_fds' = parent_fds \cup {Head(queue)}
  /\ queue' = Tail(queue)
  /\ pc' = "setsockopt"
  /\ UNCHANGED << arrived, children, signals >>

(* accept reports a connection that was aborted while in the queue.        *)
AcceptAborted ==
  /\ pc = "accept" /\ ~in_handler
  /\ queue # << >>
  /\ queue' = Tail(queue)
  /\ UNCHANGED << process, arrived, children, signals >>

(* server_accept: the receive timeout, or close and -1.                    *)
SetTimeout ==
  /\ pc = "setsockopt" /\ ~in_handler
  /\ \/ pc' = "fork" /\ UNCHANGED << client_fd, parent_fds >>
     \/ BackToAccept
  /\ UNCHANGED << network, children, signals >>

(* fork: the child starts with a copy of every descriptor.                 *)
Fork ==
  /\ pc = "fork" /\ ~in_handler
  /\ Cardinality(Processes) < MaxProcs
  /\ child' = [child EXCEPT ![client_fd] = "forked"]
  /\ child_fds' = [child_fds EXCEPT ![client_fd] = parent_fds]
  /\ pc' = "close"
  /\ UNCHANGED << client_fd, parent_fds, network, signals >>

(* Mutant: no close on this path.                                          *)
ForkFailsLeaks ==
  /\ pc = "fork" /\ ~in_handler
  /\ pc' = "accept" /\ client_fd' = NoClient
  /\ UNCHANGED << parent_fds, network, children, signals >>

(* fork fails, for want of a process or of memory: the client is dropped.  *)
ForkFails ==
  /\ pc = "fork" /\ ~in_handler
  /\ BackToAccept
  /\ UNCHANGED << network, children, signals >>

(* Mutants: the server keeps its copy; the server waits for the child.     *)
CloseClientLeaks ==
  /\ pc = "close" /\ ~in_handler
  /\ pc' = "accept" /\ client_fd' = NoClient
  /\ UNCHANGED << parent_fds, network, children, signals >>

CloseClientWaits ==
  /\ pc = "close" /\ ~in_handler
  /\ child[client_fd] \in {"zombie", "reaped"}
  /\ BackToAccept
  /\ UNCHANGED << network, children, signals >>

(* The server's copy of the socket goes, the child's stays.                *)
CloseClient ==
  /\ pc = "close" /\ ~in_handler
  /\ BackToAccept
  /\ UNCHANGED << network, children, signals >>

-----------------------------------------------------------------------------
(* A child                                                                 *)

(* Mutants: the child keeps the listening socket; it closes the client's.  *)
CloseListenerNot(c) ==
  /\ child[c] = "forked"
  /\ child' = [child EXCEPT ![c] = "serving"]
  /\ UNCHANGED << child_fds, process, network, signals >>

CloseListenerWrongFd(c) ==
  /\ child[c] = "forked"
  /\ child' = [child EXCEPT ![c] = "serving"]
  /\ child_fds' = [child_fds EXCEPT ![c] = @ \ {c}]
  /\ UNCHANGED << process, network, signals >>

(* close(server.fd).                                                       *)
CloseListener(c) ==
  /\ child[c] = "forked"
  /\ child' = [child EXCEPT ![c] = "serving"]
  /\ child_fds' = [child_fds EXCEPT ![c] = @ \ {"server.fd"}]
  /\ UNCHANGED << process, network, signals >>

(* fork_server_handle_connection returns; the child closes the socket.     *)
ServeEnds(c) ==
  /\ child[c] = "serving"
  /\ child' = [child EXCEPT ![c] = "closed"]
  /\ child_fds' = [child_fds EXCEPT ![c] = @ \ {c}]
  /\ UNCHANGED << process, network, signals >>

(* The kernel closes what is left and tells the server; without a server   *)
(* init reaps the child.                                                   *)
Dies(c) ==
  /\ child' = [child EXCEPT ![c] = IF ParentRuns THEN "zombie" ELSE "reaped"]
  /\ child_fds' = [child_fds EXCEPT ![c] = {}]
  /\ sigchld' = ParentRuns
  /\ UNCHANGED << process, network, in_handler >>

(* _exit.                                                                  *)
ChildExits(c) == child[c] = "closed" /\ Dies(c)

(* SIGPIPE while serving.                                                  *)
ChildKilled(c) == child[c] = "serving" /\ Dies(c)

-----------------------------------------------------------------------------
(* SIGCHLD: reap_children interrupts main and keeps SIGCHLD blocked until  *)
(* it returns.                                                             *)

(* Mutant: the default action, which discards SIGCHLD.                     *)
DeliverSIGCHLDDefault ==
  /\ sigchld /\ ~in_handler /\ ParentRuns
  /\ sigchld' = FALSE
  /\ UNCHANGED << in_handler, process, network, children >>

(* The kernel enters reap_children.                                        *)
DeliverSIGCHLD ==
  /\ sigchld /\ ~in_handler /\ ParentRuns
  /\ sigchld' = FALSE
  /\ in_handler' = TRUE
  /\ UNCHANGED << process, network, children >>

(* Mutant: if for while, one waitpid per signal.                           *)
ReapOneOnly(c) ==
  /\ in_handler
  /\ child[c] = "zombie"
  /\ child' = [child EXCEPT ![c] = "reaped"]
  /\ in_handler' = FALSE
  /\ UNCHANGED << process, network, child_fds, sigchld >>

(* waitpid returns a pid: round the loop again.                            *)
ReapOne(c) ==
  /\ in_handler
  /\ child[c] = "zombie"
  /\ child' = [child EXCEPT ![c] = "reaped"]
  /\ UNCHANGED << process, network, child_fds, signals >>

(* waitpid finds nobody to reap.                                           *)
ReapDone ==
  /\ in_handler
  /\ \A c \in Clients : child[c] # "zombie"
  /\ in_handler' = FALSE
  /\ UNCHANGED << process, network, children, sigchld >>

-----------------------------------------------------------------------------
(* The environment                                                         *)

(* Some process holds the listening socket, and it is listening.           *)
Listening ==
  \/ "server.fd" \in parent_fds /\ pc # "start"
  \/ \E c \in Clients : "server.fd" \in child_fds[c]

(* A connection is established when the queue has room.                    *)
Connect(c) ==
  /\ c \in Clients \ arrived
  /\ Listening
  /\ Len(queue) < backlog
  /\ arrived' = arrived \cup {c}
  /\ queue' = Append(queue, c)
  /\ UNCHANGED << process, children, signals >>

(* The server is stopped by a signal it does not handle; init adopts and   *)
(* reaps its children.                                                     *)
ParentKilled ==
  /\ ParentRuns
  /\ pc' = "killed"
  /\ parent_fds' = {}
  /\ client_fd' = NoClient
  /\ child' = [c \in Clients |-> IF child[c] = "zombie" THEN "reaped"
                                                        ELSE child[c]]
  /\ sigchld' = FALSE
  /\ in_handler' = FALSE
  /\ UNCHANGED << network, child_fds >>

-----------------------------------------------------------------------------
MainStep ==
  \/ InstallHandler \/ ParseArgs \/ server_init \/ server_start
  \/ Accept \/ AcceptAborted \/ SetTimeout \/ Fork \/ ForkFails \/ CloseClient

HandlerStep == DeliverSIGCHLD \/ (\E c \in Clients : ReapOne(c)) \/ ReapDone

(* Steps of a child that wait for nobody.                                  *)
ChildStep(c) == CloseListener(c) \/ ChildExits(c)

Next ==
  \/ MainStep
  \/ HandlerStep
  \/ \E c \in Clients :
       ChildStep(c) \/ ServeEnds(c) \/ ChildKilled(c) \/ Connect(c)
  \/ ParentKilled

(* Every runnable process runs.  Nothing is assumed of fork_server_handle_ *)
(* connection, which a client may keep from returning, nor of clients.     *)
Fairness ==
  /\ WF_vars(MainStep)
  /\ WF_vars(HandlerStep)
  /\ \A c \in Clients : WF_vars(ChildStep(c))

Spec == Init /\ [][Next]_vars /\ Fairness

-----------------------------------------------------------------------------
(* Properties                                                              *)

Descriptors == Listeners \cup Clients

Busy == {"setsockopt", "fork", "close"}

(* Every variable keeps its type, and main forks or closes only when it    *)
(* has a connection in hand.                                               *)
TypeOK ==
  /\ pc \in {"sigaction", "config", "init", "start", "accept", "setsockopt",
             "fork", "close", "failed", "killed"}
  /\ client_fd \in IF pc \in Busy THEN Clients ELSE {NoClient}
  /\ parent_fds \subseteq Descriptors
  /\ arrived \subseteq Clients
  /\ queue \in Seq(Clients)
  /\ child \in [Clients -> {"none", "forked", "serving", "closed", "zombie",
                            "reaped"}]
  /\ child_fds \in [Clients -> SUBSET Descriptors]
  /\ sigchld \in BOOLEAN
  /\ in_handler \in BOOLEAN

(* Several deaths may share one SIGCHLD, and one may come while            *)
(* reap_children runs; still a zombie never exists without a signal        *)
(* pending for it or a handler about to find it.                           *)
NoForgottenZombie ==
  (\E c \in Clients : child[c] = "zombie") => sigchld \/ in_handler

(* A child never holds the socket of another client, so a connection ends  *)
(* when its own child is done with it and not when some later child is.    *)
ChildOwnsOnlyItsClient ==
  \A c \in Clients : child_fds[c] \cap Clients \subseteq {c}

(* On every path through the loop, failures included, the server closes    *)
(* the socket it accepted; after a failed start it holds nothing at all.   *)
ParentKeepsNoClient ==
  /\ parent_fds \cap Clients =
       IF pc \in Busy THEN {client_fd} ELSE {}
  /\ pc = "failed" => parent_fds = {}

(* A dead child is eventually reaped.                                      *)
ZombieReaped ==
  \A c \in Clients : child[c] = "zombie" ~> child[c] = "reaped"

(* A waiting connection is eventually taken off the queue although the     *)
(* children of other connections may serve for ever.                       *)
NotBlockedByChildren ==
  \A c \in Clients :
    (\E i \in DOMAIN queue : queue[i] = c)
      ~> \/ \A i \in DOMAIN queue : queue[i] # c
         \/ pc = "killed"

Held(fd) == fd \in parent_fds \/ \E c \in Clients : fd \in child_fds[c]

(* A connection is open exactly as long as somebody attends to it: main,   *)
(* which has it in hand, or the child that serves it.  So neither main's   *)
(* close nor the death of the server cuts off a client being served, and   *)
(* no copy of the socket outlives its child.  The port is bound exactly as *)
(* long as main needs it, or a child has yet to close its copy.            *)
OpenWhileAttended ==
  /\ \A c \in Clients :
       Held(c) <=> client_fd = c \/ child[c] \in {"forked", "serving"}
  /\ Held("server.fd") <=> \/ pc \in Busy \cup {"start", "accept"}
                          \/ \E c \in Clients : child[c] = "forked"

(* Once its child is dead nobody keeps a connection open, so the client    *)
(* sees the end of it.                                                     *)
SocketClosedAfterChild ==
  \A c \in Clients : child[c] \in {"zombie", "reaped"} ~> ~Held(c)

(* Once the server is stopped nobody listens in its place, even while      *)
(* children go on serving: new clients are refused at once instead of      *)
(* waiting in a queue that no process will ever accept from.               *)
ListenerReleased == pc = "killed" ~> ~Held("server.fd")

=============================================================================
