-------------------------- MODULE ForkServerProofs --------------------------
(***************************************************************************)
(* Proofs of the safety properties of ForkServer, for any set of clients,  *)
(* any backlog and any process limit.                                      *)
(***************************************************************************)
EXTENDS ForkServer, TLAPS

(* What main holds before its loop, and that nobody has died unnoticed     *)
(* before there is a handler or after there is a server to notice.         *)
Starting == {"sigaction", "config", "init", "start"}

StartupInv ==
  /\ pc \in {"sigaction", "config", "init"} => parent_fds = {}
  /\ pc \in Starting \cup {"failed"} => \A c \in Clients : child[c] = "none"
  /\ pc = "killed" => \A c \in Clients : child[c] # "zombie"

(* The inductive invariant.                                                *)
IInv ==
  /\ TypeOK
  /\ StartupInv
  /\ NoForgottenZombie
  /\ ChildOwnsOnlyItsClient
  /\ ParentKeepsNoClient

(* The initial state satisfies the invariant: no descriptor, no child.     *)
LEMMA InitInv == Init => IInv
<1>1. Init => TypeOK
  <2> SUFFICES ASSUME Init PROVE TypeOK
    OBVIOUS
  <2>1. queue \in Seq(Clients)
    BY DEF Init
  <2>2. sigchld \in BOOLEAN /\ in_handler \in BOOLEAN
    BY Zenon DEF Init
  <2>3. QED
    BY <2>1, <2>2 DEF Init, TypeOK, Busy
<1>2. Init => StartupInv /\ NoForgottenZombie
  BY DEF Init, StartupInv, NoForgottenZombie, Starting
<1>3. Init => ChildOwnsOnlyItsClient /\ ParentKeepsNoClient
  BY DEF Init, ChildOwnsOnlyItsClient, ParentKeepsNoClient, Busy
<1>4. QED
  BY <1>1, <1>2, <1>3 DEF IInv

(* The steps of main before its loop keep the invariant.                   *)
LEMMA StartupStep ==
  ASSUME IInv,
         InstallHandler \/ ParseArgs \/ server_init \/ server_start
  PROVE  IInv'
<1> USE ForkServerAssumption DEF InstallHandler, ParseArgs, server_init,
      server_start, network, children, signals, Listeners, Descriptors, Busy
<1>1. TypeOK'
  BY DEF IInv, TypeOK
<1>2. StartupInv'
  BY DEF IInv, TypeOK, StartupInv, Starting
<1>3. NoForgottenZombie'
  BY DEF IInv, NoForgottenZombie
<1>4. ChildOwnsOnlyItsClient'
  BY DEF IInv, ChildOwnsOnlyItsClient
<1>5. ParentKeepsNoClient'
  BY DEF IInv, TypeOK, ParentKeepsNoClient, StartupInv
<1>6. QED
  BY <1>1, <1>2, <1>3, <1>4, <1>5 DEF IInv

(* Leaving the loop body with the socket closed keeps the invariant.       *)
LEMMA BackStep ==
  ASSUME IInv, pc \in Busy, BackToAccept,
         UNCHANGED << network, children, signals >>
  PROVE  IInv'
<1> USE ForkServerAssumption DEF BackToAccept, network, children, signals,
      Listeners, Descriptors, Busy
<1>1. TypeOK'
  BY DEF IInv, TypeOK
<1>2. StartupInv'
  BY DEF IInv, TypeOK, StartupInv, Starting
<1>3. NoForgottenZombie'
  BY DEF IInv, NoForgottenZombie
<1>4. ChildOwnsOnlyItsClient'
  BY DEF IInv, ChildOwnsOnlyItsClient
<1>5. ParentKeepsNoClient'
  BY DEF IInv, TypeOK, ParentKeepsNoClient
<1>6. QED
  BY <1>1, <1>2, <1>3, <1>4, <1>5 DEF IInv

(* The steps of the accept loop keep the invariant.  Fork is where a child *)
(* could inherit a stranger's socket: it cannot, because main holds no     *)
(* socket but the one in hand.                                             *)
LEMMA LoopStep ==
  ASSUME IInv,
         Accept \/ AcceptAborted \/ SetTimeout \/ Fork \/ ForkFails
           \/ CloseClient
  PROVE  IInv'
<1>1. CASE Accept
  <2> USE <1>1, ForkServerAssumption DEF Accept, children, signals,
        Listeners, Descriptors, Busy
  <2>1. Head(queue) \in Clients /\ Tail(queue) \in Seq(Clients)
    BY DEF IInv, TypeOK
  <2>2. TypeOK'
    BY <2>1 DEF IInv, TypeOK
  <2>3. StartupInv' /\ NoForgottenZombie' /\ ChildOwnsOnlyItsClient'
    BY DEF IInv, StartupInv, Starting, NoForgottenZombie,
           ChildOwnsOnlyItsClient
  <2>4. ParentKeepsNoClient'
    BY <2>1 DEF IInv, ParentKeepsNoClient
  <2>5. QED
    BY <2>2, <2>3, <2>4 DEF IInv
<1>2. CASE AcceptAborted
  <2> USE <1>2 DEF AcceptAborted, process, children, signals
  <2>1. TypeOK'
    BY DEF IInv, TypeOK
  <2>2. QED
    BY <2>1 DEF IInv, StartupInv, NoForgottenZombie, ChildOwnsOnlyItsClient,
                ParentKeepsNoClient
<1>3. CASE SetTimeout
  <2>1. CASE BackToAccept
    BY <1>3, <2>1, BackStep DEF SetTimeout, Busy
  <2>2. CASE pc' = "fork" /\ UNCHANGED << client_fd, parent_fds >>
    <3> USE <1>3, <2>2 DEF SetTimeout, network, children, signals, Busy
    <3>1. TypeOK'
      BY DEF IInv, TypeOK
    <3>2. QED
      BY <3>1 DEF IInv, StartupInv, Starting, NoForgottenZombie,
                  ChildOwnsOnlyItsClient, ParentKeepsNoClient
  <2>3. QED
    BY <1>3, <2>1, <2>2 DEF SetTimeout
<1>4. CASE Fork
  <2> USE <1>4 DEF Fork, network, signals, Busy
  <2>1. client_fd \in Clients /\ parent_fds \cap Clients = {client_fd}
    BY DEF IInv, TypeOK, ParentKeepsNoClient
  <2>2. TypeOK'
    BY <2>1 DEF IInv, TypeOK
  <2>3. StartupInv' /\ NoForgottenZombie'
    BY <2>1 DEF IInv, TypeOK, StartupInv, Starting, NoForgottenZombie
  <2>4. ChildOwnsOnlyItsClient'
    BY <2>1 DEF IInv, TypeOK, ChildOwnsOnlyItsClient
  <2>5. ParentKeepsNoClient'
    BY DEF IInv, ParentKeepsNoClient
  <2>6. QED
    BY <2>2, <2>3, <2>4, <2>5 DEF IInv
<1>5. CASE ForkFails \/ CloseClient
  BY <1>5, BackStep DEF ForkFails, CloseClient, Busy
<1>6. QED
  BY <1>1, <1>2, <1>3, <1>4, <1>5

(* A death keeps the invariant: it raises the signal that announces it.    *)
LEMMA DeathStep ==
  ASSUME IInv, NEW c \in Clients, child[c] \in {"serving", "closed"}, Dies(c)
  PROVE  IInv'
<1> USE DEF Dies, process, network
<1>1. TypeOK'
  BY DEF IInv, TypeOK, ParentRuns
<1>2. StartupInv'
  BY DEF IInv, TypeOK, StartupInv, Starting, ParentRuns
<1>3. NoForgottenZombie'
  BY DEF IInv, TypeOK, StartupInv, NoForgottenZombie, ParentRuns
<1>4. ChildOwnsOnlyItsClient' /\ ParentKeepsNoClient'
  BY DEF IInv, TypeOK, ChildOwnsOnlyItsClient, ParentKeepsNoClient
<1>5. QED
  BY <1>1, <1>2, <1>3, <1>4 DEF IInv

(* The other steps of a child and its client keep the invariant.           *)
LEMMA ChildKeeps ==
  ASSUME IInv, NEW c \in Clients,
         CloseListener(c) \/ ServeEnds(c) \/ Connect(c)
  PROVE  IInv'
<1> USE DEF CloseListener, ServeEnds, Connect, process, network, children,
            signals
<1>1. TypeOK'
  BY DEF IInv, TypeOK
<1>2. StartupInv'
  BY DEF IInv, TypeOK, StartupInv, Starting
<1>3. NoForgottenZombie'
  BY DEF IInv, TypeOK, NoForgottenZombie
<1>4. ChildOwnsOnlyItsClient' /\ ParentKeepsNoClient'
  BY DEF IInv, TypeOK, ChildOwnsOnlyItsClient, ParentKeepsNoClient
<1>5. QED
  BY <1>1, <1>2, <1>3, <1>4 DEF IInv

(* reap_children keeps the invariant: it returns only when it has found    *)
(* nobody left, and a death meanwhile has made SIGCHLD pending again.      *)
LEMMA HandlerKeeps ==
  ASSUME IInv, HandlerStep
  PROVE  IInv'
<1>1. CASE DeliverSIGCHLD
  BY <1>1 DEF DeliverSIGCHLD, process, network, children, IInv, TypeOK,
       StartupInv, NoForgottenZombie, ChildOwnsOnlyItsClient,
       ParentKeepsNoClient
<1>2. ASSUME NEW c \in Clients, ReapOne(c)
      PROVE  IInv'
  <2> USE <1>2 DEF ReapOne, process, network, signals
  <2>1. TypeOK'
    BY DEF IInv, TypeOK
  <2>2. StartupInv' /\ NoForgottenZombie'
    BY DEF IInv, TypeOK, StartupInv, Starting, NoForgottenZombie
  <2>3. ChildOwnsOnlyItsClient' /\ ParentKeepsNoClient'
    BY DEF IInv, ChildOwnsOnlyItsClient, ParentKeepsNoClient
  <2>4. QED
    BY <2>1, <2>2, <2>3 DEF IInv
<1>3. CASE ReapDone
  BY <1>3 DEF ReapDone, process, network, children, IInv, TypeOK,
       StartupInv, NoForgottenZombie, ChildOwnsOnlyItsClient,
       ParentKeepsNoClient
<1>4. QED
  BY <1>1, <1>2, <1>3 DEF HandlerStep

(* Stopping the server keeps the invariant.                                *)
LEMMA KilledKeeps ==
  ASSUME IInv, ParentKilled
  PROVE  IInv'
<1> USE DEF ParentKilled, network, Busy
<1>1. TypeOK'
  BY DEF IInv, TypeOK
<1>2. StartupInv' /\ NoForgottenZombie'
  BY DEF IInv, TypeOK, StartupInv, Starting, NoForgottenZombie
<1>3. ChildOwnsOnlyItsClient' /\ ParentKeepsNoClient'
  BY DEF IInv, ChildOwnsOnlyItsClient, ParentKeepsNoClient
<1>4. QED
  BY <1>1, <1>2, <1>3 DEF IInv

(* Every step of the specification keeps the invariant.                    *)
LEMMA NextInv == IInv /\ [Next]_vars => IInv'
<1> SUFFICES ASSUME IInv, [Next]_vars PROVE IInv'
  OBVIOUS
<1>1. CASE MainStep
  BY <1>1, StartupStep, LoopStep DEF MainStep
<1>2. CASE HandlerStep
  BY <1>2, HandlerKeeps
<1>3. ASSUME NEW c \in Clients,
             ChildStep(c) \/ ServeEnds(c) \/ ChildKilled(c) \/ Connect(c)
      PROVE  IInv'
  BY <1>3, ChildKeeps, DeathStep DEF ChildStep, ChildExits, ChildKilled
<1>4. CASE ParentKilled
  BY <1>4, KilledKeeps
<1>5. CASE UNCHANGED vars
  BY <1>5 DEF vars, process, network, children, signals, IInv, TypeOK,
       StartupInv, NoForgottenZombie, ChildOwnsOnlyItsClient,
       ParentKeepsNoClient
<1>6. QED
  BY <1>1, <1>2, <1>3, <1>4, <1>5 DEF Next

(* The inductive invariant holds throughout.                               *)
THEOREM Invariance == Spec => []IInv
  BY InitInv, NextInv, PTL DEF Spec

(* Type correctness: main forks only with a connection in hand.            *)
THEOREM TypeCorrect == Spec => []TypeOK
<1>1. IInv => TypeOK
  BY DEF IInv
<1>2. QED
  BY <1>1, Invariance, PTL

(* However many children die at once, and whenever they die, reap_children *)
(* is running or about to run while there is a zombie.                     *)
THEOREM ZombiesRemembered == Spec => []NoForgottenZombie
<1>1. IInv => NoForgottenZombie
  BY DEF IInv
<1>2. QED
  BY <1>1, Invariance, PTL

(* No child ever holds the socket of another connection.                   *)
THEOREM ChildrenIsolated == Spec => []ChildOwnsOnlyItsClient
<1>1. IInv => ChildOwnsOnlyItsClient
  BY DEF IInv
<1>2. QED
  BY <1>1, Invariance, PTL

(* The server leaks no descriptor on any path of its loop or its start.    *)
THEOREM ServerLeaksNothing == Spec => []ParentKeepsNoClient
<1>1. IInv => ParentKeepsNoClient
  BY DEF IInv
<1>2. QED
  BY <1>1, Invariance, PTL

-----------------------------------------------------------------------------
(* Who holds what                                                          *)

(* Which descriptors a process holds follows from where it is.             *)
FdsFollowLives ==
  /\ \A c \in Clients : c \in child_fds[c] <=> child[c] \in {"forked", "serving"}
  /\ \A c \in Clients : "server.fd" \in child_fds[c] <=> child[c] = "forked"
  /\ "server.fd" \in parent_fds <=> pc \in Busy \cup {"start", "accept"}

(* At first there is no descriptor and nobody to hold one.                 *)
LEMMA InitFds == Init => FdsFollowLives
  BY DEF Init, FdsFollowLives, Busy

(* Closing the socket in hand leaves the listening socket alone.           *)
LEMMA BackFds ==
  ASSUME IInv, FdsFollowLives, pc \in Busy, BackToAccept, UNCHANGED children
  PROVE  FdsFollowLives'
<1>1. "server.fd" \notin Clients /\ client_fd \in Clients
  BY ForkServerAssumption DEF IInv, TypeOK
<1>2. QED
  BY <1>1 DEF BackToAccept, children, FdsFollowLives, Busy

(* Every step of main keeps this; the child forked starts with both        *)
(* sockets because main holds both.                                        *)
LEMMA MainFds ==
  ASSUME IInv, FdsFollowLives, MainStep
  PROVE  FdsFollowLives'
<1>1. CASE InstallHandler \/ ParseArgs
  BY <1>1 DEF InstallHandler, ParseArgs, children, FdsFollowLives, Busy
<1>2. CASE server_init \/ server_start
  BY <1>2 DEF server_init, server_start, children, FdsFollowLives, Busy,
              Listeners
<1>3. CASE Accept
  <2>1. Head(queue) \in Clients
    BY <1>3 DEF Accept, IInv, TypeOK
  <2>2. "server.fd" # Head(queue)
    BY <2>1, ForkServerAssumption
  <2>3. QED
    BY <1>3, <2>2 DEF Accept, children, FdsFollowLives, Busy
<1>4. CASE AcceptAborted
  BY <1>4 DEF AcceptAborted, process, children, FdsFollowLives
<1>5. CASE SetTimeout
  <2>1. CASE BackToAccept
    BY <1>5, <2>1, BackFds DEF SetTimeout, Busy
  <2>2. CASE pc' = "fork" /\ UNCHANGED << client_fd, parent_fds >>
    BY <1>5, <2>2 DEF SetTimeout, children, FdsFollowLives, Busy
  <2>3. QED
    BY <1>5, <2>1, <2>2 DEF SetTimeout
<1>6. CASE Fork
  <2>1. client_fd \in Clients /\ client_fd \in parent_fds
    BY <1>6 DEF Fork, IInv, TypeOK, ParentKeepsNoClient, Busy
  <2>2. "server.fd" \in parent_fds
    BY <1>6 DEF Fork, FdsFollowLives, Busy
  <2>3. QED
    BY <1>6, <2>1, <2>2 DEF Fork, IInv, TypeOK, FdsFollowLives, Busy
<1>7. CASE ForkFails \/ CloseClient
  BY <1>7, BackFds DEF ForkFails, CloseClient, Busy
<1>8. QED
  BY <1>1, <1>2, <1>3, <1>4, <1>5, <1>6, <1>7 DEF MainStep

(* Every step keeps it.                                                    *)
LEMMA NextFds == IInv /\ FdsFollowLives /\ [Next]_vars => FdsFollowLives'
<1> SUFFICES ASSUME IInv, FdsFollowLives, [Next]_vars PROVE FdsFollowLives'
  OBVIOUS
<1>0. /\ child \in [Clients -> {"none", "forked", "serving", "closed",
                               "zombie", "reaped"}]
      /\ child_fds \in [Clients -> SUBSET Descriptors]
      /\ "server.fd" \notin Clients
  BY ForkServerAssumption DEF IInv, TypeOK
<1>1. CASE MainStep
  BY <1>1, MainFds
<1>2. CASE HandlerStep
  BY <1>0, <1>2 DEF HandlerStep, DeliverSIGCHLD, ReapOne, ReapDone, process,
       children, FdsFollowLives
<1>3. ASSUME NEW c \in Clients, CloseListener(c) \/ ServeEnds(c)
      PROVE  FdsFollowLives'
  BY <1>0, <1>3 DEF CloseListener, ServeEnds, process, FdsFollowLives
<1>4. ASSUME NEW c \in Clients, ChildExits(c) \/ ChildKilled(c)
      PROVE  FdsFollowLives'
  BY <1>0, <1>4 DEF ChildExits, ChildKilled, Dies, process, FdsFollowLives
<1>5. ASSUME NEW c \in Clients, Connect(c)
      PROVE  FdsFollowLives'
  BY <1>5 DEF Connect, process, children, FdsFollowLives
<1>6. CASE ParentKilled
  BY <1>0, <1>6 DEF ParentKilled, FdsFollowLives, Busy
<1>7. CASE UNCHANGED vars
  BY <1>7 DEF vars, process, children, FdsFollowLives
<1>8. QED
  BY <1>1, <1>2, <1>3, <1>4, <1>5, <1>6, <1>7 DEF Next, ChildStep

(* A socket is held by main or by its own child only.                      *)
LEMMA FdsAreAttended ==
  ASSUME IInv, FdsFollowLives
  PROVE  OpenWhileAttended
<1>1. "server.fd" \notin Clients /\ NoClient \notin Clients
  BY ForkServerAssumption
<1>2. ASSUME NEW c \in Clients
      PROVE  Held(c) <=> client_fd = c \/ child[c] \in {"forked", "serving"}
  <2>1. c \in parent_fds <=> client_fd = c
    BY <1>1 DEF IInv, TypeOK, ParentKeepsNoClient
  <2>2. \A d \in Clients : c \in child_fds[d] => d = c
    BY DEF IInv, ChildOwnsOnlyItsClient
  <2>3. QED
    BY <2>1, <2>2 DEF Held, FdsFollowLives
<1>3. Held("server.fd") <=> \/ pc \in Busy \cup {"start", "accept"}
                            \/ \E c \in Clients : child[c] = "forked"
  BY DEF Held, FdsFollowLives
<1>4. QED
  BY <1>2, <1>3 DEF OpenWhileAttended

(* For any number of clients and any interleaving of main, its handler and *)
(* the children, failures and the death of the server included, a socket   *)
(* is open exactly while somebody attends to it.                           *)
THEOREM OpenExactlyWhileAttended == Spec => []OpenWhileAttended
  BY InitFds, NextFds, FdsAreAttended, Invariance, PTL DEF Spec

=============================================================================
