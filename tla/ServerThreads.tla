----------------------------- MODULE ServerThreads -----------------------------
(***************************************************************************)
(* The threads of AuthorityServer and the clients at the other end of its  *)
(* connections: an acceptor, one worker per connection, one reducer, the   *)
(* thread that calls start and stop, in-process callers, and one           *)
(* AuthorityClient per connection.  Workers and in-process callers put     *)
(* their work into one BoundedQueue; the reducer takes it out and answers. *)
(* What the reducer does with a request is AuthorityCore's business: here  *)
(* a request is served or it is not.                                       *)
(*                                                                         *)
(* A step is what a thread does under one lock, on one atomic, or in one   *)
(* call on a socket.  A wait on a condition variable is a step that is     *)
(* enabled when its predicate holds: every wait in the code has one, and   *)
(* who makes it true holds the lock and notifies afterwards.               *)
(***************************************************************************)
EXTENDS Naturals, Sequences, FiniteSets

CONSTANTS
  Connections,      \* connections clients may open, each used once
  Locals,           \* threads of the hosting process that call apply or inspect
  None,             \* neither a connection nor a local
  Capacity,         \* items the ingress queue holds
  MaxConnections,   \* connections served at a time
  MaxCalls,         \* bound: calls made on each connection
  MaxStarts         \* bound: calls to start

ASSUME ThreadsAssumption ==
  /\ Connections \cap Locals = {} /\ None \notin Connections \cup Locals
  /\ Capacity \in Nat \ {0} /\ MaxConnections \in Nat \ {0}
  /\ MaxCalls \in [Connections -> Nat] /\ MaxStarts \in Nat

VARIABLES
  owner,      \* where the thread that starts and stops the server is
  flags,      \* running_, stop_, and whether the listener is open
  starts,     \* how often the server was started
  queue,      \* ingress_: its items and whether it is closed
  acceptor,   \* where accept_loop is
  reducer,    \* where reducer_loop is, and the item it has taken
  conn,       \* the Connection objects, with the place their worker is at
  link,       \* the socket of each connection: frames under way, ends open
  client,     \* the AuthorityClients: place, calls made, replies read
  local,      \* the in-process callers: place, and whether they were answered
  served      \* history: the frames that reached the engine

vars == <<owner, flags, starts, queue, acceptor, reducer, conn, link, client, local, served>>

-----------------------------------------------------------------------------
(* The ingress queue.                                                      *)

Numbers == UNION {1..MaxCalls[c] : c \in Connections}

Frame(c, n, bye) == [kind |-> "Frame", from |-> c, number |-> n, bye |-> bye]
LocalRequest(l) == [kind |-> "LocalRequest", from |-> l, number |-> 0, bye |-> FALSE]
StopItem == [kind |-> "Stop", from |-> None, number |-> 0, bye |-> FALSE]
Items ==
  {Frame(c, n, b) : c \in Connections, n \in Numbers, b \in BOOLEAN}
    \cup {LocalRequest(l) : l \in Locals} \cup {StopItem}
NoItem == [kind |-> "none", from |-> None, number |-> 0, bye |-> FALSE]

\* Mutant of HasRoom: looks at the size after the push.
HasRoomForOneMore == ~queue.closed /\ Len(queue.items) <= Capacity

HasRoom == ~queue.closed /\ Len(queue.items) < Capacity

Push(item) == queue' = [queue EXCEPT !.items = Append(@, item)]

-----------------------------------------------------------------------------
(* Replies.  A refusal names no request on the wire; the number it carries *)
(* here, of the frame that was refused, is for the properties.             *)

NoReply == [kind |-> "none", number |-> 0, bye |-> FALSE]
Done(item) == [kind |-> "done", number |-> item.number, bye |-> item.bye]
Busy(n) == [kind |-> "busy", number |-> n, bye |-> FALSE]
Replies == [kind : {"done", "busy"}, number : {0} \cup Numbers, bye : BOOLEAN]

\* Connections accepted and not reaped: the size of connections_.
Registered == {c \in Connections : conn[c].at \notin {"absent", "backlog", "joined"}}

NoCall == [at |-> "idle", answered |-> FALSE]
NewConnection == [at |-> "absent", frame |-> NoItem, reply |-> NoReply, stopped |-> FALSE]
NewLink == [toServer |-> <<>>, toClient |-> <<>>, near |-> FALSE, far |-> FALSE, aborted |-> FALSE]

Init ==
  /\ owner = [at |-> "down", left |-> {}]
  /\ flags = [running |-> FALSE, stop |-> FALSE, listening |-> FALSE]
  /\ starts = 0
  /\ queue = [items |-> <<>>, closed |-> FALSE]
  /\ acceptor = "absent"
  /\ reducer = [at |-> "absent", item |-> NoItem]
  /\ conn = [c \in Connections |-> NewConnection]
  /\ link = [c \in Connections |-> NewLink]
  /\ client = [c \in Connections |-> [at |-> "away", calls |-> 0, read |-> <<>>]]
  /\ local = [l \in Locals |-> NoCall]
  /\ served = {}

-----------------------------------------------------------------------------
(* start and stop, called by one thread.                                   *)

\* start resets the queue before it opens the state ...
StartResets ==
  /\ owner.at = "down" /\ starts < MaxStarts
  /\ owner' = [owner EXCEPT !.at = "opening"]
  /\ starts' = starts + 1
  /\ flags' = [flags EXCEPT !.stop = FALSE]
  /\ queue' = [items |-> <<>>, closed |-> FALSE]
  /\ UNCHANGED <<acceptor, reducer, conn, link, client, local, served>>

\* ... which may fail, as binding the listener may ...
StartFails ==
  /\ owner.at = "opening"
  /\ owner' = [owner EXCEPT !.at = "down"]
  /\ UNCHANGED <<flags, starts, queue, acceptor, reducer, conn, link, client, local, served>>

\* ... and then lets the reducer and the acceptor go.
StartLaunches ==
  /\ owner.at = "opening"
  /\ owner' = [owner EXCEPT !.at = "up"]
  /\ flags' = [flags EXCEPT !.running = TRUE, !.listening = TRUE]
  /\ reducer' = [reducer EXCEPT !.at = "popping"]
  /\ acceptor' = "checking"
  /\ UNCHANGED <<starts, queue, conn, link, client, local, served>>

StopBegins ==
  /\ owner.at = "up"
  /\ owner' = [owner EXCEPT !.at = "closing"]
  /\ flags' = [flags EXCEPT !.running = FALSE, !.stop = TRUE]
  /\ UNCHANGED <<starts, queue, acceptor, reducer, conn, link, client, local, served>>

\* The server is done with these connections, and their sockets are closed.
Joined(gone) ==
  /\ conn' = [c \in Connections |-> [conn[c] EXCEPT !.at = IF c \in gone THEN "joined" ELSE @]]
  /\ link' = [c \in Connections |-> IF c \in gone THEN [link[c] EXCEPT !.near = FALSE, !.toServer = <<>>]
                                                    ELSE link[c]]

\* Closing the listener resets what still waits in its backlog.
StopClosesListener ==
  /\ owner.at = "closing"
  /\ owner' = [owner EXCEPT !.at = "joiningAcceptor"]
  /\ flags' = [flags EXCEPT !.listening = FALSE]
  /\ Joined({c \in Connections : conn[c].at = "backlog"})
  /\ UNCHANGED <<starts, queue, acceptor, reducer, client, local, served>>

\* Mutant of StopJoinsAcceptor: takes the connections without the join.
StopLeavesAcceptor ==
  /\ owner.at = "joiningAcceptor"
  /\ owner' = [at |-> "releasing", left |-> Registered]
  /\ UNCHANGED <<flags, starts, queue, acceptor, reducer, conn, link, client, local, served>>

StopJoinsAcceptor ==
  /\ owner.at = "joiningAcceptor" /\ acceptor = "exited"
  /\ owner' = [at |-> "releasing", left |-> Registered]
  /\ UNCHANGED <<flags, starts, queue, acceptor, reducer, conn, link, client, local, served>>

\* Mutant of StopReleases: asks the worker, but leaves its channel open.
StopAsks(c) ==
  /\ owner.at = "releasing" /\ c \in owner.left
  /\ owner' = [owner EXCEPT !.left = @ \ {c}]
  /\ conn' = [conn EXCEPT ![c].stopped = TRUE]
  /\ UNCHANGED <<flags, starts, queue, acceptor, reducer, link, client, local, served>>

\* join_connections, one connection: abort, then stop_requested, then notify.
StopReleases(c) ==
  /\ owner.at = "releasing" /\ c \in owner.left
  /\ owner' = [owner EXCEPT !.left = @ \ {c}]
  /\ link' = [link EXCEPT ![c].aborted = TRUE]
  /\ conn' = [conn EXCEPT ![c].stopped = TRUE]
  /\ UNCHANGED <<flags, starts, queue, acceptor, reducer, client, local, served>>

\* Mutant of StopJoinsWorkers: releases the workers without joining them.
StopLeavesWorkers ==
  /\ owner.at = "releasing" /\ owner.left = {}
  /\ owner' = [owner EXCEPT !.at = "telling"]
  /\ UNCHANGED <<flags, starts, queue, acceptor, reducer, conn, link, client, local, served>>

\* Once every worker is joined, the connections are dropped.
StopJoinsWorkers ==
  /\ owner.at = "releasing" /\ owner.left = {}
  /\ \A c \in Registered : conn[c].at = "finished"
  /\ owner' = [owner EXCEPT !.at = "telling"]
  /\ Joined(Registered)
  /\ UNCHANGED <<flags, starts, queue, acceptor, reducer, client, local, served>>

\* Whether the queue took the stop item is not looked at.
StopTells ==
  /\ owner.at = "telling"
  /\ \/ HasRoom /\ Push(StopItem)
     \/ ~HasRoom /\ UNCHANGED queue
  /\ owner' = [owner EXCEPT !.at = "joiningReducer"]
  /\ UNCHANGED <<flags, starts, acceptor, reducer, conn, link, client, local, served>>

StopJoinsReducer ==
  /\ owner.at = "joiningReducer" /\ reducer.at = "exited"
  /\ owner' = [owner EXCEPT !.at = "down"]
  /\ queue' = [queue EXCEPT !.closed = TRUE]
  /\ UNCHANGED <<flags, starts, acceptor, reducer, conn, link, client, local, served>>

-----------------------------------------------------------------------------
(* accept_loop                                                             *)

\* Each round looks at stop_, then reaps the connections whose worker is done.
AcceptorChecks ==
  /\ acceptor = "checking"
  /\ \/ /\ flags.stop
        /\ acceptor' = "exited"
        /\ UNCHANGED <<conn, link>>
     \/ /\ ~flags.stop
        /\ acceptor' = "polling"
        /\ Joined({c \in Connections : conn[c].at = "finished"})
  /\ UNCHANGED <<owner, flags, starts, queue, reducer, client, local, served>>

\* A connection from the backlog gets a worker, or a refusal at the limit.
Accepts(c) ==
  /\ acceptor = "polling" /\ flags.listening /\ conn[c].at = "backlog"
  /\ acceptor' = "checking"
  /\ \/ /\ Cardinality(Registered) < MaxConnections
        /\ conn' = [conn EXCEPT ![c].at = "checking"]
        /\ UNCHANGED link
     \/ /\ Cardinality(Registered) >= MaxConnections
        /\ conn' = [conn EXCEPT ![c].at = "joined"]
        /\ link' = [link EXCEPT ![c].toClient = <<Busy(0)>>, ![c].toServer = <<>>, ![c].near = FALSE]
  /\ UNCHANGED <<owner, flags, starts, queue, reducer, client, local, served>>

\* Nothing to accept within the poll, or the listener is gone.
AcceptorPolls ==
  /\ acceptor = "polling"
  /\ ~flags.listening \/ \A c \in Connections : conn[c].at # "backlog"
  /\ acceptor' = "checking"
  /\ UNCHANGED <<owner, flags, starts, queue, reducer, conn, link, client, local, served>>

-----------------------------------------------------------------------------
(* serve, the worker of a connection.                                      *)

WorkerGoes(c, place) == conn' = [conn EXCEPT ![c].at = place]
WorkerOnly == UNCHANGED <<owner, flags, starts, queue, acceptor, reducer, link, client, local, served>>

WorkerChecks(c) ==
  /\ conn[c].at = "checking"
  /\ WorkerGoes(c, IF flags.stop THEN "finished" ELSE "receiving")
  /\ WorkerOnly

WorkerReceives(c) ==
  /\ conn[c].at = "receiving" /\ link[c].toServer # <<>>
  /\ conn' = [conn EXCEPT ![c].at = "pushing", ![c].frame = Head(link[c].toServer)]
  /\ link' = [link EXCEPT ![c].toServer = Tail(@)]
  /\ UNCHANGED <<owner, flags, starts, queue, acceptor, reducer, client, local, served>>

\* The receive times out: the worker goes round again unless the server stops.
WorkerTimesOut(c) ==
  /\ conn[c].at = "receiving" /\ link[c].toServer = <<>>
  /\ link[c].far /\ ~link[c].aborted
  /\ WorkerGoes(c, IF flags.stop THEN "finished" ELSE "checking")
  /\ WorkerOnly

\* The peer has closed, or stop has aborted the channel.
WorkerSeesEnd(c) ==
  /\ conn[c].at = "receiving" /\ (link[c].aborted \/ ~link[c].far)
  /\ WorkerGoes(c, "finished")
  /\ WorkerOnly

\* Mutant of WorkerPushes: looks at the room after the push.
WorkerPushesAnyway(c) ==
  /\ conn[c].at = "pushing"
  /\ Push(conn[c].frame)
  /\ \/ /\ HasRoom
        /\ conn' = [conn EXCEPT ![c].at = "waiting", ![c].frame = NoItem]
     \/ /\ ~HasRoom
        /\ WorkerGoes(c, "refusing")
  /\ UNCHANGED <<owner, flags, starts, acceptor, reducer, link, client, local, served>>

WorkerPushes(c) ==
  /\ conn[c].at = "pushing"
  /\ \/ /\ HasRoom
        /\ Push(conn[c].frame)
        /\ conn' = [conn EXCEPT ![c].at = "waiting", ![c].frame = NoItem]
     \/ /\ ~HasRoom
        /\ WorkerGoes(c, "refusing")
        /\ UNCHANGED queue
  /\ UNCHANGED <<owner, flags, starts, acceptor, reducer, link, client, local, served>>

\* A frame can be sent unless the channel is aborted; a peer that has closed may
\* or may not make the send fail.
Sends(c, reply) ==
  /\ ~link[c].aborted
  /\ link' = [link EXCEPT ![c].toClient = IF link[c].far THEN Append(@, reply) ELSE @]

SendFails(c) == (link[c].aborted \/ ~link[c].far) /\ UNCHANGED link

\* The queue was full: the peer is told so, and the worker goes on.
WorkerRefuses(c) ==
  /\ conn[c].at = "refusing"
  /\ Sends(c, Busy(conn[c].frame.number)) \/ SendFails(c)
  /\ conn' = [conn EXCEPT ![c].at = "checking", ![c].frame = NoItem]
  /\ UNCHANGED <<owner, flags, starts, queue, acceptor, reducer, client, local, served>>

\* The wait on the mailbox ends with a reply, or without one when stop asks.
WorkerWaits(c) ==
  /\ conn[c].at = "waiting"
  /\ conn[c].reply # NoReply \/ conn[c].stopped
  /\ WorkerGoes(c, IF conn[c].reply # NoReply THEN "sending" ELSE "finished")
  /\ WorkerOnly

\* Mutant of WorkerSends: does not reset reply_ready.
WorkerSendsAgain(c) ==
  /\ conn[c].at = "sending"
  /\ \/ /\ Sends(c, conn[c].reply)
        /\ WorkerGoes(c, IF conn[c].reply.bye THEN "finished" ELSE "checking")
     \/ /\ SendFails(c)
        /\ WorkerGoes(c, "finished")
  /\ UNCHANGED <<owner, flags, starts, queue, acceptor, reducer, client, local, served>>

WorkerSends(c) ==
  /\ conn[c].at = "sending"
  /\ \/ /\ Sends(c, conn[c].reply)
        /\ conn' = [conn EXCEPT ![c].reply = NoReply,
                                ![c].at = IF conn[c].reply.bye THEN "finished" ELSE "checking"]
     \/ /\ SendFails(c)
        /\ conn' = [conn EXCEPT ![c].reply = NoReply, ![c].at = "finished"]
  /\ UNCHANGED <<owner, flags, starts, queue, acceptor, reducer, client, local, served>>

-----------------------------------------------------------------------------
(* reducer_loop                                                            *)

\* The queue hands out its oldest item; a batch only decides which of the two
\* pops asks for it.  A period without an item is a round of housekeeping, which
\* only the engine sees.  The queue is not closed while the reducer lives.
ReducerPops ==
  /\ reducer.at = "popping" /\ queue.items # <<>>
  /\ reducer' = [at |-> "serving", item |-> Head(queue.items)]
  /\ queue' = [queue EXCEPT !.items = Tail(@)]
  /\ UNCHANGED <<owner, flags, starts, acceptor, conn, link, client, local, served>>

\* Mutant of ReducerStops: ends the batch, not the loop.
ReducerStopsBatch ==
  /\ reducer.at = "serving" /\ reducer.item.kind = "Stop"
  /\ reducer' = [at |-> "popping", item |-> NoItem]
  /\ UNCHANGED <<owner, flags, starts, queue, acceptor, conn, link, client, local, served>>

ReducerStops ==
  /\ reducer.at = "serving" /\ reducer.item.kind = "Stop"
  /\ reducer' = [at |-> "exited", item |-> NoItem]
  /\ UNCHANGED <<owner, flags, starts, queue, acceptor, conn, link, client, local, served>>

\* Mutant of ReducerServes: delivers nothing once the peer has hung up, which leaves
\* the worker without a reply.
ReducerServesOpen ==
  /\ reducer.at = "serving" /\ reducer.item.kind = "Frame"
  /\ conn' = [conn EXCEPT ![reducer.item.from].reply =
                IF link[reducer.item.from].far THEN Done(reducer.item) ELSE NoReply]
  /\ served' = served \cup {<<reducer.item.from, reducer.item.number>>}
  /\ reducer' = [at |-> "popping", item |-> NoItem]
  /\ UNCHANGED <<owner, flags, starts, queue, acceptor, link, client, local>>

\* process: the engine answers, and deliver fills the mailbox of the connection.
ReducerServes ==
  /\ reducer.at = "serving" /\ reducer.item.kind = "Frame"
  /\ conn' = [conn EXCEPT ![reducer.item.from].reply = Done(reducer.item)]
  /\ served' = served \cup {<<reducer.item.from, reducer.item.number>>}
  /\ reducer' = [at |-> "popping", item |-> NoItem]
  /\ UNCHANGED <<owner, flags, starts, queue, acceptor, link, client, local>>

\* Mutant of ReducerServesLocal: loses the answer when more work waits.
ReducerServesLocalIdle ==
  /\ reducer.at = "serving" /\ reducer.item.kind = "LocalRequest"
  /\ local' = [local EXCEPT ![reducer.item.from].answered = queue.items = <<>>]
  /\ reducer' = [at |-> "popping", item |-> NoItem]
  /\ UNCHANGED <<owner, flags, starts, queue, acceptor, conn, link, client, served>>

ReducerServesLocal ==
  /\ reducer.at = "serving" /\ reducer.item.kind = "LocalRequest"
  /\ local' = [local EXCEPT ![reducer.item.from].answered = TRUE]
  /\ reducer' = [at |-> "popping", item |-> NoItem]
  /\ UNCHANGED <<owner, flags, starts, queue, acceptor, conn, link, client, served>>

-----------------------------------------------------------------------------
(* round_trip_local, called by apply and inspect.                          *)

\* A new mailbox; a server that does not run is not asked.
LocalCalls(l) ==
  /\ local[l].at = "idle" /\ flags.running
  /\ local' = [local EXCEPT ![l].at = "pushing"]
  /\ UNCHANGED <<owner, flags, starts, queue, acceptor, reducer, conn, link, client, served>>

LocalPushes(l) ==
  /\ local[l].at = "pushing"
  /\ \/ /\ HasRoom
        /\ Push(LocalRequest(l))
        /\ local' = [local EXCEPT ![l].at = "waiting"]
     \/ /\ ~HasRoom
        /\ local' = [local EXCEPT ![l].at = "idle"]
        /\ UNCHANGED queue
  /\ UNCHANGED <<owner, flags, starts, acceptor, reducer, conn, link, client, served>>

LocalWaits(l) ==
  /\ local[l].at = "waiting" /\ local[l].answered
  /\ local' = [local EXCEPT ![l] = NoCall]
  /\ UNCHANGED <<owner, flags, starts, queue, acceptor, reducer, conn, link, client, served>>

-----------------------------------------------------------------------------
(* AuthorityClient                                                         *)

ClientConnects(c) ==
  /\ client[c].at = "away" /\ flags.listening
  /\ client' = [client EXCEPT ![c].at = "idle"]
  /\ conn' = [conn EXCEPT ![c].at = "backlog"]
  /\ link' = [link EXCEPT ![c].near = TRUE, ![c].far = TRUE]
  /\ UNCHANGED <<owner, flags, starts, queue, acceptor, reducer, local, served>>

\* exchange: the next sequence number, the frame is sent, the reply awaited.
ClientCalls(c, bye) ==
  /\ client[c].at = "idle" /\ client[c].calls < MaxCalls[c]
  /\ LET n == client[c].calls + 1 IN
     /\ client' = [client EXCEPT ![c].calls = n, ![c].at = IF bye THEN "leaving" ELSE "waiting"]
     /\ link' = [link EXCEPT ![c].toServer = IF link[c].near THEN Append(@, Frame(c, n, bye)) ELSE @]
  /\ UNCHANGED <<owner, flags, starts, queue, acceptor, reducer, conn, local, served>>

\* The client hangs up, and what it has not read is gone.
HangsUp(c) == link' = [link EXCEPT ![c].far = FALSE, ![c].toClient = <<>>]

\* receive: the first frame under way is the reply, whichever call it answers.
\* A client that said bye closes its end then.
ClientReads(c) ==
  /\ client[c].at \in {"waiting", "leaving"} /\ link[c].toClient # <<>>
  /\ LET reply == Head(link[c].toClient)
         read == Append(client[c].read, [call |-> client[c].calls, reply |-> reply]) IN
     \/ /\ client[c].at = "waiting"
        /\ client' = [client EXCEPT ![c].read = read, ![c].at = "idle"]
        /\ link' = [link EXCEPT ![c].toClient = Tail(@)]
     \/ /\ client[c].at = "leaving"
        /\ client' = [client EXCEPT ![c].read = read, ![c].at = "closed"]
        /\ HangsUp(c)
  /\ UNCHANGED <<owner, flags, starts, queue, acceptor, reducer, conn, local, served>>

\* No reply within the timeout: the call fails and the connection stays open.
ClientTimesOut(c) ==
  /\ client[c].at = "waiting"
  /\ client' = [client EXCEPT ![c].at = "idle"]
  /\ UNCHANGED <<owner, flags, starts, queue, acceptor, reducer, conn, link, local, served>>

\* close, bye without an answer, the end of the process, or the server hung up.
ClientCloses(c) ==
  /\ client[c].at \in {"idle", "waiting", "leaving"}
  /\ client' = [client EXCEPT ![c].at = "closed"]
  /\ HangsUp(c)
  /\ UNCHANGED <<owner, flags, starts, queue, acceptor, reducer, conn, local, served>>

-----------------------------------------------------------------------------
OwnerStops ==
  \/ StopClosesListener \/ StopJoinsAcceptor \/ StopJoinsWorkers
  \/ StopTells \/ StopJoinsReducer
  \/ \E c \in Connections : StopReleases(c)

AcceptorStep == AcceptorChecks \/ AcceptorPolls \/ \E c \in Connections : Accepts(c)

WorkerStep(c) ==
  \/ WorkerChecks(c) \/ WorkerReceives(c) \/ WorkerSeesEnd(c) \/ WorkerPushes(c)
  \/ WorkerRefuses(c) \/ WorkerWaits(c) \/ WorkerSends(c)

ReducerStep ==
  ReducerPops \/ ReducerStops \/ ReducerServes \/ ReducerServesLocal

LocalStep(l) == LocalPushes(l) \/ LocalWaits(l)

ClientStep(c) ==
  \/ ClientConnects(c) \/ ClientReads(c) \/ ClientTimesOut(c) \/ ClientCloses(c)
  \/ \E bye \in BOOLEAN : ClientCalls(c, bye)

Next ==
  \/ StartResets \/ StartFails \/ StartLaunches \/ StopBegins \/ OwnerStops
  \/ AcceptorStep \/ ReducerStep
  \/ \E c \in Connections : WorkerStep(c) \/ WorkerTimesOut(c) \/ ClientStep(c)
  \/ \E l \in Locals : LocalCalls(l) \/ LocalStep(l)

Spec == Init /\ [][Next]_vars

\* A thread that can go on does.  Nobody has to call start or stop, no client or
\* local caller has to call, and no timeout has to pass.
Fairness ==
  /\ WF_vars(OwnerStops) /\ WF_vars(AcceptorStep) /\ WF_vars(ReducerStep)
  /\ \A c \in Connections : WF_vars(WorkerStep(c))
  /\ \A l \in Locals : WF_vars(LocalStep(l))

FairSpec == Spec /\ Fairness

-----------------------------------------------------------------------------
(* Properties                                                              *)

Places ==
  [owner |-> {"down", "opening", "up", "closing", "joiningAcceptor", "releasing",
            "telling", "joiningReducer"},
   acceptor |-> {"absent", "checking", "polling", "exited"},
   reducer |-> {"absent", "popping", "serving", "exited"},
   worker |-> {"absent", "backlog", "checking", "receiving", "pushing", "refusing",
             "waiting", "sending", "finished", "joined"},
   local |-> {"idle", "pushing", "waiting"},
   client |-> {"away", "idle", "waiting", "leaving", "closed"}]

\* Every variable has its type, and the queue never holds more than it may.
TypeOK ==
  /\ owner \in [at : Places.owner, left : SUBSET Connections]
  /\ flags \in [running : BOOLEAN, stop : BOOLEAN, listening : BOOLEAN]
  /\ starts \in 0..MaxStarts
  /\ queue \in [items : Seq(Items), closed : BOOLEAN] /\ Len(queue.items) <= Capacity
  /\ acceptor \in Places.acceptor
  /\ reducer \in [at : Places.reducer, item : Items \cup {NoItem}]
  /\ conn \in [Connections -> [at : Places.worker, frame : Items \cup {NoItem},
                               reply : Replies \cup {NoReply}, stopped : BOOLEAN]]
  /\ link \in [Connections -> [toServer : Seq(Items), toClient : Seq(Replies),
                               near : BOOLEAN, far : BOOLEAN, aborted : BOOLEAN]]
  /\ client \in [Connections -> [at : Places.client, calls : {0} \cup Numbers,
                                 read : Seq([call : Numbers, reply : Replies])]]
  /\ local \in [Locals -> [at : Places.local, answered : BOOLEAN]]
  /\ served \subseteq Connections \X Numbers

\* What a client has read and what is on its way to it.
RepliesTo(c) ==
  [i \in DOMAIN client[c].read |-> client[c].read[i].reply] \o link[c].toClient

\* On one connection the i-th reply answers the i-th frame: no frame goes
\* unanswered while a later one is answered, and none is answered twice.  The one
\* reply to a connection over the limit answers none.
AnswersInOrder ==
  \A c \in Connections :
    \A i \in DOMAIN RepliesTo(c) :
      \/ RepliesTo(c)[i].number = i
      \/ RepliesTo(c) = <<Busy(0)>>

\* A caller that is told "retry later" may retry: its frame has not reached the
\* engine and never will.  A caller that gets an answer was served.
RefusalsAreTrue ==
  \A c \in Connections :
    \A i \in DOMAIN RepliesTo(c) :
      LET reply == RepliesTo(c)[i] IN
      reply.kind = "done" <=> <<c, reply.number>> \in served

\* A frame the queue took is served before the reducer ends: the stop item comes
\* after the last frame of the last worker.
AcceptedIsServed ==
  reducer.at = "exited" =>
    \A i \in DOMAIN queue.items : queue.items[i].kind # "Frame"

\* Behind stop no thread is left: past its joins no worker lives, and a server
\* that is down has neither an acceptor nor a reducer that could touch the engine.
StoppedMeansJoined ==
  /\ owner.at \in {"telling", "joiningReducer", "down", "opening"} => Registered = {}
  /\ owner.at \in {"down", "opening"} =>
       acceptor \in {"absent", "exited"} /\ reducer.at \in {"absent", "exited"}

\* A worker does not wait for its reply for good, whether the server stops or not.
WorkersAreAnswered ==
  \A c \in Connections :
    conn[c].at = "waiting" ~> conn[c].at # "waiting"

\* An in-process caller is answered, unless the server is stopped meanwhile.
LocalsAreAnswered ==
  \A l \in Locals :
    local[l].at = "waiting" ~> (local[l].at = "idle" \/ ~flags.running)

\* stop gets past its workers, whatever their clients do or leave undone.
WorkersAreReleased == owner.at = "releasing" ~> owner.at = "telling"

\* Once the queue has taken the stop item, stop returns.
ToldReducerEnds ==
  (\E i \in DOMAIN queue.items : queue.items[i].kind = "Stop") ~> owner.at = "down"

\* stop returns.  "close() wakes every waiter so shutdown cannot hang"
\* (bounded_queue.hpp:13), but the queue is closed only after the reducer is joined.
StopReturns == owner.at = "closing" ~> owner.at = "down"

\* A client takes no reply for the answer to a call that belongs to another call
\* (client.hpp:6-8).
OwnReply ==
  \A c \in Connections :
    \A i \in DOMAIN client[c].read :
      client[c].read[i].reply.number \in {0, client[c].read[i].call}

===============================================================================
