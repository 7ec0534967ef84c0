-------------------------- MODULE ServerThreadsProofs --------------------------
(***************************************************************************)
(* ServerThreads keeps its safety properties for any number of             *)
(* connections, callers, calls and starts, and for queues of any capacity. *)
(*                                                                         *)
(* Three things go together.  ThreadsOK says which threads live while stop *)
(* is where; StopOK says that nothing a worker pushed lies behind the stop *)
(* item; and ConnOK follows each frame of a connection from its socket     *)
(* through the worker, the queue, the engine and the mailbox to its reply: *)
(* it is in one of these places at a time, and a worker that lives has     *)
(* answered every frame it took but the one in its hands.                  *)
(***************************************************************************)
EXTENDS ServerThreads, DataLemmas

-------------------------------------------------------------------------------
(* The inductive invariant                                                 *)

\* The places of a connection the server still works on, and those where its
\* worker has a frame it has not answered.
Active == {"backlog", "checking", "receiving", "pushing", "refusing", "waiting", "sending"}
Owing == {"pushing", "refusing", "waiting", "sending"}

IsFrom(item, c) == item.kind = "Frame" /\ item.from = c

\* The frames of a connection between its worker and the engine ...
Carried(c) ==
  {x \in {queue.items[i] : i \in DOMAIN queue.items} \cup {reducer.item} : IsFrom(x, c)}

\* ... of which there is one at most.
Single(c) ==
  /\ \A i, j \in DOMAIN queue.items :
       IsFrom(queue.items[i], c) /\ IsFrom(queue.items[j], c) => i = j
  /\ IsFrom(reducer.item, c) => \A i \in DOMAIN queue.items : ~IsFrom(queue.items[i], c)

\* The replies to a client, the frames its worker has taken, the replies it owes.
Got(c) == Len(RepliesTo(c))
Taken(c) == client[c].calls - Len(link[c].toServer)
Owed(c) == IF conn[c].at \in Owing THEN 1 ELSE 0

\* No later frame has been answered or served.
Fresh(c, n) ==
  Got(c) < n /\ n <= Taken(c) /\ \A m \in Numbers : <<c, m>> \in served => m < n

\* Who lives while stop is where.
ThreadsOK ==
  /\ owner.at \in {"down", "opening"} =>
       acceptor \in {"absent", "exited"} /\ reducer.at \in {"absent", "exited"}
  /\ owner.at \in {"up", "closing", "joiningAcceptor", "releasing", "telling"} =>
       reducer.at \in {"popping", "serving"}
  /\ owner.at \in {"releasing", "telling", "joiningReducer"} => acceptor = "exited"
  /\ owner.at \in {"telling", "joiningReducer", "down", "opening"} => Registered = {}

\* The stop item is the last thing the workers' queue sees.
StopOK ==
  /\ reducer.at = "serving" <=> reducer.item # NoItem
  /\ reducer.item.kind = "Stop" => owner.at = "joiningReducer"
  /\ \A i \in DOMAIN queue.items :
       queue.items[i].kind = "Stop" => owner.at \in {"joiningReducer", "down"}
  /\ \A i, j \in DOMAIN queue.items :
       i < j /\ queue.items[i].kind = "Stop" => queue.items[j].kind # "Frame"
  /\ reducer.item.kind = "Stop" \/ reducer.at = "exited" =>
       \A i \in DOMAIN queue.items : queue.items[i].kind # "Frame"

ClientOK(c) ==
  /\ client[c].at = "away" =>
       conn[c].at = "absent" /\ client[c].calls = 0 /\ RepliesTo(c) = <<>> /\ ~link[c].near
  /\ client[c].at \in {"waiting", "leaving"} => client[c].calls # 0

\* The frames under way are the last the client sent.
LinkOK(c) ==
  /\ conn[c].at \in Active => link[c].near
  /\ ~link[c].near => link[c].toServer = <<>>
  /\ Len(link[c].toServer) <= client[c].calls
  /\ \A i \in DOMAIN link[c].toServer :
       IsFrom(link[c].toServer[i], c) /\ link[c].toServer[i].number = Taken(c) + i

\* A worker that lives has answered every frame it took but the one in its hands.
LevelOK(c) ==
  /\ conn[c].at \in Active => Got(c) + Owed(c) <= Taken(c)
  /\ conn[c].at \in Active /\ link[c].far /\ ~link[c].aborted => Taken(c) = Got(c) + Owed(c)
  /\ conn[c].at = "backlog" => Taken(c) = 0

\* What the worker, the queue and the mailbox hold.
HandOK(c) ==
  /\ conn[c].at \in {"pushing", "refusing"} =>
       IsFrom(conn[c].frame, c) /\ Fresh(c, conn[c].frame.number)
  /\ conn[c].at \in {"absent", "backlog", "checking", "receiving", "pushing", "refusing"} =>
       Carried(c) = {} /\ conn[c].reply = NoReply
  /\ conn[c].at = "sending" => conn[c].reply # NoReply
  /\ conn[c].reply # NoReply =>
       /\ Carried(c) = {} /\ conn[c].reply.kind = "done"
       /\ Got(c) < conn[c].reply.number /\ conn[c].reply.number <= Taken(c)
       /\ <<c, conn[c].reply.number>> \in served
  /\ \A x \in Carried(c) : Fresh(c, x.number)
  /\ Single(c)
  /\ \A m \in Numbers : <<c, m>> \in served => m <= Taken(c)

AnswersOK(c) ==
  /\ \/ \A i \in DOMAIN RepliesTo(c) : RepliesTo(c)[i].number = i
     \/ RepliesTo(c) = <<Busy(0)>> /\ conn[c].at = "joined"
  /\ \A i \in DOMAIN RepliesTo(c) :
       RepliesTo(c)[i].kind = "done" <=> <<c, RepliesTo(c)[i].number>> \in served

ConnOK(c) == ClientOK(c) /\ LinkOK(c) /\ LevelOK(c) /\ HandOK(c) /\ AnswersOK(c)

Inv == TypeOK /\ ThreadsOK /\ StopOK /\ \A c \in Connections : ConnOK(c)

-------------------------------------------------------------------------------
(* Items, numbers and replies *)

\* Calls are numbered from one.
LEMMA NumbersArePositive ==
  Numbers \subseteq Nat \ {0} /\ \A n \in {0} \cup Numbers : n \in Nat
<1>1. Numbers \subseteq Nat \ {0}
  BY ThreadsAssumption DEF Numbers
<1> QED BY <1>1

\* What an item of the queue, or of the reducer's hand, can be.
LEMMA ItemFacts ==
  ASSUME NEW x \in Items \cup {NoItem}
  PROVE  /\ x.kind \in {"Frame", "LocalRequest", "Stop", "none"}
         /\ x.kind = "none" <=> x = NoItem
         /\ x.kind = "Frame" => x.from \in Connections /\ x.number \in Numbers /\ x.bye \in BOOLEAN
         /\ x.kind = "LocalRequest" => x.from \in Locals
BY DEF Items, NoItem, Frame, LocalRequest, StopItem

\* What a frame is.
LEMMA FrameFacts ==
  ASSUME NEW c \in Connections, NEW n \in Numbers, NEW b \in BOOLEAN
  PROVE  /\ Frame(c, n, b) \in Items /\ Frame(c, n, b).kind = "Frame"
         /\ Frame(c, n, b).from = c /\ Frame(c, n, b).number = n
BY DEF Items, Frame

\* The stop item and a local request are items, and no frames.
LEMMA OtherItems ==
  /\ StopItem \in Items /\ StopItem.kind = "Stop"
  /\ \A l \in Locals : LocalRequest(l) \in Items /\ LocalRequest(l).kind = "LocalRequest"
  /\ NoItem.kind = "none" /\ NoItem \notin Items
<1>1. StopItem \in Items
  BY DEF Items
<1>2. \A l \in Locals : LocalRequest(l) \in Items
  BY DEF Items
<1>3. NoItem \notin Items
  <2>1. \A x \in Items : x.kind \in {"Frame", "LocalRequest", "Stop"}
    BY DEF Items, Frame, LocalRequest, StopItem
  <2>2. NoItem.kind = "none"
    BY DEF NoItem
  <2> QED BY <2>1, <2>2
<1> QED BY <1>1, <1>2, <1>3 DEF StopItem, LocalRequest, NoItem

\* The answer to a frame, and a refusal, are replies.
LEMMA ReplyFacts ==
  /\ \A x \in Items : x.kind = "Frame" =>
       /\ Done(x) \in Replies /\ Done(x) # NoReply
       /\ Done(x).kind = "done" /\ Done(x).number = x.number
  /\ \A n \in {0} \cup Numbers :
       Busy(n) \in Replies /\ Busy(n).kind = "busy" /\ Busy(n).number = n
  /\ \A r \in Replies : r # NoReply /\ r.kind \in {"done", "busy"} /\ r.number \in {0} \cup Numbers
  /\ NoReply \notin Replies
<1>1. \A x \in Items : x.kind = "Frame" => x.number \in Numbers /\ x.bye \in BOOLEAN
  BY ItemFacts
<1> QED BY <1>1 DEF Done, Busy, Replies, NoReply

\* The number of a reply, or of none, is a natural number.
LEMMA ReplyNumbers ==
  /\ \A r \in Replies : r.number \in Nat
  /\ NoReply.number \in Nat
<1>1. ASSUME NEW r \in Replies PROVE r.number \in Nat
  <2>1. r.number \in {0} \cup Numbers
    BY ReplyFacts
  <2> QED BY <2>1, NumbersArePositive
<1>2. NoReply.number \in Nat
  BY DEF NoReply
<1> QED BY <1>1, <1>2

-------------------------------------------------------------------------------
(* Types *)

\* The types of the queue, of connections and of sockets.
QueueType == [items : Seq(Items), closed : BOOLEAN]
ConnType == [at : Places.worker, frame : Items \cup {NoItem},
             reply : Replies \cup {NoReply}, stopped : BOOLEAN]
LinkType == [toServer : Seq(Items), toClient : Seq(Replies),
             near : BOOLEAN, far : BOOLEAN, aborted : BOOLEAN]
ClientType == [at : Places.client, calls : {0} \cup Numbers,
               read : Seq([call : Numbers, reply : Replies])]

\* Room in the queue is room for one more.
LEMMA PushTyped ==
  ASSUME TypeOK, NEW x \in Items, HasRoom, Push(x)
  PROVE  /\ queue' \in QueueType /\ Len(queue.items') <= Capacity
         /\ queue.items' = Append(queue.items, x)
         /\ Len(queue.items) \in Nat /\ Len(queue.items') = Len(queue.items) + 1
         /\ \A i \in 1..Len(queue.items) : queue.items'[i] = queue.items[i]
         /\ queue.items'[Len(queue.items) + 1] = x
<1>1. queue \in QueueType /\ Len(queue.items) < Capacity /\ Capacity \in Nat
  BY ThreadsAssumption DEF TypeOK, HasRoom, QueueType
<1>2. queue' = [queue EXCEPT !.items = Append(@, x)]
  BY DEF Push
<1>3. queue.items \in Seq(Items) /\ queue.items' = Append(queue.items, x)
  BY <1>1, <1>2 DEF QueueType
<1>4. /\ Append(queue.items, x) \in Seq(Items)
      /\ Len(queue.items) \in Nat /\ Len(Append(queue.items, x)) = Len(queue.items) + 1
      /\ \A i \in 1..Len(queue.items) : Append(queue.items, x)[i] = queue.items[i]
      /\ Append(queue.items, x)[Len(queue.items) + 1] = x
  <2> HIDE <1>1, <1>2
  <2> QED BY <1>3, AppendFacts
<1>5. queue' \in QueueType
  BY <1>1, <1>2, <1>3, <1>4 DEF QueueType
<1> QED BY <1>1, <1>3, <1>4, <1>5

\* Taking the oldest item leaves the others, each one place further.
LEMMA TailFacts ==
  ASSUME NEW S, NEW s \in Seq(S), s # <<>>
  PROVE  /\ Head(s) \in S /\ Tail(s) \in Seq(S)
         /\ Head(s) = s[1] /\ Len(s) \in Nat \ {0} /\ Len(Tail(s)) = Len(s) - 1
         /\ \A i \in 1..(Len(s) - 1) : Tail(s)[i] = s[i + 1]
<1>1. Len(s) \in Nat \ {0}
  BY EmptySeq, LenProperties
<1> QED BY <1>1, HeadTailProperties

\* The server lets go of some connections.
LEMMA JoinedTyped ==
  ASSUME TypeOK, NEW gone \in SUBSET Connections, Joined(gone)
  PROVE  conn' \in [Connections -> ConnType] /\ link' \in [Connections -> LinkType]
<1>1. conn \in [Connections -> ConnType] /\ link \in [Connections -> LinkType]
  BY DEF TypeOK, ConnType, LinkType
<1>2. \A c \in Connections :
        [conn[c] EXCEPT !.at = IF c \in gone THEN "joined" ELSE @] \in ConnType
  BY <1>1 DEF ConnType, Places
<1>3. \A c \in Connections :
        (IF c \in gone THEN [link[c] EXCEPT !.near = FALSE, !.toServer = <<>>] ELSE link[c])
          \in LinkType
  <2>1. <<>> \in Seq(Items)
    BY EmptySeq
  <2> QED BY <1>1, <2>1 DEF LinkType
<1> QED BY <1>2, <1>3 DEF Joined

\* Initially every variable has its type.
LEMMA TypeInit == Init => TypeOK
<1> SUFFICES ASSUME Init PROVE TypeOK
  OBVIOUS
<1>1. <<>> \in Seq(Items) /\ <<>> \in Seq(Replies) /\ <<>> \in Seq([call : Numbers, reply : Replies])
      /\ Len(<<>>) = 0
  BY EmptySeq
<1>2. queue \in QueueType /\ Len(queue.items) <= Capacity
  BY <1>1, ThreadsAssumption DEF Init, QueueType
<1>3. conn \in [Connections -> ConnType]
  BY DEF Init, ConnType, NewConnection, Places
<1>4. link \in [Connections -> LinkType] /\ client \in [Connections -> ClientType]
  BY <1>1 DEF Init, LinkType, NewLink, ClientType, Places
<1>5. /\ owner \in [at : Places.owner, left : SUBSET Connections]
      /\ flags \in [running : BOOLEAN, stop : BOOLEAN, listening : BOOLEAN]
      /\ starts \in 0..MaxStarts /\ acceptor \in Places.acceptor
      /\ reducer \in [at : Places.reducer, item : Items \cup {NoItem}]
      /\ local \in [Locals -> [at : Places.local, answered : BOOLEAN]]
      /\ served \subseteq Connections \X Numbers
  BY ThreadsAssumption DEF Init, Places, NoCall
<1> QED BY <1>2, <1>3, <1>4, <1>5 DEF TypeOK, QueueType, ConnType, LinkType, ClientType

\* TypeOK in its parts.
OwnerTyped ==
  /\ owner \in [at : Places.owner, left : SUBSET Connections]
  /\ flags \in [running : BOOLEAN, stop : BOOLEAN, listening : BOOLEAN]
  /\ starts \in 0..MaxStarts /\ acceptor \in Places.acceptor
QueueTyped ==
  /\ queue \in QueueType /\ Len(queue.items) <= Capacity
  /\ reducer \in [at : Places.reducer, item : Items \cup {NoItem}]
ConnTyped == conn \in [Connections -> ConnType]
LinkTyped == link \in [Connections -> LinkType]
ClientTyped == client \in [Connections -> ClientType]
LocalTyped == local \in [Locals -> [at : Places.local, answered : BOOLEAN]]
ServedTyped == served \subseteq Connections \X Numbers

\* The parts are the whole.
LEMMA TypesInParts ==
  /\ TypeOK <=> OwnerTyped /\ QueueTyped /\ ConnTyped /\ LinkTyped /\ ClientTyped
                  /\ LocalTyped /\ ServedTyped
BY DEF TypeOK, OwnerTyped, QueueTyped, ConnTyped, LinkTyped, ClientTyped, LocalTyped,
       ServedTyped, QueueType, ConnType, LinkType, ClientType

\* Assignments to the fields of a connection.
LEMMA ConnUpdates ==
  ASSUME NEW r \in ConnType
  PROVE  /\ [r EXCEPT !.stopped = TRUE] \in ConnType
         /\ \A p \in Places.worker : [r EXCEPT !.at = p] \in ConnType
         /\ \A p \in Places.worker, x \in Items \cup {NoItem} :
              [r EXCEPT !.at = p, !.frame = x] \in ConnType
         /\ \A p \in Places.worker, y \in Replies \cup {NoReply} :
              [r EXCEPT !.reply = y, !.at = p] \in ConnType
         /\ \A y \in Replies \cup {NoReply} : [r EXCEPT !.reply = y] \in ConnType
<1> DEFINE W == Places.worker
           F == Items \cup {NoItem}
           Y == Replies \cup {NoReply}
<1>1. ConnType = [at : W, frame : F, reply : Y, stopped : BOOLEAN]
  BY DEF ConnType
<1> HIDE DEF W, F, Y
<1>2. /\ r.at \in W /\ r.frame \in F /\ r.reply \in Y /\ r.stopped \in BOOLEAN
      /\ r = [at |-> r.at, frame |-> r.frame, reply |-> r.reply, stopped |-> r.stopped]
  BY <1>1
<1>3. /\ [r EXCEPT !.stopped = TRUE] \in ConnType
      /\ \A p \in W : [r EXCEPT !.at = p] \in ConnType
  BY <1>1, <1>2
<1>4. \A p \in W, x \in F : [r EXCEPT !.at = p, !.frame = x] \in ConnType
  BY <1>1, <1>2
<1>5. \A p \in W, y \in Y : [r EXCEPT !.reply = y, !.at = p] \in ConnType
  BY <1>1, <1>2
<1>6. \A y \in Y : [r EXCEPT !.reply = y] \in ConnType
  BY <1>1, <1>2
<1> QED BY <1>3, <1>4, <1>5, <1>6 DEF W, F, Y

\* Assignments to the fields of a socket.
LEMMA LinkUpdates ==
  ASSUME NEW r \in LinkType
  PROVE  /\ [r EXCEPT !.aborted = TRUE] \in LinkType
         /\ [r EXCEPT !.near = TRUE, !.far = TRUE] \in LinkType
         /\ \A s \in Seq(Items) : [r EXCEPT !.toServer = s] \in LinkType
         /\ \A s \in Seq(Replies) : [r EXCEPT !.toClient = s] \in LinkType
         /\ \A s \in Seq(Replies) : [r EXCEPT !.far = FALSE, !.toClient = s] \in LinkType
         /\ \A s \in Seq(Replies), t \in Seq(Items) :
              [r EXCEPT !.toClient = s, !.toServer = t, !.near = FALSE] \in LinkType
<1> DEFINE I == Seq(Items)
           Y == Seq(Replies)
<1>1. LinkType = [toServer : I, toClient : Y, near : BOOLEAN, far : BOOLEAN, aborted : BOOLEAN]
  BY DEF LinkType
<1> HIDE DEF I, Y
<1>2. /\ r.toServer \in I /\ r.toClient \in Y
      /\ r.near \in BOOLEAN /\ r.far \in BOOLEAN /\ r.aborted \in BOOLEAN
      /\ r = [toServer |-> r.toServer, toClient |-> r.toClient, near |-> r.near, far |-> r.far,
              aborted |-> r.aborted]
  BY <1>1
<1>3. /\ [r EXCEPT !.aborted = TRUE] \in LinkType
      /\ [r EXCEPT !.near = TRUE, !.far = TRUE] \in LinkType
  BY <1>1, <1>2
<1>4. \A s \in I : [r EXCEPT !.toServer = s] \in LinkType
  BY <1>1, <1>2
<1>5. \A s \in Y : /\ [r EXCEPT !.toClient = s] \in LinkType
                   /\ [r EXCEPT !.far = FALSE, !.toClient = s] \in LinkType
  BY <1>1, <1>2
<1>6. \A s \in Y, t \in I : [r EXCEPT !.toClient = s, !.toServer = t, !.near = FALSE] \in LinkType
  BY <1>1, <1>2
<1> QED BY <1>3, <1>4, <1>5, <1>6 DEF I, Y

\* A step of the thread that starts and stops keeps the types.
LEMMA OwnerKeepsTypes ==
  ASSUME TypeOK,
         StartResets \/ StartFails \/ StartLaunches \/ StopBegins \/ OwnerStops
  PROVE  TypeOK'
<1> USE DEF Places, OwnerTyped, QueueTyped, ConnTyped, LinkTyped, ClientTyped, LocalTyped,
            ServedTyped
<1>t. OwnerTyped /\ QueueTyped /\ ConnTyped /\ LinkTyped /\ ClientTyped /\ LocalTyped /\ ServedTyped
  BY TypesInParts
<1> SUFFICES (OwnerTyped /\ QueueTyped /\ ConnTyped /\ LinkTyped /\ ClientTyped /\ LocalTyped
                /\ ServedTyped)'
  BY DEF TypeOK, QueueType, ConnType, LinkType, ClientType
<1>1. CASE StartResets
  <2>1. <<>> \in Seq(Items) /\ Len(<<>>) = 0
    BY EmptySeq
  <2>2. QueueTyped'
    <3>1. queue' = [items |-> <<>>, closed |-> FALSE] /\ UNCHANGED reducer
      BY <1>1 DEF StartResets
    <3>2. queue' \in QueueType /\ queue'.items = <<>>
      BY <2>1, <3>1, Zenon DEF QueueType
    <3>3. Len(queue'.items) <= Capacity
      BY <2>1, <3>2, ThreadsAssumption
    <3> QED BY <1>t, <3>1, <3>2, <3>3
  <2>3. OwnerTyped'
    <3>1. starts' \in 0..MaxStarts
      <4>1. starts \in 0..MaxStarts /\ MaxStarts \in Nat /\ starts < MaxStarts /\ starts' = starts + 1
        BY <1>1, <1>t, ThreadsAssumption DEF StartResets
      <4> HIDE <1>1, <1>t
      <4> QED BY <4>1
    <3> QED BY <1>1, <1>t, <3>1 DEF StartResets
  <2> QED BY <1>1, <1>t, <2>2, <2>3 DEF StartResets
<1>2. CASE StartFails
  BY <1>2, <1>t DEF StartFails
<1>3. CASE StartLaunches
  BY <1>3, <1>t DEF StartLaunches
<1>4. CASE StopBegins
  BY <1>4, <1>t DEF StopBegins
<1>5. CASE StopClosesListener
  <2> DEFINE gone == {c \in Connections : conn[c].at = "backlog"}
  <2>1. Joined(gone) /\ gone \in SUBSET Connections
    BY <1>5 DEF StopClosesListener
  <2> HIDE DEF gone
  <2>2. ConnTyped' /\ LinkTyped'
    BY <2>1, JoinedTyped
  <2> QED BY <1>5, <1>t, <2>2 DEF StopClosesListener
<1>6. CASE StopJoinsAcceptor
  <2>1. Registered \in SUBSET Connections
    BY DEF Registered
  <2> QED BY <1>6, <1>t, <2>1 DEF StopJoinsAcceptor
<1>7. CASE StopJoinsWorkers
  <2>1. Registered \in SUBSET Connections
    BY DEF Registered
  <2>2. ConnTyped' /\ LinkTyped'
    BY <1>7, <2>1, JoinedTyped DEF StopJoinsWorkers
  <2> QED BY <1>7, <1>t, <2>2 DEF StopJoinsWorkers
<1>8. CASE StopTells
  <2>1. QueueTyped'
    <3>1. CASE HasRoom /\ Push(StopItem)
      BY <1>8, <1>t, <3>1, OtherItems, PushTyped DEF StopTells
    <3>2. CASE UNCHANGED queue
      BY <1>8, <1>t, <3>2 DEF StopTells
    <3> QED BY <1>8, <3>1, <3>2 DEF StopTells
  <2> QED BY <1>8, <1>t, <2>1 DEF StopTells
<1>9. CASE StopJoinsReducer
  <2>1. QueueTyped'
    BY <1>9, <1>t DEF StopJoinsReducer, QueueType
  <2> QED BY <1>9, <1>t, <2>1 DEF StopJoinsReducer
<1>10. ASSUME NEW c \in Connections, StopReleases(c) PROVE TypeOK'
  <2>1. ConnTyped'
    <3>1. conn[c] \in ConnType
      BY <1>t
    <3>2. [conn[c] EXCEPT !.stopped = TRUE] \in ConnType
      BY <3>1, ConnUpdates
    <3> QED BY <1>10, <1>t, <3>2 DEF StopReleases
  <2>2. LinkTyped'
    <3>1. link' = [link EXCEPT ![c].aborted = TRUE]
      BY <1>10 DEF StopReleases
    <3>2. link[c] \in LinkType
      BY <1>t
    <3>3. \A r \in LinkType : [r EXCEPT !.aborted = TRUE] \in LinkType
      BY DEF LinkType
    <3> QED BY <1>t, <3>1, <3>2, <3>3
  <2> QED BY <1>10, <1>t, <2>1, <2>2 DEF StopReleases, TypeOK, QueueType, ConnType, LinkType, ClientType
<1> QED
  BY <1>1, <1>2, <1>3, <1>4, <1>5, <1>6, <1>7, <1>8, <1>9, <1>10
  DEF OwnerStops, TypeOK, QueueType, ConnType, LinkType, ClientType

\* A step of the acceptor keeps the types.
LEMMA AcceptorKeepsTypes ==
  ASSUME TypeOK, AcceptorStep
  PROVE  TypeOK'
<1>t. OwnerTyped /\ QueueTyped /\ ConnTyped /\ LinkTyped /\ ClientTyped /\ LocalTyped /\ ServedTyped
  BY TypesInParts
<1> SUFFICES (OwnerTyped /\ QueueTyped /\ ConnTyped /\ LinkTyped /\ ClientTyped /\ LocalTyped
                /\ ServedTyped)'
  BY DEF TypeOK, QueueType, ConnType, LinkType, ClientType, OwnerTyped, QueueTyped, ConnTyped,
         LinkTyped, ClientTyped, LocalTyped, ServedTyped
<1> DEFINE Kept == (QueueTyped /\ ClientTyped /\ LocalTyped /\ ServedTyped)'
<1>1. CASE AcceptorChecks
  <2> DEFINE gone == {c \in Connections : conn[c].at = "finished"}
  <2>1. \/ Joined(gone) /\ gone \in SUBSET Connections
        \/ UNCHANGED <<conn, link>>
    BY <1>1 DEF AcceptorChecks
  <2> HIDE DEF gone
  <2>2. ConnTyped' /\ LinkTyped'
    BY <1>t, <2>1, JoinedTyped DEF ConnTyped, LinkTyped
  <2>3. OwnerTyped'
    BY <1>1, <1>t DEF AcceptorChecks, OwnerTyped, Places
  <2>4. Kept
    BY <1>1, <1>t DEF AcceptorChecks, QueueTyped, ClientTyped, LocalTyped, ServedTyped
  <2> QED BY <2>2, <2>3, <2>4
<1>2. CASE AcceptorPolls
  <2>1. OwnerTyped'
    BY <1>2, <1>t DEF AcceptorPolls, OwnerTyped, Places
  <2>2. Kept /\ ConnTyped' /\ LinkTyped'
    BY <1>2, <1>t DEF AcceptorPolls, QueueTyped, ClientTyped, LocalTyped, ServedTyped, ConnTyped,
                      LinkTyped
  <2> QED BY <2>1, <2>2
<1>3. ASSUME NEW c \in Connections, Accepts(c)
      PROVE  (OwnerTyped /\ ConnTyped /\ LinkTyped)' /\ Kept
  <2>1. OwnerTyped'
    BY <1>3, <1>t DEF Accepts, OwnerTyped, Places
  <2>2. Kept
    BY <1>3, <1>t DEF Accepts, QueueTyped, ClientTyped, LocalTyped, ServedTyped
  <2>3. conn[c] \in ConnType /\ link[c] \in LinkType
    BY <1>t DEF ConnTyped, LinkTyped
  <2>4. ConnTyped'
    <3>1. \A p \in Places.worker : [conn[c] EXCEPT !.at = p] \in ConnType
      BY <2>3, ConnUpdates
    <3>2. [conn[c] EXCEPT !.at = "checking"] \in ConnType /\ [conn[c] EXCEPT !.at = "joined"] \in ConnType
      BY <3>1 DEF Places
    <3> QED BY <1>3, <1>t, <3>2 DEF Accepts, ConnTyped
  <2>5. LinkTyped'
    <3>1. <<Busy(0)>> \in Seq(Replies) /\ <<>> \in Seq(Items)
      BY ReplyFacts, EmptySeq
    <3>2. [link[c] EXCEPT !.toClient = <<Busy(0)>>, !.toServer = <<>>, !.near = FALSE] \in LinkType
      BY <2>3, <3>1, LinkUpdates
    <3> QED BY <1>3, <1>t, <3>2 DEF Accepts, LinkTyped
  <2> QED BY <2>1, <2>2, <2>4, <2>5
<1> QED BY <1>1, <1>2, <1>3 DEF AcceptorStep

\* What a worker holds.
LEMMA HeldFacts ==
  ASSUME Inv, NEW c \in Connections
  PROVE  /\ conn[c] \in ConnType /\ link[c] \in LinkType /\ client[c] \in ClientType
         /\ conn[c].frame \in Items \cup {NoItem} /\ conn[c].reply \in Replies \cup {NoReply}
         /\ conn[c].frame.number \in {0} \cup Numbers
         /\ conn[c].at \in {"pushing", "refusing"} =>
              conn[c].frame \in Items /\ IsFrom(conn[c].frame, c)
         /\ conn[c].at = "sending" => conn[c].reply \in Replies
<1>1. ConnTyped /\ LinkTyped /\ ClientTyped /\ HandOK(c)
  BY TypesInParts DEF Inv, ConnOK
<1>2. conn[c] \in ConnType /\ link[c] \in LinkType /\ client[c] \in ClientType
  BY <1>1 DEF ConnTyped, LinkTyped, ClientTyped
<1>3. conn[c].frame \in Items \cup {NoItem} /\ conn[c].reply \in Replies \cup {NoReply}
  BY <1>2 DEF ConnType
<1>4. conn[c].frame.number \in {0} \cup Numbers
  BY <1>3 DEF Items, NoItem, Frame, LocalRequest, StopItem
<1>5. /\ conn[c].at \in {"pushing", "refusing"} => IsFrom(conn[c].frame, c)
      /\ conn[c].at = "sending" => conn[c].reply # NoReply
  BY <1>1 DEF HandOK
<1>6. IsFrom(conn[c].frame, c) => conn[c].frame # NoItem
  BY DEF IsFrom, NoItem
<1> QED BY <1>2, <1>3, <1>4, <1>5, <1>6

\* A frame is sent, or the send fails.
LEMMA SendsTyped ==
  ASSUME LinkTyped, NEW c \in Connections, NEW r \in Replies, Sends(c, r) \/ SendFails(c)
  PROVE  LinkTyped'
<1>1. CASE Sends(c, r)
  <2>1. link[c] \in LinkType /\ link[c].toClient \in Seq(Replies)
    BY DEF LinkTyped, LinkType
  <2>2. Append(link[c].toClient, r) \in Seq(Replies)
    BY <2>1, AppendFacts
  <2>3. [link[c] EXCEPT !.toClient = IF link[c].far THEN Append(@, r) ELSE @] \in LinkType
    BY <2>1, <2>2, LinkUpdates
  <2> QED BY <1>1, <2>3 DEF Sends, LinkTyped
<1>2. CASE SendFails(c)
  BY <1>2 DEF SendFails, LinkTyped
<1> QED BY <1>1, <1>2

\* A step of a worker keeps the types.
LEMMA WorkerKeepsTypes ==
  ASSUME Inv, NEW c \in Connections, WorkerStep(c) \/ WorkerTimesOut(c)
  PROVE  TypeOK'
<1>t. OwnerTyped /\ QueueTyped /\ ConnTyped /\ LinkTyped /\ ClientTyped /\ LocalTyped /\ ServedTyped
  BY TypesInParts DEF Inv
<1> SUFFICES (OwnerTyped /\ QueueTyped /\ ConnTyped /\ LinkTyped /\ ClientTyped /\ LocalTyped
                /\ ServedTyped)'
  BY DEF TypeOK, QueueType, ConnType, LinkType, ClientType, OwnerTyped, QueueTyped, ConnTyped,
         LinkTyped, ClientTyped, LocalTyped, ServedTyped
<1>h. /\ conn[c] \in ConnType /\ link[c] \in LinkType
      /\ conn[c].at \in {"pushing", "refusing"} => conn[c].frame \in Items
      /\ conn[c].at = "sending" => conn[c].reply \in Replies
      /\ conn[c].frame.number \in {0} \cup Numbers
  BY HeldFacts
<1>g. ASSUME NEW p \in Places.worker, WorkerGoes(c, p) PROVE ConnTyped'
  <2>1. [conn[c] EXCEPT !.at = p] \in ConnType
    BY <1>h, ConnUpdates
  <2> QED BY <1>t, <1>g, <2>1 DEF WorkerGoes, ConnTyped
<1>o. ASSUME NEW p \in Places.worker, WorkerGoes(c, p), WorkerOnly
      PROVE  (OwnerTyped /\ QueueTyped /\ ConnTyped /\ LinkTyped /\ ClientTyped /\ LocalTyped
                /\ ServedTyped)'
  <2>1. ConnTyped'
    BY <1>g, <1>o
  <2> QED BY <1>t, <1>o, <2>1 DEF WorkerOnly, OwnerTyped, QueueTyped, LinkTyped, ClientTyped,
                                  LocalTyped, ServedTyped
<1>p. Places.worker = {"absent", "backlog", "checking", "receiving", "pushing", "refusing",
                       "waiting", "sending", "finished", "joined"}
  BY DEF Places
<1> DEFINE Others == (OwnerTyped /\ ClientTyped /\ LocalTyped /\ ServedTyped)'
<1>1. CASE WorkerChecks(c)
  BY <1>1, <1>o, <1>p DEF WorkerChecks
<1>2. CASE WorkerTimesOut(c)
  BY <1>2, <1>o, <1>p DEF WorkerTimesOut
<1>3. CASE WorkerSeesEnd(c)
  BY <1>3, <1>o, <1>p DEF WorkerSeesEnd
<1>4. CASE WorkerWaits(c)
  BY <1>4, <1>o, <1>p DEF WorkerWaits
<1>5. CASE WorkerReceives(c)
  <2>1. Others /\ QueueTyped'
    BY <1>5, <1>t DEF WorkerReceives, OwnerTyped, QueueTyped, ClientTyped, LocalTyped, ServedTyped
  <2>2. link[c].toServer \in Seq(Items) /\ link[c].toServer # <<>>
    BY <1>5, <1>h DEF WorkerReceives, LinkType
  <2>3. Head(link[c].toServer) \in Items /\ Tail(link[c].toServer) \in Seq(Items)
    <3>1. PICK line \in Seq(Items) : line = link[c].toServer
      BY <2>2
    <3>2. Head(line) \in Items /\ Tail(line) \in Seq(Items)
      BY <2>2, <3>1, TailFacts, Zenon
    <3> QED BY <3>1, <3>2
  <2>4. [conn[c] EXCEPT !.at = "pushing", !.frame = Head(link[c].toServer)] \in ConnType
    BY <1>h, <1>p, <2>3, ConnUpdates
  <2>5. [link[c] EXCEPT !.toServer = Tail(@)] \in LinkType
    BY <1>h, <2>3, LinkUpdates
  <2>6. ConnTyped' /\ LinkTyped'
    BY <1>5, <1>t, <2>4, <2>5 DEF WorkerReceives, ConnTyped, LinkTyped
  <2> QED BY <2>1, <2>6
<1>6. CASE WorkerPushes(c)
  <2>1. Others /\ LinkTyped'
    BY <1>6, <1>t DEF WorkerPushes, OwnerTyped, LinkTyped, ClientTyped, LocalTyped, ServedTyped
  <2>2. CASE HasRoom /\ Push(conn[c].frame) /\ UNCHANGED reducer
                /\ conn' = [conn EXCEPT ![c].at = "waiting", ![c].frame = NoItem]
    <3>1. [conn[c] EXCEPT !.at = "waiting", !.frame = NoItem] \in ConnType
      BY <1>h, <1>p, ConnUpdates
    <3>2. ConnTyped'
      BY <1>t, <2>2, <3>1 DEF ConnTyped
    <3>3. conn[c].frame \in Items /\ TypeOK
      BY <1>6, <1>h DEF WorkerPushes, Inv
    <3>4. queue' \in QueueType /\ Len(queue.items') <= Capacity
      BY <2>2, <3>3, PushTyped
    <3>5. QueueTyped'
      BY <1>t, <2>2, <3>4 DEF QueueTyped
    <3> QED BY <2>1, <3>2, <3>5, Zenon
  <2>3. CASE WorkerGoes(c, "refusing") /\ UNCHANGED <<queue, reducer>>
    <3>1. ConnTyped'
      BY <1>g, <1>p, <2>3
    <3> QED BY <1>t, <2>1, <2>3, <3>1 DEF QueueTyped
  <2> QED BY <1>6, <2>2, <2>3 DEF WorkerPushes
<1>7. CASE WorkerRefuses(c)
  <2>1. Others /\ QueueTyped'
    BY <1>7, <1>t DEF WorkerRefuses, OwnerTyped, QueueTyped, ClientTyped, LocalTyped, ServedTyped
  <2>2. Busy(conn[c].frame.number) \in Replies
    BY <1>h, ReplyFacts
  <2>3. LinkTyped'
    BY <1>7, <1>t, <2>2, SendsTyped DEF WorkerRefuses
  <2>4. [conn[c] EXCEPT !.at = "checking", !.frame = NoItem] \in ConnType
    BY <1>h, <1>p, ConnUpdates
  <2>5. ConnTyped'
    BY <1>7, <1>t, <2>4 DEF WorkerRefuses, ConnTyped
  <2> QED BY <2>1, <2>3, <2>5
<1>8. CASE WorkerSends(c)
  <2>1. Others /\ QueueTyped'
    BY <1>8, <1>t DEF WorkerSends, OwnerTyped, QueueTyped, ClientTyped, LocalTyped, ServedTyped
  <2>2. conn[c].reply \in Replies /\ (Sends(c, conn[c].reply) \/ SendFails(c))
    BY <1>8, <1>h DEF WorkerSends
  <2>3. LinkTyped'
    BY <1>t, <2>2, SendsTyped
  <2>4. PICK p \in Places.worker : conn' = [conn EXCEPT ![c].reply = NoReply, ![c].at = p]
    <3>1. (IF conn[c].reply.bye THEN "finished" ELSE "checking") \in Places.worker
          /\ "finished" \in Places.worker
      BY <1>p
    <3> QED BY <1>8, <3>1 DEF WorkerSends
  <2>5. [conn[c] EXCEPT !.reply = NoReply, !.at = p] \in ConnType
    BY <1>h, ConnUpdates
  <2>6. ConnTyped'
    BY <1>t, <2>4, <2>5 DEF ConnTyped
  <2> QED BY <2>1, <2>3, <2>6
<1> QED
  BY <1>1, <1>2, <1>3, <1>4, <1>5, <1>6, <1>7, <1>8 DEF WorkerStep

\* A step of the reducer keeps the types.
LEMMA ReducerKeepsTypes ==
  ASSUME TypeOK, ReducerStep
  PROVE  TypeOK'
<1>t. OwnerTyped /\ QueueTyped /\ ConnTyped /\ LinkTyped /\ ClientTyped /\ LocalTyped /\ ServedTyped
  BY TypesInParts
<1> SUFFICES (OwnerTyped /\ QueueTyped /\ ConnTyped /\ LinkTyped /\ ClientTyped /\ LocalTyped
                /\ ServedTyped)'
  BY DEF TypeOK, QueueType, ConnType, LinkType, ClientType, OwnerTyped, QueueTyped, ConnTyped,
         LinkTyped, ClientTyped, LocalTyped, ServedTyped
<1> DEFINE Others == (OwnerTyped /\ LinkTyped /\ ClientTyped)'
<1>r. reducer.item \in Items \cup {NoItem} /\ NoItem \in Items \cup {NoItem}
  BY <1>t DEF QueueTyped
<1>f. reducer.item.kind = "Frame" =>
        /\ reducer.item \in Items /\ reducer.item.from \in Connections
        /\ reducer.item.number \in Numbers
  BY <1>r, ItemFacts, OtherItems
<1>1. CASE ReducerPops
  <2>1. queue \in QueueType /\ Len(queue.items) <= Capacity /\ queue.items # <<>> /\ Capacity \in Nat
        /\ queue.items \in Seq(Items)
    BY <1>1, <1>t, ThreadsAssumption DEF ReducerPops, QueueTyped, QueueType
  <2>2. Head(queue.items) \in Items /\ Tail(queue.items) \in Seq(Items)
        /\ Len(queue.items) \in Nat /\ Len(Tail(queue.items)) = Len(queue.items) - 1
    BY <2>1, TailFacts
  <2>3. queue' = [queue EXCEPT !.items = Tail(@)]
        /\ reducer' = [at |-> "serving", item |-> Head(queue.items)]
    BY <1>1 DEF ReducerPops
  <2>4. queue' \in QueueType /\ queue.items' = Tail(queue.items)
    BY <2>1, <2>2, <2>3 DEF QueueType
  <2>5. QueueTyped'
    BY <2>1, <2>2, <2>3, <2>4 DEF QueueTyped, Places
  <2>6. Others /\ ConnTyped' /\ LocalTyped' /\ ServedTyped'
    BY <1>1, <1>t DEF ReducerPops, OwnerTyped, LinkTyped, ClientTyped, ConnTyped, LocalTyped, ServedTyped
  <2> QED BY <2>5, <2>6
<1>2. CASE ReducerStops
  BY <1>2, <1>t, <1>r DEF ReducerStops, OwnerTyped, LinkTyped, ClientTyped, ConnTyped, LocalTyped,
                          ServedTyped, QueueTyped, Places
<1>3. CASE ReducerServes
  <2>1. Others /\ LocalTyped' /\ QueueTyped'
    BY <1>3, <1>t, <1>r DEF ReducerServes, OwnerTyped, LinkTyped, ClientTyped, LocalTyped,
                            QueueTyped, Places
  <2> DEFINE c == reducer.item.from
  <2>2. c \in Connections /\ reducer.item.number \in Numbers /\ Done(reducer.item) \in Replies
    BY <1>3, <1>f, ReplyFacts DEF ReducerServes
  <2>3. [conn[c] EXCEPT !.reply = Done(reducer.item)] \in ConnType
    BY <1>t, <2>2, ConnUpdates DEF ConnTyped
  <2>4. ConnTyped'
    BY <1>3, <1>t, <2>2, <2>3 DEF ReducerServes, ConnTyped
  <2>5. ServedTyped'
    BY <1>3, <1>t, <2>2 DEF ReducerServes, ServedTyped
  <2> QED BY <2>1, <2>4, <2>5
<1>4. CASE ReducerServesLocal
  <2>1. Others /\ ConnTyped' /\ ServedTyped' /\ QueueTyped'
    BY <1>4, <1>t, <1>r DEF ReducerServesLocal, OwnerTyped, LinkTyped, ClientTyped, ConnTyped,
                            ServedTyped, QueueTyped, Places
  <2>2. LocalTyped'
    BY <1>4, <1>t DEF ReducerServesLocal, LocalTyped
  <2> QED BY <2>1, <2>2
<1> QED BY <1>1, <1>2, <1>3, <1>4 DEF ReducerStep

\* A step of an in-process caller keeps the types.
LEMMA LocalKeepsTypes ==
  ASSUME TypeOK, NEW l \in Locals, LocalCalls(l) \/ LocalStep(l)
  PROVE  TypeOK'
<1>t. OwnerTyped /\ QueueTyped /\ ConnTyped /\ LinkTyped /\ ClientTyped /\ LocalTyped /\ ServedTyped
  BY TypesInParts
<1> SUFFICES (OwnerTyped /\ QueueTyped /\ ConnTyped /\ LinkTyped /\ ClientTyped /\ LocalTyped
                /\ ServedTyped)'
  BY DEF TypeOK, QueueType, ConnType, LinkType, ClientType, OwnerTyped, QueueTyped, ConnTyped,
         LinkTyped, ClientTyped, LocalTyped, ServedTyped
<1>1. (OwnerTyped /\ ConnTyped /\ LinkTyped /\ ClientTyped /\ ServedTyped)'
  BY <1>t DEF LocalCalls, LocalStep, LocalPushes, LocalWaits, OwnerTyped, ConnTyped, LinkTyped,
              ClientTyped, ServedTyped
<1>2. LocalTyped'
  <2>1. local' \in {[local EXCEPT ![l].at = "pushing"], [local EXCEPT ![l].at = "waiting"],
                    [local EXCEPT ![l].at = "idle"], [local EXCEPT ![l] = NoCall]}
    BY DEF LocalCalls, LocalStep, LocalPushes, LocalWaits
  <2>2. ASSUME NEW r \in [at : Places.local, answered : BOOLEAN], local' = [local EXCEPT ![l] = r]
        PROVE  LocalTyped'
    BY <1>t, <2>2 DEF LocalTyped
  <2>3. local[l] \in [at : Places.local, answered : BOOLEAN]
    BY <1>t DEF LocalTyped
  <2>4. {[local[l] EXCEPT !.at = "pushing"], [local[l] EXCEPT !.at = "waiting"],
         [local[l] EXCEPT !.at = "idle"], NoCall} \subseteq [at : Places.local, answered : BOOLEAN]
    BY <2>3 DEF NoCall, Places
  <2> QED BY <2>1, <2>2, <2>4
<1>3. QueueTyped'
  <2>1. \/ HasRoom /\ Push(LocalRequest(l)) /\ UNCHANGED reducer
        \/ UNCHANGED <<queue, reducer>>
    BY DEF LocalCalls, LocalStep, LocalPushes, LocalWaits
  <2>2. CASE HasRoom /\ Push(LocalRequest(l)) /\ UNCHANGED reducer
    <3>1. LocalRequest(l) \in Items
      BY OtherItems
    <3>2. queue' \in QueueType /\ Len(queue.items') <= Capacity
      BY <2>2, <3>1, PushTyped
    <3> QED BY <1>t, <2>2, <3>2 DEF QueueTyped
  <2>3. CASE UNCHANGED <<queue, reducer>>
    BY <1>t, <2>3 DEF QueueTyped
  <2> QED BY <2>1, <2>2, <2>3
<1> QED BY <1>1, <1>2, <1>3

\* A step of a client keeps the types.
LEMMA ClientKeepsTypes ==
  ASSUME Inv, NEW c \in Connections, ClientStep(c)
  PROVE  TypeOK'
<1>t. OwnerTyped /\ QueueTyped /\ ConnTyped /\ LinkTyped /\ ClientTyped /\ LocalTyped /\ ServedTyped
  BY TypesInParts DEF Inv
<1> SUFFICES (OwnerTyped /\ QueueTyped /\ ConnTyped /\ LinkTyped /\ ClientTyped /\ LocalTyped
                /\ ServedTyped)'
  BY DEF TypeOK, QueueType, ConnType, LinkType, ClientType, OwnerTyped, QueueTyped, ConnTyped,
         LinkTyped, ClientTyped, LocalTyped, ServedTyped
<1> DEFINE Others == (OwnerTyped /\ QueueTyped /\ LocalTyped /\ ServedTyped)'
<1>h. /\ conn[c] \in ConnType /\ link[c] \in LinkType /\ client[c] \in ClientType
      /\ client[c].at \in {"waiting", "leaving"} => client[c].calls # 0
  BY HeldFacts DEF Inv, ConnOK, ClientOK
<1>k. /\ client[c].calls \in {0} \cup Numbers
      /\ client[c].read \in Seq([call : Numbers, reply : Replies])
      /\ link[c].toServer \in Seq(Items) /\ link[c].toClient \in Seq(Replies)
  BY <1>h DEF ClientType, LinkType
<1>u. /\ \A p \in Places.client : [client[c] EXCEPT !.at = p] \in ClientType
      /\ \A p \in Places.client, r \in Seq([call : Numbers, reply : Replies]) :
           [client[c] EXCEPT !.read = r, !.at = p] \in ClientType
      /\ \A p \in Places.client, n \in Numbers : [client[c] EXCEPT !.calls = n, !.at = p] \in ClientType
  <2> DEFINE P == Places.client
             R == Seq([call : Numbers, reply : Replies])
             N == {0} \cup Numbers
  <2>1. ClientType = [at : P, calls : N, read : R] /\ Numbers \subseteq N
    BY DEF ClientType
  <2> HIDE DEF P, R, N
  <2>2. \A p \in P : [client[c] EXCEPT !.at = p] \in ClientType
    BY <1>h, <2>1
  <2>3. \A p \in P, r \in R : [client[c] EXCEPT !.read = r, !.at = p] \in ClientType
    BY <1>h, <2>1
  <2>4. \A p \in P, n \in Numbers : [client[c] EXCEPT !.calls = n, !.at = p] \in ClientType
    BY <1>h, <2>1
  <2> QED BY <2>2, <2>3, <2>4 DEF P, R, N
<1>p. Places.client = {"away", "idle", "waiting", "leaving", "closed"}
  BY DEF Places
<1>n. <<>> \in Seq(Replies)
  BY EmptySeq
<1>1. CASE ClientConnects(c)
  <2>1. Others
    BY <1>1, <1>t DEF ClientConnects, OwnerTyped, QueueTyped, LocalTyped, ServedTyped
  <2>2. ClientTyped'
    BY <1>1, <1>t, <1>u, <1>p DEF ClientConnects, ClientTyped
  <2>3. [conn[c] EXCEPT !.at = "backlog"] \in ConnType
    <3>1. "backlog" \in Places.worker
      BY DEF Places
    <3> QED BY <1>h, <3>1, ConnUpdates
  <2>4. [link[c] EXCEPT !.near = TRUE, !.far = TRUE] \in LinkType
    BY <1>h, LinkUpdates
  <2>5. ConnTyped' /\ LinkTyped'
    BY <1>1, <1>t, <2>3, <2>4 DEF ClientConnects, ConnTyped, LinkTyped
  <2> QED BY <2>1, <2>2, <2>5
<1>2. ASSUME NEW bye \in BOOLEAN, ClientCalls(c, bye)
      PROVE  Others /\ (ConnTyped /\ LinkTyped /\ ClientTyped)'
  <2> DEFINE n == client[c].calls + 1
  <2>1. Others /\ ConnTyped'
    BY <1>2, <1>t DEF ClientCalls, OwnerTyped, QueueTyped, LocalTyped, ServedTyped, ConnTyped
  <2>2. n \in Numbers
    <3>1. client[c].calls \in Nat /\ client[c].calls < MaxCalls[c] /\ MaxCalls[c] \in Nat
      BY <1>2, <1>k, NumbersArePositive, ThreadsAssumption DEF ClientCalls
    <3>2. n \in 1..MaxCalls[c]
      BY <3>1
    <3> QED BY <3>2 DEF Numbers
  <2>3. ClientTyped'
    <3>1. [client[c] EXCEPT !.calls = n, !.at = IF bye THEN "leaving" ELSE "waiting"] \in ClientType
      BY <1>u, <1>p, <2>2
    <3> QED BY <1>2, <1>t, <3>1 DEF ClientCalls, ClientTyped
  <2>4. Append(link[c].toServer, Frame(c, n, bye)) \in Seq(Items)
    BY <1>k, <2>2, FrameFacts, AppendFacts
  <2>5. [link[c] EXCEPT !.toServer = IF link[c].near THEN Append(@, Frame(c, n, bye)) ELSE @] \in LinkType
    BY <1>h, <1>k, <2>4, LinkUpdates
  <2>6. LinkTyped'
    BY <1>2, <1>t, <2>5 DEF ClientCalls, LinkTyped
  <2> QED BY <2>1, <2>3, <2>6
<1>3. CASE ClientReads(c)
  <2> DEFINE reply == Head(link[c].toClient)
             read == Append(client[c].read, [call |-> client[c].calls, reply |-> reply])
  <2>1. Others /\ ConnTyped'
    BY <1>3, <1>t DEF ClientReads, OwnerTyped, QueueTyped, LocalTyped, ServedTyped, ConnTyped
  <2>2. reply \in Replies /\ Tail(link[c].toClient) \in Seq(Replies) /\ client[c].calls \in Numbers
    <3>1. link[c].toClient # <<>> /\ client[c].calls \in Numbers
      BY <1>3, <1>h, <1>k DEF ClientReads
    <3> QED BY <1>k, <3>1, TailFacts
  <2>3. read \in Seq([call : Numbers, reply : Replies])
    <3>1. [call |-> client[c].calls, reply |-> reply] \in [call : Numbers, reply : Replies]
      BY <2>2
    <3> QED BY <1>k, <3>1, AppendFacts
  <2>4. /\ [client[c] EXCEPT !.read = read, !.at = "idle"] \in ClientType
        /\ [client[c] EXCEPT !.read = read, !.at = "closed"] \in ClientType
    BY <1>u, <1>p, <2>3
  <2>5. /\ [link[c] EXCEPT !.toClient = Tail(@)] \in LinkType
        /\ [link[c] EXCEPT !.far = FALSE, !.toClient = <<>>] \in LinkType
    BY <1>h, <1>n, <2>2, LinkUpdates
  <2>6. ClientTyped'
    BY <1>3, <1>t, <2>4 DEF ClientReads, ClientTyped
  <2>7. LinkTyped'
    BY <1>3, <1>t, <2>5 DEF ClientReads, HangsUp, LinkTyped
  <2> QED BY <2>1, <2>6, <2>7
<1>4. CASE ClientTimesOut(c)
  <2>1. Others /\ ConnTyped' /\ LinkTyped'
    BY <1>4, <1>t DEF ClientTimesOut, OwnerTyped, QueueTyped, LocalTyped, ServedTyped, ConnTyped,
                      LinkTyped
  <2>2. ClientTyped'
    BY <1>4, <1>t, <1>u, <1>p DEF ClientTimesOut, ClientTyped
  <2> QED BY <2>1, <2>2
<1>5. CASE ClientCloses(c)
  <2>1. Others /\ ConnTyped'
    BY <1>5, <1>t DEF ClientCloses, OwnerTyped, QueueTyped, LocalTyped, ServedTyped, ConnTyped
  <2>2. ClientTyped'
    BY <1>5, <1>t, <1>u, <1>p DEF ClientCloses, ClientTyped
  <2>3. [link[c] EXCEPT !.far = FALSE, !.toClient = <<>>] \in LinkType
    BY <1>h, <1>n, LinkUpdates
  <2>4. LinkTyped'
    BY <1>5, <1>t, <2>3 DEF ClientCloses, HangsUp, LinkTyped
  <2> QED BY <2>1, <2>2, <2>4
<1> QED
  BY <1>1, <1>2, <1>3, <1>4, <1>5 DEF ClientStep

\* Every step keeps the types.
LEMMA TypeStep ==
  ASSUME Inv, [Next]_vars
  PROVE  TypeOK'
<1>t. TypeOK
  BY DEF Inv
<1>1. CASE StartResets \/ StartFails \/ StartLaunches \/ StopBegins \/ OwnerStops
  BY <1>t, <1>1, OwnerKeepsTypes
<1>2. CASE AcceptorStep
  BY <1>t, <1>2, AcceptorKeepsTypes
<1>3. CASE ReducerStep
  BY <1>t, <1>3, ReducerKeepsTypes
<1>4. ASSUME NEW c \in Connections, WorkerStep(c) \/ WorkerTimesOut(c) PROVE TypeOK'
  BY <1>4, WorkerKeepsTypes
<1>5. ASSUME NEW c \in Connections, ClientStep(c) PROVE TypeOK'
  BY <1>5, ClientKeepsTypes
<1>6. ASSUME NEW l \in Locals, LocalCalls(l) \/ LocalStep(l) PROVE TypeOK'
  BY <1>t, <1>6, LocalKeepsTypes
<1>7. CASE UNCHANGED vars
  BY <1>t, <1>7 DEF vars, TypeOK
<1> QED BY <1>1, <1>2, <1>3, <1>4, <1>5, <1>6, <1>7 DEF Next

-------------------------------------------------------------------------------
(* The threads *)

\* Only the acceptor adds to the connections that are served.
LEMMA RegisteredShrinks ==
  ASSUME Inv, [Next]_vars
  PROVE  \/ Registered' \subseteq Registered
         \/ \E c \in Connections : Accepts(c)
<1>t. conn \in [Connections -> ConnType]
  BY TypesInParts DEF Inv, ConnTyped
<1>r. ASSUME \A c \in Connections :
               conn'[c].at \notin {"absent", "backlog", "joined"} =>
                 conn[c].at \notin {"absent", "backlog", "joined"}
      PROVE  Registered' \subseteq Registered
  BY <1>r DEF Registered
<1>j. ASSUME NEW gone, Joined(gone) PROVE Registered' \subseteq Registered
  <2>1. \A c \in Connections : conn'[c].at = IF c \in gone THEN "joined" ELSE conn[c].at
    BY <1>t, <1>j DEF Joined, ConnType
  <2> QED BY <1>r, <2>1
<1>u. CASE UNCHANGED conn
  BY <1>u DEF Registered
<1>1. CASE StartResets \/ StartFails \/ StartLaunches \/ StopBegins \/ OwnerStops
  <2>1. ASSUME NEW c \in Connections, StopReleases(c) PROVE Registered' \subseteq Registered
    <3>1. \A d \in Connections : conn'[d].at = conn[d].at
      BY <1>t, <2>1 DEF StopReleases, ConnType
    <3> QED BY <1>r, <3>1
  <2>2. \/ UNCHANGED conn
        \/ \E gone : Joined(gone)
        \/ \E c \in Connections : StopReleases(c)
    BY <1>1 DEF StartResets, StartFails, StartLaunches, StopBegins, OwnerStops, StopClosesListener,
                StopJoinsAcceptor, StopJoinsWorkers, StopTells, StopJoinsReducer
  <2> QED BY <1>j, <1>u, <2>1, <2>2
<1>2. CASE AcceptorStep
  <2>1. UNCHANGED conn \/ (\E gone : Joined(gone)) \/ \E c \in Connections : Accepts(c)
    BY <1>2 DEF AcceptorStep, AcceptorChecks, AcceptorPolls
  <2> QED BY <1>j, <1>u, <2>1
<1>3. CASE ReducerStep
  <2>1. CASE ReducerServes
    <3>1. \A d \in Connections : conn'[d].at = conn[d].at
      BY <1>t, <2>1 DEF ReducerServes, ConnType
    <3> QED BY <1>r, <3>1
  <2>2. ReducerServes \/ UNCHANGED conn
    BY <1>3 DEF ReducerStep, ReducerPops, ReducerStops, ReducerServesLocal
  <2> QED BY <1>u, <2>1, <2>2
<1>4. ASSUME NEW c \in Connections, WorkerStep(c) \/ WorkerTimesOut(c)
      PROVE  Registered' \subseteq Registered
  <2>1. conn[c].at \notin {"absent", "backlog", "joined"}
    BY <1>4 DEF WorkerStep, WorkerTimesOut, WorkerChecks, WorkerReceives, WorkerSeesEnd,
                WorkerPushes, WorkerRefuses, WorkerWaits, WorkerSends
  <2>2. \A d \in Connections \ {c} : conn'[d] = conn[d]
    BY <1>4, <1>t DEF WorkerStep, WorkerTimesOut, WorkerChecks, WorkerReceives, WorkerSeesEnd,
                WorkerPushes, WorkerRefuses, WorkerWaits, WorkerSends, WorkerGoes
  <2> QED BY <1>r, <2>1, <2>2
<1>5. ASSUME NEW c \in Connections, ClientStep(c)
      PROVE  Registered' \subseteq Registered
  <2>1. \A d \in Connections : conn'[d].at \in {conn[d].at, "backlog"}
    <3>1. UNCHANGED conn \/ conn' = [conn EXCEPT ![c].at = "backlog"]
      BY <1>5 DEF ClientStep, ClientConnects, ClientCalls, ClientReads, ClientTimesOut, ClientCloses
    <3> QED BY <1>t, <3>1 DEF ConnType
  <2> QED BY <1>r, <2>1
<1>6. ASSUME NEW l \in Locals, LocalCalls(l) \/ LocalStep(l) PROVE UNCHANGED conn
  BY <1>6 DEF LocalCalls, LocalStep, LocalPushes, LocalWaits
<1> QED
  BY <1>u, <1>1, <1>2, <1>3, <1>4, <1>5, <1>6 DEF Next, vars

\* A worker with a frame to push lives before stop has joined the workers.
LEMMA PusherIsRegistered ==
  ASSUME Inv, NEW c \in Connections, conn[c].at = "pushing"
  PROVE  owner.at \in {"up", "closing", "joiningAcceptor", "releasing"}
<1>1. c \in Registered
  BY DEF Registered
<1>2. owner.at \in Places.owner
  BY TypesInParts DEF Inv, OwnerTyped
<1> QED BY <1>1, <1>2 DEF Inv, ThreadsOK, Places

\* Every step keeps the threads where they belong.
LEMMA ThreadsStep ==
  ASSUME Inv, [Next]_vars
  PROVE  ThreadsOK'
<1>i. ThreadsOK /\ StopOK /\ OwnerTyped /\ reducer \in [at : Places.reducer, item : Items \cup {NoItem}]
  BY TypesInParts DEF Inv, QueueTyped
<1>w. /\ owner \in [at : Places.owner, left : SUBSET Connections]
      /\ reducer.item.kind = "Stop" => owner.at = "joiningReducer"
  BY <1>i DEF OwnerTyped, StopOK
<1>r. Registered' \subseteq Registered \/ \E c \in Connections : Accepts(c)
  BY RegisteredShrinks
<1>1. ASSUME NEW c \in Connections, Accepts(c) PROVE ThreadsOK'
  <2>1. /\ acceptor = "polling" /\ acceptor' = "checking"
        /\ UNCHANGED <<owner, reducer>>
    BY <1>1 DEF Accepts
  <2>2. owner.at \notin {"down", "opening", "releasing", "telling", "joiningReducer"}
    BY <1>i, <2>1 DEF ThreadsOK
  <2> QED BY <1>i, <2>1, <2>2 DEF ThreadsOK
<1>2. CASE StartResets \/ StartFails \/ StartLaunches \/ StopBegins \/ OwnerStops
  <2>1. Registered' \subseteq Registered
    <3>1. ASSUME NEW c \in Connections, StopReleases(c) PROVE acceptor = "exited"
      BY <1>i, <3>1 DEF ThreadsOK, StopReleases
    <3>2. (\E c \in Connections : StopReleases(c)) \/ owner'.at # owner.at
      <4>1. StartResets \/ StartFails \/ StartLaunches \/ StopBegins => owner'.at # owner.at
        BY <1>w DEF StartResets, StartFails, StartLaunches, StopBegins
      <4>2. StopClosesListener \/ StopJoinsWorkers \/ StopTells \/ StopJoinsReducer =>
              owner'.at # owner.at
        BY <1>w DEF StopClosesListener, StopJoinsWorkers, StopTells, StopJoinsReducer
      <4>3. StopJoinsAcceptor => owner'.at # owner.at
        BY DEF StopJoinsAcceptor
      <4> QED BY <1>2, <4>1, <4>2, <4>3 DEF OwnerStops
    <3>3. ASSUME NEW c \in Connections, Accepts(c)
          PROVE  acceptor = "polling" /\ owner'.at = owner.at
      BY <3>3 DEF Accepts
    <3> QED BY <1>r, <3>1, <3>2, <3>3
  <2>2. CASE StartResets \/ StartFails
    BY <1>i, <2>1, <2>2 DEF ThreadsOK, StartResets, StartFails, OwnerTyped
  <2>3. CASE StartLaunches \/ StopBegins
    BY <1>i, <2>1, <2>3 DEF ThreadsOK, StartLaunches, StopBegins, OwnerTyped
  <2>4. CASE StopClosesListener \/ StopJoinsAcceptor
    <3>1. /\ owner.at \in {"closing", "joiningAcceptor"} /\ UNCHANGED <<acceptor, reducer>>
          /\ \/ owner'.at = "joiningAcceptor"
             \/ owner'.at = "releasing" /\ acceptor = "exited"
      <4>1. CASE StopClosesListener
        <5>1. /\ owner.at = "closing" /\ owner' = [owner EXCEPT !.at = "joiningAcceptor"]
              /\ UNCHANGED <<acceptor, reducer>>
          BY <4>1 DEF StopClosesListener
        <5>2. owner'.at = "joiningAcceptor"
          BY <1>w, <5>1
        <5> QED BY <5>1, <5>2
      <4>2. CASE StopJoinsAcceptor
        BY <1>w, <4>2 DEF StopJoinsAcceptor
      <4> QED BY <2>4, <4>1, <4>2
    <3> QED BY <1>i, <2>1, <3>1 DEF ThreadsOK
  <2>5. CASE StopJoinsWorkers
    <3>1. Registered' = {}
      <4>1. \A c \in Connections : conn'[c].at = IF c \in Registered THEN "joined" ELSE conn[c].at
        BY <2>5, TypesInParts DEF StopJoinsWorkers, Joined, Inv, ConnTyped, ConnType
      <4> QED BY <4>1 DEF Registered
    <3> QED BY <1>i, <2>5, <3>1 DEF ThreadsOK, StopJoinsWorkers, OwnerTyped
  <2>6. CASE StopTells \/ StopJoinsReducer
    BY <1>i, <2>1, <2>6 DEF ThreadsOK, StopTells, StopJoinsReducer, OwnerTyped
  <2>7. ASSUME NEW c \in Connections, StopReleases(c) PROVE ThreadsOK'
    BY <1>i, <2>1, <2>7 DEF ThreadsOK, StopReleases, OwnerTyped
  <2> QED BY <1>2, <2>2, <2>3, <2>4, <2>5, <2>6, <2>7 DEF OwnerStops
<1>3. CASE AcceptorChecks \/ AcceptorPolls
  BY <1>i, <1>3, <1>r, <1>1 DEF ThreadsOK, AcceptorChecks, AcceptorPolls
<1>4. CASE ReducerStep
  <2>1. UNCHANGED <<owner, acceptor>> /\ Registered' \subseteq Registered
    BY <1>4, <1>r DEF ReducerStep, ReducerPops, ReducerStops, ReducerServes, ReducerServesLocal, Accepts
  <2>2. /\ reducer.at \in {"popping", "serving"}
        /\ \/ reducer'.at \in {"popping", "serving"}
           \/ reducer'.at = "exited" /\ owner.at = "joiningReducer"
    <3>1. ReducerPops => reducer.at = "popping" /\ reducer'.at = "serving"
      BY DEF ReducerPops
    <3>2. ReducerStops => reducer.at = "serving" /\ reducer'.at = "exited" /\ owner.at = "joiningReducer"
      BY <1>w DEF ReducerStops
    <3>3. ReducerServes \/ ReducerServesLocal => reducer.at = "serving" /\ reducer'.at = "popping"
      BY DEF ReducerServes, ReducerServesLocal
    <3> QED BY <1>4, <3>1, <3>2, <3>3 DEF ReducerStep
  <2> QED BY <1>i, <2>1, <2>2 DEF ThreadsOK
<1>5. ASSUME UNCHANGED <<owner, acceptor, reducer>> PROVE ThreadsOK'
  <2>1. Registered' \subseteq Registered
    BY <1>5, <1>r DEF Accepts
  <2> QED BY <1>i, <1>5, <2>1 DEF ThreadsOK
<1>6. ASSUME NEW c \in Connections, WorkerStep(c) \/ WorkerTimesOut(c) \/ ClientStep(c)
      PROVE  UNCHANGED <<owner, acceptor, reducer>>
  BY <1>6 DEF WorkerStep, WorkerTimesOut, WorkerChecks, WorkerReceives, WorkerSeesEnd, WorkerOnly,
              WorkerPushes, WorkerRefuses, WorkerWaits, WorkerSends, ClientStep, ClientConnects,
              ClientCalls, ClientReads, ClientTimesOut, ClientCloses
<1>7. ASSUME NEW l \in Locals, LocalCalls(l) \/ LocalStep(l)
      PROVE  UNCHANGED <<owner, acceptor, reducer>>
  BY <1>7 DEF LocalCalls, LocalStep, LocalPushes, LocalWaits
<1> QED
  BY <1>1, <1>2, <1>3, <1>4, <1>5, <1>6, <1>7 DEF Next, vars, AcceptorStep

-------------------------------------------------------------------------------
(* The queue and the reducer's hand *)

\* The queue is a sequence of items, before a step and after it.
LEMMA QueueFacts ==
  ASSUME TypeOK
  PROVE  /\ queue.items \in Seq(Items) /\ Len(queue.items) \in Nat
         /\ DOMAIN queue.items = 1..Len(queue.items)
         /\ \A i \in DOMAIN queue.items : queue.items[i] \in Items
         /\ reducer.item \in Items \cup {NoItem}
<1>1. queue.items \in Seq(Items) /\ reducer.item \in Items \cup {NoItem}
  BY TypesInParts DEF QueueTyped, QueueType
<1>2. Len(queue.items) \in Nat /\ DOMAIN queue.items = 1..Len(queue.items)
      /\ \A i \in 1..Len(queue.items) : queue.items[i] \in Items
  BY <1>1, LenProperties, ElementOfSeq
<1> QED BY <1>1, <1>2

\* A push, item by item.
LEMMA PushFacts ==
  ASSUME TypeOK, NEW x \in Items, HasRoom, Push(x)
  PROVE  /\ DOMAIN queue.items' = DOMAIN queue.items \cup {Len(queue.items) + 1}
         /\ Len(queue.items) \in Nat
         /\ \A i \in DOMAIN queue.items : i \in Nat /\ i < Len(queue.items) + 1
         /\ \A i \in DOMAIN queue.items : queue.items'[i] = queue.items[i]
         /\ queue.items'[Len(queue.items) + 1] = x
<1>1. /\ queue.items' \in Seq(Items)
      /\ Len(queue.items) \in Nat /\ Len(queue.items') = Len(queue.items) + 1
      /\ \A i \in 1..Len(queue.items) : queue.items'[i] = queue.items[i]
      /\ queue.items'[Len(queue.items) + 1] = x
  BY PushTyped DEF QueueType
<1>2. DOMAIN queue.items = 1..Len(queue.items)
  BY QueueFacts
<1>3. DOMAIN queue.items' = 1..Len(queue.items')
  BY <1>1, LenProperties
<1> QED BY <1>1, <1>2, <1>3

\* A pop, item by item.
LEMMA PopFacts ==
  ASSUME TypeOK, ReducerPops
  PROVE  /\ 1 \in DOMAIN queue.items /\ reducer'.item = queue.items[1]
         /\ \A i \in DOMAIN queue.items' :
              /\ i \in Nat /\ i + 1 \in DOMAIN queue.items /\ i + 1 # 1
              /\ queue.items'[i] = queue.items[i + 1]
         /\ \A i \in DOMAIN queue.items : i # 1 =>
              /\ i \in Nat /\ i - 1 \in DOMAIN queue.items'
              /\ queue.items'[i - 1] = queue.items[i]
         /\ reducer' = [at |-> "serving", item |-> Head(queue.items)]
<1>1. /\ queue \in QueueType /\ queue.items \in Seq(Items) /\ queue.items # <<>>
      /\ DOMAIN queue.items = 1..Len(queue.items)
  BY QueueFacts, TypesInParts DEF ReducerPops, QueueTyped
<1>2. /\ Head(queue.items) = queue.items[1] /\ Len(queue.items) \in Nat \ {0}
      /\ Tail(queue.items) \in Seq(Items) /\ Len(Tail(queue.items)) = Len(queue.items) - 1
      /\ \A i \in 1..(Len(queue.items) - 1) : Tail(queue.items)[i] = queue.items[i + 1]
  BY <1>1, TailFacts
<1>3. queue' = [queue EXCEPT !.items = Tail(@)]
      /\ reducer' = [at |-> "serving", item |-> Head(queue.items)]
  BY DEF ReducerPops
<1>4. queue.items' = Tail(queue.items) /\ reducer'.item = queue.items[1]
  BY <1>1, <1>2, <1>3 DEF QueueType
<1>5. DOMAIN queue.items' = 1..(Len(queue.items) - 1)
  BY <1>2, <1>4, LenProperties
<1>6. \A i \in 1..(Len(queue.items) - 1) : i \in Nat /\ i + 1 \in 1..Len(queue.items) /\ i + 1 # 1
  BY <1>2
<1>7. \A i \in 1..Len(queue.items) : i # 1 =>
        i \in Nat /\ i - 1 \in 1..(Len(queue.items) - 1) /\ (i - 1) + 1 = i
  BY <1>2
<1>8. 1 \in 1..Len(queue.items)
  BY <1>2
<1>9. \A i \in DOMAIN queue.items' :
        /\ i \in Nat /\ i + 1 \in DOMAIN queue.items /\ i + 1 # 1
        /\ queue.items'[i] = queue.items[i + 1]
  BY <1>1, <1>2, <1>4, <1>5, <1>6, Zenon
<1>10. \A i \in DOMAIN queue.items : i # 1 =>
         /\ i \in Nat /\ i - 1 \in DOMAIN queue.items'
         /\ queue.items'[i - 1] = queue.items[i]
  <2> SUFFICES ASSUME NEW i \in DOMAIN queue.items, i # 1
               PROVE  /\ i \in Nat /\ i - 1 \in DOMAIN queue.items'
                      /\ queue.items'[i - 1] = queue.items[i]
    OBVIOUS
  <2>1. i \in Nat /\ i - 1 \in 1..(Len(queue.items) - 1) /\ (i - 1) + 1 = i
    BY <1>1, <1>7
  <2>2. Tail(queue.items)[i - 1] = queue.items[(i - 1) + 1]
    BY <1>2, <2>1, Zenon
  <2> QED BY <1>4, <1>5, <2>1, <2>2, Zenon
<1> QED BY <1>1, <1>3, <1>4, <1>8, <1>9, <1>10

\* Every step leaves the frames in front of the stop item.
LEMMA StopStep ==
  ASSUME Inv, [Next]_vars
  PROVE  StopOK'
<1>i. /\ TypeOK /\ ThreadsOK /\ StopOK
      /\ owner \in [at : Places.owner, left : SUBSET Connections]
      /\ reducer \in [at : Places.reducer, item : Items \cup {NoItem}]
  BY TypesInParts DEF Inv, OwnerTyped, QueueTyped
<1>q. /\ \A i \in DOMAIN queue.items : queue.items[i] \in Items /\ queue.items[i] # NoItem
      /\ DOMAIN queue.items = 1..Len(queue.items)
  BY <1>i, QueueFacts, ItemFacts, OtherItems
<1>n. NoItem.kind = "none"
  BY OtherItems
<1>a. ASSUME UNCHANGED <<owner, queue, reducer>> PROVE StopOK'
  BY <1>i, <1>a DEF StopOK
<1>p. ASSUME NEW x \in Items, HasRoom, Push(x), UNCHANGED reducer,
             x.kind = "Stop" => owner'.at = "joiningReducer",
             owner.at \in {"joiningReducer", "down"} => owner'.at = owner.at,
             reducer.item.kind = "Stop" => owner'.at = "joiningReducer",
             x.kind = "Frame" => owner.at \in {"up", "closing", "joiningAcceptor", "releasing"}
      PROVE  StopOK'
  <2> DEFINE n == Len(queue.items) + 1
  <2>1. /\ DOMAIN queue.items' = DOMAIN queue.items \cup {n}
        /\ n \in Nat
        /\ \A i \in DOMAIN queue.items : i \in Nat /\ i < n
        /\ \A i \in DOMAIN queue.items : queue.items'[i] = queue.items[i]
        /\ queue.items'[n] = x
    BY <1>i, <1>p, PushFacts
  <2> HIDE DEF n
  <2>2. (reducer.at = "serving" <=> reducer.item # NoItem)'
    BY <1>i, <1>p DEF StopOK
  <2>3. (reducer.item.kind = "Stop" => owner.at = "joiningReducer")'
    BY <1>p
  <2>4. (\A i \in DOMAIN queue.items :
           queue.items[i].kind = "Stop" => owner.at \in {"joiningReducer", "down"})'
    BY <1>i, <1>p, <2>1 DEF StopOK
  <2>5. x.kind = "Frame" =>
          /\ \A i \in DOMAIN queue.items : queue.items[i].kind # "Stop"
          /\ reducer.item.kind # "Stop" /\ reducer.at # "exited"
    BY <1>i, <1>p DEF StopOK, ThreadsOK
  <2>6. (\A i, j \in DOMAIN queue.items :
           i < j /\ queue.items[i].kind = "Stop" => queue.items[j].kind # "Frame")'
    <3> SUFFICES ASSUME NEW i \in DOMAIN queue.items', NEW j \in DOMAIN queue.items', i < j,
                        queue.items'[i].kind = "Stop"
                 PROVE  queue.items'[j].kind # "Frame"
      OBVIOUS
    <3>1. i \in DOMAIN queue.items
      BY <2>1
    <3>2. CASE j \in DOMAIN queue.items
      BY <1>i, <2>1, <3>1, <3>2 DEF StopOK
    <3>3. CASE j = n
      BY <2>1, <2>5, <3>1, <3>3
    <3> QED BY <2>1, <3>2, <3>3
  <2>7. (reducer.item.kind = "Stop" \/ reducer.at = "exited" =>
           \A i \in DOMAIN queue.items : queue.items[i].kind # "Frame")'
    BY <1>i, <1>p, <2>1, <2>5 DEF StopOK
  <2> QED BY <2>2, <2>3, <2>4, <2>6, <2>7 DEF StopOK
<1>1. CASE StartResets
  <2>1. /\ owner.at = "down" /\ owner'.at = "opening" /\ UNCHANGED reducer
        /\ queue' = [items |-> <<>>, closed |-> FALSE]
    BY <1>1, <1>i DEF StartResets
  <2>2. DOMAIN queue'.items = {}
    BY <2>1
  <2>3. reducer.item.kind # "Stop"
    BY <1>i, <2>1 DEF StopOK
  <2> QED BY <1>i, <2>1, <2>2, <2>3 DEF StopOK
<1>2. CASE StartFails
  BY <1>2, <1>i DEF StartFails, StopOK
<1>3. CASE StartLaunches
  <2>1. /\ owner.at = "opening" /\ owner'.at = "up" /\ UNCHANGED queue
        /\ reducer'.at = "popping" /\ reducer'.item = reducer.item
    BY <1>3, <1>i DEF StartLaunches
  <2>2. reducer.item = NoItem
    BY <1>i, <2>1 DEF StopOK, ThreadsOK
  <2> QED BY <1>i, <1>n, <2>1, <2>2 DEF StopOK
<1>4. CASE StopBegins \/ StopClosesListener \/ StopJoinsAcceptor \/ StopJoinsWorkers
  <2>1. /\ owner.at \in {"up", "closing", "joiningAcceptor", "releasing"}
        /\ UNCHANGED <<queue, reducer>>
    BY <1>4 DEF StopBegins, StopClosesListener, StopJoinsAcceptor, StopJoinsWorkers
  <2> QED BY <1>i, <2>1 DEF StopOK
<1>5. CASE StopTells
  <2>1. /\ owner.at = "telling" /\ owner'.at = "joiningReducer" /\ UNCHANGED reducer
    BY <1>5, <1>i DEF StopTells
  <2>2. CASE HasRoom /\ Push(StopItem)
    BY <1>p, <2>1, <2>2, OtherItems
  <2>3. CASE UNCHANGED queue
    BY <1>i, <2>1, <2>3 DEF StopOK
  <2> QED BY <1>5, <2>2, <2>3 DEF StopTells
<1>6. CASE StopJoinsReducer
  <2>1. /\ owner.at = "joiningReducer" /\ owner'.at = "down" /\ UNCHANGED reducer
        /\ reducer.at = "exited" /\ queue'.items = queue.items
    BY <1>6, <1>i, TypesInParts DEF StopJoinsReducer, QueueTyped, QueueType
  <2>2. reducer.item.kind # "Stop"
    BY <1>i, <1>n, <2>1 DEF StopOK
  <2> QED BY <1>i, <2>1, <2>2 DEF StopOK
<1>7. ASSUME NEW c \in Connections, StopReleases(c) PROVE StopOK'
  <2>1. owner.at = "releasing" /\ UNCHANGED <<queue, reducer>>
    BY <1>7 DEF StopReleases
  <2> QED BY <1>i, <2>1 DEF StopOK
<1>8. CASE ReducerPops
  <2>1. /\ 1 \in DOMAIN queue.items /\ reducer'.item = queue.items[1]
        /\ \A i \in DOMAIN queue.items' :
             /\ i \in Nat /\ i + 1 \in DOMAIN queue.items
             /\ queue.items'[i] = queue.items[i + 1]
        /\ reducer'.at = "serving" /\ UNCHANGED owner /\ reducer.at = "popping"
    BY <1>8, <1>i, PopFacts DEF ReducerPops
  <2>2. (reducer.at = "serving" <=> reducer.item # NoItem)'
    BY <1>q, <2>1
  <2>3. (reducer.item.kind = "Stop" => owner.at = "joiningReducer")'
    <3>1. queue.items[1].kind = "Stop" => owner.at \in {"joiningReducer", "down"}
      BY <1>i, <2>1 DEF StopOK
    <3>2. owner.at # "down"
      BY <1>i, <2>1 DEF ThreadsOK
    <3> QED BY <2>1, <3>1, <3>2
  <2>4. (\A i \in DOMAIN queue.items :
           queue.items[i].kind = "Stop" => owner.at \in {"joiningReducer", "down"})'
    BY <1>i, <2>1 DEF StopOK
  <2>5. (\A i, j \in DOMAIN queue.items :
           i < j /\ queue.items[i].kind = "Stop" => queue.items[j].kind # "Frame")'
    <3> SUFFICES ASSUME NEW i \in DOMAIN queue.items', NEW j \in DOMAIN queue.items', i < j,
                        queue.items'[i].kind = "Stop"
                 PROVE  queue.items'[j].kind # "Frame"
      OBVIOUS
    <3>1. i + 1 < j + 1 /\ i + 1 \in DOMAIN queue.items /\ j + 1 \in DOMAIN queue.items
      BY <2>1
    <3> QED BY <1>i, <2>1, <3>1 DEF StopOK
  <2>6. queue.items[1].kind = "Stop" =>
          \A i \in DOMAIN queue.items' : queue.items'[i].kind # "Frame"
    <3> SUFFICES ASSUME queue.items[1].kind = "Stop", NEW i \in DOMAIN queue.items'
                 PROVE  queue.items'[i].kind # "Frame"
      OBVIOUS
    <3>1. i \in 1..Len(queue.items') /\ i + 1 \in DOMAIN queue.items /\ 1 < i + 1
      <4>1. i \in Nat /\ i + 1 \in 1..Len(queue.items) /\ i + 1 # 1
        BY <1>i, <1>8, <1>q, PopFacts
      <4>2. 1 < i + 1
        BY <4>1
      <4>3. DOMAIN queue.items' = 1..Len(queue.items')
        <5>1. TypeOK'
          BY TypeStep
        <5>2. queue.items' \in Seq(Items)
          BY <5>1 DEF TypeOK
        <5> QED BY <5>2, LenProperties
      <4> QED BY <1>q, <4>1, <4>2, <4>3
    <3>2. \A k \in DOMAIN queue.items : 1 < k => queue.items[k].kind # "Frame"
      BY <1>i, <2>1 DEF StopOK
    <3>3. queue.items[i + 1].kind # "Frame"
      BY <3>1, <3>2
    <3> QED BY <2>1, <3>3
  <2> QED BY <2>1, <2>2, <2>3, <2>4, <2>5, <2>6 DEF StopOK
<1>9. CASE ReducerStops \/ ReducerServes \/ ReducerServesLocal
  <2>1. /\ UNCHANGED <<owner, queue>> /\ reducer'.item = NoItem
        /\ \/ reducer'.at = "popping"
           \/ reducer'.at = "exited" /\ reducer.item.kind = "Stop"
    <3>1. CASE ReducerStops
      BY <3>1 DEF ReducerStops
    <3>2. CASE ReducerServes \/ ReducerServesLocal
      BY <3>2 DEF ReducerServes, ReducerServesLocal
    <3> QED BY <1>9, <3>1, <3>2
  <2> QED BY <1>i, <1>n, <2>1 DEF StopOK
<1>10. ASSUME NEW c \in Connections, WorkerStep(c) \/ WorkerTimesOut(c) PROVE StopOK'
  <2>1. CASE WorkerPushes(c) /\ HasRoom /\ Push(conn[c].frame)
    <3>1. conn[c].at = "pushing" /\ UNCHANGED <<owner, reducer>> /\ conn[c].frame \in Items
          /\ IsFrom(conn[c].frame, c)
      BY <2>1, HeldFacts DEF WorkerPushes
    <3>2. owner.at \in {"up", "closing", "joiningAcceptor", "releasing"}
      BY <3>1, PusherIsRegistered
    <3> QED BY <1>i, <1>p, <2>1, <3>1, <3>2 DEF IsFrom, StopOK
  <2>2. CASE UNCHANGED <<owner, queue, reducer>>
    BY <1>a, <2>2
  <2>3. \/ WorkerPushes(c) /\ HasRoom /\ Push(conn[c].frame)
        \/ UNCHANGED <<owner, queue, reducer>>
    BY <1>10 DEF WorkerStep, WorkerTimesOut, WorkerChecks, WorkerReceives, WorkerSeesEnd, WorkerOnly,
                 WorkerPushes, WorkerRefuses, WorkerWaits, WorkerSends
  <2> QED BY <2>1, <2>2, <2>3
<1>11. ASSUME NEW l \in Locals, LocalCalls(l) \/ LocalStep(l) PROVE StopOK'
  <2>1. \/ HasRoom /\ Push(LocalRequest(l)) /\ UNCHANGED <<owner, reducer>>
        \/ UNCHANGED <<owner, queue, reducer>>
    BY <1>11 DEF LocalCalls, LocalStep, LocalPushes, LocalWaits
  <2>2. LocalRequest(l) \in Items /\ LocalRequest(l).kind = "LocalRequest"
    BY OtherItems
  <2>3. reducer.item.kind = "Stop" => owner.at = "joiningReducer"
    BY <1>i DEF StopOK
  <2> QED BY <1>a, <1>p, <2>1, <2>2, <2>3
<1>12. ASSUME NEW c \in Connections, ClientStep(c) PROVE UNCHANGED <<owner, queue, reducer>>
  BY <1>12 DEF ClientStep, ClientConnects, ClientCalls, ClientReads, ClientTimesOut, ClientCloses
<1>13. CASE AcceptorStep
  <2>1. UNCHANGED <<owner, queue, reducer>>
    BY <1>13 DEF AcceptorStep, AcceptorChecks, AcceptorPolls, Accepts
  <2> QED BY <1>a, <2>1
<1> QED
  BY <1>a, <1>1, <1>2, <1>3, <1>4, <1>5, <1>6, <1>7, <1>8, <1>9, <1>10, <1>11, <1>12, <1>13
  DEF Next, OwnerStops, ReducerStep, vars

\* A frame that one connection sent is no frame of another.
LEMMA FromOne ==
  ASSUME NEW x, NEW c, NEW d, IsFrom(x, c), IsFrom(x, d)
  PROVE  c = d
BY DEF IsFrom

\* No item is no frame.
LEMMA NoFrame == \A c : ~IsFrom(NoItem, c)
BY DEF IsFrom, NoItem

\* A push adds its item to what is carried.
LEMMA CarriedPush ==
  ASSUME TypeOK, NEW x \in Items, HasRoom, Push(x), UNCHANGED reducer, NEW c
  PROVE  /\ Carried(c)' \subseteq Carried(c) \cup {x}
         /\ ~IsFrom(x, c) => Carried(c)' \subseteq Carried(c)
         /\ Single(c) /\ (IsFrom(x, c) => Carried(c) = {}) => Single(c)'
<1> DEFINE n == Len(queue.items) + 1
<1>1. /\ DOMAIN queue.items' = DOMAIN queue.items \cup {n}
      /\ \A i \in DOMAIN queue.items : i # n
      /\ \A i \in DOMAIN queue.items : queue.items'[i] = queue.items[i]
      /\ queue.items'[n] = x
  <2>1. /\ n \in Nat /\ \A i \in DOMAIN queue.items : i \in Nat /\ i < n
    BY PushFacts
  <2> QED BY <2>1, PushFacts
<1> HIDE DEF n
<1>2. Carried(c)' \subseteq Carried(c) \cup {x} /\ (~IsFrom(x, c) => Carried(c)' \subseteq Carried(c))
  <2> SUFFICES ASSUME NEW y \in Carried(c)'
               PROVE  y \in Carried(c) \/ (y = x /\ IsFrom(x, c))
    OBVIOUS
  <2>1. IsFrom(y, c) /\ (y = reducer.item \/ \E i \in DOMAIN queue.items' : y = queue.items'[i])
    BY DEF Carried, IsFrom
  <2>2. CASE y = reducer.item
    BY <2>1, <2>2 DEF Carried
  <2>3. ASSUME NEW i \in DOMAIN queue.items', y = queue.items'[i]
        PROVE  y \in Carried(c) \/ (y = x /\ IsFrom(x, c))
    <3>1. CASE i = n
      BY <1>1, <2>1, <2>3, <3>1
    <3>2. CASE i \in DOMAIN queue.items
      BY <1>1, <2>1, <2>3, <3>2 DEF Carried
    <3> QED BY <1>1, <3>1, <3>2
  <2> QED BY <2>1, <2>2, <2>3
<1>3. ASSUME Single(c), IsFrom(x, c) => Carried(c) = {} PROVE Single(c)'
  <2>1. IsFrom(x, c) => /\ \A i \in DOMAIN queue.items : ~IsFrom(queue.items[i], c)
                        /\ ~IsFrom(reducer.item, c)
    BY <1>3 DEF Carried
  <2>2. \A i, j \in DOMAIN queue.items' :
          IsFrom(queue.items'[i], c) /\ IsFrom(queue.items'[j], c) => i = j
    <3> SUFFICES ASSUME NEW i \in DOMAIN queue.items', NEW j \in DOMAIN queue.items',
                        IsFrom(queue.items'[i], c), IsFrom(queue.items'[j], c)
                 PROVE  i = j
      OBVIOUS
    <3>1. CASE i = n \/ j = n
      BY <1>1, <2>1, <3>1
    <3>2. CASE i # n /\ j # n
      BY <1>1, <1>3, <3>2 DEF Single
    <3> QED BY <3>1, <3>2
  <2>3. IsFrom(reducer.item, c) => \A i \in DOMAIN queue.items' : ~IsFrom(queue.items'[i], c)
    BY <1>1, <1>3, <2>1 DEF Single
  <2> QED BY <2>2, <2>3 DEF Single, IsFrom
<1> QED BY <1>2, <1>3

\* A pop moves an item from the queue to the reducer's hand.
LEMMA CarriedPop ==
  ASSUME TypeOK, ReducerPops, NEW c, Single(c)
  PROVE  Carried(c)' \subseteq Carried(c) /\ Single(c)'
<1>1. /\ 1 \in DOMAIN queue.items /\ reducer'.item = queue.items[1]
      /\ \A i \in DOMAIN queue.items' :
           /\ i \in Nat /\ i + 1 \in DOMAIN queue.items /\ i + 1 # 1
           /\ queue.items'[i] = queue.items[i + 1]
  BY PopFacts
<1>2. Carried(c)' \subseteq Carried(c)
  <2> SUFFICES ASSUME NEW y \in Carried(c)' PROVE y \in Carried(c)
    OBVIOUS
  <2>1. IsFrom(y, c) /\ (y = reducer'.item \/ \E i \in DOMAIN queue.items' : y = queue.items'[i])
    BY DEF Carried, IsFrom
  <2>2. \E i \in DOMAIN queue.items : y = queue.items[i]
    BY <1>1, <2>1
  <2> QED BY <2>1, <2>2 DEF Carried
<1>3. \A i, j \in DOMAIN queue.items' :
        IsFrom(queue.items'[i], c) /\ IsFrom(queue.items'[j], c) => i = j
  <2> SUFFICES ASSUME NEW i \in DOMAIN queue.items', NEW j \in DOMAIN queue.items',
                      IsFrom(queue.items'[i], c), IsFrom(queue.items'[j], c)
               PROVE  i = j
    OBVIOUS
  <2>1. i + 1 = j + 1
    BY <1>1 DEF Single
  <2>2. i \in Nat /\ j \in Nat
    BY <1>1
  <2> QED BY <2>1, <2>2
<1>4. IsFrom(reducer'.item, c) => \A i \in DOMAIN queue.items' : ~IsFrom(queue.items'[i], c)
  <2> SUFFICES ASSUME IsFrom(queue.items[1], c), NEW i \in DOMAIN queue.items',
                      IsFrom(queue.items[i + 1], c)
               PROVE  FALSE
    BY <1>1
  <2> QED BY <1>1 DEF Single
<1> QED BY <1>2, <1>3, <1>4 DEF Single, IsFrom

\* The reducer is done with its item.
LEMMA CarriedDone ==
  ASSUME UNCHANGED queue, reducer'.item = NoItem, NEW c, Single(c)
  PROVE  /\ Carried(c)' \subseteq Carried(c) /\ Single(c)'
         /\ IsFrom(reducer.item, c) => Carried(c)' = {}
<1>1. ~IsFrom(reducer'.item, c)
  BY NoFrame
<1>2. Single(c)'
  BY <1>1 DEF Single, IsFrom
<1>3. \A y \in Carried(c)' : \E i \in DOMAIN queue.items : y = queue.items[i] /\ IsFrom(y, c)
  BY <1>1 DEF Carried, IsFrom
<1> QED BY <1>2, <1>3 DEF Carried, Single

\* Nothing but a push of its worker adds to what is carried for a connection.
LEMMA CarriedKept ==
  ASSUME Inv, [Next]_vars, NEW c \in Connections, ~WorkerPushes(c)
  PROVE  Carried(c)' \subseteq Carried(c) /\ Single(c)'
<1>i. TypeOK /\ Single(c)
  BY DEF Inv, ConnOK, HandOK
<1>a. ASSUME queue'.items = queue.items, reducer'.item = reducer.item
      PROVE  Carried(c)' \subseteq Carried(c) /\ Single(c)'
  BY <1>i, <1>a DEF Carried, Single, IsFrom
<1>u. ASSUME UNCHANGED <<queue, reducer>>
      PROVE  Carried(c)' \subseteq Carried(c) /\ Single(c)'
  BY <1>a, <1>u
<1>1. CASE StartResets
  <2>1. DOMAIN queue'.items = {} /\ UNCHANGED reducer
    BY <1>1 DEF StartResets
  <2> QED BY <2>1 DEF Carried, Single, IsFrom
<1>2. CASE StartLaunches \/ StopJoinsReducer
  <2>1. queue'.items = queue.items /\ reducer'.item = reducer.item
    BY <1>2, <1>i, TypesInParts DEF StartLaunches, StopJoinsReducer, QueueTyped, QueueType
  <2> QED BY <1>a, <2>1
<1>3. CASE StopTells
  <2>1. StopItem \in Items /\ ~IsFrom(StopItem, c)
    BY OtherItems DEF IsFrom
  <2>2. UNCHANGED <<queue, reducer>> \/ (HasRoom /\ Push(StopItem) /\ UNCHANGED reducer)
    BY <1>3 DEF StopTells
  <2> QED BY <1>i, <1>u, <2>1, <2>2, CarriedPush
<1>4. ASSUME NEW d \in Connections,
             StopReleases(d) \/ Accepts(d) \/ WorkerStep(d) \/ WorkerTimesOut(d) \/ ClientStep(d)
      PROVE  Carried(c)' \subseteq Carried(c) /\ Single(c)'
  <2>1. CASE d # c /\ WorkerPushes(d) /\ HasRoom /\ Push(conn[d].frame)
    <3>1. conn[d].frame \in Items /\ IsFrom(conn[d].frame, d) /\ UNCHANGED reducer
      BY <2>1, HeldFacts DEF WorkerPushes
    <3>2. ~IsFrom(conn[d].frame, c)
      BY <2>1, <3>1, FromOne
    <3> QED BY <1>i, <2>1, <3>1, <3>2, CarriedPush
  <2>2. \/ UNCHANGED <<queue, reducer>>
        \/ d # c /\ WorkerPushes(d) /\ HasRoom /\ Push(conn[d].frame)
    <3>1. StopReleases(d) \/ Accepts(d) \/ ClientStep(d) => UNCHANGED <<queue, reducer>>
      BY DEF StopReleases, Accepts, ClientStep, ClientConnects, ClientCalls, ClientReads,
             ClientTimesOut, ClientCloses
    <3>2. WorkerStep(d) \/ WorkerTimesOut(d) =>
            UNCHANGED <<queue, reducer>> \/ WorkerPushes(d)
      BY DEF WorkerStep, WorkerTimesOut, WorkerChecks, WorkerReceives, WorkerSeesEnd, WorkerOnly,
             WorkerRefuses, WorkerWaits, WorkerSends
    <3>3. WorkerPushes(d) =>
            /\ d # c
            /\ UNCHANGED <<queue, reducer>> \/ (HasRoom /\ Push(conn[d].frame))
      BY DEF WorkerPushes
    <3> QED BY <1>4, <3>1, <3>2, <3>3
  <2> QED BY <1>u, <2>1, <2>2
<1>5. CASE ReducerPops
  BY <1>i, <1>5, CarriedPop
<1>6. CASE ReducerStops \/ ReducerServes \/ ReducerServesLocal
  <2>1. UNCHANGED queue /\ reducer'.item = NoItem
    BY <1>6 DEF ReducerStops, ReducerServes, ReducerServesLocal
  <2> QED BY <1>i, <2>1, CarriedDone
<1>7. ASSUME NEW l \in Locals, LocalCalls(l) \/ LocalStep(l)
      PROVE  Carried(c)' \subseteq Carried(c) /\ Single(c)'
  <2>1. LocalRequest(l) \in Items /\ ~IsFrom(LocalRequest(l), c)
    BY OtherItems DEF IsFrom
  <2>2. UNCHANGED <<queue, reducer>> \/ (HasRoom /\ Push(LocalRequest(l)) /\ UNCHANGED reducer)
    BY <1>7 DEF LocalCalls, LocalStep, LocalPushes, LocalWaits
  <2> QED BY <1>i, <1>u, <2>1, <2>2, CarriedPush
<1>8. CASE StartFails \/ StopBegins \/ StopClosesListener \/ StopJoinsAcceptor \/ StopJoinsWorkers
             \/ AcceptorChecks \/ AcceptorPolls \/ UNCHANGED vars
  BY <1>u, <1>8 DEF StartFails, StopBegins, StopClosesListener, StopJoinsAcceptor, StopJoinsWorkers,
                    AcceptorChecks, AcceptorPolls, vars
<1> QED
  BY <1>1, <1>2, <1>3, <1>4, <1>5, <1>6, <1>7, <1>8
  DEF Next, OwnerStops, AcceptorStep, ReducerStep

-------------------------------------------------------------------------------
(* The replies of a connection *)

\* The replies a client has read and those on their way to it.
Joint(read, back) == [i \in DOMAIN read |-> read[i].reply] \o back
Readings == Seq([call : Numbers, reply : Replies])

\* Joining them, element by element.
LEMMA JointFacts ==
  ASSUME NEW read \in Readings, NEW back \in Seq(Replies)
  PROVE  /\ Joint(read, back) \in Seq(Replies)
         /\ Len(read) \in Nat /\ Len(back) \in Nat
         /\ Len(Joint(read, back)) = Len(read) + Len(back)
         /\ DOMAIN Joint(read, back) = 1..Len(Joint(read, back))
         /\ \A i \in 1..Len(read) : Joint(read, back)[i] = read[i].reply
         /\ \A i \in 1..Len(back) : Joint(read, back)[Len(read) + i] = back[i]
<1> DEFINE front == [i \in DOMAIN read |-> read[i].reply]
<1>1. /\ DOMAIN read = 1..Len(read) /\ Len(read) \in Nat
      /\ \A i \in 1..Len(read) : read[i] \in [call : Numbers, reply : Replies]
  BY LenProperties, ElementOfSeq DEF Readings
<1>2. front \in Seq(Replies) /\ Len(front) = Len(read)
  <2>1. front = [i \in 1..Len(read) |-> read[i].reply]
    BY <1>1
  <2>2. \A i \in 1..Len(read) : read[i].reply \in Replies
    BY <1>1
  <2> QED BY <1>1, <2>1, <2>2
<1>3. \A i \in 1..Len(read) : front[i] = read[i].reply
  BY <1>1
<1>4. Joint(read, back) = front \o back
  BY DEF Joint
<1> HIDE DEF front
<1>5. /\ front \o back \in Seq(Replies)
      /\ Len(back) \in Nat
      /\ Len(front \o back) = Len(front) + Len(back)
      /\ \A i \in 1..Len(front) : (front \o back)[i] = front[i]
      /\ \A i \in 1..Len(back) : (front \o back)[Len(front) + i] = back[i]
  BY <1>2, ConcatFacts
<1>6. DOMAIN Joint(read, back) = 1..Len(Joint(read, back))
  BY <1>4, <1>5, LenProperties
<1> QED BY <1>1, <1>2, <1>3, <1>4, <1>5, <1>6

\* A sequence of replies that begins another.
Begins(r, s) ==
  r \in Seq(Replies) /\ Len(r) \in Nat /\ Len(r) <= Len(s) /\ \A i \in 1..Len(r) : r[i] = s[i]

\* A reply that is sent is the last.
LEMMA ReplySent ==
  ASSUME NEW read \in Readings, NEW back \in Seq(Replies), NEW r \in Replies
  PROVE  /\ Len(Joint(read, Append(back, r))) = Len(Joint(read, back)) + 1
         /\ \A i \in 1..Len(Joint(read, back)) : Joint(read, Append(back, r))[i] = Joint(read, back)[i]
         /\ Joint(read, Append(back, r))[Len(Joint(read, back)) + 1] = r
<1> DEFINE old == Joint(read, back)
           new == Joint(read, Append(back, r))
           a == Len(read)
           b == Len(back)
<1>1. /\ Append(back, r) \in Seq(Replies) /\ b \in Nat /\ Len(Append(back, r)) = b + 1
      /\ \A i \in 1..b : Append(back, r)[i] = back[i]
      /\ Append(back, r)[b + 1] = r
  BY AppendFacts
<1>2. /\ a \in Nat /\ Len(old) = a + b
      /\ \A i \in 1..a : old[i] = read[i].reply
      /\ \A i \in 1..b : old[a + i] = back[i]
  BY JointFacts
<1>3. /\ Len(new) = a + (b + 1)
      /\ \A i \in 1..a : new[i] = read[i].reply
      /\ \A i \in 1..(b + 1) : new[a + i] = Append(back, r)[i]
  <2> DEFINE longer == Append(back, r)
  <2>1. longer \in Seq(Replies) /\ Len(longer) = b + 1
    BY <1>1
  <2> HIDE DEF longer
  <2>2. /\ Len(Joint(read, longer)) = Len(read) + Len(longer)
        /\ \A i \in 1..Len(read) : Joint(read, longer)[i] = read[i].reply
        /\ \A i \in 1..Len(longer) : Joint(read, longer)[Len(read) + i] = longer[i]
    BY <2>1, JointFacts
  <2> QED BY <2>1, <2>2 DEF longer
<1> HIDE DEF old, new, a, b
<1>4. \A i \in 1..Len(old) : new[i] = old[i]
  <2> SUFFICES ASSUME NEW i \in 1..Len(old) PROVE new[i] = old[i]
    OBVIOUS
  <2>1. CASE i \in 1..a
    BY <1>2, <1>3, <2>1
  <2>2. CASE i \notin 1..a
    <3>1. i - a \in 1..b /\ i - a \in 1..(b + 1) /\ a + (i - a) = i
      BY <1>1, <1>2, <2>2
    <3>2. new[a + (i - a)] = Append(back, r)[i - a] /\ old[a + (i - a)] = back[i - a]
          /\ Append(back, r)[i - a] = back[i - a]
      BY <1>1, <1>2, <1>3, <3>1, Zenon
    <3> QED BY <3>1, <3>2
  <2> QED BY <2>1, <2>2
<1>5. new[Len(old) + 1] = r
  <2>1. b + 1 \in 1..(b + 1) /\ Len(old) + 1 = a + (b + 1)
    BY <1>1, <1>2
  <2>2. new[a + (b + 1)] = Append(back, r)[b + 1]
    BY <1>3, <2>1, Zenon
  <2> QED BY <1>1, <2>1, <2>2
<1>6. Len(new) = Len(old) + 1
  BY <1>1, <1>2, <1>3
<1> QED BY <1>4, <1>5, <1>6 DEF old, new

\* A reply that is read stays where it is.
LEMMA ReplyRead ==
  ASSUME NEW read \in Readings, NEW back \in Seq(Replies), back # <<>>,
         NEW e \in [call : Numbers, reply : Replies], e.reply = Head(back)
  PROVE  Joint(Append(read, e), Tail(back)) = Joint(read, back)
<1> DEFINE old == Joint(read, back)
           new == Joint(Append(read, e), Tail(back))
           a == Len(read)
           b == Len(back)
<1>1. /\ b \in Nat \ {0} /\ Head(back) = back[1] /\ Tail(back) \in Seq(Replies)
      /\ Len(Tail(back)) = b - 1
      /\ \A i \in 1..(b - 1) : Tail(back)[i] = back[i + 1]
  BY TailFacts
<1>2. /\ Append(read, e) \in Readings /\ a \in Nat /\ Len(Append(read, e)) = a + 1
      /\ \A i \in 1..a : Append(read, e)[i] = read[i]
      /\ Append(read, e)[a + 1] = e
  BY AppendFacts DEF Readings
<1>3. /\ old \in Seq(Replies) /\ Len(old) = a + b
      /\ \A i \in 1..a : old[i] = read[i].reply
      /\ \A i \in 1..b : old[a + i] = back[i]
  BY JointFacts
<1>4. /\ new \in Seq(Replies) /\ Len(new) = (a + 1) + (b - 1)
      /\ \A i \in 1..(a + 1) : new[i] = Append(read, e)[i].reply
      /\ \A i \in 1..(b - 1) : new[(a + 1) + i] = Tail(back)[i]
  <2>1. /\ Append(read, e) \in Readings /\ Tail(back) \in Seq(Replies)
        /\ Len(Append(read, e)) = a + 1 /\ Len(Tail(back)) = b - 1
    BY <1>1, <1>2
  <2> HIDE DEF a, b
  <2>2. /\ Joint(Append(read, e), Tail(back)) \in Seq(Replies)
        /\ Len(Joint(Append(read, e), Tail(back))) = Len(Append(read, e)) + Len(Tail(back))
        /\ \A i \in 1..Len(Append(read, e)) :
             Joint(Append(read, e), Tail(back))[i] = Append(read, e)[i].reply
        /\ \A i \in 1..Len(Tail(back)) :
             Joint(Append(read, e), Tail(back))[Len(Append(read, e)) + i] = Tail(back)[i]
    BY <2>1, JointFacts
  <2> QED BY <2>1, <2>2
<1> HIDE DEF old, new, a, b
<1>5. Len(new) = Len(old)
  BY <1>1, <1>2, <1>3, <1>4
<1>6. \A i \in 1..Len(old) : new[i] = old[i]
  <2> SUFFICES ASSUME NEW i \in 1..Len(old) PROVE new[i] = old[i]
    OBVIOUS
  <2>1. CASE i \in 1..a
    <3>1. i \in 1..(a + 1)
      BY <1>2, <2>1
    <3> QED BY <1>2, <1>3, <1>4, <2>1, <3>1
  <2>2. CASE i = a + 1
    <3>1. i \in 1..(a + 1) /\ 1 \in 1..b
      BY <1>1, <1>2, <2>2
    <3>2. new[i] = Append(read, e)[a + 1].reply /\ old[a + 1] = back[1]
      BY <1>3, <1>4, <2>2, <3>1
    <3> QED BY <1>1, <1>2, <2>2, <3>2
  <2>3. CASE i \notin 1..(a + 1)
    <3> DEFINE k == i - (a + 1)
    <3>1. k \in 1..(b - 1) /\ k + 1 \in 1..b /\ i = (a + 1) + k /\ i = a + (k + 1)
      BY <1>1, <1>2, <1>3, <2>3
    <3> HIDE DEF k
    <3>2. new[(a + 1) + k] = Tail(back)[k] /\ old[a + (k + 1)] = back[k + 1]
          /\ Tail(back)[k] = back[k + 1]
      BY <1>1, <1>3, <1>4, <3>1, Zenon
    <3> QED BY <3>1, <3>2
  <2> QED BY <1>2, <2>1, <2>2, <2>3
<1>7. new = old
  BY <1>3, <1>4, <1>5, <1>6, SeqEqual
<1> QED BY <1>7 DEF old, new

\* What is lost with the socket was on its way.
LEMMA ReplyLost ==
  ASSUME NEW read \in Readings, NEW back \in Seq(Replies)
  PROVE  Begins(Joint(read, <<>>), Joint(read, back))
<1>1. <<>> \in Seq(Replies) /\ Len(<<>>) = 0
  BY EmptySeq
<1>2. /\ Joint(read, <<>>) \in Seq(Replies) /\ Len(read) \in Nat
      /\ Len(Joint(read, <<>>)) = Len(read) + Len(<<>>)
      /\ \A i \in 1..Len(read) : Joint(read, <<>>)[i] = read[i].reply
  BY <1>1, JointFacts
<1>3. /\ Len(Joint(read, back)) = Len(read) + Len(back) /\ Len(back) \in Nat
      /\ \A i \in 1..Len(read) : Joint(read, back)[i] = read[i].reply
  BY JointFacts
<1>4. Len(Joint(read, <<>>)) = Len(read) /\ Len(read) <= Len(Joint(read, back))
  BY <1>1, <1>2, <1>3
<1> QED BY <1>2, <1>3, <1>4 DEF Begins

-------------------------------------------------------------------------------
(* One connection *)

\* What is known of a connection's replies and frames.
LEMMA ConnFacts ==
  ASSUME Inv, NEW c \in Connections
  PROVE  /\ client[c].read \in Readings /\ link[c].toClient \in Seq(Replies)
         /\ link[c].toServer \in Seq(Items) /\ Len(link[c].toServer) \in Nat
         /\ RepliesTo(c) = Joint(client[c].read, link[c].toClient)
         /\ RepliesTo(c) \in Seq(Replies) /\ Got(c) \in Nat /\ DOMAIN RepliesTo(c) = 1..Got(c)
         /\ \A i \in 1..Got(c) : RepliesTo(c)[i] \in Replies /\ RepliesTo(c)[i].number \in Nat
         /\ client[c].calls \in Nat /\ Taken(c) \in Nat
         /\ Taken(c) = client[c].calls - Len(link[c].toServer)
         /\ Owed(c) \in {0, 1}
<1>1. /\ client[c].read \in Readings /\ link[c].toClient \in Seq(Replies)
      /\ link[c].toServer \in Seq(Items) /\ client[c].calls \in {0} \cup Numbers
  BY HeldFacts DEF ClientType, LinkType, Readings
<1>2. RepliesTo(c) = Joint(client[c].read, link[c].toClient)
  BY DEF RepliesTo, Joint
<1>3. RepliesTo(c) \in Seq(Replies)
  BY <1>1, <1>2, JointFacts
<1>4. /\ Got(c) \in Nat /\ DOMAIN RepliesTo(c) = 1..Got(c)
      /\ \A i \in 1..Got(c) : RepliesTo(c)[i] \in Replies
  BY <1>3, LenProperties, ElementOfSeq DEF Got
<1>5. \A i \in 1..Got(c) : RepliesTo(c)[i].number \in Nat
  <2> SUFFICES ASSUME NEW i \in 1..Got(c) PROVE RepliesTo(c)[i].number \in Nat
    OBVIOUS
  <2>1. RepliesTo(c)[i] \in Replies
    BY <1>4
  <2> HIDE DEF RepliesTo
  <2> QED BY <2>1, ReplyNumbers
<1>6. Len(link[c].toServer) \in Nat /\ client[c].calls \in Nat
  BY <1>1, LenProperties, NumbersArePositive
<1>7. Len(link[c].toServer) <= client[c].calls
  BY DEF Inv, ConnOK, LinkOK
<1> QED BY <1>1, <1>2, <1>3, <1>4, <1>5, <1>6, <1>7 DEF Taken, Owed

\* What is carried for a connection are its frames.
LEMMA CarriedFacts ==
  ASSUME Inv, NEW c \in Connections
  PROVE  /\ \A x \in Carried(c) : x \in Items /\ IsFrom(x, c) /\ x.number \in Numbers /\ x.number \in Nat
         /\ conn[c].frame.number \in Nat
         /\ conn[c].reply.number \in Nat
<1>1. \A x \in Carried(c) : x \in Items /\ IsFrom(x, c)
  <2> SUFFICES ASSUME NEW x \in Carried(c) PROVE x \in Items /\ IsFrom(x, c)
    OBVIOUS
  <2>1. IsFrom(x, c) /\ x \in Items \cup {NoItem}
    BY QueueFacts DEF Inv, Carried
  <2> QED BY <2>1, NoFrame
<1>2. \A x \in Carried(c) : x.number \in Numbers
  BY <1>1, ItemFacts DEF IsFrom
<1>3. conn[c].frame.number \in Nat
  BY HeldFacts, NumbersArePositive
<1>4. conn[c].reply.number \in Nat
  <2>1. conn[c].reply \in Replies \cup {NoReply}
    BY HeldFacts
  <2> QED BY <2>1, ReplyNumbers
<1> QED BY <1>1, <1>2, <1>3, <1>4, NumbersArePositive

\* The places of a connection that holds nothing to be answered.
Empty == {"absent", "backlog", "checking", "receiving", "pushing", "refusing"}

\* A step that neither takes a frame nor answers one leaves a connection's hands and
\* its replies in order.
LEMMA Calm ==
  ASSUME Inv, NEW c \in Connections,
         Begins(RepliesTo(c)', RepliesTo(c)),
         Taken(c)' \in Int, Taken(c) <= Taken(c)',
         conn'[c].frame = conn[c].frame, conn'[c].reply = conn[c].reply,
         \A m : <<c, m>> \in served' <=> <<c, m>> \in served,
         Carried(c)' \subseteq Carried(c), Single(c)',
         conn'[c].at \in {"pushing", "refusing"} => conn[c].at \in {"pushing", "refusing"},
         conn'[c].at \in Empty => conn[c].at \in Empty \/ (Carried(c) = {} /\ conn[c].reply = NoReply),
         conn'[c].at = "sending" => conn[c].reply # NoReply,
         conn[c].at = "joined" => conn'[c].at = "joined"
  PROVE  HandOK(c)' /\ AnswersOK(c)'
<1>h. HandOK(c) /\ AnswersOK(c)
  BY DEF Inv, ConnOK
<1>1. /\ Got(c) \in Nat /\ Got(c)' \in Nat /\ Got(c)' <= Got(c) /\ Taken(c) \in Nat
      /\ DOMAIN RepliesTo(c) = 1..Got(c) /\ DOMAIN RepliesTo(c)' = 1..Got(c)'
      /\ \A i \in 1..Got(c)' : RepliesTo(c)'[i] = RepliesTo(c)[i]
  BY ConnFacts, LenProperties DEF Begins, Got
<1>2. ASSUME NEW n \in Nat, Fresh(c, n) PROVE Fresh(c, n)'
  BY <1>1, <1>2 DEF Fresh
<1>3. /\ \A x \in Carried(c) : x.number \in Nat
      /\ conn[c].frame.number \in Nat /\ conn[c].reply.number \in Nat
  BY CarriedFacts
<1>4. HandOK(c)'
  <2>1. (conn[c].at \in {"pushing", "refusing"} =>
           IsFrom(conn[c].frame, c) /\ Fresh(c, conn[c].frame.number))'
    <3> SUFFICES ASSUME conn'[c].at \in {"pushing", "refusing"}
                 PROVE  IsFrom(conn'[c].frame, c) /\ Fresh(c, conn[c].frame.number)'
      BY DEF IsFrom
    <3>1. IsFrom(conn[c].frame, c) /\ Fresh(c, conn[c].frame.number)
      BY <1>h DEF HandOK
    <3>2. PICK n \in Nat : n = conn[c].frame.number
      BY <1>3
    <3>3. Fresh(c, n)'
      BY <1>2, <3>1, <3>2
    <3>4. n = conn'[c].frame.number
      BY <3>2
    <3> QED BY <3>1, <3>3, <3>4 DEF Fresh
  <2>2. (conn[c].at \in Empty => Carried(c) = {} /\ conn[c].reply = NoReply)'
    BY <1>h DEF HandOK, Empty
  <2>3. (conn[c].at = "sending" => conn[c].reply # NoReply)'
    OBVIOUS
  <2>4. (conn[c].reply # NoReply =>
           /\ Carried(c) = {} /\ conn[c].reply.kind = "done"
           /\ Got(c) < conn[c].reply.number /\ conn[c].reply.number <= Taken(c)
           /\ <<c, conn[c].reply.number>> \in served)'
    <3> SUFFICES ASSUME conn[c].reply # NoReply
                 PROVE  /\ Carried(c)' = {} /\ conn[c].reply.kind = "done"
                        /\ Got(c)' < conn[c].reply.number /\ conn[c].reply.number <= Taken(c)'
                        /\ <<c, conn[c].reply.number>> \in served'
      OBVIOUS
    <3>1. /\ Carried(c) = {} /\ conn[c].reply.kind = "done"
          /\ Got(c) < conn[c].reply.number /\ conn[c].reply.number <= Taken(c)
          /\ <<c, conn[c].reply.number>> \in served
      BY <1>h DEF HandOK
    <3> QED BY <1>1, <1>3, <3>1
  <2>5. \A x \in Carried(c)' : Fresh(c, x.number)'
    <3> SUFFICES ASSUME NEW x \in Carried(c)' PROVE Fresh(c, x.number)'
      OBVIOUS
    <3>1. x \in Carried(c) /\ x.number \in Nat /\ Fresh(c, x.number)
      BY <1>3, <1>h DEF HandOK
    <3> QED BY <1>2, <3>1
  <2>6. (\A m \in Numbers : <<c, m>> \in served => m <= Taken(c))'
    <3> SUFFICES ASSUME NEW m \in Numbers, <<c, m>> \in served' PROVE m <= Taken(c)'
      OBVIOUS
    <3>1. m <= Taken(c) /\ m \in Nat
      BY <1>h, NumbersArePositive DEF HandOK
    <3> QED BY <1>1, <3>1
  <2> QED BY <2>1, <2>2, <2>3, <2>4, <2>5, <2>6 DEF HandOK, Empty
<1>5. AnswersOK(c)'
  <2>1. \A i \in 1..Got(c)' : i \in 1..Got(c)
    BY <1>1
  <2>2. (\A i \in DOMAIN RepliesTo(c) :
           RepliesTo(c)[i].kind = "done" <=> <<c, RepliesTo(c)[i].number>> \in served)'
    BY <1>h, <1>1, <2>1, Zenon DEF AnswersOK
  <2>3. CASE \A i \in DOMAIN RepliesTo(c) : RepliesTo(c)[i].number = i
    <3>1. \A i \in DOMAIN RepliesTo(c)' : RepliesTo(c)'[i].number = i
      BY <1>1, <2>1, <2>3
    <3> QED BY <2>2, <3>1 DEF AnswersOK
  <2>4. CASE RepliesTo(c) = <<Busy(0)>> /\ conn[c].at = "joined"
    <3>1. CASE Got(c)' = 0
      <4>1. DOMAIN RepliesTo(c)' = {}
        BY <1>1, <3>1
      <4> QED BY <2>2, <4>1 DEF AnswersOK
    <3>2. CASE Got(c)' # 0
      <4>1. RepliesTo(c)' = <<Busy(0)>>
        <5>1. Len(RepliesTo(c)') = 1
          BY <1>1, <2>4, <3>2 DEF Got
        <5>2. RepliesTo(c)' \in Seq(Replies) /\ RepliesTo(c) \in Seq(Replies)
              /\ Len(RepliesTo(c)) = 1
          BY <2>4, ConnFacts DEF Begins
        <5>3. \A i \in 1..1 : RepliesTo(c)'[i] = RepliesTo(c)[i]
          BY <5>1 DEF Begins
        <5>4. RepliesTo(c)' = RepliesTo(c)
          BY <5>1, <5>2, <5>3, SeqEqual
        <5> QED BY <2>4, <5>4
      <4> QED BY <2>2, <2>4, <4>1 DEF AnswersOK, Busy
    <3> QED BY <3>1, <3>2
  <2> QED BY <1>h, <2>3, <2>4 DEF AnswersOK
<1> QED BY <1>4, <1>5

\* A sequence of replies begins itself.
LEMMA BeginsItself ==
  ASSUME NEW r \in Seq(Replies)
  PROVE  Begins(r, r)
BY LenProperties DEF Begins

\* A step of others, or one that only moves the worker on, keeps a connection in order.
LEMMA Placed ==
  ASSUME Inv, NEW c \in Connections,
         client'[c] = client[c],
         link'[c].toServer = link[c].toServer, link'[c].toClient = link[c].toClient,
         link'[c].near = link[c].near, link'[c].far = link[c].far,
         link[c].aborted => link'[c].aborted,
         conn'[c].frame = conn[c].frame, conn'[c].reply = conn[c].reply,
         \A m : <<c, m>> \in served' <=> <<c, m>> \in served,
         Carried(c)' \subseteq Carried(c), Single(c)',
         \/ conn'[c].at = conn[c].at
         \/ conn[c].at \notin {"absent", "joined"} /\ conn'[c].at \notin {"absent", "backlog"},
         conn'[c].at \in Active => /\ conn[c].at \in Active
                                   /\ conn'[c].at \in Owing <=> conn[c].at \in Owing,
         conn'[c].at \in {"pushing", "refusing"} => conn[c].at \in {"pushing", "refusing"},
         conn'[c].at \in Empty => conn[c].at \in Empty,
         conn'[c].at = "sending" => conn[c].at = "sending" \/ conn[c].reply # NoReply
  PROVE  ConnOK(c)'
<1>h. ClientOK(c) /\ LinkOK(c) /\ LevelOK(c) /\ HandOK(c)
  BY DEF Inv, ConnOK
<1>1. RepliesTo(c)' = RepliesTo(c) /\ Taken(c)' = Taken(c) /\ Got(c)' = Got(c)
  BY DEF RepliesTo, Taken, Got
<1>2. HandOK(c)' /\ AnswersOK(c)'
  <2>1. RepliesTo(c) \in Seq(Replies) /\ Taken(c) \in Nat
    BY ConnFacts
  <2>2. Begins(RepliesTo(c)', RepliesTo(c)) /\ Taken(c)' \in Int /\ Taken(c) <= Taken(c)'
    BY <1>1, <2>1, BeginsItself
  <2>3. conn'[c].at = "sending" => conn[c].reply # NoReply
    BY <1>h DEF HandOK
  <2>4. /\ conn'[c].at \in Empty => conn[c].at \in Empty \/ (Carried(c) = {} /\ conn[c].reply = NoReply)
        /\ conn[c].at = "joined" => conn'[c].at = "joined"
    OBVIOUS
  <2> HIDE <1>h
  <2> QED BY <2>2, <2>3, <2>4, Calm
<1>3. ClientOK(c)'
  BY <1>h, <1>1 DEF ClientOK
<1>4. LinkOK(c)'
  <2>1. conn'[c].at \in Active => link'[c].near
    BY <1>h DEF LinkOK
  <2>2. /\ ~link'[c].near => link'[c].toServer = <<>>
        /\ Len(link'[c].toServer) <= client'[c].calls
    BY <1>h DEF LinkOK
  <2>3. \A i \in DOMAIN link'[c].toServer :
          IsFrom(link'[c].toServer[i], c) /\ link'[c].toServer[i].number = Taken(c)' + i
    BY <1>h, <1>1 DEF LinkOK
  <2> QED BY <2>1, <2>2, <2>3 DEF LinkOK, IsFrom
<1>5. LevelOK(c)'
  <2>1. conn'[c].at \in Active => Owed(c)' = Owed(c)
    BY DEF Owed
  <2>2. conn'[c].at = "backlog" => conn[c].at = "backlog"
    OBVIOUS
  <2> QED BY <1>h, <1>1, <2>1, <2>2 DEF LevelOK
<1> QED BY <1>2, <1>3, <1>4, <1>5 DEF ConnOK

\* The server lets go of a connection.
LEMMA Gone ==
  ASSUME Inv, NEW c \in Connections,
         conn[c].at \in {"backlog", "finished"}, conn'[c].at = "joined",
         client'[c] = client[c],
         link'[c].toServer = <<>>, link'[c].toClient = link[c].toClient, ~link'[c].near,
         conn'[c].frame = conn[c].frame, conn'[c].reply = conn[c].reply,
         \A m : <<c, m>> \in served' <=> <<c, m>> \in served,
         Carried(c)' \subseteq Carried(c), Single(c)'
  PROVE  ConnOK(c)'
<1>h. ClientOK(c)
  BY DEF Inv, ConnOK
<1>0. Len(<<>>) = 0 /\ DOMAIN link'[c].toServer = {}
  OBVIOUS
<1>1. RepliesTo(c)' = RepliesTo(c) /\ Taken(c)' = client[c].calls - 0
  BY <1>0 DEF RepliesTo, Taken
<1>2. /\ RepliesTo(c) \in Seq(Replies) /\ Taken(c) \in Nat /\ client[c].calls \in Nat
      /\ Len(link[c].toServer) \in Nat /\ Taken(c) = client[c].calls - Len(link[c].toServer)
  BY ConnFacts
<1>3. Begins(RepliesTo(c)', RepliesTo(c)) /\ Taken(c)' \in Int /\ Taken(c) <= Taken(c)'
  BY <1>1, <1>2, BeginsItself
<1>4. HandOK(c)' /\ AnswersOK(c)'
  <2>1. /\ conn'[c].at \notin {"pushing", "refusing"} /\ conn'[c].at \notin Empty
        /\ conn'[c].at # "sending" /\ conn[c].at # "joined"
    BY DEF Empty
  <2> QED BY <1>3, <2>1, Calm
<1>5. ClientOK(c)'
  BY <1>h DEF ClientOK
<1>6. LinkOK(c)'
  BY <1>0, <1>2 DEF LinkOK, Active
<1>7. LevelOK(c)'
  BY DEF LevelOK, Active
<1> QED BY <1>4, <1>5, <1>6, <1>7 DEF ConnOK

\* A connection over the limit gets its refusal.
LEMMA Limited ==
  ASSUME Inv, NEW c \in Connections,
         conn[c].at = "backlog", conn'[c].at = "joined",
         client'[c] = client[c],
         link'[c].toServer = <<>>, link'[c].toClient = <<Busy(0)>>, ~link'[c].near,
         conn'[c].frame = conn[c].frame, conn'[c].reply = conn[c].reply,
         UNCHANGED served,
         Carried(c)' \subseteq Carried(c), Single(c)'
  PROVE  ConnOK(c)'
<1>h. ClientOK(c) /\ LevelOK(c) /\ HandOK(c) /\ AnswersOK(c) /\ served \subseteq Connections \X Numbers
  BY TypesInParts DEF Inv, ConnOK, ServedTyped
<1>0. Len(<<>>) = 0 /\ DOMAIN link'[c].toServer = {}
  OBVIOUS
<1>1. /\ client[c].read \in Readings /\ link[c].toClient \in Seq(Replies)
      /\ RepliesTo(c) = Joint(client[c].read, link[c].toClient)
      /\ Taken(c) \in Nat /\ Got(c) \in Nat /\ client[c].calls \in Nat /\ Owed(c) \in {0, 1}
  BY ConnFacts
<1>2. Taken(c) = 0 /\ Got(c) = 0
  BY <1>h, <1>1 DEF LevelOK, Active
<1>3. Len(client[c].read) = 0
  <2>1. /\ Len(client[c].read) \in Nat /\ Len(link[c].toClient) \in Nat
        /\ Len(Joint(client[c].read, link[c].toClient)) = Len(client[c].read) + Len(link[c].toClient)
    BY <1>1, JointFacts
  <2>2. Len(Joint(client[c].read, link[c].toClient)) = 0
    BY <1>1, <1>2 DEF Got
  <2>3. Len(client[c].read) + Len(link[c].toClient) = 0
    BY <2>1, <2>2
  <2>4. \A a, b \in Nat : a + b = 0 => a = 0
    OBVIOUS
  <2> QED BY <2>1, <2>3, <2>4, Zenon
<1>4. RepliesTo(c)' = <<Busy(0)>>
  <2> DEFINE r == Joint(client[c].read, <<Busy(0)>>)
  <2>1. <<Busy(0)>> \in Seq(Replies) /\ Len(<<Busy(0)>>) = 1 /\ <<Busy(0)>>[1] = Busy(0)
    BY ReplyFacts
  <2>2. /\ r \in Seq(Replies) /\ Len(r) = Len(client[c].read) + Len(<<Busy(0)>>)
        /\ \A i \in 1..Len(<<Busy(0)>>) : r[Len(client[c].read) + i] = <<Busy(0)>>[i]
    BY <1>1, <2>1, JointFacts
  <2>3. Len(r) = 1 /\ \A i \in 1..1 : r[i] = <<Busy(0)>>[i]
    BY <1>3, <2>1, <2>2
  <2>4. RepliesTo(c)' = r
    BY DEF RepliesTo, Joint
  <2> HIDE DEF r
  <2>5. r = <<Busy(0)>>
    BY <2>1, <2>2, <2>3, SeqEqual
  <2> QED BY <2>4, <2>5
<1>5. \A m \in Numbers : <<c, m>> \notin served
  <2> SUFFICES ASSUME NEW m \in Numbers, <<c, m>> \in served PROVE FALSE
    OBVIOUS
  <2>1. m <= Taken(c) /\ m \in Nat \ {0}
    BY <1>h, NumbersArePositive DEF HandOK
  <2> QED BY <1>2, <2>1
<1>6. HandOK(c)'
  <2>1. Carried(c) = {} /\ conn[c].reply = NoReply
    BY <1>h DEF HandOK
  <2> QED BY <1>5, <2>1 DEF HandOK
<1>7. AnswersOK(c)'
  <2>1. DOMAIN RepliesTo(c)' = {1} /\ RepliesTo(c)'[1] = Busy(0)
    BY <1>4
  <2>2. Busy(0).kind = "busy" /\ Busy(0).number = 0
    BY ReplyFacts
  <2>3. <<c, 0>> \notin served'
    BY <1>h, NumbersArePositive
  <2>4. RepliesTo(c)'[1].kind # "done" /\ <<c, RepliesTo(c)'[1].number>> \notin served'
    BY <2>1, <2>2, <2>3
  <2>5. \A i \in DOMAIN RepliesTo(c)' :
          RepliesTo(c)'[i].kind = "done" <=> <<c, RepliesTo(c)'[i].number>> \in served'
    BY <2>1, <2>4
  <2>6. RepliesTo(c)' = <<Busy(0)>> /\ conn'[c].at = "joined"
    BY <1>4
  <2>7. Busy(0)' = Busy(0)
    BY DEF Busy
  <2> QED BY <2>5, <2>6, <2>7 DEF AnswersOK
<1>8. ClientOK(c)'
  BY <1>h DEF ClientOK
<1>9. LinkOK(c)'
  BY <1>0, <1>1 DEF LinkOK, Active
<1>10. LevelOK(c)'
  BY DEF LevelOK, Active
<1> QED BY <1>6, <1>7, <1>8, <1>9, <1>10 DEF ConnOK

\* The worker takes the next frame of its connection.
LEMMA Received ==
  ASSUME Inv, NEW c \in Connections, WorkerReceives(c), Carried(c)' \subseteq Carried(c), Single(c)'
  PROVE  ConnOK(c)'
<1>h. ClientOK(c) /\ LinkOK(c) /\ LevelOK(c) /\ HandOK(c) /\ AnswersOK(c)
  BY DEF Inv, ConnOK
<1>t. conn[c] \in ConnType /\ link[c] \in LinkType /\ ConnTyped /\ LinkTyped
  BY HeldFacts, TypesInParts DEF Inv
<1>1. /\ conn[c].at = "receiving" /\ conn'[c].at = "pushing" /\ conn'[c].reply = conn[c].reply
      /\ conn'[c].frame = Head(link[c].toServer) /\ link[c].toServer # <<>>
      /\ link'[c].toServer = Tail(link[c].toServer) /\ link'[c].toClient = link[c].toClient
      /\ link'[c].near = link[c].near /\ link'[c].far = link[c].far
      /\ link'[c].aborted = link[c].aborted
      /\ UNCHANGED <<client, served>>
  BY <1>t DEF WorkerReceives, ConnTyped, LinkTyped, ConnType, LinkType
<1>f. /\ link[c].toServer \in Seq(Items) /\ Len(link[c].toServer) \in Nat
      /\ Got(c) \in Nat /\ Taken(c) \in Nat /\ client[c].calls \in Nat
      /\ Taken(c) = client[c].calls - Len(link[c].toServer)
  BY ConnFacts
<1>s. /\ Head(link[c].toServer) = link[c].toServer[1] /\ Len(link[c].toServer) \in Nat \ {0}
      /\ Tail(link[c].toServer) \in Seq(Items)
      /\ Len(Tail(link[c].toServer)) = Len(link[c].toServer) - 1
      /\ \A i \in 1..(Len(link[c].toServer) - 1) :
           Tail(link[c].toServer)[i] = link[c].toServer[i + 1]
      /\ DOMAIN link[c].toServer = 1..Len(link[c].toServer)
      /\ DOMAIN Tail(link[c].toServer) = 1..(Len(link[c].toServer) - 1)
  BY <1>1, <1>f, TailFacts, LenProperties
<1>2. /\ RepliesTo(c)' = RepliesTo(c) /\ Got(c)' = Got(c)
      /\ Taken(c)' = client[c].calls - (Len(link[c].toServer) - 1)
  BY <1>1, <1>s DEF RepliesTo, Got, Taken
<1>3. Taken(c)' = Taken(c) + 1 /\ Len(link[c].toServer) - 1 <= client[c].calls
  BY <1>2, <1>f, <1>s
<1>4. \A i \in DOMAIN link[c].toServer :
        IsFrom(link[c].toServer[i], c) /\ link[c].toServer[i].number = Taken(c) + i
  BY <1>h DEF LinkOK
<1>5. IsFrom(conn'[c].frame, c) /\ conn'[c].frame.number = Taken(c) + 1
  <2>1. 1 \in DOMAIN link[c].toServer
    BY <1>s
  <2> QED BY <1>1, <1>4, <1>s, <2>1
<1>6. ClientOK(c)'
  BY <1>h, <1>1 DEF ClientOK
<1>7. LinkOK(c)'
  <2>1. \A i \in 1..(Len(link[c].toServer) - 1) :
          /\ IsFrom(Tail(link[c].toServer)[i], c)
          /\ Tail(link[c].toServer)[i].number = (Taken(c) + 1) + i
    <3> SUFFICES ASSUME NEW i \in 1..(Len(link[c].toServer) - 1)
                 PROVE  /\ IsFrom(Tail(link[c].toServer)[i], c)
                        /\ Tail(link[c].toServer)[i].number = (Taken(c) + 1) + i
      OBVIOUS
    <3>1. i + 1 \in DOMAIN link[c].toServer /\ Taken(c) + (i + 1) = (Taken(c) + 1) + i
      BY <1>f, <1>s
    <3>2. Tail(link[c].toServer)[i] = link[c].toServer[i + 1]
      BY <1>s
    <3> QED BY <1>4, <3>1, <3>2
  <2>2. link[c].near
    BY <1>h, <1>1 DEF LinkOK, Active
  <2>3. (\A i \in DOMAIN link[c].toServer :
           IsFrom(link[c].toServer[i], c) /\ link[c].toServer[i].number = Taken(c) + i)'
    BY <1>1, <1>3, <1>s, <2>1 DEF IsFrom
  <2>4. Len(link'[c].toServer) <= client'[c].calls
    BY <1>1, <1>3, <1>s
  <2> QED BY <1>1, <2>2, <2>3, <2>4 DEF LinkOK
<1>8. LevelOK(c)'
  <2>1. Owed(c) = 0 /\ Owed(c)' = 1
    BY <1>1 DEF Owed, Owing
  <2>2. /\ Got(c) <= Taken(c)
        /\ link[c].far /\ ~link[c].aborted => Taken(c) = Got(c)
    BY <1>h, <1>1, <1>f, <2>1 DEF LevelOK, Active
  <2> QED BY <1>1, <1>2, <1>3, <1>f, <2>1, <2>2 DEF LevelOK
<1>9. HandOK(c)'
  <2>1. Carried(c) = {} /\ conn[c].reply = NoReply
    BY <1>h, <1>1 DEF HandOK
  <2>2. ASSUME NEW m \in Numbers, <<c, m>> \in served PROVE m < Taken(c) + 1 /\ m <= Taken(c) + 1
    <3>1. m <= Taken(c) /\ m \in Nat
      BY <1>h, <2>2, NumbersArePositive DEF HandOK
    <3> QED BY <1>f, <3>1
  <2>3. Got(c) < Taken(c) + 1
    <3>1. Owed(c) = 0
      BY <1>1 DEF Owed, Owing
    <3>2. Got(c) <= Taken(c)
      BY <1>h, <1>1, <1>f, <3>1 DEF LevelOK, Active
    <3> QED BY <1>f, <3>2
  <2>4. Fresh(c, conn[c].frame.number)'
    BY <1>1, <1>2, <1>3, <1>5, <1>f, <2>2, <2>3 DEF Fresh
  <2>5. (\A m \in Numbers : <<c, m>> \in served => m <= Taken(c))'
    BY <1>1, <1>3, <2>2
  <2> QED BY <1>1, <1>5, <2>1, <2>4, <2>5 DEF HandOK, IsFrom
<1>10. AnswersOK(c)'
  BY <1>h, <1>1, <1>2 DEF AnswersOK
<1> QED BY <1>6, <1>7, <1>8, <1>9, <1>10 DEF ConnOK

\* The worker puts its frame into the queue, or finds no room for it.
LEMMA Pushed ==
  ASSUME Inv, NEW c \in Connections, WorkerPushes(c)
  PROVE  ConnOK(c)'
<1>h. ClientOK(c) /\ LinkOK(c) /\ LevelOK(c) /\ HandOK(c) /\ AnswersOK(c) /\ TypeOK
  BY DEF Inv, ConnOK
<1>t. conn[c] \in ConnType /\ ConnTyped
  BY HeldFacts, TypesInParts DEF Inv
<1>0. conn[c].at = "pushing" /\ UNCHANGED <<link, client, served, reducer>>
  BY DEF WorkerPushes
<1>c. Carried(c) = {} /\ conn[c].reply = NoReply /\ Single(c)
  BY <1>h, <1>0 DEF HandOK
<1>1. CASE HasRoom /\ Push(conn[c].frame)
           /\ conn' = [conn EXCEPT ![c].at = "waiting", ![c].frame = NoItem]
  <2>1. conn'[c].at = "waiting" /\ conn'[c].reply = conn[c].reply
    BY <1>1, <1>t DEF ConnTyped, ConnType
  <2>2. RepliesTo(c)' = RepliesTo(c) /\ Got(c)' = Got(c) /\ Taken(c)' = Taken(c) /\ Owed(c)' = Owed(c)
    BY <1>0, <2>1 DEF RepliesTo, Got, Taken, Owed, Owing
  <2>3. /\ conn[c].frame \in Items
        /\ Fresh(c, conn[c].frame.number)
    BY <1>h, <1>0, HeldFacts DEF HandOK
  <2>4. Carried(c)' \subseteq {conn[c].frame} /\ Single(c)'
    BY <1>h, <1>0, <1>1, <1>c, <2>3, CarriedPush
  <2>5. \A x \in Carried(c)' : Fresh(c, x.number)'
    <3> SUFFICES ASSUME NEW x \in Carried(c)' PROVE Fresh(c, x.number)'
      OBVIOUS
    <3>1. x = conn[c].frame
      BY <2>4
    <3> QED BY <1>0, <2>2, <2>3, <3>1 DEF Fresh
  <2>6. HandOK(c)'
    BY <1>h, <1>0, <1>c, <2>1, <2>2, <2>4, <2>5 DEF HandOK
  <2>7. AnswersOK(c)'
    BY <1>h, <1>0, <2>1, <2>2 DEF AnswersOK
  <2>8. ClientOK(c)' /\ LevelOK(c)'
    BY <1>h, <1>0, <2>1, <2>2 DEF ClientOK, LevelOK, Active
  <2>9. LinkOK(c)'
    BY <1>h, <1>0, <2>1, <2>2 DEF LinkOK, Active, IsFrom
  <2> QED BY <2>6, <2>7, <2>8, <2>9 DEF ConnOK
<1>2. CASE WorkerGoes(c, "refusing") /\ UNCHANGED queue
  <2>1. /\ conn'[c].at = "refusing" /\ conn'[c].reply = conn[c].reply
        /\ conn'[c].frame = conn[c].frame
    BY <1>2, <1>t DEF WorkerGoes, ConnTyped, ConnType
  <2>2. Carried(c)' = Carried(c) /\ Single(c)'
    BY <1>0, <1>2, <1>c DEF Carried, Single, IsFrom
  <2>3. /\ conn[c].at \notin {"absent", "joined"} /\ conn'[c].at \notin {"absent", "backlog"}
        /\ conn'[c].at \in Active => /\ conn[c].at \in Active
                                     /\ conn'[c].at \in Owing <=> conn[c].at \in Owing
        /\ conn'[c].at \in {"pushing", "refusing"} => conn[c].at \in {"pushing", "refusing"}
        /\ conn'[c].at \in Empty => conn[c].at \in Empty
        /\ conn'[c].at # "sending"
    BY <1>0, <2>1 DEF Active, Owing, Empty
  <2> QED BY <1>0, <2>1, <2>2, <2>3, Placed
<1> QED BY <1>1, <1>2 DEF WorkerPushes

\* The worker sends a reply, or fails to.
LEMMA Replied ==
  ASSUME Inv, NEW c \in Connections, NEW x \in Replies,
         conn[c].at \in {"refusing", "sending"}, conn'[c].at \in {"checking", "finished"},
         Sends(c, x) \/ SendFails(c),
         conn'[c].reply = NoReply,
         UNCHANGED <<client, served>>,
         x.number \in Nat, Got(c) < x.number, x.number <= Taken(c),
         x.kind = "done" <=> <<c, x.number>> \in served,
         Carried(c) = {}, Carried(c)' \subseteq Carried(c), Single(c)'
  PROVE  ConnOK(c)'
<1>h. ClientOK(c) /\ LinkOK(c) /\ LevelOK(c) /\ HandOK(c) /\ AnswersOK(c)
  BY DEF Inv, ConnOK
<1>t. link[c] \in LinkType /\ LinkTyped
  BY HeldFacts, TypesInParts DEF Inv
<1>1. /\ link'[c].toServer = link[c].toServer /\ link'[c].near = link[c].near
      /\ link'[c].far = link[c].far /\ link'[c].aborted = link[c].aborted
      /\ \/ link[c].far /\ ~link[c].aborted /\ link'[c].toClient = Append(link[c].toClient, x)
         \/ (~link[c].far \/ link[c].aborted) /\ link'[c].toClient = link[c].toClient
  <2>1. CASE Sends(c, x)
    BY <1>t, <2>1 DEF Sends, LinkTyped, LinkType
  <2>2. CASE SendFails(c)
    BY <1>t, <2>2 DEF SendFails, LinkType
  <2> QED BY <2>1, <2>2
<1>f. /\ client[c].read \in Readings /\ link[c].toClient \in Seq(Replies)
      /\ RepliesTo(c) = Joint(client[c].read, link[c].toClient)
      /\ Got(c) \in Nat /\ DOMAIN RepliesTo(c) = 1..Got(c) /\ Taken(c) \in Nat
      /\ RepliesTo(c) \in Seq(Replies)
  BY ConnFacts
<1>2. Taken(c)' = Taken(c)
  BY <1>1 DEF Taken
<1>3. Owed(c) = 1 /\ Owed(c)' = 0
  BY DEF Owed, Owing
<1>4. /\ Got(c) + 1 <= Taken(c)
      /\ link[c].far /\ ~link[c].aborted => Taken(c) = Got(c) + 1
  BY <1>h, <1>3 DEF LevelOK, Active
<1>5. ClientOK(c)'
  BY <1>h DEF ClientOK
<1>6. LinkOK(c)'
  <2>1. link[c].near
    BY <1>h DEF LinkOK, Active
  <2> QED BY <1>h, <1>1, <1>2, <2>1 DEF LinkOK, IsFrom
<1>7. HandOK(c)'
  <2>1. \A m \in Numbers : <<c, m>> \in served => m <= Taken(c)
    BY <1>h DEF HandOK
  <2> QED BY <1>2, <2>1 DEF HandOK
<1>8. \A i \in 1..Got(c) : /\ RepliesTo(c)[i].number = i
                           /\ RepliesTo(c)[i].kind = "done" <=> <<c, RepliesTo(c)[i].number>> \in served
  <2>1. conn[c].at # "joined"
    OBVIOUS
  <2> QED BY <1>h, <1>f, <2>1, Zenon DEF AnswersOK
<1>9. CASE link'[c].toClient = link[c].toClient /\ (~link[c].far \/ link[c].aborted)
  <2>1. RepliesTo(c)' = RepliesTo(c) /\ Got(c)' = Got(c)
    BY <1>9 DEF RepliesTo, Got
  <2>2. AnswersOK(c)'
    BY <1>8, <1>f, <2>1, Zenon DEF AnswersOK
  <2>3. LevelOK(c)'
    <3>1. Got(c)' + Owed(c)' <= Taken(c)'
      BY <1>2, <1>3, <1>4, <1>f, <2>1
    <3> QED BY <1>1, <1>9, <3>1 DEF LevelOK
  <2> QED BY <1>5, <1>6, <1>7, <2>2, <2>3 DEF ConnOK
<1>10. CASE link[c].far /\ ~link[c].aborted /\ link'[c].toClient = Append(link[c].toClient, x)
  <2>1. x.number = Got(c) + 1
    BY <1>4, <1>10, <1>f
  <2>2. RepliesTo(c)' = Joint(client[c].read, Append(link[c].toClient, x))
    BY <1>10 DEF RepliesTo, Joint
  <2>3. /\ Got(c)' = Got(c) + 1
        /\ \A i \in 1..Got(c) : RepliesTo(c)'[i] = RepliesTo(c)[i]
        /\ RepliesTo(c)'[Got(c) + 1] = x
    <3>1. /\ Len(Joint(client[c].read, Append(link[c].toClient, x)))
                = Len(Joint(client[c].read, link[c].toClient)) + 1
          /\ \A i \in 1..Len(Joint(client[c].read, link[c].toClient)) :
               Joint(client[c].read, Append(link[c].toClient, x))[i]
                 = Joint(client[c].read, link[c].toClient)[i]
          /\ Joint(client[c].read, Append(link[c].toClient, x))
                [Len(Joint(client[c].read, link[c].toClient)) + 1] = x
      BY <1>f, ReplySent
    <3>2. Got(c) = Len(Joint(client[c].read, link[c].toClient))
      BY <1>f DEF Got
    <3>3. Got(c)' = Len(RepliesTo(c)')
      BY DEF Got
    <3> QED BY <1>f, <2>2, <3>1, <3>2, <3>3
  <2>4. DOMAIN RepliesTo(c)' = 1..(Got(c) + 1)
    <3>1. Append(link[c].toClient, x) \in Seq(Replies)
      BY <1>f, AppendFacts
    <3>2. /\ DOMAIN Joint(client[c].read, Append(link[c].toClient, x))
                = 1..Len(Joint(client[c].read, Append(link[c].toClient, x)))
      BY <1>f, <3>1, JointFacts
    <3>3. Got(c)' = Len(RepliesTo(c)')
      BY DEF Got
    <3> QED BY <2>2, <2>3, <3>2, <3>3
  <2>5. \A i \in 1..(Got(c) + 1) : i \in 1..Got(c) \/ i = Got(c) + 1
    BY <1>f
  <2>6. \A i \in DOMAIN RepliesTo(c)' :
          /\ RepliesTo(c)'[i].number = i
          /\ RepliesTo(c)'[i].kind = "done" <=> <<c, RepliesTo(c)'[i].number>> \in served'
    <3> SUFFICES ASSUME NEW i \in 1..(Got(c) + 1)
                 PROVE  /\ RepliesTo(c)'[i].number = i
                        /\ RepliesTo(c)'[i].kind = "done" <=> <<c, RepliesTo(c)'[i].number>> \in served
      BY <2>4
    <3>1. CASE i = Got(c) + 1
      BY <2>1, <2>3, <3>1
    <3>2. CASE i \in 1..Got(c)
      BY <1>8, <2>3, <3>2
    <3> QED BY <2>5, <3>1, <3>2
  <2>7. AnswersOK(c)'
    BY <2>6, Zenon DEF AnswersOK
  <2>8. LevelOK(c)'
    <3>1. Got(c)' + Owed(c)' = Taken(c)' /\ Got(c)' + Owed(c)' <= Taken(c)'
      BY <1>2, <1>3, <1>4, <1>10, <1>f, <2>3
    <3>2. conn'[c].at # "backlog"
      OBVIOUS
    <3> QED BY <3>1, <3>2 DEF LevelOK
  <2> QED BY <1>5, <1>6, <1>7, <2>7, <2>8 DEF ConnOK
<1> QED BY <1>1, <1>9, <1>10

\* The worker tells the peer that the queue was full, or passes on the answer.
LEMMA Told ==
  ASSUME Inv, NEW c \in Connections, WorkerRefuses(c) \/ WorkerSends(c),
         Carried(c)' \subseteq Carried(c), Single(c)'
  PROVE  ConnOK(c)'
<1>h. HandOK(c)
  BY DEF Inv, ConnOK
<1>t. conn[c] \in ConnType /\ ConnTyped
  BY HeldFacts, TypesInParts DEF Inv
<1>n. /\ conn[c].frame.number \in Nat /\ conn[c].reply.number \in Nat
      /\ conn[c].frame.number \in {0} \cup Numbers
      /\ conn[c].at = "sending" => conn[c].reply \in Replies
      /\ Got(c) \in Nat
  BY CarriedFacts, HeldFacts, ConnFacts
<1>1. CASE WorkerRefuses(c)
  <2> DEFINE n == conn[c].frame.number
  <2>1. /\ conn[c].at = "refusing" /\ conn'[c].at = "checking" /\ conn'[c].reply = conn[c].reply
        /\ Sends(c, Busy(n)) \/ SendFails(c)
        /\ UNCHANGED <<client, served>>
    BY <1>1, <1>t DEF WorkerRefuses, ConnTyped, ConnType
  <2>2. Fresh(c, n) /\ Carried(c) = {} /\ conn[c].reply = NoReply
    BY <1>h, <2>1 DEF HandOK
  <2>3. Busy(n) \in Replies /\ Busy(n).kind = "busy" /\ Busy(n).number = n
    BY <1>n, ReplyFacts
  <2>4. n \in Nat /\ Got(c) < n /\ n <= Taken(c)
    BY <1>n, <2>2 DEF Fresh
  <2>5. <<c, n>> \notin served
    <3>1. n \in Numbers
      BY <1>n, <2>4
    <3> QED BY <2>2, <2>4, <3>1 DEF Fresh
  <2> HIDE DEF n
  <2>6. conn[c].at \in {"refusing", "sending"} /\ conn'[c].at \in {"checking", "finished"}
        /\ conn'[c].reply = NoReply
        /\ (Busy(n).kind = "done" <=> <<c, Busy(n).number>> \in served)
    BY <2>1, <2>2, <2>3, <2>5
  <2> QED BY <2>1, <2>2, <2>3, <2>4, <2>6, Replied
<1>2. CASE WorkerSends(c)
  <2> DEFINE x == conn[c].reply
  <2>1. /\ conn[c].at = "sending" /\ conn'[c].at \in {"checking", "finished"}
        /\ conn'[c].reply = NoReply
        /\ Sends(c, x) \/ SendFails(c)
        /\ UNCHANGED <<client, served>>
    BY <1>2, <1>t DEF WorkerSends, ConnTyped, ConnType
  <2>2. /\ x # NoReply /\ Carried(c) = {} /\ x.kind = "done"
        /\ Got(c) < x.number /\ x.number <= Taken(c) /\ <<c, x.number>> \in served
    BY <1>h, <2>1 DEF HandOK
  <2>3. x \in Replies /\ x.number \in Nat
    BY <1>n, <2>1
  <2> HIDE DEF x
  <2> QED BY <2>1, <2>2, <2>3, Replied
<1> QED BY <1>1, <1>2

\* The engine answers a frame, and the answer is put into the mailbox.
LEMMA Answered ==
  ASSUME Inv, NEW c \in Connections, ReducerServes, reducer.item.from = c
  PROVE  ConnOK(c)'
<1>h. ClientOK(c) /\ LinkOK(c) /\ LevelOK(c) /\ HandOK(c) /\ AnswersOK(c) /\ Single(c) /\ TypeOK
  BY DEF Inv, ConnOK, HandOK
<1>t. ConnTyped /\ conn[c] \in ConnType
  BY HeldFacts, TypesInParts DEF Inv
<1> DEFINE n == reducer.item.number
<1>1. /\ reducer.item.kind = "Frame" /\ IsFrom(reducer.item, c)
      /\ conn'[c].at = conn[c].at /\ conn'[c].reply = Done(reducer.item)
      /\ served' = served \cup {<<c, n>>}
      /\ reducer'.item = NoItem /\ UNCHANGED <<queue, link, client>>
  BY <1>t DEF ReducerServes, IsFrom, ConnTyped, ConnType
<1>2. reducer.item \in Carried(c)
  BY <1>1 DEF Carried
<1>3. Fresh(c, n) /\ n \in Numbers /\ n \in Nat \ {0} /\ reducer.item \in Items
  BY <1>h, <1>2, CarriedFacts, NumbersArePositive DEF HandOK
<1>4. conn[c].at \notin Empty /\ conn[c].reply = NoReply /\ conn[c].at # "sending"
  BY <1>h, <1>2 DEF HandOK, Empty
<1>5. Carried(c)' = {} /\ Single(c)'
  BY <1>h, <1>1, CarriedDone
<1>6. /\ Done(reducer.item) # NoReply /\ Done(reducer.item).kind = "done"
      /\ Done(reducer.item).number = n
  BY <1>1, <1>3, ReplyFacts
<1>7. /\ RepliesTo(c)' = RepliesTo(c) /\ Got(c)' = Got(c) /\ Taken(c)' = Taken(c)
      /\ Owed(c)' = Owed(c)
  BY <1>1 DEF RepliesTo, Got, Taken, Owed
<1>8. /\ Got(c) \in Nat /\ DOMAIN RepliesTo(c) = 1..Got(c)
  BY ConnFacts
<1> HIDE DEF n
<1>9. Got(c) < n /\ n <= Taken(c) /\ \A m \in Numbers : <<c, m>> \in served => m <= Taken(c)
  BY <1>h, <1>3 DEF Fresh, HandOK
<1>10. HandOK(c)'
  <2>1. (\A m \in Numbers : <<c, m>> \in served => m <= Taken(c))'
    BY <1>1, <1>7, <1>9
  <2>2. conn'[c].at \notin {"pushing", "refusing"} /\ conn'[c].at \notin Empty
    BY <1>1, <1>4 DEF Empty
  <2> QED BY <1>1, <1>5, <1>6, <1>7, <1>9, <2>1, <2>2 DEF HandOK, Empty
<1>11. AnswersOK(c)'
  <2>1. \A i \in 1..Got(c) : RepliesTo(c)[i].number # n
    <3>1. CASE \A i \in DOMAIN RepliesTo(c) : RepliesTo(c)[i].number = i
      <4>1. \A i \in 1..Got(c) : i # n
        BY <1>3, <1>8, <1>9
      <4> QED BY <1>8, <3>1, <4>1
    <3>2. CASE RepliesTo(c) = <<Busy(0)>>
      <4>1. DOMAIN RepliesTo(c) = {1} /\ RepliesTo(c)[1].number = 0
        BY <3>2, ReplyFacts
      <4> QED BY <1>3, <1>8, <4>1
    <3> QED BY <1>h, <3>1, <3>2 DEF AnswersOK
  <2>2. \A i \in 1..Got(c) :
          <<c, RepliesTo(c)[i].number>> \in served' <=> <<c, RepliesTo(c)[i].number>> \in served
    BY <1>1, <2>1
  <2>3. \A i \in DOMAIN RepliesTo(c) :
          RepliesTo(c)[i].kind = "done" <=> <<c, RepliesTo(c)[i].number>> \in served
    BY <1>h DEF AnswersOK
  <2>4. \A i \in DOMAIN RepliesTo(c)' :
          RepliesTo(c)'[i].kind = "done" <=> <<c, RepliesTo(c)'[i].number>> \in served'
    BY <1>7, <1>8, <2>2, <2>3, Zenon
  <2>5. Busy(0)' = Busy(0)
    BY DEF Busy
  <2> QED BY <1>h, <1>1, <1>7, <2>4, <2>5, Zenon DEF AnswersOK
<1>12. ClientOK(c)' /\ LevelOK(c)'
  BY <1>h, <1>1, <1>4, <1>7 DEF ClientOK, LevelOK, Empty
<1>13. LinkOK(c)'
  BY <1>h, <1>1, <1>7 DEF LinkOK, IsFrom
<1> QED BY <1>10, <1>11, <1>12, <1>13 DEF ConnOK

\* A client reads a reply, hangs up, or stops waiting.
LEMMA ClientMoves ==
  ASSUME Inv, NEW c \in Connections,
         client[c].at \in {"idle", "waiting", "leaving"}, client'[c].at \in {"idle", "closed"},
         client'[c].calls = client[c].calls,
         Begins(RepliesTo(c)', RepliesTo(c)),
         link'[c].toServer = link[c].toServer, link'[c].near = link[c].near,
         link'[c].aborted = link[c].aborted,
         link'[c].far => link[c].far /\ Got(c)' = Got(c),
         UNCHANGED <<conn, served>>,
         Carried(c)' \subseteq Carried(c), Single(c)'
  PROVE  ConnOK(c)'
<1>h. ClientOK(c) /\ LinkOK(c) /\ LevelOK(c) /\ HandOK(c)
  BY DEF Inv, ConnOK
<1>f. Taken(c) \in Nat /\ Got(c) \in Nat /\ Owed(c) \in {0, 1} /\ Got(c)' \in Nat /\ Got(c)' <= Got(c)
  BY ConnFacts DEF Begins, Got
<1>1. Taken(c)' = Taken(c) /\ Owed(c)' = Owed(c)
  BY DEF Taken, Owed
<1>2. HandOK(c)' /\ AnswersOK(c)'
  <2>1. Taken(c)' \in Int /\ Taken(c) <= Taken(c)'
    BY <1>1, <1>f
  <2>2. conn[c].at = "sending" => conn[c].reply # NoReply
    BY <1>h DEF HandOK
  <2> HIDE <1>h, <1>f
  <2> QED BY <2>1, <2>2, Calm
<1>3. ClientOK(c)'
  BY DEF ClientOK
<1>4. LinkOK(c)'
  BY <1>h, <1>1 DEF LinkOK, IsFrom
<1>5. LevelOK(c)'
  <2>1. conn[c].at \in Active => Got(c)' + Owed(c)' <= Taken(c)'
    BY <1>h, <1>1, <1>f DEF LevelOK
  <2>2. conn[c].at \in Active /\ link'[c].far /\ ~link[c].aborted => Taken(c)' = Got(c)' + Owed(c)'
    BY <1>h, <1>1, <1>f DEF LevelOK
  <2>3. conn[c].at = "backlog" => Taken(c)' = 0
    BY <1>h, <1>1 DEF LevelOK
  <2> QED BY <2>1, <2>2, <2>3 DEF LevelOK
<1> QED BY <1>2, <1>3, <1>4, <1>5 DEF ConnOK

\* A client connects.
LEMMA Connected ==
  ASSUME Inv, NEW c \in Connections, ClientConnects(c),
         Carried(c)' \subseteq Carried(c), Single(c)'
  PROVE  ConnOK(c)'
<1>h. ClientOK(c) /\ LinkOK(c) /\ ConnTyped /\ LinkTyped /\ ClientTyped
  BY TypesInParts DEF Inv, ConnOK
<1>t. conn[c] \in ConnType /\ link[c] \in LinkType /\ client[c] \in ClientType
  BY HeldFacts
<1>1. /\ client[c].at = "away" /\ client'[c].at = "idle"
      /\ client'[c].calls = client[c].calls /\ client'[c].read = client[c].read
      /\ conn'[c].at = "backlog" /\ conn'[c].frame = conn[c].frame /\ conn'[c].reply = conn[c].reply
      /\ link'[c].near = TRUE /\ link'[c].toServer = link[c].toServer
      /\ link'[c].toClient = link[c].toClient /\ link'[c].aborted = link[c].aborted
      /\ UNCHANGED served
  <2>1. client'[c] = [client[c] EXCEPT !.at = "idle"] /\ client[c].at = "away"
    BY <1>h DEF ClientConnects, ClientTyped
  <2>2. conn'[c] = [conn[c] EXCEPT !.at = "backlog"] /\ UNCHANGED served
    BY <1>h DEF ClientConnects, ConnTyped
  <2>3. link'[c] = [link[c] EXCEPT !.near = TRUE, !.far = TRUE]
    BY <1>h DEF ClientConnects, LinkTyped
  <2>4. client'[c].at = "idle" /\ client'[c].calls = client[c].calls /\ client'[c].read = client[c].read
    BY <1>t, <2>1 DEF ClientType
  <2>5. conn'[c].at = "backlog" /\ conn'[c].frame = conn[c].frame /\ conn'[c].reply = conn[c].reply
    BY <1>t, <2>2 DEF ConnType
  <2>6. /\ link'[c].near = TRUE /\ link'[c].toServer = link[c].toServer
        /\ link'[c].toClient = link[c].toClient /\ link'[c].aborted = link[c].aborted
    BY <1>t, <2>3 DEF LinkType
  <2> QED BY <2>1, <2>2, <2>4, <2>5, <2>6
<1>2. /\ conn[c].at = "absent" /\ client[c].calls = 0 /\ RepliesTo(c) = <<>> /\ ~link[c].near
      /\ link[c].toServer = <<>>
  BY <1>h, <1>1 DEF ClientOK, LinkOK
<1>3. RepliesTo(c)' = RepliesTo(c) /\ Taken(c)' = Taken(c)
  BY <1>1 DEF RepliesTo, Taken
<1>4. Taken(c) = 0 /\ Got(c)' = 0 /\ Owed(c)' = 0
  <2>1. Len(<<>>) = 0
    BY EmptySeq
  <2>2. Taken(c) = 0
    <3>1. client[c].calls = 0 /\ Len(link[c].toServer) = 0
      BY <1>2, <2>1
    <3> QED BY <3>1 DEF Taken
  <2>3. Got(c)' = 0
    BY <1>2, <1>3, <2>1 DEF Got
  <2>4. Owed(c)' = 0
    BY <1>1 DEF Owed, Owing
  <2> QED BY <2>2, <2>3, <2>4
<1>5. HandOK(c)' /\ AnswersOK(c)'
  <2>1. RepliesTo(c) \in Seq(Replies)
    BY ConnFacts
  <2>2. Begins(RepliesTo(c)', RepliesTo(c)) /\ Taken(c)' \in Int /\ Taken(c) <= Taken(c)'
    BY <1>3, <1>4, <2>1, BeginsItself
  <2>3. /\ conn'[c].at \notin {"pushing", "refusing"} /\ conn[c].at \in Empty
        /\ conn'[c].at # "sending" /\ conn[c].at # "joined"
    BY <1>1, <1>2 DEF Empty
  <2>4. \A m : <<c, m>> \in served' <=> <<c, m>> \in served
    BY <1>1
  <2>5. conn'[c].frame = conn[c].frame /\ conn'[c].reply = conn[c].reply
    BY <1>1
  <2> HIDE <1>h, <1>t, <1>1, <1>2
  <2> QED BY <2>2, <2>3, <2>4, <2>5, Calm
<1>6. ClientOK(c)'
  BY <1>1 DEF ClientOK
<1>7. LinkOK(c)'
  <2>1. DOMAIN link'[c].toServer = {} /\ Len(link'[c].toServer) = 0
    BY <1>1, <1>2
  <2> QED BY <1>1, <1>2, <2>1 DEF LinkOK
<1>8. LevelOK(c)'
  BY <1>3, <1>4 DEF LevelOK
<1> QED BY <1>5, <1>6, <1>7, <1>8 DEF ConnOK

\* A client sends the frame of its next call.
LEMMA Called ==
  ASSUME Inv, NEW c \in Connections, NEW bye \in BOOLEAN, ClientCalls(c, bye),
         Carried(c)' \subseteq Carried(c), Single(c)'
  PROVE  ConnOK(c)'
<1>h. ClientOK(c) /\ LinkOK(c) /\ LevelOK(c) /\ HandOK(c) /\ ConnTyped /\ LinkTyped /\ ClientTyped
  BY TypesInParts DEF Inv, ConnOK
<1>t. conn[c] \in ConnType /\ link[c] \in LinkType /\ client[c] \in ClientType
  BY HeldFacts
<1> DEFINE n == client[c].calls + 1
           line == link[c].toServer
           f == Frame(c, n, bye)
<1>1. /\ client[c].at = "idle" /\ client'[c].at \in {"leaving", "waiting"}
      /\ client'[c].calls = n /\ client'[c].read = client[c].read
      /\ link'[c].near = link[c].near /\ link'[c].far = link[c].far
      /\ link'[c].toClient = link[c].toClient /\ link'[c].aborted = link[c].aborted
      /\ link'[c].toServer = IF link[c].near THEN Append(line, f) ELSE line
      /\ UNCHANGED <<conn, served>>
  <2>1. /\ client[c].at = "idle" /\ UNCHANGED <<conn, served>>
        /\ client'[c] = [client[c] EXCEPT !.calls = n, !.at = IF bye THEN "leaving" ELSE "waiting"]
    BY <1>h DEF ClientCalls, ClientTyped
  <2>2. link'[c] = [link[c] EXCEPT !.toServer = IF link[c].near THEN Append(@, f) ELSE @]
    BY <1>h DEF ClientCalls, LinkTyped
  <2>3. /\ client'[c].at \in {"leaving", "waiting"}
        /\ client'[c].calls = n /\ client'[c].read = client[c].read
    BY <1>t, <2>1 DEF ClientType
  <2>4. /\ link'[c].near = link[c].near /\ link'[c].far = link[c].far
        /\ link'[c].toClient = link[c].toClient /\ link'[c].aborted = link[c].aborted
        /\ link'[c].toServer = IF link[c].near THEN Append(line, f) ELSE line
    <3> HIDE DEF f
    <3> QED BY <1>t, <2>2 DEF LinkType
  <2> QED BY <2>1, <2>3, <2>4
<1>f. /\ line \in Seq(Items) /\ Len(line) \in Nat /\ client[c].calls \in Nat /\ n \in Nat
      /\ Taken(c) \in Nat /\ Taken(c) = client[c].calls - Len(line) /\ Got(c) \in Nat
      /\ RepliesTo(c) \in Seq(Replies) /\ Owed(c) \in {0, 1}
  BY ConnFacts
<1>n. n \in Numbers
  <2>1. client[c].calls < MaxCalls[c] /\ MaxCalls[c] \in Nat
    BY ThreadsAssumption DEF ClientCalls
  <2>2. n \in 1..MaxCalls[c]
    BY <1>f, <2>1
  <2> QED BY <2>2 DEF Numbers
<1>g. f \in Items /\ IsFrom(f, c) /\ f.number = n
  BY <1>n, FrameFacts DEF IsFrom
<1>a. /\ Append(line, f) \in Seq(Items) /\ Len(Append(line, f)) = Len(line) + 1
      /\ \A i \in 1..Len(line) : Append(line, f)[i] = line[i]
      /\ Append(line, f)[Len(line) + 1] = f
  <2> HIDE DEF n, line, f
  <2> QED BY <1>f, <1>g, AppendFacts
<1>d. /\ DOMAIN Append(line, f) = 1..(Len(line) + 1) /\ DOMAIN line = 1..Len(line)
  <2> HIDE DEF n, line, f
  <2> QED BY <1>f, <1>a, LenProperties
<1> HIDE DEF n, line, f
<1>c. n = client[c].calls + 1 /\ line = link[c].toServer
  BY DEF n, line
<1>2. /\ link[c].near => Taken(c)' = Taken(c)
      /\ ~link[c].near => Taken(c)' = Taken(c) + 1
  <2>1. Taken(c)' = n - Len(link'[c].toServer)
    BY <1>1 DEF Taken
  <2>2. CASE link[c].near
    <3>1. Len(link'[c].toServer) = Len(line) + 1
      BY <1>1, <1>a, <2>2
    <3>2. Taken(c)' = (client[c].calls + 1) - (Len(line) + 1) /\ Taken(c) = client[c].calls - Len(line)
      BY <1>c, <1>f, <2>1, <3>1
    <3>3. \A a, b \in Nat : (a + 1) - (b + 1) = a - b
      OBVIOUS
    <3> QED BY <1>f, <2>2, <3>2, <3>3
  <2>3. CASE ~link[c].near
    <3>1. Len(link'[c].toServer) = Len(line)
      BY <1>1, <2>3
    <3>2. Taken(c)' = (client[c].calls + 1) - Len(line) /\ Taken(c) = client[c].calls - Len(line)
      BY <1>c, <1>f, <2>1, <3>1
    <3>3. \A a, b \in Nat : (a + 1) - b = (a - b) + 1
      OBVIOUS
    <3> QED BY <1>f, <2>3, <3>2, <3>3
  <2> QED BY <2>2, <2>3
<1>3. RepliesTo(c)' = RepliesTo(c) /\ Got(c)' = Got(c) /\ Owed(c)' = Owed(c)
  BY <1>1 DEF RepliesTo, Got, Owed
<1>4. HandOK(c)' /\ AnswersOK(c)'
  <2>1. Begins(RepliesTo(c)', RepliesTo(c)) /\ Taken(c)' \in Int /\ Taken(c) <= Taken(c)'
    BY <1>2, <1>3, <1>f, BeginsItself, SMTT(20)
  <2>2. conn[c].at = "sending" => conn[c].reply # NoReply
    BY <1>h DEF HandOK
  <2>3. conn' = conn /\ \A m : <<c, m>> \in served' <=> <<c, m>> \in served
    BY <1>1
  <2> HIDE <1>h, <1>t, <1>1, <1>2, <1>f
  <2> QED BY <2>1, <2>2, <2>3, Calm
<1>5. ClientOK(c)'
  BY <1>1, <1>c, <1>f DEF ClientOK
<1>6. LinkOK(c)'
  <2>1. conn'[c].at \in Active => link'[c].near
    BY <1>h, <1>1 DEF LinkOK
  <2>2. CASE link[c].near
    <3>1. \A i \in 1..(Len(line) + 1) :
            IsFrom(Append(line, f)[i], c) /\ Append(line, f)[i].number = Taken(c) + i
      <4> SUFFICES ASSUME NEW i \in 1..(Len(line) + 1)
                   PROVE  IsFrom(Append(line, f)[i], c) /\ Append(line, f)[i].number = Taken(c) + i
        OBVIOUS
      <4>1. CASE i = Len(line) + 1
        <5>1. n = client[c].calls + 1 /\ client[c].calls \in Nat /\ Len(line) \in Nat
              /\ Taken(c) = client[c].calls - Len(line)
          BY <1>c, <1>f
        <5>2. \A a, b \in Nat : a + 1 = (a - b) + (b + 1)
          OBVIOUS
        <5>3. n = Taken(c) + (Len(line) + 1)
          BY <5>1, <5>2
        <5> QED BY <1>a, <1>g, <4>1, <5>3
      <4>2. CASE i \in 1..Len(line)
        BY <1>h, <1>a, <1>c, <1>d, <4>2 DEF LinkOK
      <4> QED BY <1>f, <4>1, <4>2
    <3>2. (\A i \in DOMAIN link[c].toServer :
             IsFrom(link[c].toServer[i], c) /\ link[c].toServer[i].number = Taken(c) + i)'
      BY <1>1, <1>2, <1>d, <2>2, <3>1 DEF IsFrom
    <3>3. Len(link'[c].toServer) <= client'[c].calls
      BY <1>1, <1>a, <1>c, <1>f, <2>2, SMTT(20)
    <3> QED BY <1>1, <2>1, <2>2, <3>2, <3>3 DEF LinkOK
  <2>3. CASE ~link[c].near
    <3>1. link'[c].toServer = <<>>
      BY <1>h, <1>1, <1>c, <2>3 DEF LinkOK
    <3>2. DOMAIN link'[c].toServer = {} /\ Len(link'[c].toServer) = 0 /\ client'[c].calls \in Nat
      <4>1. client'[c].calls \in Nat
        BY <1>1, <1>f
      <4>2. DOMAIN link'[c].toServer = {} /\ Len(link'[c].toServer) = 0
        BY <3>1
      <4> QED BY <4>1, <4>2
    <3> QED BY <2>1, <3>1, <3>2 DEF LinkOK
  <2> QED BY <2>2, <2>3
<1>7. LevelOK(c)'
  <2>1. conn[c].at \in Active => Taken(c)' = Taken(c)
    BY <1>h, <1>2 DEF LinkOK
  <2>2. conn[c].at = "backlog" => conn[c].at \in Active
    BY DEF Active
  <2> QED BY <1>h, <1>1, <1>3, <2>1, <2>2 DEF LevelOK
<1> QED BY <1>4, <1>5, <1>6, <1>7 DEF ConnOK

\* A client's step keeps its connection in order.
LEMMA ClientKeeps ==
  ASSUME Inv, NEW c \in Connections, ClientStep(c), Carried(c)' \subseteq Carried(c), Single(c)'
  PROVE  ConnOK(c)'
<1>t. /\ client[c] \in ClientType /\ link[c] \in LinkType /\ ClientTyped /\ LinkTyped
  BY HeldFacts, TypesInParts DEF Inv
<1>f. /\ client[c].read \in Readings /\ link[c].toClient \in Seq(Replies)
      /\ RepliesTo(c) = Joint(client[c].read, link[c].toClient)
      /\ RepliesTo(c) \in Seq(Replies)
  BY ConnFacts
<1>1. CASE ClientConnects(c)
  BY <1>1, Connected
<1>2. ASSUME NEW bye \in BOOLEAN, ClientCalls(c, bye) PROVE ConnOK(c)'
  BY <1>2, Called
<1>3. CASE ClientReads(c)
  <2> DEFINE e == [call |-> client[c].calls, reply |-> Head(link[c].toClient)]
             read == Append(client[c].read, e)
             back == Tail(link[c].toClient)
  <2>1. /\ client[c].at \in {"waiting", "leaving"} /\ link[c].toClient # <<>>
        /\ UNCHANGED <<conn, served>>
    BY <1>3 DEF ClientReads
  <2>2. e \in [call : Numbers, reply : Replies] /\ e.reply = Head(link[c].toClient)
        /\ back \in Seq(Replies)
    <3>1. Head(link[c].toClient) \in Replies /\ back \in Seq(Replies)
      BY <1>f, <2>1, TailFacts
    <3>2. client[c].calls \in Numbers
      BY <1>t, <2>1 DEF Inv, ConnOK, ClientOK, ClientType
    <3> QED BY <3>1, <3>2
  <2>3. read \in Readings
    BY <1>f, <2>2, AppendFacts DEF Readings
  <2> HIDE DEF e
  <2>4. Joint(read, back) = RepliesTo(c)
    BY <1>f, <2>1, <2>2, ReplyRead
  <2>5. CASE client[c].at = "waiting"
    <3>1. client'[c] = [client[c] EXCEPT !.read = read, !.at = "idle"]
          /\ link'[c] = [link[c] EXCEPT !.toClient = back]
      BY <1>3, <1>t, <2>5 DEF ClientReads, ClientTyped, LinkTyped, e
    <3> HIDE DEF read, back
    <3>2. /\ client'[c].at = "idle" /\ client'[c].calls = client[c].calls /\ client'[c].read = read
          /\ link'[c].toClient = back /\ link'[c].toServer = link[c].toServer
          /\ link'[c].near = link[c].near /\ link'[c].far = link[c].far
          /\ link'[c].aborted = link[c].aborted
      BY <1>t, <3>1 DEF ClientType, LinkType
    <3>3. RepliesTo(c)' = RepliesTo(c)
      BY <2>4, <3>2 DEF RepliesTo, Joint
    <3>4. Begins(RepliesTo(c)', RepliesTo(c)) /\ Got(c)' = Got(c)
      BY <1>f, <3>3, BeginsItself DEF Got
    <3>5. client[c].at \in {"idle", "waiting", "leaving"} /\ client'[c].at \in {"idle", "closed"}
      BY <2>5, <3>2
    <3> QED BY <2>1, <3>2, <3>4, <3>5, ClientMoves
  <2>6. CASE client[c].at = "leaving"
    <3>1. client'[c] = [client[c] EXCEPT !.read = read, !.at = "closed"]
          /\ link'[c] = [link[c] EXCEPT !.far = FALSE, !.toClient = <<>>]
      BY <1>3, <1>t, <2>6 DEF ClientReads, HangsUp, ClientTyped, LinkTyped, e
    <3>2. Begins(Joint(read, <<>>), Joint(read, back))
      BY <2>2, <2>3, ReplyLost
    <3> HIDE DEF read, back
    <3>3. /\ client'[c].at = "closed" /\ client'[c].calls = client[c].calls /\ client'[c].read = read
          /\ link'[c].toClient = <<>> /\ link'[c].toServer = link[c].toServer
          /\ link'[c].near = link[c].near /\ ~link'[c].far
          /\ link'[c].aborted = link[c].aborted
      BY <1>t, <3>1 DEF ClientType, LinkType
    <3>4. RepliesTo(c)' = Joint(read, <<>>)
      BY <3>3 DEF RepliesTo, Joint
    <3>5. client[c].at \in {"idle", "waiting", "leaving"} /\ client'[c].at \in {"idle", "closed"}
      BY <2>6, <3>3
    <3>6. Begins(RepliesTo(c)', RepliesTo(c))
      BY <2>4, <3>2, <3>4
    <3> QED BY <2>1, <3>3, <3>5, <3>6, ClientMoves
  <2> QED BY <2>1, <2>5, <2>6
<1>4. CASE ClientTimesOut(c)
  <2>1. /\ client[c].at = "waiting" /\ client'[c] = [client[c] EXCEPT !.at = "idle"]
        /\ UNCHANGED <<link, conn, served>>
    BY <1>4, <1>t DEF ClientTimesOut, ClientTyped
  <2>2. /\ client'[c].at = "idle" /\ client'[c].calls = client[c].calls
        /\ client'[c].read = client[c].read
    BY <1>t, <2>1 DEF ClientType
  <2>3. RepliesTo(c)' = RepliesTo(c)
    BY <2>1, <2>2 DEF RepliesTo
  <2>4. Begins(RepliesTo(c)', RepliesTo(c)) /\ Got(c)' = Got(c)
    BY <1>f, <2>3, BeginsItself DEF Got
  <2>5. client[c].at \in {"idle", "waiting", "leaving"} /\ client'[c].at \in {"idle", "closed"}
    BY <2>1, <2>2
  <2> QED BY <2>1, <2>2, <2>4, <2>5, ClientMoves
<1>5. CASE ClientCloses(c)
  <2>1. /\ client[c].at \in {"idle", "waiting", "leaving"}
        /\ client'[c] = [client[c] EXCEPT !.at = "closed"]
        /\ link'[c] = [link[c] EXCEPT !.far = FALSE, !.toClient = <<>>]
        /\ UNCHANGED <<conn, served>>
    BY <1>5, <1>t DEF ClientCloses, HangsUp, ClientTyped, LinkTyped
  <2>2. /\ client'[c].at = "closed" /\ client'[c].calls = client[c].calls
        /\ client'[c].read = client[c].read
        /\ link'[c].toClient = <<>> /\ link'[c].toServer = link[c].toServer
        /\ link'[c].near = link[c].near /\ ~link'[c].far
        /\ link'[c].aborted = link[c].aborted
    BY <1>t, <2>1 DEF ClientType, LinkType
  <2>3. RepliesTo(c)' = Joint(client[c].read, <<>>)
    BY <2>2 DEF RepliesTo, Joint
  <2>4. Begins(RepliesTo(c)', RepliesTo(c))
    BY <1>f, <2>3, ReplyLost
  <2>5. client'[c].at \in {"idle", "closed"}
    BY <2>2
  <2> QED BY <2>1, <2>2, <2>4, <2>5, ClientMoves
<1> QED BY <1>1, <1>2, <1>3, <1>4, <1>5 DEF ClientStep

\* A step of its worker keeps a connection in order.
LEMMA WorkerKeeps ==
  ASSUME Inv, [Next]_vars, NEW c \in Connections, WorkerStep(c) \/ WorkerTimesOut(c)
  PROVE  ConnOK(c)'
<1>1. CASE WorkerPushes(c)
  BY <1>1, Pushed
<1>2. CASE ~WorkerPushes(c)
  <2>k. Carried(c)' \subseteq Carried(c) /\ Single(c)'
    BY <1>2, CarriedKept
  <2>1. CASE WorkerReceives(c)
    BY <2>1, <2>k, Received
  <2>2. CASE WorkerRefuses(c) \/ WorkerSends(c)
    BY <2>2, <2>k, Told
  <2>3. CASE WorkerChecks(c) \/ WorkerTimesOut(c) \/ WorkerSeesEnd(c) \/ WorkerWaits(c)
    <3>t. conn[c] \in ConnType /\ ConnTyped
      BY HeldFacts, TypesInParts DEF Inv
    <3>g. ASSUME NEW p, WorkerGoes(c, p)
          PROVE  /\ conn'[c].at = p /\ conn'[c].frame = conn[c].frame
                 /\ conn'[c].reply = conn[c].reply
      BY <3>t, <3>g DEF WorkerGoes, ConnTyped, ConnType
    <3>1. /\ conn'[c].frame = conn[c].frame /\ conn'[c].reply = conn[c].reply
          /\ UNCHANGED <<link, client, served>>
      BY <2>3, <3>g DEF WorkerChecks, WorkerTimesOut, WorkerSeesEnd, WorkerWaits, WorkerOnly
    <3>2. \/ conn[c].at \in {"checking", "receiving"}
             /\ conn'[c].at \in {"checking", "receiving", "finished"}
          \/ /\ conn[c].at = "waiting"
             /\ \/ conn'[c].at = "finished"
                \/ conn'[c].at = "sending" /\ conn[c].reply # NoReply
      BY <2>3, <3>g DEF WorkerChecks, WorkerTimesOut, WorkerSeesEnd, WorkerWaits
    <3>3. /\ conn[c].at \notin {"absent", "joined"} /\ conn'[c].at \notin {"absent", "backlog"}
          /\ conn'[c].at \in Active => /\ conn[c].at \in Active
                                       /\ conn'[c].at \in Owing <=> conn[c].at \in Owing
          /\ conn'[c].at \notin {"pushing", "refusing"}
          /\ conn'[c].at \in Empty => conn[c].at \in Empty
          /\ conn'[c].at = "sending" => conn[c].reply # NoReply
      BY <3>2 DEF Active, Owing, Empty
    <3> QED BY <2>k, <3>1, <3>3, Placed
  <2> QED BY <1>2, <2>1, <2>2, <2>3 DEF WorkerStep
<1> QED BY <1>1, <1>2

\* The server lets go of some connections, and the others stay as they are.
LEMMA JoinedKeeps ==
  ASSUME Inv, NEW c \in Connections, NEW gone, Joined(gone),
         c \in gone => conn[c].at \in {"backlog", "finished"},
         UNCHANGED <<client, served>>,
         Carried(c)' \subseteq Carried(c), Single(c)'
  PROVE  ConnOK(c)'
<1>t. conn[c] \in ConnType /\ link[c] \in LinkType
  BY HeldFacts
<1>1. /\ conn'[c] = [conn[c] EXCEPT !.at = IF c \in gone THEN "joined" ELSE @]
      /\ link'[c] = IF c \in gone THEN [link[c] EXCEPT !.near = FALSE, !.toServer = <<>>] ELSE link[c]
  BY DEF Joined
<1>2. /\ conn'[c].at = IF c \in gone THEN "joined" ELSE conn[c].at
      /\ conn'[c].frame = conn[c].frame /\ conn'[c].reply = conn[c].reply
  BY <1>t, <1>1 DEF ConnType
<1>3. CASE c \in gone
  <2>1. link'[c].toServer = <<>> /\ link'[c].toClient = link[c].toClient /\ ~link'[c].near
    BY <1>t, <1>1, <1>3 DEF LinkType
  <2> QED BY <1>2, <1>3, <2>1, Gone
<1>4. CASE c \notin gone
  BY <1>1, <1>2, <1>4, Placed
<1> QED BY <1>3, <1>4

\* Every step keeps every connection in order.
LEMMA ConnStep ==
  ASSUME Inv, [Next]_vars, NEW c \in Connections
  PROVE  ConnOK(c)'
<1>t. conn[c] \in ConnType /\ link[c] \in LinkType /\ ConnTyped /\ LinkTyped /\ ClientTyped
  BY HeldFacts, TypesInParts DEF Inv
<1>w. CASE WorkerStep(c) \/ WorkerTimesOut(c)
  BY <1>w, WorkerKeeps
<1>k. CASE ~WorkerPushes(c)
  <2>k. Carried(c)' \subseteq Carried(c) /\ Single(c)'
    BY <1>k, CarriedKept
  <2>u. ASSUME client'[c] = client[c], link'[c] = link[c], UNCHANGED served,
               conn'[c].at = conn[c].at, conn'[c].frame = conn[c].frame,
               conn'[c].reply = conn[c].reply
        PROVE  ConnOK(c)'
    BY <2>k, <2>u, Placed
  <2>v. ASSUME UNCHANGED <<conn, link, client, served>> PROVE ConnOK(c)'
    BY <2>u, <2>v
  <2>1. CASE \/ StartResets \/ StartFails \/ StartLaunches \/ StopBegins \/ StopJoinsAcceptor
             \/ StopTells \/ StopJoinsReducer \/ AcceptorPolls \/ UNCHANGED vars
             \/ ReducerPops \/ ReducerStops \/ ReducerServesLocal
    BY <2>v, <2>1 DEF StartResets, StartFails, StartLaunches, StopBegins, StopJoinsAcceptor,
            StopTells, StopJoinsReducer, AcceptorPolls, vars, ReducerPops, ReducerStops,
            ReducerServesLocal
  <2>2. ASSUME NEW l \in Locals, LocalCalls(l) \/ LocalStep(l) PROVE ConnOK(c)'
    BY <2>v, <2>2 DEF LocalCalls, LocalStep, LocalPushes, LocalWaits
  <2>3. CASE StopClosesListener
    <3> DEFINE gone == {d \in Connections : conn[d].at = "backlog"}
    <3>1. Joined(gone) /\ UNCHANGED <<client, served>>
      BY <2>3 DEF StopClosesListener
    <3>2. c \in gone => conn[c].at \in {"backlog", "finished"}
      OBVIOUS
    <3> HIDE DEF gone
    <3> QED BY <2>k, <3>1, <3>2, JoinedKeeps
  <2>4. CASE StopJoinsWorkers
    <3>1. Joined(Registered) /\ UNCHANGED <<client, served>>
      BY <2>4 DEF StopJoinsWorkers
    <3>2. c \in Registered => conn[c].at \in {"backlog", "finished"}
      BY <2>4 DEF StopJoinsWorkers
    <3> QED BY <2>k, <3>1, <3>2, JoinedKeeps
  <2>5. CASE AcceptorChecks
    <3> DEFINE gone == {d \in Connections : conn[d].at = "finished"}
    <3>1. UNCHANGED <<conn, link, client, served>> \/ (Joined(gone) /\ UNCHANGED <<client, served>>)
      BY <2>5 DEF AcceptorChecks
    <3>2. c \in gone => conn[c].at \in {"backlog", "finished"}
      OBVIOUS
    <3> HIDE DEF gone
    <3> QED BY <2>k, <2>v, <3>1, <3>2, JoinedKeeps
  <2>6. ASSUME NEW d \in Connections, StopReleases(d) PROVE ConnOK(c)'
    <3>1. /\ link' = [link EXCEPT ![d].aborted = TRUE] /\ conn' = [conn EXCEPT ![d].stopped = TRUE]
          /\ UNCHANGED <<client, served>>
      BY <2>6 DEF StopReleases
    <3>2. CASE d = c
      <4>1. link'[c] = [link[c] EXCEPT !.aborted = TRUE] /\ conn'[c] = [conn[c] EXCEPT !.stopped = TRUE]
        BY <1>t, <3>1, <3>2 DEF ConnTyped, LinkTyped
      <4>2. /\ link'[c].toServer = link[c].toServer /\ link'[c].toClient = link[c].toClient
            /\ link'[c].near = link[c].near /\ link'[c].far = link[c].far /\ link'[c].aborted
        BY <1>t, <4>1 DEF LinkType
      <4>3. /\ conn'[c].at = conn[c].at /\ conn'[c].frame = conn[c].frame
            /\ conn'[c].reply = conn[c].reply
        BY <1>t, <4>1 DEF ConnType
      <4>4. client'[c] = client[c] /\ \A m : <<c, m>> \in served' <=> <<c, m>> \in served
        BY <3>1
      <4>5. conn'[c].at = "sending" => conn[c].at = "sending" \/ conn[c].reply # NoReply
        BY <4>3
      <4> HIDE <1>t, <2>u, <2>v
      <4> QED BY <2>k, <4>2, <4>3, <4>4, <4>5, Placed
    <3>3. CASE d # c
      <4>1. conn'[c] = conn[c] /\ link'[c] = link[c]
        BY <1>t, <3>1, <3>3 DEF ConnTyped, LinkTyped
      <4> QED BY <2>u, <3>1, <4>1
    <3> QED BY <3>2, <3>3
  <2>7. ASSUME NEW d \in Connections, Accepts(d) PROVE ConnOK(c)'
    <3>1. CASE d # c
      <4>1. conn'[c] = conn[c] /\ link'[c] = link[c] /\ UNCHANGED <<client, served>>
        BY <1>t, <2>7, <3>1 DEF Accepts, ConnTyped, LinkTyped
      <4> QED BY <2>u, <4>1
    <3>2. CASE d = c /\ conn' = [conn EXCEPT ![c].at = "checking"] /\ UNCHANGED link
      <4>1. conn[c].at = "backlog" /\ UNCHANGED <<client, served>>
        BY <2>7, <3>2 DEF Accepts
      <4>2. conn'[c].at = "checking" /\ conn'[c].frame = conn[c].frame /\ conn'[c].reply = conn[c].reply
        BY <1>t, <3>2 DEF ConnTyped, ConnType
      <4>3. /\ conn[c].at \notin {"absent", "joined"} /\ conn'[c].at \notin {"absent", "backlog"}
            /\ conn'[c].at \in Active => /\ conn[c].at \in Active
                                         /\ conn'[c].at \in Owing <=> conn[c].at \in Owing
            /\ conn'[c].at \notin {"pushing", "refusing"}
            /\ conn'[c].at \in Empty => conn[c].at \in Empty
            /\ conn'[c].at # "sending"
        BY <4>1, <4>2 DEF Active, Owing, Empty
      <4> QED BY <2>k, <3>2, <4>1, <4>2, <4>3, Placed
    <3>3. CASE /\ d = c /\ conn' = [conn EXCEPT ![c].at = "joined"]
               /\ link' = [link EXCEPT ![c].toClient = <<Busy(0)>>, ![c].toServer = <<>>, ![c].near = FALSE]
      <4>1. conn[c].at = "backlog" /\ UNCHANGED <<client, served>>
        BY <2>7, <3>3 DEF Accepts
      <4>2. conn'[c].at = "joined" /\ conn'[c].frame = conn[c].frame /\ conn'[c].reply = conn[c].reply
        BY <1>t, <3>3 DEF ConnTyped, ConnType
      <4>3. link'[c] = [link[c] EXCEPT !.toClient = <<Busy(0)>>, !.toServer = <<>>, !.near = FALSE]
        BY <1>t, <3>3 DEF LinkTyped
      <4>4. link'[c].toServer = <<>> /\ link'[c].toClient = <<Busy(0)>> /\ ~link'[c].near
        BY <1>t, <4>3 DEF LinkType
      <4> QED BY <2>k, <4>1, <4>2, <4>4, Limited
    <3> QED BY <2>7, <3>1, <3>2, <3>3 DEF Accepts
  <2>8. CASE ReducerServes
    <3>1. CASE reducer.item.from = c
      BY <2>8, <3>1, Answered
    <3>2. CASE reducer.item.from # c
      <4>1. /\ conn'[c] = conn[c] /\ UNCHANGED <<link, client>>
            /\ served' = served \cup {<<reducer.item.from, reducer.item.number>>}
        BY <1>t, <2>8, <3>2 DEF ReducerServes, ConnTyped
      <4>2. \A m : <<c, m>> \in served' <=> <<c, m>> \in served
        BY <3>2, <4>1
      <4> HIDE <1>t, <2>u, <2>v
      <4> QED BY <2>k, <4>1, <4>2, Placed
    <3> QED BY <3>1, <3>2
  <2>9. ASSUME NEW d \in Connections, WorkerStep(d) \/ WorkerTimesOut(d) PROVE ConnOK(c)'
    <3>1. CASE d # c
      <4>1. UNCHANGED <<client, served>>
        BY <2>9 DEF WorkerStep, WorkerTimesOut, WorkerChecks, WorkerReceives, WorkerSeesEnd, WorkerOnly,
                 WorkerPushes, WorkerRefuses, WorkerWaits, WorkerSends
      <4>2. conn'[c] = conn[c]
        BY <1>t, <2>9, <3>1 DEF WorkerStep, WorkerTimesOut, WorkerChecks, WorkerReceives, WorkerSeesEnd,
                 WorkerPushes, WorkerRefuses, WorkerWaits, WorkerSends, WorkerGoes, ConnTyped
      <4>3. link'[c] = link[c]
        BY <1>t, <2>9, <3>1 DEF WorkerStep, WorkerTimesOut, WorkerChecks, WorkerReceives, WorkerSeesEnd,
                 WorkerOnly, WorkerPushes, WorkerRefuses, WorkerWaits, WorkerSends, Sends, SendFails,
                 LinkTyped
      <4> QED BY <2>u, <4>1, <4>2, <4>3
    <3> QED BY <1>w, <2>9, <3>1
  <2>10. ASSUME NEW d \in Connections, ClientStep(d) PROVE ConnOK(c)'
    <3>1. CASE d # c
      <4>1. conn'[c] = conn[c] /\ UNCHANGED served
        BY <1>t, <2>10, <3>1 DEF ClientStep, ClientConnects, ClientCalls, ClientReads, ClientTimesOut,
                 ClientCloses, ConnTyped
      <4>2. link'[c] = link[c]
        BY <1>t, <2>10, <3>1 DEF ClientStep, ClientConnects, ClientCalls, ClientReads, ClientTimesOut,
                 ClientCloses, HangsUp, LinkTyped
      <4>3. client'[c] = client[c]
        BY <1>t, <2>10, <3>1 DEF ClientStep, ClientConnects, ClientCalls, ClientReads, ClientTimesOut,
                 ClientCloses, ClientTyped
      <4> QED BY <2>u, <4>1, <4>2, <4>3
    <3>2. CASE d = c
      BY <2>k, <2>10, <3>2, ClientKeeps
    <3> QED BY <3>1, <3>2
  <2> QED
    BY <2>1, <2>2, <2>3, <2>4, <2>5, <2>6, <2>7, <2>8, <2>9, <2>10
    DEF Next, OwnerStops, AcceptorStep, ReducerStep
<1>p. CASE WorkerPushes(c)
  BY <1>p, Pushed
<1> QED BY <1>k, <1>p

-------------------------------------------------------------------------------
(* Theorems *)

\* The invariant holds initially.
LEMMA InvInit == Init => Inv
<1> SUFFICES ASSUME Init PROVE Inv
  OBVIOUS
<1>1. TypeOK
  BY TypeInit
<1>2. ThreadsOK
  <2>1. Registered = {}
    BY DEF Init, Registered, NewConnection
  <2> QED BY <2>1 DEF Init, ThreadsOK
<1>3. queue.items = <<>> /\ DOMAIN queue.items = {} /\ reducer.item = NoItem /\ reducer.at = "absent"
  BY DEF Init
<1>4. StopOK
  BY <1>3, OtherItems DEF StopOK
<1>5. ASSUME NEW c \in Connections PROVE ConnOK(c)
  <2>1. /\ conn[c] = NewConnection /\ link[c] = NewLink /\ served = {}
        /\ client[c] = [at |-> "away", calls |-> 0, read |-> <<>>]
    BY DEF Init
  <2>2. /\ conn[c].at = "absent" /\ conn[c].reply = NoReply
        /\ link[c].toServer = <<>> /\ link[c].toClient = <<>> /\ ~link[c].near
        /\ client[c].at = "away" /\ client[c].calls = 0 /\ client[c].read = <<>>
    BY <2>1 DEF NewConnection, NewLink
  <2>3. <<>> \in Readings /\ <<>> \in Seq(Replies) /\ Len(<<>>) = 0
    BY EmptySeq DEF Readings
  <2>4. RepliesTo(c) = <<>> /\ DOMAIN RepliesTo(c) = {}
    <3>1. RepliesTo(c) = Joint(<<>>, <<>>)
      BY <2>2 DEF RepliesTo, Joint
    <3>2. Joint(<<>>, <<>>) \in Seq(Replies) /\ Len(Joint(<<>>, <<>>)) = Len(<<>>) + Len(<<>>)
      BY <2>3, JointFacts
    <3>3. Len(Joint(<<>>, <<>>)) = 0
      BY <2>3, <3>2
    <3>4. Joint(<<>>, <<>>) = <<>>
      BY <3>2, <3>3, EmptySeq
    <3> QED BY <3>1, <3>4
  <2>5. Carried(c) = {} /\ Single(c)
    BY <1>3, NoFrame DEF Carried, Single
  <2>6. ClientOK(c) /\ AnswersOK(c)
    BY <2>2, <2>4 DEF ClientOK, AnswersOK
  <2>7. LinkOK(c)
    BY <2>2, <2>3 DEF LinkOK, Active
  <2>8. LevelOK(c)
    BY <2>2 DEF LevelOK, Active
  <2>9. HandOK(c)
    BY <2>1, <2>2, <2>5 DEF HandOK
  <2> QED BY <2>6, <2>7, <2>8, <2>9 DEF ConnOK
<1> QED BY <1>1, <1>2, <1>4, <1>5 DEF Inv

\* The inductive invariant: what the threads do keeps the types, the order of stop and
\* the way of every frame from its socket to its reply.
THEOREM Invariance == Spec => []Inv
<1>1. Inv /\ [Next]_vars => Inv'
  <2> SUFFICES ASSUME Inv, [Next]_vars PROVE Inv'
    OBVIOUS
  <2>1. TypeOK' /\ ThreadsOK' /\ StopOK'
    BY TypeStep, ThreadsStep, StopStep
  <2>2. \A c \in Connections : ConnOK(c)'
    BY ConnStep
  <2> QED BY <2>1, <2>2 DEF Inv
<1> QED BY InvInit, <1>1, PTL DEF Spec

\* Every variable keeps its type, and the queue its capacity.
THEOREM TypesOfThreads == Spec => []TypeOK
<1>1. Inv => TypeOK
  BY DEF Inv
<1> QED BY <1>1, Invariance, PTL

\* Behind stop no thread is left.
THEOREM StopLeavesNoThread == Spec => []StoppedMeansJoined
<1>1. Inv => StoppedMeansJoined
  BY DEF Inv, ThreadsOK, StoppedMeansJoined
<1> QED BY <1>1, Invariance, PTL

\* The reducer does not end before the last frame the queue took.
THEOREM ServesWhatItAccepted == Spec => []AcceptedIsServed
<1>1. Inv => AcceptedIsServed
  BY DEF Inv, StopOK, AcceptedIsServed
<1> QED BY <1>1, Invariance, PTL

\* On one connection the i-th reply answers the i-th frame.
THEOREM RepliesInOrder == Spec => []AnswersInOrder
<1>1. Inv => AnswersInOrder
  BY Zenon DEF Inv, ConnOK, AnswersOK, AnswersInOrder
<1> QED BY <1>1, Invariance, PTL

\* A refused frame never reaches the engine, and an answered one did.
THEOREM RefusesTruthfully == Spec => []RefusalsAreTrue
<1>1. Inv => RefusalsAreTrue
  BY Zenon DEF Inv, ConnOK, AnswersOK, RefusalsAreTrue
<1> QED BY <1>1, Invariance, PTL

===============================================================================
