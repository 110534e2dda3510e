-------------------------------- MODULE Chat --------------------------------
(***************************************************************************)
(* The chat rooms of one client and one technician: how a room is found or *)
(* opened, what is sent in it, how the unread counters follow, and how it  *)
(* is linked to a contract and closed.  A request or a WebSocket message   *)
(* fetches the room first and saves it in a later transaction; only the    *)
(* counters are changed in the database itself.                            *)
(***************************************************************************)
EXTENDS Naturals, Sequences, FiniteSetsExt

CONSTANTS
    Workers,          \* requests and socket messages served at a time
    ServiceRequests,
    NoRequest,
    MaxRooms,         \* bounds of the model
    MaxMessages       \* in all rooms together

VARIABLES
    rooms,      \* the room rows, in the order of their creation
    contract,   \* "in_progress", or "later": the contract that may be linked
    messages,   \* per room, what was sent, in the order of the commits
    unread,     \* per room and user, unread_count
    lastRead,   \* per room and user, position of last_read_message
    work,       \* what each worker has read
    crossed,    \* history: a message came between the two steps of a read
    reopened    \* history: an opening overlapped, or a closed room was saved as active

vars == <<rooms, contract, messages, unread, lastRead, work, crossed, reopened>>

Users == {"client", "technician"}
Other(u) == CHOOSE v \in Users : v # u

\* The model has a status BLOCKED too, which no operation sets.
Status == {"OPEN", "PROPOSAL_CREATED", "CONTRACT_LINKED", "CLOSED"}
LinkedForgotten == {"OPEN", "PROPOSAL_CREATED"}
ActiveStatus == {"OPEN", "PROPOSAL_CREATED", "CONTRACT_LINKED"}
CanSend(room) == room.status \in {"OPEN", "PROPOSAL_CREATED", "CONTRACT_LINKED"}

\* Only these kinds of message raise the other participant's counter;
\* TEXT stands for FILE too.
Counted == {"TEXT", "PRICE_OFFER", "PRICE_ACCEPTED"}
Kinds == Counted \union {"SYSTEM", "CONTRACT_LINKED"}

Room == [status : Status, linked : BOOLEAN, request : ServiceRequests \union {NoRequest}]
Message == [from : Users, kind : Kinds]

Rooms == DOMAIN rooms
Idle == [op |-> "idle"]

Init ==
    /\ rooms = <<>>
    /\ contract = "in_progress"
    /\ messages = <<>>
    /\ unread = <<>>
    /\ lastRead = <<>>
    /\ work = [w \in Workers |-> Idle]
    /\ crossed = <<>>
    /\ reopened = FALSE

Begin(w, job) ==
    /\ work[w] = Idle
    /\ work' = [work EXCEPT ![w] = job]
    /\ UNCHANGED <<rooms, contract, messages, unread, lastRead, crossed, reopened>>

Done(w) == work' = [work EXCEPT ![w] = Idle]

-----------------------------------------------------------------------------
(* Opening a room.                                                         *)

OfRequest(q) == {i \in Rooms : rooms[i].request = q}
Active == {i \in Rooms : rooms[i].status \in ActiveStatus}
First(S) == CHOOSE i \in S : \A j \in S : i <= j

\* get_or_create_chat_room: an active room is returned as it is.
BeginOpen(w) == Active = {} /\ Begin(w, [op |-> "open", request |-> NoRequest])

\* get_or_create_room_for_request: the request's room, else an active room,
\* whatever request it already serves, else a new one.
BeginOpenForRequest(w, q) ==
    /\ OfRequest(q) = {}
    /\ Begin(w, IF Active = {} THEN [op |-> "open", request |-> q]
                ELSE [op |-> "relink", room |-> First(Active), request |-> q])

\* uq_room_service_request, tested by full_clean and by the database.
Untested(q) == TRUE
RequestFree(q) == q = NoRequest \/ OfRequest(q) = {}

CommitOpen(w) ==
    LET q == work[w].request
        fresh == [u \in Users |-> 0]
    IN  /\ work[w].op = "open"
        /\ Done(w)
        /\ IF RequestFree(q) /\ Len(rooms) < MaxRooms
           THEN /\ rooms' = Append(rooms, [status |-> "OPEN", linked |-> FALSE, request |-> q])
                /\ messages' = Append(messages, <<>>)
                /\ unread' = Append(unread, fresh)
                /\ lastRead' = Append(lastRead, fresh)
                /\ crossed' = Append(crossed, [u \in Users |-> FALSE])
                /\ reopened' = (reopened \/ Active # {})
                /\ UNCHANGED contract
           ELSE UNCHANGED <<rooms, contract, messages, unread, lastRead, crossed, reopened>>

CommitRelink(w) ==
    /\ work[w].op = "relink"
    /\ Done(w)
    /\ rooms' = IF RequestFree(work[w].request)
                THEN [rooms EXCEPT ![work[w].room].request = work[w].request] ELSE rooms
    /\ UNCHANGED <<contract, messages, unread, lastRead, crossed, reopened>>

-----------------------------------------------------------------------------
(* Sending.                                                                *)

LowerCased(kind, fetched) == IF kind = "PRICE_OFFER" THEN "proposal_created" ELSE "kept"

\* create_price_offer saves a status, from the row it fetched; a text message, a
\* file and an acceptance save only the time of the last message.
SavedStatus(kind, fetched) ==
    IF kind # "PRICE_OFFER" THEN "kept"
    ELSE IF fetched = "OPEN" THEN "PROPOSAL_CREATED" ELSE fetched

Sent == MapThenSumSet(LAMBDA i : Len(messages[i]), Rooms)

BeginSend(w, i, u, kind) ==
    /\ Sent < MaxMessages
    /\ Begin(w, [op |-> "send", room |-> i, from |-> u, kind |-> kind,
                 status |-> SavedStatus(kind, rooms[i].status)])

\* A text, or an attachment.
BeginMessage(w, i, u) == CanSend(rooms[i]) /\ BeginSend(w, i, u, "TEXT")

\* The view of price offers refuses a closed room.
BeginOffer(w, i) ==
    /\ rooms[i].status # "CLOSED"
    /\ BeginSend(w, i, "technician", "PRICE_OFFER")

\* On the socket the service decides, and it tests only text messages.
BeginSocketSend(w, i) ==
    \/ \E u \in Users : CanSend(rooms[i]) /\ BeginSend(w, i, u, "TEXT")
    \/ BeginSend(w, i, "technician", "PRICE_OFFER")

\* accept_price_offer does not look at the room's status.
BeginAccept(w, i) ==
    /\ \E m \in DOMAIN messages[i] : messages[i][m].kind = "PRICE_OFFER"
    /\ BeginSend(w, i, "client", "PRICE_ACCEPTED")

OnlyText(kind) == kind = "TEXT"
RaisesCounter(kind) == kind \in Counted

AddMessage(i, u, kind) ==
    messages' = [messages EXCEPT ![i] = Append(@, [from |-> u, kind |-> kind])]

CommitSend(w) ==
    LET j == work[w]
        i == j.room
        status == IF j.status = "kept" THEN rooms[i].status ELSE j.status
    IN  /\ j.op = "send"
        /\ Sent < MaxMessages
        /\ Done(w)
        /\ AddMessage(i, j.from, j.kind)
        /\ rooms' = [rooms EXCEPT ![i].status = status]
        /\ unread' = IF RaisesCounter(j.kind)
                     THEN [unread EXCEPT ![i][Other(j.from)] = @ + 1] ELSE unread
        /\ reopened' = (reopened \/ (i \notin Active /\ status \in ActiveStatus))
        /\ UNCHANGED <<contract, lastRead, crossed>>

-----------------------------------------------------------------------------
(* Linking and closing add a message that nobody is told to read.          *)

BeginLink(w, i) == Sent < MaxMessages /\ Begin(w, [op |-> "link", room |-> i])

\* mark_contract_linked asks only for a room that is not BLOCKED.
CommitLink(w) ==
    LET i == work[w].room
    IN  /\ work[w].op = "link"
        /\ Sent < MaxMessages
        /\ Done(w)
        /\ AddMessage(i, "client", "CONTRACT_LINKED")
        /\ rooms' = [rooms EXCEPT ![i].status = "CONTRACT_LINKED", ![i].linked = TRUE]
        /\ reopened' = (reopened \/ i \notin Active)
        /\ UNCHANGED <<contract, unread, lastRead, crossed>>

\* A contract that is in progress keeps its room open, an active one does not.
BeginClose(w, i) ==
    /\ Sent < MaxMessages
    /\ ~(rooms[i].linked /\ contract = "in_progress")
    /\ Begin(w, [op |-> "close", room |-> i])

CommitClose(w) ==
    LET i == work[w].room
    IN  /\ work[w].op = "close"
        /\ Sent < MaxMessages
        /\ Done(w)
        /\ AddMessage(i, "client", "SYSTEM")
        /\ rooms' = [rooms EXCEPT ![i].status = "CLOSED"]
        /\ UNCHANGED <<contract, unread, lastRead, crossed, reopened>>

-----------------------------------------------------------------------------
(* Reading, on request and whenever a socket connects.                     *)

ReadUpTo(w, i, u) ==
    Begin(w, [op |-> "read", room |-> i, user |-> u, latest |-> Len(messages[i])])

BeginRead(w, i, u) == ReadUpTo(w, i, u)
Connect(w, i, u) == ReadUpTo(w, i, u)

CommitRead(w) ==
    LET i == work[w].room
        u == work[w].user
    IN  /\ work[w].op = "read"
        /\ Done(w)
        /\ lastRead' = [lastRead EXCEPT ![i][u] = work[w].latest]
        /\ unread' = [unread EXCEPT ![i][u] = 0]
        /\ crossed' = [crossed EXCEPT ![i][u] = Len(messages[i]) # work[w].latest]
        /\ UNCHANGED <<rooms, contract, messages, reopened>>

-----------------------------------------------------------------------------
(* Outside the chat the contract is activated, completed or canceled.      *)

ContractMovesOn ==
    /\ contract = "in_progress"
    /\ contract' = "later"
    /\ UNCHANGED <<rooms, messages, unread, lastRead, work, crossed, reopened>>

Next ==
    \/ \E w \in Workers :
          \/ BeginOpen(w)
          \/ \E q \in ServiceRequests : BeginOpenForRequest(w, q)
          \/ \E i \in Rooms :
                \/ \E u \in Users :
                      BeginMessage(w, i, u) \/ BeginRead(w, i, u) \/ Connect(w, i, u)
                \/ BeginOffer(w, i) \/ BeginAccept(w, i) \/ BeginSocketSend(w, i)
                \/ BeginLink(w, i) \/ BeginClose(w, i)
          \/ CommitOpen(w) \/ CommitRelink(w) \/ CommitSend(w)
          \/ CommitLink(w) \/ CommitClose(w) \/ CommitRead(w)
    \/ ContractMovesOn

Spec == Init /\ [][Next]_vars

-----------------------------------------------------------------------------
(* The rooms, their messages and their counters have the types of their    *)
(* columns, and last_read_message is a message of the room.                *)
TypeOK ==
    /\ \A i \in Rooms :
          /\ rooms[i] \in Room
          /\ messages[i] \in Seq(Message)
          /\ unread[i] \in [Users -> Nat]
          /\ \A u \in Users : lastRead[i][u] \in 0..Len(messages[i])
    /\ contract \in {"in_progress", "later"}

\* The messages that await a participant.
Awaiting(i, u) ==
    {m \in DOMAIN messages[i] :
        m > lastRead[i][u] /\ messages[i][m].from # u /\ messages[i][m].kind \in Counted}

(* A participant's unread counter is the number of counted messages of the *)
(* other one since the last message read, through any interleaving of      *)
(* messages, offers and reads, unless a message was committed between the  *)
(* two steps of the participant's latest read.                             *)
UnreadMatchesMessages ==
    \A i \in Rooms, u \in Users :
        crossed[i][u] \/ unread[i][u] = Cardinality(Awaiting(i, u))

(* A service request has one conversation, also when two requests for it   *)
(* looked before either was saved, and when an active room is taken over.  *)
OneRoomPerRequest ==
    \A q \in ServiceRequests : Cardinality(OfRequest(q)) <= 1

(* A pair has two active rooms only after two openings overlapped, or a    *)
(* closed room was saved as active again by a link or by a price offer     *)
(* that had fetched it before.                                             *)
SecondRoomNeedsReopening ==
    Cardinality({i \in Rooms : CanSend(rooms[i])}) > 1 => reopened

\* A request has one conversation, and a pair two active ones only by an overlap
\* or a late save (get_or_create_chat_room, get_or_create_room_for_request).
RoomsAreUnique == OneRoomPerRequest /\ SecondRoomNeedsReopening

-----------------------------------------------------------------------------
(***************************************************************************)
(* Why they hold.                                                          *)
(***************************************************************************)
\* What a worker may have read: only rooms that exist, which stay.
Jobs ==
    [op : {"open"}, request : ServiceRequests \union {NoRequest}]
        \union [op : {"relink"}, room : Rooms, request : ServiceRequests]
        \union [op : {"send"}, room : Rooms, from : Users, kind : Kinds,
                 status : Status \union {"kept"}]
        \union [op : {"link", "close"}, room : Rooms]
        \union [op : {"read"}, room : Rooms, user : Users, latest : Nat]
        \union {Idle}

\* The sequences have one entry per room, and nothing is read before it is sent.
RowsInStep ==
    /\ rooms \in Seq(Room)
    /\ messages \in Seq(Seq(Message)) /\ Len(messages) = Len(rooms)
    /\ unread \in Seq([Users -> Nat]) /\ Len(unread) = Len(rooms)
    /\ lastRead \in Seq([Users -> Nat]) /\ Len(lastRead) = Len(rooms)
    /\ crossed \in Seq([Users -> BOOLEAN]) /\ Len(crossed) = Len(rooms)
    /\ contract \in {"in_progress", "later"} /\ reopened \in BOOLEAN
    /\ work \in [Workers -> Jobs]
    /\ \A i \in Rooms, u \in Users : lastRead[i][u] <= Len(messages[i])
    /\ \A w \in Workers :
          work[w].op = "read" => work[w].latest <= Len(messages[work[w].room])

\* No two rooms for a request, and no two active ones unless one was reopened.
RequestsApart ==
    \A i, j \in Rooms :
        rooms[i].request = rooms[j].request /\ rooms[i].request # NoRequest => i = j
ActiveApart == reopened \/ \A i, j \in Active : i = j

IInv == RowsInStep /\ UnreadMatchesMessages /\ RequestsApart /\ ActiveApart
=============================================================================
