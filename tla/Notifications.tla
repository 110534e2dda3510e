--------------------------- MODULE Notifications ---------------------------
(***************************************************************************)
(* The notifications of one user (notification/services.py, models.py,     *)
(* realtime.py, views.py, tasks.py): rows inserted inside the transactions *)
(* of the other components, the events sent after their commit, reading    *)
(* and cleaning up, and the background task that Celery delivers at least  *)
(* once.                                                                   *)
(*                                                                         *)
(* A change is what a request to another component does: a plain one       *)
(* notifies with create_notification in its transaction and happens once;  *)
(* a detached one notifies after it is committed, outside any transaction; *)
(* a keyed one uses create_notification_once and may be repeated, also     *)
(* concurrently.  The unread counts that are broadcast are advisory and    *)
(* left out.                                                               *)
(***************************************************************************)
EXTENDS Integers, FiniteSets

CONSTANTS Workers,     \* requests in flight at once
          Plain,       \* changes notified with create_notification
          Shared,      \* those of them that another user is told of as well
          Detached,    \* changes committed before create_notification is called
          Keyed,       \* changes notified with create_notification_once
          MaxRetries,  \* max_retries of the task
          MaxCrashes,  \* bound on the crashes of its worker
          MaxDeleted   \* bound on the rows cleaned up per change

VARIABLES done,    \* changes that are committed
          notices, \* each change's rows: the user's, unread, read or deleted,
                   \* and those of the other users told
          tx,      \* each request's open transaction
          wire,    \* events sent to the user's group and not yet delivered
          seen,    \* changes whose event the client received
          task     \* one execution of create_notification_async

vars == <<done, notices, tx, wire, seen, task>>

Changes == Plain \cup Detached \cup Keyed
NoRows == [unread |-> 0, read |-> 0, deleted |-> 0, others |-> 0]
Rows(c) == notices[c].unread + notices[c].read + notices[c].deleted
Kept(c) == notices[c].unread + notices[c].read
Idle == [on |-> "none", row |-> "none", others |-> 0]

\* Disputes, and what a dealership does for a client, concern two users.
Others(c) == IF c \in Plain \cap Shared THEN 1 ELSE 0

Init ==
    /\ done = {} /\ wire = {} /\ seen = {}
    /\ notices = [c \in Changes |-> NoRows]
    /\ tx = [w \in Workers |-> Idle]
    /\ \E known \in BOOLEAN :
          task = [state |-> "queued", known |-> known, attempts |-> 0, crashes |-> 0,
                  rows |-> 0]

-----------------------------------------------------------------------------
(***************************************************************************)
(* Notifications of a transaction                                          *)
(***************************************************************************)
Open(c) == {w \in Workers : tx[w].on = c}

BeginChange(w, c) ==
    /\ tx[w] = Idle
    /\ tx' = [tx EXCEPT ![w] = [on |-> c, row |-> "pending", others |-> 0]]
    /\ UNCHANGED <<done, notices, wire, seen, task>>

BeginPlain(w, c) == c \notin done /\ Open(c) = {} /\ BeginChange(w, c)
\* A review, or its moderation.
BeginKeyed(w, c) == BeginChange(w, c)

SentAtOnce == FALSE
\* The event waits for the commit (transaction.on_commit).
SentOnCommit == TRUE

Inserted(w, row) ==
    /\ tx' = [tx EXCEPT ![w].row = row]
    /\ wire' = IF row = "inserted" /\ ~SentOnCommit THEN wire \cup {tx[w].on} ELSE wire
    /\ UNCHANGED <<done, notices, seen, task>>

\* The exception of a failed insert is caught and logged, but the failure has
\* marked the transaction for rollback.
Swallowed == "skipped"
AfterFailedInsert == "broken"

CreateNotification(w) ==
    /\ tx[w].row = "pending" /\ tx[w].on \in Plain
    /\ \E row \in {"inserted", AfterFailedInsert} : Inserted(w, row)

\* The other recipients, before or after the user, in the same transaction.
NotifyOther(w) ==
    /\ tx[w].row \in {"pending", "inserted"} /\ tx[w].others < Others(tx[w].on)
    /\ \/ tx' = [tx EXCEPT ![w].others = @ + 1]
       \/ tx' = [tx EXCEPT ![w].row = AfterFailedInsert]
    /\ UNCHANGED <<done, notices, wire, seen, task>>

AnyKey(w) == TRUE
\* The unique deduplication key: no committed row has it, and an uncommitted
\* one is waited for.
KeyFree(w) ==
    /\ Kept(tx[w].on) = 0
    /\ \A v \in Open(tx[w].on) : tx[v].row # "inserted"

KeyTaken(w) == Kept(tx[w].on) > 0

\* get_or_create has a savepoint of its own: its failure is survived.
CreateNotificationOnce(w) ==
    /\ tx[w].row = "pending" /\ tx[w].on \in Keyed
    /\ \/ KeyFree(w) /\ Inserted(w, "inserted")
       \/ KeyTaken(w) /\ Inserted(w, "skipped")
       \/ Inserted(w, "skipped")

Commit(w) ==
    LET c == tx[w].on
    IN  /\ tx[w].row \in {"inserted", "skipped"} /\ tx[w].others = Others(c)
        /\ done' = done \cup {c}
        /\ IF tx[w].row = "inserted"
           THEN /\ notices' = [notices EXCEPT ![c].unread = @ + 1,
                                              ![c].others = @ + tx[w].others]
                /\ wire' = wire \cup {c}
           ELSE UNCHANGED <<notices, wire>>
        /\ tx' = [tx EXCEPT ![w] = Idle]
        /\ UNCHANGED <<seen, task>>

\* create_contract and update_contract_proposal, and messages, save first.
ChangeFirst(w, c) ==
    /\ tx[w] = Idle /\ c \notin done
    /\ done' = done \cup {c}
    /\ tx' = [tx EXCEPT ![w] = [on |-> c, row |-> "pending", others |-> 0]]
    /\ UNCHANGED <<notices, wire, seen, task>>

\* Nothing is marked for rollback: the caught failure leaves the change without
\* its notice.
NotifyAfterwards(w) ==
    LET c == tx[w].on
    IN  /\ tx[w].row = "pending" /\ c \in Detached
        /\ \/ /\ notices' = [notices EXCEPT ![c].unread = @ + 1]
              /\ wire' = wire \cup {c}
           \/ UNCHANGED <<notices, wire>>
        /\ tx' = [tx EXCEPT ![w] = Idle]
        /\ UNCHANGED <<done, seen, task>>

\* The component fails, or its transaction was marked, or the process dies, which
\* takes back no change committed before.
RollBack(w) ==
    /\ tx[w] # Idle
    /\ tx' = [tx EXCEPT ![w] = Idle]
    /\ UNCHANGED <<done, notices, wire, seen, task>>

-----------------------------------------------------------------------------
(***************************************************************************)
(* The user: events, reading, cleaning up                                  *)
(***************************************************************************)
Deliver(c) ==
    /\ c \in wire
    /\ wire' = wire \ {c} /\ seen' = seen \cup {c}
    /\ UNCHANGED <<done, notices, tx, task>>

\* No client is connected, or the channel layer is unavailable or full.
Lose(c) ==
    /\ c \in wire
    /\ wire' = wire \ {c}
    /\ UNCHANGED <<done, notices, tx, seen, task>>

Mark(c, from, to) ==
    /\ notices[c][from] > 0
    /\ notices' = [notices EXCEPT ![c][from] = @ - 1, ![c][to] = @ + 1]
    /\ UNCHANGED <<done, tx, wire, seen, task>>

MarkRead(c) == Mark(c, "unread", "read")
MarkUnread(c) == Mark(c, "read", "unread")
\* The rows that are read and old enough.
Cleanup(c) == notices[c].deleted < MaxDeleted /\ Mark(c, "read", "deleted")

MarkAllRead ==
    /\ notices' = [c \in Changes |->
          [notices[c] EXCEPT !.read = @ + notices[c].unread, !.unread = 0]]
    /\ UNCHANGED <<done, tx, wire, seen, task>>

-----------------------------------------------------------------------------
(***************************************************************************)
(* create_notification_async                                               *)
(***************************************************************************)
TakeTask ==
    /\ task.state = "queued"
    /\ task' = [task EXCEPT !.state = "running"]
    /\ UNCHANGED <<done, notices, tx, wire, seen>>

\* The recipient or the actor is deleted while the task waits or runs.
DeleteUser ==
    /\ task.known
    /\ task' = [task EXCEPT !.known = FALSE]
    /\ UNCHANGED <<done, notices, tx, wire, seen>>

InsertTaskRow ==
    /\ task.state = "running" /\ task.known
    /\ task' = [task EXCEPT !.state = "inserted", !.rows = @ + 1]
    /\ UNCHANGED <<done, notices, tx, wire, seen>>

\* User.DoesNotExist is caught and logged.
FindNobody ==
    /\ task.state = "running" /\ ~task.known
    /\ task' = [task EXCEPT !.state = "skipped"]
    /\ UNCHANGED <<done, notices, tx, wire, seen>>

RetriesUnbounded == TRUE
RetriesLeft == task.attempts < MaxRetries

FailTask ==
    /\ task.state = "running"
    /\ task' = IF RetriesLeft
               THEN [task EXCEPT !.state = "queued",
                                 !.attempts = IF @ < MaxRetries THEN @ + 1 ELSE @]
               ELSE [task EXCEPT !.state = "failed"]
    /\ UNCHANGED <<done, notices, tx, wire, seen>>

AckTask ==
    /\ task.state \in {"inserted", "skipped"}
    /\ task' = [task EXCEPT !.state = "acknowledged"]
    /\ UNCHANGED <<done, notices, tx, wire, seen>>

AckedEarly == "acknowledged"
\* The broker delivers again what was not acknowledged.
AfterCrash == "queued"

CrashWorker ==
    /\ task.state \in {"running", "inserted", "skipped"} /\ task.crashes < MaxCrashes
    /\ task' = [task EXCEPT !.state = AfterCrash, !.crashes = @ + 1]
    /\ UNCHANGED <<done, notices, tx, wire, seen>>

TaskStep == TakeTask \/ InsertTaskRow \/ FindNobody \/ FailTask \/ AckTask

Background == TaskStep \/ CrashWorker \/ DeleteUser

Foreground ==
    \/ \E w \in Workers :
          \/ \E c \in Plain : BeginPlain(w, c)
          \/ \E c \in Keyed : BeginKeyed(w, c)
          \/ \E c \in Detached : ChangeFirst(w, c)
          \/ CreateNotification(w) \/ NotifyOther(w) \/ CreateNotificationOnce(w)
          \/ NotifyAfterwards(w) \/ Commit(w) \/ RollBack(w)
    \/ \E c \in Changes : Deliver(c) \/ Lose(c) \/ MarkRead(c) \/ MarkUnread(c) \/ Cleanup(c)
    \/ MarkAllRead

Next == Foreground \/ Background

\* A worker is there to take the task, and runs what it took.
Fairness == WF_vars(TaskStep)

Spec == Init /\ [][Next]_vars /\ Fairness

-----------------------------------------------------------------------------
\* The rows of a change are exactly what its requests committed: a plain change
\* that is committed has one row for each user it concerns, deleted or not, and
\* no change that was rolled back has any, although the failure of an insert is
\* caught, between two users too.  A change notified after its commit may be left
\* without its notice, and has no second one (create_notification, _notify,
\* update_contract_proposal).
PlainNoticesAreAtomic ==
    \A c \in Changes :
        /\ Rows(c) + notices[c].others > 0 => c \in done
        /\ c \in Plain /\ c \in done => Rows(c) = 1 /\ notices[c].others = Others(c)
        /\ c \in Detached => Rows(c) <= 1

\* A deduplication key has at most one row, however often and however
\* concurrently its event is repeated (create_notification_once).
OncePerKey == \A c \in Keyed : Kept(c) <= 1

\* The client is never told of a notification that does not exist: an event,
\* on its way or received, is of a committed change.
EventsFollowCommits == wire \cup seen \subseteq done

\* An acknowledged task has inserted its notification, unless a user it names was
\* not found, and each crash explains at most one duplicate
\* (create_notification_async, acks_late).
TaskNoticesExplained ==
    /\ task.state = "acknowledged" => task.rows > 0 \/ ~task.known
    /\ task.rows <= 1 + task.crashes

\* The task ends, acknowledged or with its retries used up.
TaskEnds == <>(task.state \in {"acknowledged", "failed"})

\* Rows, events and the task's notification follow what was committed
\* (create_notification, create_notification_once, create_notification_async).
NoticesAreFaithful ==
    PlainNoticesAreAtomic /\ OncePerKey /\ EventsFollowCommits /\ TaskNoticesExplained

-----------------------------------------------------------------------------
(***************************************************************************)
(* Why they hold.                                                          *)
(***************************************************************************)
Busy(w) == tx[w] # Idle

TypeOK ==
    /\ done \subseteq Changes
    /\ notices \in [Changes -> [unread : Nat, read : Nat, deleted : Nat, others : Nat]]
    /\ tx \in [Workers -> {Idle} \cup
                  [on : Changes, row : {"pending", "inserted", "skipped", "broken"},
                   others : Nat]]
    /\ task \in [state : {"queued", "running", "inserted", "skipped", "acknowledged",
                          "failed"},
                 known : BOOLEAN, attempts : Nat, crashes : Nat, rows : Nat]

\* The transaction of a plain change is the only one, of a change that is not
\* committed, and does not go on without its row.
PlainIsAlone ==
    \A w \in Workers :
        Busy(w) /\ tx[w].on \in Plain =>
            /\ tx[w].on \notin done /\ tx[w].row # "skipped"
            /\ \A v \in Workers : Busy(v) /\ tx[v].on = tx[w].on => v = w

\* Who changed first is about to notify, once.
AfterwardsIsAlone ==
    \A w \in Workers :
        Busy(w) /\ tx[w].on \in Detached =>
            /\ tx[w].on \in done /\ tx[w].row = "pending" /\ Rows(tx[w].on) = 0
            /\ \A v \in Workers : Busy(v) /\ tx[v].on = tx[w].on => v = w

\* Who inserted a key has it alone until the commit.
InsertedIsAlone ==
    \A w \in Workers :
        Busy(w) /\ tx[w].on \in Keyed /\ tx[w].row = "inserted" =>
            /\ Kept(tx[w].on) = 0
            /\ \A v \in Workers :
                  Busy(v) /\ tx[v].on = tx[w].on /\ tx[v].row = "inserted" => v = w

\* A crash loses the acknowledgement of one row at most.
RowsExplained ==
    /\ task.state \in {"inserted", "acknowledged"} => task.rows <= 1 + task.crashes
    /\ task.state = "inserted" => task.rows > 0
    /\ task.state = "acknowledged" /\ task.known => task.rows > 0
    /\ task.state \in {"queued", "running", "skipped", "failed"} =>
          task.rows <= task.crashes
    /\ task.state = "skipped" => ~task.known

IInv ==
    /\ TypeOK
    /\ PlainIsAlone /\ AfterwardsIsAlone /\ InsertedIsAlone /\ RowsExplained
    /\ PlainNoticesAreAtomic /\ OncePerKey /\ EventsFollowCommits
=============================================================================
