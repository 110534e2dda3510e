----------------------------- MODULE MCPlatform -----------------------------
(***************************************************************************)
(* What all components stand on: the row locks of the transactions on one  *)
(* contract (RowLocks), notifications, and the background task that makes  *)
(* them (Notifications).  They share no state: a behaviour exercises one.  *)
(***************************************************************************)
EXTENDS RowLocks

CONSTANTS
    Senders, Plain, Shared, Detached, Keyed, MaxRetries, MaxCrashes, MaxDeleted    \* of Notifications

\* What happens once, with or before its notice, and what may be repeated are
\* different changes.
ASSUME ChangesAssumption ==
    Plain \cap Keyed = {} /\ Plain \cap Detached = {} /\ Detached \cap Keyed = {}

VARIABLES
    part,      \* what is exercised
    done, notices, tx, wire, seen, task

N == INSTANCE Notifications WITH Workers <- Senders

noticeVars == <<done, notices, tx, wire, seen, task>>

PlatformInit ==
    /\ part \in {"locks", "notices", "task"}
    /\ Init /\ N!Init

PlatformNext ==
    \/ part = "locks" /\ Next /\ UNCHANGED <<part, noticeVars>>
    \/ part = "notices" /\ N!Foreground /\ UNCHANGED <<part, vars>>
    \/ part = "task" /\ N!Background /\ UNCHANGED <<part, vars>>

PlatformSpec ==
    /\ PlatformInit /\ [][PlatformNext]_<<part, vars, noticeVars>>
    /\ Fairness
    /\ WF_noticeVars(part = "task" /\ N!TaskStep)

-----------------------------------------------------------------------------
\* Notifications: rows, events and the task's notification follow what was
\* committed (create_notification, create_notification_async).
NoticesAreFaithful == N!NoticesAreFaithful
\* Requests end once no more come in, and the task of a notification ends
\* (resolve_dispute, confirm_sandbox_payment, create_notification_async).
WorkEnds == RequestsEnd /\ (part = "task" => N!TaskEnds)
=============================================================================
