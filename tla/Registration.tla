---------------------------- MODULE Registration ----------------------------
(***************************************************************************)
(* Registering with one email address, the codes that are mailed to it and *)
(* the counters in the cache (accounts/views.py, serializers.py,           *)
(* models.py, tasks.py).                                                   *)
(*                                                                         *)
(* An account is its user with wallet and profile: one transaction creates *)
(* them, or nothing when the code cannot be mailed.  The digits of a code  *)
(* are left out: codes are told apart by their rows.                       *)
(***************************************************************************)
EXTENDS Naturals, FiniteSets

CONSTANTS Applicants,   \* accounts that register with the address
          Codes,        \* codes that can be created
          Desks,        \* requests in flight at once
          Attempts,     \* RATE_LIMIT_ATTEMPTS
          MaxFailures   \* bound on the wrong passwords of a period

VARIABLES account,   \* each account: none, inactive or active
          code,      \* each code: whose it is, and whether it can be used
          served,    \* how many requests each code has served, up to two
          call,      \* each request in flight
          cooldown,  \* otp_resend_cooldown
          resent,    \* codes mailed again in the period of the cooldown
          attempts,  \* login_attempts
          failures,  \* wrong passwords in the period of login_attempts
          overlapped \* which of the separate reads and writes overlapped

rows == <<account, code, served>>
cache == <<cooldown, resent, attempts, failures>>
vars == <<rows, call, cache, overlapped>>

NoCode == [of |-> "none", state |-> "none"]
NoCall == [op |-> "none"]

TypeOK ==
    /\ account \in [Applicants -> {"none", "inactive", "active"}]
    /\ \A c \in Codes :
          /\ code[c].state \in {"none", "fresh", "expired", "used"}
          /\ code[c] # NoCode => code[c].of \in Applicants /\ account[code[c].of] # "none"
    /\ cooldown \in BOOLEAN /\ attempts \in 0 .. Attempts
    /\ overlapped \subseteq {"register", "resend", "login"} \cup Codes

Init ==
    /\ account = [a \in Applicants |-> "none"]
    /\ code = [c \in Codes |-> NoCode]
    /\ served = [c \in Codes |-> 0]
    /\ call = [w \in Desks |-> NoCall]
    /\ cooldown = FALSE /\ resent = 0 /\ attempts = 0 /\ failures = 0
    /\ overlapped = {}

Registered == {a \in Applicants : account[a] # "none"}
OthersIn(w, op) == \E v \in Desks \ {w} : call[v] # NoCall /\ call[v].op = op

Begin(w, c) ==
    /\ call[w] = NoCall
    /\ call' = [call EXCEPT ![w] = c]

\* The request ends; another of its kind that is still in flight has read what
\* this one wrote over.
EndWrite(w, op) ==
    /\ call' = [call EXCEPT ![w] = NoCall]
    /\ overlapped' = IF OthersIn(w, op) THEN overlapped \cup {op} ELSE overlapped

\* Refused, or failed; between a mailed code and its cooldown the process dies.
Abandon(w) ==
    /\ call[w] # NoCall
    /\ call' = [call EXCEPT ![w] = NoCall]
    /\ overlapped' = IF call[w].op = "resend" /\ call[w].sent
                     THEN overlapped \cup {"resend"} ELSE overlapped
    /\ UNCHANGED <<rows, cache>>

\* generate_otp.
Created(c, a) ==
    /\ code[c] = NoCode
    /\ code' = [code EXCEPT ![c] = [of |-> a, state |-> "fresh"]]

-----------------------------------------------------------------------------
(***************************************************************************)
(* Registration and verification                                           *)
(***************************************************************************)
AnyEmail == TRUE
\* Tested by the serializer; no constraint of the table repeats it.
EmailFree == Registered = {}

BeginRegister(w, a) ==
    /\ account[a] = "none" /\ EmailFree
    /\ \A v \in Desks : call[v] # NoCall => call[v] # [op |-> "register", account |-> a]
    /\ Begin(w, [op |-> "register", account |-> a])
    /\ UNCHANGED <<rows, cache, overlapped>>

\* A code that cannot be mailed rolls everything back: Abandon.
CommitRegister(w) ==
    /\ call[w] # NoCall /\ call[w].op = "register"
    /\ \E c \in Codes : Created(c, call[w].account)
    /\ account' = [account EXCEPT ![call[w].account] = "inactive"]
    /\ EndWrite(w, "register")
    /\ UNCHANGED <<served, cache>>

\* get() finds one row, or fails.
TheOnly(a, set) == set = {a}

AnyCode(c, a) == code[c].of = a
\* Unused, of this user and younger than ten minutes.
ValidCode(c, a) == code[c].of = a /\ code[c].state = "fresh"

BeginVerify(w, a, c) ==
    /\ TheOnly(a, {b \in Applicants : account[b] = "inactive"})
    /\ ValidCode(c, a)
    /\ Begin(w, [op |-> "verify", account |-> a, code |-> c])
    /\ UNCHANGED <<rows, cache, overlapped>>

\* The code is marked as used in the transaction that saves the user.
UseCode(w) ==
    LET c == call[w].code
    IN  /\ code' = [code EXCEPT ![c].state = "used"]
        /\ served' = [served EXCEPT ![c] = IF @ < 2 THEN @ + 1 ELSE @]
        /\ call' = [call EXCEPT ![w] = NoCall]
        /\ overlapped' = IF \E v \in Desks \ {w} : call[v] # NoCall
                                /\ call[v].op \in {"verify", "reset"} /\ call[v].code = c
                         THEN overlapped \cup {c} ELSE overlapped
        /\ UNCHANGED cache

CommitVerify(w) ==
    /\ call[w] # NoCall /\ call[w].op = "verify"
    /\ account' = [account EXCEPT ![call[w].account] = "active"]
    /\ UseCode(w)

\* ForgotPasswordSerializer, for the first active account of the address.
ForgotPassword(a) ==
    /\ account[a] = "active"
    /\ \E c \in Codes : Created(c, a)
    /\ UNCHANGED <<account, served, call, cache, overlapped>>

BeginReset(w, a, c) ==
    /\ TheOnly(a, {b \in Applicants : account[b] = "active"})
    /\ ValidCode(c, a)
    /\ Begin(w, [op |-> "reset", account |-> a, code |-> c])
    /\ UNCHANGED <<rows, cache, overlapped>>

\* The user row is saved whole, as it was fetched: active.
CommitReset(w) ==
    /\ call[w] # NoCall /\ call[w].op = "reset"
    /\ account' = [account EXCEPT ![call[w].account] = "active"]
    /\ UseCode(w)

\* Ten minutes pass; or the cleanup task marks a code that is days old.
ExpireCode(c) ==
    /\ code[c].state = "fresh"
    /\ code' = [code EXCEPT ![c].state = "expired"]
    /\ UNCHANGED <<account, served, call, cache, overlapped>>

CleanUpCode(c) ==
    /\ code[c].state = "expired"
    /\ code' = [code EXCEPT ![c].state = "used"]
    /\ UNCHANGED <<account, served, call, cache, overlapped>>

\* AdminUserActivateView, AdminUserDeactivateView.
Activate(a) ==
    /\ account[a] # "none"
    /\ account' = [account EXCEPT ![a] = "active"]
    /\ UNCHANGED <<code, served, call, cache, overlapped>>

Deactivate(a) ==
    /\ account[a] # "none"
    /\ account' = [account EXCEPT ![a] = "inactive"]
    /\ UNCHANGED <<code, served, call, cache, overlapped>>

-----------------------------------------------------------------------------
(***************************************************************************)
(* Resending a code                                                        *)
(***************************************************************************)
CooldownIgnored == TRUE
CooldownOver == ~cooldown

BeginResend(w, a) ==
    /\ TheOnly(a, Registered) /\ account[a] = "inactive"
    /\ CooldownOver
    /\ Begin(w, [op |-> "resend", account |-> a, sent |-> FALSE])
    /\ UNCHANGED <<rows, cache, overlapped>>

Resending(w, sent) == call[w] # NoCall /\ call[w].op = "resend" /\ call[w].sent = sent

\* The code is created and mailed before the cooldown is set.
SendCode(w) ==
    /\ Resending(w, FALSE)
    /\ \E c \in Codes : Created(c, call[w].account)
    /\ resent' = resent + 1
    /\ call' = [call EXCEPT ![w].sent = TRUE]
    /\ overlapped' = IF OthersIn(w, "resend") THEN overlapped \cup {"resend"} ELSE overlapped
    /\ UNCHANGED <<account, served, cooldown, attempts, failures>>

\* The code stays without a cooldown when it cannot be mailed.
FailToSend(w) ==
    /\ Resending(w, FALSE)
    /\ \E c \in Codes : Created(c, call[w].account)
    /\ call' = [call EXCEPT ![w] = NoCall]
    /\ UNCHANGED <<account, served, cache, overlapped>>

\* The daily counter is not modelled: the configured cache has no ttl(), so the
\* second code of a day fails after both, with the counter at one.
SetCooldown(w) ==
    /\ Resending(w, TRUE)
    /\ cooldown' = TRUE
    /\ EndWrite(w, "resend")
    /\ UNCHANGED <<rows, resent, attempts, failures>>

EndCooldown ==
    /\ cooldown
    /\ cooldown' = FALSE /\ resent' = 0
    /\ overlapped' = IF \E w \in Desks : call[w] # NoCall /\ call[w].op = "resend"
                     THEN overlapped ELSE overlapped \ {"resend"}
    /\ UNCHANGED <<rows, call, attempts, failures>>
-----------------------------------------------------------------------------
(***************************************************************************)
(* Login attempts                                                          *)
(***************************************************************************)
NoLimit(n) == TRUE
BelowLimit(n) == n < Attempts

BeginLogin(w) ==
    /\ BelowLimit(attempts)
    /\ Begin(w, [op |-> "login", attempts |-> attempts])
    /\ UNCHANGED <<rows, cache, overlapped>>

FailedOnce(n) == 1
AfterFailure(n) == n + 1

WrongPassword(w) ==
    /\ call[w] # NoCall /\ call[w].op = "login"
    /\ failures < MaxFailures
    /\ attempts' = AfterFailure(call[w].attempts)
    /\ failures' = failures + 1
    /\ EndWrite(w, "login")
    /\ UNCHANGED <<rows, cooldown, resent>>

\* The counter is deleted; of an inactive account it is left as it is: Abandon.
RightPassword(w) ==
    /\ call[w] # NoCall /\ call[w].op = "login"
    /\ \E a \in Applicants : account[a] = "active"
    /\ attempts' = 0 /\ failures' = 0
    /\ EndWrite(w, "login")
    /\ UNCHANGED <<rows, cooldown, resent>>

EndWindow ==
    /\ attempts > 0
    /\ attempts' = 0 /\ failures' = 0
    /\ overlapped' = IF \E w \in Desks : call[w] # NoCall /\ call[w].op = "login"
                     THEN overlapped \cup {"login"} ELSE overlapped \ {"login"}
    /\ UNCHANGED <<rows, call, cooldown, resent>>

-----------------------------------------------------------------------------
Next ==
    \/ \E w \in Desks :
          \/ \E a \in Applicants : BeginRegister(w, a) \/ BeginResend(w, a)
          \/ \E a \in Applicants, c \in Codes : BeginVerify(w, a, c) \/ BeginReset(w, a, c)
          \/ CommitRegister(w) \/ CommitVerify(w) \/ CommitReset(w)
          \/ SendCode(w) \/ FailToSend(w) \/ SetCooldown(w)
          \/ BeginLogin(w) \/ WrongPassword(w) \/ RightPassword(w)
          \/ Abandon(w)
    \/ \E a \in Applicants : ForgotPassword(a) \/ Activate(a) \/ Deactivate(a)
    \/ \E c \in Codes : ExpireCode(c) \/ CleanUpCode(c)
    \/ EndCooldown \/ EndWindow

Spec == Init /\ [][Next]_vars

-----------------------------------------------------------------------------
(***************************************************************************)
(* Properties                                                              *)
(***************************************************************************)

\* Two accounts have one address, and can then neither be verified nor have
\* their password reset by its owner, only when their registrations overlapped
\* (RegistrationSerializer.validate, get_valid_otp).
OneAccountPerEmail == Cardinality(Registered) <= 1 \/ "register" \in overlapped

\* A code serves one request, a verification or a password reset, unless the
\* requests overlapped (OTPVerificationSerializer.validate,
\* ResetPasswordConfirmSerializer.save).
CodeServesOnce == \A c \in Codes : served[c] <= 1 \/ c \in overlapped

\* At most one code is mailed again until a cooldown has passed, unless requests
\* overlapped or one stopped before it set the cooldown (ResendOTPView).
OneCodePerCooldown == resent <= 1 \/ "resend" \in overlapped

\* Every wrong password of the period is counted, and so no more than the limit
\* are tried, unless logins overlapped (LoginView).
FailuresAreCounted ==
    "login" \notin overlapped => failures = attempts /\ failures <= Attempts

\* What the separate tests and writes of an address, a code and the counters are
\* to ensure holds among requests that do not overlap (accounts/views.py,
\* accounts/serializers.py).
RulesHoldWithoutRaces ==
    OneAccountPerEmail /\ CodeServesOnce /\ OneCodePerCooldown /\ FailuresAreCounted

-----------------------------------------------------------------------------
(***************************************************************************)
(* Why they hold.                                                          *)
(***************************************************************************)
Calls ==
    [op : {"register"}, account : Applicants]
        \cup [op : {"resend"}, account : Applicants, sent : BOOLEAN]
        \cup [op : {"verify", "reset"}, account : Applicants, code : Codes]
        \cup [op : {"login"}, attempts : 0 .. Attempts - 1]

InFlight(w, ops) == call[w] # NoCall /\ call[w].op \in ops

\* Requests refer to accounts and codes that exist.
RowsExist ==
    \A w \in Desks :
        /\ InFlight(w, {"verify", "reset", "resend"}) => account[call[w].account] # "none"
        /\ InFlight(w, {"verify", "reset"}) => code[call[w].code] # NoCode

\* As long as nothing overlapped, what a request has read is still so.
EmailStillFree ==
    "register" \notin overlapped =>
        /\ \A w \in Desks : InFlight(w, {"register"}) => Registered = {}
        /\ \A a, b \in Registered : a = b

CodesStillUnused ==
    \A c \in Codes :
        /\ code[c].state \in {"none", "fresh"} => served[c] = 0
        /\ c \notin overlapped =>
              /\ \A w \in Desks :
                    InFlight(w, {"verify", "reset"}) /\ call[w].code = c => served[c] = 0
              /\ served[c] <= 1

MailIsOut == \E w \in Desks : InFlight(w, {"resend"}) /\ call[w].sent

\* Who may still mail has read the cooldown of before the mail that is out.
CooldownStillOver ==
    "resend" \notin overlapped =>
        /\ resent <= 1
        /\ ~cooldown \/ (\E w \in Desks : InFlight(w, {"resend"})) => resent = 0 \/ MailIsOut

CounterStillRead ==
    "login" \notin overlapped =>
        /\ failures = attempts
        /\ \A w \in Desks : InFlight(w, {"login"}) => call[w].attempts = attempts

IInv ==
    /\ TypeOK
    /\ code \in [Codes -> [of : Applicants \cup {"none"},
                           state : {"none", "fresh", "expired", "used"}]]
    /\ served \in [Codes -> 0 .. 2] /\ resent \in Nat /\ failures \in Nat
    /\ call \in [Desks -> Calls \cup {NoCall}]
    /\ RowsExist /\ EmailStillFree /\ CodesStillUnused
    /\ CooldownStillOver /\ CounterStillRead
=============================================================================
