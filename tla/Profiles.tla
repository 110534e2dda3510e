------------------------------ MODULE Profiles ------------------------------
(***************************************************************************)
(* The row of one user and the row of that user's profile, which the user  *)
(* and the staff write (accounts/views.py, client_views.py,                *)
(* technician_views.py, admin.py, dashboard/views.py).  An endpoint        *)
(* fetches rows and saves them later: most save every column of what they  *)
(* hold, some only the columns they decide.                                *)
(*                                                                         *)
(* The fields that a complete profile requires are abstracted to whether   *)
(* all of them are filled in; for a client, who is to be adult, the birth  *)
(* date among them is an adult's or that of one who turns 18 in the course *)
(* of time, and a child's counts as missing.  The change forms of Django's *)
(* admin site are not modelled, its list actions are.                      *)
(***************************************************************************)
EXTENDS Naturals

CONSTANTS Clerks,       \* requests in flight at once
          MaxPasswords  \* bound on the password resets

VARIABLES role,     \* client or technician
          user,     \* the columns of the user row
          profile,  \* the columns of the profile row
          request,  \* each request in flight and the rows it holds
          birthday, \* the day a client turns 18: ahead, past, or past and the
                    \* completion computed since
          stale     \* a save wrote over a newer row, or changed required
                    \* fields without saving the profile

vars == <<role, user, profile, request, birthday, stale>>

Fields == {"missing", "turning", "adult"}
Users == [active : BOOLEAN, password : 0 .. MaxPasswords, filled : Fields]
Profile == [approved : BOOLEAN, available : BOOLEAN, filled : BOOLEAN,
            complete : BOOLEAN]

NoUser == [active |-> FALSE, password |-> 0, filled |-> "missing"]
NoProfile == [approved |-> FALSE, available |-> FALSE, filled |-> FALSE,
              complete |-> FALSE]

Own == {"edit_me", "edit_client", "edit_profile"}
OfUser == {"edit_me", "edit_client", "edit_by_staff", "reset_password", "verify",
           "activate", "deactivate"}
OfProfile == {"edit_profile", "recalculate",
              "approve", "reject", "mark_approved", "mark_rejected", "mark_available"}

Nothing == [op |-> "none"]
Requests == [op : OfUser \cup OfProfile, step : {"fetched", "loaded", "saved"},
             user : Users, profile : Profile]

TypeOK ==
    /\ role \in {"client", "technician"} /\ stale \in BOOLEAN
    /\ birthday \in {"ahead", "past", "counted"}
    /\ user \in Users /\ profile \in Profile
    /\ role = "client" => ~profile.approved /\ profile.available
    /\ \A w \in Clerks : request[w] \in Requests \cup {Nothing}

Init ==
    /\ role \in {"client", "technician"}
    /\ user = NoUser
    /\ profile = [NoProfile EXCEPT !.available = TRUE]
    /\ request = [w \in Clerks |-> Nothing]
    /\ birthday = "ahead" /\ stale = FALSE

Adult(u) == u.filled = "adult" \/ (u.filled = "turning" /\ birthday # "ahead")

\* A client's profile has no required fields of its own, but an age.
Completion(u, p) ==
    IF role = "client" THEN Adult(u) ELSE u.filled # "missing" /\ p.filled

\* The row after a save of these columns of what is held.
Saved(row, held, columns) ==
    [c \in DOMAIN row |-> IF c \in columns THEN held[c] ELSE row[c]]

-----------------------------------------------------------------------------
(***************************************************************************)
(* Fetching                                                                *)
(***************************************************************************)
AnyRole(op) == TRUE
\* IsClient, IsTechnician; only technicians have approval and availability.
ForRole(op) ==
    CASE op = "edit_client" -> role = "client"
      [] op \in OfProfile \ {"recalculate"} -> role = "technician"
      [] OTHER -> TRUE

\* A token of an inactive user is refused; a code is looked up together with
\* the user's status.
ForStatus(op) ==
    /\ op \in Own \cup {"reset_password"} => user.active
    /\ op = "verify" => ~user.active

Fetch(w, op) ==
    /\ request[w] = Nothing
    /\ ForRole(op) /\ ForStatus(op)
    /\ request' = [request EXCEPT ![w] =
          [op |-> op, step |-> "fetched",
           user |-> IF op \in OfUser THEN user ELSE NoUser,
           profile |-> IF op \in OfProfile \cup {"edit_client"} THEN profile ELSE NoProfile]]
    /\ UNCHANGED <<role, user, profile, birthday, stale>>

\* These decide columns of the profile without reading the user.
Blind == {"reject", "mark_approved", "mark_rejected", "mark_available"}

\* profile.user is read when the completion or what is missing is computed; the
\* profile of request.user after the user was saved.
Load(w) ==
    /\ \/ /\ request[w] # Nothing /\ request[w].step = "fetched"
          /\ request[w].op \in OfProfile \ Blind
          /\ request' = [request EXCEPT ![w].user = user, ![w].step = "loaded"]
       \/ /\ request[w] # Nothing /\ request[w].step = "saved"
          /\ request[w].op = "edit_me"
          /\ request' = [request EXCEPT ![w].profile = profile, ![w].step = "loaded"]
    /\ UNCHANGED <<role, user, profile, birthday, stale>>

-----------------------------------------------------------------------------
(***************************************************************************)
(* Saving                                                                  *)
(***************************************************************************)
\* Nothing depends on the age of a technician.
FieldsOfRole == {f \in Fields : f = "turning" => role = "client"}

\* What a request sets in the user row it holds.
Edits(op, u) ==
    CASE op \in {"edit_me", "edit_client"} -> {[u EXCEPT !.filled = f] : f \in FieldsOfRole}
      [] op = "edit_by_staff" -> {held \in Users : /\ held.password = u.password
                                                     /\ held.filled \in FieldsOfRole}
      [] op = "reset_password" -> {[u EXCEPT !.password = user.password + 1]}
      [] op \in {"verify", "activate"} -> {[u EXCEPT !.active = TRUE]}
      [] op = "deactivate" -> {[u EXCEPT !.active = FALSE]}

AllUserColumns(op) == DOMAIN user
UserColumns(op) ==
    IF op \in {"activate", "deactivate"} THEN {"active"} ELSE DOMAIN user

NoneSaves == {}
\* These save the profile after the user, to recompute its completion.
SaveProfileToo == {"edit_me", "edit_client"}

SaveUser(w) ==
    /\ request[w] # Nothing /\ request[w].step = "fetched"
    /\ request[w].op \in OfUser
    /\ request[w].op = "reset_password" => user.password < MaxPasswords
    /\ LET op == request[w].op
       IN  \E held \in Edits(op, request[w].user) :
              /\ user' = Saved(user, held, UserColumns(op))
              /\ request' = [request EXCEPT ![w] =
                    IF op \in SaveProfileToo
                    THEN [@ EXCEPT !.user = [NoUser EXCEPT !.filled = held.filled],
                                   !.step = "saved"]
                    ELSE Nothing]
              /\ stale' = (\/ stale
                           \/ UserColumns(op) # {"active"}
                                /\ request[w].user.filled # user.filled
                           \/ op = "edit_by_staff" /\ user'.filled # user.filled)
    /\ UNCHANGED <<role, profile, birthday>>

\* _technician_approval_missing_requirements.
NothingMissing(r) == r.user.active /\ r.user.filled # "missing" /\ r.profile.filled

\* What a request sets in the profile row it holds; edit_profile stands for the
\* technician's profile, skills, portfolio and availability.
ProfileEdits(op, p) ==
    CASE op = "edit_profile" -> {held \in Profile : held.approved = p.approved
                                                     /\ held.complete = p.complete}
      [] op \in {"approve", "mark_approved"} -> {[p EXCEPT !.approved = TRUE]}
      [] op = "mark_rejected" -> {[p EXCEPT !.approved = FALSE]}
      [] op = "reject" -> {[p EXCEPT !.approved = FALSE, !.available = FALSE]}
      [] op = "mark_available" -> {[p EXCEPT !.available = b] : b \in BOOLEAN}
      [] OTHER -> {p}

ProfileColumns(op) ==
    CASE op \in {"approve", "mark_approved", "mark_rejected"} -> {"approved"}
      [] op = "reject" -> {"approved", "available"}
      [] op = "mark_available" -> {"available"}
      [] OTHER -> DOMAIN profile

\* BaseProfile.save computes the completion from the rows it holds.
SaveProfile(w) ==
    /\ request[w] # Nothing
    /\ \/ request[w].step = "loaded"
       \/ request[w].step = "saved" /\ request[w].op = "edit_client"
       \/ request[w].step = "fetched" /\ request[w].op \in Blind
    /\ request[w].op = "approve" => NothingMissing(request[w])
    /\ LET r == request[w]
           Full == ProfileColumns(r.op) = DOMAIN profile
       IN  \E p \in ProfileEdits(r.op, r.profile) :
              /\ profile' = Saved(profile, [p EXCEPT !.complete = Completion(r.user, p)],
                                  ProfileColumns(r.op))
              /\ stale' = IF Full THEN \/ r.user.filled # user.filled
                                       \/ r.profile.filled # profile.filled
                          ELSE stale
              /\ birthday' = IF Full /\ birthday = "past" THEN "counted" ELSE birthday
    /\ request' = [request EXCEPT ![w] = Nothing]
    /\ UNCHANGED <<role, user>>

\* Invalid data, something missing, a failure before the first save or between
\* the two saves of a request.
Abandon(w) ==
    /\ request[w] # Nothing
    /\ request' = [request EXCEPT ![w] = Nothing]
    /\ stale' = (\/ stale
                 \/ request[w].op \in SaveProfileToo /\ request[w].step # "fetched")
    /\ UNCHANGED <<role, user, profile, birthday>>

\* The age is computed from today's date: nothing is saved.
TurnEighteen ==
    /\ birthday = "ahead" /\ role = "client"
    /\ birthday' = "past"
    /\ UNCHANGED <<role, user, profile, request, stale>>

Next ==
    \/ \E w \in Clerks :
          \/ \E op \in OfUser \cup OfProfile : Fetch(w, op)
          \/ Load(w) \/ SaveUser(w) \/ SaveProfile(w) \/ Abandon(w)
    \/ TurnEighteen

Spec == Init /\ [][Next]_vars

-----------------------------------------------------------------------------
(***************************************************************************)
(* Properties                                                              *)
(***************************************************************************)
Finishes(w) == request'[w] # request[w]

Restores(w, ops, old, new) ==
    Finishes(w) /\ request[w] # Nothing /\ request[w].op \in ops /\ old = new

PasswordStands ==
    user'.password # user.password =>
        \E w \in Clerks :
            \/ Finishes(w) /\ request[w].op = "reset_password"
            \/ Restores(w, {"edit_me", "edit_client", "edit_by_staff", "verify"},
                        request[w].user.password, user'.password)

StatusStands ==
    user'.active # user.active =>
        \E w \in Clerks :
            \/ /\ Finishes(w)
               /\ request[w].op \in {"activate", "deactivate", "verify", "edit_by_staff"}
            \/ Restores(w, {"edit_me", "edit_client", "reset_password"},
                        request[w].user.active, user'.active)

ApprovalStands ==
    profile'.approved # profile.approved =>
        \E w \in Clerks :
            \/ /\ Finishes(w)
               /\ request[w].op \in {"approve", "reject", "mark_approved", "mark_rejected"}
            \/ Restores(w, {"edit_me", "edit_profile", "recalculate"},
                        request[w].profile.approved, profile'.approved)

\* What was decided last of an account stays decided: a reset password, an
\* activation or deactivation, an approval or rejection changes only by another
\* decision of its kind, or goes back to what a request that saves the whole row
\* had fetched (CurrentUserView.patch, AdminUserActivateView, AdminTechnicianApproveView).
DecisionsStand == [][PasswordStands /\ StatusStands /\ ApprovalStands]_vars

\* Is the profile still to be saved by a request that has saved its user?
Between == \E w \in Clerks : request[w] # Nothing /\ request[w].step # "fetched"
                                /\ request[w].op \in SaveProfileToo

\* is_complete says whether the required fields of user and profile are filled
\* in and a client is adult, except between the two saves of a request, after one
\* stopped there, after a stale row was saved over a newer one, and after the staff
\* edited the user, which saves no profile.  A client who has turned 18 since the
\* last save counts as incomplete until the next one (BaseProfile.save,
\* ClientProfile.calculate_completion, AdminUserDetailUpdateView.patch).
CompletenessIsCurrent ==
    ~stale /\ ~Between =>
        \/ profile.complete = Completion(user, profile)
        \/ role = "client" /\ user.filled = "turning" /\ birthday = "past" /\ ~profile.complete

-----------------------------------------------------------------------------
(***************************************************************************)
(* Why they hold.                                                          *)
(***************************************************************************)
\* Requests are made by who may make them and save a profile only if they are to;
\* what a client's request saves is the profile of a client.
Fits(r) ==
    /\ r.op \in OfUser /\ r.step # "fetched" => r.op \in SaveProfileToo
    /\ r.op = "edit_client" => role = "client"
    /\ role = "client" =>
          /\ r.op \notin OfProfile \ {"recalculate"}
          /\ r.op \in {"recalculate", "edit_client"} \/ r.step = "loaded" =>
                ~r.profile.approved /\ r.profile.available

RequestsFit == \A w \in Clerks : request[w] # Nothing => Fits(request[w])

IInv ==
    /\ TypeOK /\ request \in [Clerks -> Requests \cup {Nothing}]
    /\ RequestsFit /\ CompletenessIsCurrent
=============================================================================
