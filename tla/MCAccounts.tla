----------------------------- MODULE MCAccounts -----------------------------
(***************************************************************************)
(* Accounts on small instances: an account that exists, written by its     *)
(* user and the staff (Profiles), or an address with which two accounts    *)
(* register (Registration).  A behaviour exercises one of the two, and     *)
(* what they share with all other components (MCPlatform) stands still.    *)
(***************************************************************************)
EXTENDS MCPlatform, TLC

CONSTANTS
    Clerks, MaxPasswords,                              \* of Profiles
    Applicants, Codes, Desks, Attempts, MaxFailures    \* of Registration

\* Requests that overlapped are told apart by the code they used, or their kind.
ASSUME CodesAssumption == Codes \cap {"register", "resend", "login"} = {}
ASSUME CountersAssumption == MaxPasswords \in Nat /\ Attempts \in Nat

VARIABLES
    role, user, profile, request, birthday, stale,
    account, code, served, call, cooldown, resent, attempts, failures, overlapped

P == INSTANCE Profiles
G == INSTANCE Registration

profileVars == <<role, user, profile, request, birthday, stale>>
registrationVars ==
    <<account, code, served, call, cooldown, resent, attempts, failures, overlapped>>
accountVars == <<profileVars, registrationVars>>

AccountsInit ==
    /\ Init /\ N!Init /\ task.known
    /\ P!Init /\ G!Init
    /\ part \in {"profile", "registration"}
    /\ part = "registration" => role = "client"

AccountsNext ==
    /\ \/ part = "profile" /\ P!Next /\ UNCHANGED registrationVars
       \/ part = "registration" /\ G!Next /\ UNCHANGED profileVars
    /\ UNCHANGED <<part, vars, noticeVars>>

AccountsSpec ==
    AccountsInit /\ [][AccountsNext]_<<part, vars, noticeVars, accountVars>>

\* Requests, codes and accounts are interchangeable.
AccountsSymmetry ==
    Permutations(Clerks) \cup Permutations(Desks) \cup Permutations(Codes)
        \cup Permutations(Applicants)

-----------------------------------------------------------------------------
\* Profiles: a profile is complete when its required fields are filled in and a
\* client is adult, unless a stale row was saved or the client has turned 18 since
\* (BaseProfile.save, ClientProfile.calculate_completion).
CompletenessIsCurrent == P!CompletenessIsCurrent
\* Profiles: decisions of an account change only by another of their kind, or by
\* a request that saves the whole row (AdminUserActivateView, AdminTechnicianApproveView).
DecisionsStand == P!DecisionsStand
\* The rows are well-typed; and in a registration, addresses, codes and counters
\* obey their rules among requests that do not overlap (IsTechnician,
\* RegistrationSerializer, ResendOTPView, LoginView).
RulesHoldWithoutRaces == P!TypeOK /\ G!TypeOK /\ G!RulesHoldWithoutRaces
=============================================================================
