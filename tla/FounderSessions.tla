-------------------------- MODULE FounderSessions --------------------------
(***************************************************************************)
(* auth.service.ts: invites, their redemption, sessions, sign-out, and the *)
(* verification of the bearer token of a request by jwt-auth.guard.ts.     *)
(*                                                                         *)
(* A redemption is one READ COMMITTED transaction that locks the row of    *)
(* the invite and then that of the founder.  A verification is a check of  *)
(* the token and two reads, with anything in between.  Time is a flag per  *)
(* invite and session that is raised once; the expiry inside the token is  *)
(* rounded to seconds, so it has a flag of its own.                        *)
(*                                                                         *)
(* Left out: tokens that were never issued, display names, companies.      *)
(* Nothing in the code writes REVOKED for an invite, and the EXPIRED that  *)
(* redeemInvite writes is rolled back by the error it then throws, so an   *)
(* invite is PENDING or REDEEMED.  A founder is disabled by an operator.   *)
(***************************************************************************)
EXTENDS Naturals, FiniteSets

CONSTANTS
  Invite,      \* invites an operator may issue
  Founder,     \* the people invited, by auth_subject
  Redemption,  \* attempts to redeem; each names the session it may create
  Request,     \* requests that carry a bearer token
  MaxFaults,   \* bound: redemptions that fail half way
  NoInvite, NoFounder, NoRedemption

ASSUME SessionConstants ==
  /\ MaxFaults \in Nat
  /\ NoInvite \notin Invite /\ NoFounder \notin Founder /\ NoRedemption \notin Redemption

VARIABLES
  invite,    \* founder_invites: status, addressee, expiry, redeemed_founder_id
  founder,   \* founders: status
  session,   \* founder_sessions: status, founder, expiry; the invite as history
  token,     \* external: access tokens in the hands of clients, and their expiry
  inviteLock, founderLock,  \* row locks of redemptions in flight
  redeem,    \* redemptions: step, invite
  request,   \* requests: step, session named by the token, what was read
  dead,      \* history: requests that arrived when their session had ended
  faults

vars == <<invite, founder, session, token, inviteLock, founderLock, redeem, request, dead, faults>>

InviteRow  == [status : {"NONE", "PENDING", "REDEEMED"}, to : Founder \cup {NoFounder},
               over : BOOLEAN, by : Founder \cup {NoFounder}]
SessionRow == [status : {"NONE", "ACTIVE", "REVOKED"}, founder : Founder \cup {NoFounder},
               over : BOOLEAN, from : Invite \cup {NoInvite}]
Attempt    == [step : {"new", "locking", "upserting", "committing", "done"},
               invite : Invite \cup {NoInvite}]
Bearer     == [step : {"new", "token", "session", "founder", "admitted", "denied"},
               sid : Redemption \cup {NoRedemption}]

TypeOK ==
  /\ invite \in [Invite -> InviteRow]
  /\ founder \in [Founder -> {"NONE", "ACTIVE", "DISABLED"}]
  /\ session \in [Redemption -> SessionRow]
  /\ token \in [Redemption -> {"NONE", "VALID", "EXPIRED"}]
  /\ inviteLock \in [Invite -> Redemption \cup {NoRedemption}]
  /\ founderLock \in [Founder -> Redemption \cup {NoRedemption}]
  /\ redeem \in [Redemption -> Attempt]
  /\ request \in [Request -> Bearer]
  /\ \A q \in Request : request[q].step = "new" <=> request[q].sid = NoRedemption
  /\ dead \subseteq Request
  /\ faults \in 0..MaxFaults

Init ==
  /\ invite = [i \in Invite |-> [status |-> "NONE", to |-> NoFounder, over |-> FALSE,
                                 by |-> NoFounder]]
  /\ founder = [f \in Founder |-> "NONE"]
  /\ session = [s \in Redemption |-> [status |-> "NONE", founder |-> NoFounder,
                                      over |-> FALSE, from |-> NoInvite]]
  /\ token = [s \in Redemption |-> "NONE"]
  /\ inviteLock = [i \in Invite |-> NoRedemption]
  /\ founderLock = [f \in Founder |-> NoRedemption]
  /\ redeem = [s \in Redemption |-> [step |-> "new", invite |-> NoInvite]]
  /\ request = [q \in Request |-> [step |-> "new", sid |-> NoRedemption]]
  /\ dead = {}
  /\ faults = 0
-----------------------------------------------------------------------------
(* Several invites may go to the same address.                             *)
IssueInvite(i, f) ==
  /\ invite[i].status = "NONE"
  /\ invite' = [invite EXCEPT ![i].status = "PENDING", ![i].to = f]
  /\ UNCHANGED <<founder, session, token, inviteLock, founderLock, redeem, request, dead, faults>>

(* Only a PENDING invite is ever asked for its time.                       *)
InviteExpires(i) ==
  /\ invite[i].status = "PENDING" /\ ~invite[i].over
  /\ invite' = [invite EXCEPT ![i].over = TRUE]
  /\ UNCHANGED <<founder, session, token, inviteLock, founderLock, redeem, request, dead, faults>>

RedeemInvite(s, i) ==
  /\ redeem[s].step = "new"
  /\ invite[i].status # "NONE"
  /\ redeem' = [redeem EXCEPT ![s] = [step |-> "locking", invite |-> i]]
  /\ UNCHANGED <<invite, founder, session, token, inviteLock, founderLock, request, dead, faults>>

(* Mutant of InviteFree: the invite is read without FOR UPDATE.            *)
InviteUnlocked(i) == TRUE

InviteFree(i) == inviteLock[i] = NoRedemption

EndRedemption(s) == redeem' = [redeem EXCEPT ![s].step = "done"]

(* SELECT ... FOR UPDATE waits, then sees the committed row; an invite     *)
(* that is spent or past its time ends the transaction with 401.           *)
LockInvite(s) ==
  LET i == redeem[s].invite
  IN  /\ redeem[s].step = "locking"
      /\ InviteFree(i)
      /\ IF invite[i].status = "PENDING" /\ ~invite[i].over
           THEN /\ inviteLock' = [inviteLock EXCEPT ![i] = s]
                /\ redeem' = [redeem EXCEPT ![s].step = "upserting"]
           ELSE EndRedemption(s) /\ UNCHANGED inviteLock
      /\ UNCHANGED <<invite, founder, session, token, founderLock, request, dead, faults>>

Unlock(s) ==
  /\ inviteLock' = [i \in Invite |-> IF inviteLock[i] = s THEN NoRedemption ELSE inviteLock[i]]
  /\ founderLock' = [f \in Founder |-> IF founderLock[f] = s THEN NoRedemption ELSE founderLock[f]]

(* INSERT ... ON CONFLICT DO UPDATE locks the founder; one that is not     *)
(* ACTIVE ends the transaction, and the invite stays PENDING.              *)
UpsertFounder(s) ==
  LET f == invite[redeem[s].invite].to
  IN  /\ redeem[s].step = "upserting"
      /\ founderLock[f] = NoRedemption
      /\ IF founder[f] = "DISABLED"
           THEN Unlock(s) /\ EndRedemption(s)
           ELSE /\ founderLock' = [founderLock EXCEPT ![f] = s]
                /\ redeem' = [redeem EXCEPT ![s].step = "committing"]
                /\ UNCHANGED inviteLock
      /\ UNCHANGED <<invite, founder, session, token, request, dead, faults>>

(* Founder, session and spent invite become visible together.              *)
Persist(s) ==
  LET i == redeem[s].invite
      f == invite[i].to
  IN  /\ redeem[s].step = "committing"
      /\ founder' = [founder EXCEPT ![f] = "ACTIVE"]
      /\ session' = [session EXCEPT ![s] = [status |-> "ACTIVE", founder |-> f,
                                            over |-> FALSE, from |-> i]]
      /\ invite' = [invite EXCEPT ![i].status = "REDEEMED", ![i].by = f]
      /\ Unlock(s)
      /\ EndRedemption(s)

CommitRedemption(s) ==
  /\ Persist(s)
  /\ token' = [token EXCEPT ![s] = "VALID"]
  /\ UNCHANGED <<request, dead, faults>>

(* The commit takes effect and the answer is lost: nobody has the token.   *)
CommitUnanswered(s) ==
  /\ Persist(s)
  /\ faults < MaxFaults
  /\ faults' = faults + 1
  /\ UNCHANGED <<token, request, dead>>

FailRedemption(s) ==
  /\ redeem[s].step \in {"locking", "upserting", "committing"}
  /\ faults < MaxFaults
  /\ faults' = faults + 1
  /\ Unlock(s)
  /\ EndRedemption(s)
  /\ UNCHANGED <<invite, founder, session, token, request, dead>>
-----------------------------------------------------------------------------
(* signOut, by a request that was admitted with this session.              *)
SignOut(q) ==
  LET s == request[q].sid
  IN  /\ request[q].step = "admitted"
      /\ session[s].status = "ACTIVE"
      /\ session' = [session EXCEPT ![s].status = "REVOKED"]
      /\ UNCHANGED <<invite, founder, token, inviteLock, founderLock, redeem, request, dead, faults>>

SessionExpires(s) ==
  /\ session[s].status # "NONE" /\ ~session[s].over
  /\ session' = [session EXCEPT ![s].over = TRUE]
  /\ UNCHANGED <<invite, founder, token, inviteLock, founderLock, redeem, request, dead, faults>>

TokenExpires(s) ==
  /\ token[s] = "VALID"
  /\ token' = [token EXCEPT ![s] = "EXPIRED"]
  /\ UNCHANGED <<invite, founder, session, inviteLock, founderLock, redeem, request, dead, faults>>

DisableFounder(f) ==
  /\ founder[f] = "ACTIVE"
  /\ founderLock[f] = NoRedemption
  /\ founder' = [founder EXCEPT ![f] = "DISABLED"]
  /\ UNCHANGED <<invite, session, token, inviteLock, founderLock, redeem, request, dead, faults>>
-----------------------------------------------------------------------------
Live(s) ==
  /\ session[s].status = "ACTIVE" /\ ~session[s].over
  /\ founder[session[s].founder] = "ACTIVE"

(* The guard hands the token of a request to verifyAccessToken.            *)
Arrive(q, s) ==
  /\ request[q].step = "new"
  /\ token[s] # "NONE"
  /\ request' = [request EXCEPT ![q] = [step |-> "token", sid |-> s]]
  /\ dead' = IF Live(s) THEN dead ELSE dead \cup {q}
  /\ UNCHANGED <<invite, founder, session, token, inviteLock, founderLock, redeem, faults>>

(* One check of verifyAccessToken: the next one, or the denial.            *)
Check(q, step, holds, next) ==
  /\ request[q].step = step
  /\ request' = [request EXCEPT ![q].step = IF holds THEN next ELSE "denied"]
  /\ UNCHANGED <<invite, founder, session, token, inviteLock, founderLock, redeem, dead, faults>>

VerifyToken(q) == Check(q, "token", token[request[q].sid] = "VALID", "session")

(* Mutant of SessionActive: the token alone is trusted.                    *)
TokenIsEnough(s) == TRUE

SessionActive(s) == session[s].status = "ACTIVE" /\ ~session[s].over

ReadSession(q) == Check(q, "session", SessionActive(request[q].sid), "founder")

(* The founder is read afresh; the session is checked a second time with   *)
(* the status read before and the clock of now.                            *)
ReadFounder(q) ==
  LET s == request[q].sid
  IN  Check(q, "founder", founder[session[s].founder] = "ACTIVE" /\ ~session[s].over, "admitted")
-----------------------------------------------------------------------------
RedemptionStep(s) == LockInvite(s) \/ UpsertFounder(s) \/ CommitRedemption(s)

Next ==
  \/ \E i \in Invite : InviteExpires(i) \/ \E f \in Founder : IssueInvite(i, f)
  \/ \E s \in Redemption :
       \/ RedemptionStep(s) \/ CommitUnanswered(s) \/ FailRedemption(s)
       \/ SessionExpires(s) \/ TokenExpires(s)
       \/ \E i \in Invite : RedeemInvite(s, i)
       \/ \E q \in Request : Arrive(q, s)
  \/ \E q \in Request : SignOut(q) \/ VerifyToken(q) \/ ReadSession(q) \/ ReadFounder(q)
  \/ \E f \in Founder : DisableFounder(f)

Spec == Init /\ [][Next]_vars
-----------------------------------------------------------------------------
Created == {s \in Redemption : session[s].status # "NONE"}

(* However many clients redeem an invite at once, and whatever fails half  *)
(* way, an invite gives at most one session, it gives it to its addressee, *)
(* and it is spent exactly when it did; and the variables have their types.*)
OneSessionPerInvite ==
  /\ TypeOK
  /\ \A s1, s2 \in Created : session[s1].from = session[s2].from => s1 = s2
  /\ \A s \in Created : session[s].founder = invite[session[s].from].to
  /\ \A i \in Invite : invite[i].status = "REDEEMED" <=> \E s \in Created : session[s].from = i

(* A request that arrives after its session was signed out or expired, or  *)
(* after its founder was disabled, is not admitted, although the token is  *)
(* still valid and the verification reads in two steps.                    *)
EndedIsDenied == \A q \in dead : request[q].step # "admitted"
=============================================================================
