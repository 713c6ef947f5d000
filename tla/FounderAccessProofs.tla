------------------------- MODULE FounderAccessProofs -------------------------
(***************************************************************************)
(* What the founder can get at, and how: proofs, for any invites,          *)
(* founders, redemptions and requests, of the safety properties of         *)
(* FounderSessions from the inductive invariant IInv; and, for any objects *)
(* and callers, of those of ObjectRecords from ObjectIInv.                 *)
(***************************************************************************)
EXTENDS FounderSessions, ObjectRecords, TLAPS

(* A redemption on its way has an invite that was issued to somebody.      *)
InvitesNamed ==
  /\ \A s \in Redemption : redeem[s].step # "new" =>
       redeem[s].invite \in Invite /\ invite[redeem[s].invite].status # "NONE"
  /\ \A i \in Invite : invite[i].status # "NONE" => invite[i].to \in Founder

(* From its check to its commit a redemption holds the row lock of an      *)
(* invite that stays PENDING, and then that of a founder who cannot be     *)
(* disabled meanwhile.                                                     *)
LocksHeld ==
  \A s \in Redemption :
    /\ redeem[s].step \in {"upserting", "committing"} =>
         /\ inviteLock[redeem[s].invite] = s
         /\ invite[redeem[s].invite].status = "PENDING"
    /\ redeem[s].step = "committing" =>
         /\ founderLock[invite[redeem[s].invite].to] = s
         /\ founder[invite[redeem[s].invite].to] # "DISABLED"

(* A session exists only after its redemption, for a founder who exists,   *)
(* and before any token or request that names it.                          *)
SessionsRooted ==
  /\ \A s \in Created : /\ redeem[s].step = "done"
                        /\ session[s].from \in Invite
                        /\ session[s].founder \in Founder
                        /\ founder[session[s].founder] # "NONE"
  /\ \A s \in Redemption : token[s] # "NONE" => s \in Created
  /\ \A q \in Request : request[q].step # "new" => request[q].sid \in Created

(* A session that has ended does not come back.  The second read of a dead *)
(* request is the one that finds out about a disabled founder.             *)
DeadStayDead ==
  \A q \in dead :
    /\ request[q].step \notin {"new", "admitted"}
    /\ ~Live(request[q].sid)
    /\ request[q].step = "founder" =>
         \/ session[request[q].sid].over
         \/ founder[session[request[q].sid].founder] = "DISABLED"

IInv == OneSessionPerInvite /\ InvitesNamed /\ LocksHeld /\ SessionsRooted /\ DeadStayDead
-----------------------------------------------------------------------------
(* Every initial state satisfies the invariant.                            *)
LEMMA InitIInv == Init => IInv
  <1> SUFFICES ASSUME Init PROVE IInv
    OBVIOUS
  <1> USE SessionConstants DEF Init
  <1>1. TypeOK
    BY DEF TypeOK, InviteRow, SessionRow, Attempt, Bearer
  <1>2. Created = {}
    BY DEF Created
  <1>3. OneSessionPerInvite
    BY <1>1, <1>2 DEF OneSessionPerInvite
  <1>4. InvitesNamed /\ LocksHeld
    BY DEF InvitesNamed, LocksHeld
  <1>5. SessionsRooted /\ DeadStayDead
    BY <1>2 DEF SessionsRooted, DeadStayDead
  <1> QED BY <1>3, <1>4, <1>5 DEF IInv

(* Invites issued or expired.                                              *)
LEMMA InviteRowStep ==
  ASSUME invite \in [Invite -> InviteRow], NEW i \in Invite,
         InviteExpires(i) \/ \E f \in Founder : IssueInvite(i, f)
  PROVE  /\ invite' \in [Invite -> InviteRow]
         /\ \A j \in Invite :
              /\ invite'[j].status = "REDEEMED" <=> invite[j].status = "REDEEMED"
              /\ invite[j].status # "NONE" =>
                   invite'[j].status = invite[j].status /\ invite'[j].to = invite[j].to
              /\ invite'[j].status # "NONE" =>
                   invite[j].status # "NONE" \/ invite'[j].to \in Founder
         /\ UNCHANGED <<founder, session, token, inviteLock, founderLock, redeem, request, dead, faults>>
  <1>1. CASE InviteExpires(i)
    BY <1>1 DEF InviteExpires, InviteRow
  <1>2. ASSUME NEW f \in Founder, IssueInvite(i, f)
        PROVE  /\ invite' \in [Invite -> InviteRow]
               /\ invite[i].status = "NONE" /\ invite'[i].status = "PENDING" /\ invite'[i].to = f
               /\ \A j \in Invite : j # i => invite'[j] = invite[j]
    BY <1>2 DEF IssueInvite, InviteRow
  <1> QED BY <1>1, <1>2 DEF IssueInvite

(* issueInvite and the expiry of an invite touch no redemption on its way. *)
LEMMA InviteIInv ==
  ASSUME IInv, NEW i \in Invite, InviteExpires(i) \/ \E f \in Founder : IssueInvite(i, f)
  PROVE  IInv'
  <1>0. TypeOK
    BY DEF IInv, OneSessionPerInvite
  <1>1. /\ invite' \in [Invite -> InviteRow]
        /\ \A j \in Invite :
             /\ invite'[j].status = "REDEEMED" <=> invite[j].status = "REDEEMED"
             /\ invite[j].status # "NONE" =>
                  invite'[j].status = invite[j].status /\ invite'[j].to = invite[j].to
             /\ invite'[j].status # "NONE" =>
                  invite[j].status # "NONE" \/ invite'[j].to \in Founder
        /\ UNCHANGED <<founder, session, token, inviteLock, founderLock, redeem, request, dead, faults>>
    BY <1>0, InviteRowStep DEF TypeOK
  <1>2. TypeOK'
    BY <1>0, <1>1 DEF TypeOK
  <1>3. Created' = Created
    BY <1>1 DEF Created
  <1>4. OneSessionPerInvite'
    BY <1>0, <1>1, <1>2, <1>3 DEF IInv, OneSessionPerInvite, SessionsRooted
  <1>5. InvitesNamed'
    BY <1>1 DEF IInv, InvitesNamed
  <1>6. LocksHeld'
    BY <1>1 DEF IInv, InvitesNamed, LocksHeld
  <1>7. SessionsRooted' /\ DeadStayDead'
    BY <1>1, <1>3 DEF IInv, SessionsRooted, DeadStayDead, Live
  <1> QED BY <1>4, <1>5, <1>6, <1>7 DEF IInv
-----------------------------------------------------------------------------
(* A redemption moves on: only its own step changes.                       *)
LEMMA RedeemStep ==
  ASSUME redeem \in [Redemption -> Attempt], NEW s \in Redemption,
         NEW x \in {"upserting", "committing", "done"},
         redeem' = [redeem EXCEPT ![s].step = x]
  PROVE  /\ redeem' \in [Redemption -> Attempt]
         /\ redeem'[s].step = x /\ redeem'[s].invite = redeem[s].invite
         /\ \A r \in Redemption : r # s => redeem'[r] = redeem[r]
  BY DEF Attempt

(* The end of a transaction frees its own locks and no others.             *)
LEMMA UnlockRows ==
  ASSUME TypeOK, NEW s \in Redemption, Unlock(s)
  PROVE  /\ inviteLock' \in [Invite -> Redemption \cup {NoRedemption}]
         /\ founderLock' \in [Founder -> Redemption \cup {NoRedemption}]
         /\ \A i \in Invite : inviteLock[i] # s => inviteLock'[i] = inviteLock[i]
         /\ \A f \in Founder : founderLock[f] # s => founderLock'[f] = founderLock[f]
  BY DEF TypeOK, Unlock

(* redeemInvite locks a PENDING invite, or refuses.                        *)
LEMMA RedeemInviteIInv ==
  ASSUME IInv, NEW s \in Redemption, NEW i \in Invite, RedeemInvite(s, i)
  PROVE  IInv'
  <1>0. TypeOK /\ redeem[s].step = "new" /\ invite[i].status # "NONE"
    BY DEF IInv, OneSessionPerInvite, RedeemInvite
  <1>1. /\ redeem' \in [Redemption -> Attempt]
        /\ redeem'[s].step = "locking" /\ redeem'[s].invite = i
        /\ \A r \in Redemption : r # s => redeem'[r] = redeem[r]
        /\ UNCHANGED <<invite, founder, session, token, inviteLock, founderLock, request, dead, faults>>
    BY <1>0 DEF TypeOK, RedeemInvite, Attempt
  <1>2. Created' = Created /\ s \notin Created
    BY <1>0, <1>1 DEF IInv, SessionsRooted, Created
  <1>3. TypeOK'
    BY <1>0, <1>1 DEF TypeOK
  <1>4. OneSessionPerInvite'
    BY <1>1, <1>2, <1>3 DEF IInv, OneSessionPerInvite
  <1>5. InvitesNamed'
    BY <1>0, <1>1 DEF IInv, InvitesNamed
  <1>6. LocksHeld'
    BY <1>0, <1>1 DEF IInv, InvitesNamed, LocksHeld
  <1>7. SessionsRooted' /\ DeadStayDead'
    BY <1>1, <1>2 DEF IInv, SessionsRooted, DeadStayDead, Live, Created
  <1> QED BY <1>4, <1>5, <1>6, <1>7 DEF IInv

(* A redemption that ends without a session: refused, or failed.           *)
LEMMA EndWithoutSession ==
  ASSUME IInv, NEW s \in Redemption,
         redeem[s].step \in {"locking", "upserting", "committing"}, EndRedemption(s),
         UNCHANGED <<inviteLock, founderLock>> \/ Unlock(s),
         UNCHANGED <<invite, founder, session, token, request, dead>>, faults' \in 0..MaxFaults
  PROVE  IInv'
  <1>0. TypeOK
    BY DEF IInv, OneSessionPerInvite
  <1>1. /\ redeem' \in [Redemption -> Attempt]
        /\ redeem'[s].step = "done" /\ redeem'[s].invite = redeem[s].invite
        /\ \A r \in Redemption : r # s => redeem'[r] = redeem[r]
    BY <1>0, RedeemStep DEF TypeOK, EndRedemption
  <1>2. /\ inviteLock' \in [Invite -> Redemption \cup {NoRedemption}]
        /\ founderLock' \in [Founder -> Redemption \cup {NoRedemption}]
        /\ \A i \in Invite : inviteLock[i] # s => inviteLock'[i] = inviteLock[i]
        /\ \A f \in Founder : founderLock[f] # s => founderLock'[f] = founderLock[f]
    BY <1>0, UnlockRows DEF TypeOK
  <1>3. Created' = Created /\ s \notin Created
    BY <1>0, <1>1 DEF IInv, SessionsRooted, Created
  <1>4. TypeOK'
    BY <1>0, <1>1, <1>2 DEF TypeOK
  <1>5. OneSessionPerInvite'
    BY <1>3, <1>4 DEF IInv, OneSessionPerInvite
  <1>6. InvitesNamed'
    BY <1>1 DEF IInv, InvitesNamed
  <1>7. LocksHeld'
    BY <1>1, <1>2 DEF IInv, InvitesNamed, LocksHeld
  <1>8. SessionsRooted' /\ DeadStayDead'
    BY <1>1, <1>3 DEF IInv, SessionsRooted, DeadStayDead, Live, Created
  <1> QED BY <1>5, <1>6, <1>7, <1>8 DEF IInv

(* A redemption that fails releases both locks and leaves no session.      *)
LEMMA FailRedemptionIInv ==
  ASSUME IInv, NEW s \in Redemption, FailRedemption(s)
  PROVE  IInv'
  <1>1. faults' \in 0..MaxFaults
    BY SessionConstants DEF IInv, OneSessionPerInvite, TypeOK, FailRedemption
  <1> QED BY <1>1, EndWithoutSession DEF FailRedemption

(* The row lock of an invite is granted to one redemption at a time.       *)
LEMMA LockInviteIInv ==
  ASSUME IInv, NEW s \in Redemption, LockInvite(s)
  PROVE  IInv'
  <1> DEFINE i == redeem[s].invite
  <1>0. TypeOK /\ redeem[s].step = "locking" /\ i \in Invite
    BY DEF IInv, OneSessionPerInvite, InvitesNamed, LockInvite
  <1>1. UNCHANGED <<invite, founder, session, token, founderLock, request, dead, faults>>
    BY DEF LockInvite
  <1>2. CASE invite[i].status = "PENDING" /\ ~invite[i].over
    <2>1. /\ inviteLock[i] = NoRedemption
          /\ inviteLock' = [inviteLock EXCEPT ![i] = s]
          /\ redeem' = [redeem EXCEPT ![s].step = "upserting"]
      BY <1>2 DEF LockInvite, InviteFree
    <2>2. /\ redeem' \in [Redemption -> Attempt]
          /\ redeem'[s].step = "upserting" /\ redeem'[s].invite = i
          /\ \A r \in Redemption : r # s => redeem'[r] = redeem[r]
      BY <1>0, <2>1, RedeemStep DEF TypeOK
    <2>3. /\ inviteLock' \in [Invite -> Redemption \cup {NoRedemption}]
          /\ inviteLock'[i] = s
          /\ \A j \in Invite : j # i => inviteLock'[j] = inviteLock[j]
      BY <1>0, <2>1 DEF TypeOK
    <2>4. Created' = Created /\ s \notin Created
      BY <1>0, <1>1 DEF IInv, SessionsRooted, Created
    <2>5. TypeOK'
      BY <1>0, <1>1, <2>2, <2>3 DEF TypeOK
    <2>6. OneSessionPerInvite'
      BY <1>1, <2>4, <2>5 DEF IInv, OneSessionPerInvite
    <2>7. InvitesNamed'
      BY <1>0, <1>1, <2>2 DEF IInv, InvitesNamed
    <2>8. LocksHeld'
      BY <1>0, <1>1, <1>2, <2>1, <2>2, <2>3, SessionConstants DEF IInv, InvitesNamed, LocksHeld
    <2>9. SessionsRooted' /\ DeadStayDead'
      BY <1>1, <2>2, <2>4 DEF IInv, SessionsRooted, DeadStayDead, Live, Created
    <2> QED BY <2>6, <2>7, <2>8, <2>9 DEF IInv
  <1>3. CASE ~(invite[i].status = "PENDING" /\ ~invite[i].over)
    <2>1. EndRedemption(s) /\ UNCHANGED <<inviteLock, founderLock>>
      BY <1>1, <1>3 DEF LockInvite
    <2>2. faults' \in 0..MaxFaults
      BY <1>0, <1>1 DEF TypeOK
    <2> QED BY <1>0, <1>1, <2>1, <2>2, EndWithoutSession
  <1> QED BY <1>2, <1>3

(* The founder is locked while not DISABLED.                               *)
LEMMA UpsertFounderIInv ==
  ASSUME IInv, NEW s \in Redemption, UpsertFounder(s)
  PROVE  IInv'
  <1> DEFINE i == redeem[s].invite
             f == invite[i].to
  <1>0. TypeOK /\ redeem[s].step = "upserting" /\ i \in Invite /\ f \in Founder
    BY DEF IInv, OneSessionPerInvite, InvitesNamed, UpsertFounder
  <1>1. UNCHANGED <<invite, founder, session, token, request, dead, faults>>
    BY DEF UpsertFounder
  <1>2. CASE founder[f] # "DISABLED"
    <2>1. /\ founderLock[f] = NoRedemption
          /\ founderLock' = [founderLock EXCEPT ![f] = s]
          /\ redeem' = [redeem EXCEPT ![s].step = "committing"]
          /\ UNCHANGED inviteLock
      BY <1>2 DEF UpsertFounder
    <2>2. /\ redeem' \in [Redemption -> Attempt]
          /\ redeem'[s].step = "committing" /\ redeem'[s].invite = i
          /\ \A r \in Redemption : r # s => redeem'[r] = redeem[r]
      BY <1>0, <2>1, RedeemStep DEF TypeOK
    <2>3. /\ founderLock' \in [Founder -> Redemption \cup {NoRedemption}]
          /\ founderLock'[f] = s
          /\ \A g \in Founder : g # f => founderLock'[g] = founderLock[g]
      BY <1>0, <2>1 DEF TypeOK
    <2>4. Created' = Created /\ s \notin Created
      BY <1>0, <1>1 DEF IInv, SessionsRooted, Created
    <2>5. TypeOK'
      BY <1>0, <1>1, <2>1, <2>2, <2>3 DEF TypeOK
    <2>6. OneSessionPerInvite'
      BY <1>1, <2>4, <2>5 DEF IInv, OneSessionPerInvite
    <2>7. InvitesNamed'
      BY <1>0, <1>1, <2>2 DEF IInv, InvitesNamed
    <2>8. LocksHeld'
      BY <1>0, <1>1, <1>2, <2>1, <2>2, <2>3, SessionConstants DEF IInv, InvitesNamed, LocksHeld
    <2>9. SessionsRooted' /\ DeadStayDead'
      BY <1>1, <2>2, <2>4 DEF IInv, SessionsRooted, DeadStayDead, Live, Created
    <2> QED BY <2>6, <2>7, <2>8, <2>9 DEF IInv
  <1>3. CASE founder[f] = "DISABLED"
    <2>1. EndRedemption(s) /\ Unlock(s)
      BY <1>3 DEF UpsertFounder
    <2>2. faults' \in 0..MaxFaults
      BY <1>0, <1>1 DEF TypeOK
    <2> QED BY <1>0, <1>1, <2>1, <2>2, EndWithoutSession
  <1> QED BY <1>2, <1>3

(* An invite is spent.                                                     *)
LEMMA SpentRow ==
  ASSUME invite \in [Invite -> InviteRow], NEW i \in Invite, NEW f \in Founder,
         invite' = [invite EXCEPT ![i].status = "REDEEMED", ![i].by = f]
  PROVE  /\ invite' \in [Invite -> InviteRow]
         /\ invite'[i].status = "REDEEMED" /\ invite'[i].to = invite[i].to
         /\ \A j \in Invite : j # i => invite'[j] = invite[j]
  BY DEF InviteRow

(* What a commit writes.                                                   *)
LEMMA PersistRows ==
  ASSUME TypeOK, NEW s \in Redemption, Persist(s), redeem[s].invite \in Invite,
         invite[redeem[s].invite].to \in Founder
  PROVE  LET i == redeem[s].invite
             f == invite[i].to
         IN  /\ founder' \in [Founder -> {"NONE", "ACTIVE", "DISABLED"}]
             /\ founder'[f] = "ACTIVE" /\ \A g \in Founder : g # f => founder'[g] = founder[g]
             /\ session' \in [Redemption -> SessionRow]
             /\ session'[s] = [status |-> "ACTIVE", founder |-> f, over |-> FALSE, from |-> i]
             /\ \A r \in Redemption : r # s => session'[r] = session[r]
             /\ invite' \in [Invite -> InviteRow]
             /\ invite'[i].status = "REDEEMED" /\ invite'[i].to = f
             /\ \A j \in Invite : j # i => invite'[j] = invite[j]
  <1> DEFINE i == redeem[s].invite
             f == invite[i].to
  <1>1. /\ founder' \in [Founder -> {"NONE", "ACTIVE", "DISABLED"}]
        /\ founder'[f] = "ACTIVE" /\ \A g \in Founder : g # f => founder'[g] = founder[g]
    BY DEF TypeOK, Persist
  <1>2. /\ session' \in [Redemption -> SessionRow]
        /\ session'[s] = [status |-> "ACTIVE", founder |-> f, over |-> FALSE, from |-> i]
        /\ \A r \in Redemption : r # s => session'[r] = session[r]
    BY DEF TypeOK, Persist, SessionRow
  <1>3. /\ invite' \in [Invite -> InviteRow]
        /\ invite'[i].status = "REDEEMED" /\ invite'[i].to = f
        /\ \A j \in Invite : j # i => invite'[j] = invite[j]
    BY SpentRow DEF TypeOK, Persist
  <1> QED BY <1>1, <1>2, <1>3

(* The commit of a redemption: the lock kept the invite PENDING, so that   *)
(* it has no session yet, and the founder from being disabled.             *)
LEMMA CommitIInv ==
  ASSUME IInv, NEW s \in Redemption, CommitRedemption(s) \/ CommitUnanswered(s)
  PROVE  IInv'
  <1> DEFINE i == redeem[s].invite
             f == invite[i].to
  <1>0. /\ TypeOK /\ Persist(s) /\ redeem[s].step = "committing"
        /\ i \in Invite /\ f \in Founder /\ invite[i].status = "PENDING"
        /\ inviteLock[i] = s /\ founderLock[f] = s /\ founder[f] # "DISABLED"
    BY DEF IInv, OneSessionPerInvite, InvitesNamed, LocksHeld, CommitRedemption, CommitUnanswered,
           Persist
  <1>1. /\ founder' \in [Founder -> {"NONE", "ACTIVE", "DISABLED"}]
        /\ founder'[f] = "ACTIVE" /\ \A g \in Founder : g # f => founder'[g] = founder[g]
        /\ session' \in [Redemption -> SessionRow]
        /\ session'[s] = [status |-> "ACTIVE", founder |-> f, over |-> FALSE, from |-> i]
        /\ \A r \in Redemption : r # s => session'[r] = session[r]
        /\ invite' \in [Invite -> InviteRow]
        /\ invite'[i].status = "REDEEMED" /\ invite'[i].to = f
        /\ \A j \in Invite : j # i => invite'[j] = invite[j]
    BY <1>0, PersistRows
  <1>2. /\ redeem' \in [Redemption -> Attempt]
        /\ redeem'[s].step = "done" /\ redeem'[s].invite = i
        /\ \A r \in Redemption : r # s => redeem'[r] = redeem[r]
    BY <1>0, RedeemStep DEF TypeOK, Persist, EndRedemption
  <1>3. /\ inviteLock' \in [Invite -> Redemption \cup {NoRedemption}]
        /\ founderLock' \in [Founder -> Redemption \cup {NoRedemption}]
        /\ \A j \in Invite : inviteLock[j] # s => inviteLock'[j] = inviteLock[j]
        /\ \A g \in Founder : founderLock[g] # s => founderLock'[g] = founderLock[g]
    BY <1>0, UnlockRows DEF Persist
  <1>4. /\ UNCHANGED <<request, dead>> /\ faults' \in 0..MaxFaults
        /\ token' \in [Redemption -> {"NONE", "VALID", "EXPIRED"}]
        /\ \A r \in Redemption : r # s => token'[r] = token[r]
    BY <1>0, SessionConstants DEF TypeOK, CommitRedemption, CommitUnanswered
  <1>5. s \notin Created /\ Created' = Created \cup {s}
    BY <1>0, <1>1 DEF IInv, SessionsRooted, Created
  <1>6. \A r \in Created : r # s /\ session'[r] = session[r] /\ session[r].from # i
    BY <1>0, <1>1, <1>5 DEF IInv, OneSessionPerInvite, Created
  <1>7. TypeOK'
    BY <1>0, <1>1, <1>2, <1>3, <1>4 DEF TypeOK
  <1>8. OneSessionPerInvite'
    <2>1. \A r1, r2 \in Created' : session'[r1].from = session'[r2].from => r1 = r2
      BY <1>1, <1>5, <1>6 DEF IInv, OneSessionPerInvite
    <2>2. \A r \in Created' : session'[r].founder = invite'[session'[r].from].to
      BY <1>0, <1>1, <1>5, <1>6 DEF IInv, OneSessionPerInvite, SessionsRooted
    <2>3. \A j \in Invite : invite'[j].status = "REDEEMED" <=> \E r \in Created' : session'[r].from = j
      BY <1>0, <1>1, <1>5, <1>6 DEF IInv, OneSessionPerInvite
    <2> QED BY <1>7, <2>1, <2>2, <2>3 DEF OneSessionPerInvite
  <1>9. InvitesNamed'
    BY <1>0, <1>1, <1>2 DEF IInv, InvitesNamed
  <1>10. LocksHeld'
    <2> SUFFICES ASSUME NEW r \in Redemption, r # s, redeem[r].step \in {"upserting", "committing"}
                 PROVE  /\ inviteLock'[redeem[r].invite] = r
                        /\ invite'[redeem[r].invite].status = "PENDING"
                        /\ redeem[r].step = "committing" =>
                             /\ founderLock'[invite'[redeem[r].invite].to] = r
                             /\ founder'[invite'[redeem[r].invite].to] # "DISABLED"
      BY <1>2 DEF LocksHeld
    <2>1. redeem[r].invite \in Invite /\ redeem[r].invite # i /\ inviteLock[redeem[r].invite] = r
      BY <1>0 DEF IInv, InvitesNamed, LocksHeld
    <2>2. invite'[redeem[r].invite] = invite[redeem[r].invite] /\ invite[redeem[r].invite].to \in Founder
      BY <1>1, <2>1 DEF IInv, InvitesNamed
    <2> QED BY <1>1, <1>3, <2>1, <2>2 DEF IInv, LocksHeld
  <1>11. SessionsRooted'
    <2>1. ASSUME NEW r \in Created'
          PROVE  /\ redeem'[r].step = "done"
                 /\ session'[r].from \in Invite /\ session'[r].founder \in Founder
                 /\ founder'[session'[r].founder] # "NONE"
      <3>1. CASE r = s
        BY <1>0, <1>1, <1>2, <3>1
      <3>2. CASE r \in Created
        BY <1>0, <1>1, <1>2, <1>6, <3>2 DEF IInv, SessionsRooted, Created
      <3> QED BY <1>5, <2>1, <3>1, <3>2
    <2>2. \A r \in Redemption : token'[r] # "NONE" => r \in Created'
      BY <1>4, <1>5 DEF IInv, SessionsRooted
    <2>3. \A q \in Request : request'[q].step # "new" => request'[q].sid \in Created'
      BY <1>4, <1>5 DEF IInv, SessionsRooted
    <2> QED BY <2>1, <2>2, <2>3 DEF SessionsRooted
  <1>12. DeadStayDead'
    <2> SUFFICES ASSUME NEW q \in dead
                 PROVE  /\ request[q].step \notin {"new", "admitted"}
                        /\ ~Live(request[q].sid)'
                        /\ request[q].step = "founder" =>
                             \/ session'[request[q].sid].over
                             \/ founder'[session'[request[q].sid].founder] = "DISABLED"
      BY <1>4 DEF DeadStayDead
    <2>1. request[q].step # "new" /\ request[q].sid \in Created
      BY <1>0 DEF IInv, DeadStayDead, SessionsRooted, TypeOK
    <2>2. /\ session'[request[q].sid] = session[request[q].sid]
          /\ session[request[q].sid].founder \in Founder
          /\ founder[session[request[q].sid].founder] \in {"ACTIVE", "DISABLED"}
      BY <1>0, <1>6, <2>1 DEF IInv, SessionsRooted, TypeOK
    <2>3. founder'[session[request[q].sid].founder] = founder[session[request[q].sid].founder]
      BY <1>0, <1>1, <2>2
    <2> QED BY <1>4, <2>1, <2>2, <2>3 DEF IInv, DeadStayDead, Live
  <1> QED BY <1>8, <1>9, <1>10, <1>11, <1>12 DEF IInv
-----------------------------------------------------------------------------
(* Sign-out and expiry end a session and bring none back.                  *)
OnlyEnds ==
  /\ session' \in [Redemption -> SessionRow]
  /\ \A r \in Redemption :
       /\ session'[r].status = "NONE" <=> session[r].status = "NONE"
       /\ session'[r].status = "ACTIVE" => session[r].status = "ACTIVE"
       /\ session[r].over => session'[r].over
       /\ session'[r].founder = session[r].founder /\ session'[r].from = session[r].from
  /\ token' \in [Redemption -> {"NONE", "VALID", "EXPIRED"}]
  /\ \A r \in Redemption : token'[r] = "NONE" <=> token[r] = "NONE"

(* Expiry and sign-out end sessions, and never revive one.                 *)
LEMMA SessionEndsIInv ==
  ASSUME IInv, \/ \E s \in Redemption : SessionExpires(s) \/ TokenExpires(s)
               \/ \E q \in Request : SignOut(q)
  PROVE  IInv'
  <1>0. /\ TypeOK
        /\ UNCHANGED <<invite, founder, inviteLock, founderLock, redeem, request, dead, faults>>
    BY DEF IInv, OneSessionPerInvite, SessionExpires, TokenExpires, SignOut
  <1>1. OnlyEnds
    <2>1. ASSUME NEW s \in Redemption, SessionExpires(s) PROVE OnlyEnds
      BY <1>0, <2>1 DEF TypeOK, SessionExpires, SessionRow, OnlyEnds
    <2>2. ASSUME NEW s \in Redemption, TokenExpires(s) PROVE OnlyEnds
      BY <1>0, <2>2 DEF TypeOK, TokenExpires, OnlyEnds
    <2>3. ASSUME NEW q \in Request, SignOut(q) PROVE OnlyEnds
      <3>1. request[q].sid \in Redemption
        BY <1>0, <2>3 DEF IInv, SessionsRooted, Created, SignOut
      <3> QED BY <1>0, <2>3, <3>1 DEF TypeOK, SignOut, SessionRow, OnlyEnds
    <2> QED BY <2>1, <2>2, <2>3
  <1>2. Created' = Created
    BY <1>1 DEF Created, OnlyEnds
  <1>3. TypeOK'
    BY <1>0, <1>1 DEF TypeOK, OnlyEnds
  <1>4. OneSessionPerInvite'
    BY <1>0, <1>1, <1>2, <1>3 DEF IInv, OneSessionPerInvite, Created, OnlyEnds
  <1>5. InvitesNamed' /\ LocksHeld'
    BY <1>0 DEF IInv, InvitesNamed, LocksHeld
  <1>6. SessionsRooted'
    BY <1>0, <1>1, <1>2 DEF IInv, SessionsRooted, Created, OnlyEnds
  <1>7. \A q \in dead : request[q].sid \in Redemption
    BY <1>0 DEF IInv, TypeOK, SessionsRooted, Created, DeadStayDead
  <1>8. DeadStayDead'
    BY <1>0, <1>1, <1>7 DEF IInv, DeadStayDead, Live, OnlyEnds
  <1> QED BY <1>4, <1>5, <1>6, <1>8 DEF IInv

(* A founder is disabled only while no redemption holds the row.           *)
LEMMA DisableFounderIInv ==
  ASSUME IInv, NEW f \in Founder, DisableFounder(f)
  PROVE  IInv'
  <1>0. /\ TypeOK /\ founder[f] = "ACTIVE" /\ founderLock[f] = NoRedemption
        /\ UNCHANGED <<invite, session, token, inviteLock, founderLock, redeem, request, dead, faults>>
    BY DEF IInv, OneSessionPerInvite, DisableFounder
  <1>1. /\ founder' \in [Founder -> {"NONE", "ACTIVE", "DISABLED"}]
        /\ founder'[f] = "DISABLED" /\ \A g \in Founder : g # f => founder'[g] = founder[g]
    BY <1>0 DEF TypeOK, DisableFounder
  <1>2. Created' = Created
    BY <1>0 DEF Created
  <1>3. TypeOK'
    BY <1>0, <1>1 DEF TypeOK
  <1>4. OneSessionPerInvite'
    BY <1>0, <1>2, <1>3 DEF IInv, OneSessionPerInvite
  <1>5. InvitesNamed'
    BY <1>0 DEF IInv, InvitesNamed
  <1>6. LocksHeld'
    BY <1>0, <1>1, SessionConstants DEF IInv, LocksHeld, InvitesNamed
  <1>7. SessionsRooted'
    BY <1>0, <1>1, <1>2 DEF IInv, SessionsRooted
  <1>8. \A q \in dead : session[request[q].sid].founder \in Founder
    BY <1>0 DEF IInv, TypeOK, SessionsRooted, DeadStayDead
  <1>9. DeadStayDead'
    BY <1>0, <1>1, <1>8 DEF IInv, DeadStayDead, Live
  <1> QED BY <1>4, <1>5, <1>6, <1>7, <1>9 DEF IInv
-----------------------------------------------------------------------------
(* A request arrives with a token that was issued.                         *)
LEMMA ArriveIInv ==
  ASSUME IInv, NEW q \in Request, NEW s \in Redemption, Arrive(q, s)
  PROVE  IInv'
  <1>0. /\ TypeOK /\ request[q].step = "new" /\ s \in Created
        /\ UNCHANGED <<invite, founder, session, token, inviteLock, founderLock, redeem, faults>>
    BY DEF IInv, OneSessionPerInvite, SessionsRooted, Arrive
  <1>1. /\ request' \in [Request -> Bearer]
        /\ request'[q].step = "token" /\ request'[q].sid = s
        /\ \A p \in Request : p # q => request'[p] = request[p]
    BY <1>0 DEF TypeOK, Arrive, Bearer
  <1>2. /\ dead' \subseteq Request /\ dead' \subseteq dead \cup {q}
        /\ q \in dead' => ~Live(s)
        /\ q \notin dead
    BY <1>0 DEF IInv, TypeOK, Arrive, DeadStayDead
  <1>3. Created' = Created /\ \A r \in Redemption : Live(r)' = Live(r)
    BY <1>0 DEF Created, Live
  <1>4. TypeOK'
    <2>1. \A p \in Request : request'[p].step = "new" <=> request'[p].sid = NoRedemption
      BY <1>0, <1>1, SessionConstants DEF TypeOK
    <2> QED BY <1>0, <1>1, <1>2, <2>1 DEF TypeOK
  <1>5. OneSessionPerInvite'
    BY <1>0, <1>3, <1>4 DEF IInv, OneSessionPerInvite
  <1>6. InvitesNamed' /\ LocksHeld'
    BY <1>0 DEF IInv, InvitesNamed, LocksHeld
  <1>7. SessionsRooted'
    BY <1>0, <1>1, <1>3 DEF IInv, SessionsRooted
  <1>8. \A p \in dead : p \in Request /\ request[p].sid \in Redemption
    BY <1>0 DEF IInv, TypeOK, SessionsRooted, Created, DeadStayDead
  <1>9. DeadStayDead'
    BY <1>0, <1>1, <1>2, <1>3, <1>8 DEF IInv, DeadStayDead
  <1> QED BY <1>5, <1>6, <1>7, <1>9 DEF IInv

(* One check of verifyAccessToken; the request keeps its session.          *)
LEMMA CheckIInv ==
  ASSUME IInv, NEW q \in Request, VerifyToken(q) \/ ReadSession(q) \/ ReadFounder(q)
  PROVE  IInv'
  <1> DEFINE s == request[q].sid
  <1>0. /\ TypeOK /\ request[q].step \in {"token", "session", "founder"} /\ s \in Created
        /\ UNCHANGED <<invite, founder, session, token, inviteLock, founderLock, redeem, dead, faults>>
    BY DEF IInv, OneSessionPerInvite, SessionsRooted, VerifyToken, ReadSession, ReadFounder, Check
  <1>1. PICK x \in {"session", "founder", "admitted", "denied"} :
          /\ request' = [request EXCEPT ![q].step = x]
          /\ x = "founder" => SessionActive(s)
          /\ x = "admitted" => /\ request[q].step = "founder" /\ ~session[s].over
                               /\ founder[session[s].founder] = "ACTIVE"
    BY DEF VerifyToken, ReadSession, ReadFounder, Check
  <1>2. /\ request' \in [Request -> Bearer]
        /\ request'[q].step = x /\ request'[q].sid = s
        /\ \A p \in Request : p # q => request'[p] = request[p]
    BY <1>0, <1>1 DEF TypeOK, Bearer
  <1>3. Created' = Created /\ \A r \in Redemption : Live(r)' = Live(r)
    BY <1>0 DEF Created, Live
  <1>4. TypeOK'
    <2>1. \A p \in Request : request'[p].step = "new" <=> request'[p].sid = NoRedemption
      BY <1>0, <1>2 DEF TypeOK
    <2> QED BY <1>0, <1>2, <2>1 DEF TypeOK
  <1>5. OneSessionPerInvite'
    BY <1>0, <1>3, <1>4 DEF IInv, OneSessionPerInvite
  <1>6. InvitesNamed' /\ LocksHeld'
    BY <1>0 DEF IInv, InvitesNamed, LocksHeld
  <1>7. SessionsRooted'
    BY <1>0, <1>2, <1>3 DEF IInv, SessionsRooted
  <1>8. \A p \in dead : p \in Request /\ request[p].sid \in Redemption
    BY <1>0 DEF IInv, TypeOK, SessionsRooted, Created, DeadStayDead
  <1>9. ASSUME q \in dead
        PROVE  /\ x # "admitted"
               /\ x = "founder" => founder[session[s].founder] = "DISABLED"
    <2>1. founder[session[s].founder] \in {"ACTIVE", "DISABLED"} /\ ~Live(s)
      BY <1>0, <1>9 DEF IInv, TypeOK, SessionsRooted, DeadStayDead
    <2> QED BY <1>1, <1>9, <2>1 DEF IInv, DeadStayDead, Live, SessionActive
  <1>10. DeadStayDead'
    BY <1>0, <1>2, <1>3, <1>8, <1>9 DEF IInv, DeadStayDead
  <1> QED BY <1>5, <1>6, <1>7, <1>10 DEF IInv
-----------------------------------------------------------------------------
(* Every step keeps the invariant.                                         *)
LEMMA NextIInv == IInv /\ [Next]_vars => IInv'
  <1> SUFFICES ASSUME IInv, [Next]_vars PROVE IInv'
    OBVIOUS
  <1>1. CASE UNCHANGED vars
    BY <1>1 DEF vars, IInv, OneSessionPerInvite, TypeOK, Created, InvitesNamed, LocksHeld,
                SessionsRooted, DeadStayDead, Live
  <1>2. CASE Next
    BY <1>2, InviteIInv, RedeemInviteIInv, LockInviteIInv, UpsertFounderIInv, CommitIInv,
       FailRedemptionIInv, SessionEndsIInv, DisableFounderIInv, ArriveIInv, CheckIInv
       DEF Next, RedemptionStep
  <1> QED BY <1>1, <1>2

(* The two row locks and the order in which a redemption takes them make   *)
(* sessions, invites and founders agree; what has ended stays ended.       *)
THEOREM InductiveInvariant == Spec => []IInv
  BY InitIInv, NextIInv, PTL DEF Spec

(* However many clients redeem an invite at once, and whatever fails half  *)
(* way, redeemInvite creates at most one session per invite, for its       *)
(* addressee, and spends the invite exactly when it does.                  *)
THEOREM InviteSpentOnce == Spec => []OneSessionPerInvite
  <1>1. IInv => OneSessionPerInvite
    BY DEF IInv
  <1> QED BY <1>1, InductiveInvariant, PTL

(* verifyAccessToken admits no request that arrived after its session was  *)
(* signed out or expired, or after its founder was disabled, although it   *)
(* reads session and founder in two steps.                                 *)
THEOREM DeadSessionsDenied == Spec => []EndedIsDenied
  <1>1. IInv => EndedIsDenied
    BY DEF IInv, DeadStayDead, EndedIsDenied
  <1> QED BY <1>1, InductiveInvariant, PTL
-----------------------------------------------------------------------------
Creating == {"put:store", "ingest:store", "ingest:commit"}
Using == {"read:store", "delete:store", "delete:mark", "bind:commit", "retrieve:grant",
          "retrieve:store"}

(* An object that is being created is known to nobody, and no other call   *)
(* works on it; its row is committed first by put and last by ingest, and  *)
(* its blob is there when the ingest commits.                              *)
CreatorsAlone ==
  \A c \in Caller : call[c].step \in Creating =>
    /\ call[c].object \notin known
    /\ \A d \in Caller : d # c => call[d].object # call[c].object
    /\ row[call[c].object].state = IF call[c].step = "put:store" THEN "READY" ELSE "inserting"
    /\ call[c].step = "ingest:commit" => call[c].object \in blobs

(* Everybody else works on an object that was returned to somebody; a      *)
(* delete marks the row of a blob that is gone.                            *)
UsersKnow ==
  \A c \in Caller : call[c].step \in Using =>
    /\ call[c].object \in known
    /\ call[c].step = "delete:mark" => call[c].object \notin blobs

(* A returned object has a committed row, and its blob is missing only     *)
(* where a delete has been.                                                *)
KnownObjects ==
  /\ \A o \in known : row[o].state \in {"READY", "DELETED"} /\ o \in blobs \cup erased
  /\ \A o \in Object : row[o].state = "DELETED" => o \in known
  /\ bound \subseteq known

(* Between its check and its commit a bind holds the lock of a READY row.  *)
BindersLock ==
  \A c \in Caller : call[c].step = "bind:commit" =>
    lock[call[c].object] = c /\ Ready(call[c].object)

ObjectIInv == RowsAndBlobsAgree /\ CreatorsAlone /\ UsersKnow /\ KnownObjects /\ BindersLock
-----------------------------------------------------------------------------
(* Every initial state satisfies the invariant.                            *)
LEMMA ObjectInitIInv == ObjectInit => ObjectIInv
  <1> SUFFICES ASSUME ObjectInit PROVE ObjectIInv
    OBVIOUS
  <1> USE ObjectConstants DEF ObjectInit
  <1>1. ObjectTypeOK
    BY DEF ObjectTypeOK, RecordRow, Frame, RowState, Purpose, Step, Idle
  <1>2. \A c \in Caller : call[c].step = "idle"
    BY DEF Idle
  <1>3. RowsAndBlobsAgree /\ KnownObjects
    BY <1>1 DEF RowsAndBlobsAgree, KnownObjects
  <1>4. CreatorsAlone /\ UsersKnow /\ BindersLock
    BY <1>2 DEF CreatorsAlone, UsersKnow, BindersLock, Creating, Using
  <1> QED BY <1>3, <1>4 DEF ObjectIInv

(* Caller c is at step s, with object o, and nobody else has moved.        *)
Moves(c, s, o) ==
  /\ call' \in [Caller -> Frame]
  /\ \A d \in Caller : call'[d].step = "idle" <=> call'[d].object = NoObject
  /\ call'[c].step = s /\ call'[c].object = o
  /\ \A d \in Caller : d # c => call'[d] = call[d]

(* The steps of a call.                                                    *)
LEMMA StartMoves ==
  ASSUME ObjectTypeOK, NEW c \in Caller, NEW s \in Step \ {"idle"}, NEW o \in Object, Start(c, s, o)
  PROVE  call[c].step = "idle" /\ Moves(c, s, o)
  BY ObjectConstants DEF ObjectTypeOK, Start, Moves, Frame

(* A call that goes on stays with its object.                              *)
LEMMA GotoMoves ==
  ASSUME ObjectTypeOK, NEW c \in Caller, NEW s \in Step \ {"idle"}, call[c].step # "idle", Goto(c, s)
  PROVE  call[c].object \in Object /\ Moves(c, s, call[c].object)
  BY ObjectConstants DEF ObjectTypeOK, Goto, Moves, Frame

(* A call that returns lets go of its object.                              *)
LEMMA ReturnMoves ==
  ASSUME ObjectTypeOK, NEW c \in Caller, call[c].step # "idle", Return(c)
  PROVE  call[c].object \in Object /\ Moves(c, "idle", NoObject)
  BY ObjectConstants DEF ObjectTypeOK, Return, Moves, Frame, Idle, Step

(* Nobody works on a fresh object, and nobody knows it.                    *)
LEMMA FreshIsUnknown ==
  ASSUME ObjectIInv, NEW o \in Object, Fresh(o)
  PROVE  o \notin known /\ o \notin blobs /\ \A c \in Caller : call[c].object # o
  BY DEF ObjectIInv, KnownObjects, Fresh

(* put and ingest write the row of a fresh object.                         *)
LEMMA CreateRowIInv ==
  ASSUME ObjectIInv, NEW c \in Caller, NEW o \in Object, PutRow(c, o) \/ IngestRow(c, o)
  PROVE  ObjectIInv'
  <1>0. /\ ObjectTypeOK /\ Fresh(o)
        /\ UNCHANGED <<blobs, known, bound, lock, granted, erased, missed, storageFaults>>
    BY DEF ObjectIInv, RowsAndBlobsAgree, PutRow, IngestRow
  <1>1. PICK s \in {"put:store", "ingest:store"} :
          /\ call[c].step = "idle" /\ Moves(c, s, o)
          /\ row'[o].state = IF s = "put:store" THEN "READY" ELSE "inserting"
    BY <1>0, StartMoves DEF ObjectTypeOK, PutRow, IngestRow, Step
  <1>2. /\ row' \in [Object -> RecordRow]
        /\ \A p \in Object : p # o => row'[p] = row[p]
    BY <1>0 DEF ObjectTypeOK, PutRow, IngestRow, RecordRow, RowState, Purpose
  <1>3. o \notin known /\ \A d \in Caller : call[d].object # o
    BY <1>0, FreshIsUnknown
  <1>4. RowsAndBlobsAgree'
    BY <1>0, <1>1, <1>2 DEF ObjectIInv, RowsAndBlobsAgree, ObjectTypeOK, Moves
  <1>5. CreatorsAlone'
    <2>1. \A d \in Caller : call[d].step \in Creating => call[d].object \in Object
      BY <1>0 DEF ObjectTypeOK, Frame, Creating
    <2> QED BY <1>0, <1>1, <1>2, <1>3, <2>1 DEF ObjectIInv, CreatorsAlone, Creating, Moves
  <1>6. UsersKnow'
    BY <1>0, <1>1 DEF ObjectIInv, UsersKnow, Using, Moves
  <1>7. KnownObjects'
    BY <1>0, <1>1, <1>2, <1>3 DEF ObjectIInv, KnownObjects, ObjectTypeOK
  <1>8. BindersLock'
    BY <1>0, <1>1, <1>2, <1>3 DEF ObjectIInv, BindersLock, Ready, Moves, ObjectTypeOK, Frame, UsersKnow, Using
  <1> QED BY <1>4, <1>5, <1>6, <1>7, <1>8 DEF ObjectIInv

(* Only the creator of an object adds its blob.                            *)
LEMMA StoreBlobIInv ==
  ASSUME ObjectIInv, NEW c \in Caller, PutBlob(c) \/ IngestBlob(c)
  PROVE  ObjectIInv'
  <1> DEFINE o == call[c].object
  <1>0. /\ ObjectTypeOK /\ call[c].step \in {"put:store", "ingest:store"} /\ o \in Object
        /\ UNCHANGED <<row, bound, lock, granted, erased, missed, storageFaults>>
        /\ blobs' = blobs \cup {o}
    BY ReturnMoves, GotoMoves DEF ObjectIInv, RowsAndBlobsAgree, PutBlob, IngestBlob, Step
  <1>1. \/ call[c].step = "put:store" /\ known' = known \cup {o} /\ Moves(c, "idle", NoObject)
        \/ call[c].step = "ingest:store" /\ known' = known /\ Moves(c, "ingest:commit", o)
    BY <1>0, ReturnMoves, GotoMoves DEF PutBlob, IngestBlob, Step
  <1>2. /\ o \notin known /\ \A d \in Caller : d # c => call[d].object # o
        /\ row[o].state = IF call[c].step = "put:store" THEN "READY" ELSE "inserting"
    BY <1>0 DEF ObjectIInv, CreatorsAlone, Creating
  <1>3. RowsAndBlobsAgree'
    BY <1>0, <1>1, <1>2 DEF ObjectIInv, RowsAndBlobsAgree, ObjectTypeOK, Moves
  <1>4. CreatorsAlone'
    BY <1>0, <1>1, <1>2, ObjectConstants DEF ObjectIInv, CreatorsAlone, Creating, Moves
  <1>5. UsersKnow'
    BY <1>0, <1>1, <1>2 DEF ObjectIInv, UsersKnow, Using, Moves
  <1>6. KnownObjects'
    BY <1>0, <1>1, <1>2 DEF ObjectIInv, KnownObjects
  <1>7. BindersLock'
    BY <1>0, <1>1 DEF ObjectIInv, BindersLock, Ready, Moves
  <1> QED BY <1>3, <1>4, <1>5, <1>6, <1>7 DEF ObjectIInv

(* The commit of an ingest makes row and blob known together.              *)
LEMMA IngestCommitIInv ==
  ASSUME ObjectIInv, NEW c \in Caller, IngestCommit(c)
  PROVE  ObjectIInv'
  <1> DEFINE o == call[c].object
  <1>0. /\ ObjectTypeOK /\ call[c].step = "ingest:commit" /\ o \in Object
        /\ UNCHANGED <<blobs, bound, lock, granted, erased, missed, storageFaults>>
        /\ known' = known \cup {o} /\ Moves(c, "idle", NoObject)
    BY ReturnMoves DEF ObjectIInv, RowsAndBlobsAgree, IngestCommit
  <1>1. /\ row' \in [Object -> RecordRow]
        /\ row'[o].state = "READY"
        /\ \A p \in Object : p # o => row'[p] = row[p]
    BY <1>0 DEF ObjectTypeOK, IngestCommit, RecordRow, RowState
  <1>2. /\ o \notin known /\ o \in blobs
        /\ \A d \in Caller : d # c => call[d].object # o
    BY <1>0 DEF ObjectIInv, CreatorsAlone, Creating
  <1>3. \A d \in Caller : call[d].step # "idle" => call[d].object \in Object
    BY <1>0 DEF ObjectTypeOK, Frame
  <1>4. RowsAndBlobsAgree'
    BY <1>0, <1>1 DEF ObjectIInv, RowsAndBlobsAgree, ObjectTypeOK, Moves
  <1>5. CreatorsAlone'
    BY <1>0, <1>1, <1>2, <1>3, ObjectConstants DEF ObjectIInv, CreatorsAlone, Creating, Moves
  <1>6. UsersKnow'
    BY <1>0 DEF ObjectIInv, UsersKnow, Using, Moves
  <1>7. KnownObjects'
    BY <1>0, <1>1, <1>2 DEF ObjectIInv, KnownObjects, ObjectTypeOK
  <1>8. BindersLock'
    BY <1>0, <1>1, <1>2, <1>3 DEF ObjectIInv, BindersLock, Ready, Moves
  <1> QED BY <1>4, <1>5, <1>6, <1>7, <1>8 DEF ObjectIInv

(* A call begins on an object that was returned, and writes nothing but    *)
(* the lock of bind.                                                       *)
LEMMA UseIInv ==
  ASSUME ObjectIInv, NEW c \in Caller, NEW o \in Object,
         ReadRow(c, o) \/ RetrieveRow(c, o) \/ DeleteRow(c, o) \/ BindRow(c, o)
  PROVE  ObjectIInv'
  <1>0. /\ ObjectTypeOK /\ o \in known /\ Ready(o)
        /\ UNCHANGED <<row, blobs, known, bound, granted, erased, missed, storageFaults>>
    BY DEF ObjectIInv, RowsAndBlobsAgree, KnownObjects, ReadRow, RetrieveRow, DeleteRow, BindRow
  <1>1. PICK s \in {"read:store", "retrieve:grant", "delete:store", "bind:commit"} :
          /\ call[c].step = "idle" /\ Moves(c, s, o)
          /\ IF s = "bind:commit" THEN lock[o] = NoCaller /\ lock' = [lock EXCEPT ![o] = c]
                                  ELSE lock' = lock
    BY <1>0, StartMoves DEF ReadRow, RetrieveRow, DeleteRow, BindRow, Unlocked, Step
  <1>2. /\ lock' \in [Object -> Caller \cup {NoCaller}]
        /\ s = "bind:commit" => lock'[o] = c
        /\ \A p \in Object : lock[p] # NoCaller => lock'[p] = lock[p]
    BY <1>0, <1>1 DEF ObjectTypeOK
  <1>3. RowsAndBlobsAgree'
    BY <1>0, <1>1, <1>2 DEF ObjectIInv, RowsAndBlobsAgree, ObjectTypeOK, Moves
  <1>4. CreatorsAlone'
    BY <1>0, <1>1 DEF ObjectIInv, CreatorsAlone, Creating, Moves
  <1>5. UsersKnow'
    BY <1>0, <1>1 DEF ObjectIInv, UsersKnow, Using, Moves
  <1>6. KnownObjects'
    BY <1>0 DEF ObjectIInv, KnownObjects
  <1>7. \A d \in Caller : call[d].step = "bind:commit" =>
          call[d].object \in Object /\ lock[call[d].object] # NoCaller
    BY <1>0, ObjectConstants DEF ObjectIInv, BindersLock, ObjectTypeOK, Frame
  <1>8. BindersLock'
    BY <1>0, <1>1, <1>2, <1>7 DEF ObjectIInv, BindersLock, Ready, Moves
  <1> QED BY <1>3, <1>4, <1>5, <1>6, <1>8 DEF ObjectIInv

(* The store is asked: a reader that misses its blob comes after a delete. *)
LEMMA FetchIInv ==
  ASSUME ObjectIInv, NEW c \in Caller, RetrieveGrant(c) \/ FetchBlob(c)
  PROVE  ObjectIInv'
  <1> DEFINE o == call[c].object
  <1>0. /\ ObjectTypeOK /\ call[c].step \in {"retrieve:grant", "read:store", "retrieve:store"}
        /\ o \in Object /\ UNCHANGED <<row, blobs, known, bound, lock, erased, storageFaults>>
    BY ReturnMoves, GotoMoves DEF ObjectIInv, RowsAndBlobsAgree, RetrieveGrant, FetchBlob, Step
  <1>1. Moves(c, "idle", NoObject) \/ Moves(c, "retrieve:store", o)
    BY <1>0, ReturnMoves, GotoMoves DEF RetrieveGrant, FetchBlob, Step
  <1>2. o \in known /\ o \in blobs \cup erased
    BY <1>0 DEF ObjectIInv, UsersKnow, Using, KnownObjects
  <1>3. granted' \subseteq Object /\ missed' \subseteq missed \cup {o} /\ (o \in blobs => missed' = missed)
    BY <1>0 DEF ObjectTypeOK, RetrieveGrant, FetchBlob
  <1>4. RowsAndBlobsAgree'
    BY <1>0, <1>1, <1>2, <1>3 DEF ObjectIInv, RowsAndBlobsAgree, ObjectTypeOK, Moves
  <1>5. CreatorsAlone'
    BY <1>0, <1>1, ObjectConstants DEF ObjectIInv, CreatorsAlone, Creating, Moves, ObjectTypeOK, Frame
  <1>6. UsersKnow'
    BY <1>0, <1>1, <1>2 DEF ObjectIInv, UsersKnow, Using, Moves
  <1>7. KnownObjects'
    BY <1>0 DEF ObjectIInv, KnownObjects
  <1>8. BindersLock'
    BY <1>0, <1>1 DEF ObjectIInv, BindersLock, Ready, Moves
  <1> QED BY <1>4, <1>5, <1>6, <1>7, <1>8 DEF ObjectIInv

(* A delete takes the blob first and then marks the row.                   *)
LEMMA DeleteBlobIInv ==
  ASSUME ObjectIInv, NEW c \in Caller, DeleteBlob(c)
  PROVE  ObjectIInv'
  <1> DEFINE o == call[c].object
  <1>0. /\ ObjectTypeOK /\ call[c].step = "delete:store" /\ o \in Object
        /\ UNCHANGED <<row, known, bound, lock, granted, missed, storageFaults>>
        /\ blobs' = blobs \ {o} /\ erased' = erased \cup {o}
        /\ Moves(c, "delete:mark", o)
    BY GotoMoves DEF ObjectIInv, RowsAndBlobsAgree, DeleteBlob, Step
  <1>1. o \in known
    BY <1>0 DEF ObjectIInv, UsersKnow, Using
  <1>2. RowsAndBlobsAgree'
    BY <1>0 DEF ObjectIInv, RowsAndBlobsAgree, ObjectTypeOK, Moves
  <1>3. CreatorsAlone'
    BY <1>0, <1>1 DEF ObjectIInv, CreatorsAlone, Creating, Moves
  <1>4. UsersKnow'
    BY <1>0, <1>1 DEF ObjectIInv, UsersKnow, Using, Moves
  <1>5. KnownObjects'
    BY <1>0 DEF ObjectIInv, KnownObjects
  <1>6. BindersLock'
    BY <1>0 DEF ObjectIInv, BindersLock, Ready, Moves
  <1> QED BY <1>2, <1>3, <1>4, <1>5, <1>6 DEF ObjectIInv

(* The row is marked behind its lock, hence not under a bind.              *)
LEMMA DeleteMarkIInv ==
  ASSUME ObjectIInv, NEW c \in Caller, DeleteMark(c)
  PROVE  ObjectIInv'
  <1> DEFINE o == call[c].object
  <1>0. /\ ObjectTypeOK /\ call[c].step = "delete:mark" /\ o \in Object /\ lock[o] = NoCaller
        /\ UNCHANGED <<blobs, known, bound, lock, granted, erased, missed, storageFaults>>
        /\ Moves(c, "idle", NoObject)
    BY ReturnMoves DEF ObjectIInv, RowsAndBlobsAgree, DeleteMark, Unlocked
  <1>1. /\ row' \in [Object -> RecordRow]
        /\ row[o].state \in {"READY", "DELETED"} => row'[o].state = "DELETED"
        /\ \A p \in Object : p # o => row'[p] = row[p]
    BY <1>0 DEF ObjectTypeOK, DeleteMark, RecordRow, RowState, Ready
  <1>2. o \in known /\ o \notin blobs /\ row'[o].state = "DELETED"
    BY <1>0, <1>1 DEF ObjectIInv, UsersKnow, Using, KnownObjects
  <1>3. \A d \in Caller : call[d].step # "idle" => call[d].object \in Object
    BY <1>0 DEF ObjectTypeOK, Frame
  <1>4. RowsAndBlobsAgree'
    BY <1>0, <1>1, <1>2 DEF ObjectIInv, RowsAndBlobsAgree, ObjectTypeOK, Moves
  <1>5. CreatorsAlone'
    BY <1>0, <1>1, <1>2, <1>3, ObjectConstants DEF ObjectIInv, CreatorsAlone, Creating, Moves
  <1>6. UsersKnow'
    BY <1>0 DEF ObjectIInv, UsersKnow, Using, Moves
  <1>7. KnownObjects'
    BY <1>0, <1>1, <1>2 DEF ObjectIInv, KnownObjects, ObjectTypeOK
  <1>8. BindersLock'
    BY <1>0, <1>1, <1>3, ObjectConstants DEF ObjectIInv, BindersLock, Ready, Moves
  <1> QED BY <1>4, <1>5, <1>6, <1>7, <1>8 DEF ObjectIInv

(* A bind ends, committed or not, and frees its own lock only.             *)
LEMMA FreeLock ==
  ASSUME ObjectTypeOK, NEW c \in Caller, NEW o \in Object,
         lock' = [lock EXCEPT ![o] = NoCaller] \/ lock' = lock,
         lock' # lock => lock[o] = c
  PROVE  /\ lock' \in [Object -> Caller \cup {NoCaller}]
         /\ \A p \in Object, d \in Caller : d # c /\ lock[p] = d => lock'[p] = d
  BY DEF ObjectTypeOK

(* A bind commits its link while the row it has locked is READY.           *)
LEMMA BindCommitIInv ==
  ASSUME ObjectIInv, NEW c \in Caller, BindCommit(c)
  PROVE  ObjectIInv' /\ \A o \in bound' \ bound : Ready(o)
  <1> DEFINE o == call[c].object
  <1>0. /\ ObjectTypeOK /\ call[c].step = "bind:commit" /\ o \in Object
        /\ UNCHANGED <<row, blobs, known, granted, erased, missed, storageFaults>>
        /\ bound' = bound \cup {o} /\ lock' = [lock EXCEPT ![o] = NoCaller]
        /\ Moves(c, "idle", NoObject)
    BY ReturnMoves DEF ObjectIInv, RowsAndBlobsAgree, BindCommit
  <1>1. lock[o] = c /\ Ready(o) /\ o \in known
    BY <1>0 DEF ObjectIInv, BindersLock, UsersKnow, Using
  <1>2. /\ lock' \in [Object -> Caller \cup {NoCaller}]
        /\ \A p \in Object, d \in Caller : d # c /\ lock[p] = d => lock'[p] = d
    BY <1>0, <1>1, FreeLock
  <1>3. \A d \in Caller : call[d].step # "idle" => call[d].object \in Object
    BY <1>0 DEF ObjectTypeOK, Frame
  <1>4. RowsAndBlobsAgree'
    BY <1>0, <1>2 DEF ObjectIInv, RowsAndBlobsAgree, ObjectTypeOK, Moves
  <1>5. CreatorsAlone'
    BY <1>0, <1>3, ObjectConstants DEF ObjectIInv, CreatorsAlone, Creating, Moves
  <1>6. UsersKnow'
    BY <1>0 DEF ObjectIInv, UsersKnow, Using, Moves
  <1>7. KnownObjects'
    BY <1>0, <1>1 DEF ObjectIInv, KnownObjects
  <1>8. BindersLock'
    BY <1>0, <1>2, <1>3 DEF ObjectIInv, BindersLock, Ready, Moves
  <1> QED BY <1>0, <1>1, <1>4, <1>5, <1>6, <1>7, <1>8 DEF ObjectIInv

(* A failure undoes the row of an ingest, which nobody else has seen.      *)
LEMMA FailIInv ==
  ASSUME ObjectIInv, NEW c \in Caller, Fail(c)
  PROVE  ObjectIInv'
  <1> DEFINE o == call[c].object
  <1>0. /\ ObjectTypeOK /\ call[c].step # "idle" /\ o \in Object
        /\ UNCHANGED <<blobs, known, bound, granted, erased, missed>>
        /\ Moves(c, "idle", NoObject) /\ storageFaults' \in 0..MaxStorageFaults
    BY ReturnMoves, ObjectConstants DEF ObjectIInv, RowsAndBlobsAgree, ObjectTypeOK, Fail
  <1>1. /\ row' \in [Object -> RecordRow]
        /\ \A p \in Object : p # o => row'[p] = row[p]
        /\ row'[o] # row[o] => row[o].state = "inserting" /\ row'[o].state = "none"
    BY <1>0 DEF ObjectTypeOK, Fail, RecordRow, RowState
  <1>2. /\ lock' \in [Object -> Caller \cup {NoCaller}]
        /\ \A p \in Object, d \in Caller : d # c /\ lock[p] = d => lock'[p] = d
    BY <1>0, FreeLock DEF Fail
  <1>3. \A d \in Caller : call[d].step # "idle" => call[d].object \in Object
    BY <1>0 DEF ObjectTypeOK, Frame
  <1>4. row'[o] # row[o] => call[c].step \in Creating
    BY <1>0 DEF Fail, Creating
  <1>5. RowsAndBlobsAgree'
    BY <1>0, <1>1, <1>2 DEF ObjectIInv, RowsAndBlobsAgree, ObjectTypeOK, Moves
  <1>6. CreatorsAlone'
    BY <1>0, <1>1, <1>3, <1>4, ObjectConstants DEF ObjectIInv, CreatorsAlone, Creating, Moves
  <1>7. UsersKnow'
    BY <1>0 DEF ObjectIInv, UsersKnow, Using, Moves
  <1>8. KnownObjects'
    BY <1>0, <1>1 DEF ObjectIInv, KnownObjects, ObjectTypeOK
  <1>9. BindersLock'
    BY <1>0, <1>1, <1>2, <1>3 DEF ObjectIInv, BindersLock, Ready, Moves
  <1> QED BY <1>5, <1>6, <1>7, <1>8, <1>9 DEF ObjectIInv
-----------------------------------------------------------------------------
(* Every step keeps the invariant.                                         *)
LEMMA ObjectNextIInv == ObjectIInv /\ [ObjectNext]_objectVars => ObjectIInv'
  <1> SUFFICES ASSUME ObjectIInv, [ObjectNext]_objectVars PROVE ObjectIInv'
    OBVIOUS
  <1>1. CASE UNCHANGED objectVars
    BY <1>1 DEF objectVars, ObjectIInv, RowsAndBlobsAgree, ObjectTypeOK, CreatorsAlone, UsersKnow, KnownObjects,
                BindersLock, Ready
  <1>2. CASE ObjectNext
    BY <1>2, CreateRowIInv, StoreBlobIInv, IngestCommitIInv, UseIInv, FetchIInv, DeleteBlobIInv,
       DeleteMarkIInv, BindCommitIInv, FailIInv
       DEF ObjectNext, Continue, Begin
  <1> QED BY <1>1, <1>2

(* What nobody knows nobody touches, and what was returned is there until  *)
(* a delete takes it.                                                      *)
THEOREM ObjectInvariant == ObjectSpec => []ObjectIInv
  BY ObjectInitIInv, ObjectNextIInv, PTL DEF ObjectSpec

(* Whatever upload fails and whatever ingest is rolled back, a reader that *)
(* found a READY row misses its blob only after a delete of that object,   *)
(* and a DELETED row has no blob that nobody could remove any more.        *)
THEOREM ObjectsAgree == ObjectSpec => []RowsAndBlobsAgree
  <1>1. ObjectIInv => RowsAndBlobsAgree
    BY DEF ObjectIInv
  <1> QED BY <1>1, ObjectInvariant, PTL

(* bindToGoalVersion links an attachment only while its record is READY,   *)
(* although the check and the commit are two steps: the row lock keeps     *)
(* the UPDATE of delete out.                                               *)
THEOREM LinksOnlyReady == ObjectSpec => BoundWhileReady
  <1>1. ObjectIInv /\ [ObjectNext]_objectVars => [\A o \in bound' \ bound : row[o].state = "READY"]_objectVars
    <2> SUFFICES ASSUME ObjectIInv, ObjectNext PROVE \A o \in bound' \ bound : row[o].state = "READY"
      OBVIOUS
    <2>1. PICK c \in Caller : Continue(c) \/ Fail(c) \/ \E o \in Object : Begin(c, o)
      BY DEF ObjectNext
    <2>2. CASE BindCommit(c)
      BY <2>2, BindCommitIInv DEF Ready
    <2>3. CASE ~BindCommit(c)
      <3>1. bound' = bound
        BY <2>1, <2>3 DEF Continue, Fail, Begin, PutRow, IngestRow, ReadRow, RetrieveRow, DeleteRow,
             BindRow, PutBlob, IngestBlob, IngestCommit, RetrieveGrant, FetchBlob, DeleteBlob,
             DeleteMark
      <3> QED BY <3>1
    <2> QED BY <2>2, <2>3
  <1> QED BY <1>1, ObjectInvariant, PTL DEF ObjectSpec, BoundWhileReady
=============================================================================
