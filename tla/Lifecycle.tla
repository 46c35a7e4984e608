----------------------------- MODULE Lifecycle ------------------------------
(***************************************************************************)
(* What an accumulator mechanism promises across the lifecycle phases the  *)
(* benchmark compares (README.md, "Lifecycle phases"): (ii) Add, (iii)     *)
(* Revocation, (iv) Holder Update, and the check that (v) Presentation and *)
(* (vi) Verification rest on.  No algebra: a credential is good for one    *)
(* epoch or for none, and an epoch ends when a revocation is published.    *)
(***************************************************************************)
EXTENDS Integers, Sequences

CONSTANTS Holders, MaxRemovals

VARIABLES
  members,    \* the holders that are accumulated
  revoked,    \* revoked[e]: whose revocation ended epoch e
  cred        \* the epoch a holder's credential is good for; 0 for none

vars == <<members, revoked, cred>>

epoch == Len(revoked) + 1

Init ==
  /\ members \in SUBSET Holders
  /\ revoked = << >>
  /\ cred = [h \in Holders |-> 0]

(* A mistake: credentials are served to holders that are not accumulated.   *)
AddServesAnyone(new, served) ==
  /\ members' = members \cup new
  /\ cred' = [h \in Holders |-> IF h \in served THEN epoch ELSE cred[h]]
  /\ UNCHANGED revoked

(* (ii) Add: nobody's credential changes but that of the holders served.    *)
Add(new, served) ==
  /\ served \subseteq members \cup new
  /\ members' = members \cup new
  /\ cred' = [h \in Holders |-> IF h \in served THEN epoch ELSE cred[h]]
  /\ UNCHANGED revoked

(* (iii) Revocation: an epoch ends, and with it every credential's currency.*)
Revoke(out) ==
  /\ Len(revoked) < MaxRemovals
  /\ out # {} /\ out \subseteq members
  /\ members' = members \ out
  /\ revoked' = Append(revoked, out)
  /\ UNCHANGED cred

(* A mistake: the update of a holder's own revocation carries it over.      *)
RefreshAnyone(h) ==
  /\ cred[h] # 0
  /\ \E e \in (cred[h] + 1) .. epoch : cred' = [cred EXCEPT ![h] = e]
  /\ UNCHANGED <<members, revoked>>

(* (iv) Holder Update: an update carries a credential over to a later       *)
(* epoch, unless the holder was revoked on the way.  The next epoch, as a   *)
(* rule; one update can make up for several revocations at once.            *)
Refresh(h) ==
  /\ cred[h] # 0
  /\ \E e \in (cred[h] + 1) .. epoch :
       /\ \A k \in cred[h] .. (e - 1) : h \notin revoked[k]
       /\ cred' = [cred EXCEPT ![h] = e]
  /\ UNCHANGED <<members, revoked>>

(* An update applied out of turn ruins the credential.                      *)
Spoil(h) ==
  /\ cred[h] # 0
  /\ cred' = [cred EXCEPT ![h] = 0]
  /\ UNCHANGED <<members, revoked>>

(* The update of a holder's own revocation sets its credential back to the  *)
(* epoch which that revocation ended, an epoch the holder was a member in.  *)
Relapse(h) ==
  /\ \E e \in 1 .. Len(revoked) :
       revoked[e] = {h} /\ cred' = [cred EXCEPT ![h] = e]
  /\ UNCHANGED <<members, revoked>>

Next ==
  \/ \E new, served \in SUBSET Holders : Add(new, served)
  \/ \E out \in SUBSET Holders : Revoke(out)
  \/ \E h \in Holders : Refresh(h) \/ Spoil(h) \/ Relapse(h)

Spec == Init /\ [][Next]_vars

-----------------------------------------------------------------------------
(* What a verifier that is up to date accepts.                              *)
CanPresent(h) == cred[h] = epoch

TypeInvariant ==
  /\ members \subseteq Holders
  /\ revoked \in Seq(SUBSET Holders)
  /\ cred \in [Holders -> 0 .. epoch]

(* A credential tells the truth about its holder: if no revocation since    *)
(* the epoch it is good for names the holder, the holder is a member.       *)
CredentialsTell ==
  \A h \in Holders :
    cred[h] # 0 /\ (\A e \in cred[h] .. Len(revoked) : h \notin revoked[e])
      => h \in members

(* Only a member's credential is good for the current epoch, through any    *)
(* sequence of additions, revocations, re-admissions and updates.           *)
OnlyMembersPresent == \A h \in Holders : CanPresent(h) => h \in members
=============================================================================
