-------------------------- MODULE Lifecycle_proofs --------------------------
(* Proofs about Lifecycle, for any holders and any number of removals.       *)
EXTENDS Lifecycle, TLAPS

LIInv == TypeInvariant /\ CredentialsTell

(* The initial states satisfy the inductive invariant: no credential is     *)
(* good for anything yet.                                                   *)
LEMMA LInit == Init => LIInv
  BY DEF Init, LIInv, TypeInvariant, CredentialsTell, epoch

(* A new credential is only handed to a member, and nobody leaves.          *)
LEMMA LAdd ==
  ASSUME LIInv, NEW new \in SUBSET Holders, NEW served \in SUBSET Holders, Add(new, served)
  PROVE  LIInv'
<1>1. TypeInvariant'
  BY DEF LIInv, TypeInvariant, Add, epoch
<1>2. CredentialsTell'
  <2> SUFFICES ASSUME NEW h \in Holders, cred'[h] # 0,
                      \A e \in cred'[h] .. Len(revoked') : h \notin revoked'[e]
               PROVE  h \in members'
    BY DEF CredentialsTell
  <2>1. CASE h \in served
    BY <2>1 DEF Add
  <2>2. CASE h \notin served
    BY <2>2 DEF Add, LIInv, TypeInvariant, CredentialsTell
  <2> QED BY <2>1, <2>2
<1> QED BY <1>1, <1>2 DEF LIInv

(* Who leaves is named by the revocation that is appended.                  *)
LEMMA LRevoke ==
  ASSUME LIInv, NEW out \in SUBSET Holders, Revoke(out)
  PROVE  LIInv'
<1>1. TypeInvariant'
  BY DEF LIInv, TypeInvariant, Revoke, epoch
<1>2. CredentialsTell'
  <2> SUFFICES ASSUME NEW h \in Holders, cred'[h] # 0,
                      \A e \in cred'[h] .. Len(revoked') : h \notin revoked'[e]
               PROVE  h \in members'
    BY DEF CredentialsTell
  <2>1. /\ cred' = cred /\ cred[h] \in 0 .. (Len(revoked) + 1)
        /\ Len(revoked) \in Nat /\ Len(revoked') = Len(revoked) + 1
        /\ revoked'[Len(revoked) + 1] = out
        /\ \A e \in 1 .. Len(revoked) : revoked'[e] = revoked[e]
    BY DEF LIInv, TypeInvariant, Revoke, epoch
  <2>2. h \notin out
    BY <2>1
  <2>3. \A e \in cred[h] .. Len(revoked) : h \notin revoked[e]
    BY <2>1
  <2>4. h \in members
    BY <2>1, <2>3 DEF LIInv, CredentialsTell
  <2> QED BY <2>2, <2>4 DEF Revoke
<1> QED BY <1>1, <1>2 DEF LIInv

(* No revocation names the holder of a refreshed credential in the epochs   *)
(* it was carried past; those it has left were left to it before.           *)
LEMMA LRefresh ==
  ASSUME LIInv, NEW r \in Holders, Refresh(r)
  PROVE  LIInv'
<1>0. /\ Len(revoked) \in Nat /\ epoch = Len(revoked) + 1
      /\ cred \in [Holders -> 0 .. epoch]
  BY DEF LIInv, TypeInvariant, epoch
<1>1. PICK e \in (cred[r] + 1) .. epoch :
        /\ \A k \in cred[r] .. (e - 1) : r \notin revoked[k]
        /\ cred' = [cred EXCEPT ![r] = e]
  BY DEF Refresh
<1>2. cred[r] \in 1 .. epoch /\ e \in 0 .. epoch /\ UNCHANGED <<members, revoked>>
  BY <1>0, <1>1 DEF Refresh
<1>3. TypeInvariant'
  BY <1>0, <1>1, <1>2 DEF LIInv, TypeInvariant, epoch
<1>4. CredentialsTell'
  <2> SUFFICES ASSUME NEW h \in Holders, cred'[h] # 0,
                      \A k \in cred'[h] .. Len(revoked) : h \notin revoked[k]
               PROVE  h \in members
    BY <1>2 DEF CredentialsTell
  <2>1. CASE h = r
    <3>1. cred'[r] = e
      BY <1>0, <1>1
    <3>2. \A k \in cred[r] .. Len(revoked) : k \in cred[r] .. (e - 1) \/ k \in e .. Len(revoked)
      BY <1>0, <1>2
    <3>3. \A k \in cred[r] .. Len(revoked) : r \notin revoked[k]
      BY <1>1, <2>1, <3>1, <3>2
    <3> QED BY <1>2, <2>1, <3>3 DEF LIInv, CredentialsTell
  <2>2. CASE h # r
    BY <1>0, <1>1, <2>2 DEF LIInv, CredentialsTell
  <2> QED BY <2>1, <2>2
<1> QED BY <1>3, <1>4 DEF LIInv

(* A ruined credential claims nothing, and one that fell back to the epoch  *)
(* its holder's revocation ended is contradicted by that revocation.        *)
LEMMA LRuin ==
  ASSUME LIInv, NEW r \in Holders, Spoil(r) \/ Relapse(r)
  PROVE  LIInv'
<1>0. Len(revoked) \in Nat
  BY DEF LIInv, TypeInvariant
<1>1. TypeInvariant'
  BY <1>0 DEF LIInv, TypeInvariant, Spoil, Relapse, epoch
<1>2. CredentialsTell'
  <2> SUFFICES ASSUME NEW h \in Holders, cred'[h] # 0,
                      \A e \in cred'[h] .. Len(revoked) : h \notin revoked[e]
               PROVE  h \in members
    BY DEF CredentialsTell, Spoil, Relapse
  <2>1. h # r
    <3>1. CASE Spoil(r)
      BY <3>1 DEF Spoil, LIInv, TypeInvariant
    <3>2. CASE Relapse(r)
      <4>1. PICK e \in 1 .. Len(revoked) : revoked[e] = {r} /\ cred' = [cred EXCEPT ![r] = e]
        BY <3>2 DEF Relapse
      <4>2. cred'[r] = e
        BY <4>1 DEF LIInv, TypeInvariant
      <4> QED BY <4>1, <4>2, <1>0
    <3> QED BY <3>1, <3>2
  <2> QED BY <2>1 DEF Spoil, Relapse, LIInv, TypeInvariant, CredentialsTell
<1> QED BY <1>1, <1>2 DEF LIInv

(* Every reachable state satisfies the inductive invariant.                 *)
THEOREM LInvariance == Spec => []LIInv
<1>1. LIInv /\ [Next]_vars => LIInv'
  <2> SUFFICES ASSUME LIInv, [Next]_vars PROVE LIInv'
    OBVIOUS
  <2>1. CASE UNCHANGED vars
    BY <2>1 DEF vars, LIInv, TypeInvariant, CredentialsTell, epoch
  <2>2. CASE Next
    BY <2>2, LAdd, LRevoke, LRefresh, LRuin DEF Next
  <2> QED BY <2>1, <2>2
<1> QED BY LInit, <1>1, PTL DEF Spec

(* Whoever's credential is good for the current epoch is a member, for any  *)
(* set of holders: the promise the accumulator is compared with.            *)
THEOREM OnlyMembers == Spec => []OnlyMembersPresent
<1>1. LIInv => OnlyMembersPresent
  BY DEF LIInv, TypeInvariant, CredentialsTell, OnlyMembersPresent, CanPresent, epoch
<1> QED BY LInvariance, <1>1, PTL

(* A credential never claims an epoch its holder was not a member through.  *)
THEOREM CredentialsTrue == Spec => []CredentialsTell
<1>1. LIInv => CredentialsTell
  BY DEF LIInv
<1> QED BY LInvariance, <1>1, PTL
=============================================================================
