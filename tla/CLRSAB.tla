------------------------------- MODULE CLRSAB -------------------------------
(***************************************************************************)
(* The CL-RSA-B accumulator (accumulators/cl-rsa-b): the issuer that holds *)
(* the trapdoor, inserts and revokes elements and publishes one update per *)
(* revocation, and the holders that bring their membership witnesses up to *)
(* date from what was published.                                           *)
(*                                                                         *)
(* A holder is identified with the element (a prime) it was issued.        *)
(* Published updates and copies of the accumulator carry no number         *)
(* (update.rs, accumulator.rs:18), so nothing in update() can notice that  *)
(* a holder applies one twice, skips one, or combines it with the          *)
(* accumulator of another moment: HolderUpdate allows all of it.           *)
(***************************************************************************)
EXTENDS RSAGroup, Sequences

CONSTANTS
  Elements,         \* the primes hash_to_prime returns for the holders
  InitialValues,    \* the random residues new_with_elements may start from
  DebugAssertions,  \* TRUE in a debug build: debug_assert! panics
  MemberOnly,       \* TRUE when callers revoke accumulated elements only, and
                    \* issue witnesses for no others
  MaxRemovals,      \* bound: number of published removals
  MaxSlips          \* bound: number of updates holders apply out of turn

ASSUME ElementsAssumption ==
  /\ Elements \subseteq Nat \ {0, 1}
  /\ IsFiniteSet(Elements)

ASSUME ParameterAssumption ==
  /\ InitialValues \subseteq Group
  /\ DebugAssertions \in BOOLEAN
  /\ MemberOnly \in BOOLEAN
  /\ MaxRemovals \in Nat
  /\ MaxSlips \in Nat

NoWitness == -1     \* a holder that was never handed a witness

VARIABLES
  value,      \* self.value
  elements,   \* all_elements, kept by the caller of the accumulator
  published,  \* the x of every Removal update, in order of publication
  wit,        \* the u of each holder's Membership witness
  history,    \* [value, items, removed] for each epoch (see below)
  synced,     \* history variable: epoch a holder is up to date with: its
              \* updates account for each removal before it; 0 = lost
  slips       \* number of updates applied out of turn

vars == <<value, elements, published, wit, history, synced, slips>>

(***************************************************************************)
(* Epoch e is the time between publication of removal e-1 and removal e.   *)
(* history[e].value is the copy of the accumulator others may hold of that *)
(* epoch; items (the elements accumulated at some time in the epoch) and   *)
(* removed (the elements whose revocation began it) are used by the        *)
(* properties only.                                                        *)
(***************************************************************************)
Epoch == Len(history)

Product(items) == ProductSet(items)

(* invert(phi) of every exponent the issuer divides out, tabulated.         *)
Exponents     == Elements \cup { Product(D) : D \in SUBSET Elements }
NoInverse     == -1
invert        == [x \in Exponents |-> IF Inverses(x) = {} THEN NoInverse
                                      ELSE CHOOSE y \in Inverses(x) : TRUE]
Invertible(x) == invert[x] # NoInverse

(* extended_gcd of a holder's element and what may be published, tabulated. *)
extended_gcd == [x \in Elements |-> [y \in Exponents |-> GcdResults(x, y)]]

-----------------------------------------------------------------------------
(* The accumulator's operations, as functions of its value.                *)

verify_mem(acc, item, u) == modpow(u, item) = acc

witness_mem(acc, item) == modpow(acc, invert[item])

(* Mistakes in update: the coefficients swapped; the last product not       *)
(* reduced; the witness returned as it is, as for an insertion.             *)
UpdateSwapped(acc, u, r)   == modmul(modpow(u, r.a), modpow(acc, r.b))
UpdateUnreduced(acc, u, r) == modpow(u, r.b) + modpow(acc, r.a)
UpdateSkipped(acc, u, r)   == u

(* update() on a Removal: the new u, for the Bezout pair r that             *)
(* extended_gcd(x, xtilde) returns.  On an Insertion it returns u.clone(),  *)
(* so a holder that consumes one takes no step here.                        *)
update(acc, u, r) == modmul(modpow(u, r.b), modpow(acc, r.a))

-----------------------------------------------------------------------------
Init ==
  /\ value \in InitialValues
  /\ elements \in SUBSET Elements
  /\ published = << >>
  /\ wit = [x \in Elements |-> NoWitness]
  /\ history = << [value |-> value, items |-> elements, removed |-> {}] >>
  /\ synced = [x \in Elements |-> 0]
  /\ slips = 0

(* A mistake: the value is raised to the elements, as in an accumulator     *)
(* whose witnesses follow insertions too.                                   *)
AccumulateIntoValue(items) ==
  /\ value' = modpow(value, Product(items))
  /\ elements' = elements \cup items
  /\ history' = [history EXCEPT ![Epoch].items = @ \cup items,
                                ![Epoch].value = value']
  /\ UNCHANGED <<published, slips>>

Accumulate(items) ==
  /\ elements' = elements \cup items
  /\ history' = [history EXCEPT ![Epoch].items = @ \cup items]
  /\ UNCHANGED <<value, published, slips>>

HandOver(x) ==
  /\ wit' = [wit EXCEPT ![x] = witness_mem(value, x)]
  /\ synced' = [synced EXCEPT ![x] = Epoch]

(* insert: the value stays, the new element gets its witness.               *)
insert(x) ==
  /\ DebugAssertions => x \notin elements
  /\ Invertible(x)
  /\ Accumulate({x})
  /\ HandOver(x)

(* insert_batch: the witness of the product is dropped, so nobody gets one. *)
(* No caller passes an empty batch (params.rs:7-10), here or below.         *)
(* The assertion looks for the reduced product, not for the items, in the   *)
(* caller's list.                                                           *)
insert_batch(items) ==
  /\ items # {}
  /\ DebugAssertions => Product(items) % Phi \notin elements
  /\ Invertible(Product(items))
  /\ Accumulate(items)
  /\ UNCHANGED <<wit, synced>>

(* The issuer computes a witness for an accumulated element on its own;     *)
(* that it is one, witness_mem only asserts.                                *)
issue_witness(x) ==
  /\ DebugAssertions \/ MemberOnly => x \in elements
  /\ Invertible(x)
  /\ HandOver(x)
  /\ UNCHANGED <<value, elements, published, history, slips>>

(* Mistakes in a removal: the value left as it was; the product reduced     *)
(* modulo phi before it is published.                                       *)
SubtractKeepsValue(item, items) ==
  /\ Len(published) < MaxRemovals
  /\ Invertible(item)
  /\ elements' = elements \ items
  /\ published' = Append(published, item)
  /\ history' = Append(history, [value |-> value, items |-> elements', removed |-> items])
  /\ UNCHANGED <<value, wit, synced, slips>>

SubtractReduced(item, items) ==
  /\ Len(published) < MaxRemovals
  /\ Invertible(item)
  /\ value' = modpow(value, invert[item])
  /\ elements' = elements \ items
  /\ published' = Append(published, item % Phi)
  /\ history' = Append(history, [value |-> value', items |-> elements', removed |-> items])
  /\ UNCHANGED <<wit, synced, slips>>

(* remove and update_after_remove share this body; `item` is what the       *)
(* accumulator divides out and publishes, `items` leave the caller's list.  *)
Subtract(item, items) ==
  /\ Len(published) < MaxRemovals
  /\ Invertible(item)
  /\ value' = modpow(value, invert[item])
  /\ elements' = elements \ items
  /\ published' = Append(published, item)
  /\ history' = Append(history, [value   |-> value',
                                 items   |-> elements',
                                 removed |-> items])
  /\ UNCHANGED <<wit, synced, slips>>

remove(x) ==
  /\ DebugAssertions \/ MemberOnly => x \in elements
  /\ Subtract(x, {x})

(* remove_batch / update_after_remove_batch: the product is pushed on a     *)
(* copy of the list before the assertion looks for it there, so the         *)
(* assertion never fires.                                                   *)
remove_batch(items) ==
  LET batch == Product(items)
      elems == elements \cup {batch}
  IN  /\ items # {}
      /\ MemberOnly => items \subseteq elements
      /\ DebugAssertions => batch \in elems
      /\ Subtract(batch, items)

-----------------------------------------------------------------------------
(* The x of an update accounts for the removals that ended the epochs from  *)
(* s to j - 1 when it is the product of what they published: dividing that  *)
(* out of x, the latest first, leaves 1.                                    *)
Quotient(a, b) == IF a % b = 0 THEN a \div b ELSE 0

Covers(x, s, j) ==
  LET rest[n \in 0 .. (j - s)] ==
        IF n = 0 THEN x ELSE Quotient(rest[n - 1], published[j - n])
  IN  rest[j - s] = 1

(* Then it takes a holder of epoch s to epoch j, if combined with the copy  *)
(* of that epoch: mostly to the next epoch, with the update that began it   *)
(* or another of the same elements, but over several epochs when elements   *)
(* removed one by one were also removed together, before or after.          *)
Accounts(h, i, j) ==
  synced[h] # 0 /\ j > synced[h] /\ Covers(published[i], synced[h], j)

InTurn(h, i, j) == Accounts(h, i, j) /\ j = synced[h] + 1

(* A holder applies published update i with the accumulator of epoch j.     *)
(* When the update removes the holder's own element the two are not coprime *)
(* and the debug assertion fails; in a release build the pair (0, 1) leaves *)
(* the witness as it was and the pair (1, 0) replaces it.                   *)
HolderUpdate(h, i, j) ==
  /\ wit[h] # NoWitness
  /\ InTurn(h, i, j) \/ slips < MaxSlips
  /\ \E r \in extended_gcd[h][published[i]] :
       /\ DebugAssertions => r.gcd = 1
       /\ wit' = [wit EXCEPT ![h] = update(history[j].value, wit[h], r)]
       /\ synced' = [synced EXCEPT ![h] =
                       CASE r.gcd = 1 /\ Accounts(h, i, j) -> j
                         [] r.gcd = 1 /\ ~Accounts(h, i, j) -> 0
                         [] r.gcd # 1 -> IF r.a = 0 THEN @ ELSE 0]
  /\ slips' = IF InTurn(h, i, j) THEN slips ELSE slips + 1
  /\ UNCHANGED <<value, elements, published, history>>

Next ==
  \/ \E x \in Elements : insert(x) \/ issue_witness(x) \/ remove(x)
  \/ \E items \in SUBSET Elements : insert_batch(items) \/ remove_batch(items)
  \/ \E h \in Elements, i \in 1..Len(published), j \in 1..Epoch :
       HolderUpdate(h, i, j)

Spec == Init /\ [][Next]_vars

-----------------------------------------------------------------------------
(***************************************************************************)
(* Properties.                                                             *)
(***************************************************************************)
Witness == Group \cup {NoWitness}

(* The value, every copy of it and every witness stay residues, and each   *)
(* published removal begins exactly one epoch.                             *)
TypeOK ==
  /\ value \in Group
  /\ elements \subseteq Elements
  /\ published \in Seq(Exponents)
  /\ wit \in [Elements -> Witness]
  /\ history \in Seq([value: Group, items: SUBSET Elements, removed: SUBSET Elements])
  /\ Epoch = Len(published) + 1
  /\ synced \in [Elements -> 0..Epoch]
  /\ slips \in 0..MaxSlips

(* What is published explains every copy of the accumulator: raising the    *)
(* value of an epoch to the x that began it gives the value before, so      *)
(* insertions leave no trace and each removal divides out what it says.     *)
PublishedExplainsValues ==
  /\ value = history[Epoch].value
  /\ \A i \in 1..Len(published) :
       modpow(history[i + 1].value, published[i]) = history[i].value

Verifies(h, e) ==
  wit[h] # NoWitness /\ verify_mem(history[e].value, h, wit[h])

(* Completeness: a holder that was handed a witness and whose updates since *)
(* account for every removal once, in order, each applied with the copy of  *)
(* the epoch it leads to, passes verify_mem for the epoch it has reached    *)
(* (accumulator.rs:57-69).                                                  *)
InSyncVerifies ==
  \A h \in Elements : synced[h] # 0 => Verifies(h, synced[h])

(* The inductive invariant: what makes a step of HolderUpdate keep a holder *)
(* in sync is that the published x and the values on both sides of it fit.  *)
IInv == TypeOK /\ PublishedExplainsValues /\ InSyncVerifies

(* The update of its own removal leaves a holder in a release build with    *)
(* the value after it, a witness for the epoch which that removal ended.    *)
Relapsed(h, e) ==
  /\ e \in 1..Len(published)
  /\ history[e + 1].removed = {h}
  /\ wit[h] = history[e + 1].value

(* verify_mem is a complete check of a holder's history of updates: it      *)
(* accepts a witness for the epoch that the updates account for, or for the *)
(* one its own removal ended, and for no other.  One update that was        *)
(* skipped, repeated, applied out of order or combined with the copy of     *)
(* another moment spoils the witness, and one from before a revocation does *)
(* not come back to life when the element is inserted again.  It is no      *)
(* check of which updates were applied: one whose x is the product of       *)
(* several removals stands for all of them, though the holder skipped them. *)
VerifyDetectsBadUpdate ==
  \A h \in Elements, e \in 1..Epoch :
    Verifies(h, e) <=> synced[h] = e \/ Relapsed(h, e)

(* A revoked holder's witness verifies against the accumulator of no epoch  *)
(* that began after its revocation, whatever updates it applies; nor does   *)
(* anybody's against an epoch in which the element was not accumulated.     *)
OnlyAccumulatedVerify ==
  \A h \in Elements, e \in 1..Epoch :
    Verifies(h, e) => h \in history[e].items

(* The published x of a batch is the raw product.  Its difference to the    *)
(* product, which every observer of the elements can compute, is no         *)
(* non-zero multiple of phi (subtractive.rs:52-56).                         *)
PublishesNoPhiMultiple ==
  \A i \in 1..Len(published) :
    LET d == Product(history[i + 1].removed) - published[i]
    IN  d % Phi = 0 => d = 0

(* Static updates (accumulator.rs:11-13): a holder whose witness verifies   *)
(* against the current accumulator loses that only to a removal or to an    *)
(* update it applies itself, never to an insertion or another's issuance.   *)
OnlyRemovalsInvalidate ==
  [][\A h \in Elements :
       Verifies(h, Epoch) /\ ~Verifies(h, Epoch)' =>
         \/ Len(published') > Len(published)
         \/ \E i \in 1..Len(published), j \in 1..Epoch : HolderUpdate(h, i, j)]_vars

-----------------------------------------------------------------------------
(* Refinement: what a holder's credential is good for is not bookkeeping    *)
(* but what verify_mem answers.                                             *)
GoodFor(h) ==
  LET good == { e \in 1..Epoch : Verifies(h, e) }
  IN  IF good = {} THEN 0 ELSE CHOOSE e \in good : TRUE

Abstract == INSTANCE Lifecycle WITH
  Holders <- Elements,
  members <- elements,
  revoked <- [e \in 1..Len(published) |-> history[e + 1].removed],
  cred    <- [h \in Elements |-> GoodFor(h)]

(* The accumulator and its witnesses keep the promises of Lifecycle.        *)
ImplementsLifecycle == Abstract!Spec
=============================================================================
