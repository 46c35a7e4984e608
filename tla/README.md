# Verification of anonymous-revocation-benchmark

TLA+ models, TLC runs and TLAPS proofs for the revocation mechanisms and the
mobile benchmark of this repository. Paths below are relative to the
repository; `cl-rsa-b/` stands for `accumulators/cl-rsa-b/src/`.

## 1. Inventory

| Component | Source | State it keeps | Operations |
|:--|:--|:--|:--|
| CL-RSA-B accumulator | `cl-rsa-b/{accumulator,additive,subtractive,positive,update,witness}.rs` | `value`, `modulus`; the caller keeps the element list, each holder a witness `u` | `new_with_elements`, `insert`, `insert_batch`, `witness_mem`, `remove`, `update_after_remove`, their batch forms, `update`, `verify_mem` |
| RSA helpers | `cl-rsa-b/helpers.rs`, crate `unknown_order` | none | safe primes, quadratic residues, `modpow`, `modmul`, `invert`, `extended_gcd` |
| Membership proof | `cl-rsa-b/{zk_positive,proof}.rs` | parameters, proof | `gen_param`, `hash_to_k_bits`, `prove_mem`, `verify_mem_proof` |
| Accumulator traits | `accumulators/common/src` | none | the contract every accumulator mechanism shares |
| KB21 cases | `src/bench_kb21.rs` | accumulator value, member set (`SimpleState`), witnesses, published Omega | `add`, `add_batch`, `get_membership_witness`, revocation message, `update_using_public_info_after_batch_updates`, prove, verify |
| Signed pairs, Holder Update | `src/bench_ecdsa.rs`, `src/bench_bbs_bpp.rs:443-502` | list of gaps, the holder's identifier | scan, signature check |
| Signed pairs, proofs | `src/bench_bbs_bpp.rs` | commitments and their randomness | composite proof, range proofs, verification; whole, and each part alone |
| CL-RSA-B cases | `src/bench_cl_rsa_b.rs` | setup structs | calls of the accumulator |
| Benchmark runner | `src/runner.rs`, `src/types.rs` | registered cases, locals of the case being run, results | `register`, `run`, `read_max_thermal_celsius`, statistics and output |
| `mobile_bench` | `src/main.rs` | flags, configuration | parse, banner, register, run, report, exit |
| `run-lf` | `scripts/android.sh` (`cmd_run_lf`) | JSON files on the phone and in a temporary directory | push, run, pull, check, merge |
| Server benchmarks | `benches/server.rs` | inside Criterion | Setup, Add and Revocation of all mechanisms |
| Other scripts | `scripts/*.sh`, `benchmarks/lf_verify_append.cc` | files on host and phone | cross-compile, push, run, collect |

**Interactions.** An issuer calls an accumulator and keeps its element list;
every removal returns an update that is published; a holder calls `update` with
a published update and a copy of the accumulator; a verifier checks witness or
proof against its own copy. Nothing numbers updates or copies, so their order is
entirely up to the callers. `main` registers the cases with the suite (their
setup runs at once), the suite calls them back and the results go back to
`main`. The runner shares the phone with nobody but its temperature, which
changes at any time. `run-lf` talks to the phone over `adb`, which may fail at
any call, and leaves its files there.

**Hard behaviours.** Updates skipped, repeated, reordered or combined with the
accumulator of another moment; a holder that applies the update of its own
revocation; an element revoked and admitted again; members published in another
form than they are accumulated in; stale witnesses in proofs; products larger
than phi; negative exponents and responses; differences that wrap in 64 bits
and are checked in a field; a thermal gate that waits for the environment; batch
arithmetic; percentiles of few samples; filters that must come before expensive
setup; sections of a table opened by a change of category; files of an earlier
run left on the phone; failures that print nothing under `set -euo pipefail`.
`PROJECT.json` lists each with its line.

**What makes each component correct.** Accumulators: every holder that follows
the updates in order keeps a valid witness, no other holder does, insertions
disturb nobody, only the revoked are refused. Membership proof: complete,
rejects stale witnesses, bound to its nonce. Signed pairs: the scan finds the
holder's gap and no other; the range proofs mean strictly inside, at any width
that fits. Runner: results stand for exactly the timed repetitions, statistics
describe them, no pause is missing or superfluous, runs end. `main`: measures
the selected cases and no others, one section for each category, keeps stdout
clean, tells an empty filter apart. `run-lf`: what is merged is what was
reported, and one repetition that fails does not cost the others.

## 2. Modules

| Module | Models | Built from |
|:--|:--|:--|
| `RSAGroup` | the group of quadratic residues, by discrete logarithm; the BigNumber operations | |
| `CLRSAB` | issuer and holders of CL-RSA-B | `RSAGroup`; instance of `Lifecycle` |
| `KB21` | issuer and holders of both KB21 constructions | instance of `Lifecycle` |
| `Lifecycle` | abstract specification: who is a member, which epoch a credential is good for | |
| `ZKMembership` | prover, verifier, random oracle | `RSAGroup` |
| `GapScan` | Holder Update of both signed-pair mechanisms | |
| `GapProof` | the BBS+ and range proofs, whole and in parts | |
| `SignedPairs` | one case of the signed pairs, either kind | `GapScan`, `GapProof` |
| `Stats` | `SampleStats::from_durations` | |
| `BenchRunner` | `BenchSuite::run` and the phone's temperature | `Stats` |
| `Catalogue` | what the `register` functions register, in order | |
| `MobileBench` | `main` | `Catalogue`, `BenchRunner` |
| `RunLf` | `cmd_run_lf` and the files on the phone | |
| `*_proofs` | lemmas and theorems | the module they are named after; `SignedPairs_proofs` also those of `GapScan` and `GapProof`, `MobileBench_proofs` those of `BenchRunner` and `Stats` |
| `MC*` | constants of the runs | the module they are named after |

An operator whose comment begins "A mistake" is no part of the model: it is the
form a plausible bug would give the definition after it, kept to show that the
properties notice it.

**RSAGroup.** A residue is its logarithm to a fixed generator of the cyclic
group of order p'q'; `modmul` adds, `modpow` multiplies. `invert(phi)` is an
inverse modulo (p-1)(q-1), which is four times the order, as in the code.
`GcdResults` is the pair Euclid's algorithm ends with when the element does not
divide the published number, and both trivial pairs when it does.

**CLRSAB.** `value`, `elements` and `wit` are the accumulator's value, the
caller's `all_elements` and each holder's `u`; `published` are the `x` of all
removals. `history` keeps the copy of each epoch, an epoch being the time
between two removals; `history[..].items`, `.removed`, `synced` and `slips` are
bookkeeping of the specification that no guard of the code reads. A holder is
named by its element, so re-admission gives the same element again, as
`hash_to_prime` would. `HolderUpdate(h, i, j)` applies any published update `i`
with the accumulator of any epoch `j`. The bookkeeping asks whether the update
accounts for the removals between the holder's epoch and `j` (`Accounts`): their
published numbers multiply to its `x`, as integers. `InTurn` adds that `j` is
the next epoch; anything else is a slip. `remove` stands for `remove` and
`update_after_remove`, whose bodies agree; likewise the batch forms.
`DebugAssertions` turns the `debug_assert!`s into guards (a panicking call has
no successor state), and `MemberOnly` restricts callers to elements that are
accumulated.

**KB21.** The crate `vb_accumulator` is not in the repository; its algebra is
the one the comment of `bench_kb21.rs` names, over discrete logarithms, and its
definitions are marked external. Calls, their order, what is published and what
the holder does with it come from `bench_kb21.rs` and `benches/server.rs`. A
member is accumulated as itself (non-adaptive) or as its image under `Prf`, a
fixed function of the secret key (adaptive). `Omega` is the published
polynomial, `Discriminant` is zero for a revoked holder, whose update is refused
and leaves the witness alone. `at` and `slips` are history variables.

**Lifecycle.** Members, revocations by epoch, and the one epoch (or none) a
credential is good for. Both accumulators implement it under a mapping that
reads the epoch off `verify_mem` (or the pairing equation), not off the
bookkeeping. `Refresh` may carry a credential over several epochs at once, as an
update does whose number is the product of several removals; the holder must not
be revoked on the way. `Spoil` and `Relapse` are what a misapplied update may do;
even those leave a revoked holder without a current credential.

**ZKMembership.** Exponents and responses are signed integers; commitments are
residues. The challenge of a transcript is drawn when it is first asked for and
remembered. The challenge zero, which an honest verifier meets with probability
2^-256, is left out; the assumption that challenges are smaller than p' and q'
is 2^256 against 2^1535. The prover follows `prove_mem` from any element and any
`u` of the group.

**GapScan, GapProof, SignedPairs.** The scan goes gap by gap over the lists both
builders make. In the proof a commitment is the pair it opens to, in a field of
order `F`, while the openings are computed modulo `U64`; `range` is 2^32, or
each width of the bit-width sweep. `kind` is the pair of cases: the whole proof,
BBS+ alone, BBS+ with commitments, one range proof, the aggregate, the sweep.
The benchmark proves a single triple of identifiers; the model signs and commits
to any two triples. The table of equalities exists twice, the prover's
(`ProverEqualities`) and the verifier's (`VerifierEqualities`), as in the code.
The BBS+ and range proof systems themselves are external, sound and complete.
`SignedPairs` runs one case, as the suite does.

**Stats, BenchRunner.** One action per step of `run`: a warm-up call, the gate,
a sleep at the gate, a timed repetition with the pause after it, the ends of
batch and case. `cur` holds the locals; `cur.measured` stands for the two
vectors pushed side by side. A repetition is the triple of what `case.func`
returns and the time it took. Statistics are exact, in hundredths of a
millisecond, where the code has `f64`. The final assertion on an empty sample is
`NoSamples`. Sorting puts each element at its `rank`, as a stable sort does, and
`statistics` are those of the sorted sequence. A zone reads degrees or
thousandths, an implausible number, or nothing. `NoLimit` is a configuration
without a limit, which one of 0 degrees is not: with that the gate stays closed
while any sensor reads.

**Catalogue, MobileBench.** The catalogue is the one the code registers, every
case of it. `args` are parsed flags; a missing or unparsable value is
`NoFlag`, because the code keeps no difference. The substring of `--case` is
the set of cases whose label contains it. `RegisterNext` looks at one case of
the catalogue, in the order of the code: `want` decides for its mechanism,
`register` for its label. `Run` is a step of `BenchRunner` on the cases that
were registered; `CaseNames`, `Jobs` and `Init` of that module are for its own
runs, `MainSpec` starts from a command line instead.

**RunLf.** A file is who wrote it (a repetition of this run, or an earlier run)
and whether the benchmark's entry is in it; the phone starts with any files
left over. `RunBench` may end before it opens its file, before it writes it, or
well; `Collect` may or may not pull it. `lost` is a history variable.

## 3. Runs

| Run | Checks | Bounds and why they are enough |
|:--|:--|:--|
| `clrsab_release` | `TypeOK`, `PublishedExplainsValues`, `InSyncVerifies`, `OnlyAccumulatedVerify`, `PublishesNoPhiMultiple`, `OnlyRemovalsInvalidate` | Release build; p = 83, q = 467; three elements, two removals, one slip (an update out of turn). Two removals allow each mistake: skip, repeat, exchange, wrong copy, revoke and re-admit, single after batch. The primes make each product of two elements exceed phi, as batches do, and keep distinct histories from meeting by accident in a group this small. |
| `clrsab_refines` | `VerifyDetectsBadUpdate`, `ImplementsLifecycle` | Release build; p = 47, q = 719; three elements, three removals, one slip: two elements removed together, admitted again and removed one by one, or the reverse, and a holder that applies the number of the batch to skip the single ones. The constraint `OneHolder` keeps the witness of one holder only, and has the other elements inserted again before the next removal: a holder's witness depends on nobody else's, and values depend on what is removed, not on who is accumulated besides. Several holders at once are in `clrsab_release`. |
| `lifecycle` | `CredentialsTell`, `OnlyMembersPresent` | Three holders, three revocations. |
| `kb21` | `UpdatedVerifies`, `OnlyRevokedRefused`, `ProofsExact`, `ImplementsLifecycle` | Three members, two revocations of one to three each, so that Omega has one to three coefficients; one update out of turn; a group of 2003 elements, in which no two histories meet by chance. |
| `zk_proofs` | `ProofComplete`, `StaleWitnessRejected`, `BoundToNonce`, `HonestWithinBound` | All 55 residues as witnesses, two elements, five values, two nonces, three draws at the ends of their ranges and inside, every challenge. |
| `signed_pairs` | `OnlyHit`, `UpdateSucceeds`, `AcceptsStrictlyInside`, `PartsAsClaimed`, `RangeStatementExact` | Lists of 1 to 40 gaps, both parities of `n / 2`. All triples of two-bit identifiers, signed and committed; a four-bit word and a field of 17, so that wrapped differences exist; widths below, at and above word and field. |
| `runner` | `RunTypeOK`, `ResultsFaithful`, `StatsDescribeSamples`, `NoIdleGate`, `PausesAddUp`, `EndsUnlessHot` | 0, 1, 3, 4 or 7 repetitions, batch size 0, 2 or 3: a cut last batch, a full one, the clamp to one, no repetition at all. Two cases, so that locals must start afresh. Three durations that round up, down and exactly; with seven samples the percentiles fall on ranks exactly, between and half way. |
| `mobile` | `SetupOnlySelected`, `ReportsTheSelection`, `OneSectionEach`, `CsvStdoutClean`, `EmptyFilterFails`, `QuickAlwaysEnds`, `FullEndsOnceCool` | The whole catalogue; quick and full runs scaled to one to three repetitions; one, another, an unknown or every mechanism; filters that match labels of several categories, of several mechanisms, or none; with and without `--csv`, `--json`, a thermal limit, one of 0 degrees included. |
| `run_lf` | `OwnOrLeftOver`, `MergeMatchesReport`, `AbortsOnlySilently`, `Ends` | Two benchmarks, zero to three repetitions, every pattern of failures and of files left on the phone. |
| `zk_bound`, `runner_fallback`, `mobile_json` | one property each | expected to be violated, see section 6 |

Deadlock checking is off where a program or a bounded history ends.

**What verification tells.** A witness of CL-RSA-B does *not* verify exactly for
those who applied exactly the published removals. An update carries no number,
and its `x` says what is divided out, not when. If a and b are removed together,
admitted again and then removed one by one, the `x` of the batch combined with
the current accumulator takes a holder from before the single removals to after
them, though it skipped both; and if they are removed one by one first, the `x`
of a later batch does the same for the earlier removals. This is no collision: it
happens with any primes, and in the released code. `Accounts` says which updates
do this, and `VerifyDetectsBadUpdate` is the equivalence with that exception
in it: `verify_mem` accepts a witness for the epoch the updates applied account
for (or the one which the holder's own removal ended), and for no other.
`OnlyAccumulatedVerify` is not touched by the exception: products that stand for
each other have the same factors, so a holder never skips its own removal.

Beyond that, different histories meet only if two residues happen to be equal,
which the small groups are chosen to avoid. `InSyncVerifies` is proved without
any such condition; the equivalence is proved with it as a premise (section 4).
In KB21 an update depends on the old value, and `ProofsExact` has no exception.

`MemberOnly` is TRUE in the runs, as every caller in the repository revokes
elements it has accumulated and issues witnesses for no others. Where a theorem
needs it, or the debug assertion in `witness_mem`, it is a premise (section 4);
the others hold for both values, and for both values of `DebugAssertions`.

### Fairness

Four specifications state weak fairness, each of a program with one thread.
`BenchRunner` and `MobileBench`: of the program's step; the operating system
schedules the thread again, and `sleep` returns. Nothing is assumed of the
temperature: `EndsUnlessHot` and `FullEndsOnceCool` have the phone staying cool
as their premise whenever a limit is set, and `QuickAlwaysEnds` needs none.
`SignedPairs`: the case goes on. `RunLf`: every command returns, the benchmark
does not run for ever and `adb` gives up at some time; the script sets no
time limit of its own. The accumulators have no fairness: nobody is obliged
to call them, so nothing is promised to happen.

## 4. Proofs

All theorems hold for every value of the constants that satisfies the named
assumptions, with no bound on holders, removals, repetitions or sizes.

* `CLRSAB_proofs`, from `Invariance`: `TypeCorrect`, `Completeness`,
  `Transparency`, `StaticUpdates`. The invariant is
  `IInv == TypeOK /\ PublishedExplainsValues /\ InSyncVerifies`.
  `InSyncVerifies` is not inductive alone: an update moves a witness from one
  epoch to the next only if the published number leads from the one value to
  the other, which is `PublishedExplainsValues`. The core is
  `UpdateCarriesOver`: with a Bezout pair of x and xtilde, the formula of
  `accumulator.rs:65-67` carries u^x = A over to u'^x = A' when A'^xtilde = A.
  `StaticUpdates` (`OnlyRemovalsInvalidate`) is an action property: `insert`
  leaves the value and every existing witness as they are.
  From `LabelInvariance`: `PublishesProducts` (`PublishesNoPhiMultiple`). The
  invariant `Labelled` says that each number published is the product of the
  set it removes.
  `KeepsContract` and `UpToDate`: the refinement of `Lifecycle` through the
  bookkeeping `synced`; by `Completeness` whoever has that credential has a
  witness that verifies. These two have `MemberOnly` as a premise. An update
  that accounts for several removals is one `Refresh`: divisors of a number
  coprime to the holder's element are not that element (`CoprimeNotRemoved`).
  From `MembershipInvariance`: `DetectsMissedUpdates`
  (`VerifyDetectsBadUpdate`) for callers of either kind and both builds, and
  `RevokedRejected` (`OnlyAccumulatedVerify`) where witnesses are issued to
  members only, by the callers' care or by the debug assertion
  (`IssuedToMembers`). `MInv` adds to `IInv` and `Labelled` that nobody leaves
  from one epoch to the next but who is named (`ItemsPassOn`, `PassesThrough`),
  that whoever follows an epoch was accumulated in it (`SyncedAccumulated`),
  and, while `slips = 0`, that a witness follows an epoch or is the value after
  its holder's own removal (`Followed`): these two are all that updates in turn
  can leave (`UpdateOutcomes`). The premises say that no two values meet:
  `ValuesDiffer` and, because the pair (1, 0) of a release build turns a witness
  into a value, `NoPowerMeets`. Both could fail only if what the issuer divides
  out multiplied to 1, or to a single element, modulo the order of the group.
  `Implements` (`ImplementsLifecycle`): under `MemberOnly`, and as long as
  `ValuesDiffer` and `VerifyDetectsBadUpdate` hold, every behaviour maps to one
  of `Lifecycle` with `GoodFor`, what `verify_mem` answers, for the credential.
  Slips are included, and none is ruled out by the premise but for a coincidence
  of residues: their witness is good for a later epoch if the update accounted
  for all removals on the way (`Refresh`), else for nothing (`Spoil`), or, after
  the holder's own removal, again for the epoch which that ended (`Relapse`).
  `ImplementsInTurn` has `slips = 0` and the premises of `DetectsMissedUpdates`
  in place of `VerifyDetectsBadUpdate`.
  `RSAGroup_proofs` has the arithmetic of congruences, and `InverseCong`: an
  inverse modulo phi is one in the exponent, because the order of the residues
  divides phi; and `ProductFacts`: the product over a finite set is a natural
  number and a multiple of each member, by induction over the size of the set
  (see below). Assumptions: `SafePrimes`, `ElementsAssumption` (a finite set of
  numbers above one), `ParameterAssumption`.
* `KB21_proofs`, from `KInvariance`: `UpdatesVerify` (`UpdatedVerifies`),
  `RefusesRevoked` (`OnlyRevokedRefused`), for a field of any prime order, any
  number of members, and batches of any size. The invariant says that keys,
  values and witnesses are scalars (`KTypes`), that each message is made of the
  set it revokes and leads from one value to the next (`KPublished`), and that a
  witness kept in order satisfies the equation of its epoch (`KGood`). The core
  is an identity between the coefficients of `Omega` and two products: `Omega`
  at x is the old value times some e for which e * (x + Alpha) is
  1 - Discriminant * Shrink (`OmegaEquation`), `Shrink` being the factor from
  the old value to the new one. Evaluation is by Horner's rule in the model and
  in the proof (`HornerSteps`, `EvaluateMulLinear`, `EvaluateAddScaled`).
  A discriminant is zero exactly if a factor is, and a factor is zero exactly if
  the holder's own image is among the revoked. `KeepsContract` and
  `UpToDate`: the refinement of `Lifecycle` through `at`.
  `StaleProofs` needs no premise: a witness that follows an epoch is accepted
  against exactly the values equal to that epoch's. So, with updates in turn
  and values that differ, `InTurnExact` (`ProofsExact`); and, as long as
  `ProofsExact` holds, `Implements` (`ImplementsLifecycle`): what the pairing
  equation answers is then the epoch a holder follows (`GoodWhereFollowed`), and
  each step of the first refinement is one of the second. Assumptions:
  `UnitsInvertible` (the order is prime), `NoCollision` (the pseudo-random
  function maps two members to two scalars), `KB21Assumption` (a finite set of
  members; neither a member nor its image is minus the key, where a witness
  would be undefined).
* `ZKMembership_proofs`: `Completeness` (`ProofComplete`), `StaleRejected`
  (`StaleWitnessRejected`), `HonestBound` (`HonestWithinBound`), `NonceBinds`
  (`BoundToNonce`), from `Invariance`. The invariant `ZInv` says that
  parameters are residues (`Sane`), that a proof is what `prove_mem` makes of
  what it was given (`Made`), and that a verdict is that of its equations
  (`Judged`). Those of openings and randomness hold for every witness
  (`OpeningEquation`, `RandomnessEquation`); the one of the value comes down to
  c * (u^x - value) = 0 in the exponent (`ValueEquation`), so
  `VerdictIsMembership` holds: the verdict is whether u^x is the value.
  `HonestBound` adds the widths of the two terms of a response. `NonceBinds`
  subtracts the equations under the two challenges: if they accept both, either
  the oracle gave two transcripts the same challenge, or both commitments are
  the identity and the powers of the two challenges meet. The property names
  these two exceptions; nothing else gets through.
  Assumptions: `SafePrimes`, `ZKAssumption`, `ChallengesInvertible` (a
  challenge is invertible modulo the order, being positive and smaller than
  both prime factors), `PowersOfTwo` (the laws of exponents that are used,
  which the provers do not know; TLC checks them for the sizes of the runs).
* `Lifecycle_proofs`: `OnlyMembers`, `CredentialsTrue`, from `TypeInvariant`
  and `CredentialsTell`; `OnlyMembersPresent` alone is not inductive, since
  `Refresh` needs to know what a credential for an older epoch says.
* `SignedPairs_proofs`: `ScanExact` (`OnlyHit`), for a list of any length: in
  either list the holder's identifier is in gap `half + 1` alone (`EcdsaOnce`,
  `BbsOnce`). And `ExactGap`, `ExactParts`, `SoundRange`, with the fact that a
  case is a scan or a proof (`Apart`). The invariant `GInv` ties commitments,
  openings and what the composite proof was made from to the identifiers.
  `HalfExact` is the step that matters: an opening taken modulo `U64` agrees
  with a difference taken modulo `F` and is below the range exactly if nothing
  wrapped. For this it is enough that `U64 < F` and that identifiers are below
  each range (`GapAssumption`): an opening that wraps no longer opens the
  commitment, even where the range is wider than the word. `SoundRange` asks
  about any opening and needs twice the range to fit the field: true of 2^32 and
  of the sweep up to 128 bits, not of 256 bits in a field of 255.
* `MobileBench_proofs`: `TypeCorrect`, `Faithful`, `GateHasWork`, `Pauses`,
  `StatsDescribe`. The invariant
  `IInv == TypesInv /\ Counted(cur) /\ Placed /\ Done` relates what
  the properties speak of to the loop variables:
  `Counted` (samples, verdicts and pauses are as many as the repetition counter
  says), `Placed` (which repetition each batch starts at, by the place `run` is
  at), `Done` (the results so far stand for the cases so far). The properties
  speak of finished cases or of the gate only, and hold there because of what
  `Counted` and `Placed` say of the loop. Assumptions:
  `RunnerAssumption`, and `NoWrapAssumption`: the total and the batch size
  together are below 2^32. That is needed: above it `(batch + 1) * batch_size`
  of `runner.rs:158` wraps.
  `StatsDescribe` (`StatsDescribeSamples`) rests on `StatisticsDescribe`, about
  any non-empty sequence of durations: ranks are a permutation (`RankOrder`), so
  what they order is sorted and has the same elements as often (`Sorted`,
  `SameCounts`); a sequence has one ascending order (`OrderUnique`), so rounding
  and sorting commute (`RoundedSorted`); the mean of a sorted sequence is
  between its ends (`MeanBetween`); and the index that `percentile` rounds to
  is within half a rank of p percent, never past the end (`IndexOf`,
  `PercentileHolds`).
  About `main` (`MainSpec`): `SetupSelected`, `SelectionReported`, `CsvClean`,
  `EmptyFilter`, for any set of command lines and any defaults, from
  `MainInvariance`. `MainInv` says that what is registered are the selected
  cases among those looked at, in order (`Registered`), that results carry the
  names of the cases done (`Named`), and what the status tells of the way `main`
  ended (`Ended`). It needs no assumption: the names of results are right even
  where the batch arithmetic would wrap.
  `OneSection` (`OneSectionEach`) is about the whole output of `print_table`: the
  catalogue is a concatenation of blocks of one category each, all different
  (`CatalogueInBlocks`); a selection in order keeps each of them together
  (`UnderAlone`); and the table after n rows has the finished sections of the
  first n (`TableSteps`, `TableGrows`, `SectionsRight`).
  `TogetherInvariance` carries the runner's invariant over to `main`, for every
  command line whose configuration satisfies `ConfigAssumption` (numbers, below
  the wrap: those of `main.rs` are constants), so that `MeasurementsPrinted` can
  say what a status of 0 means: what is printed are the runner's results, each
  of `bench_reps` repetitions, with faithful verdicts, statistics that describe
  its samples, and pauses that add up. The invariant also says that
  `from_durations` finds no samples only if there is no repetition to measure.
* `RunLf_proofs`: `Provenance`, `MergeCounts`, `AbortsExplained`,
  `NothingLeftOut` (the safety half of `Ends`), for any number of benchmarks and
  repetitions. The invariant adds that a file on the phone
  under a repetition's name was written by it or left over, that a file is kept
  exactly for what was reported "ok" (`Agree`), and that the repetitions tried
  so far are those before the current one, in the order of the two loops
  (`Progress`).

**Recursive definitions.** Products, sums and the evaluation of `Omega` are
recursive functions, not RECURSIVE operators, so that theorems may speak of
modules that use them. The induction theorems of the library take an operator as
parameter, which the provers cannot instantiate; the proofs state instead that
the numbers (or sizes) for which a fact holds are a set, and apply the
well-foundedness of `<` to its complement (`UpTo` in `RSAGroup_proofs` is the
plainest case).

**Model-checked only.**

* That values do not meet: the premises `ValuesDiffer`, `NoPowerMeets`,
  `VerifyDetectsBadUpdate` (for `CLRSAB`) and `ValuesDiffer`, `ProofsExact` (for
  `KB21`) of the theorems above. They are facts about generic elements and a
  large group, and of no group always. `clrsab_refines` checks
  `VerifyDetectsBadUpdate` and `kb21` checks `ProofsExact`; the others, put into
  the configurations of these runs as invariants, hold in every reachable state
  too. So the premises are satisfied there, with updates in and out of turn,
  re-admissions and revocations of the holder itself.
  For the same reason `VerifyDetectsBadUpdate`, `OnlyAccumulatedVerify` and
  `ProofsExact` after an update *out of* turn are checked and not proved.
* Liveness (`UpdateSucceeds`, `Ends`, `EndsUnlessHot`, `QuickAlwaysEnds`,
  `FullEndsOnceCool`) and everything with ENABLED, which are beyond TLAPS here.

## 5. Not modelled

* The crates behind BBS+, BPP and KB21 beyond the facts used; the hiding
  properties of commitments and proofs, which are not state properties.
* The panics of the benchmark cases: `setup()` and the timed closures of the
  mechanisms hold many `expect()`s on library calls (`src/bench_kb21.rs:104`,
  `:109`, `:159`, `src/bench_bbs_bpp.rs:279`), none of which fails on the
  constants of the benchmark. Of the panics of the binary the model has the
  assertion on an empty sample and the JSON file that cannot be written.
* A batch arithmetic that wraps: it takes more than 4 * 10^9 repetitions.
* `hash_to_prime`: elements are constants; that its search ends is
  probabilistic.
* Of the statistics, the standard deviation; of the output, columns, units and
  escaping; the memory high-water mark; sizes of proofs. No decision depends on
  them.
* `src/params.rs` is constants; those that matter are in `Catalogue` and
  `GapScan`. `src/bin/cl_rsa_setup_time.rs` is a timing loop.
* Criterion's loops and the setups of `benches/server.rs`: the calls they time
  are actions of `CLRSAB` and `KB21`.
* The other scripts: straight-line shell around cargo, adb, cmake and git. The
  Longfellow benchmark itself is C++ against a library that is not here.

## 6. Where code and text differ

Each of these is a run TLC refutes.

* `runner_fallback`: `src/runner.rs:50` promises a fixed pause when no sensor
  can be read; `unwrap_or(true)` at line 148 leaves the loop without sleeping.
* `mobile_json`: `src/main.rs:9` promises a file for `--json`; with `--csv` none
  is written (lines 126-135) and the status is 0.
* `zk_bound`: the absolute value that `cl-rsa-b/zk_positive.rs:313` speaks of is
  taken with the wrong sign, so the comparison that follows never rejects.

Seen while reading, without a run:

* `src/bench_bbs_bpp.rs:443` and `:496` speak of the signature on the holder's
  gap; the one verified at `:498` is on LOWER_ID and UPPER_ID. The work measured
  is the same.
* `src/bench_bbs_bpp.rs:25` names cases `*_non_revocation`; they are registered
  as `prove_membership` and `verify_membership`.
* The sweep's 256-bit case (`src/bench_bbs_bpp.rs`) proves a range the field has
  no room for; every field element is in it.
* `src/bench_kb21.rs:189` checks a proof with the prover's challenge and
  does not derive it again.
* `src/runner.rs:43` calls the sleep after a repetition one "between individual
  reps within a batch"; the code sleeps after every repetition but the last, at
  batch boundaries too, in addition to the pause between batches (line 166).
  With three repetitions in batches of two that is two sleeps, not one.
  `src/runner.rs:41` has "an inter-batch pause follows each completed batch"; it
  precedes every batch but the first, so none follows the last (line 144).
  `PausesAddUp` states what the code does.
* `--reps 0` panics with status 101 once all the setup is done (`types.rs:48`);
  `--only` with an unknown name succeeds with an empty table (`main.rs:87`). No
  doc says otherwise.
* `src/runner.rs:39` gives `bench_reps` as `batch_size * ceil(total /
  batch_size)`, while the code stops at the total.
* The assertion reached from `remove_batch` cannot fail (`subtractive.rs:58`):
  the product is pushed on the list first.
* `benches/server.rs:761` leaves out the group `kb21`, and the gaps it signs for
  ECDSA overlap (line 714).
* `--case adaptive_...` also selects `non_adaptive_...`, of which it is a
  substring.
* `scripts/android.sh`: a file left on the phone by an earlier run passes for
  this one's (404); a repetition that fails in silence ends the script (415);
  the trap that removes the temporary directory refers to a local variable of a
  function that has returned, an error under `set -u` (388); `repetition_index`
  of the merged file follows the lexicographic order of file names, 10 before 2.
* The README's coverage map gives `sign_gap` four attributes, `src/params.rs:16`
  three.

## 7. Plan

Done, in the order of importance: the CL-RSA-B accumulator, the contract of
accumulators, its proof system, the runner with its statistics, `main` with the
real catalogue, both halves of the signed pairs, KB21, `run-lf`. Left:

1. Model: `Presentation`, composing `CLRSAB` with proofs in flight while the
   issuer revokes; the signed-pair epochs of `benches/server.rs`, re-signing the
   list, with holders of older lists; a debug-build run of `CLRSAB`.
2. Prove: `VerifyDetectsBadUpdate` after updates out of turn, from a condition
   on the residues that the possible histories take; that the values of `KB21`
   and `CLRSAB` differ whenever no product of what is divided out is one in the
   group, so that the premises of section 4 become conditions on the constants.
