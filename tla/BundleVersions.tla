-------------------------- MODULE BundleVersions ---------------------------
(***************************************************************************)
(* The configuration bundle of one registered device: the server builds it *)
(* from current data and counts its versions (core/sync/src/server/        *)
(* bundle.ts), the device fetches it in each round and keeps the last one  *)
(* that verifies (core/sync/src/client/engine.ts: refreshBundle,           *)
(* core/config/src/client/bundle.ts: acceptBundle).                        *)
(*                                                                         *)
(* A request the device gave up may go on at the server, so several builds *)
(* for one device run at a time, each in a READ COMMITTED transaction:     *)
(* every statement of a build reads what is committed by then.             *)
(***************************************************************************)
EXTENDS Naturals, Sequences, FiniteSets

CONSTANTS
  Parts,        \* the parts of the bundle
  License,      \* the one that holds the installed license
  BundleParts,  \* the parts in the order the host composes, hence builds them
  Slots,        \* bound: requests of the device that the server works on at a time
  MaxEdits,     \* bound: commits that change each part
  Heals         \* whether the faults may end (needed for liveness alone)

ASSUME BundleVersionsAssumption ==
  /\ License \in Parts
  /\ BundleParts \in Seq(Parts)
  /\ MaxEdits \in [Parts -> Nat]
  /\ Heals \in BOOLEAN

VARIABLES
  edits,    \* how many commits changed the data of each part
  offered,  \* bundle_versions: the device's row, version 0 while there is none
  calls,    \* the requests
  held,     \* config_bundle: the stored bundle, version 0 while there is none
  refusal,  \* config_bundle_refusal: the version refused last, 0 when there is none
  healed,   \* the faults are over (sync-sim: the network is healed)
  signed    \* history: the manifests the server answered

vars == <<edits, offered, calls, held, refusal, healed, signed>>

\* The text a part has after n commits: every other edit puts back what it replaced, and no two
\* licenses are the same.
Text(p, n) == IF p = License THEN n ELSE n % 2

\* bundleDigest of the parts as they were read.
Digest(seen) == [i \in DOMAIN seen |-> Text(BundleParts[i], seen[i])]

Call ==
  [step : {"idle", "reading", "offering", "writing", "wrote", "same", "ready", "done"},
   known : Nat, seen : Seq(Nat), license : Nat, version : Nat, awaited : BOOLEAN]

NoCall ==
  [step |-> "idle", known |-> 0, seen |-> <<>>, license |-> 0, version |-> 0, awaited |-> FALSE]

-----------------------------------------------------------------------------
(* The device asks. *)

\* A bug: two rounds at once.
NoRound == FALSE

\* syncNow: one round runs at a time, and it awaits its request.
Running == \E c \in Slots : calls[c].awaited

\* A bug: the version known is the one refused.
KnowsRefused == IF refusal > 0 THEN refusal ELSE held.version

\* storedBundleVersion.
KnownVersion == held.version

Ask(c) ==
  /\ ~Running
  /\ calls[c] = NoCall
  /\ calls' = [calls EXCEPT ![c] =
                [NoCall EXCEPT !.step = "reading", !.known = KnownVersion, !.awaited = TRUE]]
  /\ UNCHANGED <<edits, offered, held, refusal, healed, signed>>

-----------------------------------------------------------------------------
(* The server: deviceBundle. *)

\* A part of the bundle is edited, or a license installed, and committed.
Edit(p) ==
  /\ edits[p] < MaxEdits[p]
  /\ edits' = [edits EXCEPT ![p] = @ + 1]
  /\ UNCHANGED <<offered, calls, held, refusal, healed, signed>>

\* The next part is built.
ReadPart(c) ==
  /\ calls[c].step = "reading"
  /\ Len(calls[c].seen) < Len(BundleParts)
  /\ calls' = [calls EXCEPT ![c].seen = Append(@, edits[BundleParts[Len(@) + 1]])]
  /\ UNCHANGED <<edits, offered, held, refusal, healed, signed>>

\* A bug: the parts are not awaited.
ReadLicenseEarly(c) ==
  /\ calls[c].step = "reading"
  /\ calls' = [calls EXCEPT ![c].step = "offering", ![c].license = edits[License]]
  /\ UNCHANGED <<edits, offered, held, refusal, healed, signed>>

\* currentLicense, for the manifest.
ReadLicense(c) ==
  /\ calls[c].step = "reading"
  /\ Len(calls[c].seen) = Len(BundleParts)
  /\ calls' = [calls EXCEPT ![c].step = "offering", ![c].license = edits[License]]
  /\ UNCHANGED <<edits, offered, held, refusal, healed, signed>>

SameDigest(c) == offered.version > 0 /\ offered.digest = Digest(calls[c].seen)

\* offered(): the committed row, if it is of these parts.
ReadOffered(c) ==
  /\ calls[c].step = "offering"
  /\ calls' = [calls EXCEPT ![c].step = IF SameDigest(c) THEN "ready" ELSE "writing",
                            ![c].version = IF SameDigest(c) THEN offered.version ELSE 0]
  /\ UNCHANGED <<edits, offered, held, refusal, healed, signed>>

\* A bug: the row is read, then written.
NeverLocked == TRUE

\* The upsert locks the row, written or not, until its transaction ends.
RowFree == \A b \in Slots : calls[b].step \notin {"wrote", "same"}

\* A bug: the version stays while the digest moves.
SameVersion == IF offered.version = 0 THEN 1 ELSE offered.version

NextVersion == offered.version + 1

\* The conditional upsert, which waits for the row; one of the same digest, that another build
\* wrote first, is locked and read, not written.
Upsert(c) ==
  /\ calls[c].step = "writing"
  /\ RowFree
  /\ calls' = [calls EXCEPT ![c].step = IF SameDigest(c) THEN "same" ELSE "wrote",
                            ![c].version = IF SameDigest(c) THEN offered.version ELSE NextVersion]
  /\ UNCHANGED <<edits, offered, held, refusal, healed, signed>>

Manifest(c) ==
  [version |-> calls[c].version, digest |-> Digest(calls[c].seen), license |-> calls[c].license]

\* The bundle is signed, unless the device holds this version; the transaction commits.
Answer(c) ==
  /\ calls[c].step \in {"ready", "same", "wrote"}
  /\ offered' = IF calls[c].step = "wrote"
                THEN [version |-> calls[c].version, digest |-> Digest(calls[c].seen)]
                ELSE offered
  /\ signed' = signed \cup {m \in {Manifest(c)} : m.version # calls[c].known}
  /\ calls' = [calls EXCEPT ![c] = IF @.awaited THEN [@ EXCEPT !.step = "done"] ELSE NoCall]
  /\ UNCHANGED <<edits, held, refusal, healed>>

ServerStep(c) ==
  ReadPart(c) \/ ReadLicense(c) \/ ReadOffered(c) \/ Upsert(c) \/ Answer(c)

-----------------------------------------------------------------------------
(* The device takes the answer: acceptBundle, in the round that asked. *)

Answered(c) == calls[c].awaited /\ calls[c].step = "done"

RoundGoesOn(c) == calls' = [calls EXCEPT ![c] = NoCall]

\* The answer has no bundle: the version is the one known.
TakeNothing(c) ==
  /\ Answered(c)
  /\ calls[c].version = calls[c].known
  /\ RoundGoesOn(c)
  /\ UNCHANGED <<edits, offered, held, refusal, healed, signed>>

Newer(c) == calls[c].version > held.version

\* It verifies and is newer: it replaces the stored one and clears the refusal.
Take(c) ==
  /\ Answered(c)
  /\ calls[c].version # calls[c].known
  /\ Newer(c)
  /\ held' = [version |-> calls[c].version, seen |-> calls[c].seen]
  /\ refusal' = 0
  /\ RoundGoesOn(c)
  /\ UNCHANGED <<edits, offered, healed, signed>>

\* It is damaged, or not newer: it is refused, and the stored one stays.
Refuse(c) ==
  /\ Answered(c)
  /\ calls[c].version # calls[c].known
  /\ healed => ~Newer(c)
  /\ refusal' = calls[c].version
  /\ RoundGoesOn(c)
  /\ UNCHANGED <<edits, offered, held, healed, signed>>

-----------------------------------------------------------------------------
(* Faults. *)

\* The request or its answer is lost, or the server fails: its transaction rolls back.
Lose(c) ==
  /\ ~healed
  /\ calls[c] # NoCall
  /\ calls' = [calls EXCEPT ![c] = NoCall]
  /\ UNCHANGED <<edits, offered, held, refusal, healed, signed>>

\* The device stops waiting, or restarts; the server goes on.
GiveUp(c) ==
  /\ ~healed
  /\ calls[c].awaited
  /\ calls[c].step # "done"
  /\ calls' = [calls EXCEPT ![c].awaited = FALSE]
  /\ UNCHANGED <<edits, offered, held, refusal, healed, signed>>

Heal ==
  /\ Heals /\ ~healed
  /\ healed' = TRUE
  /\ UNCHANGED <<edits, offered, calls, held, refusal, signed>>

-----------------------------------------------------------------------------
Init ==
  /\ edits = [p \in Parts |-> 0]
  /\ offered = [version |-> 0, digest |-> <<>>]
  /\ calls = [c \in Slots |-> NoCall]
  /\ held = [version |-> 0, seen |-> <<>>]
  /\ refusal = 0
  /\ healed = FALSE
  /\ signed = {}

DeviceStep(c) == TakeNothing(c) \/ Take(c)

Next ==
  \/ \E p \in Parts : Edit(p)
  \/ \E c \in Slots : Ask(c) \/ ServerStep(c) \/ DeviceStep(c) \/ Refuse(c)
  \/ \E c \in Slots : Lose(c) \/ GiveUp(c)
  \/ Heal

Spec == Init /\ [][Next]_vars

\* A round asks every 15 seconds, the server works on each request, the device on each answer,
\* and the faults end (sync-sim: converge).
Fairness ==
  /\ WF_vars(Heal)
  /\ WF_vars(\E c \in Slots : Ask(c))
  /\ \A c \in Slots : WF_vars(ServerStep(c)) /\ WF_vars(healed /\ DeviceStep(c))

FairSpec == Spec /\ Fairness

-----------------------------------------------------------------------------
(* Properties. *)

TypeOK ==
  /\ edits \in [Parts -> Nat]
  /\ offered \in [version : Nat, digest : Seq(Nat)]
  /\ calls \in [Slots -> Call]
  /\ held \in [version : Nat, seen : Seq(Nat)]
  /\ Len(held.seen) = IF held.version > 0 THEN Len(BundleParts) ELSE 0
  /\ refusal \in Nat
  /\ healed \in BOOLEAN
  /\ signed \subseteq [version : Nat, digest : Seq(Nat), license : Nat]

\* A version stands for one content of the parts: no two builds, however they overlap, sign it
\* with different parts, and the row the server compares with is of that content too, so that a
\* device told that it holds the current version does hold those parts (bundle.ts: "a version is
\* never signed with parts it was not counted for").
VersionNamesParts ==
  /\ \A a, b \in signed : a.version = b.version => a.digest = b.digest
  /\ \A a \in signed : a.version = offered.version => a.digest = offered.digest
  /\ held.version > 0 => \E a \in signed : a.version = held.version /\ a.digest = Digest(held.seen)

\* A new bundle never brings back what the one before it had replaced: each part is as late as
\* the device had it, although builds overlap and a slow one writes the higher version.
PartsMoveForward ==
  [][\A i \in DOMAIN held.seen : held'.seen[i] >= held.seen[i]]_vars

\* Once the data stops changing, the device comes to hold the parts as they are and keeps them,
\* also when a slow build offers old parts under the newest version for a while.
HoldsCurrent ==
  <>[](held.version > 0 /\ Digest(held.seen) = Digest([i \in DOMAIN BundleParts |-> edits[BundleParts[i]]]))

\* A refusal ends: a device that refused a damaged bundle is offered it whole again, and is not
\* left read-only (core-foundation rule 11).
RefusalEnds == refusal > 0 ~> refusal = 0

\* What a comment says and the code does not do (schema.ts: "so each version signs the same
\* manifest"): the license a manifest names is read after the parts, in another snapshot.
OneManifestPerVersion ==
  \A a, b \in signed : a.version = b.version => a = b
=============================================================================
