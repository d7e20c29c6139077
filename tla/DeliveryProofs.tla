--------------------------- MODULE DeliveryProofs ---------------------------
(***************************************************************************)
(* What holds of delivery, from the release to the service that runs it:   *)
(* the downloads outside the update lock, for any calls, archives, tags    *)
(* and uploads; the release, for any platforms, binaries and reruns; and   *)
(* the user service, for any installs and failures.                        *)
(***************************************************************************)
EXTENDS Delivery, Release, UserService, TLAPS

(* The bounds are numbers, and a download has at least one attempt. *)
LEMMA DeliveryBounds ==
    /\ downloadAttempts \in Nat \ {0} /\ MaxTag \in Nat \ {0} /\ MaxUpload \in Nat \ {0} /\ MaxUpsets \in Nat
    /\ HostArchive \in Archives /\ Installers \cap Verifiers = {} /\ Damaged = 0
    /\ ReleaseTags \subseteq 0..MaxTag /\ Nothing \in Files
    /\ \A t \in ReleaseTags, u \in 0..MaxUpload : [tag |-> t, upload |-> u] \in Files
    /\ \A f \in Files : f.upload \in 0..MaxUpload
  BY DeliveryAssumption DEF ReleaseTags, Files, Nothing, Damaged

(* The cache; and the calls with what they hold. *)
CacheTyped ==
    /\ newest \in 0..MaxTag /\ upsets \in 0..MaxUpsets
    /\ served \in [ReleaseTags -> [Kinds -> 1..MaxUpload]]
    /\ archives \in [Archives -> Files] /\ bundle \in [Archives -> Files]
    /\ checksums \in [ReleaseTags -> 0..NotCached]
    /\ installed \in [content : Files, tag : 0..MaxTag, swapped : BOOLEAN]
CallLabels == {"idle", "checksum", "hash", "attest", "extract", "replace"} \cup Fetching \cup Ended
CallsTyped ==
    /\ step \in [Calls -> CallLabels]
    /\ request \in [Calls -> {"unsent", "in flight", "waiting"}]
    /\ attempt \in [Calls -> 1..downloadAttempts]
    /\ tag \in [Calls -> 0..MaxTag] /\ unverified \in [Calls -> SUBSET Archives]
    /\ digest \in [Calls -> [Archives -> Files]] /\ candidate \in [Calls -> Files]
    /\ cancelled \subseteq Calls /\ swapped \subseteq Calls

(* A call has a request out only while it downloads, and waits to retry only with attempts left; *)
(* one that is under way has a release and something to verify.                                  *)
CallsAreSane ==
    /\ \A c \in Calls : request[c] # "unsent" => step[c] \in Fetching
    /\ \A c \in Calls : request[c] = "waiting" => attempt[c] < downloadAttempts
    /\ \A c \in Calls : Active(c) => tag[c] \in ReleaseTags /\ unverified[c] # {}
    /\ \A c \in Installers : Active(c) => unverified[c] = {HostArchive}
    /\ \A c \in Calls : step[c] = "verified" => unverified[c] = {}

DeliveryTypes == CacheTyped /\ CallsTyped /\ CallsAreSane

(* The asset a call is at is one it has still to verify. *)
LEMMA AssetUnverified ==
    ASSUME NEW c \in Calls, unverified[c] # {}
    PROVE  Asset(c) \in unverified[c]
  <1>1. \E a \in unverified[c] : a = HostArchive \/ HostArchive \notin unverified[c]
    OBVIOUS
  <1> QED
    BY <1>1 DEF Asset

(* A call that fails or is killed is sane. *)
LEMMA EndTyped ==
    ASSUME DeliveryTypes, NEW c \in Calls, NEW label \in {"failed", "killed"}, GoTo(c, label), Idle(c),
           candidate' \in {candidate, [candidate EXCEPT ![c] = Nothing]},
           UNCHANGED <<newest, served, cache, attempt, tag, unverified, digest, cancelled, swapped, installed>>,
           UNCHANGED upsets \/ Upset
    PROVE  DeliveryTypes'
  <1>1. CacheTyped'
    BY DeliveryBounds DEF DeliveryTypes, CacheTyped, cache, Upset
  <1>2. CallsTyped'
    <2>1. label \in CallLabels
      BY DEF CallLabels, Ended
    <2>2. step' \in [Calls -> CallLabels]
      BY <2>1 DEF DeliveryTypes, CallsTyped, GoTo
    <2>3. request' \in [Calls -> {"unsent", "in flight", "waiting"}] /\ candidate' \in [Calls -> Files]
      BY DeliveryBounds DEF DeliveryTypes, CallsTyped, Idle
    <2> QED
      BY <2>2, <2>3 DEF DeliveryTypes, CallsTyped
  <1>3. CallsAreSane'
    BY DEF DeliveryTypes, CallsTyped, CallsAreSane, GoTo, Idle, Active, Calls, Ended
  <1> QED
    BY <1>1, <1>2, <1>3 DEF DeliveryTypes

(* What an answer is: one file, of the release the call resolved, as it is served or damaged.    *)
LEMMA AnswerIs ==
    ASSUME DeliveryTypes, NEW c \in Calls, Answered(c)
    PROVE  /\ request[c] = "in flight" /\ step[c] \in Fetching /\ tag[c] \in ReleaseTags
           /\ Active(c) /\ Asset(c) \in unverified[c] /\ unverified[c] \subseteq Archives
           /\ UNCHANGED upsets \/ Upset
           /\ UNCHANGED <<newest, served, tag, unverified, digest, candidate, cancelled, installed>>
           /\ attempt' = [attempt EXCEPT ![c] = 1]
           /\ \E u \in 0..MaxUpload :
                \/ /\ step[c] = "archive" /\ swapped' = swapped \cup Readers(c)
                   /\ archives' = [archives EXCEPT ![Asset(c)] = [tag |-> tag[c], upload |-> u]]
                   /\ UNCHANGED <<checksums, bundle>>
                   /\ \/ GoTo(c, "sums") /\ Send(c) /\ checksums[tag[c]] = NotCached
                      \/ GoTo(c, "checksum") /\ Idle(c)
                \/ /\ step[c] = "sums" /\ checksums' = [checksums EXCEPT ![tag[c]] = u]
                   /\ UNCHANGED <<archives, bundle, swapped>> /\ GoTo(c, "checksum") /\ Idle(c)
                \/ /\ step[c] = "bundle" /\ UNCHANGED <<archives, checksums, swapped>>
                   /\ bundle' = [bundle EXCEPT ![Asset(c)] = [tag |-> tag[c], upload |-> u]]
                   /\ GoTo(c, "attest") /\ Idle(c)
  <1>1. request[c] = "in flight" /\ step[c] \in Fetching
    BY DEF Answered, DeliveryTypes, CallsAreSane
  <1>2. Active(c) /\ tag[c] \in ReleaseTags /\ unverified[c] # {} /\ unverified[c] \subseteq Archives
    BY <1>1 DEF DeliveryTypes, CallsTyped, CallsAreSane, Active, Fetching, Ended
  <1>3. Asset(c) \in unverified[c]
    BY <1>2, AssetUnverified
  <1>4. {Damaged, served[tag[c]][step[c]]} \subseteq 0..MaxUpload
    <2>1. served \in [ReleaseTags -> [Kinds -> 1..MaxUpload]] /\ step[c] \in Kinds
      BY <1>1 DEF DeliveryTypes, CacheTyped, Kinds, Fetching
    <2>2. served[tag[c]][step[c]] \in 1..MaxUpload
      BY <1>2, <2>1
    <2> QED
      BY <2>2, DeliveryBounds
  <1> QED
    BY <1>1, <1>2, <1>3, <1>4 DEF Answered, Fetching

(* An answer keeps the types. *)
LEMMA AnswerTyped ==
    ASSUME DeliveryTypes, NEW c \in Calls, Answered(c)
    PROVE  DeliveryTypes'
  <1>0. /\ tag[c] \in ReleaseTags /\ Asset(c) \in Archives /\ (UNCHANGED upsets \/ Upset)
        /\ archives \in [Archives -> Files] /\ bundle \in [Archives -> Files]
        /\ checksums \in [ReleaseTags -> 0..NotCached] /\ upsets \in 0..MaxUpsets
    BY AnswerIs DEF DeliveryTypes, CacheTyped
  <1>1. CacheTyped'
    <2>1. upsets' \in 0..MaxUpsets
      BY <1>0, DeliveryBounds DEF Upset
    <2>2. installed' \in [content : Files, tag : 0..MaxTag, swapped : BOOLEAN]
      BY AnswerIs DEF DeliveryTypes, CacheTyped
    <2>3. archives' = archives \/ \E f \in Files : archives' = [archives EXCEPT ![Asset(c)] = f]
      BY <1>0, AnswerIs, DeliveryBounds
    <2>4. bundle' = bundle \/ \E f \in Files : bundle' = [bundle EXCEPT ![Asset(c)] = f]
      BY <1>0, AnswerIs, DeliveryBounds
    <2>5. checksums' = checksums \/ \E u \in 0..MaxUpload : checksums' = [checksums EXCEPT ![tag[c]] = u]
      BY AnswerIs
    <2>6. 0..MaxUpload \subseteq 0..NotCached
      BY DeliveryBounds DEF NotCached
    <2>7. /\ archives' \in [Archives -> Files] /\ bundle' \in [Archives -> Files]
          /\ checksums' \in [ReleaseTags -> 0..NotCached]
      BY <1>0, <2>3, <2>4, <2>5, <2>6
    <2>8. newest' \in 0..MaxTag /\ served' \in [ReleaseTags -> [Kinds -> 1..MaxUpload]]
      BY AnswerIs DEF DeliveryTypes, CacheTyped
    <2> QED
      BY <2>1, <2>2, <2>7, <2>8 DEF CacheTyped
  <1>2. PICK label \in {"sums", "checksum", "attest"} :
            GoTo(c, label) /\ (Idle(c) \/ (label = "sums" /\ Send(c)))
    BY AnswerIs
  <1>3. swapped' \subseteq Calls
    BY AnswerIs DEF DeliveryTypes, CallsTyped, Readers
  <1>4. CallsTyped'
    <2>1. UNCHANGED <<tag, unverified, digest, candidate, cancelled>> /\ attempt' = [attempt EXCEPT ![c] = 1]
      BY AnswerIs
    <2>2. step' \in [Calls -> CallLabels]
      BY <1>2 DEF DeliveryTypes, CallsTyped, CallLabels, Fetching, GoTo
    <2>3. request' \in [Calls -> {"unsent", "in flight", "waiting"}]
      BY <1>2 DEF DeliveryTypes, CallsTyped, Idle, Send
    <2>4. attempt' \in [Calls -> 1..downloadAttempts]
      <3>1. 1 \in 1..downloadAttempts
        BY DeliveryBounds
      <3>2. attempt \in [Calls -> 1..downloadAttempts]
        BY DEF DeliveryTypes, CallsTyped
      <3> QED
        BY <2>1, <3>1, <3>2
    <2> QED
      BY <1>3, <2>1, <2>2, <2>3, <2>4 DEF DeliveryTypes, CallsTyped
  <1>5. CallsAreSane'
    <2>1. UNCHANGED <<tag, unverified>> /\ Active(c)
      BY AnswerIs
    <2>2. \A d \in Calls : Active(d)' => Active(d)
      BY <1>2, <2>1 DEF DeliveryTypes, CallsTyped, GoTo, Active
    <2>3. \A d \in Calls : request'[d] # "unsent" => step'[d] \in Fetching
      BY <1>2 DEF DeliveryTypes, CallsTyped, CallsAreSane, GoTo, Idle, Send, Fetching
    <2>4. request'[c] # "waiting" /\ \A d \in Calls \ {c} : request'[d] = request[d]
      BY <1>2 DEF DeliveryTypes, CallsTyped, Idle, Send
    <2>5. \A d \in Calls \ {c} : attempt'[d] = attempt[d]
      <3>1. attempt' = [attempt EXCEPT ![c] = 1]
        BY AnswerIs
      <3>2. attempt \in [Calls -> 1..downloadAttempts]
        BY DEF DeliveryTypes, CallsTyped
      <3> QED
        BY <3>1, <3>2
    <2>6. \A d \in Calls : step'[d] = "verified" => step[d] = "verified"
      BY <1>2 DEF DeliveryTypes, CallsTyped, GoTo
    <2> QED
      BY <2>1, <2>2, <2>3, <2>4, <2>5, <2>6 DEF DeliveryTypes, CallsAreSane, Calls
  <1> QED
    BY <1>1, <1>4, <1>5 DEF DeliveryTypes

(* Every step of the host, the caller or a call keeps the types. *)
LEMMA DeliveryTyped ==
    ASSUME DeliveryTypes, [DeliveryNext]_deliveryVars
    PROVE  DeliveryTypes'
  <1> USE DEF host, cache
  <1>1. CASE PublishRelease
    <2>1. CacheTyped'
      BY <1>1, DeliveryBounds DEF PublishRelease, DeliveryTypes, CacheTyped
    <2> QED
      BY <1>1, <2>1 DEF PublishRelease, DeliveryTypes, CallsTyped, CallsAreSane, Active
  <1>2. ASSUME NEW t \in ReleaseTags, NEW k \in Kinds, Reupload(t, k) PROVE DeliveryTypes'
    <2>1. served[t][k] \in 1..MaxUpload /\ served[t][k] < MaxUpload
      BY <1>2 DEF Reupload, DeliveryTypes, CacheTyped
    <2>2. served[t][k] + 1 \in 1..MaxUpload
      BY <2>1, DeliveryBounds
    <2>3. served' \in [ReleaseTags -> [Kinds -> 1..MaxUpload]]
      BY <1>2, <2>2 DEF Reupload, DeliveryTypes, CacheTyped
    <2>4. CacheTyped'
      BY <1>2, <2>3, DeliveryBounds DEF Reupload, Upset, DeliveryTypes, CacheTyped
    <2> QED
      BY <1>2, <2>4 DEF Reupload, DeliveryTypes, CallsTyped, CallsAreSane, Active
  <1>3. ASSUME NEW c \in Calls, Cancel(c) \/ SweepCandidate(c) PROVE DeliveryTypes'
    <2>1. CacheTyped'
      BY <1>3, DeliveryBounds DEF Cancel, SweepCandidate, Upset, DeliveryTypes, CacheTyped
    <2>2. CallsTyped'
      BY <1>3, DeliveryBounds DEF Cancel, SweepCandidate, DeliveryTypes, CallsTyped
    <2>3. CallsAreSane'
      BY <1>3 DEF Cancel, SweepCandidate, DeliveryTypes, CallsAreSane, Active
    <2> QED
      BY <2>1, <2>2, <2>3 DEF DeliveryTypes
  <1>4. ASSUME NEW c \in Calls, ResolveRelease(c) PROVE DeliveryTypes'
    <2>1. PICK t \in 1..newest : tag' = [tag EXCEPT ![c] = t]
      BY <1>4 DEF ResolveRelease
    <2>2. t \in ReleaseTags
      BY DeliveryBounds DEF ReleaseTags, DeliveryTypes, CacheTyped
    <2>3. CacheTyped'
      BY <1>4 DEF ResolveRelease, DeliveryTypes, CacheTyped
    <2>4. CallsTyped'
      BY <1>4, <2>1, <2>2, DeliveryBounds
         DEF ResolveRelease, GoTo, Send, DeliveryTypes, CallsTyped, CallLabels, Fetching
    <2>5. CallsAreSane'
      BY <1>4, <2>1, <2>2, DeliveryBounds
         DEF ResolveRelease, GoTo, Send, DeliveryTypes, CallsTyped, CallsAreSane, Fetching, Active, Calls
    <2> QED
      BY <2>3, <2>4, <2>5 DEF DeliveryTypes
  <1>5. ASSUME NEW c \in Calls, Transient(c) \/ RetryTimer(c) PROVE DeliveryTypes'
    <2>1. CacheTyped'
      BY <1>5 DEF Transient, RetryTimer, DeliveryTypes, CacheTyped
    <2>2. attempt[c] \in 1..downloadAttempts /\ attempt[c] < downloadAttempts
      BY <1>5 DEF Transient, RetryTimer, DeliveryTypes, CallsTyped, CallsAreSane
    <2>3. attempt[c] + 1 \in 1..downloadAttempts
      BY <2>2, DeliveryBounds
    <2>4. CallsTyped'
      BY <1>5, <2>3 DEF Transient, RetryTimer, Send, DeliveryTypes, CallsTyped
    <2>5. CallsAreSane'
      BY <1>5, <2>2 DEF Transient, RetryTimer, Send, DeliveryTypes, CallsTyped, CallsAreSane, Active, Calls
    <2> QED
      BY <2>1, <2>4, <2>5 DEF DeliveryTypes
  <1>6. ASSUME NEW c \in Calls, Checksum(c) \/ HashArchive(c) \/ Attest(c) \/ Extract(c) \/ ReplaceBinary(c),
               ~EndFailed(c)
        PROVE  DeliveryTypes'
    <2>1. Active(c)
      BY <1>6 DEF Checksum, HashArchive, Attest, Extract, ReplaceBinary, Active, Ended
    <2>2. Asset(c) \in Archives /\ HostArchive \in Archives /\ tag[c] \in ReleaseTags
      BY <2>1, AssetUnverified, DeliveryBounds DEF DeliveryTypes, CallsTyped, CallsAreSane
    <2>3. CacheTyped'
      <3>1. UNCHANGED <<newest, upsets, served, archives, bundle, checksums>>
        BY <1>6 DEF Checksum, HashArchive, Attest, Extract, ReplaceBinary
      <3>2. installed' = installed \/ installed' = [content |-> candidate[c], tag |-> tag[c], swapped |-> c \in swapped]
        BY <1>6 DEF Checksum, HashArchive, Attest, Extract, ReplaceBinary
      <3>3. candidate[c] \in Files /\ tag[c] \in 0..MaxTag
        BY DEF DeliveryTypes, CallsTyped
      <3>4. (c \in swapped) \in BOOLEAN
        OBVIOUS
      <3>5. [content |-> candidate[c], tag |-> tag[c], swapped |-> c \in swapped]
               \in [content : Files, tag : 0..MaxTag, swapped : BOOLEAN]
        BY <3>3, <3>4, Zenon
      <3>6. installed' \in [content : Files, tag : 0..MaxTag, swapped : BOOLEAN]
        BY <3>2, <3>5 DEF DeliveryTypes, CacheTyped
      <3> QED
        BY <3>1, <3>6 DEF DeliveryTypes, CacheTyped
    <2>4. CallsTyped'
      <3>1. UNCHANGED <<attempt, tag, cancelled, swapped>>
        BY <1>6 DEF Checksum, HashArchive, Attest, Extract, ReplaceBinary
      <3>2. \E label \in CallLabels : step' = [step EXCEPT ![c] = label]
        BY <1>6 DEF Checksum, HashArchive, Attest, Extract, ReplaceBinary, GoTo, CallLabels, Fetching, Ended
      <3>3. request' = request \/ Send(c)
        BY <1>6 DEF Checksum, HashArchive, Attest, Extract, ReplaceBinary
      <3>4. unverified' = unverified \/ unverified' = [unverified EXCEPT ![c] = @ \ {Asset(c)}]
        BY <1>6 DEF Checksum, HashArchive, Attest, Extract, ReplaceBinary
      <3>5. digest' = digest \/ digest' = [digest EXCEPT ![c] = [@ EXCEPT ![Asset(c)] = archives[Asset(c)]]]
        BY <1>6 DEF Checksum, HashArchive, Attest, Extract, ReplaceBinary
      <3>6. candidate' = candidate \/ \E f \in {archives[HostArchive], Nothing} : candidate' = [candidate EXCEPT ![c] = f]
        BY <1>6 DEF Checksum, HashArchive, Attest, Extract, ReplaceBinary
      <3>7. archives[Asset(c)] \in Files /\ archives[HostArchive] \in Files /\ Nothing \in Files
        BY <2>2, DeliveryBounds DEF DeliveryTypes, CacheTyped
      <3> QED
        <4>1. step' \in [Calls -> CallLabels]
          BY <3>2 DEF DeliveryTypes, CallsTyped
        <4>2. request' \in [Calls -> {"unsent", "in flight", "waiting"}]
          BY <3>3 DEF Send, DeliveryTypes, CallsTyped
        <4>3. unverified' \in [Calls -> SUBSET Archives]
          BY <3>4 DEF DeliveryTypes, CallsTyped
        <4>4. digest' \in [Calls -> [Archives -> Files]]
          <5>1. digest \in [Calls -> [Archives -> Files]]
            BY DEF DeliveryTypes, CallsTyped
          <5>2. [digest[c] EXCEPT ![Asset(c)] = archives[Asset(c)]] \in [Archives -> Files]
            BY <3>7, <5>1
          <5> QED
            BY <3>5, <5>1, <5>2
        <4>5. candidate' \in [Calls -> Files]
          BY <3>6, <3>7 DEF DeliveryTypes, CallsTyped
        <4> QED
          BY <3>1, <4>1, <4>2, <4>3, <4>4, <4>5 DEF DeliveryTypes, CallsTyped
    <2>5. request[c] = "unsent"
      BY <1>6 DEF Checksum, HashArchive, Attest, Extract, ReplaceBinary, DeliveryTypes, CallsAreSane, Fetching
    <2>6. CallsAreSane'
      <3>1. ASSUME GoTo(c, "archive") \/ GoTo(c, "bundle"), Send(c), UNCHANGED <<attempt, tag>>, unverified'[c] # {},
                   \A d \in Calls \ {c} : unverified'[d] = unverified[d],
                   c \in Installers => unverified'[c] = unverified[c]
            PROVE  CallsAreSane'
        BY <2>1, <2>5, <3>1 DEF GoTo, Send, DeliveryTypes, CallsTyped, CallsAreSane, Fetching, Active, Calls
      <3>2. ASSUME NEW label \in {"hash", "extract", "replace"} \cup Ended, GoTo(c, label),
                   UNCHANGED <<request, attempt, tag>>,
                   \A d \in Calls : unverified'[d] = unverified[d] \/ (d = c /\ label \in Ended),
                   label = "verified" => unverified'[c] = {}
            PROVE  CallsAreSane'
        BY <2>1, <2>5, <3>2 DEF GoTo, DeliveryTypes, CallsTyped, CallsAreSane, Fetching, Active, Calls, Ended
      <3>3. CASE Checksum(c) \/ Extract(c) \/ ReplaceBinary(c)
        BY <1>6, <3>2, <3>3 DEF Checksum, Extract, ReplaceBinary, Ended
      <3>4. CASE HashArchive(c)
        BY <2>1, <3>1, <3>4 DEF HashArchive, DeliveryTypes, CallsAreSane
      <3>5. CASE Attest(c)
        <4>1. CASE c \in Installers
          BY <1>6, <3>2, <3>5, <4>1 DEF Attest
        <4>2. CASE c \notin Installers /\ unverified[c] = {Asset(c)}
          BY <1>6, <3>2, <3>5, <4>2 DEF Attest, Ended, DeliveryTypes, CallsTyped
        <4>3. CASE c \notin Installers /\ unverified[c] # {Asset(c)}
          <5>1. GoTo(c, "archive") /\ Send(c) /\ UNCHANGED <<attempt, tag>>
            BY <1>6, <3>5, <4>3 DEF Attest
          <5>2. unverified' = [unverified EXCEPT ![c] = @ \ {Asset(c)}]
            BY <1>6, <3>5, <4>3 DEF Attest
          <5>3. Asset(c) \in unverified[c]
            BY <2>1, AssetUnverified DEF DeliveryTypes, CallsAreSane
          <5>4. unverified'[c] # {} /\ \A d \in Calls \ {c} : unverified'[d] = unverified[d]
            BY <4>3, <5>2, <5>3 DEF DeliveryTypes, CallsTyped
          <5> QED
            BY <3>1, <4>3, <5>1, <5>4
        <4> QED
          BY <4>1, <4>2, <4>3
      <3> QED
        BY <1>6, <3>3, <3>4, <3>5
    <2> QED
      BY <2>3, <2>4, <2>6 DEF DeliveryTypes
  <1>7. ASSUME NEW c \in Calls, EndFailed(c) \/ KillCall(c) PROVE DeliveryTypes'
    BY <1>7, EndTyped DEF EndFailed, KillCall, Ended
  <1>8. CASE UNCHANGED deliveryVars
    BY <1>8 DEF deliveryVars, DeliveryTypes, CacheTyped, CallsTyped, CallsAreSane, Active
  <1> QED
    BY <1>1, <1>2, <1>3, <1>4, <1>5, <1>6, <1>7, <1>8, AnswerTyped
       DEF DeliveryNext, CallStep, ResolveFailed, DownloadFailed

(* The types hold throughout, with what makes a call sane. *)
LEMMA DeliveryTypesHold == DeliverySpec => []DeliveryTypes
  <1>1. DeliveryInit => DeliveryTypes
    <2> SUFFICES ASSUME DeliveryInit PROVE DeliveryTypes
      OBVIOUS
    <2>1. CacheTyped
      BY DeliveryBounds DEF DeliveryInit, CacheTyped, NotCached
    <2>2. CallsTyped
      BY DeliveryBounds DEF DeliveryInit, CallsTyped, CallLabels
    <2>3. CallsAreSane
      BY DEF DeliveryInit, CallsAreSane, Active, Calls
    <2> QED
      BY <2>1, <2>2, <2>3 DEF DeliveryTypes
  <1>2. DeliveryTypes /\ [DeliveryNext]_deliveryVars => DeliveryTypes'
    BY DeliveryTyped
  <1> QED
    BY <1>1, <1>2, PTL DEF DeliverySpec

(* The cache, the calls and the installed binary keep to their types, and no download is tried   *)
(* more often than downloadAttempts, for any calls, archives and uploads.                        *)
THEOREM DeliveryTypeCorrect == DeliverySpec => []DeliveryTypeOK
  <1>1. DeliveryTypes => DeliveryTypeOK
    BY DEF DeliveryTypes, CacheTyped, CallsTyped, CallLabels, DeliveryTypeOK
  <1> QED
    BY <1>1, DeliveryTypesHold, PTL

(* What a call may rely on, whatever the others do: what a verifier has verified was intact, and *)
(* so is what an installer has attested; what it hashed is what it will read, or has been        *)
(* swapped since; and what it has extracted is intact, or was swapped.                           *)
CallIsGood(c) ==
    /\ c \in Verifiers /\ (Active(c) \/ step[c] = "verified") =>
            \A a \in Archives \ unverified[c] : Intact(digest[c][a], tag[c])
    /\ c \in Installers /\ step[c] \in {"bundle", "attest", "extract"} =>
            c \in swapped \/ archives[HostArchive] = digest[c][HostArchive]
    /\ step[c] = "extract" => Intact(digest[c][HostArchive], tag[c])
    /\ step[c] = "replace" => candidate[c] = Nothing \/ c \in swapped \/ Intact(candidate[c], tag[c])
InstalledIsGood ==
    installed.content = Nothing \/ installed.swapped \/ Intact(installed.content, installed.tag)
FilesAreGood == InstalledIsGood /\ \A c \in Calls : CallIsGood(c)

(* A step of one call that writes no archive leaves the others what they rely on. *)
LEMMA OthersStayGood ==
    ASSUME DeliveryTypes, FilesAreGood, NEW c \in Calls, UNCHANGED <<archives, swapped>>,
           \A d \in Calls \ {c} : /\ step'[d] = step[d] /\ tag'[d] = tag[d] /\ digest'[d] = digest[d]
                                 /\ unverified'[d] = unverified[d] /\ candidate'[d] = candidate[d],
           InstalledIsGood', CallIsGood(c)'
    PROVE  FilesAreGood'
  <1>1. ASSUME NEW d \in Calls \ {c} PROVE CallIsGood(d)'
    <2>1. CallIsGood(d)
      BY DEF FilesAreGood
    <2>2. step'[d] = step[d] /\ tag'[d] = tag[d] /\ digest'[d] = digest[d]
          /\ unverified'[d] = unverified[d] /\ candidate'[d] = candidate[d]
      BY <1>1
    <2> QED
      BY <2>1, <2>2 DEF CallIsGood, Active, Intact, Matches
  <1> QED
    BY <1>1 DEF FilesAreGood

\* Only installers come to extract and replace a binary.
VerifiersInstallNothing == \A c \in Calls : step[c] \in {"extract", "replace"} => c \in Installers

(* No step takes a verifier there. *)
LEMMA OnlyInstallersInstall ==
    ASSUME DeliveryTypes, VerifiersInstallNothing, [DeliveryNext]_deliveryVars
    PROVE  VerifiersInstallNothing'
  <1>1. ASSUME NEW c \in Calls, NEW label, GoTo(c, label), label \in {"extract", "replace"} => c \in Installers
        PROVE  VerifiersInstallNothing'
    BY <1>1 DEF GoTo, VerifiersInstallNothing, DeliveryTypes, CallsTyped
  <1>2. CASE UNCHANGED step
    BY <1>2 DEF VerifiersInstallNothing
  <1>3. ASSUME NEW c \in Calls, EndFailed(c) PROVE VerifiersInstallNothing'
    BY <1>1, <1>3 DEF EndFailed
  <1>4. ASSUME NEW c \in Calls, Answered(c) PROVE VerifiersInstallNothing'
    <2>1. GoTo(c, "sums") \/ GoTo(c, "checksum") \/ GoTo(c, "attest")
      BY <1>4, AnswerIs
    <2> QED
      BY <1>1, <2>1
  <1>5. ASSUME NEW c \in Calls, ResolveRelease(c) \/ Checksum(c) \/ HashArchive(c) \/ Attest(c) \/ ReplaceBinary(c) \/ KillCall(c),
               ~EndFailed(c)
        PROVE  VerifiersInstallNothing'
    <2>1. \E label \in {"archive", "hash", "bundle", "verified", "installed", "killed"} : GoTo(c, label)
          \/ (GoTo(c, "extract") /\ c \in Installers)
      BY <1>5 DEF ResolveRelease, Checksum, HashArchive, Attest, ReplaceBinary, KillCall
    <2> QED
      BY <1>1, <2>1
  <1>6. ASSUME NEW c \in Calls, Extract(c), ~EndFailed(c) PROVE VerifiersInstallNothing'
    BY <1>1, <1>6 DEF Extract, VerifiersInstallNothing
  <1>7. ASSUME NEW c \in Calls, Cancel(c) \/ SweepCandidate(c) \/ Transient(c) \/ RetryTimer(c) PROVE UNCHANGED step
    BY <1>7 DEF Cancel, SweepCandidate, Transient, RetryTimer
  <1>8. ASSUME PublishRelease \/ (\E t \in ReleaseTags, k \in Kinds : Reupload(t, k)) \/ UNCHANGED deliveryVars
        PROVE  UNCHANGED step
    BY <1>8 DEF PublishRelease, Reupload, deliveryVars
  <1> QED
    BY <1>2, <1>3, <1>4, <1>5, <1>6, <1>7, <1>8 DEF DeliveryNext, CallStep, ResolveFailed, DownloadFailed

(* An answer replaces one file; an installer that has hashed the archive which was there counts *)
(* as swapped.                                                                                   *)
LEMMA AnswerIsGood ==
    ASSUME DeliveryTypes, FilesAreGood, NEW c \in Calls, Answered(c)
    PROVE  FilesAreGood'
  <1>1. /\ Active(c) /\ step[c] \in Fetching /\ UNCHANGED <<tag, unverified, digest, candidate, installed>>
        /\ Asset(c) \in Archives /\ archives \in [Archives -> Files] /\ step \in [Calls -> CallLabels]
    BY AnswerIs DEF DeliveryTypes, CacheTyped, CallsTyped
  <1>2. PICK label \in {"sums", "checksum", "attest"} :
            /\ GoTo(c, label) /\ (label = "attest" => step[c] = "bundle" /\ UNCHANGED <<archives, swapped>>)
            /\ \/ UNCHANGED <<archives, swapped>>
               \/ /\ swapped' = swapped \cup Readers(c)
                  /\ \A a \in Archives \ {Asset(c)} : archives'[a] = archives[a]
    <2>1. ASSUME NEW f, archives' = [archives EXCEPT ![Asset(c)] = f]
          PROVE  \A a \in Archives \ {Asset(c)} : archives'[a] = archives[a]
      BY <1>1, <2>1
    <2> QED
      BY <2>1, AnswerIs DEF Fetching
  <1>3. step'[c] = label /\ \A d \in Calls \ {c} : step'[d] = step[d]
    BY <1>1, <1>2 DEF GoTo
  <1>4. ASSUME NEW d \in Calls PROVE CallIsGood(d)'
    <2>1. CallIsGood(d) /\ swapped \subseteq swapped' /\ (Active(d)' => Active(d))
      BY <1>1, <1>2, <1>3 DEF FilesAreGood, Active, Ended
    <2>2. step'[d] = "verified" => step[d] = "verified"
      BY <1>3
    <2>3. d \in Verifiers /\ (Active(d) \/ step[d] = "verified")' =>
              \A a \in Archives \ unverified'[d] : Intact(digest[d][a], tag[d])'
      BY <1>1, <2>1, <2>2 DEF CallIsGood, Intact, Matches
    <2>4. step'[d] \in {"extract", "replace"} => step[d] = step'[d]
      BY <1>3
    <2>5. ASSUME d \in Installers, step'[d] \in {"bundle", "attest", "extract"}
          PROVE  d \in swapped' \/ archives'[HostArchive] = digest'[d][HostArchive]
      <3>1. step[d] \in {"bundle", "attest", "extract"}
        BY <1>2, <1>3, <2>5
      <3>2. d \in swapped \/ archives[HostArchive] = digest[d][HostArchive]
        BY <2>1, <2>5, <3>1 DEF CallIsGood
      <3>3. Asset(d) = HostArchive
        <4>1. Active(d) /\ unverified[d] = {HostArchive}
          BY <2>5, <3>1 DEF DeliveryTypes, CallsAreSane, Active, Ended
        <4> QED
          BY <4>1, AssetUnverified
      <3>4. CASE UNCHANGED <<archives, swapped>>
        BY <1>1, <3>2, <3>4
      <3>5. CASE /\ swapped' = swapped \cup Readers(c)
                 /\ \A a \in Archives \ {Asset(c)} : archives'[a] = archives[a]
        <4>1. CASE Asset(c) = HostArchive
          <5>1. CASE d # c
            BY <3>1, <3>3, <3>5, <4>1, <5>1 DEF Readers
          <5>2. CASE d = c
            BY <1>1, <1>2, <1>3, <2>5, <3>2, <5>2
          <5> QED
            BY <5>1, <5>2
        <4>2. CASE Asset(c) # HostArchive
          BY <1>1, <2>1, <3>2, <3>5, <4>2, DeliveryBounds
        <4> QED
          BY <4>1, <4>2
      <3> QED
        BY <1>2, <3>4, <3>5
    <2> QED
      BY <1>1, <2>1, <2>3, <2>4, <2>5 DEF CallIsGood, Intact, Matches
  <1> QED
    BY <1>1, <1>4 DEF FilesAreGood, InstalledIsGood, Intact, Matches

(* Every step keeps them good. *)
LEMMA GoodStep ==
    ASSUME DeliveryTypes, FilesAreGood, VerifiersInstallNothing, [DeliveryNext]_deliveryVars
    PROVE  FilesAreGood'
  <1> USE DEF host, cache
  <1>0. InstalledIsGood /\ \A c \in Calls : CallIsGood(c)
    BY DEF FilesAreGood
  <1>1. ASSUME UNCHANGED <<archives, swapped, step, tag, unverified, digest, installed>>,
               \A c \in Calls : candidate'[c] \in {candidate[c], Nothing}
        PROVE  FilesAreGood'
    <2>1. ASSUME NEW c \in Calls PROVE CallIsGood(c)'
      BY <1>0, <1>1 DEF CallIsGood, Active, Intact, Matches
    <2> QED
      BY <1>0, <1>1, <2>1 DEF FilesAreGood, InstalledIsGood, Intact, Matches
  <1>2. CASE PublishRelease \/ (\E t \in ReleaseTags, k \in Kinds : Reupload(t, k)) \/ UNCHANGED deliveryVars
    BY <1>1, <1>2 DEF PublishRelease, Reupload, deliveryVars
  <1>3. ASSUME NEW c \in Calls, Cancel(c) \/ SweepCandidate(c) \/ Transient(c) \/ RetryTimer(c)
        PROVE  FilesAreGood'
    <2>1. UNCHANGED <<archives, swapped, step, tag, unverified, digest, installed>>
      BY <1>3 DEF Cancel, SweepCandidate, Transient, RetryTimer
    <2>2. candidate' = candidate \/ candidate' = [candidate EXCEPT ![c] = Nothing]
      BY <1>3 DEF Cancel, SweepCandidate, Transient, RetryTimer
    <2>3. \A d \in Calls : candidate'[d] \in {candidate[d], Nothing}
      BY <2>2 DEF DeliveryTypes, CallsTyped
    <2> QED
      BY <1>1, <2>1, <2>3
  <1>4. ASSUME NEW c \in Calls, EndFailed(c) \/ KillCall(c) PROVE FilesAreGood'
    <2>1. UNCHANGED <<archives, swapped, tag, unverified, digest, installed>>
      BY <1>4 DEF EndFailed, KillCall
    <2>2. step'[c] \in {"failed", "killed"}
      BY <1>4 DEF EndFailed, KillCall, GoTo, DeliveryTypes, CallsTyped
    <2>3. \A d \in Calls \ {c} : step'[d] = step[d] /\ candidate'[d] = candidate[d]
      BY <1>4 DEF EndFailed, KillCall, GoTo, DeliveryTypes, CallsTyped
    <2>4. CallIsGood(c)'
      BY <2>2 DEF CallIsGood, Active, Ended
    <2>5. InstalledIsGood'
      BY <1>0, <2>1 DEF InstalledIsGood, Intact, Matches
    <2> QED
      BY <2>1, <2>3, <2>4, <2>5, OthersStayGood
  <1>5. ASSUME NEW c \in Calls, ResolveRelease(c) PROVE FilesAreGood'
    <2>1. /\ UNCHANGED <<archives, swapped, candidate, installed, digest>>
          /\ step' = [step EXCEPT ![c] = "archive"] /\ \E t : tag' = [tag EXCEPT ![c] = t]
          /\ unverified' = [unverified EXCEPT ![c] = IF c \in Installers THEN {HostArchive} ELSE Archives]
      BY <1>5 DEF ResolveRelease, GoTo
    <2>2. step'[c] = "archive" /\ (c \in Verifiers => unverified'[c] = Archives)
      BY <2>1, DeliveryBounds DEF DeliveryTypes, CallsTyped
    <2>3. \A d \in Calls \ {c} : /\ step'[d] = step[d] /\ tag'[d] = tag[d] /\ digest'[d] = digest[d]
                                /\ unverified'[d] = unverified[d] /\ candidate'[d] = candidate[d]
      BY <2>1 DEF DeliveryTypes, CallsTyped
    <2>4. CallIsGood(c)'
      BY <2>2 DEF CallIsGood
    <2>5. InstalledIsGood'
      BY <1>0, <2>1 DEF InstalledIsGood, Intact, Matches
    <2> QED
      BY <2>1, <2>3, <2>4, <2>5, OthersStayGood
  <1>6. ASSUME NEW c \in Calls, Checksum(c) \/ HashArchive(c) \/ Attest(c) \/ Extract(c), ~EndFailed(c)
        PROVE  FilesAreGood'
    <2>1. UNCHANGED <<archives, swapped, tag, installed>>
      BY <1>6 DEF Checksum, HashArchive, Attest, Extract
    <2>2. Active(c) /\ Asset(c) \in unverified[c] /\ Asset(c) \in Archives /\ (c \in Installers => Asset(c) = HostArchive)
      <3>1. Active(c)
        BY <1>6 DEF Checksum, HashArchive, Attest, Extract, Active, Ended
      <3>2. Asset(c) \in unverified[c]
        BY <3>1, AssetUnverified DEF DeliveryTypes, CallsAreSane
      <3> QED
        BY <3>1, <3>2 DEF DeliveryTypes, CallsTyped, CallsAreSane
    <2>3. \A d \in Calls \ {c} : /\ step'[d] = step[d] /\ tag'[d] = tag[d] /\ digest'[d] = digest[d]
                                /\ unverified'[d] = unverified[d] /\ candidate'[d] = candidate[d]
      BY <1>6 DEF Checksum, HashArchive, Attest, Extract, GoTo, DeliveryTypes, CallsTyped
    <2>4. InstalledIsGood'
      BY <1>0, <2>1 DEF InstalledIsGood, Intact, Matches
    <2>5. CallIsGood(c)
      BY <1>0
    <2>6. CASE Checksum(c)
      <3>1. step'[c] = "hash" /\ UNCHANGED <<unverified, digest>>
        BY <1>6, <2>6 DEF Checksum, GoTo, DeliveryTypes, CallsTyped
      <3>2. CallIsGood(c)'
        BY <2>1, <2>2, <2>5, <3>1 DEF CallIsGood, Intact, Matches
      <3> QED
        BY <2>1, <2>3, <2>4, <3>2, OthersStayGood
    <2>7. CASE HashArchive(c)
      <3>1. step'[c] = "bundle" /\ UNCHANGED unverified
        BY <1>6, <2>7 DEF HashArchive, GoTo, DeliveryTypes, CallsTyped
      <3>2. /\ digest'[c][Asset(c)] = archives[Asset(c)]
            /\ \A a \in Archives \ {Asset(c)} : digest'[c][a] = digest[c][a]
        <4>1. digest' = [digest EXCEPT ![c][Asset(c)] = archives[Asset(c)]]
          BY <1>6, <2>7 DEF HashArchive
        <4>2. digest \in [Calls -> [Archives -> Files]]
          BY DEF DeliveryTypes, CallsTyped
        <4>3. digest'[c] = [digest[c] EXCEPT ![Asset(c)] = archives[Asset(c)]]
          BY <4>1, <4>2
        <4> QED
          BY <2>2, <4>2, <4>3
      <3>3. CallIsGood(c)'
        BY <2>1, <2>2, <2>5, <3>1, <3>2 DEF CallIsGood, Intact, Matches
      <3> QED
        BY <2>1, <2>3, <2>4, <3>3, OthersStayGood
    <2>8. CASE Attest(c)
      <3>1. UNCHANGED digest /\ step[c] = "attest" /\ Intact(digest[c][Asset(c)], tag[c])
        BY <1>6, <2>8 DEF Attest, Attested, Intact, Matches
      <3>2. CASE c \in Installers
        <4>1. step'[c] = "extract" /\ c \notin Verifiers
          BY <1>6, <2>8, <3>2, DeliveryBounds DEF Attest, GoTo, DeliveryTypes, CallsTyped
        <4>2. CallIsGood(c)'
          BY <2>1, <2>2, <2>5, <3>1, <3>2, <4>1 DEF CallIsGood, Intact, Matches
        <4> QED
          BY <2>1, <2>3, <2>4, <4>2, OthersStayGood
      <3>3. CASE c \notin Installers
        <4>1. step'[c] \in {"verified", "archive"} /\ unverified'[c] = unverified[c] \ {Asset(c)}
          BY <1>6, <2>8, <3>3 DEF Attest, GoTo, DeliveryTypes, CallsTyped
        <4>2. CallIsGood(c)'
          BY <2>1, <2>2, <2>5, <3>1, <3>3, <4>1 DEF CallIsGood, Intact, Matches
        <4> QED
          BY <2>1, <2>3, <2>4, <4>2, OthersStayGood
      <3> QED
        BY <3>2, <3>3
    <2>9. CASE Extract(c)
      <3>1. /\ step'[c] = "replace" /\ step[c] = "extract" /\ UNCHANGED <<unverified, digest>>
            /\ candidate'[c] = archives[HostArchive]
        BY <1>6, <2>9 DEF Extract, GoTo, DeliveryTypes, CallsTyped
      <3>2. c \in Installers /\ c \notin Verifiers
        BY <3>1, DeliveryBounds DEF VerifiersInstallNothing
      <3>3. CallIsGood(c)'
        BY <2>1, <2>5, <3>1, <3>2 DEF CallIsGood, Intact, Matches
      <3> QED
        BY <2>1, <2>3, <2>4, <3>3, OthersStayGood
    <2> QED
      BY <1>6, <2>6, <2>7, <2>8, <2>9
  <1>7. ASSUME NEW c \in Calls, ReplaceBinary(c), ~EndFailed(c) PROVE FilesAreGood'
    <2>1. /\ UNCHANGED <<archives, swapped, tag, unverified, digest>> /\ step[c] = "replace"
          /\ installed' = [content |-> candidate[c], tag |-> tag[c], swapped |-> c \in swapped]
          /\ candidate[c] # Nothing
      BY <1>7 DEF ReplaceBinary
    <2>2. step'[c] = "installed"
          /\ \A d \in Calls \ {c} : step'[d] = step[d] /\ candidate'[d] = candidate[d]
      BY <1>7 DEF ReplaceBinary, GoTo, DeliveryTypes, CallsTyped
    <2>3. CallIsGood(c)'
      BY <2>2 DEF CallIsGood, Active, Ended
    <2>4. InstalledIsGood'
      BY <1>0, <2>1 DEF InstalledIsGood, CallIsGood, Intact, Matches
    <2> QED
      BY <2>1, <2>2, <2>3, <2>4, OthersStayGood
  <1> QED
    BY <1>2, <1>3, <1>4, <1>5, <1>6, <1>7, AnswerIsGood
       DEF DeliveryNext, CallStep, ResolveFailed, DownloadFailed

(* Whatever the host serves, damages or replaces, and whatever the calls write to the cache they *)
(* share, what a verifier has verified and what an installer has put in place is the intact      *)
(* archive of the tag that call returned, unless the archive was swapped after it was hashed:    *)
(* for any calls, archives, tags and uploads.                                                    *)
THEOREM DeliveryVerifies == DeliverySpec => []InstalledAsVerified
  <1>1. DeliveryInit => FilesAreGood /\ VerifiersInstallNothing
    BY DEF DeliveryInit, FilesAreGood, CallIsGood, InstalledIsGood, Active, VerifiersInstallNothing
  <1>2. DeliveryTypes /\ FilesAreGood /\ VerifiersInstallNothing /\ [DeliveryNext]_deliveryVars
            => (FilesAreGood /\ VerifiersInstallNothing)'
    BY GoodStep, OnlyInstallersInstall
  <1>3. DeliveryTypes /\ FilesAreGood => InstalledAsVerified
    <2> SUFFICES ASSUME DeliveryTypes, FilesAreGood PROVE InstalledAsVerified
      OBVIOUS
    <2>1. ASSUME NEW c \in Verifiers, step[c] = "verified" PROVE \A a \in Archives : Intact(digest[c][a], tag[c])
      <3>1. unverified[c] = {}
        BY <2>1 DEF DeliveryTypes, CallsAreSane, Calls
      <3> QED
        BY <2>1, <3>1 DEF FilesAreGood, CallIsGood, Calls
    <2> QED
      BY <2>1 DEF FilesAreGood, InstalledIsGood, InstalledAsVerified
  <1> QED
    BY <1>1, <1>2, <1>3, DeliveryTypesHold, PTL DEF DeliverySpec

-----------------------------------------------------------------------------
(***************************************************************************)
(* Why a release that can be seen is whole, for any platforms, binaries,   *)
(* filters and reruns: a leg that is packaged is never run again, and its  *)
(* archives are those of all its binaries, signed where they had to be.    *)
(***************************************************************************)

(* The bounds are numbers, and every binary of a platform is one of the release's assets. *)
LEMMA ReleaseFacts ==
    /\ darwinSignAttempts \in Nat \ {0} /\ MaxReruns \in Nat
    /\ \A x \in Pairs : x[2] \in ReleasePlatforms
    /\ \A p \in ReleasePlatforms : BuiltFor(p) \subseteq Pairs
    /\ \A x \in Pairs : x \in releaseAssetNames <=> x \in BuiltFor(x[2])
    /\ \A p \in ReleasePlatforms : \A x \in BuiltFor(p) : x[2] = p
  BY ReleaseAssumption DEF ReleaseAssumption, Pairs, BuiltFor, releaseAssetNames

(* The legs, the files of each and the release keep to their types. *)
THEOREM ReleaseTypeCorrect == ReleaseSpec => []ReleaseTypeOK
  <1> USE ReleaseFacts
  <1>1. ReleaseInit => ReleaseTypeOK
    BY DEF ReleaseInit, ReleaseTypeOK, LegStates, NoRelease
  <1>2. ReleaseTypeOK /\ [ReleaseNext]_releaseVars => ReleaseTypeOK'
    <2> SUFFICES ASSUME ReleaseTypeOK, [ReleaseNext]_releaseVars PROVE ReleaseTypeOK'
      OBVIOUS
    <2> USE DEF ReleaseTypeOK, LegStates, Packaging
    <2>1. CASE StartRelease
      BY <2>1 DEF StartRelease
    <2>2. ASSUME NEW p \in ReleasePlatforms, CompileLeg(p) PROVE ReleaseTypeOK'
      BY <2>2 DEF CompileLeg
    <2>3. ASSUME NEW p \in ReleasePlatforms, CompileFails(p) PROVE ReleaseTypeOK'
      BY <2>3 DEF CompileFails
    <2>4. ASSUME NEW x \in Pairs, SignBinary(x) PROVE ReleaseTypeOK'
      BY <2>4 DEF SignBinary
    <2>5. ASSUME NEW p \in ReleasePlatforms, SigningDone(p) PROVE ReleaseTypeOK'
      BY <2>5 DEF SigningDone
    <2>6. ASSUME NEW p \in ReleasePlatforms, ArchiveLeg(p) PROVE ReleaseTypeOK'
      BY <2>6 DEF ArchiveLeg
    <2>7. ASSUME NEW p \in ReleasePlatforms, PackageFails(p) PROVE ReleaseTypeOK'
      BY <2>7 DEF PackageFails
    <2>8. ASSUME NEW p \in ReleasePlatforms, RerunLeg(p) PROVE ReleaseTypeOK'
      BY <2>8 DEF RerunLeg
    <2>9. CASE Publish
      BY <2>9 DEF Publish, Uploaded
    <2>10. CASE RerunPublish
      BY <2>10 DEF RerunPublish
    <2>11. CASE VerifyRelease
      BY <2>11 DEF VerifyRelease
    <2>12. CASE UNCHANGED releaseVars
      BY <2>12 DEF releaseVars
    <2> QED
      BY <2>1, <2>2, <2>3, <2>4, <2>5, <2>6, <2>7, <2>8, <2>9, <2>10, <2>11, <2>12
         DEF ReleaseNext
  <1> QED
    BY <1>1, <1>2, PTL DEF ReleaseSpec

\* What a leg has when it is compiled, signed and packaged.
Compiled(p) == \A x \in BuiltFor(p) : binary[x] # "absent"
MustBeSigned(p) == p \in Darwin /\ (config.material \/ config.required)
Signed(p) == MustBeSigned(p) => \A x \in BuiltFor(p) : binary[x] = "signed"
Packaged(p) ==
    \A x \in BuiltFor(p) :
        /\ archive[x] # "absent"
        /\ MustBeSigned(p) => archive[x] = "signed"
        /\ pipeline = "matrix" => x \in bundle_of

LegsHave ==
    \A p \in ReleasePlatforms :
        /\ leg[p] \in {"compiled", "signed"} => Compiled(p)
        /\ leg[p] = "signed" => Signed(p)
        /\ leg[p] = "packaged" => Packaged(p)

\* Nothing is made before the release starts, and nothing that is not listed.
OnlyAssets ==
    /\ bundle_of \subseteq releaseAssetNames
    /\ \A x \in Pairs : archive[x] # "absent" => x \in releaseAssetNames
    /\ pipeline = "none" =>
        (\A p \in ReleasePlatforms : leg[p] = "todo") /\ released = NoRelease

\* What is published is what the legs have packaged, and no leg leaves that state.
PublishedIsPackaged ==
    released # NoRelease =>
        released = Uploaded /\ \A p \in ReleasePlatforms : leg[p] = "packaged"

ReleaseInv == LegsHave /\ OnlyAssets /\ PublishedIsPackaged

(* A release in which some jobs failed and were run again, or whose publishing job failed, is    *)
(* whole all the same, with every archive signed that had to be: release.go leaves no way to     *)
(* publish part of it.                                                                           *)
THEOREM ReleasedStaysWhole == ReleaseSpec => []ReleasedIsWhole
  <1> USE ReleaseFacts
  <1>1. ReleaseInit => ReleaseInv
    BY DEF ReleaseInit, ReleaseInv, LegsHave, OnlyAssets, PublishedIsPackaged
  <1>2. ReleaseTypeOK /\ ReleaseInv /\ [ReleaseNext]_releaseVars => ReleaseInv'
    <2> SUFFICES ASSUME ReleaseTypeOK, ReleaseInv, [ReleaseNext]_releaseVars PROVE ReleaseInv'
      OBVIOUS
    <2> USE DEF ReleaseInv, LegsHave, OnlyAssets, PublishedIsPackaged, Compiled, Signed,
                Packaged, MustBeSigned, Uploaded
    <2>1. CASE StartRelease
      BY <2>1 DEF StartRelease
    <2>2. ASSUME NEW p \in ReleasePlatforms, CompileLeg(p) PROVE ReleaseInv'
      BY <2>2 DEF CompileLeg, ReleaseTypeOK
    <2>3. ASSUME NEW p \in ReleasePlatforms, CompileFails(p) PROVE ReleaseInv'
      BY <2>3 DEF CompileFails, ReleaseTypeOK
    <2>4. ASSUME NEW x \in Pairs, SignBinary(x) PROVE ReleaseInv'
      BY <2>4 DEF SignBinary, Packaging, ReleaseTypeOK
    <2>5. ASSUME NEW p \in ReleasePlatforms, SigningDone(p) PROVE ReleaseInv'
      BY <2>5 DEF SigningDone, Packaging, MustSign, ReleaseTypeOK
    <2>6. ASSUME NEW p \in ReleasePlatforms, ArchiveLeg(p) PROVE ReleaseInv'
      BY <2>6 DEF ArchiveLeg, ReleaseTypeOK
    <2>7. ASSUME NEW p \in ReleasePlatforms, PackageFails(p) PROVE ReleaseInv'
      BY <2>7 DEF PackageFails, Packaging, ReleaseTypeOK
    <2>8. ASSUME NEW p \in ReleasePlatforms, RerunLeg(p) PROVE ReleaseInv'
      BY <2>8 DEF RerunLeg, ReleaseTypeOK
    <2>9. CASE Publish
      BY <2>9 DEF Publish
    <2>10. CASE RerunPublish
      BY <2>10 DEF RerunPublish
    <2>11. CASE VerifyRelease
      BY <2>11 DEF VerifyRelease
    <2>12. CASE UNCHANGED releaseVars
      BY <2>12 DEF releaseVars
    <2> QED
      BY <2>1, <2>2, <2>3, <2>4, <2>5, <2>6, <2>7, <2>8, <2>9, <2>10, <2>11, <2>12
         DEF ReleaseNext
  <1>3. ReleaseInv => ReleasedIsWhole
    BY DEF ReleaseInv, LegsHave, OnlyAssets, PublishedIsPackaged, Packaged, MustBeSigned,
           Uploaded, ReleasedIsWhole, releaseAssetNames
  <1> QED
    BY <1>1, <1>2, <1>3, ReleaseTypeCorrect, PTL DEF ReleaseSpec

-----------------------------------------------------------------------------
(***************************************************************************)
(* Why the service that runs is that of the unit file once the calls have  *)
(* ended, for any number of overlapping calls and failures: whoever renamed *)
(* the file last reloads after it, and restarts after that.                *)
(***************************************************************************)

(* The bound on what fails is a number. *)
LEMMA FailureBound == MaxFailures \in Nat
  BY ServiceAssumption DEF ServiceAssumption

(* The unit, what the manager has of it, and the calls keep to their types. *)
THEOREM ServiceTypeCorrect == ServiceSpec => []ServiceTypeOK
  <1> USE FailureBound
  <1>1. ServiceInit => ServiceTypeOK
    <2> SUFFICES ASSUME ServiceInit PROVE ServiceTypeOK
      OBVIOUS
    <2>1. /\ manager \in Managers \cup {NoUnit}
          /\ {unit, loaded, running} \subseteq Definitions \cup {NoUnit}
          /\ intact \subseteq ServiceCalls /\ unsettled \in BOOLEAN
      BY DEF ServiceInit
    <2>2. at_call \in [ServiceCalls -> Called \cup {"idle", "unchanged", "done", "error"}]
      BY DEF ServiceInit
    <2>3. wanted \in [ServiceCalls -> Definitions \cup {NoUnit}]
      BY DEF ServiceInit
    <2>4. failures \in 0..MaxFailures
      BY DEF ServiceInit
    <2> QED
      BY <2>1, <2>2, <2>3, <2>4 DEF ServiceTypeOK
  <1>2. ServiceTypeOK /\ [ServiceNext]_serviceVars => ServiceTypeOK'
    <2> SUFFICES ASSUME ServiceTypeOK, [ServiceNext]_serviceVars PROVE ServiceTypeOK'
      OBVIOUS
    <2> USE DEF ServiceTypeOK, Move, Settled, EndsBadly, ServiceFault, Called, MidWay
    <2>1. ASSUME NEW c \in ServiceCalls, BeginService(c) PROVE ServiceTypeOK'
      BY <2>1 DEF BeginService
    <2>2. ASSUME NEW c \in ServiceCalls, CompareUnit(c) PROVE ServiceTypeOK'
      BY <2>2 DEF CompareUnit
    <2>3. ASSUME NEW c \in ServiceCalls, RenameUnit(c) PROVE ServiceTypeOK'
      BY <2>3 DEF RenameUnit
    <2>4. ASSUME NEW c \in ServiceCalls, DaemonReload(c) PROVE ServiceTypeOK'
      BY <2>4 DEF DaemonReload
    <2>5. ASSUME NEW c \in ServiceCalls, EnableUnit(c) PROVE ServiceTypeOK'
      BY <2>5 DEF EnableUnit
    <2>6. ASSUME NEW c \in ServiceCalls, Restart(c) PROVE ServiceTypeOK'
      BY <2>6 DEF Restart
    <2>7. ASSUME NEW c \in ServiceCalls, BootOut(c) PROVE ServiceTypeOK'
      BY <2>7 DEF BootOut
    <2>8. ASSUME NEW c \in ServiceCalls, Bootstrap(c) PROVE ServiceTypeOK'
      BY <2>8 DEF Bootstrap
    <2>9. ASSUME NEW c \in ServiceCalls, BootstrapRefused(c) PROVE ServiceTypeOK'
      BY <2>9 DEF BootstrapRefused
    <2>10. ASSUME NEW c \in ServiceCalls, CallFails(c) PROVE ServiceTypeOK'
      BY <2>10 DEF CallFails
    <2>11. CASE ServiceDies
      BY <2>11 DEF ServiceDies
    <2>13. ASSUME NEW c \in ServiceCalls, AskManager(c) PROVE ServiceTypeOK'
      BY <2>13 DEF AskManager
    <2>12. CASE UNCHANGED serviceVars
      BY <2>12 DEF serviceVars
    <2> QED
      BY <2>1, <2>2, <2>3, <2>4, <2>5, <2>6, <2>7, <2>8, <2>9, <2>10, <2>11, <2>12, <2>13
         DEF ServiceNext
  <1> QED
    BY <1>1, <1>2, PTL DEF ServiceSpec

\* Each manager's installer takes its own steps.
StepsOfManager ==
    \A c \in ServiceCalls :
        /\ manager # "systemd" => at_call[c] \notin {"reloaded", "enabled"}
        /\ manager # "launchd" => at_call[c] # "bootedOut"

\* A call that has yet to have the manager read the file (systemd), or to end (launchd).
WillLoad ==
    \E c \in ServiceCalls :
        IF manager = "systemd" THEN at_call[c] = "renamed" ELSE at_call[c] \in MidWay
WillStart == \E c \in ServiceCalls : at_call[c] \in MidWay

LoadedIsRight == loaded \in {unit, NoUnit}
RunningIsRight == running \in {unit, NoUnit}

\* What the manager has, or runs, may be old only while a call is on its way to change that, or
\* after one has failed; a call since whose rename nothing failed has seen to it itself.
ServiceInv ==
    /\ StepsOfManager
    /\ LoadedIsRight \/ unsettled \/ WillLoad
    /\ RunningIsRight \/ unsettled \/ WillStart
    /\ \A c \in intact : at_call[c] \in {"reloaded", "enabled"} => LoadedIsRight \/ WillLoad

(* Calls that overlap in any order leave the service running what the file says, unless one      *)
(* failed between its rename and its end and none has gone through since: the early return for   *)
(* an unchanged unit in service.go skips nothing that is needed.                                 *)
THEOREM QuietServiceStaysCurrent == ServiceSpec => []QuietServiceIsCurrent
  <1> USE FailureBound
  <1>1. ServiceInit => ServiceInv
    BY DEF ServiceInit, ServiceInv, StepsOfManager, LoadedIsRight, RunningIsRight
  <1>2. ServiceTypeOK /\ ServiceInv /\ [ServiceNext]_serviceVars => ServiceInv'
    <2> SUFFICES ASSUME ServiceTypeOK, ServiceInv, [ServiceNext]_serviceVars PROVE ServiceInv'
      OBVIOUS
    <2> USE DEF ServiceTypeOK, ServiceInv, StepsOfManager, WillLoad, WillStart, LoadedIsRight,
                RunningIsRight, Move, MidWay, Called, Managers, NoUnit
    <2>1. ASSUME NEW c \in ServiceCalls, BeginService(c) PROVE ServiceInv'
      BY <2>1 DEF BeginService
    <2>2. ASSUME NEW c \in ServiceCalls, CompareUnit(c) PROVE ServiceInv'
      BY <2>2 DEF CompareUnit
    <2>3. ASSUME NEW c \in ServiceCalls, RenameUnit(c) PROVE ServiceInv'
      BY <2>3 DEF RenameUnit
    <2>4. ASSUME NEW c \in ServiceCalls, DaemonReload(c) PROVE ServiceInv'
      BY <2>4 DEF DaemonReload
    <2>5. ASSUME NEW c \in ServiceCalls, EnableUnit(c) PROVE ServiceInv'
      BY <2>5 DEF EnableUnit
    <2>6. ASSUME NEW c \in ServiceCalls, Restart(c) PROVE ServiceInv'
      BY <2>6 DEF Restart, Settled
    <2>7. ASSUME NEW c \in ServiceCalls, BootOut(c) PROVE ServiceInv'
      BY <2>7 DEF BootOut, ServiceFault
    <2>8. ASSUME NEW c \in ServiceCalls, Bootstrap(c) PROVE ServiceInv'
      BY <2>8 DEF Bootstrap, Settled
    <2>9. ASSUME NEW c \in ServiceCalls, BootstrapRefused(c) PROVE ServiceInv'
      BY <2>9 DEF BootstrapRefused, EndsBadly
    <2>10. ASSUME NEW c \in ServiceCalls, CallFails(c) PROVE ServiceInv'
      BY <2>10 DEF CallFails, EndsBadly
    <2>11. CASE ServiceDies
      BY <2>11 DEF ServiceDies
    <2>13. ASSUME NEW c \in ServiceCalls, AskManager(c) PROVE ServiceInv'
      BY <2>13 DEF AskManager
    <2>12. CASE UNCHANGED serviceVars
      BY <2>12 DEF serviceVars
    <2> QED
      BY <2>1, <2>2, <2>3, <2>4, <2>5, <2>6, <2>7, <2>8, <2>9, <2>10, <2>11, <2>12, <2>13
         DEF ServiceNext
  <1>3. ServiceInv => QuietServiceIsCurrent
    BY DEF ServiceInv, QuietServiceIsCurrent, WillLoad, WillStart, LoadedIsRight,
           RunningIsRight, MidWay, Called
  <1> QED
    BY <1>1, <1>2, <1>3, ServiceTypeCorrect, PTL DEF ServiceSpec
=============================================================================
