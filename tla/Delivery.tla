------------------------------ MODULE Delivery ------------------------------
(***************************************************************************)
(* The download, verification and extraction of release archives without   *)
(* the update lock: InstallReleaseBinary, which go-mk-install calls, and   *)
(* VerifyReleaseAssets.  Every call works in one cache directory, where an *)
(* archive and its provenance bundle are named by the asset alone and the  *)
(* checksum file by repository and tag.  The release host is outside: it   *)
(* publishes tags, and may replace the files of a tag one by one.  A file  *)
(* is modelled by the tag and the upload it is of; a checksum file and a   *)
(* bundle match the archive of the same tag and upload.                    *)
(***************************************************************************)
EXTENDS Naturals, FiniteSets

CONSTANTS
    Installers,  \* calls of InstallReleaseBinary
    Verifiers,   \* calls of VerifyReleaseAssets
    Archives,    \* the .tar.gz assets of a release
    HostArchive, \* the one for this platform
    downloadAttempts, \* attempts for one download, the first included: 3 in the code
    MaxTag,      \* bound: how many releases are published
    MaxUpload,   \* bound: how often one file of a release is uploaded
    MaxUpsets    \* bound: uploads replaced, bodies damaged, calls cancelled or killed, sweeps

ASSUME DeliveryAssumption ==
    /\ downloadAttempts \in Nat \ {0}
    /\ HostArchive \in Archives /\ Installers \cap Verifiers = {}
    /\ MaxTag \in Nat \ {0} /\ MaxUpload \in Nat \ {0} /\ MaxUpsets \in Nat

Calls == Installers \cup Verifiers
ReleaseTags == 1..MaxTag
Kinds == {"archive", "sums", "bundle"}
Damaged == 0                \* no upload: bytes that match nothing
NotCached == MaxUpload + 1  \* no checksum file yet
Nothing == [tag |-> 0, upload |-> 0]
Files == [tag : ReleaseTags, upload : 0..MaxUpload] \cup {Nothing}
Fetching == {"archive", "sums", "bundle"}
Ended == {"verified", "installed", "failed", "killed"}

VARIABLES
    upsets,    \* how many there were
    newest,    \* the newest release, 0 before the first
    served,    \* served[t][k]: the upload of that file the host serves
    archives,  \* the cached archives
    checksums, \* the cached checksum file of each tag
    bundle,    \* the cached bundle of each archive
    step,      \* where each call is
    request,   \* its download: to be sent, in flight, or waiting to retry
    attempt,   \* which attempt that is
    tag,       \* the release it resolved
    unverified,      \* the archives it has still to verify
    digest,    \* digest[c][a]: the bytes it hashed for the attestation of archive a
    candidate, \* the extracted binary beside the installed one
    cancelled, \* the calls whose context is cancelled
    swapped,   \* history: the archive was replaced by another call after it was hashed, before it is read
    installed  \* the installed binary: its content, the tag that call returned, whether it was swapped

deliveryVars == <<upsets, newest, served, archives, checksums, bundle, step, request, attempt, tag,
                  unverified, digest, candidate, cancelled, swapped, installed>>
host == <<newest, served, upsets>>
cache == <<archives, checksums, bundle>>

DeliveryTypeOK ==
    /\ newest \in 0..MaxTag /\ upsets \in 0..MaxUpsets
    /\ served \in [ReleaseTags -> [Kinds -> 1..MaxUpload]]
    /\ archives \in [Archives -> Files] /\ bundle \in [Archives -> Files]
    /\ checksums \in [ReleaseTags -> 0..NotCached]
    /\ step \in [Calls -> {"idle", "checksum", "hash", "attest", "extract", "replace"}
                            \cup Fetching \cup Ended]
    /\ request \in [Calls -> {"unsent", "in flight", "waiting"}]
    /\ attempt \in [Calls -> 1..downloadAttempts]
    /\ tag \in [Calls -> 0..MaxTag] /\ unverified \in [Calls -> SUBSET Archives]
    /\ digest \in [Calls -> [Archives -> Files]] /\ candidate \in [Calls -> Files]
    /\ cancelled \subseteq Calls /\ swapped \subseteq Calls
    /\ installed \in [content : Files, tag : 0..MaxTag, swapped : BOOLEAN]

DeliveryInit ==
    /\ newest = 0 /\ upsets = 0
    /\ served = [t \in ReleaseTags |-> [k \in Kinds |-> 1]]
    /\ archives = [a \in Archives |-> Nothing] /\ bundle = archives
    /\ checksums = [t \in ReleaseTags |-> NotCached]
    /\ step = [c \in Calls |-> "idle"]
    /\ request = [c \in Calls |-> "unsent"] /\ attempt = [c \in Calls |-> 1]
    /\ tag = [c \in Calls |-> 0] /\ unverified = [c \in Calls |-> {}]
    /\ digest = [c \in Calls |-> archives] /\ candidate = [c \in Calls |-> Nothing]
    /\ cancelled = {} /\ swapped = {}
    /\ installed = [content |-> Nothing, tag |-> 0, swapped |-> FALSE]

Upset == upsets < MaxUpsets /\ upsets' = upsets + 1

Active(c) == step[c] \notin Ended \cup {"idle"}

-----------------------------------------------------------------------------
(* The release host and the caller. *)

PublishRelease ==
    /\ newest < MaxTag
    /\ newest' = newest + 1
    /\ UNCHANGED <<served, upsets, cache, step, request, attempt, tag, unverified, digest, candidate,
                   cancelled, swapped, installed>>

\* One file of a published release is uploaded again under its name.
Reupload(t, k) ==
    /\ t <= newest /\ served[t][k] < MaxUpload /\ Upset
    /\ served' = [served EXCEPT ![t][k] = @ + 1]
    /\ UNCHANGED <<newest, cache, step, request, attempt, tag, unverified, digest, candidate,
                   cancelled, swapped, installed>>

Cancel(c) ==
    /\ Active(c) /\ c \notin cancelled /\ Upset
    /\ cancelled' = cancelled \cup {c}
    /\ UNCHANGED <<newest, served, cache, step, request, attempt, tag, unverified, digest, candidate,
                   swapped, installed>>

-----------------------------------------------------------------------------
(* One call. *)

GoTo(c, s) == step' = [step EXCEPT ![c] = s]

\* A request is sent unless the context is cancelled by then.
Send(c) == request' = [request EXCEPT ![c] = IF c \in cancelled THEN "unsent" ELSE "in flight"]

\* resolveRequestedRelease: the newest entry of the feed or, for an installer's version and for
\* a verifier, the tag asked for, and the assets its checksum file lists.
ResolveRelease(c) ==
    /\ step[c] = "idle"
    /\ \E t \in 1..newest : tag' = [tag EXCEPT ![c] = t]
    /\ unverified' = [unverified EXCEPT ![c] = IF c \in Installers THEN {HostArchive} ELSE Archives]
    /\ GoTo(c, "archive") /\ Send(c)
    /\ UNCHANGED <<host, cache, attempt, digest, candidate, cancelled, swapped, installed>>

\* The asset a call is at: releases list them in one order.
Asset(c) == CHOOSE a \in unverified[c] : a = HostArchive \/ HostArchive \notin unverified[c]

Idle(c) == request' = [request EXCEPT ![c] = "unsent"]

\* The others that have hashed what c's download of the archive is renamed over, and not read it yet.
Readers(c) ==
    {d \in Calls \ {c} : step[d] \in {"bundle", "attest", "extract"} /\ Asset(d) = Asset(c)}

\* A whole body, renamed over the cached file: what the host serves now, or damaged bytes.
Answered(c) ==
    /\ request[c] = "in flight"
    /\ \E u \in {Damaged, served[tag[c]][step[c]]} :
        /\ IF u = Damaged THEN Upset ELSE UNCHANGED upsets
        /\ LET file == [tag |-> tag[c], upload |-> u]
           IN  CASE step[c] = "archive" ->
                       /\ archives' = [archives EXCEPT ![Asset(c)] = file]
                       /\ swapped' = swapped \cup Readers(c)
                       /\ IF checksums[tag[c]] = NotCached
                          THEN GoTo(c, "sums") /\ Send(c)
                          ELSE GoTo(c, "checksum") /\ Idle(c)
                       /\ UNCHANGED <<checksums, bundle>>
                 [] step[c] = "sums" ->
                       /\ checksums' = [checksums EXCEPT ![tag[c]] = u]
                       /\ GoTo(c, "checksum") /\ Idle(c)
                       /\ UNCHANGED <<archives, bundle, swapped>>
                 [] step[c] = "bundle" ->
                       /\ bundle' = [bundle EXCEPT ![Asset(c)] = file]
                       /\ GoTo(c, "attest") /\ Idle(c)
                       /\ UNCHANGED <<archives, checksums, swapped>>
    /\ attempt' = [attempt EXCEPT ![c] = 1]
    /\ UNCHANGED <<newest, served, tag, unverified, digest, candidate, cancelled, installed>>

\* A 5xx answer or a network error: another attempt after a wait, unless it was the last.
Transient(c) ==
    /\ request[c] = "in flight" /\ attempt[c] < downloadAttempts
    /\ request' = [request EXCEPT ![c] = "waiting"]
    /\ UNCHANGED <<host, cache, step, attempt, tag, unverified, digest, candidate, cancelled, swapped,
                   installed>>

RetryUncounted(c) ==
    /\ request[c] = "waiting"
    /\ Send(c)
    /\ UNCHANGED <<host, cache, step, attempt, tag, unverified, digest, candidate, cancelled, swapped,
                   installed>>

RetryTimer(c) ==
    /\ request[c] = "waiting"
    /\ Send(c)
    /\ attempt' = [attempt EXCEPT ![c] = @ + 1]
    /\ UNCHANGED <<host, cache, step, tag, unverified, digest, candidate, cancelled, swapped, installed>>

\* Any failure that is not retried removes the temporary file and the candidate.
EndFailed(c) ==
    /\ GoTo(c, "failed")
    /\ Idle(c)
    /\ candidate' = [candidate EXCEPT ![c] = Nothing]
    /\ UNCHANGED <<host, cache, attempt, tag, unverified, digest, cancelled, swapped, installed>>

\* A refusal, a file too large, a disk error, the last attempt, or a cancelled context.
DownloadFailed(c) ==
    /\ step[c] \in Fetching
    /\ request[c] = "in flight" \/ c \in cancelled
    /\ EndFailed(c)

ResolveFailed(c) == step[c] = "idle" /\ EndFailed(c)

Matches(file, t, upload) == file = [tag |-> t, upload |-> upload] /\ upload # Damaged

\* verifyChecksum: the cached checksum file against the bytes now in the archive's place.
Checksum(c) ==
    /\ step[c] = "checksum"
    /\ IF Matches(archives[Asset(c)], tag[c], checksums[tag[c]])
       THEN /\ GoTo(c, "hash")
            /\ UNCHANGED <<host, cache, request, attempt, tag, unverified, digest, candidate, cancelled,
                           swapped, installed>>
       ELSE EndFailed(c)

HashArchive(c) ==
    /\ step[c] = "hash"
    /\ digest' = [digest EXCEPT ![c][Asset(c)] = archives[Asset(c)]]
    /\ GoTo(c, "bundle") /\ Send(c)
    /\ UNCHANGED <<host, cache, attempt, tag, unverified, candidate, cancelled, swapped, installed>>

AttestedAnyTag(c) == bundle[Asset(c)] = digest[c][Asset(c)] /\ bundle[Asset(c)].upload # Damaged

\* verifyBuildProvenanceBundle: the bundle now in its place must attest the digest and be bound
\* to the tag.  VerifyReleaseAssets then takes the next archive.
Attested(c) ==
    LET b == bundle[Asset(c)] IN b = digest[c][Asset(c)] /\ Matches(b, tag[c], b.upload)

Attest(c) ==
    /\ step[c] = "attest"
    /\ IF Attested(c)
       THEN /\ IF c \in Installers
               THEN GoTo(c, "extract") /\ UNCHANGED <<unverified, request>>
               ELSE /\ unverified' = [unverified EXCEPT ![c] = @ \ {Asset(c)}]
                    /\ IF unverified[c] = {Asset(c)}
                       THEN GoTo(c, "verified") /\ UNCHANGED request
                       ELSE GoTo(c, "archive") /\ Send(c)
            /\ UNCHANGED <<host, cache, attempt, tag, digest, candidate, cancelled,
                           swapped, installed>>
       ELSE EndFailed(c)

\* extractCandidate unpacks whatever now holds the archive's place.
Extract(c) ==
    /\ step[c] = "extract"
    /\ IF archives[HostArchive].upload = Damaged
       THEN EndFailed(c)
       ELSE /\ candidate' = [candidate EXCEPT ![c] = archives[HostArchive]]
            /\ GoTo(c, "replace")
            /\ UNCHANGED <<host, cache, request, attempt, tag, unverified, digest, cancelled, swapped,
                           installed>>

\* recoverInterruptedInstall of an updater that holds the lock removes every candidate it finds.
SweepCandidate(c) ==
    /\ candidate[c] # Nothing /\ Upset
    /\ candidate' = [candidate EXCEPT ![c] = Nothing]
    /\ UNCHANGED <<newest, served, cache, step, request, attempt, tag, unverified, digest, cancelled, swapped,
                   installed>>

ReplaceBinary(c) ==
    /\ step[c] = "replace"
    /\ IF candidate[c] = Nothing
       THEN EndFailed(c)
       ELSE /\ installed' = [content |-> candidate[c], tag |-> tag[c], swapped |-> c \in swapped]
            /\ candidate' = [candidate EXCEPT ![c] = Nothing]
            /\ GoTo(c, "installed")
            /\ UNCHANGED <<host, cache, request, attempt, tag, unverified, digest, cancelled, swapped>>

\* A call that dies leaves its candidate behind.
KillCall(c) ==
    /\ Active(c) /\ Upset
    /\ GoTo(c, "killed")
    /\ Idle(c)
    /\ UNCHANGED <<newest, served, cache, attempt, tag, unverified, digest, candidate, cancelled, swapped,
                   installed>>

CallStep(c) ==
    \/ ResolveRelease(c) \/ ResolveFailed(c) \/ Answered(c) \/ Transient(c) \/ RetryTimer(c)
    \/ DownloadFailed(c) \/ Checksum(c) \/ HashArchive(c) \/ Attest(c) \/ Extract(c)
    \/ ReplaceBinary(c)

DeliveryNext ==
    \/ PublishRelease
    \/ \E t \in ReleaseTags, k \in Kinds : Reupload(t, k)
    \/ \E c \in Calls : CallStep(c) \/ Cancel(c) \/ SweepCandidate(c) \/ KillCall(c)

DeliverySpec == DeliveryInit /\ [][DeliveryNext]_deliveryVars

-----------------------------------------------------------------------------
(* Whatever the host serves, damages or replaces, however stale the cached checksum file is, and *)
(* whatever other calls write to the cache they all share: all that a verifier has verified, and   *)
(* the binary an installer has put in place, is the intact archive of the tag that call returned.  *)
(* The one way around it, for an installer, is an archive that another call renames into the       *)
(* cache after the hash that is attested and before the extraction, which reads it by its name.    *)
Intact(file, t) == Matches(file, t, file.upload)

InstalledAsVerified ==
    /\ \/ installed.content = Nothing \/ installed.swapped
       \/ Intact(installed.content, installed.tag)
    /\ \A c \in Verifiers : step[c] = "verified" => \A a \in Archives : Intact(digest[c][a], tag[c])

(* Retries end: a call that has started returns, however often the host answers 5xx. *)
CallsEnd == \A c \in Calls : Active(c) ~> ~Active(c)
=============================================================================
